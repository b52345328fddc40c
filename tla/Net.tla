------------------------------- MODULE Net -------------------------------
(***************************************************************************)
(* Descriptors and frames: io/io_net.c, and the opening of block devices   *)
(* in io/io_bdev.c.                                                        *)
(*                                                                         *)
(* N: the calls that create sockets, metered by an accountant that may be  *)
(*    attached, detached or replaced meanwhile; closes through xtc_net and *)
(*    behind its back.  The kernel hands out the lowest free number.       *)
(* F: length-prefixed frames over a stream that takes and gives any number *)
(*    of bytes at a time.                                                  *)
(***************************************************************************)
EXTENDS Integers, Sequences, FiniteSets
LOCAL INSTANCE SequencesExt
LOCAL INSTANCE FiniteSetsExt

CONSTANTS
  Threads,        \* N: the threads
  Accts,          \* N: accountants
  None,
  ResCap,         \* N: their cap of XTC_RES_FDS
  Fds,            \* N: the descriptors the process may have, 0 .. some number
  FirstCap,       \* N: the first size of __net_fd_res, in place of 64
  MayRaw,         \* N: the user opens and closes descriptors of its own
  MaxCalls,       \* N: bound on the calls
  Frames,         \* F: the frames to send, each a sequence of piece lengths
  Base, HdrLen,   \* F: the prefix has HdrLen digits of base Base, in place of 4 and 256
  PipeCap,        \* F: bytes the stream holds
  Chunk,          \* F: XTC_NET_IO_CHUNK
  MaxLen,         \* F: max_len of the receiver, 0 for none
  MayExpire       \* F: the receiver has a deadline

VARIABLE st

----------------------------------------------------------------------------
(* N.  st has the fields
     open              the descriptors that are open
     own               the descriptors the user holds
     ulp, seen         the ones that carry kernel TLS; __net_ktls_seen
     att               __net_res
     used              the units charged to each accountant
     rec, cap          __net_fd_res, __net_fd_cap
     backlog           connections the listener has not accepted
     th                th[t]: the call of thread t; r is the accountant it charged (or gives
                       back to), fd its descriptor, old the buffered one of a block device
     metered           history: the accountant to which a descriptor in own is charged
     behind            history: closed behind xtc_net's back, the number not used since
     calls, killed     calls made; history: a close killed the process with SIGPIPE *)

Quiet == [pc |-> "idle", kind |-> None, r |-> None, fd |-> -1, old |-> -1]

NInit ==
  st = [open |-> {}, own |-> {}, ulp |-> {}, seen |-> FALSE, att |-> None,
        used |-> [r \in Accts |-> 0], rec |-> [f \in Fds |-> None], cap |-> 0, backlog |-> 1,
        th |-> [t \in Threads |-> Quiet], metered |-> [f \in Fds |-> None], behind |-> {},
        calls |-> 0, killed |-> FALSE]

At(s, t, x) == [s EXCEPT !.th[t].pc = x]
End(s, t) == [s EXCEPT !.th[t] = Quiet]
Calls(t) == st.th[t].pc = "idle" /\ st.calls < MaxCalls
Spare == Fds \ st.open
Opened(s) == [s EXCEPT !.open = @ \cup {Min(Spare)}]
Closed(s, f) == [s EXCEPT !.open = @ \ {f}, !.ulp = @ \ {f}]

(* The descriptor is the user's. *)
Handed(s, t, r) ==
  LET f == s.th[t].fd
  IN  End([s EXCEPT !.own = @ \cup {f}, !.metered[f] = r, !.behind = @ \ {f}], t)

xtc_res_attach_net(r) ==
  /\ st.att # r /\ st.calls < MaxCalls
  /\ st' = [st EXCEPT !.att = r, !.calls = @ + 1]

(* The creating calls' own steps.  Each of them may fail; those after the descriptor was
   opened (socket, accept, open) then close it. *)
__net_listen_raw == <<"socket", "nonblock", "resolve", "bind", "listen">>
__net_dial_raw == <<"resolve", "socket", "nonblock", "connect">>
__net_unix_listen_raw == <<"socket", "nonblock", "bind", "listen">>
__net_unix_dial_raw == <<"socket", "nonblock", "connect">>
__net_udp_socket_raw == <<"socket", "nonblock", "address", "bind">>
__net_accept_raw == <<"accept", "nonblock">>
BdevSteps == <<"open", "alloc", "probe">>

(* What of its steps a call has to do with: where it begins, and what opens the descriptor. *)
Kind(steps) ==
  CASE steps[1] = "resolve" -> "dial" [] steps[1] = "accept" -> "accept"
    [] steps[1] = "open" -> "bdev" [] OTHER -> "plain"

(* __net_charge: the charge comes first, and at the cap the call is over. *)
__net_charge(s, t, r) ==
  IF r = None THEN s
  ELSE IF st.used[r] >= ResCap THEN End(s, t) ELSE [s EXCEPT !.used[r] = @ + 1]

(* A creating call begins.  A dial resolves its address before there is a socket. *)
Creates(t, steps, r) ==
  /\ Calls(t)
  /\ st' = __net_charge([st EXCEPT !.calls = @ + 1,
              !.th[t] = [Quiet EXCEPT !.kind = Kind(steps), !.r = r,
                           !.pc = IF steps[1] = "resolve" THEN "resolve" ELSE "socket"]], t, r)

xtc_net_listen_backlog(t) == Creates(t, __net_listen_raw, st.att)
xtc_net_dial(t) == Creates(t, __net_dial_raw, st.att)
xtc_net_unix_listen(t) == Creates(t, __net_unix_listen_raw, st.att)
xtc_net_unix_dial(t) == Creates(t, __net_unix_dial_raw, st.att)
xtc_net_udp_socket(t) == Creates(t, __net_udp_socket_raw, st.att)
xtc_net_accept(t) == Creates(t, __net_accept_raw, st.att)
xtc_bdev_open(t) == Creates(t, BdevSteps, None)

__resolve_addr(t) ==
  /\ st.th[t].pc = "resolve"
  /\ \E x \in {"socket", "refund"} : st' = At(st, t, x)

(* socket(2), accept(2) or open(2): none left, nothing to accept, or the lowest number. *)
Sockets(t) ==
  /\ st.th[t].pc = "socket"
  /\ IF Spare = {} \/ (st.th[t].kind = "accept" /\ st.backlog = 0)
     THEN st' = At(st, t, "refund")
     ELSE st' = [Opened(At(st, t, "setup")) EXCEPT
                   !.th[t].fd = Min(Spare),
                   !.backlog = IF st.th[t].kind = "accept" THEN @ - 1 ELSE @]

SetupFails(s, t) == At(Closed(s, s.th[t].fd), t, "refund")

(* The rest of the steps: non-blocking and close-on-exec, options, the address, bind, listen
   or connect; whichever fails closes the socket.  A file is probed, and a device opened
   again for direct I/O. *)
Sets(t) ==
  /\ st.th[t].pc = "setup"
  /\ \/ st' = SetupFails(st, t)
     \/ st.th[t].kind # "bdev" /\ st' = At(st, t, "settle")
     \/ st.th[t].kind = "bdev" /\ st' = Handed(st, t, None)
     \/ /\ st.th[t].kind = "bdev" /\ Spare # {}
        /\ st' = [Opened(At(st, t, "direct")) EXCEPT !.th[t].old = st.th[t].fd,
                                                    !.th[t].fd = Min(Spare)]

Direct(t) ==
  /\ st.th[t].pc = "direct"
  /\ st' = Handed(Closed(st, st.th[t].old), t, None)

(* The table covers descriptor f after doubling. *)
Grown(f) ==
  LET c == IF st.cap = 0 THEN FirstCap ELSE st.cap
  IN  Min({n \in {c * 2 ^ i : i \in 0 .. Cardinality(Fds)} : n > f})

(* __net_settle of a call that succeeded: the charge is recorded under the descriptor; an
   entry that is already there is of a descriptor closed behind xtc_net's back. *)
__net_settle(t) ==
  /\ st.th[t].pc = "settle"
  /\ LET r == st.th[t].r
         f == st.th[t].fd
         g == [st EXCEPT !.cap = IF f >= @ THEN Grown(f) ELSE @, !.rec[f] = r]
     IN  \/ r = None /\ st' = Handed(st, t, None)
         \/ /\ r # None
            /\ st' = IF st.rec[f] = None \/ f >= st.cap THEN Handed(g, t, r)
                     ELSE [At(g, t, "stale") EXCEPT !.th[t].r = st.rec[f],
                             !.own = @ \cup {f}, !.metered[f] = r, !.behind = @ \ {f}]
         \/ r # None /\ f >= st.cap /\ st' = At(st, t, "giveback")

(* The table could not grow: the socket is closed, and then the charge given back. *)
GivesBack(t) ==
  /\ st.th[t].pc = "giveback"
  /\ st' = At(Closed(st, st.th[t].fd), t, "refund")


UnitBack(s, t) == [s EXCEPT !.used[s.th[t].r] = @ - 1]

Refunds(t) ==
  /\ st.th[t].pc \in {"refund", "stale"}
  /\ st' = End(IF st.th[t].r = None THEN st ELSE UnitBack(st, t), t)

CloseOrder == <<"forget", "close">>

(* xtc_net_close of a descriptor the user holds: the charge is forgotten, the unit given back
   and the descriptor closed. *)
xtc_net_close(t, f) ==
  /\ Calls(t) /\ f \in st.own
  /\ st' = [st EXCEPT !.calls = @ + 1, !.own = @ \ {f}, !.metered[f] = None,
              !.th[t] = [Quiet EXCEPT !.pc = CloseOrder[1], !.fd = f, !.kind = "close"]]

AfterClosing(s, t, x) == IF CloseOrder[1] = x THEN At(s, t, CloseOrder[2]) ELSE End(s, t)

Forgets(t) ==
  /\ st.th[t].pc = "forget"
  /\ LET f == st.th[t].fd
         r == st.rec[f]
     IN  st' = IF f >= st.cap \/ r = None THEN AfterClosing(st, t, "forget")
               ELSE [At(st, t, "release") EXCEPT !.rec[f] = None, !.th[t].r = r,
                                                 !.behind = @ \ {f}]

Releases(t) ==
  /\ st.th[t].pc = "release"
  /\ st' = AfterClosing(UnitBack([st EXCEPT !.th[t].kind = "close"], t), t, "forget")

(* SIGPIPE is held off for the close of a socket with kernel TLS, once any had it. *)
HeldOff(f) == st.seen /\ f \in st.ulp

(* The close itself may flush a record to a peer that is gone and raise SIGPIPE: held off it
   is consumed, or left pending when the user blocks it anyway. *)
__net_close_raw(t) ==
  /\ st.th[t].pc = "close"
  /\ LET f == st.th[t].fd
     IN  \E raised \in IF f \in st.ulp THEN BOOLEAN ELSE {FALSE} :
           st' = AfterClosing([Closed(st, f) EXCEPT !.killed = @ \/ (raised /\ ~HeldOff(f))],
                              t, "close")

(* xtc_tls_enable_ktls, before the handshake that puts the socket under kernel TLS. *)
Ktls(f) ==
  /\ f \in st.own \ st.ulp /\ st.calls < MaxCalls
  /\ st' = [st EXCEPT !.seen = TRUE, !.ulp = @ \cup {f}, !.calls = @ + 1]

(* The user's own close(2) and socket(2). *)
RawClose(f) ==
  /\ MayRaw /\ f \in st.own /\ st.calls < MaxCalls
  /\ st' = [Closed(st, f) EXCEPT !.own = @ \ {f}, !.calls = @ + 1, !.metered[f] = None,
              !.behind = IF st.rec[f] # None THEN @ \cup {f} ELSE @]
RawOpen ==
  /\ MayRaw /\ Spare # {} /\ st.calls < MaxCalls
  /\ st' = [Opened(st) EXCEPT !.own = @ \cup {Min(Spare)}, !.calls = @ + 1]

NNext ==
  \/ \E t \in Threads :
       \/ xtc_net_listen_backlog(t) \/ xtc_net_dial(t) \/ xtc_net_unix_listen(t)
       \/ xtc_net_unix_dial(t) \/ xtc_net_udp_socket(t) \/ xtc_net_accept(t) \/ xtc_bdev_open(t)
       \/ __resolve_addr(t) \/ Sockets(t) \/ Sets(t) \/ Direct(t) \/ __net_settle(t)
       \/ GivesBack(t) \/ Refunds(t) \/ \E f \in Fds : xtc_net_close(t, f)
       \/ Forgets(t) \/ Releases(t) \/ __net_close_raw(t)
  \/ \E r \in Accts \cup {None} : xtc_res_attach_net(r)
  \/ \E f \in Fds : Ktls(f) \/ RawClose(f)
  \/ RawOpen

(* The calls that hold a unit of r. *)
Holding(r) ==
  {t \in Threads : st.th[t].r = r /\ st.th[t].pc \notin {"idle", "close"}}

(* The units charged to an accountant are those of the calls under way and of the entries
   that name it; a descriptor a metered call handed out has its entry until it is closed; and
   an entry is of a descriptor in use, or of one closed behind xtc_net's back. *)
FdsBalance ==
  /\ \A r \in Accts :
       /\ st.used[r] = Cardinality({f \in Fds : st.rec[f] = r}) + Cardinality(Holding(r))
       /\ st.used[r] <= ResCap
  /\ \A f \in st.own : st.metered[f] # None => st.rec[f] = st.metered[f]
  /\ \A f \in Fds : st.rec[f] # None =>
       f \in st.own \/ f \in st.behind \/ \E t \in Threads : st.th[t].fd = f

(* No socket is left open that nobody holds: a call that fails part-way, or whose charge
   cannot be recorded, closes what it opened, and only that. *)
NoFdLeft ==
  st.open = st.own \cup UNION {{st.th[t].fd, st.th[t].old} \ { -1 } :
                                 t \in {u \in Threads : st.th[u].pc \notin {"refund", "stale"}}}
           \cup {st.th[t].fd : t \in {u \in Threads : st.th[u].pc = "stale"}}

(* "a library must never do that to its host": no close of a kernel TLS socket kills it. *)
NeverKilled == ~st.killed

----------------------------------------------------------------------------
(* F.  A byte of a payload is <<frame, index>>, of a prefix a digit.  st has the fields
     wire              the bytes in the stream
     sent              the frames whose sending began, each a sequence of piece lengths
     w                 the sender's vector: sequences of bytes still to go, <<>> between calls
     out               history: all the bytes put into the stream
     shut              the sender closed the stream, or it broke
     pc, hdr, frame    the receiver's call: idle, hdr or body, and the bytes it has
     len               the length the prefix told
     got               history: the payloads received
     sync              history: no receive was left part-way
     mem               frame buffers allocated and not freed
     ans               history: what the last receive returned *)

FInit ==
  st = [wire |-> <<>>, sent |-> <<>>, w |-> <<>>, out |-> <<>>, shut |-> FALSE, pc |-> "idle",
        hdr |-> <<>>, frame |-> <<>>, len |-> 0, got |-> <<>>, sync |-> TRUE, mem |-> 0,
        ans |-> "none"]

Total(p) == FoldLeft(LAMBDA a, b : a + b, 0, p)
(* The length as digits, the most significant first; and back. *)
Prefix(n) == [i \in 1 .. HdrLen |-> (n \div Base ^ (HdrLen - i)) % Base]
Length(h) == FoldLeft(LAMBDA a, d : a * Base + d, 0, h)

(* The payload of the k-th frame, and its pieces. *)
Payload(k, n) == [i \in 1 .. n |-> <<k, i>>]
Pieces(k, p) ==
  [j \in DOMAIN p |-> [i \in 1 .. p[j] |-> <<k, Total(SubSeq(p, 1, j - 1)) + i>>]]

(* xtc_net_send_framev: the prefix and the pieces that are not empty. *)
xtc_net_send_framev ==
  /\ st.w = <<>> /\ ~st.shut /\ Len(st.sent) < Len(Frames)
  /\ LET k == Len(st.sent) + 1
         p == Frames[k]
     IN  st' = [st EXCEPT !.sent = Append(@, p),
                  !.w = <<Prefix(Total(p))>> \o SelectSeq(Pieces(k, p), LAMBDA x : x # <<>>)]

(* The vector after `done` bytes went out. *)
RECURSIVE Advanced(_, _)
Advanced(w, done) ==
  IF done = 0 THEN w
  ELSE IF done >= Len(w[1]) THEN Advanced(Tail(w), done - Len(w[1]))
  ELSE <<SubSeq(w[1], done + 1, Len(w[1]))>> \o Tail(w)

(* sendmsg(2) takes some of the bytes, as many as there is room for at most; with none the
   caller waits until the stream can be written. *)
SendMsg ==
  /\ st.w # <<>> /\ ~st.shut
  /\ LET all == FlattenSeq(st.w)
     IN  \E n \in 1 .. Min({Len(all), PipeCap - Len(st.wire)}) :
           st' = [st EXCEPT !.wire = @ \o SubSeq(all, 1, n), !.out = @ \o SubSeq(all, 1, n),
                            !.w = Advanced(@, n)]

(* The stream ends or breaks; a send under way fails. *)
Shuts ==
  /\ ~st.shut
  /\ st' = [st EXCEPT !.shut = TRUE, !.w = <<>>]

Begins ==
  /\ st.pc = "idle" /\ st.ans \notin {"closed", "range", "again"}
  /\ st' = [st EXCEPT !.pc = "hdr", !.hdr = <<>>, !.frame = <<>>, !.len = 0, !.ans = "none"]

(* The receive returns: with a frame, ... *)
Returns(s) == [s EXCEPT !.pc = "idle", !.ans = "ok", !.got = Append(@, s.frame)]

(* ... or without, the buffer freed; the bytes it took are gone. *)
GivesUp(s, why) ==
  [s EXCEPT !.pc = "idle", !.ans = why, !.sync = @ /\ s.pc = "hdr" /\ s.hdr = <<>>,
            !.mem = IF s.pc = "body" THEN @ - 1 ELSE @]

(* What the prefix tells, once it is whole. *)
Told(s) ==
  LET n == Length(s.hdr)
  IN  IF MaxLen > 0 /\ n > MaxLen THEN [GivesUp(s, "range") EXCEPT !.sync = FALSE]
      ELSE IF n = 0 THEN Returns(s)
      ELSE [s EXCEPT !.pc = "body", !.len = n, !.mem = @ + 1]

(* How much recv(2) is asked for. *)
Wanted == IF st.pc = "hdr" THEN HdrLen - Len(st.hdr) ELSE Min({st.len - Len(st.frame), Chunk})

(* recv(2) gives some of the bytes. *)
Recv ==
  /\ st.pc # "idle" /\ st.wire # <<>>
  /\ \E n \in 1 .. Min({Wanted, Len(st.wire)}) :
       LET b == SubSeq(st.wire, 1, n)
           s == [st EXCEPT !.wire = SubSeq(@, n + 1, Len(@)),
                           !.hdr = IF st.pc = "hdr" THEN @ \o b ELSE @,
                           !.frame = IF st.pc = "body" THEN @ \o b ELSE @]
       IN  st' = IF st.pc = "hdr" THEN (IF Len(s.hdr) = HdrLen THEN Told(s) ELSE s)
                 ELSE IF Len(s.frame) >= s.len THEN Returns(s) ELSE s

(* The peer closed; the deadline passed in __net_wait_fd. *)
RecvEnds ==
  /\ st.pc # "idle" /\ st.wire = <<>> /\ st.shut
  /\ st' = GivesUp(st, "closed")
__net_wait_fd ==
  /\ st.pc # "idle" /\ st.wire = <<>> /\ ~st.shut /\ MayExpire
  /\ st' = GivesUp(st, IF st.pc = "hdr" /\ st.hdr = <<>> THEN "later" ELSE "again")

FNext ==
  \/ xtc_net_send_framev \/ SendMsg \/ Shuts \/ Begins \/ Recv \/ RecvEnds \/ __net_wait_fd

(* The bytes in the stream are the frames' own, each once and in order, whatever sizes the
   kernel took them in; between calls of a stream that did not break they are whole frames. *)
Encoded(k) == Prefix(Total(Frames[k])) \o Payload(k, Total(Frames[k]))
WireExact ==
  LET all == FlattenSeq([k \in 1 .. Len(st.sent) |-> Encoded(k)])
  IN  IsPrefix(st.out, all) /\ (st.w = <<>> /\ ~st.shut => st.out = all)

(* Until a receive is left part-way (a timeout, a close or a frame too long after some of it
   was read), the payloads received are those sent, whole and in order; and frame buffers are
   freed or handed over, one for each frame that is not empty. *)
FramesIntact ==
  /\ st.sync => \A k \in DOMAIN st.got : k <= Len(st.sent) /\ st.got[k] = Payload(k, Total(st.sent[k]))
  /\ st.mem = Cardinality({k \in DOMAIN st.got : st.got[k] # <<>>}) + (IF st.pc = "body" THEN 1 ELSE 0)
=============================================================================
