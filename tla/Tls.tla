-------------------------------- MODULE Tls --------------------------------
(***************************************************************************)
(* The TLS seam (src/io/tls_openssl.c, tls_mbedtls.c, tls_gnutls.c,        *)
(* tls_wolfssl.c, tls_schannel.c, tls_common.h): four machines that share  *)
(* no state.                                                               *)
(*                                                                         *)
(*  Q  OpenSSL's per-thread error queue under connections whose transport  *)
(*     callbacks yield the fiber;                                          *)
(*  K  kernel TLS: the SIGPIPE bracket and the direct write;               *)
(*  V  contexts, names, verification and the end of a stream, by backend;  *)
(*  W  SChannel's own buffering of records.                                *)
(*                                                                         *)
(* The libraries are external.  Left out: allocation failure, the wording  *)
(* of names and certificates (a certificate is whom it names and the root  *)
(* that signed it), ciphers and versions beyond "the library takes it".    *)
(***************************************************************************)
EXTENDS Integers, Sequences
LOCAL INSTANCE SequencesExt

CONSTANTS
  Conns,     \* Q: connections over a custom transport
  FdConns,   \* Q: connections over a descriptor
  MaxOps,    \* Q, K, W: calls
  Backend,   \* V: "openssl", "mbedtls", "gnutls", "wolfssl"
  Roles,     \* V: of the context
  NoSigpipe  \* K: the platform has SO_NOSIGPIPE
VARIABLE st

All == Conns \cup FdConns

-----------------------------------------------------------------------------
(* Q.  `cur` is the fiber that runs on the thread, `q` the thread's error queue, oldest
   first: "proto" is an entry with an SSL-library reason, "eof" the reason
   SSL_R_UNEXPECTED_EOF_WHILE_READING.  `fault` is what really befell the connection in
   this call. *)
Idle == "idle"

QInit ==
  st = [cur |-> Idle, q |-> <<>>, left |-> MaxOps,
        c |-> [x \in All |-> [pc |-> "out", op |-> "other", dir |-> "r", stash |-> <<>>, rc |-> "ok",
                              retry |-> "", alert |-> FALSE, fault |-> "none", wr |-> FALSE,
                              ww |-> FALSE, res |-> "OK"]]]

(* The application's own use of the library leaves an entry on the thread. *)
AppErrs ==
  /\ st.cur = Idle /\ st.q = <<>>
  /\ st' = [st EXCEPT !.q = <<"proto">>]

(* tls_op_begin, at the head of every call. *)
tls_op_begin(x, op) ==
  /\ st.cur = Idle /\ st.c[x].pc = "out" /\ st.left > 0
  /\ st' = [st EXCEPT !.cur = x, !.left = @ - 1, !.q = <<>>,
              !.c[x] = [@ EXCEPT !.pc = "lib", !.op = op, !.fault = "none", !.retry = "",
                                 !.alert = FALSE, !.wr = FALSE, !.ww = FALSE]]

(* The library computes: it is done, it has read the peer's close_notify, it needs the
   wire, or it fails, queues the reason and goes on to write the alert. *)
LibSteps(x) ==
  /\ st.cur = x /\ st.c[x].pc = "lib"
  /\ \/ st' = [st EXCEPT !.c[x].pc = "ret", !.c[x].rc = "ok"]
     \/ st' = [st EXCEPT !.c[x].pc = "ret", !.c[x].rc = "fail", !.c[x].fault = "closed"]
     \/ \E d \in {"r", "w"} : st' = [st EXCEPT !.c[x].pc = "bio", !.c[x].dir = d]
     \/ st' = [st EXCEPT !.q = Append(@, "proto"), !.c[x].fault = "proto", !.c[x].alert = TRUE,
                         !.c[x].pc = "bio", !.c[x].dir = "w"]

tls_err_save(s, x) == [s EXCEPT !.c[x].stash = s.q, !.q = <<>>]

tls_err_restore(s, x) == [s EXCEPT !.q = s.c[x].stash, !.c[x].stash = <<>>]

(* The BIO asks the caller's callback, which may yield the fiber. *)
BioCalls(x) ==
  /\ x \in Conns /\ st.cur = x /\ st.c[x].pc = "bio"
  /\ st' = [tls_err_save(st, x) EXCEPT !.cur = Idle, !.c[x].pc = "cb"]

(* What the wire gave goes back to the library: bytes (an alert is then out, and the call
   fails), XTC_E_AGAIN with the retry flag of the direction, end of file, a hard error.
   OpenSSL 3 queues a reason for an end of file, 1.1.1 does not. *)
Wire(s, x) ==
  LET k == s.c[x]
      Back(kk) == [s EXCEPT !.c[x] = kk]
      Fail(f) == IF k.alert THEN [k EXCEPT !.pc = "ret", !.rc = "fail"]
                 ELSE [k EXCEPT !.pc = "ret", !.rc = "fail", !.fault = f]
  IN {Back(IF k.alert THEN [k EXCEPT !.pc = "ret", !.rc = "fail"] ELSE [k EXCEPT !.pc = "lib"]),
      Back([k EXCEPT !.pc = "ret", !.rc = "fail", !.retry = k.dir]),
      Back(Fail("reset"))}
     \cup IF k.dir = "r" THEN {Back(Fail("eof")), [Back(Fail("eof")) EXCEPT !.q = Append(@, "eof")]}
          ELSE {}

transport_bio(x) ==
  /\ x \in Conns /\ st.cur = Idle /\ st.c[x].pc = "cb"
  /\ st' \in Wire([tls_err_restore(st, x) EXCEPT !.cur = x], x)

(* The descriptor's BIO sends and receives at once: no other fiber runs. *)
fd_bio(x) ==
  /\ x \in FdConns /\ st.cur = x /\ st.c[x].pc = "bio"
  /\ st' \in Wire(st, x)

(* SSL_get_error: anything on the thread's queue comes first, whoever put it there. *)
SSL_get_error(k, q) ==
  CASE q # <<>> -> "SSL"
    [] q = <<>> /\ k.retry = "r" -> "WANT_READ"
    [] q = <<>> /\ k.retry = "w" -> "WANT_WRITE"
    [] q = <<>> /\ k.retry = "" /\ k.fault = "closed" -> "ZERO_RETURN"
    [] OTHER -> "SYSCALL"

tls_fail(s, x, err) ==
  LET last == IF s.q = <<>> THEN "none" ELSE s.q[Len(s.q)]
      Ends(rc) == [s EXCEPT !.q = <<>>, !.c[x].res = rc]
  IN CASE err = "WANT_READ" -> [s EXCEPT !.c[x].wr = TRUE, !.c[x].res = "AGAIN"]
       [] err = "WANT_WRITE" -> [s EXCEPT !.c[x].ww = TRUE, !.c[x].res = "AGAIN"]
       [] err = "SYSCALL" -> Ends(IF last = "proto" THEN "INTERNAL" ELSE "IO")
       [] err = "ZERO_RETURN" -> Ends("IO")
       [] OTHER -> Ends(IF last = "eof" THEN "IO" ELSE "INTERNAL")

(* The ends of xtc_tls_read, which alone takes the peer's close_notify for an end of file,
   and of xtc_tls_handshake, xtc_tls_write and xtc_tls_shutdown, which are alike. *)
Returns(x) ==
  LET k == st.c[x]
      err == SSL_get_error(k, st.q)
      s1 == IF k.rc = "ok" THEN [st EXCEPT !.c[x].res = "OK"]
            ELSE IF k.op = "read" /\ err = "ZERO_RETURN" THEN [st EXCEPT !.q = <<>>, !.c[x].res = "OK"]
            ELSE tls_fail(st, x, err)
  IN /\ st.cur = x /\ k.pc = "ret"
     /\ st' = [s1 EXCEPT !.cur = Idle,
                 !.c[x] = [@ EXCEPT !.pc = IF @ = "ret" /\ s1.c[x].res \in {"OK", "AGAIN"} THEN "out" ELSE "dead",
                                    !.rc = "ok", !.retry = "", !.dir = "r", !.alert = FALSE]]

QNext ==
  \/ AppErrs
  \/ \E x \in All : \/ \E op \in {"read", "other"} : tls_op_begin(x, op)
                    \/ LibSteps(x) \/ BioCalls(x) \/ transport_bio(x) \/ fd_bio(x) \/ Returns(x)

(* A call reports what befell its own connection: a would-block names one direction and is
   never turned into a failure by an entry another fiber or the application queued, and
   this connection's own failure survives the yield in which its alert is written. *)
ErrorsOwn ==
  \A x \in All :
    LET k == st.c[x]
    IN k.pc \in {"out", "dead"} =>
         CASE k.res = "OK" -> k.fault = "none" \/ (k.fault = "closed" /\ k.op = "read")
           [] k.res = "AGAIN" -> k.fault = "none" /\ k.wr # k.ww
           [] k.res = "IO" -> k.fault \in {"eof", "reset", "closed"}
           [] OTHER -> k.fault = "proto"

-----------------------------------------------------------------------------
(* K.  `mask` and `pend` are the thread's SIGPIPE: blocked, pending; `theirs` is whether a
   pending one is the application's.  `wire` is what the socket carries, in order: the
   caller's chunks, numbered from 1, a KeyUpdate and the close_notify.  `buf` is the chunk an
   SSL_write holds for its retry, `todo` the chunk the caller writes next. *)
Ku == -1
Bye == -2

KInit ==
  \E m \in BOOLEAN :
    st = [ktls |-> FALSE, sigpipe |-> FALSE, init |-> FALSE, mask |-> m, pend |-> FALSE, theirs |-> FALSE,
          killed |-> FALSE, gone |-> FALSE, wpend |-> FALSE, buf |-> 0, todo |-> 1, ku |-> FALSE,
          wire |-> <<>>, lost |-> {}, told |-> {}, res |-> "OK", left |-> MaxOps]

(* xtc_tls_enable_ktls: before the handshake only. *)
enable_ktls ==
  /\ ~st.ktls /\ ~st.init
  /\ st' = [st EXCEPT !.ktls = TRUE, !.sigpipe = ~NoSigpipe]

(* ktls_sig_enter and ktls_sig_leave: the state after, with what leave reports. *)
ktls_sig_enter(s) ==
  [armed |-> s.sigpipe, old |-> s.mask, pre |-> s.sigpipe /\ s.mask /\ s.pend]
Masked(s) == IF s.sigpipe THEN [s EXCEPT !.mask = TRUE] ELSE s

ktls_sig_leave(s, k) ==
  LET hit == k.armed /\ ~k.pre /\ s.pend
  IN [hit |-> hit,
      s |-> [s EXCEPT !.pend = IF hit THEN FALSE ELSE @, !.mask = IF k.armed THEN k.old ELSE @]]

(* A send on a dead socket: the library's own BIO raises where the socket has no
   SO_NOSIGPIPE, and an unblocked SIGPIPE kills. *)
Raise(s) ==
  IF ~s.ktls \/ NoSigpipe THEN s
  ELSE IF s.mask THEN [s EXCEPT !.pend = TRUE]
  ELSE [s EXCEPT !.killed = TRUE]

(* What a call that writes can come to: it goes out, or a part, and it would block; or the peer is gone,
   and the kernel reports EPIPE or accepts the bytes into an open record all the same.
   `out` is what it puts on the wire. *)
Outcomes(s, out) ==
  IF s.gone
  THEN {[s |-> [Raise(s) EXCEPT !.lost = @ \cup {out[i] : i \in DOMAIN out}], rc |-> r] :
          r \in IF s.ktls /\ ~NoSigpipe THEN {"ok", "err"} ELSE {"err"}}
  ELSE {[s |-> [s EXCEPT !.wire = @ \o SubSeq(out, 1, k)], rc |-> IF k = Len(out) THEN "ok" ELSE "again"] :
          k \in 0 .. Len(out)}

ktls_direct_ok(s) ==
  s.ktls /\ ~s.wpend /\ s.init /\ Bye \notin {s.wire[i] : i \in DOMAIN s.wire} /\ ~s.ku

(* The call between enter and leave; write, sendfile and shutdown take a SIGPIPE of theirs
   for XTC_E_IO, whatever the call reported.  With one of the application's own pending the
   two cannot be told apart: `lost` does not count what was lost then. *)
Bracketed(out) ==
  LET k == ktls_sig_enter(st)
  IN {LET l == ktls_sig_leave(IF k.pre THEN [o.s EXCEPT !.lost = st.lost] ELSE o.s, k)
      IN [s |-> [l.s EXCEPT !.left = @ - 1], rc |-> IF l.hit THEN "hit" ELSE o.rc] :
        o \in Outcomes(Masked(st), out)}

Result(rc) == CASE rc = "ok" -> "OK" [] rc = "again" -> "AGAIN" [] OTHER -> "IO"

(* The caller goes on to the next chunk once it was told that this one is out. *)
Told(s, rc) ==
  IF rc = "ok" THEN [s EXCEPT !.res = "OK", !.told = @ \cup {s.todo}, !.todo = @ + 1]
  ELSE [s EXCEPT !.res = Result(rc)]

ktls_direct_write == \E o \in Bracketed(<<st.todo>>) : st' = Told(o.s, o.rc)

(* xtc_tls_write, the library's path: a KeyUpdate it owes, then what it holds. *)
SslWrite ==
  LET first == IF st.ku THEN <<Ku>> ELSE <<>>
      Then(s, rc) ==
        CASE rc = "ok" -> [Told(s, rc) EXCEPT !.wpend = FALSE, !.ku = FALSE, !.buf = 0]
          [] rc = "again" -> [s EXCEPT !.wpend = TRUE, !.buf = s.todo, !.res = "AGAIN",
                                       !.ku = @ /\ s.wire = st.wire]
          [] rc = "hit" -> [s EXCEPT !.res = "IO"]
          [] OTHER -> [s EXCEPT !.wpend = FALSE, !.res = "IO"]
  IN \E o \in Bracketed(first \o <<IF st.buf # 0 THEN st.buf ELSE st.todo>>) : st' = Then(o.s, o.rc)

Live == st.init /\ ~st.killed /\ st.left > 0 /\ st.res # "IO"

xtc_tls_write ==
  /\ Live /\ Bye \notin {st.wire[i] : i \in DOMAIN st.wire}
  /\ IF ktls_direct_ok(st) THEN ktls_direct_write ELSE SslWrite

(* xtc_tls_sendfile: the caller retries a pending write before it sends a file. *)
xtc_tls_sendfile ==
  /\ Live /\ st.ktls /\ ~st.wpend /\ Bye \notin {st.wire[i] : i \in DOMAIN st.wire}
  /\ \E o \in Bracketed(<<st.todo>>) : st' = Told(o.s, o.rc)

xtc_tls_shutdown ==
  /\ Live /\ ~st.wpend /\ Bye \notin {st.wire[i] : i \in DOMAIN st.wire}
  /\ \E o \in Bracketed(<<Bye>>) : st' = [o.s EXCEPT !.res = Result(o.rc)]

(* xtc_tls_handshake and xtc_tls_read keep the library's verdict over a SIGPIPE of the
   session tickets or of an alert; a read may find that the peer asks for a KeyUpdate. *)
KeepsVerdict(Then(_)) ==
  LET k == ktls_sig_enter(st)
  IN \E raises \in {FALSE, st.gone} :
       LET s1 == IF raises THEN Raise(Masked(st)) ELSE Masked(st)
       IN st' = [Then(ktls_sig_leave(s1, k).s) EXCEPT !.left = @ - 1]

KHandshake == ~st.init /\ st.left > 0 /\ KeepsVerdict(LAMBDA s : [s EXCEPT !.init = TRUE])
KRead == /\ Live
         /\ \E ku \in {st.ku, TRUE} : KeepsVerdict(LAMBDA s : [s EXCEPT !.ku = ku])

(* The peer goes; the application blocks SIGPIPE, has one of its own queued, takes it. *)
PeerGoes == ~st.gone /\ st' = [st EXCEPT !.gone = TRUE]
AppSignal ==
  \/ st.mask /\ ~st.pend /\ st' = [st EXCEPT !.pend = TRUE, !.theirs = TRUE]
  \/ st.mask /\ st.pend /\ st' = [st EXCEPT !.pend = FALSE, !.theirs = FALSE]

KNext ==
  \/ enable_ktls \/ KHandshake \/ KRead \/ xtc_tls_write \/ xtc_tls_sendfile \/ xtc_tls_shutdown
  \/ PeerGoes \/ AppSignal

(* No write kills the process, with or without the application's handling SIGPIPE, and the
   only SIGPIPE left pending on the thread is the application's own (ktls_sig_enter and
   ktls_sig_leave). *)
SigpipeKept == ~st.killed /\ st.pend = st.theirs

(* The socket carries the caller's chunks in the order of the calls, each once, and nothing
   after the close_notify: the direct write overtakes no SSL_write that waits for its
   retry.  A chunk the caller was told is out is on the wire, unless a SIGPIPE
   of the application's own hid the one that told of its loss. *)
WireOrdered ==
  LET data == SelectSeq(st.wire, LAMBDA x : x > 0)
  IN /\ data = [i \in 1 .. Len(data) |-> i]
     /\ \A i \in DOMAIN st.wire : st.wire[i] = Bye => i = Len(st.wire)
     /\ st.told \cap st.lost = {}

-----------------------------------------------------------------------------
(* V.  The options of a context: `cert`, `key`, `ca` are files, `alpn` a list in wire form.
   The peer's certificate names one party and is signed by a root. *)
Dns == {"name"}
Names == Dns \cup {"addr"}
NoOpts(role) == [role |-> role, null |-> TRUE, mode |-> "DEFAULT", legacy |-> FALSE, cert |-> "no",
                 key |-> "no", ca |-> "no", ver |-> "no", alpn |-> <<>>]
MaxWire == 3
Wires == UNION {[1 .. n -> 1 .. 2] : n \in 0 .. MaxWire}
Opts(role) ==
  LET o == [NoOpts(role) EXCEPT !.null = FALSE]
  IN {NoOpts(role)}
     \cup {[o EXCEPT !.mode = m, !.legacy = l, !.ca = c] :
             m \in {"DEFAULT", "NONE", "REQUEST", "REQUIRE"}, l \in BOOLEAN, c \in {"no", "good", "bad"}}
     \cup {[o EXCEPT !.cert = c, !.key = k, !.ca = "good"] :
             c \in {"no", "good", "bad"}, k \in {"no", "good", "other", "bad"}}
     \cup {[o EXCEPT !.ver = v, !.ca = "good"] : v \in {"ok", "bad"}}
     \cup {[o EXCEPT !.alpn = w, !.ca = "good"] : w \in Wires}
Peers == [given : BOOLEAN, root : {"ca", "sys", "other"}, name : Names]

VBlank ==
       [phase |-> "none", o |-> NoOpts("CLIENT"), alt |-> FALSE, auth |-> {}, anchors |-> {}, verify |-> "NONE",
        alpn |-> <<>>, dns |-> {}, ip |-> {}, host |-> "", applied |-> FALSE, copies |-> 0, asked |-> "",
        peer |-> CHOOSE p \in Peers : TRUE, in |-> 0, end |-> "open", op |-> "", rc |-> "", n |-> 0,
        wr |-> FALSE, ww |-> FALSE]
VInit == st = VBlank

resolve_verify(o) ==
  IF o.mode # "DEFAULT" THEN o.mode
  ELSE IF o.legacy \/ o.role = "CLIENT" THEN "REQUIRE" ELSE "NONE"

(* Each length byte is not zero and is covered by what follows. *)
xtc_tls_alpn_wire_ok(w) ==
  LET Ends[off \in 0 .. Len(w)] ==
        IF off = Len(w) THEN TRUE
        ELSE w[off + 1] # 0 /\ w[off + 1] <= Len(w) - off - 1 /\ Ends[off + 1 + w[off + 1]]
  IN Ends[0]

(* alpn_decode and alpn_to_csv: the names, each copied from behind its length. *)
alpn_decode(w) ==
  LET From[off \in 0 .. Len(w) + 2] ==
        IF off >= Len(w) THEN <<>>
        ELSE <<SubSeq(w, off + 2, off + 1 + w[off + 1])>> \o From[off + 1 + w[off + 1]]
  IN From[0]

Refused == [rc |-> "INVAL", auth |-> {}, anchors |-> {}]
CaAnchors(o) == IF o.ca = "good" THEN {"ca"} ELSE {}
SystemStore(o) == IF o.role = "CLIENT" /\ o.ca = "no" /\ resolve_verify(o) # "NONE" THEN {"sys"} ELSE {}

(* xtc_tls_ctx_create, by backend: what it refuses, and what it tells the library to ask of
   the peer ("PEER": a certificate that is given must verify; "FAIL": one must be given). *)
OpensslLoads(o) ==
  /\ o.cert # "bad" /\ o.key # "bad" /\ (o.key # "no" => o.cert = "good" /\ o.key = "good")
  /\ o.ver # "bad" /\ o.ca # "bad"
OpensslAlpn(o) == xtc_tls_alpn_wire_ok(o.alpn)
OpensslVerify(o) ==
  LET vm == resolve_verify(o)
  IN [rc |-> "OK", anchors |-> CaAnchors(o) \cup SystemStore(o),
      auth |-> IF vm = "NONE" THEN {}
               ELSE IF o.role = "SERVER" /\ vm = "REQUIRE" THEN {"PEER", "FAIL"} ELSE {"PEER"}]
OpensslCtx(o) == IF OpensslLoads(o) /\ OpensslAlpn(o) THEN OpensslVerify(o) ELSE Refused

MbedCtx(o) ==
  LET vm == resolve_verify(o)
  IN IF \/ o.role = "CLIENT" /\ vm # "NONE" /\ o.ca = "no"
        \/ o.cert = "bad" \/ o.key = "bad" \/ o.ver = "bad" \/ o.ca = "bad" \/ ~xtc_tls_alpn_wire_ok(o.alpn)
     THEN Refused
     ELSE [rc |-> "OK", anchors |-> CaAnchors(o),
           auth |-> IF vm = "NONE" \/ (o.role = "SERVER" /\ vm = "REQUEST") THEN {} ELSE {"PEER", "FAIL"}]

GnuCtx(o) ==
  IF \/ (o.cert = "no") # (o.key = "no")
     \/ o.cert = "bad" \/ o.key \in {"bad", "other"} \/ o.ca = "bad" \/ ~xtc_tls_alpn_wire_ok(o.alpn)
  THEN Refused
  ELSE [rc |-> "OK", anchors |-> CaAnchors(o) \cup SystemStore(o), auth |-> {}]

WolfCtx(o) ==
  IF o.cert = "bad" \/ o.key = "bad" \/ o.ver = "bad" \/ o.ca = "bad" \/ ~xtc_tls_alpn_wire_ok(o.alpn)
  THEN Refused
  ELSE LET vm == resolve_verify(o)
       IN [rc |-> "OK", anchors |-> CaAnchors(o) \cup SystemStore(o),
           auth |-> IF vm = "NONE" THEN {}
                    ELSE IF o.role = "SERVER" /\ vm = "REQUIRE" THEN {"PEER", "FAIL"} ELSE {"PEER"}]

CtxOf(o) ==
  CASE Backend = "openssl" -> OpensslCtx(o)
    [] Backend = "mbedtls" -> MbedCtx(o)
    [] Backend = "gnutls" -> GnuCtx(o)
    [] OTHER -> WolfCtx(o)

VCtxCreate(o) ==
  LET r == CtxOf(o)
  IN /\ st.phase = "none"
     /\ st' = IF r.rc # "OK" THEN [st EXCEPT !.rc = r.rc, !.phase = "gone"]
              ELSE [st EXCEPT !.phase = "ctx", !.o = o, !.auth = r.auth, !.anchors = r.anchors,
                              !.verify = resolve_verify(o), !.alpn = alpn_decode(o.alpn), !.rc = "OK"]

(* xtc_tls_create; gnutls sets what to ask of the peer on the session. *)
GnuCreate(s) ==
  [s EXCEPT !.auth = IF s.verify = "NONE" THEN {}
                     ELSE IF s.o.role = "CLIENT" THEN {"PEER"}
                     ELSE IF s.verify = "REQUEST" THEN {} ELSE {"FAIL"}]

(* The peer shows one certificate, a server always one.  The lists are the session's now. *)
VCreate(p) ==
  /\ st.phase = "ctx" /\ IF st.o.role = "CLIENT" THEN p.given ELSE p.name = "name"
  /\ st' = [(IF Backend = "gnutls" THEN GnuCreate(st) ELSE st) EXCEPT !.phase = "new", !.peer = p,
                 !.alpn = <<>>, !.o = [@ EXCEPT !.cert = "no", !.key = "no", !.ver = "no", !.alpn = <<>>]]

(* Both lists are cleared, then one is set. *)
tls_set1_peername(s, n) ==
  [s EXCEPT !.dns = {n} \cap Dns, !.ip = {n} \cap (Names \ Dns)]

(* xtc_tls_set_hostname on a client, by backend; on a server it does nothing. *)
OpensslName(s, n) == [tls_set1_peername(s, n) EXCEPT !.rc = "OK", !.asked = n]
MbedName(s, n) == [s EXCEPT !.host = n, !.rc = "OK", !.asked = n]
GnuName(s, n) == [s EXCEPT !.host = n, !.copies = IF n = "" THEN 0 ELSE 1, !.rc = "OK", !.asked = n]
WolfName(s, n) ==
  IF s.applied THEN [s EXCEPT !.rc = "INVAL"]
  ELSE [s EXCEPT !.host = n, !.copies = IF n = "" THEN 0 ELSE 1, !.rc = "OK", !.asked = n]

VSetHostname(n) ==
  /\ st.phase = "new" \/ (st.phase = "shaking" /\ Backend = "wolfssl")
  /\ st' = IF st.o.role # "CLIENT" THEN [st EXCEPT !.rc = "OK"]
           ELSE CASE Backend = "openssl" -> OpensslName(st, n)
                  [] Backend = "mbedtls" -> MbedName(st, n)
                  [] Backend = "gnutls" -> GnuName(st, n)
                  [] OTHER -> WolfName(st, n)

(* client_hello_cb: the caller's selector picks another context for the rest. *)
client_hello_cb(o) ==
  /\ st.phase \in {"new", "shaking"} /\ Backend = "openssl" /\ st.o.role = "SERVER" /\ ~st.alt
  /\ OpensslCtx(o).rc = "OK"
  /\ st' = [st EXCEPT !.alt = TRUE, !.o = [o EXCEPT !.cert = "no", !.key = "no", !.ver = "no", !.alpn = <<>>],
                      !.anchors = OpensslCtx(o).anchors, !.auth = OpensslCtx(o).auth]

(* What the library finds with what it was told to ask, `want` the names to match. *)
LibAccepts(s, want) ==
  /\ "FAIL" \in s.auth => s.peer.given
  /\ "PEER" \in s.auth /\ s.peer.given => s.peer.root \in s.anchors /\ \A w \in want : w = s.peer.name

MbedHandshake(s) ==
  /\ LibAccepts(s, {s.host} \ {""})
  /\ s.o.role = "SERVER" /\ s.verify = "REQUEST" => ~s.peer.given \/ s.peer.root \in s.anchors

GnuHandshake(s) ==
  /\ LibAccepts(s, {s.host} \ {""})
  /\ \/ s.verify = "NONE"
     \/ s.o.role = "SERVER" /\ s.verify = "REQUEST" /\ ~s.peer.given
     \/ s.peer.given /\ s.peer.root \in s.anchors /\ s.host \in {"", s.peer.name}

Accepts(s) ==
  CASE Backend = "openssl" -> LibAccepts(s, s.dns \cup s.ip)
    [] Backend = "mbedtls" -> MbedHandshake(s)
    [] Backend = "gnutls" -> GnuHandshake(s)
    [] OTHER -> LibAccepts(s, {s.host} \ {""})

(* xtc_tls_handshake: wolfSSL applies the name at the first step; the library would block,
   gnutls also meets an alert that is not fatal; or it comes to its verdict. *)
apply_hostname(s) == IF Backend = "wolfssl" THEN [s EXCEPT !.applied = TRUE] ELSE s

VHandshake ==
  LET s == [apply_hostname(st) EXCEPT !.op = "hs", !.wr = FALSE, !.ww = FALSE]
      Waits(r, w) == [s EXCEPT !.phase = "shaking", !.rc = "AGAIN", !.wr = r, !.ww = w]
  IN /\ st.phase \in {"new", "shaking"}
     /\ st' \in {Waits(TRUE, FALSE), Waits(FALSE, TRUE)}
               \cup (IF Backend = "gnutls" THEN {Waits(FALSE, FALSE)} ELSE {})
               \cup {IF Accepts(s) THEN [s EXCEPT !.phase = "up", !.rc = "OK"]
                      ELSE [s EXCEPT !.phase = "refused", !.rc = "INTERNAL"]}

-----------------------------------------------------------------------------
(* The stream of a session that is up.  `end` is how the peer leaves it: open, after a
   close_notify, cut without one, reset. *)
PeerSends == st.phase = "up" /\ st.end = "open" /\ st.in = 0 /\ st' = [st EXCEPT !.in = 1]
PeerEnds == /\ st.phase = "up" /\ st.end = "open"
            /\ \E e \in {"closed", "cut", "reset"} : st' = [st EXCEPT !.end = e]

(* What the library reports of an empty stream, or of a write on it. *)
LibReads(s) ==
  CASE s.end = "open" -> "WANT_READ"
    [] s.end = "closed" -> "CLOSE_NOTIFY"
    [] s.end = "cut" -> "EOF"
    [] OTHER -> "NET"
LibWrites(s) == IF s.end = "open" THEN {"DONE", "WANT_WRITE"} ELSE {"NET"}

Ended(s, rc) == [s EXCEPT !.rc = rc, !.n = 0]

(* map_want of mbedTLS and of wolfSSL, map_again of gnutls. *)
MbedMap(s, code) ==
  CASE code = "WANT_READ" -> [Ended(s, "AGAIN") EXCEPT !.wr = TRUE]
    [] code = "WANT_WRITE" -> [Ended(s, "AGAIN") EXCEPT !.ww = TRUE]
    [] code \in {"EOF", "CLOSE_NOTIFY", "NET"} -> Ended(s, "IO")
    [] OTHER -> Ended(s, "INTERNAL")
GnuMap(s, code) ==
  IF code \in {"WANT_READ", "WANT_WRITE"}
  THEN [Ended(s, "AGAIN") EXCEPT !.wr = code = "WANT_READ", !.ww = code = "WANT_WRITE"]
  ELSE Ended(s, IF code \in {"EOF", "NET"} THEN "IO" ELSE "INTERNAL")
WolfMap(s, code) ==
  CASE code = "WANT_READ" -> [Ended(s, "AGAIN") EXCEPT !.wr = TRUE]
    [] code = "WANT_WRITE" -> [Ended(s, "AGAIN") EXCEPT !.ww = TRUE]
    [] code \in {"EOF", "CLOSE_NOTIFY", "NET"} -> Ended(s, "IO")
    [] OTHER -> Ended(s, "INTERNAL")
MapOf(s, code) ==
  CASE Backend = "gnutls" -> GnuMap(s, code) [] Backend = "mbedtls" -> MbedMap(s, code)
    [] OTHER -> WolfMap(s, code)

(* xtc_tls_read of an empty stream, by backend: mbedtls_ssl_read returns 0 for the end of
   the transport, gnutls_record_recv for a close_notify, wolfSSL_read for both. *)
MbedRead(s, code) ==
  CASE code = "EOF" -> Ended(s, "IO")
    [] code = "CLOSE_NOTIFY" -> Ended(s, "OK")
    [] OTHER -> MbedMap(s, code)
GnuRead(s, code) == IF code = "CLOSE_NOTIFY" THEN Ended(s, "OK") ELSE GnuMap(s, code)
WolfRead(s, code) == IF code = "CLOSE_NOTIFY" THEN Ended(s, "OK") ELSE WolfMap(s, code)

Cleared(op) == [st EXCEPT !.op = op, !.wr = FALSE, !.ww = FALSE, !.n = 0]

VRead ==
  LET s == Cleared("read")
  IN /\ st.phase = "up" /\ Backend # "openssl"
     /\ st' = IF st.in > 0 THEN [s EXCEPT !.in = 0, !.rc = "OK", !.n = 1]
              ELSE CASE Backend = "mbedtls" -> MbedRead(s, LibReads(s))
                     [] Backend = "gnutls" -> GnuRead(s, LibReads(s))
                     [] OTHER -> WolfRead(s, LibReads(s))
VWrite ==
  /\ st.phase = "up" /\ Backend # "openssl"
  /\ \E code \in LibWrites(st) :
       st' = IF code = "DONE" THEN [Cleared("write") EXCEPT !.rc = "OK", !.n = 1]
             ELSE MapOf(Cleared("write"), code)
VShutdown ==
  /\ st.phase = "up" /\ Backend # "openssl"
  /\ \E code \in LibWrites(st) :
       st' = IF code = "DONE" THEN [Cleared("shut") EXCEPT !.rc = "OK"] ELSE MapOf(Cleared("shut"), code)

(* xtc_tls_destroy and xtc_tls_ctx_destroy. *)
VDestroy ==
  /\ st.phase \in {"ctx", "new", "shaking", "up", "refused"}
  /\ st' = [VBlank EXCEPT !.phase = "gone", !.copies = IF st.host = "" THEN st.copies ELSE 0]

VNext ==
  \/ \E r \in Roles : \E o \in Opts(r) : VCtxCreate(o) \/ (r = "SERVER" /\ client_hello_cb(o))
  \/ \E p \in Peers : VCreate(p)
  \/ \E n \in Names \cup {""} : VSetHostname(n)
  \/ VHandshake \/ PeerSends \/ PeerEnds \/ VRead \/ VWrite \/ VShutdown \/ VDestroy

(* What the options mean (inc/xtc_tls.h) of the certificate a peer shows: the roots are the
   file's or, for a client without one, the system's; a client matches the last name that
   xtc_tls_set_hostname took, and no earlier one. *)
Acceptable(s) ==
  LET roots == IF s.o.ca = "good" THEN {"ca"} ELSE IF s.o.role = "CLIENT" THEN {"sys"} ELSE {}
      good == s.peer.given /\ s.peer.root \in roots
      mode == resolve_verify(s.o)
  IN \/ mode = "NONE"
     \/ good /\ (s.o.role = "CLIENT" => s.asked \in {"", s.peer.name})
     \/ s.o.role = "SERVER" /\ mode = "REQUEST" /\ ~s.peer.given

(* Every backend completes a handshake exactly with the peers the options and the name
   stand for, whatever names were set and cleared before, and also for a context chosen in
   the ClientHello callback. *)
VerifiedAsAsked ==
  /\ st.phase = "up" => Acceptable(st)
  /\ st.phase = "refused" => ~Acceptable(st)

(* An end of file is told of only for a close_notify, a stream that was cut is a failure,
   and a would-block names one direction (gnutls: not after an alert that is not fatal). *)
StreamEnds ==
  /\ st.op = "read" /\ st.rc = "OK" /\ st.n = 0 => st.end = "closed"
  /\ st.rc = "IO" => st.end # "open" /\ (st.op = "read" => st.end # "closed")
  /\ st.phase \in {"up", "shaking"} /\ st.rc = "AGAIN" => st.wr # st.ww \/ Backend = "gnutls"

(* The names handed to the library are those of the caller's list, all of it, and a list
   whose lengths do not add up is refused (xtc_tls_alpn_wire_ok and the decoders); a copied
   name is freed once. *)
Wired(names) == FlattenSeq([i \in DOMAIN names |-> <<Len(names[i])>> \o names[i]])
AlpnExact ==
  /\ st.phase = "ctx" => Wired(st.alpn) = st.o.alpn
  /\ st.phase = "gone" => st.copies = 0
  /\ st.phase \in {"new", "up"} => st.copies = IF Backend \in {"gnutls", "wolfssl"} /\ st.asked # "" THEN 1 ELSE 0

-----------------------------------------------------------------------------
(* W.  The peer's flight of handshake bytes is record 0, its data records carry two bytes
   each, and its close_notify is record -1; a record is two units on the wire.  `enc` holds
   the units received, `dec` the decrypted rest of a record, `got` what the caller read.
   `out` is the other direction, `told` the records reported written. *)
Recs == 1 .. 2
Units(r) == <<<<r, 1>>, <<r, 2>>>>
Bytes(r) == <<2 * r - 1, 2 * r>>

WInit ==
  \E last \in {<<>>, Units(-1)} :
    st = [net |-> Units(0) \o Units(1) \o Units(2) \o last, fin |-> last = <<>>, enc |-> <<>>, dec |-> <<>>,
          got |-> <<>>, pc |-> "idle", want |-> 1, up |-> FALSE, rc |-> "", eof |-> FALSE, wr |-> FALSE,
          out |-> <<>>, seq |-> 0, told |-> {}, left |-> MaxOps]

(* recv_some: some of what has arrived; would block; the end of the stream is a failure. *)
recv_some ==
  \/ \E k \in 1 .. Len(st.net) :
       st' = [st EXCEPT !.enc = @ \o SubSeq(st.net, 1, k), !.net = SubSeq(@, k + 1, Len(@))]
  \/ st' = [st EXCEPT !.pc = "idle", !.rc = "AGAIN", !.wr = TRUE]
  \/ st.net = <<>> /\ st.fin /\ st' = [st EXCEPT !.pc = "idle", !.rc = "IO"]

enc_consume(enc, consumed) == IF consumed >= Len(enc) THEN <<>> ELSE SubSeq(enc, consumed + 1, Len(enc))

Incomplete == Len(st.enc) < 2

WHandshake ==
  /\ st.pc = "idle" /\ ~st.up /\ st.left > 0
  /\ st' = [st EXCEPT !.pc = "hs", !.wr = FALSE, !.left = @ - 1]
HsStep ==
  /\ st.pc = "hs"
  /\ IF Incomplete THEN recv_some
     ELSE st' = [st EXCEPT !.enc = enc_consume(@, 2), !.up = TRUE, !.pc = "idle", !.rc = "OK"]

(* xtc_tls_read: what is left of a record first, then records until one is whole. *)
WRead(b) ==
  /\ st.pc = "idle" /\ st.up /\ st.left > 0 /\ ~st.eof
  /\ st' = IF st.dec # <<>>
           THEN LET n == IF Len(st.dec) < b THEN Len(st.dec) ELSE b
                IN [st EXCEPT !.got = @ \o SubSeq(st.dec, 1, n), !.dec = SubSeq(@, n + 1, Len(@)),
                              !.rc = "OK", !.wr = FALSE, !.left = @ - 1]
           ELSE [st EXCEPT !.pc = "rd", !.want = b, !.wr = FALSE, !.left = @ - 1]
RdStep ==
  LET r == st.enc[1][1]
      n == IF 2 < st.want THEN 2 ELSE st.want
  IN /\ st.pc = "rd"
     /\ IF Incomplete THEN recv_some
        ELSE st' = IF r = -1 THEN [st EXCEPT !.enc = <<>>, !.pc = "idle", !.rc = "OK", !.eof = TRUE]
                   ELSE [st EXCEPT !.got = @ \o SubSeq(Bytes(r), 1, n), !.dec = SubSeq(Bytes(r), n + 1, 2),
                                   !.enc = enc_consume(@, 2), !.pc = "idle", !.rc = "OK"]

(* send_all: all of it, or a would-block after any part. *)
send_all(s, units) ==
  {[s EXCEPT !.out = @ \o units, !.rc = "OK"]}
  \cup {[s EXCEPT !.out = @ \o SubSeq(units, 1, k), !.rc = "AGAIN"] : k \in 0 .. Len(units) - 1}

(* xtc_tls_write: one record, encrypted anew by each call. *)
WWrite ==
  /\ st.pc = "idle" /\ st.up /\ st.left > 0
  /\ \E s \in send_all([st EXCEPT !.seq = @ + 1, !.left = @ - 1], Units(st.seq + 1)) :
       st' = IF s.rc = "OK" THEN [s EXCEPT !.told = @ \cup {s.seq}] ELSE s

WNext == WHandshake \/ HsStep \/ (\E b \in 1 .. 2 : WRead(b)) \/ RdStep \/ WWrite

(* What a caller reads is what the peer sent, in order and without a gap, however the
   records were cut on the wire and whatever came with the handshake's last flight; the end
   of file comes after all of it (xtc_tls_read, enc_consume). *)
ReadsInOrder ==
  LET sent == Bytes(1) \o Bytes(2)
  IN IsPrefix(st.got, sent) /\ (st.eof => st.got = sent)

(* A record reported written is whole on the wire (send_all). *)
WrittenWhole ==
  \A r \in st.told : \E i \in 1 .. Len(st.out) - 1 : SubSeq(st.out, i, i + 1) = Units(r)

=============================================================================
