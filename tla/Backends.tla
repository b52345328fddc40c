------------------------------ MODULE Backends ------------------------------
(***************************************************************************)
(* The reactor backends and the users of file AIO; the kernel is external. *)
(*   B...  io/io_poll.c, io/io_select.c, io/io_kqueue.c, io/io_solaris.c,  *)
(*         io/io_aix.c, io/io_epoll.c: who is registered, what the kernel  *)
(*         watches, deletes from other threads, the wakeup;                *)
(*   I...  io/io_iocp.c: nodes a completion names, the AFD poll that has   *)
(*         to be asked again, the coalesced wakeup;                        *)
(*   Ur... io/io_uring.c: registrations as nodes that are the user_data of *)
(*         at most one poll, deferred submission, nodes that linger or     *)
(*         wait as zombies for their last completion, file AIO, the wakeup *)
(*         pipe, deletes queued by other threads, and the change of the    *)
(*         thread that owns the ring;                                      *)
(*   A...  ptc/aio.c: a fiber's request on its own stack, reaped by        *)
(*         another thread;                                                 *)
(*   S...  io/io_sim.c and the disk of evt/sim.c: requests that fail, tear *)
(*         and complete late, all on one thread and in virtual time.       *)
(***************************************************************************)
EXTENDS Integers, Sequences, FiniteSets
LOCAL INSTANCE SequencesExt
LOCAL INSTANCE FiniteSetsExt

CONSTANTS
  Kind,               \* "poll", "select", "kqueue", "port", "aix" or "epoll"
  Fds,                \* descriptors, 1 .. n
  MaxEvents,          \* the caller's buffer
  MaxRegs,            \* bound: registrations
  Sets,               \* interest sets used, or the operations on the simulated disk
  MayMod,             \* whether xtc_io_mod_fd is called; or messages come to the simulated loop
  Aios,               \* file requests
  MaxOps,             \* bound: operations of a fiber
  SqCap,              \* entries of the SQ, or of the ring of stale data
  Short,              \* whether a submit may leave everything queued
  Single,             \* whether a running ring is SINGLE_ISSUER
  Nodes, MaxFiles,    \* bounds: 1 .. n nodes; files
  Lats                \* latencies of the simulated disk

(* st has, in the machine B:
     reg, slotOf          the table: records of fd, interest, tag; where a descriptor is
     kern, act            what the kernel watches, as records of fd, filter, tag; those with
                          an event to deliver (EV_CLEAR, one-shot)
     pdel                 deletes queued by other threads
     pipe, asked          the wakeup's byte; wakeups called and not reported yet
     got                  what the kernel's wait returned, FALSE outside of a poll
     ready, open          descriptors that are readable and writable; not closed
     tags, ints, nreg     the registrations as the users know them; counter
     told                 registrations whose readiness was reported since it came
     mist                 an event carried a tag that was not the registration's *)
VARIABLE st

Slots == Kind \in {"poll", "select"}
Table == Kind \in {"port", "aix"}
Wake == 0                           \* the wakeup pipe's descriptor

(* __xtc_io_backend_init and __xtc_io_register_wakeup of each. *)
BInit ==
  st = [reg |-> IF Slots \/ Kind = "aix" THEN <<[fd |-> Wake, int |-> {"r"}, tag |-> 0]>> ELSE <<>>,
        slotOf |-> [f \in {Wake} \cup Fds |-> IF f = Wake /\ Slots THEN 1 ELSE 0],
        kern |-> {[fd |-> Wake, filt |-> "r", tag |-> 0]}, act |-> {},
        pdel |-> <<>>, pipe |-> FALSE, asked |-> FALSE, got |-> <<FALSE, {}>>, ready |-> {}, open |-> Fds,
        tags |-> [f \in Fds |-> 0], ints |-> [f \in Fds |-> {}], nreg |-> 0, told |-> {}, mist |-> FALSE]

----------------------------------------------------------------------------
(* THE TABLES.  io_poll.c and io_select.c: an array and each descriptor's slot. *)
SlotAdd(s, fd, int, tag) ==
  [s EXCEPT !.reg = Append(@, [fd |-> fd, int |-> int, tag |-> tag]), !.slotOf[fd] = Len(s.reg) + 1]

(* __del_fd of io_poll.c: the last entry takes the place. *)
SlotDel(s, fd) ==
  LET i == s.slotOf[fd]
      n == Len(s.reg)
      t == [s EXCEPT !.reg = SubSeq([@ EXCEPT ![i] = s.reg[n]], 1, n - 1), !.slotOf[fd] = 0]
  IN  CASE i = 0 -> s
        [] i = n -> t
        [] OTHER -> [t EXCEPT !.slotOf[s.reg[n].fd] = i]

(* __del_fd of io_select.c compacts the tail before it shrinks. *)
SelectDel(s, fd) ==
  LET i == s.slotOf[fd]
      n == Len(s.reg)
      c == IF i = n THEN s ELSE [s EXCEPT !.reg[i] = s.reg[n], !.slotOf[s.reg[n].fd] = i]
  IN  IF i = 0 THEN s ELSE [c EXCEPT !.reg = SubSeq(@, 1, n - 1), !.slotOf[fd] = 0]

(* __mod_fd of both. *)
SlotMod(s, fd, int, tag) == [s EXCEPT !.reg[s.slotOf[fd]] = [fd |-> fd, int |-> int, tag |-> tag]]

(* io_solaris.c, io_aix.c: a list, searched; __find_reg, __add_reg, __del_reg. *)
FindReg(s, fd) == Min({i \in DOMAIN s.reg : s.reg[i].fd = fd} \cup {Len(s.reg) + 1})
Registered(s, fd) == FindReg(s, fd) <= Len(s.reg)

DelReg(s, fd) ==
  LET i == FindReg(s, fd)
      n == Len(s.reg)
  IN  IF i > n THEN s ELSE [s EXCEPT !.reg = SubSeq([@ EXCEPT ![i] = s.reg[n]], 1, n - 1)]

----------------------------------------------------------------------------
(* THE KERNEL'S SIDE: a watch that is added to a ready descriptor has an event at once. *)
Ready(s, fd, f) == IF fd = Wake THEN s.pipe ELSE <<fd, f>> \in s.ready
Watch(s, fd, int, tag) ==
  LET ws == {[fd |-> fd, filt |-> f, tag |-> tag] : f \in int}
      k == {w \in s.kern : ~\E v \in ws : v.fd = w.fd /\ v.filt = w.filt}
      a == {w \in s.act : ~\E v \in ws : v.fd = w.fd /\ v.filt = w.filt}
  IN  [s EXCEPT !.kern = k \cup ws, !.act = a \cup {w \in ws : Ready(s, fd, w.filt)}]
Unwatch(s, fd, int) ==
  [s EXCEPT !.kern = {w \in @ : w.fd # fd \/ w.filt \notin int},
            !.act = {w \in @ : w.fd # fd \/ w.filt \notin int}]

Both == {"r", "w"}

(* __kev_register with EV_DELETE: every filter, also after one that was never added. *)
KevDeletes(s, fd, int) == Unwatch(s, fd, int)

----------------------------------------------------------------------------
(* xtc_io_reg_fd of each backend; ok is FALSE if the kernel refuses the second filter. *)
PollReg(s, fd, int, tag) == SlotAdd(s, fd, int, tag)
KqReg(s, fd, int, tag, ok) ==
  LET t == [s EXCEPT !.slotOf[fd] = 1] IN
  IF ok THEN Watch(t, fd, int, tag)
  ELSE [KevDeletes(Watch(t, fd, {"r"} \cap int, tag), fd, int) EXCEPT !.slotOf[fd] = 0]
PortReg(s, fd, int, tag) ==
  Watch([s EXCEPT !.reg = Append(@, [fd |-> fd, int |-> int, tag |-> tag])], fd, int, tag)
EpollReg(s, fd, int, tag) == Watch(s, fd, int, tag)

(* xtc_io_del_fd. *)
KqDel(s, fd) == IF s.slotOf[fd] = 0 THEN s ELSE [KevDeletes(s, fd, Both) EXCEPT !.slotOf[fd] = 0]
PortDel(s, fd) == IF Registered(s, fd) THEN DelReg(Unwatch(s, fd, Both), fd) ELSE s
AixDel(s, fd) == PortDel(s, fd)
EpollDel(s, fd) == Unwatch(s, fd, Both)

BDel(s, fd) ==
  CASE Kind = "poll" -> SlotDel(s, fd)
    [] Kind = "select" -> SelectDel(s, fd)
    [] Kind = "kqueue" -> KqDel(s, fd)
    [] Kind = "port" -> PortDel(s, fd)
    [] Kind = "aix" -> AixDel(s, fd)
    [] OTHER -> EpollDel(s, fd)

(* __apply_pending_del_for and __drain_pending_del (poll, select). *)
ApplyPendingDel(s, fd) ==
  IF fd \in Range(s.pdel) THEN BDel([s EXCEPT !.pdel = SelectSeq(@, LAMBDA x : x # fd)], fd) ELSE s
DrainPendingDel(s) == FoldLeft(BDel, [s EXCEPT !.pdel = <<>>], s.pdel)

Idle == ~st.got[1]

Reg(fd) ==
  /\ Idle /\ st.tags[fd] = 0 /\ fd \in st.open /\ st.nreg < MaxRegs
  /\ \E int \in Sets, ok \in (IF Kind = "kqueue" THEN BOOLEAN ELSE {TRUE}) :
       LET tag == st.nreg + 1
           s == ApplyPendingDel([st EXCEPT !.nreg = tag, !.told = {x \in @ : x[1] # fd}], fd)
           t == IF ok THEN [s EXCEPT !.tags[fd] = tag, !.ints[fd] = int] ELSE s
       IN  /\ ~ok => Cardinality(int) = 2
           /\ st' = CASE Slots -> PollReg(t, fd, int, tag)
                      [] Kind = "kqueue" -> KqReg(t, fd, int, tag, ok)
                      [] Table -> PortReg(t, fd, int, tag)
                      [] OTHER -> EpollReg(t, fd, int, tag)

(* xtc_io_mod_fd: kqueue deletes both filters first, an event port dissociates. *)
KqMod(s, fd, int, tag) == Watch(KevDeletes(s, fd, Both), fd, int, tag)
PortMod(s, fd, int, tag) ==
  Watch([Unwatch(s, fd, Both) EXCEPT !.reg[FindReg(s, fd)] = [fd |-> fd, int |-> int, tag |-> tag]], fd, int, tag)
EpollMod(s, fd, int, tag) == Watch(Unwatch(s, fd, Both), fd, int, tag)

Mod(fd) ==
  /\ MayMod /\ Idle /\ st.tags[fd] # 0 /\ fd \in st.open /\ st.nreg < MaxRegs
  /\ \E int \in Sets :
       LET tag == st.nreg + 1
           t == [st EXCEPT !.nreg = tag, !.tags[fd] = tag, !.ints[fd] = int, !.told = {x \in @ : x[1] # fd}]
       IN  st' = CASE Slots -> SlotMod(t, fd, int, tag)
                   [] Kind = "kqueue" -> KqMod(t, fd, int, tag)
                   [] Table -> PortMod(t, fd, int, tag)
                   [] OTHER -> EpollMod(t, fd, int, tag)

Forgets(s, fd) == [s EXCEPT !.tags[fd] = 0, !.ints[fd] = {}, !.told = {x \in @ : x[1] # fd}]
Del(fd) == Idle /\ st.tags[fd] # 0 /\ st' = BDel(Forgets(st, fd), fd)

(* __xtc_io_defer_del_fd by another thread: queued, and a wakeup; the kernel's own under
   epoll.  (kqueue, event ports and pollsets change their tables from the wrong thread:
   left out.) *)
DeferDel(fd) ==
  /\ (Slots \/ Kind = "epoll") /\ st.tags[fd] # 0
  /\ st' = IF Slots THEN [Forgets(st, fd) EXCEPT !.pdel = Append(@, fd), !.pipe = TRUE, !.asked = TRUE]
           ELSE EpollDel(Forgets(st, fd), fd)

----------------------------------------------------------------------------
(* xtc_io_wakeup *)
Wakes(s) == {w \in s.kern : w.fd = Wake}
Wakeup == ~st.asked /\ st' = [st EXCEPT !.pipe = TRUE, !.asked = TRUE, !.act = @ \cup Wakes(st)]

(* Readiness comes, and goes when the user reads; a descriptor is closed under select. *)
Rises(fd, f) ==
  /\ <<fd, f>> \notin st.ready /\ f \in st.ints[fd]
  /\ st' = [st EXCEPT !.ready = @ \cup {<<fd, f>>}, !.told = @ \ {<<fd, f>>},
                      !.act = @ \cup {w \in st.kern : w.fd = fd /\ w.filt = f}]
Falls(fd, f) == <<fd, f>> \in st.told /\ <<fd, f>> \in st.ready
                /\ st' = [st EXCEPT !.ready = @ \ {<<fd, f>>}, !.told = @ \ {<<fd, f>>}]
Close(fd) ==
  Kind = "select" /\ st.tags[fd] # 0 /\ fd \in st.open
  /\ st' = [st EXCEPT !.open = @ \ {fd}, !.ready = {x \in @ : x[1] # fd}]

(* xtc_io_poll: the wait; a table is what the call was given, a kernel queue hands over as
   many as there is room for. *)
Due(s) ==
  IF Slots THEN {[fd |-> r.fd, filt |-> f, tag |-> r.tag] : r \in Range(s.reg), f \in Both}
                \cap {w \in [fd : {Wake} \cup Fds, filt : Both, tag : 0 .. MaxRegs] :
                        Ready(s, w.fd, w.filt) /\ \E r \in Range(s.reg) : r.fd = w.fd /\ w.filt \in r.int}
  ELSE s.act

PollWaits ==
  /\ Idle
  /\ LET s == IF Slots THEN DrainPendingDel(st) ELSE st IN
     IF Slots THEN st' = [s EXCEPT !.got = <<TRUE, Due(s)>>]
     ELSE \E take \in {t \in SUBSET Due(s) : Cardinality(t) = Min({MaxEvents, Cardinality(Due(s))})} :
            st' = [s EXCEPT !.got = <<TRUE, take>>, !.act = @ \ take]

(* ... and what is reported: of a table in the order of its slots, the wakeup's first;
   __rearm puts an association back that its event has used up. *)
Report(s, ws) ==
  [s EXCEPT !.mist = @ \/ (\E w \in ws : w.fd # Wake /\ w.tag # s.tags[w.fd] /\ w.fd \notin Range(s.pdel)
                                         /\ Kind # "epoll"),
            !.told = @ \cup {<<w.fd, w.filt>> : w \in {v \in ws : v.fd # Wake}},
            !.pipe = @ /\ ~\E w \in ws : w.fd = Wake, !.asked = @ /\ ~\E w \in ws : w.fd = Wake,
            !.got = <<FALSE, {}>>]

PollReports(s) ==
  LET n == Min({MaxEvents, Cardinality({w.fd : w \in s.got[2]})})
      fds == CHOOSE F \in SUBSET {w.fd : w \in s.got[2]} :
               /\ Cardinality(F) = n
               /\ \A f \in F, g \in {w.fd : w \in s.got[2]} \ F : s.slotOf[f] < s.slotOf[g]
  IN  Report(s, {w \in s.got[2] : w.fd \in fds})

(* select(2) fails as a whole on a descriptor that was closed: it is reported and dropped. *)
SelectReports(s) ==
  LET bad == {r.fd : r \in Range(s.reg)} \ ({Wake} \cup s.open) IN
  IF bad = {} THEN PollReports(s)
  ELSE LET b == CHOOSE x \in bad : \A y \in bad : s.slotOf[x] >= s.slotOf[y] IN
       [SelectDel(Forgets(s, b), b) EXCEPT !.got = <<FALSE, {}>>]

KqReports(s) == Report(s, s.got[2])

PortRearms(s, w) ==
  CASE w.fd = Wake -> Watch(s, Wake, {"r"}, 0)
    [] Registered(s, w.fd) -> LET r == s.reg[FindReg(s, w.fd)] IN Watch(s, w.fd, r.int, r.tag)
    [] OTHER -> s
PortReports(s) ==
  LET used == [Report(s, s.got[2]) EXCEPT !.kern = @ \ s.got[2]] IN
  FoldSet(LAMBDA w, t : PortRearms(t, w), used, s.got[2])

(* AIX and epoll are level-triggered: what is still ready is found again. *)
LevelReports(s) ==
  LET t == Report(s, s.got[2]) IN
  [t EXCEPT !.act = {w \in t.kern : Ready(t, w.fd, w.filt)}]

PollReturns ==
  /\ ~Idle
  /\ st' = CASE Kind = "poll" -> PollReports(st)
             [] Kind = "select" -> SelectReports(st)
             [] Kind = "kqueue" -> KqReports(st)
             [] Kind = "port" -> PortReports(st)
             [] OTHER -> LevelReports(st)

BNext ==
  \/ \E fd \in Fds : Reg(fd) \/ Mod(fd) \/ Del(fd) \/ DeferDel(fd) \/ Close(fd)
                     \/ \E f \in Both : Rises(fd, f) \/ Falls(fd, f)
  \/ Wakeup \/ PollWaits \/ PollReturns

----------------------------------------------------------------------------
(* The fields have their types. *)
BTypeOK ==
  /\ st.pipe \in BOOLEAN /\ st.asked \in BOOLEAN /\ st.nreg \in 0 .. MaxRegs
  /\ \A f \in Fds : st.slotOf[f] \in 0 .. Cardinality(Fds) + 1 /\ st.tags[f] \in 0 .. MaxRegs

(* The swap on delete, slot_of, __find_reg: a descriptor is in the table once, where its
   slot says, with what its user asked for, until a queued delete is done; the kernel
   watches exactly that. *)
RegistryExact ==
  /\ \A i, j \in DOMAIN st.reg : st.reg[i].fd = st.reg[j].fd => i = j
  /\ Slots => \A f \in Fds :
       /\ st.slotOf[f] = 0 <=> ~\E i \in DOMAIN st.reg : st.reg[i].fd = f
       /\ st.slotOf[f] # 0 => st.reg[st.slotOf[f]].fd = f
  /\ \A f \in Fds : st.tags[f] # 0 =>
       IF Slots \/ Table
       THEN \E i \in DOMAIN st.reg : st.reg[i] = [fd |-> f, int |-> st.ints[f], tag |-> st.tags[f]]
       ELSE {w.filt : w \in {v \in st.kern : v.fd = f /\ v.tag = st.tags[f]}} = st.ints[f]
  /\ \A f \in Fds : st.tags[f] = 0 /\ f \notin Range(st.pdel) =>
       ~(\E i \in DOMAIN st.reg : st.reg[i].fd = f) /\ ~(\E w \in st.kern : w.fd = f)
  /\ ~st.mist

(* EV_CLEAR and one-shot associations: readiness that came after the last report is going
   to be reported, and so is a wakeup. *)
NothingUnheard ==
  /\ st.asked => IF Slots \/ st.got[1] THEN st.pipe ELSE \E w \in st.act : w.fd = Wake
  /\ ~Slots => \A f \in Fds, x \in Both :
       st.tags[f] # 0 /\ x \in st.ints[f] /\ <<f, x>> \in st.ready \ st.told =>
         \E w \in st.act \cup st.got[2] : w.fd = f /\ w.filt = x

----------------------------------------------------------------------------
(* IOCP.  A completion names the node it belongs to; on the driver the code was written
   against, a poll that was not ready when armed never completes, and a cancel queues
   nothing.  st has here:
     node                 per node: its descriptor (0: freed), tag, pending, dead
     live                 reg_iocp; the dead list is the nodes with dead
     port, batch          queued completions, and those a poll took; records of k and id
     old                  nodes whose poll is overdue (armed_at_ns)
     pend, woke           wakeup_pending; wakers between the exchange and the post
     aio                  per request: "idle", "kernel", "queued", "done"
     late                 descriptors that were ready when their poll was swept
     polling, pdel, ready, reg, nreg, told, mist as above *)
Node == 1 .. MaxRegs
FreeReg == [fd |-> 0, pending |-> FALSE, dead |-> FALSE]
NodeOf(s, fd) == CHOOSE n \in Range(s.live) : s.node[n].fd = fd

IInit ==
  st = [node |-> [n \in Node |-> FreeReg], live |-> <<>>, port |-> <<>>, batch |-> <<>>, old |-> {},
        pend |-> FALSE, woke |-> 0, aio |-> [a \in Aios |-> "idle"], polling |-> FALSE,
        pdel |-> <<>>, ready |-> {}, reg |-> {}, nreg |-> 0, told |-> {}, late |-> {}, mist |-> FALSE]

(* __arm_poll: a descriptor that is ready answers at once, and the code posts for it. *)
ArmPoll(s, n) ==
  [s EXCEPT !.node[n].pending = TRUE, !.old = @ \ {n},
            !.port = IF s.node[n].fd \in s.ready THEN Append(@, [k |-> "node", id |-> n]) ELSE @]

(* xtc_io_del_fd: the last takes the place; a pending node waits on the dead list. *)
IDelete(s, fd) ==
  LET n == NodeOf(s, fd)
      i == Min({j \in DOMAIN s.live : s.live[j] = n})
      l == Len(s.live)
  IN  [s EXCEPT !.live = SubSeq([@ EXCEPT ![i] = s.live[l]], 1, l - 1), !.old = @ \ {n},
                !.node[n] = IF @.pending THEN [@ EXCEPT !.dead = TRUE] ELSE FreeReg]

IReg(fd) ==
  /\ ~st.polling /\ fd \notin st.reg /\ st.nreg < MaxRegs
  /\ LET n == st.nreg + 1
         mine == {x \in Range(st.live) : st.node[x].fd = fd}
         gone == [st EXCEPT !.pdel = SelectSeq(@, LAMBDA x : x # fd)]
         s == IF fd \in Range(st.pdel) /\ mine # {} THEN IDelete(gone, fd) ELSE gone
     IN  st' = [ArmPoll([s EXCEPT !.node[n] = [FreeReg EXCEPT !.fd = fd]], n)
                 EXCEPT !.live = Append(@, n), !.nreg = n, !.reg = @ \cup {fd}, !.told = @ \ {fd}]

IDel(fd) == ~st.polling /\ fd \in st.reg /\ st' = IDelete([st EXCEPT !.reg = @ \ {fd}], fd)

(* __xtc_io_defer_del_fd; the wakeup it ends with is Exchange's. *)
Exchange(s) == IF s.pend THEN s ELSE [s EXCEPT !.pend = TRUE, !.woke = @ + 1]
IDeferDel(fd) ==
  fd \in st.reg /\ st' = Exchange([st EXCEPT !.reg = @ \ {fd}, !.pdel = Append(@, fd)])

(* __xtc_io_iocp_wakeup_post: who flips the flag posts. *)
IWakeup == ~st.pend /\ st' = Exchange(st)
IPost == st.woke > 0 /\ st' = [st EXCEPT !.woke = @ - 1, !.port = Append(@, [k |-> "wake", id |-> 0])]

(* xtc_io_aio_submit: inline (cached, or at the end of the file), or tracked. *)
IAioSubmit(a) ==
  ~st.polling /\ st.aio[a] = "idle" /\ \E r \in {"done", "kernel"} : st' = [st EXCEPT !.aio[a] = r]
IAioEnds(a) ==
  st.aio[a] = "kernel" /\ st' = [st EXCEPT !.aio[a] = "queued", !.port = Append(@, [k |-> "aio", id |-> a])]

IRises(fd) == fd \notin st.ready /\ st' = [st EXCEPT !.ready = @ \cup {fd}, !.told = @ \ {fd}]
IFalls(fd) == fd \in st.ready \cap st.told /\ st' = [st EXCEPT !.ready = @ \ {fd}, !.told = @ \ {fd}]
(* Eight milliseconds pass for what is pending. *)
IAges == ~st.polling /\ st' = [st EXCEPT !.old = {n \in Range(st.live) : st.node[n].pending}]

(* xtc_io_poll: queued deletes, then the wait for a slice; ... *)
IPollWaits ==
  /\ ~st.polling
  /\ LET s == FoldLeft(LAMBDA t, fd : IF \E n \in Range(t.live) : t.node[n].fd = fd THEN IDelete(t, fd) ELSE t,
                       [st EXCEPT !.pdel = <<>>], st.pdel)
         n == Min({MaxEvents, Len(s.port)})
     IN  st' = [s EXCEPT !.polling = TRUE, !.batch = SubSeq(s.port, 1, n), !.port = SubSeq(s.port, n + 1, Len(s.port))]

(* ... each completion: the wakeup's, a request's (__take_aio), a dead node's (__take_dead),
   one that is not outstanding, or readiness to report and a poll to arm again. *)
IReapOne(s, c) ==
  CASE c.k = "wake" -> [s EXCEPT !.pend = FALSE]
    [] c.k = "aio" -> [s EXCEPT !.aio[c.id] = "done", !.mist = @ \/ s.aio[c.id] # "queued"]
    [] s.node[c.id].fd = 0 -> [s EXCEPT !.mist = TRUE]
    [] s.node[c.id].dead -> [s EXCEPT !.node[c.id] = FreeReg]
    [] ~s.node[c.id].pending -> s
    [] OTHER -> ArmPoll([s EXCEPT !.node[c.id].pending = FALSE, !.told = @ \cup {s.node[c.id].fd}], c.id)

(* __xtc_iocp_repoll_sweep: the overdue polls that a probe finds ready are armed again. *)
RepollSweep(s, probe) ==
  LET r == {n \in probe : s.node[n].fd \in s.ready} IN
  [FoldSet(LAMBDA n, t : ArmPoll([t EXCEPT !.node[n].pending = FALSE], n), s, r) EXCEPT !.old = @ \ probe]

IPollReturns ==
  /\ st.polling
  /\ LET s == FoldLeft(IReapOne, st, st.batch)
         probe == {n \in s.old \cap Range(s.live) : s.node[n].pending}
     IN  st' = [RepollSweep(s, probe) EXCEPT !.batch = <<>>, !.polling = FALSE,
                                             !.late = {s.node[n].fd : n \in probe} \cap s.ready]

INext ==
  \/ \E fd \in Fds : IReg(fd) \/ IDel(fd) \/ IDeferDel(fd) \/ IRises(fd) \/ IFalls(fd)
  \/ \E a \in Aios : IAioSubmit(a) \/ IAioEnds(a)
  \/ IWakeup \/ IPost \/ IAges \/ IPollWaits \/ IPollReturns

Outstanding == Range(st.port) \cup Range(st.batch)

(* The ownership rule at the top of io_iocp.c: while a completion is queued its node is not
   freed, nothing is reaped for a freed one, and a request completes once. *)
NodeOwned ==
  /\ ~st.mist
  /\ \A c \in Outstanding : c.k = "node" => st.node[c.id].fd # 0
  /\ \A n \in Node : Len(SelectSeq(st.port \o st.batch, LAMBDA c : c.k = "node" /\ c.id = n)) <= 1
  /\ \A a \in Aios : st.aio[a] = "queued" <=> [k |-> "aio", id |-> a] \in Outstanding

(* A registration is always armed, so that a completion or the next sweep reports it, and
   one that came ready since the last sweep is either queued or still to be probed; a
   wakeup that found the flag set has a completion that carries it. *)
StaysArmed ==
  /\ \A n \in Range(st.live) : st.node[n].pending
  /\ st.pend => st.woke > 0 \/ [k |-> "wake", id |-> 0] \in Outstanding

(* __xtc_iocp_repoll_sweep: an overdue registration that was ready when it was swept is
   reported, or its completion is queued. *)
SweepHeard ==
  \A n \in Range(st.live) :
    st.node[n].fd \in (st.late \cap st.ready) \ st.told => [k |-> "node", id |-> n] \in Outstanding

----------------------------------------------------------------------------
(* FIBERS AND FILE REQUESTS.  The request lives on the fiber's stack; the loop it was
   submitted on reaps it.  st has here:
     pc                   per fiber: "idle", "check", "park", "parked"
     op, vec              the operation its frame holds, 0: none; whether it is a vector's
     done, res            the flag and result on the frame
     kernel               operations in the kernel, as <<fiber, operation>>
     reap                 completions a reaper holds: fiber, operation, and how far it is
     wake                 a wake the scheduler holds for the fiber
     away                 the fiber runs on another loop than it submitted on
     nudge                the submitting loop was asked to poll since the fiber left it
     n, bad               operations begun; a wrong result or a dead frame was seen *)
Fiber == Fds
AInit ==
  st = [pc |-> [f \in Fiber |-> "idle"], op |-> [f \in Fiber |-> 0], vec |-> [f \in Fiber |-> FALSE],
        done |-> [f \in Fiber |-> FALSE], res |-> [f \in Fiber |-> 0], kernel |-> {}, reap |-> {},
        wake |-> [f \in Fiber |-> FALSE], away |-> [f \in Fiber |-> FALSE], nudge |-> FALSE,
        n |-> 0, bad |-> FALSE]

Frame(s, f, v) ==
  [s EXCEPT !.pc[f] = "check", !.op[f] = s.n + 1, !.n = @ + 1, !.vec[f] = v, !.done[f] = FALSE,
            !.res[f] = 0, !.away[f] = FALSE]

(* xtc_io_aio_submit: taken by the kernel, answered at once, or refused: the blocking pool
   does it then (aio_offload), and the call returns its result. *)
Submitted(s, f, how) ==
  CASE how = "native" -> [s EXCEPT !.kernel = @ \cup {<<f, s.op[f]>>}]
    [] how = "inline" -> [s EXCEPT !.done[f] = TRUE, !.res[f] = s.op[f]]
    [] OTHER -> [s EXCEPT !.pc[f] = "idle", !.op[f] = 0]
AioDo(f) ==
  /\ st.pc[f] = "idle" /\ st.n < MaxOps
  /\ \E how \in {"native", "inline", "refused"} : st' = Submitted(Frame(st, f, FALSE), f, how)
AioDoV(f) ==
  /\ st.pc[f] = "idle" /\ st.n < MaxOps
  /\ \E how \in {"native", "refused"} : st' = Submitted(Frame(st, f, TRUE), f, how)

(* The frame is left: __xtc_proc_kill_poll, and the result. *)
Returns(s, f) ==
  [s EXCEPT !.pc[f] = "idle", !.bad = @ \/ s.res[f] # s.op[f], !.op[f] = 0, !.done[f] = FALSE, !.res[f] = 0]

(* The wait: done is read again after every wake, and a fiber that was moved asks the loop
   it submitted on to poll. *)
Waits(s, f) ==
  IF s.done[f] THEN Returns(s, f)
  ELSE [s EXCEPT !.pc[f] = "park", !.nudge = @ \/ (s.pc[f] = "woken" /\ s.away[f])]
WaitsV(s, f) ==
  IF s.done[f] THEN Returns(s, f)
  ELSE [s EXCEPT !.pc[f] = "park", !.nudge = @ \/ (s.pc[f] = "woken" /\ s.away[f])]

Looks(f) == st.pc[f] \in {"check", "woken"} /\ st' = IF st.vec[f] THEN WaitsV(st, f) ELSE Waits(st, f)

(* External: the scheduler.  A wake of a running fiber is remembered; a kill or a late wake
   may come at any time while it is parked, on any loop. *)
Parks(f) ==
  st.pc[f] = "park"
  /\ st' = [st EXCEPT !.pc[f] = IF st.wake[f] THEN "woken" ELSE "parked", !.wake[f] = FALSE]
Woken(s, f) ==
  IF s.pc[f] = "parked" THEN [s EXCEPT !.pc[f] = "woken"] ELSE [s EXCEPT !.wake[f] = TRUE]
Killed(f) == st.pc[f] = "parked" /\ \E m \in BOOLEAN : st' = [Woken(st, f) EXCEPT !.away[f] = m]

(* External: the kernel completes, and the submitting loop's poll finds it. *)
Completes(k) ==
  k \in st.kernel /\ st' = [st EXCEPT !.kernel = @ \ {k}, !.reap = @ \cup {[f |-> k[1], o |-> k[2], at |-> "cqe"]}]

Touch(s, r) == [s EXCEPT !.bad = @ \/ s.op[r.f] # r.o]

(* The reaper: the tag is copied and the result stored before done, its last access; then
   the event wakes the task. *)
ReapSteps(s, r) ==
  IF r.at = "cqe" THEN [Touch(s, r) EXCEPT !.res[r.f] = r.o, !.done[r.f] = TRUE]
  ELSE Woken(s, r.f)

Reaps(r) ==
  r \in st.reap
  /\ st' = [ReapSteps(st, r) EXCEPT !.reap = (@ \ {r}) \cup (IF r.at = "cqe" THEN {[r EXCEPT !.at = "wake"]} ELSE {})]

ANext ==
  \/ \E f \in Fiber : AioDo(f) \/ AioDoV(f) \/ Looks(f) \/ Parks(f) \/ Killed(f)
  \/ \E k \in st.kernel : Completes(k)
  \/ \E r \in st.reap : Reaps(r)
  \/ (\A f \in Fiber : st.pc[f] = "idle") /\ st.n = MaxOps /\ st.kernel = {} /\ st.reap = {} /\ UNCHANGED st

(* The request is on the caller's stack: the kernel and the reaper use it only while its
   frame stands, and the call returns the result of its own operation, whatever else wakes
   the fiber. *)
FrameStands ==
  /\ ~st.bad
  /\ \A k \in st.kernel : st.op[k[1]] = k[2]
  /\ \A r \in st.reap : r.at = "cqe" => st.op[r.f] = r.o

(* A fiber that sleeps on a request that is done has its wake on the way. *)
AioHeard ==
  \A f \in Fiber : st.pc[f] = "parked" =>
    IF st.done[f] THEN \E r \in st.reap : r.f = f ELSE <<f, st.op[f]>> \in st.kernel \/ \E r \in st.reap : r.f = f /\ r.at = "cqe"

----------------------------------------------------------------------------
(* io_uring. *)

W == 0              \* the wakeup pipe's node
None == Max(Nodes) + 1
Pipe == "pipe"
PipeFile == [ino |-> 0, gen |-> 0]

(* st has
     node[n]              used, fd, ino, tag, dead, armed, pending, and at: the list it is on
     tab, ltab, idle      by descriptor: the registration, the lingering node, whether the
                          last waiter left without readiness
     pend                 io->pending
     sq, polls, cq        the SQ; the kernel's polls; completions
     aio, naio, nq        where each request is; n_aio, n_aio_queued
     carry                AIO reaped by an owner that left
     pdel                 deletes queued by other threads
     file, ready, pipe    the file of a descriptor, those that are readable, the pipe's byte
     pc, owner, active, single   the owner's step; the ring's thread
     tags, nreg, nfile    the registrations as the users know them; counters
     mist                 history: a completion went to a registration that was not its own *)

FreeNode == [used |-> FALSE, fd |-> Pipe, ino |-> 0, tag |-> 0, dead |-> FALSE, armed |-> FALSE,
             pending |-> FALSE, at |-> "none"]

(* __xtc_io_backend_init, __xtc_io_register_wakeup: the wakeup's poll is queued.  An
   earlier waiter of a descriptor may have left it idle. *)
UrInit ==
  \E idle \in [Fds -> BOOLEAN] :
  st = [node |-> [n \in {W} \cup Nodes |-> IF n = W THEN [FreeNode EXCEPT !.used = TRUE, !.pending = TRUE, !.at = "tab"]
                                           ELSE FreeNode],
        tab |-> [f \in Fds |-> None], ltab |-> [f \in Fds |-> None], idle |-> idle,
        pend |-> <<W>>, sq |-> <<>>, polls |-> {}, cq |-> <<>>,
        aio |-> [a \in Aios |-> "idle"], naio |-> 0, nq |-> 0, carry |-> <<>>, pdel |-> <<>>,
        file |-> [f \in Fds |-> [ino |-> 1, gen |-> 1]], ready |-> {}, pipe |-> FALSE,
        pc |-> "run", owner |-> "a", active |-> TRUE, single |-> Single,
        tags |-> [f \in Fds |-> 0], nreg |-> 0, nfile |-> 1, mist |-> FALSE]

----------------------------------------------------------------------------
(* The kernel takes an SQE; the completion of a remove itself is discarded by the reap and
   left out. *)
FileOf(s, fd) == IF fd = Pipe THEN PipeFile ELSE s.file[fd]
Cqe(k, n, r, f) == [kind |-> k, n |-> n, res |-> r, file |-> f]

Enter(s, q) ==
  CASE q.op = "add" -> [s EXCEPT !.polls = @ \cup {[n |-> q.n, file |-> FileOf(s, s.node[q.n].fd)]}]
    [] q.op = "aio" -> [s EXCEPT !.aio[q.n] = "kernel"]
    [] OTHER ->
         LET gone == {p \in s.polls : p.n = q.n} IN
         [s EXCEPT !.polls = @ \ gone,
                   !.cq = @ \o (IF gone = {} THEN <<>> ELSE <<Cqe("poll", q.n, "cancel", PipeFile)>>)]

(* __ring_submit; eats is whether the kernel takes what is queued. *)
Submit(s, eats) == IF eats THEN [FoldLeft(Enter, s, s.sq) EXCEPT !.sq = <<>>, !.nq = 0] ELSE s

(* __get_sqe: a full SQ is submitted first. *)
Room(s, eats) == Len(s.sq) < SqCap \/ eats
Put(s, eats, q) ==
  LET t == IF Len(s.sq) < SqCap THEN s ELSE Submit(s, eats) IN [t EXCEPT !.sq = Append(@, q)]

(* __node_free *)
Free(s, n) == [s EXCEPT !.node[n] = FreeNode]

(* __node_defer *)
Defer(s, n) ==
  IF s.node[n].pending THEN s ELSE [s EXCEPT !.node[n].pending = TRUE, !.pend = <<n>> \o @]

(* __submit_poll_add and __submit_poll_remove, by __node_kick: what cannot be queued is
   retried by the next poll. *)
Kick(s, eats, n) ==
  LET t == s.node[n] IN
  CASE ~t.dead /\ ~t.armed /\ Room(s, eats) -> [Put(s, eats, [op |-> "add", n |-> n]) EXCEPT !.node[n].armed = TRUE]
    [] t.dead /\ t.armed /\ Room(s, eats) -> Put(s, eats, [op |-> "remove", n |-> n])
    [] t.dead = t.armed -> Defer(s, n)
    [] OTHER -> s

(* __flush_pending *)
FlushPending(s, eats) ==
  FoldLeft(LAMBDA t, n : LET u == [t EXCEPT !.node[n].pending = FALSE] IN
                         IF u.node[n].dead /\ ~u.node[n].armed THEN Free(u, n) ELSE Kick(u, eats, n),
           [s EXCEPT !.pend = <<>>], s.pend)

(* __zombie_link and the cancel. *)
Zombie(s, eats, n) == Kick([s EXCEPT !.node[n].at = "zombie"], eats, n)

(* __linger_unlink *)
Unlinger(s, n) ==
  [s EXCEPT !.ltab[s.node[n].fd] = IF @ = n THEN None ELSE @, !.node[n].at = "none"]

(* __linger_cancel_all *)
LingerCancelAll(s, eats) ==
  FoldSet(LAMBDA n, t : Zombie(Unlinger(t, n), eats, n), s, {n \in Nodes : s.node[n].at = "linger"})

(* __add_fd: a new node; only a descriptor that was idle takes an identity. *)
FreeNodes(s) == {n \in Nodes : ~s.node[n].used}
AddFd(s, eats, fd, tag) ==
  LET n == Min(FreeNodes(s)) IN
  Kick([s EXCEPT !.node[n] = [FreeNode EXCEPT !.used = TRUE, !.fd = fd, !.tag = tag, !.at = "tab",
                                              !.ino = IF s.idle[fd] THEN s.file[fd].ino ELSE 0],
                 !.tab[fd] = n], eats, n)

(* __retire_fd: an armed node lingers, or is cancelled and waits; one with nothing in
   flight is freed, now or by __flush_pending. *)
RetireFd(s, eats, n, mayLinger) ==
  LET fd == s.node[n].fd
      t == [s EXCEPT !.tab[fd] = IF @ = n THEN None ELSE @, !.node[n].dead = TRUE]
      u == t.node[n]
  IN  CASE u.armed /\ mayLinger /\ u.ino # 0 /\ ~u.pending /\ t.ltab[fd] = None ->
             [t EXCEPT !.node[n].at = "linger", !.ltab[fd] = n]
        [] u.armed -> Zombie(t, eats, n)
        [] ~u.pending -> Free(t, n)
        [] OTHER -> [t EXCEPT !.node[n].at = "none"]

(* __del_fd *)
DelFd(s, eats, fd) ==
  IF s.tab[fd] = None THEN s
  ELSE RetireFd([s EXCEPT !.idle[fd] = s.node[s.tab[fd]].armed], eats, s.tab[fd], TRUE)

(* __adopt_linger: the poll of the last waiter, if it is on the same socket. *)
Adopt(s, eats, fd, tag) ==
  LET n == s.ltab[fd]
      u == Unlinger(s, n)
  IN  IF s.node[n].ino = s.file[fd].ino
      THEN [u EXCEPT !.node[n].dead = FALSE, !.node[n].tag = tag, !.node[n].at = "tab", !.tab[fd] = n]
      ELSE AddFd(Zombie(u, eats, n), eats, fd, tag)

(* __reg_fd: first a delete that is still queued for the descriptor. *)
UrApplyPendingDel(s, eats, fd) ==
  IF \E i \in DOMAIN s.pdel : s.pdel[i] = fd
  THEN DelFd([s EXCEPT !.pdel = SelectSeq(@, LAMBDA x : x # fd)], eats, fd) ELSE s

(* __drain_pending_del *)
UrDrainPendingDel(s, eats) ==
  FoldLeft(LAMBDA t, fd : DelFd(t, eats, fd), [s EXCEPT !.pdel = <<>>], s.pdel)

Eats == IF Short THEN BOOLEAN ELSE {TRUE}
OwnerRuns == st.pc = "run" /\ st.active

----------------------------------------------------------------------------
(* THE OWNER.  xtc_io_reg_fd; ... *)
RegFd(fd) ==
  /\ OwnerRuns /\ st.tags[fd] = 0 /\ st.nreg < MaxRegs /\ FreeNodes(st) # {}
  /\ \E e \in Eats :
       LET s == UrApplyPendingDel([st EXCEPT !.nreg = @ + 1, !.tags[fd] = st.nreg + 1], e, fd)
           tag == st.nreg + 1
       IN  st' = IF s.ltab[fd] # None THEN Adopt(s, e, fd, tag) ELSE AddFd(s, e, fd, tag)

(* ... xtc_io_mod_fd: a new node, then the old one is retired; ... *)
ModFd(fd) ==
  /\ OwnerRuns /\ st.tags[fd] # 0 /\ st.tab[fd] # None /\ st.nreg < MaxRegs /\ FreeNodes(st) # {}
  /\ fd \notin Range(st.pdel)
  /\ \E e \in Eats :
       LET t == [st EXCEPT !.nreg = @ + 1, !.tags[fd] = st.nreg + 1] IN
       st' = RetireFd(AddFd(t, e, fd, st.nreg + 1), e, st.tab[fd], FALSE)

(* ... xtc_io_del_fd; ... *)
DelByOwner(fd) ==
  /\ OwnerRuns /\ st.tags[fd] # 0
  /\ \E e \in Eats : st' = DelFd([st EXCEPT !.tags[fd] = 0], e, fd)

(* ... xtc_io_aio_submit: at once if none is in flight; ... *)
AioSubmit(a) ==
  /\ OwnerRuns /\ st.aio[a] = "idle"
  /\ \E e \in Eats :
       /\ Room(st, e)
       /\ LET s == Put([st EXCEPT !.naio = @ + 1], e, [op |-> "aio", n |-> a])
              t == [s EXCEPT !.nq = @ + 1, !.aio[a] = "sq"]
          IN  st' = IF t.naio = t.nq THEN Submit(t, e) ELSE t

(* ... __xtc_io_flush. *)
Flush == OwnerRuns /\ st.sq # <<>> /\ \E e \in Eats : st' = Submit(st, e)

(* xtc_io_poll: what was carried, alone; or the queued work and the submit, ... *)
PollTop(s, e) == Submit(FlushPending(LingerCancelAll(UrDrainPendingDel(s, e), e), e), e)

PollStart ==
  /\ OwnerRuns
  /\ IF st.carry # <<>>
     THEN st' = [st EXCEPT !.carry = <<>>,
                   !.aio = [a \in Aios |-> IF a \in Range(st.carry) THEN "done" ELSE @[a]]]
     ELSE \E e \in Eats : st' = [PollTop(st, e) EXCEPT !.pc = "reap"]

(* ... and completions, each for the registration that is there; ... *)
Reaped(s, c) == [s EXCEPT !.cq = Tail(@)]

ReapPoll(s, c, e) ==
  LET n == c.n
      t == [Reaped(s, c) EXCEPT !.node[n].armed = FALSE]
      u == t.node[n]
      live == [t EXCEPT !.mist = @ \/ (u.tag # s.tags[u.fd] /\ u.fd \notin Range(s.pdel))]
      unlinked == IF u.at = "linger" THEN Unlinger(t, n) ELSE [t EXCEPT !.node[n].at = "none"]
  IN  CASE n = W -> [Submit(Kick(t, e, W), e) EXCEPT !.pipe = FALSE]
        [] u.dead -> IF u.pending THEN unlinked ELSE Free(unlinked, n)
        [] c.res = "cancel" -> Defer(t, n)
        [] OTHER -> Defer(live, n)

ReapOne(s, e) ==
  LET c == Head(s.cq) IN
  CASE c.kind = "aio" -> [Reaped(s, c) EXCEPT !.naio = @ - 1, !.aio[c.n] = "done"]
    [] OTHER -> ReapPoll(s, c, e)

Reap == st.pc = "reap" /\ st.cq # <<>> /\ \E e \in Eats : st' = ReapOne(st, e)

(* ... until none is left or enough are delivered; without one it waits, and may time out. *)
PollEnds == st.pc = "reap" /\ st' = [st EXCEPT !.pc = "run"]

(* __xtc_io_owner_leave: file AIO is reaped first, for the next owner's poll. *)
Leave ==
  /\ OwnerRuns
  /\ st' = IF st.naio = 0 THEN [st EXCEPT !.active = FALSE] ELSE [st EXCEPT !.pc = "drain"]

(* __aio_drain *)
DrainPoll ==
  /\ st.pc = "drain"
  /\ \E e \in Eats :
       st' = IF st.naio = 0 THEN [st EXCEPT !.pc = "run", !.active = FALSE]
             ELSE IF st.cq = <<>> THEN PollTop(st, e)
             ELSE LET c == Head(st.cq)
                      s == ReapOne(st, e)
                  IN  IF c.kind = "aio" THEN [s EXCEPT !.aio[c.n] = "carry", !.carry = Append(@, c.n)] ELSE s

(* __xtc_io_set_owner: the next thread; a SINGLE_ISSUER ring is built again for it
   (__ring_rebind): every live poll is queued, and no completion of the old ring comes. *)
Rebind(s) ==
  LET lost == {n \in Nodes : s.node[n].at \in {"linger", "zombie"}}
      live == {n \in {W} \cup Nodes : s.node[n].at = "tab"}
      t == [s EXCEPT !.sq = <<>>, !.polls = {}, !.cq = <<>>, !.ltab = [f \in Fds |-> None],
                     !.node = [n \in DOMAIN @ |->
                                 IF n \in lost THEN IF @[n].pending THEN [@[n] EXCEPT !.armed = FALSE, !.at = "none"]
                                                    ELSE FreeNode
                                 ELSE IF n \in live THEN [@[n] EXCEPT !.armed = FALSE] ELSE @[n]]]
  IN  FoldSet(LAMBDA n, u : Defer(u, n), t, live)

TakeOver(t) ==
  /\ ~st.active /\ st.pc = "run" /\ (st.single /\ t # st.owner => st.naio = 0)
  /\ st' = [(IF st.single /\ t # st.owner THEN Rebind(st) ELSE st) EXCEPT !.owner = t, !.active = TRUE]

----------------------------------------------------------------------------
(* OTHER THREADS.  __xtc_io_defer_del_fd: the delete of a registration is queued, and the
   owner woken; xtc_io_wakeup. *)
UrDeferDel(fd) ==
  /\ st.tags[fd] # 0
  /\ st' = [st EXCEPT !.pdel = Append(@, fd), !.tags[fd] = 0, !.pipe = TRUE]

UrWakeup == ~st.pipe /\ st' = [st EXCEPT !.pipe = TRUE]

(* THE KERNEL.  A poll whose file is readable completes, and so does AIO; the polls of a
   thread that exits are cancelled; readiness comes and goes. *)
Fires(p) ==
  /\ p \in st.polls /\ (IF p.file = PipeFile THEN st.pipe ELSE p.file.gen \in st.ready)
  /\ st' = [st EXCEPT !.polls = @ \ {p}, !.cq = Append(@, Cqe("poll", p.n, "ready", p.file))]

AioDone(a) ==
  /\ st.aio[a] = "kernel"
  /\ st' = [st EXCEPT !.aio[a] = "cq", !.cq = Append(@, Cqe("aio", a, "ok", PipeFile))]

ThreadExits ==
  /\ ~st.active /\ st.polls # {} /\ ~st.single
  /\ st' = [st EXCEPT !.polls = {},
              !.cq = @ \o SetToSeq({Cqe("poll", p.n, "cancel", PipeFile) : p \in st.polls})]

Readable(fd) ==
  LET g == st.file[fd].gen IN
  /\ \E p \in st.polls : p.file.gen = g
  /\ st' = [st EXCEPT !.ready = IF g \in @ THEN @ \ {g} ELSE @ \cup {g}]

(* close and open again: the descriptor is another file's, and its inode may be the last
   one's unless a poll holds that. *)
Reopen(fd) ==
  /\ st.tags[fd] = 0 /\ st.nfile < MaxFiles /\ fd \notin Range(st.pdel)
  /\ \E ino \in {1, 2} :
       /\ ino = st.file[fd].ino => ~\E p \in st.polls : p.file = st.file[fd]
       /\ st' = [st EXCEPT !.nfile = @ + 1, !.file[fd] = [ino |-> ino, gen |-> st.nfile + 1]]

UrNext ==
  \/ \E fd \in Fds : RegFd(fd) \/ ModFd(fd) \/ DelByOwner(fd) \/ UrDeferDel(fd) \/ Readable(fd) \/ Reopen(fd)
  \/ \E a \in Aios : AioSubmit(a) \/ AioDone(a)
  \/ Flush \/ PollStart \/ Reap \/ PollEnds \/ Leave \/ DrainPoll \/ (\E t \in {"a", "b"} : TakeOver(t))
  \/ UrWakeup \/ ThreadExits \/ (\E p \in st.polls : Fires(p))

----------------------------------------------------------------------------
(* The fields have their types. *)
UrTypeOK ==
  /\ Len(st.sq) <= SqCap /\ st.naio \in 0 .. Cardinality(Aios) /\ st.nq <= st.naio
  /\ \A n \in DOMAIN st.node : st.node[n].at \in {"none", "tab", "linger", "zombie"}

InFlight(n) ==
  Cardinality({p \in st.polls : p.n = n})
  + Cardinality({i \in DOMAIN st.cq : st.cq[i].kind = "poll" /\ st.cq[i].n = n})
  + Cardinality({i \in DOMAIN st.sq : st.sq[i].op = "add" /\ st.sq[i].n = n})

(* __add_fd, __retire_fd, the reap: a node is the user_data of one poll at most, and is
   allocated as long as that poll, or what it completes with, can name it. *)
NodesKept ==
  \A n \in DOMAIN st.node :
    /\ InFlight(n) <= 1
    /\ InFlight(n) # 0 => st.node[n].used
    /\ st.node[n].armed <=> InFlight(n) # 0

(* No node is lost: each is a registration, lingers, waits for its last completion, or is
   queued to be freed. *)
NoNodeLost ==
  \A n \in Nodes :
    LET t == st.node[n] IN
    t.used => CASE t.at = "tab" -> ~t.dead /\ st.tab[t.fd] = n
                [] t.at = "linger" -> t.dead /\ t.armed /\ st.ltab[t.fd] = n
                [] t.at = "zombie" -> t.dead /\ t.armed
                [] OTHER -> t.dead /\ ~t.armed /\ t.pending

(* A registration is watched: its poll is armed or will be by the next poll, before that
   waits; and a completion is its own.  While the owner waits, the poll is in the kernel,
   the wakeup's too, so that neither readiness nor a wake is lost. *)
Watched ==
  /\ ~st.mist
  /\ \A n \in DOMAIN st.node : st.node[n].at = "tab" => st.node[n].armed \/ st.node[n].pending
  /\ st.pc = "reap" /\ st.cq = <<>> /\ ~Short =>
       \A n \in DOMAIN st.node : st.node[n].at = "tab" /\ ~st.node[n].pending => \E p \in st.polls : p.n = n

(* __adopt_linger: the poll of a registration is on the file that its descriptor names. *)
WatchesItsFile ==
  \A p \in st.polls : p.n # W /\ st.node[p.n].at = "tab" => p.file = st.file[st.node[p.n].fd]

(* n_aio: what the kernel or the queues hold; a request completes once, also when its ring
   has another owner by then. *)
AioExact ==
  /\ st.naio = Cardinality({a \in Aios : st.aio[a] \in {"sq", "kernel", "cq"}})
  /\ \A a \in Aios : /\ st.aio[a] = "sq" => \E i \in DOMAIN st.sq : st.sq[i] = [op |-> "aio", n |-> a]
                     /\ st.aio[a] = "cq" => \E i \in DOMAIN st.cq : st.cq[i].kind = "aio" /\ st.cq[i].n = a
                     /\ st.aio[a] = "carry" => a \in Range(st.carry)

----------------------------------------------------------------------------
(* THE SIMULATED DISK.  The seeded coins are choices; one file, read and written IoLen cells
   at a time; a cell holds the number of the request that wrote it.  st has
     now, wakeup, ev       the virtual clock, the flag, the events in their order
     faults                xtc_sim_io_faults_enable was called
     pc, res, done         per fiber: "idle", "parked" or "woken"; its xtc_aio_t
     file, ring            the cells; the stale ring, records of off and cells
     written, durable      written_end, durable_end
   and, to state what is right,
     ops, id               requests so far; per fiber the one it waits for
     want                  per fiber: the result of that request
     synced, vec           cells that an fsync made durable; pwritev was used
     was, read             per cell what it has held; what the last read gave
     msgs, bad             callbacks in flight; a dead frame was read or a result was wrong *)
IoLen == 2
NoRead == [off |-> 0, cells |-> <<>>, flip |-> 0]

SInit ==
  \E f \in BOOLEAN :
    st = [now |-> 0, wakeup |-> FALSE, ev |-> <<>>, faults |-> f,
          pc |-> [a \in Aios |-> "idle"], res |-> [a \in Aios |-> 0], done |-> [a \in Aios |-> FALSE],
          file |-> <<>>, ring |-> <<>>, written |-> 0, durable |-> 0, ops |-> 0,
          id |-> [a \in Aios |-> 0], want |-> [a \in Aios |-> 0], synced |-> 0, vec |-> FALSE,
          was |-> <<>>, read |-> NoRead, msgs |-> {}, bad |-> FALSE]

(* sim_events_insert; on a coin one place later. *)
SimEventsInsert(evs, e, swizzle) ==
  LET at == Min({k \in DOMAIN evs : evs[k].due > e.due} \cup {Len(evs) + 1})
  IN  InsertAt(evs, IF swizzle /\ at <= Len(evs) THEN at + 1 ELSE at, e)

(* __xtc_sim_io_stale_record, of what is there before a write, ... *)
CellsAt(s, off) == SubSeq(s.file, off + 1, Min({off + IoLen, Len(s.file)}))
StaleRecord(s, off) ==
  LET old == CellsAt(s, off)
      r == IF Len(s.ring) = SqCap THEN Tail(s.ring) ELSE s.ring
  IN  IF old = <<>> THEN s ELSE [s EXCEPT !.ring = Append(r, [off |-> off, cells |-> old])]

(* ... and __xtc_sim_io_stale_read: the newest for the same offset. *)
StaleRead(s, off, cells) ==
  LET hits == {k \in DOMAIN s.ring : s.ring[k].off = off}
      old == s.ring[Max(hits)].cells
  IN  IF hits = {} THEN cells ELSE [j \in DOMAIN cells |-> IF j <= Len(old) THEN old[j] ELSE cells[j]]

(* n cells of the buffer reach the file. *)
Wrote(s, off, n) ==
  LET len == Max({Len(s.file), off + n})
      here == off + 1 .. off + n
  IN  [s EXCEPT !.file = [j \in 1 .. len |-> IF j \in here THEN s.ops ELSE @[j]],
                !.was = [j \in 1 .. len |-> (IF j <= Len(@) THEN @[j] ELSE {})
                                              \cup (IF j \in here THEN {s.ops} ELSE {})]]

WbWrote(s, end) == [s EXCEPT !.written = Max({@, end})]
WbSynced(s) == [s EXCEPT !.durable = s.written, !.synced = Len(s.file)]

(* What persists of a write, and which byte of a read is bad, 0 for none. *)
TornPrefix(len) == 1 .. len
FlipByte(len) == 0 .. len

(* What xtc_io_aio_submit does for each operation: the state and the result. *)
Pread(s, off) ==
  LET cells == CellsAt(s, off)
      given(stale, flip) ==
        [s EXCEPT !.read = [off |-> off, flip |-> flip,
                            cells |-> IF stale THEN StaleRead(s, off, cells) ELSE cells]]
  IN  {[s |-> s, res |-> -1]}
        \cup (IF cells = <<>> THEN {[s |-> s, res |-> 0]}
              ELSE {[s |-> given(stale, flip), res |-> Len(cells)] :
                      stale \in BOOLEAN, flip \in FlipByte(Len(cells))})

(* No space: nothing is done.  Torn: only a prefix persists, and all of it is reported. *)
Pwrite(s, off) ==
  LET r == StaleRecord(s, off)
  IN  {[s |-> s, res |-> -1], [s |-> r, res |-> -1]}
        \cup {[s |-> WbWrote(Wrote(r, off, n), off + n), res |-> IoLen] : n \in TornPrefix(IoLen)}

Preadv(s, off) == {[s |-> s, res |-> -1], [s |-> s, res |-> Len(CellsAt(s, off))]}
Pwritev(s, off) ==
  {[s |-> s, res |-> -1], [s |-> [Wrote(s, off, IoLen) EXCEPT !.vec = TRUE], res |-> IoLen]}
Fsync(s) == {[s |-> s, res |-> -1], [s |-> WbSynced(s), res |-> 0]}

SimOps(s, op, off) ==
  CASE op = "PREAD" -> Pread(s, off)
    [] op = "PWRITE" -> Pwrite(s, off)
    [] op = "PREADV" -> Preadv(s, off)
    [] op = "PWRITEV" -> Pwritev(s, off)
    [] op = "FSYNC" -> Fsync(s)

(* A fault is in what is reported: a short transfer, or an error of fsync. *)
Reported(s, op, res) ==
  CASE s.faults /\ op \in {"PREAD", "PWRITE"} /\ res > 0 -> 1 .. res
    [] s.faults /\ op = "FSYNC" /\ res = 0 -> {0, -1}
    [] OTHER -> {res}

(* With faults the completion is an event, unless there is no memory for it. *)
SimDefers(s, f, res) ==
  /\ s.faults
  /\ \E lat \in Lats, sw \in BOOLEAN :
       st' = [s EXCEPT !.pc[f] = "parked",
                       !.ev = SimEventsInsert(@, [k |-> "aio", f |-> f, id |-> s.ops, due |-> s.now + lat,
                                                  res |-> res, done |-> FALSE, gone |-> FALSE], sw)]
SimInline(s, f, res) == st' = [s EXCEPT !.pc[f] = "woken", !.res[f] = res, !.done[f] = TRUE]

SimSubmit(f, op, off) ==
  LET n == st.ops + 1
      s == [st EXCEPT !.ops = n, !.id[f] = n, !.done[f] = FALSE]
  IN  /\ st.pc[f] = "idle" /\ st.ops < MaxOps
      /\ \E o \in SimOps(s, op, off) : \E res \in Reported(s, op, o.res) :
           LET t == [o.s EXCEPT !.want[f] = res]
           IN  SimDefers(t, f, res) \/ SimInline(t, f, res)

(* __xtc_io_sim_defer_cb: a message to this loop that takes its time. *)
DeferCb ==
  /\ MayMod /\ st.ops < MaxOps
  /\ \E lat \in Lats, sw \in BOOLEAN :
       st' = [st EXCEPT !.ops = @ + 1, !.msgs = @ \cup {st.ops + 1},
                        !.ev = SimEventsInsert(@, [k |-> "cb", id |-> st.ops + 1, due |-> st.now + lat], sw)]

SimWakeupPost == MayMod /\ ~st.wakeup /\ st' = [st EXCEPT !.wakeup = TRUE]

(* sim_aio_tag and the done store; the frame is the fiber's, of whichever request. *)
SimPublish(s, e) ==
  IF e.gone THEN [s EXCEPT !.bad = TRUE] ELSE [s EXCEPT !.res[e.f] = e.res, !.done[e.f] = TRUE]
SimWakes(s, f) == [s EXCEPT !.pc[f] = IF @ = "parked" THEN "woken" ELSE @]

(* xtc_io_poll from the event i on, with n reported; a request in `stall` is published now and
   its wake put off. *)
RECURSIVE SimDrain(_, _, _, _, _)
SimDrain(s, i, n, stall, sw) ==
  LET e == s.ev[i]
      t == [s EXCEPT !.ev = RemoveAt(@, i)]
      p == IF e.done THEN t ELSE SimPublish(t, e)
      late == [e EXCEPT !.done = TRUE, !.due = s.now + 1]
  IN  CASE i > Len(s.ev) \/ n >= MaxEvents -> s
        [] ~(i > Len(s.ev) \/ n >= MaxEvents) ->
             CASE e.due > s.now -> SimDrain(s, i + 1, n, stall, sw)
               [] e.due <= s.now /\ e.k = "cb" ->
                    SimDrain([t EXCEPT !.msgs = @ \ {e.id}, !.bad = @ \/ e.id \notin s.msgs], i, n, stall, sw)
               [] e.due <= s.now /\ e.k = "aio" /\ ~e.done /\ e.f \in stall ->
                    SimDrain([p EXCEPT !.ev = SimEventsInsert(@, late, sw)], i, n, stall, sw)
               [] OTHER -> SimDrain(SimWakes(p, e.f), i, n + 1, stall, sw)

SimDue(s) == \E k \in DOMAIN s.ev : s.ev[k].due <= s.now
SimPoll ==
  /\ st.wakeup \/ SimDue(st)
  /\ \E stall \in SUBSET Aios, sw \in BOOLEAN :
       st' = SimDrain([st EXCEPT !.wakeup = FALSE], 1, IF st.wakeup THEN 1 ELSE 0, stall, sw)

(* __xtc_io_sim_next_due, to which the scheduler moves the clock when nothing can run. *)
SimNextDue(s) == Min({s.ev[k].due : k \in DOMAIN s.ev})
SimAdvance ==
  /\ st.ev # <<>> /\ ~SimDue(st) /\ \A f \in Aios : st.pc[f] # "woken"
  /\ st' = [st EXCEPT !.now = SimNextDue(st)]

(* The fiber, woken by a poll or by something else, in aio_do: it parks again, or leaves with
   its result, and __xtc_io_sim_aio_release marks what is queued for its frame. *)
SimAioRelease(s, f) ==
  [s EXCEPT !.ev = [k \in DOMAIN @ |-> IF @[k].k = "aio" /\ @[k].f = f THEN [@[k] EXCEPT !.gone = TRUE]
                                                                     ELSE @[k]]]
SimLooks(f) ==
  /\ st.pc[f] = "woken"
  /\ st' = IF st.done[f]
             THEN [SimAioRelease(st, f) EXCEPT !.pc[f] = "idle", !.res[f] = 0, !.want[f] = 0, !.done[f] = FALSE,
                                               !.bad = @ \/ st.res[f] # st.want[f]]
             ELSE [st EXCEPT !.pc[f] = "parked"]
SimNudge(f) == st.pc[f] = "parked" /\ st.done[f] /\ st' = [st EXCEPT !.pc[f] = "woken"]

SNext ==
  \/ DeferCb \/ SimWakeupPost \/ SimPoll \/ SimAdvance
  \/ \E f \in Aios : \/ SimLooks(f) \/ SimNudge(f)
                     \/ \E op \in Sets, off \in 0 .. Min({1, Len(st.file)}) : SimSubmit(f, op, off)

(* xtc_io_poll of io_sim.c: a fiber that is parked has its completion, or the wake that trails it,
   among the events; an event that trails does not touch the frame of a later request; and every
   deferred message is delivered once. *)
SimHeard ==
  /\ ~st.bad
  /\ \A f \in Aios : st.pc[f] = "parked" =>
       \E k \in DOMAIN st.ev : st.ev[k].k = "aio" /\ st.ev[k].id = st.id[f]
  /\ st.msgs = {st.ev[k].id : k \in {j \in DOMAIN st.ev : st.ev[j].k = "cb"}}

(* xtc_sim_io_durable_end: what a recovery may trust is what an fsync made durable, a torn
   write's prefix included, unless pwritev wrote too, and then no more than that. *)
DurableHonest ==
  /\ st.durable <= st.synced
  /\ ~st.vec => st.durable = st.synced

(* __xtc_sim_io_stale_read: what a read gives, but for a byte that is flipped, the file has held in
   that place. *)
ReadsWereThere ==
  \A j \in DOMAIN st.read.cells : j = st.read.flip \/ st.read.cells[j] \in st.was[st.read.off + j]
=============================================================================
