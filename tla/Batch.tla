------------------------------- MODULE Batch -------------------------------
(***************************************************************************)
(* The continuous batching engine of ptc/batch.c: a driver process that    *)
(* builds vectors of requests, runs or offloads them and delivers their    *)
(* outcomes; fibers of its loop that submit, cancel, resume and close; and *)
(* producers on other threads that hand in records through a ring.  A slot *)
(* is named by the handle in it.                                           *)
(***************************************************************************)
EXTENDS Naturals, Sequences, FiniteSets
LOCAL INSTANCE SequencesExt
LOCAL INSTANCE FiniteSetsExt

CONSTANTS
  Capacity, MaxActive, ResourceCapacity,
  Charges,        \* the charge of each handle
  MaxHandle,      \* UINT64_MAX of the handle counter
  Async, Kinds,   \* create_async, and the exec kinds submit may choose
  Timed,          \* exec_timeout_ns > 0
  MtCap,          \* mt_queue_cap
  Producers,
  Results,        \* what a step or a collect may say of a member
  Calls, MtCalls, \* the calls that fibers of the loop, and producers, make
  Modes,          \* how the owner may close
  MayKill, MayExit

Handles == 1 .. MaxHandle
ActiveStates == {"READY", "BLOCKED", "INFLIGHT"}
SlotStates == ActiveStates \cup {"WAITING", "TERMINAL", "DELIVERING"}
Pending == {"WAITING", "READY", "BLOCKED"}

(* st has the fields
     state     per handle: "none", a slot state, "held", or "done"
     wait, active, term, clist     the lists;  held  the held submits with their cancel
     outcome   per handle;  cancel, hinted  sets of handles
     live, reserved     the counters
     ctr       handle_ctr;  closed, cancelling, callback  the flags
     vec       the vector, frozen while inflight is set;  kind, dev  of the offloaded op
     status    what the await found, handed to collect
     pc, ret   where the driver is, and where delivery goes back to
     finished, killed    the local of the driver, a kill pending
     note, poke          the notify's permit, a wake of the driver's fd park
     ring      the records in the ring: op, h, and whether the slot is written
     pool, cpool, gate, inside     free records, the gate, producers inside it
     ppc, rec  per producer: where it is, its record
     known     handles that a submit has returned
     done      per handle: completions delivered, in order of delivery *)
VARIABLE st

Nobody == [op |-> "NONE", h |-> 0, w |-> FALSE]

Init ==
  st = [state |-> [h \in Handles |-> "none"], wait |-> <<>>, active |-> <<>>, term |-> <<>>,
        clist |-> <<>>, held |-> <<>>, outcome |-> [h \in Handles |-> "none"], cancel |-> {},
        hinted |-> {}, live |-> 0, reserved |-> 0, ctr |-> 0, closed |-> FALSE,
        cancelling |-> FALSE, callback |-> FALSE, vec |-> <<>>, inflight |-> FALSE,
        kind |-> "none", dev |-> "none", status |-> "none", pc |-> "yield", ret |-> "none",
        finished |-> FALSE, killed |-> FALSE, note |-> FALSE, poke |-> FALSE, ring |-> <<>>,
        pool |-> MtCap, cpool |-> MtCap, gate |-> 0, inside |-> 0,
        ppc |-> [p \in Producers |-> "idle"], rec |-> [p \in Producers |-> Nobody],
        known |-> {}, done |-> <<>>]

----------------------------------------------------------------------------
(* The lists *)

Without(q, h) == SelectSeq(q, LAMBDA x : x # h)

(* batch_list_of *)
ListOf(x) ==
  CASE x = "WAITING" -> "wait" [] x \in ActiveStates -> "active" [] x = "TERMINAL" -> "term"
    [] OTHER -> "none"

(* batch_move: a move within a list keeps the place. *)
Move(s, h, to) ==
  LET from == ListOf(s.state[h])
      dst == ListOf(to)
      list(name, q) == IF from = dst THEN q
                       ELSE IF name = from THEN Without(q, h)
                       ELSE IF name = dst THEN Append(q, h) ELSE q
  IN [s EXCEPT !.state[h] = to, !.wait = list("wait", @), !.active = list("active", @),
               !.term = list("term", @)]

(* batch_mark_cancel *)
MarkCancel(s, h) ==
  [s EXCEPT !.cancel = @ \cup {h},
            !.clist = IF s.state[h] \in Pending /\ ~Contains(@, h) THEN <<h>> \o @ ELSE @]

(* batch_terminal *)
Terminal(s, h, o) ==
  [Move(s, h, "TERMINAL") EXCEPT
     !.reserved = IF s.state[h] \in ActiveStates THEN @ - Charges[h] ELSE @, !.outcome[h] = o]

Abort(s, h) == IF s.state[h] \in Pending THEN Terminal(s, h, "ABORTED") ELSE s

(* batch_consume_cancels: the recorded cancels, and all of them on a cancel-close *)
ConsumeCancels(s) ==
  LET some == [FoldLeft(Abort, s, s.clist) EXCEPT !.clist = <<>>]
  IN IF s.cancelling THEN FoldLeft(Abort, FoldLeft(Abort, some, some.wait), some.active)
     ELSE some

(* batch_mt_place *)
Place(s, r) ==
  LET q == [Move(s, r.h, "WAITING") EXCEPT !.live = @ + 1, !.pool = @ + 1]
  IN IF r.cancel THEN MarkCancel(q, r.h) ELSE q

(* batch_mt_admit_held *)
AdmitHeld(s) ==
  LET n == Min({Len(s.held), Capacity - s.live})
  IN FoldLeft(Place, [s EXCEPT !.held = SubSeq(@, n + 1, Len(@))], SubSeq(s.held, 1, n))

(* batch_next_handle: never 0, never one that was used; an exhausted counter refuses. *)
HandlesLeft == st.ctr < MaxHandle
NextHandle == st.ctr + 1

(* batch_retire *)
Retire(s, h) ==
  AdmitHeld([Move(s, h, "done") EXCEPT !.live = @ - 1, !.cancel = @ \ {h}, !.hinted = @ \ {h},
                                       !.done = Append(@, <<h, s.outcome[h]>>)])

(* batch_mt_control: a stale handle is ignored. *)
Control(s, r) ==
  CASE s.state[r.h] = "held" ->
         IF r.op = "CANCEL"
           THEN [s EXCEPT !.held = [i \in 1 .. Len(@) |->
                   IF @[i].h = r.h THEN [@[i] EXCEPT !.cancel = TRUE] ELSE @[i]]]
         ELSE s
    [] r.op = "CANCEL" /\ s.state[r.h] \in Pending \cup {"INFLIGHT"} -> MarkCancel(s, r.h)
    [] r.op = "RESUME" /\ s.state[r.h] = "BLOCKED" -> Move(s, r.h, "READY")
    [] OTHER -> s

(* batch_mt_drain of one record: a submit takes a slot or is held, in order. *)
Apply(s, r) ==
  IF r.op # "SUBMIT" THEN [Control(s, r) EXCEPT !.cpool = @ + 1]
  ELSE IF s.held # <<>> \/ s.live = Capacity
         THEN [s EXCEPT !.held = Append(@, [h |-> r.h, cancel |-> FALSE]), !.state[r.h] = "held"]
  ELSE Place(s, [h |-> r.h, cancel |-> FALSE])

(* Up to the first slot that is reserved and not written *)
Drain(s) ==
  LET n == Max({k \in 0 .. Len(s.ring) : \A i \in 1 .. k : s.ring[i].w})
  IN FoldLeft(Apply, [s EXCEPT !.ring = SubSeq(@, n + 1, Len(@))], SubSeq(s.ring, 1, n))

----------------------------------------------------------------------------
(* The driver.  Its steps end where it yields, calls the user or may be preempted. *)

At(x) == st.pc = x
Cleaning == st.ret \in {"cleanup", "cleanYield"}
Goto(s, x) == [s EXCEPT !.pc = x]

Top ==
  /\ At("top")
  /\ st' = [ConsumeCancels(Drain(st)) EXCEPT !.pc = "deliver", !.ret = "vector"]

(* batch_deliver: one outcome; complete() is called with the callback flag up. *)
Deliver ==
  /\ At("deliver")
  /\ st' = IF st.term = <<>> THEN Goto(st, st.ret)
           ELSE [Move(st, Head(st.term), "DELIVERING") EXCEPT !.callback = TRUE, !.pc = "complete"]

Delivering == {h \in Handles : st.state[h] = "DELIVERING"}

Complete ==
  /\ At("complete")
  /\ st' = [Retire(st, CHOOSE h \in Delivering : TRUE) EXCEPT !.callback = FALSE, !.pc = "deliver"]

(* complete() exits the process: the cleanup is next. *)
CompleteExits ==
  /\ MayExit /\ At("complete") /\ ~Cleaning
  /\ st' = Goto(st, "exit")

(* batch_vector: cancels, then the oldest waiting requests that fit; the vector is what
   is ready, in the order of admission. *)
RECURSIVE AdmitWaiting(_)
AdmitWaiting(s) ==
  IF s.wait # <<>> /\ Len(s.active) < MaxActive
     /\ Charges[Head(s.wait)] <= ResourceCapacity - s.reserved
    THEN AdmitWaiting([Move(s, Head(s.wait), "READY") EXCEPT !.reserved = @ + Charges[Head(s.wait)]])
  ELSE s

Vector ==
  /\ At("vector")
  /\ LET s == AdmitWaiting(ConsumeCancels(Drain(st)))
         vec == SelectSeq(s.active, LAMBDA h : s.state[h] = "READY")
     IN st' = [s EXCEPT !.vec = vec, !.callback = vec # <<>>, !.finished = FALSE,
                        !.pc = IF vec # <<>> THEN IF Async THEN "submit" ELSE "step"
                               ELSE IF s.closed /\ s.live = 0 /\ s.held = <<>> THEN "quiesce"
                               ELSE "decide",
                        !.ret = "decide"]

(* batch_mt_quiesced: the gate is shut for submits, then, with nobody inside and an empty
   ring, for everybody, and both are looked at again. *)
Quiesce ==
  \/ /\ At("quiesce")
     /\ st' = IF Producers = {} THEN [st EXCEPT !.finished = TRUE, !.pc = st.ret]
              ELSE [st EXCEPT !.gate = Max({@, 1}), !.pc = "inside"]
  \/ /\ At("inside")
     /\ st' = Goto(st, IF st.inside = 0 THEN "empty" ELSE st.ret)
  \/ /\ At("empty")
     /\ st' = IF st.ring = <<>> THEN [st EXCEPT !.gate = 2, !.pc = "insideAgain"]
              ELSE Goto(st, st.ret)
  \/ /\ At("insideAgain")
     /\ st' = Goto(st, IF st.inside = 0 THEN "emptyAgain" ELSE st.ret)
  \/ /\ At("emptyAgain")
     /\ st' = [st EXCEPT !.finished = st.ring = <<>>, !.pc = st.ret]

(* No vector: return, look again, or wait for the notify. *)
Decide ==
  /\ At("decide")
  /\ st' = Goto(st, IF st.finished THEN "exit"
                    ELSE IF st.term # <<>> THEN "top"
                    ELSE IF st.ring # <<>> \/ (st.closed /\ st.live = 0 /\ st.held = <<>>)
                           THEN "yield"
                    ELSE "idle")

Idle ==
  /\ At("idle") /\ st.note
  /\ st' = [st EXCEPT !.note = FALSE, !.pc = "top"]

(* What a step or a collect says of a member, and what becomes of it *)
Judge(s, h, r) ==
  CASE r = "DONE" -> Terminal(s, h, "OK")
    [] r = "BLOCKED" -> Move(s, h, "BLOCKED")
    [] r = "CONTINUE" -> Move(s, h, "READY")
    [] OTHER -> Terminal(s, h, r)
JudgeAll(s, said) == FoldLeft(LAMBDA q, h : Judge(q, h, said[h]), s, s.vec)
FailAll(s, o) == FoldLeft(LAMBDA q, h : Terminal(q, h, o), s, s.vec)

Step ==
  /\ At("step")
  /\ LET after(s) == [s EXCEPT !.callback = FALSE, !.pc = "deliver", !.ret = "yield"]
     IN \/ \E said \in [Range(st.vec) -> Results] : st' = after(JudgeAll(st, said))
        \/ st' = after(FailAll(st, "INTERNAL"))

Yield ==
  /\ At("yield")
  /\ st' = Goto(st, "top")

(* submit() of the asynchronous engine: refused, or an op that is in flight *)
Submit ==
  /\ At("submit")
  /\ \/ st' = [FailAll(st, "INTERNAL") EXCEPT !.callback = FALSE, !.pc = "deliver", !.ret = "yield"]
     \/ \E k \in Kinds :
          st' = [FoldLeft(LAMBDA s, h : Move(s, h, "INFLIGHT"), st, st.vec) EXCEPT
                   !.callback = FALSE, !.inflight = TRUE, !.kind = k, !.dev = "run",
                   !.status = IF k = "SYNC" THEN "OK" ELSE "none",
                   !.pc = IF k = "SYNC" THEN "collect" ELSE "await"]

(* The device ends the op: batch_tok_fire on the promise's thread, a readable fence, or
   the pool; a token the engine has let go of signals nobody. *)
DeviceEnds ==
  /\ st.inflight /\ st.dev = "run"
  /\ \E o \in {"OK", "INVAL"} :
       st' = [st EXCEPT !.dev = o, !.note = @ \/ st.kind = "FUTURE"]

(* batch_fire_hints *)
Hints(s, all) ==
  [s EXCEPT !.hinted = @ \cup {h \in Range(s.vec) : all \/ h \in s.cancel \/ s.cancelling}]

(* batch_await_stop: the records that came in are applied and the hints given. *)
AwaitStop(s) == IF s.kind = "BLOCKING" THEN s ELSE Hints(Drain(s), FALSE)

(* batch_await: after every wake, a cancel-close ends it, then the op does, then the
   deadline. *)
Await ==
  /\ At("await")
  /\ LET s == AwaitStop(st)
         end(o) == [s EXCEPT !.status = o, !.pc = "collect"]
     IN IF st.kind # "BLOCKING" /\ s.cancelling THEN st' = end("ABORTED")
        ELSE IF s.dev # "run" THEN st' = end(s.dev)
        ELSE \/ st' = Goto(s, "parked")
             \/ Timed /\ st.kind # "BLOCKING" /\ st' = end("TIMEOUT")

(* The park ends: the notify, a wake of the fd park, the device or the deadline. *)
AwaitWakes ==
  /\ At("parked")
  /\ \/ st.kind = "FUTURE" /\ st.note /\ st' = [st EXCEPT !.note = FALSE, !.pc = "await"]
     \/ st.kind = "FENCE" /\ st.poke /\ st' = [st EXCEPT !.poke = FALSE, !.pc = "await"]
     \/ st.kind # "FUTURE" /\ st.dev # "run" /\ st' = Goto(st, "await")
     \/ Timed /\ st.kind # "BLOCKING" /\ st' = Goto(st, "await")

(* batch_collect_inflight, the one end of an offloaded op *)
CollectAs(s, status, said) ==
  LET one(q, h) ==
        IF h \in q.cancel \/ status = "ABORTED" THEN Terminal(q, h, "ABORTED")
        ELSE IF status \notin {"OK", "TIMEOUT"} THEN Terminal(q, h, status)
        ELSE IF status = "TIMEOUT" /\ said[h] \in {"CONTINUE", "BLOCKED"} THEN Terminal(q, h, "AGAIN")
        ELSE Judge(q, h, said[h])
  IN [FoldLeft(one, Hints(s, status = "ABORTED"), s.vec) EXCEPT
        !.inflight = FALSE, !.dev = "none", !.kind = "none", !.status = "none", !.vec = <<>>,
        !.callback = FALSE]

Collect ==
  /\ At("collect")
  /\ \E said \in [Range(st.vec) -> Results] :
       st' = [CollectAs(st, st.status, said) EXCEPT !.pc = "deliver", !.ret = "yield"]

(* A kill, and where the driver takes it: unmasked parks and yields, and where a mask is
   left. *)
Kill ==
  /\ MayKill /\ ~st.killed /\ st.pc \notin {"exit", "cleanup", "gone"} /\ ~Cleaning
  /\ st' = [st EXCEPT !.killed = TRUE]

KillDelivered ==
  /\ st.killed /\ st.pc \in {"top", "deliver", "await", "parked", "yield"}
  /\ (st.pc = "parked" => st.kind # "BLOCKING") /\ ~Cleaning
  /\ st' = Goto(st, "exit")

(* batch_cleanup, at the exit: an op in flight is collected as aborted, a delivery that
   was begun is retired, ... *)
Exit ==
  /\ At("exit")
  /\ LET s == IF st.inflight THEN CollectAs(st, "ABORTED", [h \in Range(st.vec) |-> "DONE"]) ELSE st
         q == IF Delivering = {} THEN s ELSE Retire(s, CHOOSE h \in Delivering : TRUE)
     IN st' = [q EXCEPT !.closed = TRUE, !.callback = FALSE, !.pc = "cleanup", !.ret = "cleanup",
                        !.finished = FALSE]

(* ... then everything accepted is ended and delivered until nothing is left and no
   producer can hand in more. *)
Cleanup ==
  \/ /\ At("cleanup")
     /\ LET s == Drain(st)
            end(q, h) == Terminal(q, h, IF q.cancelling \/ h \in q.cancel THEN "ABORTED"
                                        ELSE "INTERNAL")
        IN st' = IF s.live = 0 /\ s.held = <<>>
                   THEN [s EXCEPT !.pc = "quiesce", !.ret = "cleanYield"]
                 ELSE [FoldLeft(end, s, s.wait \o s.active) EXCEPT
                         !.pc = "deliver", !.ret = "cleanup"]
  \/ /\ At("cleanYield")
     /\ st' = Goto(st, IF st.finished THEN "gone" ELSE "cleanup")

Driver ==
  \/ Top \/ Deliver \/ Complete \/ CompleteExits \/ Vector \/ Quiesce \/ Decide \/ Idle \/ Step
  \/ Yield \/ Submit \/ Await \/ AwaitWakes \/ Collect \/ KillDelivered \/ Exit \/ Cleanup

(* Driver is enabled (in an engine that does not offload). *)
DriverRuns == st.pc # "gone" /\ (st.pc = "idle" => st.note)

----------------------------------------------------------------------------
(* Fibers of the owner's loop: they run while the driver is off the loop, and are refused
   with XTC_E_DEADLK during a callback of the engine that parks. *)

Mutable ==
  /\ st.pc \in {"yield", "idle", "parked", "cleanYield", "gone", "complete", "step", "submit"}
  /\ ~(st.pc = "cleanYield" /\ st.finished)
  /\ ~st.callback

(* xtc_batch_submit *)
OwnerSubmit ==
  /\ Mutable /\ ~st.closed /\ st.live < Capacity /\ st.held = <<>> /\ HandlesLeft
  /\ LET h == NextHandle
     IN st' = [Move(st, h, "WAITING") EXCEPT !.ctr = h, !.live = @ + 1, !.note = TRUE,
                                             !.known = @ \cup {h}]

(* xtc_batch_cancel: of a slot, of a held submit, or of one still in the ring *)
OwnerCancel(h) ==
  /\ Mutable /\ h \in st.known
  /\ LET s == IF st.state[h] \in SlotStates THEN st ELSE Drain(st)
     IN st' = CASE s.state[h] \in Pending \cup {"INFLIGHT"} ->
                     [MarkCancel(s, h) EXCEPT !.note = TRUE, !.poke = @ \/ s.state[h] = "INFLIGHT"]
                [] s.state[h] \in {"TERMINAL", "DELIVERING"} ->
                     [s EXCEPT !.cancel = @ \cup {h}, !.note = TRUE]
                [] s.state[h] = "held" ->
                     [Control(s, [op |-> "CANCEL", h |-> h]) EXCEPT !.note = TRUE]
                [] OTHER -> s

(* xtc_batch_resume *)
OwnerResume(h) ==
  /\ Mutable /\ st.state[h] \in {"BLOCKED", "READY"}
  /\ st' = [Move(st, h, "READY") EXCEPT !.note = TRUE]

(* xtc_batch_close *)
OwnerClose(mode) ==
  /\ Mutable
  /\ st' = [st EXCEPT !.closed = TRUE, !.cancelling = @ \/ mode = "CANCEL", !.note = TRUE,
                      !.gate = IF Producers # {} /\ @ = 0 THEN 1 ELSE @,
                      !.poke = @ \/ (mode = "CANCEL" /\ st.inflight)]

Owner ==
  \/ "SUBMIT" \in Calls /\ OwnerSubmit
  \/ "CANCEL" \in Calls /\ \E h \in Handles : OwnerCancel(h)
  \/ "RESUME" \in Calls /\ \E h \in Handles : OwnerResume(h)
  \/ \E mode \in Modes : OwnerClose(mode)

----------------------------------------------------------------------------
(* Producers: xtc_batch_submit_mt, and batch_mt_control_submit for the others *)

Limit(p) == IF st.rec[p].op = "SUBMIT" THEN 1 ELSE 2
AtP(p, x) == st.ppc[p] = x
Out(s, p) == [s EXCEPT !.ppc[p] = "idle", !.rec[p] = Nobody]

(* batch_mt_enter: a shut gate is refused before and after the call is announced. *)
Call(p, op, h) ==
  /\ AtP(p, "idle")
  /\ IF op = "SUBMIT" THEN HandlesLeft ELSE h \in st.known
  /\ st.gate < (IF op = "SUBMIT" THEN 1 ELSE 2)
  /\ st' = [st EXCEPT !.ppc[p] = "announce", !.rec[p] = [op |-> op, h |-> h, w |-> FALSE]]

Announce(p) ==
  /\ AtP(p, "announce")
  /\ st' = [st EXCEPT !.inside = @ + 1, !.ppc[p] = "recheck"]

Recheck(p) ==
  /\ AtP(p, "recheck")
  /\ st' = IF st.gate >= Limit(p) THEN Out([st EXCEPT !.inside = @ - 1], p)
           ELSE [st EXCEPT !.ppc[p] = "claim"]

(* batch_mt_claim, and the handle *)
Claim(p) ==
  /\ AtP(p, "claim")
  /\ st' = IF st.rec[p].op = "SUBMIT"
             THEN IF st.pool = 0 \/ ~HandlesLeft THEN Out([st EXCEPT !.inside = @ - 1], p)
                  ELSE [st EXCEPT !.pool = @ - 1, !.ctr = @ + 1, !.rec[p].h = NextHandle,
                                  !.ppc[p] = "reserve"]
           ELSE IF st.cpool = 0 THEN Out([st EXCEPT !.inside = @ - 1], p)
           ELSE [st EXCEPT !.cpool = @ - 1, !.ppc[p] = "reserve"]

(* batch_mt_push: the ring's slot is reserved, then written; the driver is woken, ... *)
Reserve(p) ==
  /\ AtP(p, "reserve")
  /\ st' = [st EXCEPT !.ring = Append(@, st.rec[p]), !.ppc[p] = "write"]

Write(p) ==
  /\ AtP(p, "write")
  /\ st' = [st EXCEPT !.ring = [i \in 1 .. Len(@) |->
                         IF @[i] = st.rec[p] THEN [@[i] EXCEPT !.w = TRUE] ELSE @[i]],
                      !.ppc[p] = "signal"]

Signal(p) ==
  /\ AtP(p, "signal")
  /\ st' = [st EXCEPT !.note = TRUE, !.poke = @ \/ st.rec[p].op = "CANCEL", !.ppc[p] = "leave"]

(* ... and the gate is left. *)
Leave(p) ==
  /\ AtP(p, "leave")
  /\ st' = Out([st EXCEPT !.inside = @ - 1,
                          !.known = IF st.rec[p].op = "SUBMIT" THEN @ \cup {st.rec[p].h} ELSE @], p)

Inside(p) == Announce(p) \/ Recheck(p) \/ Claim(p) \/ Reserve(p) \/ Write(p) \/ Signal(p) \/ Leave(p)

Next ==
  \/ Driver \/ DeviceEnds \/ Kill \/ Owner
  \/ \E p \in Producers :
       \/ Inside(p)
       \/ \E op \in MtCalls : \E h \in IF op = "SUBMIT" THEN {0} ELSE Handles : Call(p, op, h)

----------------------------------------------------------------------------
InSlots == {h \in Handles : st.state[h] \in SlotStates}

(* The counters and lists are in their ranges. *)
TypeOK ==
  /\ st.live \in 0 .. Capacity /\ Len(st.active) <= MaxActive
  /\ st.reserved \in 0 .. ResourceCapacity /\ st.pool \in 0 .. MtCap /\ st.cpool \in 0 .. MtCap
  /\ st.gate \in 0 .. 2 /\ st.ctr \in 0 .. MaxHandle

(* A slot is on the one list of its state, and the counters that admission trusts are what
   the lists hold: live slots, reserved units, held submits only when every slot is taken;
   and the records are all in a pool, in the ring, held or with a producer, none lost. *)
SlotsExact ==
  LET at(x) == {h \in Handles : st.state[h] \in x}
      claimed == {p \in Producers : st.ppc[p] = "reserve"}
  IN /\ Range(st.wait) = at({"WAITING"}) /\ IsInjective(st.wait)
     /\ Range(st.active) = at(ActiveStates) /\ IsInjective(st.active)
     /\ Range(st.term) = at({"TERMINAL"}) /\ IsInjective(st.term)
     /\ st.live = Cardinality(InSlots)
     /\ st.reserved = MapThenSumSet(LAMBDA h : Charges[h], at(ActiveStates))
     /\ (st.held # <<>> => st.live = Capacity)
     /\ st.pool + Len(st.held) + Cardinality({i \in 1 .. Len(st.ring) : st.ring[i].op = "SUBMIT"})
          + Cardinality({p \in claimed : st.rec[p].op = "SUBMIT"}) = MtCap

(* Every request that was accepted is completed exactly once and with the outcome that was
   recorded first, whatever callback exits, kill, timeout, cancel or close there is: none
   is completed twice, and when the driver is gone none is left, in no slot, not held, not
   in the ring and not with a producer that passed the gate; the engine has let go of the
   op it offloaded. *)
CompletedOnce ==
  /\ \A i, j \in 1 .. Len(st.done) : st.done[i][1] = st.done[j][1] => i = j
  /\ \A i \in 1 .. Len(st.done) : st.done[i][2] = st.outcome[st.done[i][1]]
  /\ st.pc = "gone" =>
       /\ ~st.inflight /\ st.live = 0 /\ st.ring = <<>> /\ st.held = <<>>
       /\ \A h \in st.known : st.state[h] = "done"
       /\ \A p \in Producers : st.ppc[p] \in {"idle", "announce", "recheck"}

(* A member whose device op may still run is never in a new vector: in flight means in the
   frozen vector, and a vector is built of nothing else. *)
FrozenVector == st.inflight => Range(st.vec) = {h \in Handles : st.state[h] = "INFLIGHT"}
=============================================================================
