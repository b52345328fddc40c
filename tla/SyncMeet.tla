------------------------------ MODULE SyncMeet ------------------------------
(***************************************************************************)
(* Four primitives of ptc/sync.c in which callers meet.                    *)
(*                                                                         *)
(* The barrier, for as many parties as there are Actors, each of which     *)
(* meets the others MaxRounds times.  There is no deadline: Timed is       *)
(* empty.  The generation is an unsigned int and wraps at GenWrap.         *)
(*                                                                         *)
(* The gate: operations enter and leave, close turns new ones away, drain  *)
(* waits for the count to reach zero.  Ops are the operations; the Actors  *)
(* drain.                                                                  *)
(*                                                                         *)
(* The writer-priority lock: every caller blocks its thread on the one     *)
(* condition variable, which every change broadcasts to.  The Threads      *)
(* call, the Writers among them to write, and there are no Fibers.         *)
(*                                                                         *)
(* The notify: a signal goes to the oldest parked fiber, or is stored for  *)
(* the next wait.  At most MaxSignals signals are sent.  A fiber that a    *)
(* signaler of its own loop granted the signal returns without the lock    *)
(* (w.handed); its effects are those of NotifyFiberGranted.                *)
(***************************************************************************)
EXTENDS FiberWait

CONSTANTS MaxRounds, GenWrap,   \* of the barrier
          Ops,                  \* of the gate
          Writers,              \* of the lock
          MaxSignals            \* of the notify

\* Of the barrier: arrived and generation, and gen the generation a party
\* arrived in; as history arrivals and passed count the rounds a party has
\* arrived for and returned from.
\* Of the gate: count and closed, inGate the operations between enter and
\* leave; as history drained, a drain has returned XTC_OK on the closed gate.
\* Of the lock: readers, writer, waiting_writers.
\* Of the notify: stored is the stored signal, granted the fibers that were
\* handed a signal and have not run yet; as history sent counts the signals,
\* taken the waits that returned XTC_OK, and merged the signals that found
\* the stored one still there.
VARIABLE st

\* Everybody who waits is woken: the broadcast and fw_wake_all.
RouseAll ==
  /\ signalled' = signalled \cup {t \in Threads : pc[t] = "asleep"}
  /\ woken' = [f \in Fibers |-> woken[f] \/ f \in Range(wq)]

----------------------------------------------------------------------------
\* The barrier.

target == Cardinality(Actors)

BarrierInit ==
  /\ fwInit
  /\ LET zero == [a \in Actors |-> 0]
     IN st = [arrived |-> 0, generation |-> 0, gen |-> zero,
              arrivals |-> zero, passed |-> zero]

Arrives(a) == pc[a] = "idle" /\ st.arrivals[a] < MaxRounds

\* The barrier once a has arrived.
Arrival(a) == [st EXCEPT !.arrivals[a] = @ + 1, !.gen[a] = st.generation]

\* A mutant: the last party leaves the count for the next round as it is.
WaitLastKeeps(a) ==
  /\ Arrives(a) /\ st.arrived + 1 >= target
  /\ st' = [Arrival(a) EXCEPT !.generation = (@ + 1) % GenWrap,
                              !.passed[a] = @ + 1]
  /\ RouseAll
  /\ UNCHANGED <<pc, wq, timer, expired, killed, masked>>

\* xtc_barrier_wait of the last party: everyone is released.
WaitLast(a) ==
  /\ Arrives(a) /\ st.arrived + 1 = target
  /\ st' = [Arrival(a) EXCEPT !.arrived = 0,
                              !.generation = (@ + 1) % GenWrap,
                              !.passed[a] = @ + 1]
  /\ RouseAll
  /\ UNCHANGED <<pc, wq, timer, expired, killed, masked>>

WaitPark(f) ==
  /\ Arrives(f) /\ st.arrived + 1 < target
  /\ st' = [Arrival(f) EXCEPT !.arrived = @ + 1]
  /\ StartPark(f, {})

\* The arrival of a party that is killed stands.
WaitKilled(f) ==
  /\ Arrives(f) /\ st.arrived + 1 < target
  /\ st' = [Arrival(f) EXCEPT !.arrived = @ + 1]
  /\ StartKilled(f, {})

WaitSleep(t) ==
  /\ Arrives(t) /\ st.arrived + 1 < target
  /\ st' = [Arrival(t) EXCEPT !.arrived = @ + 1]
  /\ Sleep(t)
  /\ UNCHANGED <<wq, woken, timer, expired, killed, masked>>

Released(a) == st.gen[a] # st.generation

\* A party that finds the generation advanced returns, killed or not.
FiberReturns(f) ==
  /\ Resumed(f) /\ Released(f)
  /\ st' = [st EXCEPT !.passed[f] = @ + 1]
  /\ Leave(f, fw_remove(wq, f), {}, "idle")
  /\ UNCHANGED <<expired, killed, masked, signalled>>

\* A killed party's arrival stands.
BarrierFiberKilled(f) ==
  /\ Resumed(f) /\ ~Released(f) /\ fw_kill_pending(f)
  /\ Leave(f, fw_remove(wq, f), {}, "deliver")
  /\ UNCHANGED <<expired, killed, masked, signalled, st>>

BarrierFiberParks(f) ==
  /\ Resumed(f) /\ ~Released(f) /\ ~fw_kill_pending(f)
  /\ Park(f, wq, {})
  /\ UNCHANGED <<expired, killed, masked, signalled, st>>

ThreadReturns(t) ==
  /\ Roused(t) /\ Released(t)
  /\ st' = [st EXCEPT !.passed[t] = @ + 1]
  /\ pc' = [pc EXCEPT ![t] = "idle"]
  /\ signalled' = signalled \ {t}
  /\ UNCHANGED <<wq, woken, timer, expired, killed, masked>>

BarrierFiberStep(f) == FiberReturns(f) \/ BarrierFiberKilled(f) \/ BarrierFiberParks(f)

BarrierThreadStep(t) == ThreadReturns(t)

BarrierNext ==
  \/ \E a \in Actors : WaitLast(a)
  \/ \E f \in Fibers : WaitPark(f) \/ WaitKilled(f) \/ BarrierFiberStep(f)
  \/ \E t \in Threads : WaitSleep(t) \/ BarrierThreadStep(t)
  \/ Surroundings /\ UNCHANGED st

----------------------------------------------------------------------------
\* Every variable keeps its type.
BarrierTypeOK ==
  /\ fwTypeOK
  /\ pc \in [Actors -> Waiting \cup {"idle", "dead"}]
  /\ st.arrived \in 0 .. target - 1
  /\ st.generation \in 0 .. GenWrap - 1
  /\ st.gen \in [Actors -> 0 .. GenWrap - 1]

\* Nobody passes the barrier before everybody has arrived for that round, a
\* party killed in the wait counting as arrived.
NobodyAhead == \A a, b \in Actors : st.passed[a] <= st.arrivals[b]

\* A party that everybody has caught up with is released, and is not left
\* parked or asleep, although the generation it waits on is one of few and
\* the others may have gone on to the next round.
PartiesLetGo ==
  \A a \in Actors :
    pc[a] \in Waiting /\ (\A b \in Actors : st.arrivals[b] >= st.arrivals[a]) =>
      /\ Released(a)
      /\ pc[a] = "parked" => woken[a]
      /\ pc[a] = "asleep" => Roused(a)

----------------------------------------------------------------------------
\* The gate.

GateInit ==
  /\ fwInit
  /\ st = [count |-> 0, closed |-> FALSE, inGate |-> {}, drained |-> FALSE]

\* xtc_gate_enter of an open gate; a closed one changes nothing.
Enter(o) ==
  /\ o \notin st.inGate /\ ~st.closed
  /\ st' = [st EXCEPT !.count = @ + 1, !.inGate = @ \cup {o}]
  /\ UNCHANGED fwVars

\* xtc_gate_leave: the last one wakes the drainers, closed or not.
LeaveGate(o) ==
  /\ o \in st.inGate
  /\ st' = [st EXCEPT !.inGate = @ \ {o},
                      !.count = IF @ > 0 THEN @ - 1 ELSE @]
  /\ IF st'.count = 0 THEN RouseAll ELSE UNCHANGED <<signalled, woken>>
  /\ UNCHANGED <<pc, wq, timer, expired, killed, masked>>

\* xtc_gate_close: the threads are always roused, the fibers when drained.
Close ==
  /\ ~st.closed
  /\ st' = [st EXCEPT !.closed = TRUE]
  /\ signalled' = signalled \cup {t \in Threads : pc[t] = "asleep"}
  /\ woken' = [f \in Fibers |-> woken[f] \/ (st.count = 0 /\ f \in Range(wq))]
  /\ UNCHANGED <<pc, wq, timer, expired, killed, masked>>

\* A drain returns XTC_OK.
Drained ==
  /\ st.count = 0
  /\ st' = [st EXCEPT !.drained = @ \/ st.closed]

\* xtc_gate_drain of an empty gate.
DrainFast(a) ==
  /\ pc[a] = "idle"
  /\ Drained
  /\ UNCHANGED fwVars

DrainPark(f) ==
  /\ pc[f] = "idle" /\ st.count > 0
  /\ StartPark(f, {})
  /\ UNCHANGED st

DrainKilled(f) ==
  /\ pc[f] = "idle" /\ st.count > 0
  /\ StartKilled(f, {})
  /\ UNCHANGED st

\* The later passes of the loop.
GateFiberKilled(f) ==
  /\ Resumed(f) /\ fw_kill_pending(f)
  /\ Leave(f, fw_remove(wq, f), {}, "deliver")
  /\ UNCHANGED <<expired, killed, masked, signalled, st>>

FiberDrained(f) ==
  /\ Resumed(f) /\ ~fw_kill_pending(f)
  /\ Drained
  /\ Leave(f, fw_remove(wq, f), {}, "idle")
  /\ UNCHANGED <<expired, killed, masked, signalled>>

FiberTimesOut(f) ==
  /\ Resumed(f) /\ ~fw_kill_pending(f)
  /\ st.count > 0 /\ expired[f]
  /\ Leave(f, fw_remove(wq, f), {}, "idle")
  /\ UNCHANGED <<expired, killed, masked, signalled, st>>

GateFiberParks(f) ==
  /\ Resumed(f) /\ ~fw_kill_pending(f)
  /\ st.count > 0 /\ ~expired[f]
  /\ Park(f, wq, {})
  /\ UNCHANGED <<expired, killed, masked, signalled, st>>

ThreadSleeps(t) ==
  /\ \/ pc[t] = "idle" /\ expired' = [expired EXCEPT ![t] = FALSE]
     \/ Roused(t) /\ ~expired[t] /\ UNCHANGED expired
  /\ st.count > 0
  /\ Sleep(t)
  /\ UNCHANGED <<wq, woken, timer, killed, masked, st>>

ThreadDrained(t) ==
  /\ pc[t] = "asleep" /\ t \in signalled
  /\ Drained
  /\ pc' = [pc EXCEPT ![t] = "idle"]
  /\ signalled' = signalled \ {t}
  /\ UNCHANGED <<wq, woken, timer, expired, killed, masked>>

\* cv_wait_until reports the timeout whatever the count has become.
ThreadTimesOut(t) ==
  /\ pc[t] = "asleep" /\ expired[t]
  /\ pc' = [pc EXCEPT ![t] = "idle"]
  /\ signalled' = signalled \ {t}
  /\ UNCHANGED <<wq, woken, timer, expired, killed, masked, st>>

GateFiberStep(f) ==
  \/ GateFiberKilled(f) \/ FiberDrained(f) \/ FiberTimesOut(f) \/ GateFiberParks(f)

GateThreadStep(t) == ThreadSleeps(t) \/ ThreadDrained(t) \/ ThreadTimesOut(t)

GateNext ==
  \/ \E o \in Ops : Enter(o) \/ LeaveGate(o)
  \/ Close
  \/ \E a \in Actors : DrainFast(a)
  \/ \E f \in Fibers : DrainPark(f) \/ DrainKilled(f) \/ GateFiberStep(f)
  \/ \E t \in Threads : GateThreadStep(t)
  \/ Surroundings /\ UNCHANGED st

----------------------------------------------------------------------------
\* Every variable keeps its type.
GateTypeOK ==
  /\ fwTypeOK
  /\ pc \in [Actors -> Waiting \cup {"idle", "dead"}]
  /\ st.count \in Nat
  /\ {st.closed, st.drained} \subseteq BOOLEAN
  /\ st.inGate \subseteq Ops

\* Once a drain of the closed gate has returned, no operation is inside.
DrainedStaysEmpty == st.drained => st.inGate = {}

\* No drainer sleeps on while the gate is empty.
EmptyIsSeen ==
  st.count = 0 =>
    /\ \A f \in Range(wq) : woken[f]
    /\ \A t \in Threads : pc[t] = "asleep" => Roused(t)

----------------------------------------------------------------------------
\* The writer-priority lock.

Readers == Threads \ Writers

RwInit ==
  /\ fwInit
  /\ st = [readers |-> 0, writer |-> FALSE, waiting_writers |-> 0]

__can_grant_read == ~st.writer /\ st.waiting_writers = 0

__can_grant_write == ~st.writer /\ st.readers = 0

Ready(c) == IF c \in Writers THEN __can_grant_write ELSE __can_grant_read

Broadcast(c) == signalled' = (signalled \ {c}) \cup
                             {d \in Threads \ {c} : pc[d] = "asleep"}

\* The count of waiting writers without c.
OneLess(c) == IF c \in Writers THEN st.waiting_writers - 1 ELSE st.waiting_writers

\* A caller is granted the lock: at once, or when it runs after a sleep.  A
\* writer counts itself as waiting for as long as it waits.
Granted(c) ==
  /\ pc[c] = "idle" \/ (pc[c] = "asleep" /\ c \in signalled)
  /\ Ready(c)
  /\ pc' = [pc EXCEPT ![c] = "got"]
  /\ st' = [st EXCEPT !.writer = @ \/ c \in Writers,
                      !.readers = IF c \in Writers THEN @ ELSE @ + 1,
                      !.waiting_writers = IF pc[c] = "asleep" THEN OneLess(c) ELSE @]
  /\ signalled' = signalled \ {c}
  /\ UNCHANGED <<wq, woken, timer, expired, killed, masked>>

\* A caller that is not ready sleeps, for the first time or again.
Sleeps(c) ==
  /\ \/ /\ pc[c] = "idle"
        /\ st' = [st EXCEPT !.waiting_writers = IF c \in Writers THEN @ + 1 ELSE @]
        /\ expired' = [expired EXCEPT ![c] = FALSE]
     \/ Roused(c) /\ ~expired[c] /\ UNCHANGED <<st, expired>>
  /\ ~Ready(c)
  /\ Sleep(c)
  /\ UNCHANGED <<wq, woken, timer, killed, masked>>

\* cv_wait_until reports the timeout; a writer lets the others look again.
TimesOut(c) ==
  /\ pc[c] = "asleep" /\ expired[c]
  /\ pc' = [pc EXCEPT ![c] = "idle"]
  /\ st' = [st EXCEPT !.waiting_writers = OneLess(c)]
  /\ IF c \in Writers THEN Broadcast(c) ELSE signalled' = signalled \ {c}
  /\ UNCHANGED <<wq, woken, timer, expired, killed, masked>>

\* xtc_rwlock_wrlock with a timeout of zero that fails.
TryFails(c) ==
  /\ c \in Writers /\ pc[c] = "idle" /\ ~Ready(c)
  /\ Broadcast(c)
  /\ UNCHANGED <<pc, wq, woken, timer, expired, killed, masked, st>>

\* xtc_rwlock_unlock.
Unlock(c) ==
  /\ pc[c] = "got"
  /\ pc' = [pc EXCEPT ![c] = "idle"]
  /\ st' = [st EXCEPT !.writer = FALSE,
                      !.readers = IF st.writer THEN @ ELSE @ - 1]
  /\ Broadcast(c)
  /\ UNCHANGED <<wq, woken, timer, expired, killed, masked>>

RwThreadStep(c) == pc[c] = "asleep" /\ (Granted(c) \/ Sleeps(c) \/ TimesOut(c))

RwNext ==
  \/ \E c \in Threads :
       Granted(c) \/ Sleeps(c) \/ TimesOut(c) \/ TryFails(c) \/ Unlock(c)
  \/ (\E c \in Threads : DeadlinePasses(c)) /\ UNCHANGED st

----------------------------------------------------------------------------
\* Every variable keeps its type.
RwTypeOK ==
  /\ fwTypeOK
  /\ pc \in [Threads -> {"idle", "asleep", "got"}]
  /\ {st.readers, st.waiting_writers} \subseteq Nat
  /\ st.writer \in BOOLEAN

Got(S) == {c \in S : pc[c] = "got"}

\* A writer is alone, and the lock's words count holders and waiting writers.
HoldsCompatible ==
  /\ st.readers = Cardinality(Got(Readers))
  /\ Cardinality(Got(Writers)) = (IF st.writer THEN 1 ELSE 0)
  /\ st.writer => st.readers = 0
  /\ st.waiting_writers = Cardinality({c \in Writers : pc[c] = "asleep"})

\* A caller that could have the lock does not sleep on.
NotStranded ==
  \A c \in Threads : pc[c] = "asleep" /\ Ready(c) => Roused(c)

----------------------------------------------------------------------------
\* The notify.

NotifyInit ==
  /\ fwInit
  /\ st = [stored |-> FALSE, granted |-> {}, sent |-> 0, taken |-> 0,
           merged |-> 0]

\* notify_give_locked by the actor a, with q as the queue and n the notify:
\* hand the signal to the oldest fiber, else store it and rouse the threads.
notify_give_locked(q, a, n) ==
  IF q = <<>>
  THEN /\ st' = [n EXCEPT !.stored = TRUE, !.granted = @ \ {a},
                          !.merged = IF n.stored THEN @ + 1 ELSE @]
       /\ signalled' = signalled \cup {t \in Threads : pc[t] = "asleep"}
       /\ WakeAll({}, a)
       /\ wq' = q
  ELSE /\ st' = [n EXCEPT !.granted = (@ \ {a}) \cup {Head(q)}]
       /\ wq' = Tail(q)
       /\ WakeAll({Head(q)}, a)
       /\ UNCHANGED signalled

\* xtc_notify_signal.
Signal(s) ==
  /\ st.sent < MaxSignals
  /\ notify_give_locked(wq, s, [st EXCEPT !.sent = @ + 1])
  /\ UNCHANGED <<pc, timer, expired, killed, masked>>

\* A wait takes the stored signal.
TakeStored ==
  /\ st.stored
  /\ st' = [st EXCEPT !.stored = FALSE, !.taken = @ + 1]

\* xtc_notify_wait that finds a signal stored.
NotifyWaitFast(a) ==
  /\ pc[a] = "idle"
  /\ TakeStored
  /\ UNCHANGED fwVars

\* xtc_notify_wait on a fiber that has to wait: the first pass of the loop.
NotifyWaitPark(f) ==
  /\ pc[f] = "idle" /\ ~st.stored
  /\ StartPark(f, {})
  /\ UNCHANGED st

NotifyWaitKilled(f) ==
  /\ pc[f] = "idle" /\ ~st.stored
  /\ StartKilled(f, {})
  /\ UNCHANGED st

\* A mutant: a killed waiter keeps the signal it was handed.
NotifyFiberKilledKeeps(f) ==
  /\ Resumed(f) /\ fw_kill_pending(f)
  /\ Leave(f, fw_remove(wq, f), {}, "deliver")
  /\ st' = [st EXCEPT !.granted = @ \ {f}]
  /\ UNCHANGED <<expired, killed, masked, signalled>>

\* A pending kill comes first: a signal already handed over is passed on.
NotifyFiberKilled(f) ==
  /\ Resumed(f) /\ fw_kill_pending(f)
  /\ pc' = [pc EXCEPT ![f] = "deliver"]
  /\ timer' = timer \ {f}
  /\ IF f \in st.granted
     THEN notify_give_locked(fw_remove(wq, f), f, st)
     ELSE wq' = fw_remove(wq, f) /\ WakeAll({}, f) /\ UNCHANGED <<st, signalled>>
  /\ UNCHANGED <<expired, killed, masked>>

NotifyFiberGranted(f) ==
  /\ Resumed(f) /\ ~fw_kill_pending(f)
  /\ f \in st.granted
  /\ st' = [st EXCEPT !.granted = @ \ {f}, !.taken = @ + 1]
  /\ Leave(f, fw_remove(wq, f), {}, "idle")
  /\ UNCHANGED <<expired, killed, masked, signalled>>

NotifyFiberStored(f) ==
  /\ Resumed(f) /\ ~fw_kill_pending(f)
  /\ f \notin st.granted
  /\ TakeStored
  /\ Leave(f, fw_remove(wq, f), {}, "idle")
  /\ UNCHANGED <<expired, killed, masked, signalled>>

NotifyFiberTimesOut(f) ==
  /\ Resumed(f) /\ ~fw_kill_pending(f)
  /\ f \notin st.granted /\ ~st.stored /\ expired[f]
  /\ Leave(f, fw_remove(wq, f), {}, "idle")
  /\ UNCHANGED <<expired, killed, masked, signalled, st>>

NotifyFiberParks(f) ==
  /\ Resumed(f) /\ ~fw_kill_pending(f)
  /\ f \notin st.granted /\ ~st.stored /\ ~expired[f]
  /\ Park(f, wq, {})
  /\ UNCHANGED <<expired, killed, masked, signalled, st>>

\* A thread without a deadline spins on the stored signal before it sleeps.
NotifyThreadSpins(t) ==
  /\ pc[t] = "idle" /\ ~st.stored /\ t \notin Timed
  /\ pc' = [pc EXCEPT ![t] = "spin"]
  /\ UNCHANGED <<wq, woken, timer, expired, killed, masked, signalled, st>>

\* A thread finds no signal under the lock and sleeps.
NotifyThreadSleeps(t) ==
  /\ \/ /\ pc[t] = "idle" /\ t \in Timed
        /\ expired' = [expired EXCEPT ![t] = FALSE]
     \/ /\ pc[t] = "spin" \/ (Roused(t) /\ ~expired[t])
        /\ UNCHANGED expired
  /\ ~st.stored
  /\ Sleep(t)
  /\ UNCHANGED <<wq, woken, timer, killed, masked, st>>

\* A thread finds the signal, its deadline passed or not.
NotifyThreadTakes(t) ==
  /\ pc[t] = "spin" \/ Roused(t)
  /\ TakeStored
  /\ pc' = [pc EXCEPT ![t] = "idle"]
  /\ signalled' = signalled \ {t}
  /\ UNCHANGED <<wq, woken, timer, expired, killed, masked>>

NotifyThreadTimesOut(t) ==
  /\ pc[t] = "asleep" /\ expired[t] /\ ~st.stored
  /\ pc' = [pc EXCEPT ![t] = "idle"]
  /\ signalled' = signalled \ {t}
  /\ UNCHANGED <<wq, woken, timer, expired, killed, masked, st>>

NotifyFiberStep(f) ==
  \/ NotifyFiberKilled(f) \/ NotifyFiberGranted(f) \/ NotifyFiberStored(f)
  \/ NotifyFiberTimesOut(f) \/ NotifyFiberParks(f)

NotifyThreadStep(t) ==
  \/ NotifyThreadSpins(t) \/ NotifyThreadSleeps(t) \/ NotifyThreadTakes(t) \/ NotifyThreadTimesOut(t)

NotifyNext ==
  \/ Signal("signaler")
  \/ \E a \in Actors : NotifyWaitFast(a)
  \/ \E f \in Fibers : NotifyWaitPark(f) \/ NotifyWaitKilled(f) \/ NotifyFiberStep(f)
  \/ \E t \in Threads : NotifyThreadStep(t)
  \/ Surroundings /\ UNCHANGED st

----------------------------------------------------------------------------
\* Every variable keeps its type.
NotifyTypeOK ==
  /\ fwTypeOK
  /\ pc \in [Actors -> Waiting \cup {"idle", "spin", "dead"}]
  /\ st.stored \in BOOLEAN
  /\ st.granted \subseteq Fibers
  /\ {st.sent, st.taken, st.merged} \subseteq Nat

\* Every signal reaches a wait, is stored, or was sent while one was stored:
\* none is lost to a waiter that is killed, or whose deadline passes, after
\* it was handed the signal.
SignalsAccounted ==
  st.sent = st.taken + st.merged + Cardinality(st.granted)
              + IF st.stored THEN 1 ELSE 0

\* A stored signal never lies beside a waiter that sleeps on.
StoredIsSeen ==
  st.stored => wq = <<>> /\ \A t \in Threads : pc[t] = "asleep" => Roused(t)

=============================================================================
