----------------------------- MODULE SyncAmutex -----------------------------
(***************************************************************************)
(* The parking mutex of ptc/sync.c.  Fibers queue and park; a release      *)
(* frees the mutex and wakes the head of the queue, which competes again,  *)
(* unless the head has lost often enough to be handed the mutex.  Threads  *)
(* spin, then sleep, and a release wakes a sleeper unless a spinner will   *)
(* see the free mutex.  The constants AM_HANDOFF_LOSSES (4 in the code),   *)
(* SYNC_AM_SKIP_MAX (8) and SpinCap (from the number of CPUs) are bounds   *)
(* of the code; MaxDepth bounds the recursion, and is 1 for a mutex that   *)
(* is not recursive.                                                       *)
(*                                                                         *)
(* The counting semaphore of the same file: the callers in Big want        *)
(* BigNeed units, the others one, and each makes at most MaxCalls calls    *)
(* that succeed.                                                           *)
(***************************************************************************)
EXTENDS FiberWait

CONSTANTS AM_HANDOFF_LOSSES, SYNC_AM_SKIP_MAX, SpinCap, MaxDepth, NoOwner,
          Initial, Big, BigNeed, MaxCalls   \* of the semaphore

\* The mutex: held; handoff, the next release grants the head; granted, the
\* fibers that were granted it and have not run yet; lost, of each fiber's
\* waiter; spinners, the threads it counts; wake_skips; owner and count, the
\* recursive mutex's owner and depth.
\* The semaphore: count its units, calls the successful calls of a caller.
VARIABLE st

Init ==
  /\ fwInit
  /\ st = [held |-> FALSE, handoff |-> FALSE, granted |-> {},
           lost |-> [f \in Fibers |-> 0], spinners |-> {}, wake_skips |-> 0,
           owner |-> NoOwner, count |-> 0]

Asleep == {t \in Threads : pc[t] = "asleep"}

\* Wake one sleeping thread, unless a spinner takes the mutex m first.
amutex_wake_thread_locked(m) ==
  IF Asleep = {} THEN st' = m /\ UNCHANGED signalled
  ELSE IF m.spinners # {} /\ m.wake_skips < SYNC_AM_SKIP_MAX
  THEN st' = [m EXCEPT !.wake_skips = @ + 1] /\ UNCHANGED signalled
  ELSE /\ st' = [m EXCEPT !.wake_skips = 0]
       /\ IF Asleep \subseteq signalled
          THEN UNCHANGED signalled
          ELSE \E t \in Asleep \ signalled : signalled' = signalled \cup {t}

\* The mutex m is free: wake the head fiber, which stays queued, else a
\* thread.
amutex_wake_next_locked(q, a, m) ==
  IF q # <<>>
  THEN WakeAll({Head(q)}, a) /\ st' = m /\ UNCHANGED signalled
  ELSE WakeAll({}, a) /\ amutex_wake_thread_locked(m)

\* The actor a gives the mutex up, with q as the queue.
amutex_release_locked(q, a) ==
  LET m == [st EXCEPT !.owner = NoOwner, !.count = 0, !.granted = @ \ {a}] IN
  IF q # <<>> /\ st.handoff
  THEN /\ st' = [m EXCEPT !.handoff = FALSE, !.granted = @ \cup {Head(q)}]
       /\ wq' = Tail(q)
       /\ WakeAll({Head(q)}, a)
       /\ UNCHANGED signalled
  ELSE /\ wq' = q
       /\ amutex_wake_next_locked(q, a, [m EXCEPT !.held = FALSE])

IsHead(f) == wq # <<>> /\ Head(wq) = f

\* The mutex once the fiber f, which may be the head, is off the queue.
Without(f) == [st EXCEPT !.handoff = @ /\ ~IsHead(f)]

\* The mutex m once the actor a is its owner.
Own(a, m) == [m EXCEPT !.held = TRUE, !.owner = a, !.count = 1,
                       !.granted = @ \ {a}, !.spinners = @ \ {a}]

----------------------------------------------------------------------------
\* xtc_amutex_lock or xtc_amutex_try_lock of a free mutex.
LockFast(a) ==
  /\ pc[a] = "idle" /\ ~st.held
  /\ st' = Own(a, st)
  /\ pc' = [pc EXCEPT ![a] = "got"]
  /\ UNCHANGED <<wq, woken, timer, expired, killed, masked, signalled>>

\* ... and of a recursive one by its owner.
LockAgain(a) ==
  /\ pc[a] = "got" /\ st.held /\ st.owner = a /\ st.count < MaxDepth
  /\ st' = [st EXCEPT !.count = @ + 1]
  /\ UNCHANGED fwVars

\* xtc_amutex_lock on a fiber that has to wait: the first pass of the loop.
LockPark(f) ==
  /\ pc[f] = "idle" /\ st.held
  /\ st' = [st EXCEPT !.lost[f] = 0]
  /\ StartPark(f, {})

LockKilled(f) ==
  /\ pc[f] = "idle" /\ st.held
  /\ st' = [st EXCEPT !.lost[f] = 0]
  /\ StartKilled(f, {})

\* A mutant: a head that was woken and is killed tells nobody.
FiberKilledSilent(f) ==
  /\ Resumed(f) /\ fw_kill_pending(f)
  /\ pc' = [pc EXCEPT ![f] = "deliver"]
  /\ timer' = timer \ {f}
  /\ IF f \in st.granted
     THEN amutex_release_locked(fw_remove(wq, f), f)
     ELSE /\ wq' = fw_remove(wq, f)
          /\ st' = Without(f)
          /\ WakeAll({}, f)
          /\ UNCHANGED signalled
  /\ UNCHANGED <<expired, killed, masked>>

\* A pending kill comes first.  A mutex already granted is handed on; the
\* head, which a release may have woken, passes the wake on.
FiberKilled(f) ==
  /\ Resumed(f) /\ fw_kill_pending(f)
  /\ pc' = [pc EXCEPT ![f] = "deliver"]
  /\ timer' = timer \ {f}
  /\ LET q == fw_remove(wq, f) IN
     IF f \in st.granted
     THEN amutex_release_locked(q, f)
     ELSE /\ wq' = q
          /\ IF IsHead(f) /\ ~st.held
             THEN amutex_wake_next_locked(q, f, Without(f))
             ELSE st' = Without(f) /\ WakeAll({}, f) /\ UNCHANGED signalled
  /\ UNCHANGED <<expired, killed, masked>>

\* A mutant: a fiber that was granted the mutex looks for a free one.
FiberTakesAny(f) ==
  /\ Resumed(f) /\ ~fw_kill_pending(f)
  /\ f \notin st.granted
  /\ st' = Own(f, Without(f))
  /\ Leave(f, fw_remove(wq, f), {}, "got")
  /\ UNCHANGED <<expired, killed, masked, signalled>>

FiberTakes(f) ==
  /\ Resumed(f) /\ ~fw_kill_pending(f)
  /\ f \notin st.granted /\ ~st.held
  /\ st' = Own(f, Without(f))
  /\ Leave(f, fw_remove(wq, f), {}, "got")
  /\ UNCHANGED <<expired, killed, masked, signalled>>

FiberGranted(f) ==
  /\ Resumed(f) /\ ~fw_kill_pending(f)
  /\ f \in st.granted
  /\ st' = Own(f, st)
  /\ Leave(f, wq, {}, "got")
  /\ UNCHANGED <<expired, killed, masked, signalled>>

\* A mutant: the hand-off the head asked for outlives its wait.
FiberTimesOutDue(f) ==
  /\ Resumed(f) /\ ~fw_kill_pending(f)
  /\ f \notin st.granted /\ st.held /\ expired[f]
  /\ Leave(f, fw_remove(wq, f), {}, "idle")
  /\ UNCHANGED <<expired, killed, masked, signalled, st>>

\* Only a wait for a mutex that is held times out: its release wakes the next.
FiberTimesOut(f) ==
  /\ Resumed(f) /\ ~fw_kill_pending(f)
  /\ f \notin st.granted /\ st.held /\ expired[f]
  /\ st' = Without(f)
  /\ Leave(f, fw_remove(wq, f), {}, "idle")
  /\ UNCHANGED <<expired, killed, masked, signalled>>

\* Woken and beaten to it: a head that loses too often asks for the hand-off.
FiberParks(f) ==
  /\ Resumed(f) /\ ~fw_kill_pending(f)
  /\ f \notin st.granted /\ st.held /\ ~expired[f]
  /\ LET n == IF st.lost[f] < AM_HANDOFF_LOSSES THEN st.lost[f] + 1 ELSE st.lost[f]
     IN st' = IF IsHead(f)
              THEN [st EXCEPT !.lost[f] = n,
                              !.handoff = @ \/ n = AM_HANDOFF_LOSSES]
              ELSE st
  /\ Park(f, wq, {})
  /\ UNCHANGED <<expired, killed, masked, signalled>>

----------------------------------------------------------------------------
SpinnersFull == Cardinality(st.spinners) >= SpinCap

\* __amutex_lock_thread.  The thread finds the mutex held, at first or after
\* a sleep, and spins ...
ThreadSpins(t) ==
  /\ \/ pc[t] = "idle" /\ expired' = [expired EXCEPT ![t] = FALSE]
     \/ Roused(t) /\ ~expired[t] /\ UNCHANGED expired
  /\ st.held /\ ~SpinnersFull
  /\ pc' = [pc EXCEPT ![t] = "spin"]
  /\ st' = [st EXCEPT !.spinners = @ \cup {t}]
  /\ signalled' = signalled \ {t}
  /\ UNCHANGED <<wq, woken, timer, killed, masked>>

\* ... or sleeps, when enough others spin or it has just spun.
ThreadSleeps(t) ==
  /\ \/ pc[t] = "idle" /\ SpinnersFull /\ expired' = [expired EXCEPT ![t] = FALSE]
     \/ Roused(t) /\ ~expired[t] /\ SpinnersFull /\ UNCHANGED expired
     \/ pc[t] = "relock" /\ UNCHANGED expired
  /\ st.held
  /\ Sleep(t)
  /\ UNCHANGED <<wq, woken, timer, killed, masked, st>>

\* The spin ends without the mutex; the lock is still to be taken again.
SpinEnds(t) ==
  /\ pc[t] = "spin"
  /\ pc' = [pc EXCEPT ![t] = "relock"]
  /\ st' = [st EXCEPT !.spinners = @ \ {t}]
  /\ UNCHANGED <<wq, woken, timer, expired, killed, masked, signalled>>

\* The thread finds the mutex free, in its spin, after it or after a sleep.
ThreadTakes(t) ==
  /\ pc[t] \in {"spin", "relock"} \/ Roused(t)
  /\ ~st.held
  /\ st' = Own(t, st)
  /\ pc' = [pc EXCEPT ![t] = "got"]
  /\ signalled' = signalled \ {t}
  /\ UNCHANGED <<wq, woken, timer, expired, killed, masked>>

ThreadTimesOut(t) ==
  /\ pc[t] = "asleep" /\ expired[t] /\ st.held
  /\ pc' = [pc EXCEPT ![t] = "idle"]
  /\ signalled' = signalled \ {t}
  /\ UNCHANGED <<wq, woken, timer, expired, killed, masked, st>>

\* xtc_amutex_unlock of a nested lock ...
UnlockNested(a) ==
  /\ pc[a] = "got" /\ st.count > 1
  /\ st' = [st EXCEPT !.count = @ - 1]
  /\ UNCHANGED fwVars

\* ... and of the outermost.
Unlock(a) ==
  /\ pc[a] = "got" /\ st.count = 1
  /\ pc' = [pc EXCEPT ![a] = "idle"]
  /\ amutex_release_locked(wq, a)
  /\ UNCHANGED <<timer, expired, killed, masked>>

----------------------------------------------------------------------------
FiberStep(f) ==
  \/ FiberKilled(f) \/ FiberTakes(f) \/ FiberGranted(f)
  \/ FiberTimesOut(f) \/ FiberParks(f)

ThreadStep(t) ==
  \/ ThreadSpins(t) \/ ThreadSleeps(t) \/ SpinEnds(t) \/ ThreadTakes(t)
  \/ ThreadTimesOut(t)

Next ==
  \/ \E a \in Actors :
       LockFast(a) \/ LockAgain(a) \/ UnlockNested(a) \/ Unlock(a)
  \/ \E f \in Fibers : LockPark(f) \/ LockKilled(f) \/ FiberStep(f)
  \/ \E t \in Threads : ThreadStep(t)
  \/ Surroundings /\ UNCHANGED st

----------------------------------------------------------------------------
\* Every variable keeps its type.
TypeOK ==
  /\ fwTypeOK
  /\ pc \in [Actors -> Waiting \cup {"idle", "got", "spin", "relock", "dead"}]
  /\ {st.held, st.handoff} \subseteq BOOLEAN
  /\ st.granted \subseteq Fibers
  /\ st.lost \in [Fibers -> 0 .. AM_HANDOFF_LOSSES]
  /\ st.spinners \subseteq Threads
  /\ st.wake_skips \in 0 .. SYNC_AM_SKIP_MAX
  /\ st.owner \in Actors \cup {NoOwner}
  /\ st.count \in 0 .. MaxDepth

\* The mutex has one holder at a time, counting a fiber that was granted it
\* and has not run yet, and is held exactly when it has one.
OneHolder ==
  LET holders == {a \in Actors : pc[a] = "got"} \cup st.granted
  IN Cardinality(holders) = (IF st.held THEN 1 ELSE 0)

\* A free mutex is never left beside a waiter with nobody on the way to it.
NotStranded ==
  ~st.held /\ (wq # <<>> \/ Asleep # {}) =>
    \/ \E f \in Fibers : Resumed(f)
    \/ \E t \in Threads : Roused(t) \/ pc[t] \in {"spin", "relock"}

\* The hand-off is for the head of the queue, which has lost often enough.
HandoffIsDue ==
  st.handoff => wq # <<>> /\ st.lost[Head(wq)] = AM_HANDOFF_LOSSES

----------------------------------------------------------------------------
\* The semaphore.

Need(a) == IF a \in Big THEN BigNeed ELSE 1

SemInit ==
  /\ fwInit
  /\ st = [count |-> Initial, calls |-> [a \in Actors |-> 0]]

\* sem_wake_locked: what is left of c units after each of the first waiters of q.
SemBudget(c, q) ==
  LET left[i \in 0 .. Len(q)] ==
        IF i = 0 THEN c
        ELSE IF Need(q[i]) <= left[i - 1] THEN left[i - 1] - Need(q[i]) ELSE left[i - 1]
  IN left

\* sem_wake_locked: the waiters of q that c units satisfy, oldest first; one
\* that needs more than is left is skipped.
sem_wake_locked(c, q) ==
  LET left == SemBudget(c, q)
  IN {q[i] : i \in {j \in DOMAIN q : left[j - 1] > 0 /\ Need(q[j]) <= left[j - 1]}}

SemTake(a) ==
  /\ st.count >= Need(a)
  /\ st' = [st EXCEPT !.count = @ - Need(a), !.calls[a] = @ + 1]

\* xtc_sem_acquire or xtc_sem_try_acquire that finds the units.
AcquireFast(a) ==
  /\ pc[a] = "idle" /\ st.calls[a] < MaxCalls
  /\ SemTake(a)
  /\ pc' = [pc EXCEPT ![a] = "got"]
  /\ UNCHANGED <<wq, woken, timer, expired, killed, masked, signalled>>

\* xtc_sem_acquire on a fiber that has to wait: the first pass of the loop.
AcquirePark(f) ==
  /\ pc[f] = "idle" /\ st.calls[f] < MaxCalls
  /\ st.count < Need(f)
  /\ StartPark(f, sem_wake_locked(st.count, wq))
  /\ UNCHANGED st

AcquireKilled(f) ==
  /\ pc[f] = "idle" /\ st.calls[f] < MaxCalls
  /\ st.count < Need(f)
  /\ StartKilled(f, sem_wake_locked(st.count, wq))
  /\ UNCHANGED st

\* A mutant: a killed waiter keeps what it was woken for to itself.
SemFiberKilledSilent(f) ==
  /\ Resumed(f) /\ fw_kill_pending(f)
  /\ Leave(f, fw_remove(wq, f), {}, "deliver")
  /\ UNCHANGED <<expired, killed, masked, signalled, st>>

\* The later passes.  A pending kill comes first: the waiter leaves the
\* queue and what it was woken for goes to the others.
SemFiberKilled(f) ==
  /\ Resumed(f) /\ fw_kill_pending(f)
  /\ LET q == fw_remove(wq, f)
     IN Leave(f, q, sem_wake_locked(st.count, q), "deliver")
  /\ UNCHANGED <<expired, killed, masked, signalled, st>>

SemFiberTakes(f) ==
  /\ Resumed(f) /\ ~fw_kill_pending(f)
  /\ SemTake(f)
  /\ LET q == fw_remove(wq, f)
     IN Leave(f, q, sem_wake_locked(st.count - Need(f), q), "got")
  /\ UNCHANGED <<expired, killed, masked, signalled>>

SemFiberTimesOut(f) ==
  /\ Resumed(f) /\ ~fw_kill_pending(f)
  /\ st.count < Need(f) /\ expired[f]
  /\ LET q == fw_remove(wq, f)
     IN Leave(f, q, sem_wake_locked(st.count, q), "idle")
  /\ UNCHANGED <<expired, killed, masked, signalled, st>>

\* Beaten to the units: what is left is passed on before the next park.
SemFiberParks(f) ==
  /\ Resumed(f) /\ ~fw_kill_pending(f)
  /\ st.count < Need(f) /\ ~expired[f]
  /\ Park(f, wq, sem_wake_locked(st.count, wq))
  /\ UNCHANGED <<expired, killed, masked, signalled, st>>

\* xtc_sem_acquire on a thread that has to wait.
SemThreadSleeps(t) ==
  /\ \/ pc[t] = "idle" /\ st.calls[t] < MaxCalls
        /\ expired' = [expired EXCEPT ![t] = FALSE]
     \/ Roused(t) /\ ~expired[t] /\ UNCHANGED expired
  /\ st.count < Need(t)
  /\ Sleep(t)
  /\ UNCHANGED <<wq, woken, timer, killed, masked, st>>

SemThreadTakes(t) ==
  /\ pc[t] = "asleep" /\ t \in signalled
  /\ SemTake(t)
  /\ pc' = [pc EXCEPT ![t] = "got"]
  /\ signalled' = signalled \ {t}
  /\ UNCHANGED <<wq, woken, timer, expired, killed, masked>>

\* cv_wait_until reports the timeout whatever the count has become.
SemThreadTimesOut(t) ==
  /\ pc[t] = "asleep" /\ expired[t]
  /\ pc' = [pc EXCEPT ![t] = "idle"]
  /\ signalled' = signalled \ {t}
  /\ UNCHANGED <<wq, woken, timer, expired, killed, masked, st>>

\* xtc_sem_post by a caller that gives its units back.
Post(a) ==
  /\ pc[a] = "got"
  /\ pc' = [pc EXCEPT ![a] = "idle"]
  /\ st' = [st EXCEPT !.count = @ + Need(a)]
  /\ signalled' = signalled \cup {t \in Threads : pc[t] = "asleep"}
  /\ woken' = [f \in Fibers |-> woken[f] \/ f \in sem_wake_locked(st'.count, wq)]
  /\ UNCHANGED <<wq, timer, expired, killed, masked>>

SemFiberStep(f) ==
  \/ SemFiberKilled(f) \/ SemFiberTakes(f) \/ SemFiberTimesOut(f) \/ SemFiberParks(f)

SemThreadStep(t) ==
  pc[t] = "asleep" /\ (SemThreadSleeps(t) \/ SemThreadTakes(t) \/ SemThreadTimesOut(t))

SemNext ==
  \/ \E a \in Actors : AcquireFast(a) \/ Post(a)
  \/ \E f \in Fibers : AcquirePark(f) \/ AcquireKilled(f) \/ SemFiberStep(f)
  \/ \E t \in Threads : SemThreadSleeps(t) \/ SemThreadTakes(t) \/ SemThreadTimesOut(t)
  \/ Surroundings /\ UNCHANGED st

----------------------------------------------------------------------------
\* Units are neither made nor lost by waits that time out or are killed.
UnitsConserved ==
  LET got == {a \in Actors : pc[a] = "got"}
  IN st.count + Cardinality(got \ Big) + BigNeed * Cardinality(got \cap Big) = Initial

\* Units never sit unclaimed beside a waiter they would satisfy: then some
\* waiter is on its way that takes units or wakes the others.
UnitsClaimed ==
  /\ \A i \in DOMAIN wq :
       Need(wq[i]) <= st.count => \E f \in Range(wq) : woken[f]
  /\ \A t \in Threads : pc[t] = "asleep" /\ Need(t) <= st.count => Roused(t)

=============================================================================
