----------------------------- MODULE FiberWait -----------------------------
(***************************************************************************)
(* The wait of the blocking primitives of ptc/sync.c.                      *)
(*                                                                         *)
(* A caller on a fiber queues a waiter, drops the primitive's lock and     *)
(* parks; it runs again when its waker fires, when the timer of its        *)
(* deadline fires or when it is killed, and then re-takes the lock.  A     *)
(* caller on a plain thread sleeps on the primitive's condition variable.  *)
(*                                                                         *)
(* The primitives extend this module.  A critical section of the           *)
(* primitive's lock is one action; so each pass of a wait loop, from the   *)
(* lock's acquisition to the park or the return, is one action as well.    *)
(* A wake of a fiber that is running is kept for its next park.            *)
(***************************************************************************)
EXTENDS Integers, FiniteSets, Sequences, Functions

CONSTANTS
  Fibers,     \* callers on a fiber
  Threads,    \* callers on a plain thread
  Timed,      \* the callers that wait with a deadline
  MayDie      \* the fibers that may be killed

VARIABLES
  pc,         \* where the caller is; the primitives add their own values
  wq,         \* fw_queue: the queued waiters, oldest first
  woken,      \* the fiber's waker has fired since it last ran
  timer,      \* the fibers whose park timer is armed
  expired,    \* the caller's deadline has passed
  killed,     \* a kill of the fiber is pending
  masked,     \* the wait's mask word: 1 kills are checked, 2 deferred
  signalled   \* the threads the condition variable has released

fwVars == <<pc, wq, woken, timer, expired, killed, masked, signalled>>

Actors == Fibers \cup Threads

Waiting == {"parked", "deliver", "retry", "asleep"}

fwInit ==
  /\ pc = [a \in Actors |-> "idle"]
  /\ wq = <<>>
  /\ woken = [f \in Fibers |-> FALSE]
  /\ timer = {}
  /\ expired = [a \in Actors |-> FALSE]
  /\ killed = [f \in Fibers |-> FALSE]
  /\ masked = [f \in Fibers |-> 0]
  /\ signalled = {}

fw_enqueue(q, f) == IF f \in Range(q) THEN q ELSE Append(q, f)

\* Unlink f, if it is queued.
fw_remove(q, f) ==
  IF f \in Range(q)
  THEN LET i == CHOOSE i \in DOMAIN q : q[i] = f
       IN [j \in 1 .. Len(q) - 1 |-> IF j < i THEN q[j] ELSE q[j + 1]]
  ELSE q

fw_kill_pending(f) == killed[f] /\ masked[f] = 1

\* The fiber runs in its wait loop: it was woken, or a kill was deferred.
Resumed(f) == (pc[f] = "parked" /\ woken[f]) \/ pc[f] = "retry"

\* The thread runs in its wait loop.
Roused(t) == pc[t] = "asleep" /\ (t \in signalled \/ expired[t])

\* The wakers of the fibers in W fire while the actor a runs.
WakeAll(W, a) == woken' = [g \in Fibers |-> (woken[g] /\ g # a) \/ g \in W]

\* A caller starts to wait: fw_deadline and fw_mask_enter.
StartWait(a) ==
  /\ expired' = [expired EXCEPT ![a] = FALSE]
  /\ masked' = [f \in Fibers |-> IF f = a THEN 1 ELSE masked[f]]

\* fw_park_unlocked with the waiter on the queue q, after waking W.
Park(f, q, W) ==
  /\ pc' = [pc EXCEPT ![f] = "parked"]
  /\ wq' = fw_enqueue(q, f)
  /\ timer' = IF f \in Timed THEN timer \cup {f} ELSE timer
  /\ WakeAll(W, f)

\* A mutant: the exit from the wait leaves the park timer armed.
LeaveTimer(f, q, W, where) ==
  /\ pc' = [pc EXCEPT ![f] = where]
  /\ wq' = q
  /\ timer' = timer
  /\ WakeAll(W, f)

\* The fiber stops waiting with q as the queue, after waking W: the park
\* timer is cancelled on every exit.
Leave(f, q, W, where) ==
  /\ pc' = [pc EXCEPT ![f] = where]
  /\ wq' = q
  /\ timer' = timer \ {f}
  /\ WakeAll(W, f)

\* The first pass of a fiber's wait loop, which has nothing to take: no kill is
\* pending and the fiber parks, after waking W, ...
StartPark(f, W) ==
  /\ ~killed[f]
  /\ StartWait(f)
  /\ Park(f, wq, W)
  /\ UNCHANGED <<killed, signalled>>

\* ... or a kill came before the wait, and the fiber, which is not queued yet, goes
\* to fw_kill_deliver.
StartKilled(f, W) ==
  /\ killed[f]
  /\ StartWait(f)
  /\ Leave(f, wq, W, "deliver")
  /\ UNCHANGED <<killed, signalled>>

\* A thread's pthread_cond_wait, or cv_wait_until, begins.
Sleep(t) ==
  /\ pc' = [pc EXCEPT ![t] = "asleep"]
  /\ signalled' = signalled \ {t}

\* Time passes a waiting caller's deadline.
DeadlinePasses(a) ==
  /\ a \in Timed /\ pc[a] \in Waiting /\ ~expired[a]
  /\ expired' = [expired EXCEPT ![a] = TRUE]
  /\ UNCHANGED <<pc, wq, woken, timer, killed, masked, signalled>>

\* The loop runs an armed park timer.
TimerFires(f) ==
  /\ f \in timer /\ expired[f]
  /\ timer' = timer \ {f}
  /\ woken' = [woken EXCEPT ![f] = TRUE]
  /\ UNCHANGED <<pc, wq, expired, killed, masked, signalled>>

\* xtc_exit_pid: the kill is latched and the fiber woken.  One that holds the
\* primitive looks for a kill only at its next wait, so a kill comes before it or then.
Kill(f) ==
  /\ f \in MayDie /\ pc[f] \in Waiting \cup {"idle"} /\ ~killed[f]
  /\ killed' = [killed EXCEPT ![f] = TRUE]
  /\ woken' = [woken EXCEPT ![f] = TRUE]
  /\ UNCHANGED <<pc, wq, timer, expired, masked, signalled>>

\* fw_kill_deliver: the fiber unwinds ...
KillUnwinds(f) ==
  /\ pc[f] = "deliver"
  /\ pc' = [pc EXCEPT ![f] = "dead"]
  /\ UNCHANGED <<wq, woken, timer, expired, killed, masked, signalled>>

\* ... or an enclosing mask defers the kill and the wait goes on.
KillDeferred(f) ==
  /\ pc[f] = "deliver"
  /\ pc' = [pc EXCEPT ![f] = "retry"]
  /\ masked' = [masked EXCEPT ![f] = 2]
  /\ UNCHANGED <<wq, woken, timer, expired, killed, signalled>>

\* The loop's timers and the delivery of kills.
FiberSurroundings(f) == TimerFires(f) \/ KillUnwinds(f) \/ KillDeferred(f)

\* Time, timers and killers.
Surroundings ==
  \/ \E a \in Actors : DeadlinePasses(a)
  \/ \E f \in Fibers : Kill(f) \/ FiberSurroundings(f)

----------------------------------------------------------------------------
\* Every variable of the wait keeps its type.
fwTypeOK ==
  /\ wq \in Seq(Fibers)
  /\ woken \in [Fibers -> BOOLEAN]
  /\ timer \subseteq Fibers
  /\ expired \in [Actors -> BOOLEAN]
  /\ killed \in [Fibers -> BOOLEAN]
  /\ masked \in [Fibers -> 0 .. 2]
  /\ signalled \subseteq Threads

\* No waiter outlives its wait: the waiter is in its caller's stack frame, so
\* it must be off the queue, and its park timer cancelled, once the caller
\* has left the wait by success, timeout or kill; and it is queued once.
NoWaiterLeft ==
  /\ \A f \in Fibers : pc[f] # "parked" => f \notin Range(wq) /\ f \notin timer
  /\ IsInjective(wq)

=============================================================================
