------------------------------- MODULE LockLw -------------------------------
(***************************************************************************)
(* The lightweight reader-writer lock of ptc/lock_lw.c: a state word that  *)
(* is changed by compare-and-swap, and a wait queue under wait_mu.  The    *)
(* word changes without the mutex, so a critical section of wait_mu is one *)
(* action only where it touches the word once.                             *)
(***************************************************************************)
EXTENDS FiberWait, FiniteSets

CONSTANTS
  Modes,      \* Modes[a]: the modes in which a asks for the lock
  MaxHolds    \* bound: acquisitions per caller; 0: without end

(* st has the fields
     ex, sh     the lock bits of the state word: LW_VAL_EXCLUSIVE, the shared count
     flag       LW_FLAG_HAS_WAITERS
     n_waiters  the waiters counted under wait_mu
     mu         the owner of wait_mu where its section takes several steps
     mode       the mode of a's call, and of its entry in the held list
     holds      acquisitions so far *)
VARIABLE st

vars == <<st, fwVars>>

Nobody == "nobody"
MuFree == st.mu = Nobody

Init ==
  /\ fwInit
  /\ st = [ex |-> FALSE, sh |-> 0, flag |-> FALSE, n_waiters |-> 0, mu |-> Nobody,
           mode |-> [a \in Actors |-> "none"], holds |-> [a \in Actors |-> 0]]

(* __try_attempt: what the compare-and-swap requires of the lock bits ... *)
FreeFor(mode) == ~st.ex /\ (mode = "X" => st.sh = 0)
(* ... and what it adds to them. *)
Taken(s, mode) == IF mode = "X" THEN [s EXCEPT !.ex = TRUE] ELSE [s EXCEPT !.sh = @ + 1]

Goto(a, where) == pc' = [pc EXCEPT ![a] = where]

(* __held_push on every successful return; the bound counts the acquisitions. *)
Got(s, a) == [s EXCEPT !.holds[a] = IF MaxHolds = 0 THEN 0 ELSE @ + 1]

----------------------------------------------------------------------------
(* xtc_lwlock_acquire, from the top also after a thread's sleep or a deferred kill: the
   fast path.  xtc_lwlock_acquire_cond is a call that stops here. *)
Acquire(a) ==
  /\ pc[a] \in {"again", "retry"}
  /\ IF FreeFor(st.mode[a])
       THEN st' = Got(Taken(st, st.mode[a]), a) /\ Goto(a, "got")
       ELSE UNCHANGED st /\ Goto(a, "slow")
  /\ UNCHANGED <<wq, woken, timer, expired, killed, masked, signalled>>

Call(a, mode) ==
  /\ pc[a] = "idle" /\ mode \in Modes[a]
  /\ MaxHolds = 0 \/ st.holds[a] < MaxHolds
  /\ StartWait(a)
  /\ Goto(a, "again")
  /\ st' = [st EXCEPT !.mode[a] = mode]
  /\ UNCHANGED <<wq, woken, timer, killed, signalled>>

(* The slow path: wait_mu is taken and LW_FLAG_HAS_WAITERS set, ... *)
SetFlag(a) ==
  /\ pc[a] = "slow" /\ MuFree
  /\ st' = [st EXCEPT !.mu = a, !.flag = TRUE, !.n_waiters = @ + 1]
  /\ Goto(a, "recheck")
  /\ UNCHANGED <<wq, woken, timer, expired, killed, masked, signalled>>

(* ... the lock is tried again; failing that, a thread sleeps, ... *)
Recheck(a) ==
  /\ pc[a] = "recheck"
  /\ IF FreeFor(st.mode[a])
       THEN /\ st' = Got([Taken(st, st.mode[a]) EXCEPT !.n_waiters = @ - 1, !.mu = Nobody], a)
            /\ Goto(a, "got")
            /\ UNCHANGED <<wq, signalled>>
       ELSE IF a \in Threads
              THEN Sleep(a) /\ st' = [st EXCEPT !.mu = Nobody] /\ UNCHANGED wq
              ELSE /\ Goto(a, "loop")
                   /\ wq' = fw_enqueue(wq, a)
                   /\ UNCHANGED <<st, signalled>>
  /\ UNCHANGED <<woken, timer, expired, killed, masked>>

(* ... and a fiber, queued, looks for a kill and tries once more before it parks. *)
InLoop(f) == pc[f] = "loop" \/ (pc[f] = "parked" /\ woken[f] /\ MuFree)

FiberKilled(f) ==
  /\ InLoop(f) /\ fw_kill_pending(f)
  /\ Leave(f, fw_remove(wq, f), {}, "deliver")
  /\ st' = [st EXCEPT !.n_waiters = @ - 1, !.mu = Nobody]
  /\ UNCHANGED <<expired, killed, masked, signalled>>

FiberTakes(f) ==
  /\ InLoop(f) /\ ~fw_kill_pending(f) /\ FreeFor(st.mode[f])
  /\ Leave(f, fw_remove(wq, f), {}, "got")
  /\ st' = Got([Taken(st, st.mode[f]) EXCEPT !.n_waiters = @ - 1, !.mu = Nobody], f)
  /\ UNCHANGED <<expired, killed, masked, signalled>>

FiberParks(f) ==
  /\ InLoop(f) /\ ~fw_kill_pending(f) /\ ~FreeFor(st.mode[f])
  /\ Park(f, wq, {})
  /\ st' = [st EXCEPT !.mu = Nobody]
  /\ UNCHANGED <<expired, killed, masked, signalled>>

(* A thread returns from pthread_cond_wait, drops wait_mu and begins anew. *)
ThreadWakes(t) ==
  /\ Roused(t) /\ MuFree
  /\ Goto(t, "again")
  /\ st' = [st EXCEPT !.n_waiters = @ - 1]
  /\ UNCHANGED <<wq, woken, timer, expired, killed, masked, signalled>>

(* xtc_lwlock_release: the entry of the held list names the mode; ... *)
Release(a) ==
  /\ pc[a] = "got"
  /\ LET s == IF st.mode[a] = "X" THEN [st EXCEPT !.ex = FALSE] ELSE [st EXCEPT !.sh = @ - 1]
     IN /\ st' = [s EXCEPT !.mode[a] = "none"]
        /\ Goto(a, IF s.flag /\ ~s.ex THEN "wake" ELSE "idle")
  /\ UNCHANGED <<wq, woken, timer, expired, killed, masked, signalled>>

(* ... then every waiter is woken where it is queued, or, with none counted, the flag
   cleared. *)
ReleaseWake(a) ==
  /\ pc[a] = "wake" /\ MuFree
  /\ Goto(a, "idle")
  /\ signalled' = IF st.n_waiters > 0
                    THEN signalled \cup {t \in Threads : pc[t] = "asleep"}
                    ELSE signalled
  /\ st' = [st EXCEPT !.flag = @ /\ st.n_waiters > 0]
  /\ WakeAll(Range(wq), a)
  /\ UNCHANGED <<wq, timer, expired, killed, masked>>

Step(a) ==
  \/ Acquire(a) \/ SetFlag(a) \/ Recheck(a) \/ ReleaseWake(a)
  \/ a \in Fibers /\ (FiberKilled(a) \/ FiberTakes(a) \/ FiberParks(a))
  \/ a \in Threads /\ ThreadWakes(a)

Next ==
  \/ \E a \in Actors : Step(a) \/ Release(a) \/ \E m \in Modes[a] : Call(a, m)
  \/ Surroundings /\ UNCHANGED st

----------------------------------------------------------------------------
Holders(mode) == {a \in Actors : pc[a] = "got" /\ st.mode[a] = mode}
Counted == {a \in Actors : pc[a] \in {"recheck", "loop", "parked", "asleep"}}

(* The words of the lock have their types. *)
TypeOK ==
  /\ fwTypeOK
  /\ st.ex \in BOOLEAN /\ st.flag \in BOOLEAN
  /\ st.sh \in 0 .. Cardinality(Actors)
  /\ st.mu \in Actors \cup {Nobody}

(* The lock bits of the state word are the holders, a writer is alone, and wait_mu's
   counter is the callers in the slow path. *)
HoldsCompatible ==
  /\ Cardinality(Holders("X")) = IF st.ex THEN 1 ELSE 0
  /\ Cardinality(Holders("S")) = st.sh
  /\ st.ex => st.sh = 0
  /\ st.n_waiters = Cardinality(Counted)

(* No waiter stays queued, for a later release to wake, once its fiber has left the wait. *)
WaiterGone ==
  /\ \A f \in Fibers : pc[f] \notin {"loop", "parked"} => f \notin Range(wq)
  /\ IsInjective(wq)

(* Somebody is on the way to take the lock or to wake the waiters. *)
OnTheWay ==
  \E a \in Actors :
    \/ pc[a] \in {"again", "slow", "recheck", "loop", "wake"}
    \/ pc[a] = "parked" /\ woken[a]
    \/ pc[a] = "asleep" /\ a \in signalled

(* No caller sleeps beside a lock that is free for it with nobody about to wake it,
   whatever the compare-and-swaps of others do between the test of the word and the
   sleep; and while one is counted the next release sees the flag. *)
NotStranded ==
  /\ \A a \in Actors :
       pc[a] \in {"parked", "asleep"} /\ FreeFor(st.mode[a]) => OnTheWay
  /\ (\E a \in Actors : pc[a] \in {"recheck", "parked", "asleep"}) => st.flag
=============================================================================
