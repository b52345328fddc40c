---------------------------- MODULE SyncArwlock ----------------------------
(***************************************************************************)
(* The parking reader/writer latch of ptc/sync.c.  Fibers queue in order   *)
(* and are granted the latch by whoever releases it or leaves the queue; a *)
(* run of shared waiters is granted together.  Threads spin, then sleep,   *)
(* and enter only while no fiber is queued.                                *)
(***************************************************************************)
EXTENDS FiberWait

CONSTANTS Reading, Writing   \* the callers that only read, or only write

ARW_SHARED == "shared"
ARW_EXCL == "excl"

\* The modes a caller asks for.
Modes(a) ==
  (IF a \in Writing THEN {} ELSE {ARW_SHARED}) \cup
  (IF a \in Reading THEN {} ELSE {ARW_EXCL})

\* The latch: readers counts the shared holds, writer tells an exclusive one,
\* mode is the mode of a caller's current call, granted the fibers that were
\* granted the latch and have not run yet, last_excl tells that the last
\* release was exclusive.
VARIABLE st

Init ==
  /\ fwInit
  /\ st = [readers |-> 0, writer |-> FALSE, granted |-> {}, last_excl |-> FALSE,
           mode |-> [a \in Actors |-> ARW_SHARED]]

\* The sleepers of a mode, the actor a not counted: it has just woken.
Sleepers(m, a) == {t \in Threads \ {a} : pc[t] = "asleep" /\ st.mode[t] = m}

\* Can m be granted beside the holds of l?
__arw_compatible(m, l) == ~l.writer /\ (m = ARW_EXCL => l.readers = 0)

\* The latch l after one more hold in mode m.
__arw_take(l, m) ==
  IF m = ARW_EXCL THEN [l EXCEPT !.writer = TRUE] ELSE [l EXCEPT !.readers = @ + 1]

\* Rouse the threads that can enter the latch l with q queued: the readers
\* after an exclusive release, else one writer.
__arw_wake_threads_locked(q, l, a) ==
  LET rd == Sleepers(ARW_SHARED, a)
      wr == Sleepers(ARW_EXCL, a)
      base == signalled \ {a}
  IN IF rd \cup wr = {} \/ q # <<>> \/ l.writer THEN signalled' = base
     ELSE IF l.readers > 0
     THEN signalled' = IF wr = {} THEN base \cup rd ELSE base
     ELSE IF wr # {} /\ (rd = {} \/ ~l.last_excl)
     THEN IF wr \subseteq signalled
          THEN signalled' = base
          ELSE \E t \in wr \ signalled : signalled' = base \cup {t}
     ELSE signalled' = base \cup rd

\* The number of waiters at the head of q that are granted the latch l: one
\* writer, or the readers up to the first writer.
Grantable(q, l) ==
  IF q = <<>> \/ l.writer THEN 0
  ELSE IF l.mode[Head(q)] = ARW_EXCL
  THEN IF __arw_compatible(ARW_EXCL, l) THEN 1 ELSE 0
  ELSE CHOOSE n \in 1 .. Len(q) :
         /\ \A i \in 1 .. n : l.mode[q[i]] = ARW_SHARED
         /\ n < Len(q) => l.mode[q[n + 1]] = ARW_EXCL

\* The actor a grants what q and l allow and sets the holds.
__arw_grant_locked(q, l, a) ==
  LET n == Grantable(q, l)
      now == {q[i] : i \in 1 .. n}
      rd == {f \in now : l.mode[f] = ARW_SHARED}
  IN /\ wq' = SubSeq(q, n + 1, Len(q))
     /\ st' = [l EXCEPT !.granted = (@ \ {a}) \cup now,
                        !.writer = @ \/ now # rd,
                        !.readers = @ + Cardinality(rd)]
     /\ WakeAll(now, a)
     /\ __arw_wake_threads_locked(wq', st', a)

\* __arw_release_locked by a: one hold less; the phase is noted only while a
\* thread sleeps.
Release(a) ==
  [st EXCEPT !.readers = IF st.writer \/ @ = 0 THEN @ ELSE @ - 1,
             !.writer = FALSE,
             !.last_excl = IF Sleepers(ARW_SHARED, a) \cup Sleepers(ARW_EXCL, a) # {}
                           THEN st.writer ELSE @]

Open(m) == wq = <<>> /\ __arw_compatible(m, st)

----------------------------------------------------------------------------
\* __arwlock_lock that finds nobody queued and the latch compatible.
LockFast(a, m) ==
  /\ pc[a] = "idle" /\ Open(m)
  /\ st' = [__arw_take(st, m) EXCEPT !.mode[a] = m]
  /\ pc' = [pc EXCEPT ![a] = "got"]
  /\ UNCHANGED <<wq, woken, timer, expired, killed, masked, signalled>>

\* ... on a fiber that has to wait: the first pass of the loop.
LockPark(f, m) ==
  /\ pc[f] = "idle" /\ ~Open(m)
  /\ st' = [st EXCEPT !.mode[f] = m]
  /\ StartPark(f, {})

\* ... which a kill may precede.
LockKilled(f, m) ==
  /\ pc[f] = "idle" /\ ~Open(m) /\ killed[f]
  /\ StartWait(f)
  /\ pc' = [pc EXCEPT ![f] = "deliver"]
  /\ __arw_grant_locked(wq, [st EXCEPT !.mode[f] = m], f)
  /\ UNCHANGED <<timer, killed>>

\* A pending kill comes first: a hold already granted is given back, and
\* leaving the queue may let in the waiters behind.
FiberKilled(f) ==
  /\ Resumed(f) /\ fw_kill_pending(f)
  /\ pc' = [pc EXCEPT ![f] = "deliver"]
  /\ timer' = timer \ {f}
  /\ __arw_grant_locked(fw_remove(wq, f),
                        IF f \in st.granted THEN Release(f) ELSE st, f)
  /\ UNCHANGED <<expired, killed, masked>>

FiberGranted(f) ==
  /\ Resumed(f) /\ ~fw_kill_pending(f)
  /\ f \in st.granted
  /\ st' = [st EXCEPT !.granted = @ \ {f}]
  /\ Leave(f, wq, {}, "got")
  /\ UNCHANGED <<expired, killed, masked, signalled>>

\* Back from a deferred kill, the fiber may find the latch open.
FiberTakes(f) ==
  /\ pc[f] = "retry" /\ Open(st.mode[f])
  /\ st' = __arw_take(st, st.mode[f])
  /\ Leave(f, wq, {}, "got")
  /\ UNCHANGED <<expired, killed, masked, signalled>>

Refused(f) ==
  /\ Resumed(f) /\ ~fw_kill_pending(f)
  /\ f \notin st.granted
  /\ pc[f] = "retry" => ~Open(st.mode[f])

FiberTimesOut(f) ==
  /\ Refused(f) /\ expired[f]
  /\ pc' = [pc EXCEPT ![f] = "idle"]
  /\ timer' = timer \ {f}
  /\ __arw_grant_locked(fw_remove(wq, f), st, f)
  /\ UNCHANGED <<expired, killed, masked>>

FiberParks(f) ==
  /\ Refused(f) /\ ~expired[f]
  /\ Park(f, wq, {})
  /\ UNCHANGED <<expired, killed, masked, signalled, st>>

----------------------------------------------------------------------------
\* __arw_lock_thread: a thread that cannot enter spins first ...
ThreadSpins(t, m) ==
  /\ \/ /\ pc[t] = "idle"
        /\ st' = [st EXCEPT !.mode[t] = m]
        /\ expired' = [expired EXCEPT ![t] = FALSE]
     \/ Roused(t) /\ ~expired[t] /\ m = st.mode[t] /\ UNCHANGED <<st, expired>>
  /\ ~Open(m) /\ wq = <<>>
  /\ pc' = [pc EXCEPT ![t] = "spin"]
  /\ signalled' = signalled \ {t}
  /\ UNCHANGED <<wq, woken, timer, killed, masked>>

\* ... and sleeps after the spin, or without one (fibers queued, or the cap).
ThreadSleeps(t, m) ==
  /\ \/ /\ pc[t] = "idle"
        /\ st' = [st EXCEPT !.mode[t] = m]
        /\ expired' = [expired EXCEPT ![t] = FALSE]
     \/ /\ pc[t] = "spin" \/ (Roused(t) /\ ~expired[t])
        /\ m = st.mode[t]
        /\ UNCHANGED <<st, expired>>
  /\ ~Open(m)
  /\ Sleep(t)
  /\ UNCHANGED <<wq, woken, timer, killed, masked>>

\* A reader that enters lets in those that fell asleep after its broadcast.
ThreadTakes(t) ==
  /\ pc[t] = "spin" \/ Roused(t)
  /\ Open(st.mode[t])
  /\ st' = __arw_take(st, st.mode[t])
  /\ pc' = [pc EXCEPT ![t] = "got"]
  /\ IF st.mode[t] = ARW_SHARED
     THEN __arw_wake_threads_locked(wq, st', t)
     ELSE signalled' = signalled \ {t}
  /\ UNCHANGED <<wq, woken, timer, expired, killed, masked>>

ThreadTimesOut(t) ==
  /\ pc[t] = "asleep" /\ expired[t] /\ ~Open(st.mode[t])
  /\ pc' = [pc EXCEPT ![t] = "idle"]
  /\ signalled' = signalled \ {t}
  /\ UNCHANGED <<wq, woken, timer, expired, killed, masked, st>>

\* xtc_arwlock_unlock.
Unlock(a) ==
  /\ pc[a] = "got"
  /\ pc' = [pc EXCEPT ![a] = "idle"]
  /\ __arw_grant_locked(wq, Release(a), a)
  /\ UNCHANGED <<timer, expired, killed, masked>>

----------------------------------------------------------------------------
FiberStep(f) ==
  \/ FiberKilled(f) \/ FiberGranted(f) \/ FiberTakes(f)
  \/ FiberTimesOut(f) \/ FiberParks(f)

ThreadStep(t) ==
  \/ \E m \in Modes(t) : ThreadSpins(t, m) \/ ThreadSleeps(t, m)
  \/ ThreadTakes(t) \/ ThreadTimesOut(t)

Next ==
  \/ \E a \in Actors : Unlock(a) \/ \E m \in Modes(a) : LockFast(a, m)
  \/ \E f \in Fibers : FiberStep(f) \/ \E m \in Modes(f) : LockPark(f, m) \/ LockKilled(f, m)
  \/ \E t \in Threads : ThreadStep(t)
  \/ Surroundings /\ UNCHANGED st

----------------------------------------------------------------------------
\* Every variable keeps its type.
TypeOK ==
  /\ fwTypeOK
  /\ pc \in [Actors -> Waiting \cup {"idle", "got", "spin", "dead"}]
  /\ st.readers \in Nat
  /\ {st.writer, st.last_excl} \subseteq BOOLEAN
  /\ st.mode \in [Actors -> {ARW_SHARED, ARW_EXCL}]
  /\ st.granted \subseteq Fibers

Holders(m) ==
  {a \in Actors : (pc[a] = "got" \/ a \in st.granted) /\ st.mode[a] = m}

\* A writer is alone, and the latch's words count the holders, a fiber that
\* was granted the latch and has not run yet among them.
HoldsCompatible ==
  /\ st.readers = Cardinality(Holders(ARW_SHARED))
  /\ Cardinality(Holders(ARW_EXCL)) = (IF st.writer THEN 1 ELSE 0)
  /\ st.writer => st.readers = 0

\* The head of the queue never waits for a latch it could have, and a free
\* latch is never left beside threads that all sleep on.
NotStranded ==
  /\ wq # <<>> => ~__arw_compatible(st.mode[Head(wq)], st)
  /\ ~st.writer /\ st.readers = 0 /\ (\E t \in Threads : pc[t] = "asleep") =>
       \E t \in Threads : Roused(t) \/ pc[t] = "spin"

=============================================================================
