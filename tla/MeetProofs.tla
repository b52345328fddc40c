----------------------------- MODULE MeetProofs -----------------------------
(***************************************************************************)
(* Proofs about the four primitives of SyncMeet, for any number of callers *)
(* and every bound.  Each primitive has its inductive invariant: the words *)
(* under its lock count what the callers hold, and whoever the words would *)
(* let go on has been woken.                                               *)
(***************************************************************************)
EXTENDS SyncMeet, WaitProofs

meetVars == <<fwVars, st>>

----------------------------------------------------------------------------
(* The writer-priority lock. *)

RwSpec == RwInit /\ [][RwNext]_meetVars

(* Only threads call, and every word counts what it says. *)
RwInv ==
  /\ pc \in [Threads -> {"idle", "asleep", "got"}]
  /\ expired \in [Threads -> BOOLEAN]
  /\ st = [readers |-> st.readers, writer |-> st.writer,
           waiting_writers |-> st.waiting_writers]
  /\ st.readers \in Nat /\ st.writer \in BOOLEAN /\ st.waiting_writers \in Nat
  /\ HoldsCompatible

LEMMA RwInvInit ==
  ASSUME IsFiniteSet(Threads), Fibers = {}, Writers \subseteq Threads, RwInit
  PROVE  RwInv
<1>1. Got(Readers) = {} /\ Got(Writers) = {} /\ {c \in Writers : pc[c] = "asleep"} = {}
  BY DEF RwInit, fwInit, Actors, Got, Readers
<1> QED  BY <1>1, FS_EmptySet, Zenon DEF RwInit, fwInit, Actors, RwInv, HoldsCompatible

LEMMA RwInvStep ==
  ASSUME IsFiniteSet(Threads), Fibers = {}, Writers \subseteq Threads, RwInv, [RwNext]_meetVars
  PROVE  RwInv'
<1> DEFINE W == {c \in Writers : pc[c] = "asleep"}
           R == Got(Readers)
           X == Got(Writers)
<1>0. /\ IsFiniteSet(W) /\ IsFiniteSet(R) /\ IsFiniteSet(X)
      /\ Cardinality(W) \in Nat /\ Cardinality(R) \in Nat /\ Cardinality(X) \in Nat
      /\ Cardinality({}) = 0
  <2>1. W \subseteq Threads /\ R \subseteq Threads /\ X \subseteq Threads
    BY DEF Got, Readers
  <2> QED  BY <2>1, FS_Subset, FS_CardinalityType, FS_EmptySet
<1>a. /\ st.readers = Cardinality(R) /\ st.waiting_writers = Cardinality(W)
      /\ Cardinality(X) = (IF st.writer THEN 1 ELSE 0) /\ st.writer \in BOOLEAN
      /\ st.writer => st.readers = 0
  BY DEF RwInv, HoldsCompatible
<1>b. ASSUME pc' \in [Threads -> {"idle", "asleep", "got"}], expired' \in [Threads -> BOOLEAN],
             st' = [readers |-> st'.readers, writer |-> st'.writer,
                    waiting_writers |-> st'.waiting_writers],
             Cardinality(R') \in Nat, Cardinality(W') \in Nat, st'.writer \in BOOLEAN,
             st'.readers = Cardinality(R'), st'.waiting_writers = Cardinality(W'),
             Cardinality(X') = (IF st'.writer THEN 1 ELSE 0), st'.writer => st'.readers = 0
      PROVE  RwInv'
  BY <1>b DEF RwInv, HoldsCompatible
<1> HIDE DEF W, R, X
<1>1. ASSUME NEW c \in Threads, Granted(c) PROVE RwInv'
  <2>0. /\ pc' \in [Threads -> {"idle", "asleep", "got"}] /\ expired' \in [Threads -> BOOLEAN]
        /\ st' = [readers |-> st'.readers, writer |-> st'.writer,
                  waiting_writers |-> st'.waiting_writers]
    BY <1>1, Zenon DEF RwInv, Granted
  <2>1. CASE c \in Writers
    <3>1. X = {} /\ X' = {c} /\ R = {} /\ R' = {}
      <4>1. X = {} /\ R = {}
        BY <1>1, <2>1, <1>0, <1>a, FS_EmptySet DEF Granted, Ready, __can_grant_write
      <4> QED  BY <1>1, <2>1, <4>1 DEF X, R, RwInv, Granted, Got, Readers
    <3>2. st'.writer = TRUE /\ st'.readers = 0
      BY <1>1, <2>1, Zenon DEF RwInv, Granted, Ready, __can_grant_write
    <3>3. Cardinality(W') \in Nat /\ st'.waiting_writers = Cardinality(W')
      <4>1. CASE pc[c] = "idle"
        <5>1. W' = W  BY <1>1, <4>1 DEF RwInv, Granted, W
        <5> QED  BY <1>1, <4>1, <5>1, <1>0, <1>a DEF RwInv, Granted
      <4>2. CASE pc[c] = "asleep"
        <5>1. W' = W \ {c} /\ c \in W  BY <1>1, <2>1, <4>2 DEF RwInv, Granted, W
        <5>2. Cardinality(W') = Cardinality(W) - 1 /\ Cardinality(W') \in Nat
          BY <5>1, <1>0, CardMinus, Zenon
        <5> QED  BY <1>1, <2>1, <4>2, <5>2, <1>a DEF RwInv, Granted, OneLess
      <4> QED  BY <1>1, <4>1, <4>2 DEF Granted
    <3> QED  BY <2>0, <3>1, <3>2, <3>3, <1>0, <1>b, FS_Singleton, Zenon
  <2>2. CASE c \notin Writers
    <3>1. X' = X /\ W' = W /\ R' = R \cup {c} /\ c \notin R
      BY <1>1, <2>2 DEF RwInv, Granted, Got, Readers, X, W, R
    <3>2. Cardinality(R') = Cardinality(R) + 1  BY <3>1, <1>0, CardPlus, Zenon
    <3>3. /\ st'.writer = FALSE /\ st.writer = FALSE /\ st'.readers = st.readers + 1
          /\ st'.waiting_writers = st.waiting_writers
      BY <1>1, <2>2 DEF RwInv, Granted, Ready, __can_grant_read, OneLess
    <3>4. Cardinality(X') = 0 /\ st'.writer \in BOOLEAN /\ ~st'.writer  BY <3>1, <3>3, <1>a, Zenon
    <3>5. Cardinality(R') \in Nat /\ st'.readers = Cardinality(R')  BY <3>2, <3>3, <1>0, <1>a
    <3> QED  BY <2>0, <3>1, <3>3, <3>4, <3>5, <1>0, <1>a, <1>b
  <2> QED  BY <2>1, <2>2
<1>2. ASSUME NEW c \in Threads, Sleeps(c) PROVE RwInv'
  <2>0. /\ pc' \in [Threads -> {"idle", "asleep", "got"}] /\ expired' \in [Threads -> BOOLEAN]
        /\ st' = [readers |-> st'.readers, writer |-> st'.writer,
                  waiting_writers |-> st'.waiting_writers]
        /\ st'.readers = st.readers /\ st'.writer = st.writer
    BY <1>2, Zenon DEF RwInv, Sleeps, Sleep
  <2>1. X' = X /\ R' = R  BY <1>2 DEF RwInv, Sleeps, Sleep, Roused, Got, Readers, X, R
  <2>2. CASE pc[c] = "idle" /\ c \in Writers
    <3>1. W' = W \cup {c} /\ c \notin W  BY <1>2, <2>2 DEF RwInv, Sleeps, Sleep, W
    <3>2. Cardinality(W') = Cardinality(W) + 1  BY <3>1, <1>0, CardPlus, Zenon
    <3>3. st'.waiting_writers = st.waiting_writers + 1
      BY <1>2, <2>2 DEF RwInv, Sleeps, Roused
    <3> QED  BY <2>0, <2>1, <3>2, <3>3, <1>0, <1>a, <1>b
  <2>3. CASE ~(pc[c] = "idle" /\ c \in Writers)
    <3>1. W' = W  BY <1>2, <2>3 DEF RwInv, Sleeps, Sleep, Roused, W
    <3>2. st'.waiting_writers = st.waiting_writers
      BY <1>2, <2>3 DEF RwInv, Sleeps, Roused
    <3> QED  BY <2>0, <2>1, <3>1, <3>2, <1>0, <1>a, <1>b
  <2> QED  BY <2>2, <2>3
<1>3. ASSUME NEW c \in Threads, TimesOut(c) PROVE RwInv'
  <2>0. /\ pc' \in [Threads -> {"idle", "asleep", "got"}] /\ expired' \in [Threads -> BOOLEAN]
        /\ st' = [readers |-> st'.readers, writer |-> st'.writer,
                  waiting_writers |-> st'.waiting_writers]
        /\ st'.readers = st.readers /\ st'.writer = st.writer
        /\ st'.waiting_writers = OneLess(c)
    BY <1>3 DEF RwInv, TimesOut
  <2>1. X' = X /\ R' = R  BY <1>3 DEF RwInv, TimesOut, Got, Readers, X, R
  <2>2. CASE c \in Writers
    <3>1. W' = W \ {c} /\ c \in W  BY <1>3, <2>2 DEF RwInv, TimesOut, W
    <3>2. Cardinality(W') = Cardinality(W) - 1 /\ Cardinality(W') \in Nat  BY <3>1, <1>0, CardMinus, Zenon
    <3> QED  BY <2>0, <2>1, <2>2, <3>2, <1>0, <1>a, <1>b DEF OneLess
  <2>3. CASE c \notin Writers
    <3>1. W' = W  BY <1>3, <2>3 DEF RwInv, TimesOut, W
    <3> QED  BY <2>0, <2>1, <2>3, <3>1, <1>0, <1>a, <1>b DEF OneLess
  <2> QED  BY <2>2, <2>3
<1>4. ASSUME NEW c \in Threads, Unlock(c) PROVE RwInv'
  <2>0. /\ pc' \in [Threads -> {"idle", "asleep", "got"}] /\ expired' \in [Threads -> BOOLEAN]
        /\ st' = [readers |-> st'.readers, writer |-> st'.writer,
                  waiting_writers |-> st'.waiting_writers]
        /\ st'.writer = FALSE /\ st'.waiting_writers = st.waiting_writers
    BY <1>4, Zenon DEF RwInv, Unlock
  <2>1. W' = W  BY <1>4 DEF RwInv, Unlock, W
  <2>2. CASE st.writer
    <3>1. R = {}  BY <2>2, <1>0, <1>a, FS_EmptySet
    <3>2. c \in X /\ X' = X \ {c} /\ R' = {}
      BY <1>4, <3>1 DEF RwInv, Unlock, Got, Readers, X, R
    <3>3. Cardinality(X') = Cardinality(X) - 1  BY <3>2, <1>0, CardMinus, Zenon
    <3>4. st'.readers = st.readers  BY <1>4, <2>2 DEF RwInv, Unlock
    <3>5. Cardinality(X') = 0 /\ st'.writer \in BOOLEAN /\ ~st'.writer
      <4>1. Cardinality(X) = 1  BY <2>2, <1>a
      <4>2. Cardinality(X') = 0  BY <3>3, <4>1
      <4>3. st'.writer \in BOOLEAN /\ ~st'.writer  BY <2>0, Zenon
      <4> QED  BY <4>2, <4>3
    <3>6. st'.readers = Cardinality(R') /\ Cardinality(R') \in Nat
      BY <2>2, <3>2, <3>4, <1>0, <1>a
    <3> QED  BY <2>0, <2>1, <3>5, <3>6, <1>0, <1>a, <1>b
  <2>3. CASE ~st.writer
    <3>1. X = {}  BY <2>3, <1>0, <1>a, FS_EmptySet
    <3>2. c \in R /\ R' = R \ {c} /\ X' = {}
      BY <1>4, <3>1 DEF RwInv, Unlock, Got, Readers, X, R
    <3>3. Cardinality(R') = Cardinality(R) - 1 /\ Cardinality(R') \in Nat  BY <3>2, <1>0, CardMinus, Zenon
    <3>4. st'.readers = st.readers - 1  BY <1>4, <2>3 DEF RwInv, Unlock
    <3> QED  BY <2>0, <2>1, <2>3, <3>1, <3>2, <3>3, <3>4, <1>0, <1>a, <1>b, Zenon
  <2> QED  BY <2>2, <2>3
<1>5. ASSUME UNCHANGED <<pc, st>>, expired' \in [Threads -> BOOLEAN] PROVE RwInv'
  BY <1>5 DEF RwInv, HoldsCompatible, Got, Readers
<1>6. ASSUME NEW c \in Threads, TryFails(c) \/ (DeadlinePasses(c) /\ UNCHANGED st)
      PROVE  RwInv'
  BY <1>6, <1>5, Zenon DEF TryFails, DeadlinePasses, RwInv
<1>7. CASE UNCHANGED meetVars
  BY <1>7, <1>5 DEF meetVars, fwVars, RwInv
<1> QED  BY <1>1, <1>2, <1>3, <1>4, <1>6, <1>7 DEF RwNext

(* Whoever the words would let in has been woken: every change that lets somebody
   in broadcasts, and a caller sleeps only when the words refuse it. *)
LEMMA NotStrandedStep ==
  ASSUME Writers \subseteq Threads, RwInv, NotStranded, [RwNext]_meetVars
  PROVE  NotStranded'
<1>1. ASSUME NEW c \in Threads, Granted(c) PROVE NotStranded'
  <2>1. CASE c \in Writers
    <3>1. st'.writer = TRUE  BY <1>1, <2>1, Zenon DEF RwInv, Granted
    <3> QED  BY <3>1 DEF NotStranded, Ready, __can_grant_read, __can_grant_write
  <2>2. CASE c \notin Writers
    <3>1. /\ st'.writer = st.writer /\ st'.readers = st.readers + 1
          /\ st'.waiting_writers = st.waiting_writers /\ expired' = expired
      BY <1>1, <2>2 DEF RwInv, Granted, OneLess
    <3>2. st'.readers # 0  BY <3>1 DEF RwInv
    <3>3. \A d \in Threads : pc'[d] = "asleep" =>
            d # c /\ pc[d] = "asleep" /\ (d \in signalled => d \in signalled')
      BY <1>1 DEF RwInv, Granted
    <3> QED  BY <3>1, <3>2, <3>3
             DEF NotStranded, Ready, Roused, __can_grant_read, __can_grant_write
  <2> QED  BY <2>1, <2>2
<1>2. ASSUME NEW c \in Threads, Sleeps(c) PROVE NotStranded'
  <2>1. /\ st'.writer = st.writer /\ st'.readers = st.readers
        /\ st'.waiting_writers # 0 \/ st'.waiting_writers = st.waiting_writers
    BY <1>2 DEF RwInv, Sleeps
  <2>2. ~Ready(c)'
    <3>1. CASE c \in Writers
      BY <1>2, <2>1, <3>1 DEF Sleeps, Ready, __can_grant_write
    <3>2. CASE c \notin Writers
      <4>1. st'.waiting_writers = st.waiting_writers  BY <1>2, <3>2 DEF RwInv, Sleeps
      <4> QED  BY <1>2, <2>1, <3>2, <4>1 DEF Sleeps, Ready, __can_grant_read
    <3> QED  BY <3>1, <3>2
  <2>3. \A d \in Threads : d # c =>
          /\ pc'[d] = pc[d] /\ expired'[d] = expired[d]
          /\ d \in signalled => d \in signalled'
    BY <1>2 DEF RwInv, Sleeps, Sleep
  <2> QED  BY <2>1, <2>2, <2>3
           DEF NotStranded, Ready, Roused, __can_grant_read, __can_grant_write
<1>3. ASSUME NEW c \in Threads, Broadcast(c), UNCHANGED expired,
             \A d \in Threads : d # c => pc'[d] = pc[d], pc'[c] # "asleep"
      PROVE  NotStranded'
  BY <1>3 DEF NotStranded, Roused, Broadcast
<1>4. ASSUME NEW c \in Threads, TimesOut(c) PROVE NotStranded'
  <2>1. CASE c \in Writers
    BY <1>3, <1>4, <2>1 DEF TimesOut, RwInv
  <2>2. CASE c \notin Writers
    <3>1. st' = st  BY <1>4, <2>2 DEF TimesOut, OneLess, RwInv
    <3>2. \A d \in Threads : pc'[d] = "asleep" =>
            pc[d] = "asleep" /\ (d \in signalled => d \in signalled')
      BY <1>4, <2>2 DEF TimesOut, RwInv
    <3> QED  BY <1>4, <3>1, <3>2, Zenon
             DEF TimesOut, NotStranded, Roused, Ready, __can_grant_read, __can_grant_write
  <2> QED  BY <2>1, <2>2
<1>5. ASSUME NEW c \in Threads, TryFails(c) \/ Unlock(c) PROVE NotStranded'
  BY <1>3, <1>5 DEF TryFails, Unlock, RwInv
<1>6. ASSUME NEW c \in Threads, DeadlinePasses(c), UNCHANGED st PROVE NotStranded'
  BY <1>6 DEF DeadlinePasses, NotStranded, Roused, Ready, __can_grant_read, __can_grant_write, RwInv
<1>7. CASE UNCHANGED meetVars
  BY <1>7 DEF meetVars, fwVars, NotStranded, Roused, Ready, __can_grant_read, __can_grant_write
<1> QED  BY <1>1, <1>2, <1>4, <1>5, <1>6, <1>7 DEF RwNext

(* The lock of xtc_rwlock_rdlock, wrlock and unlock, called by any number of threads
   with or without deadlines: a writer is alone, the three words count the holders
   and the waiting writers exactly, so that neither an unlock nor a timed-out writer
   takes a count below zero, and no caller sleeps on while it could have the lock. *)
THEOREM RwLockSafe ==
  ASSUME IsFiniteSet(Threads), Fibers = {}, Writers \subseteq Threads
  PROVE  RwSpec => [](HoldsCompatible /\ NotStranded)
<1>1. RwInit => RwInv /\ NotStranded
  BY RwInvInit DEF RwInit, fwInit, NotStranded, Actors
<1>2. RwInv /\ NotStranded /\ [RwNext]_meetVars => (RwInv /\ NotStranded)'
  BY RwInvStep, NotStrandedStep
<1>3. RwInv => HoldsCompatible  BY DEF RwInv
<1> QED  BY <1>1, <1>2, <1>3, PTL DEF RwSpec

----------------------------------------------------------------------------
(* The broadcast and fw_wake_all set wakers, and signal threads. *)
LEMMA RouseAllType ==
  ASSUME WaitInv, RouseAll
  PROVE  woken' \in [Fibers -> BOOLEAN] /\ signalled' \subseteq Threads
  BY DEF WaitInv, fwTypeOK, RouseAll

----------------------------------------------------------------------------
(* The gate. *)

GateSpec == GateInit /\ [][GateNext]_meetVars

(* The count is the number of operations inside, and a drain that returned from the
   closed gate left it empty. *)
GateWords ==
  /\ st = [count |-> st.count, closed |-> st.closed, inGate |-> st.inGate,
           drained |-> st.drained]
  /\ st.closed \in BOOLEAN /\ st.drained \in BOOLEAN /\ st.inGate \subseteq Ops
  /\ st.count = Cardinality(st.inGate)
  /\ st.drained => st.closed /\ st.inGate = {}

GateInv == WaitInv /\ GateWords /\ EmptyIsSeen

LEMMA GateInvInit ==
  ASSUME GateInit
  PROVE  GateInv
<1>1. WaitInv /\ wq = <<>> /\ Range(wq) = {}  BY WaitInvInit DEF GateInit, fwInit, Range
<1>2. GateWords  BY FS_EmptySet DEF GateInit, GateWords
<1>3. EmptyIsSeen  BY <1>1 DEF EmptyIsSeen, GateInit, fwInit, Actors
<1> QED  BY <1>1, <1>2, <1>3 DEF GateInv

LEMMA GateWordsStep ==
  ASSUME IsFiniteSet(Ops), GateWords, [GateNext]_meetVars
  PROVE  GateWords'
<1>0. IsFiniteSet(st.inGate) /\ Cardinality(st.inGate) \in Nat
  BY FS_Subset, FS_CardinalityType DEF GateWords
<1>1. ASSUME NEW o \in Ops, Enter(o) PROVE GateWords'
  <2>1. /\ st'.count = st.count + 1 /\ st'.inGate = st.inGate \cup {o} /\ o \notin st.inGate
        /\ st'.closed = st.closed /\ st'.drained = st.drained /\ ~st.closed
        /\ st' = [count |-> st'.count, closed |-> st'.closed, inGate |-> st'.inGate,
                  drained |-> st'.drained]
    BY <1>1, ZenonT(60) DEF GateWords, Enter
  <2>2. Cardinality(st'.inGate) = Cardinality(st.inGate) + 1  BY <1>0, <2>1, CardPlus, ZenonT(60)
  <2> QED  BY <2>1, <2>2 DEF GateWords
<1>2. ASSUME NEW o \in Ops, LeaveGate(o) PROVE GateWords'
  <2>1. Cardinality(st.inGate \ {o}) = Cardinality(st.inGate) - 1
        /\ Cardinality(st.inGate \ {o}) \in Nat
    BY <1>0, <1>2, CardMinus DEF LeaveGate
  <2>2. st.count > 0  BY <1>0, <2>1 DEF GateWords
  <2>3. /\ st'.count = st.count - 1 /\ st'.inGate = st.inGate \ {o}
        /\ st'.closed = st.closed /\ st'.drained = st.drained
        /\ st' = [count |-> st'.count, closed |-> st'.closed, inGate |-> st'.inGate,
                  drained |-> st'.drained]
    BY <1>2, <2>2, Zenon DEF GateWords, LeaveGate
  <2> QED  BY <2>1, <2>3 DEF GateWords
<1>3. CASE Close
  <2>1. /\ st'.count = st.count /\ st'.inGate = st.inGate
        /\ st'.closed = TRUE /\ st'.drained = st.drained
        /\ st' = [count |-> st'.count, closed |-> st'.closed, inGate |-> st'.inGate,
                  drained |-> st'.drained]
    BY <1>3, Zenon DEF GateWords, Close
  <2> QED  BY <2>1, Zenon DEF GateWords
<1>4. CASE Drained
  <2>1. /\ st'.count = st.count /\ st'.inGate = st.inGate /\ st'.closed = st.closed
        /\ st'.drained = (st.drained \/ st.closed) /\ st.count = 0
        /\ st' = [count |-> st'.count, closed |-> st'.closed, inGate |-> st'.inGate,
                  drained |-> st'.drained]
    BY <1>4 DEF GateWords, Drained
  <2>2. st.inGate = {}  BY <1>0, <2>1, FS_EmptySet, ZenonT(60) DEF GateWords
  <2> QED  BY <2>1, <2>2 DEF GateWords
<1>5. CASE UNCHANGED st
  BY <1>5 DEF GateWords
<1> QED  BY <1>1, <1>2, <1>3, <1>4, <1>5
         DEF GateNext, DrainFast, DrainPark, DrainKilled, GateFiberStep, GateFiberKilled, FiberDrained,
             FiberTimesOut, GateFiberParks, GateThreadStep, ThreadSleeps, ThreadDrained,
             ThreadTimesOut, meetVars

LEMMA GateWaitStep ==
  ASSUME WaitInv, [GateNext]_meetVars
  PROVE  WaitInv'
<1>1. ASSUME NEW o \in Ops, Enter(o) PROVE WaitInv'
  BY <1>1, StillKeeps DEF Enter
<1>2. ASSUME NEW o \in Ops, LeaveGate(o) PROVE WaitInv'
  <2>1. woken' \in [Fibers -> BOOLEAN] /\ signalled' \subseteq Threads
    BY <1>2, RouseAllType DEF LeaveGate, WaitInv, fwTypeOK
  <2> QED  BY <1>2, <2>1, SameWords, RestKeeps DEF LeaveGate, WaitInv
<1>3. CASE Close
  <2>1. woken' \in [Fibers -> BOOLEAN] /\ signalled' \subseteq Threads
    BY <1>3 DEF Close, WaitInv, fwTypeOK
  <2> QED  BY <1>3, <2>1, SameWords, RestKeeps DEF Close, WaitInv
<1>4. ASSUME NEW a \in Actors, DrainFast(a) PROVE WaitInv'
  BY <1>4, StillKeeps DEF DrainFast
<1>5. ASSUME NEW f \in Fibers, DrainPark(f) PROVE WaitInv'
  BY <1>5, StartsParking, ZenonT(60) DEF DrainPark
<1>10. ASSUME NEW f \in Fibers, DrainKilled(f) PROVE WaitInv'
  BY <1>10, StartsDying, ZenonT(60) DEF DrainKilled
<1>6. ASSUME NEW f \in Fibers, GateFiberStep(f) PROVE WaitInv'
  <2>1. signalled' \subseteq Threads /\ UNCHANGED <<expired, killed, masked, signalled>>
    BY <1>6 DEF GateFiberStep, GateFiberKilled, FiberDrained, FiberTimesOut, GateFiberParks,
                WaitInv, fwTypeOK
  <2>2. {"deliver", "idle"} \subseteq Places  BY DEF Places
  <2>3. CASE GateFiberKilled(f)  BY <2>1, <2>2, <2>3, LeavesQueue DEF GateFiberKilled
  <2>4. CASE FiberDrained(f)  BY <2>1, <2>2, <2>4, LeavesQueue DEF FiberDrained
  <2>5. CASE FiberTimesOut(f)  BY <2>1, <2>2, <2>5, LeavesQueue DEF FiberTimesOut
  <2>6. CASE GateFiberParks(f)  BY <2>1, <2>6, ParksAgain DEF GateFiberParks
  <2> QED  BY <1>6, <2>3, <2>4, <2>5, <2>6 DEF GateFiberStep
<1>7. ASSUME NEW t \in Threads, GateThreadStep(t) PROVE WaitInv'
  <2>1. t \in Actors  BY DEF Actors
  <2>2. WordsOK'
    BY <1>7, <2>1, ZenonT(60) DEF GateThreadStep, ThreadSleeps, Sleep, ThreadDrained, ThreadTimesOut,
                      WaitInv, fwTypeOK, WordsOK
  <2>3. PICK x \in {"idle", "asleep"} : pc' = [pc EXCEPT ![t] = x]
    BY <1>7 DEF GateThreadStep, ThreadSleeps, Sleep, ThreadDrained, ThreadTimesOut
  <2>4. pc[t] # "parked" /\ UNCHANGED <<wq, woken, timer>>
    BY <1>7 DEF GateThreadStep, ThreadSleeps, ThreadDrained, ThreadTimesOut, Roused
  <2>5. x \in Places  BY DEF Places
  <2> QED  BY <2>2, <2>3, <2>4, <2>5, ThreadMoves, Zenon
<1>8. CASE Surroundings  BY <1>8, SurroundingsKeep
<1>9. CASE UNCHANGED meetVars  BY <1>9, StillKeeps DEF meetVars
<1> QED  BY <1>1, <1>2, <1>3, <1>4, <1>5, <1>6, <1>7, <1>8, <1>9, <1>10 DEF GateNext

(* A drainer waits only while the count is positive, and the leave that takes it to
   zero rouses every one of them. *)
LEMMA GateSeenStep ==
  ASSUME WaitInv, GateWords, st.count \in Nat, EmptyIsSeen, [GateNext]_meetVars
  PROVE  EmptyIsSeen'
<1>0. Range(wq) \subseteq Fibers /\ Fibers \subseteq Actors /\ Threads \subseteq Actors
  BY DEF WaitInv, Queue, Range, Actors
<1>a. ASSUME st'.count = 0 => st.count = 0, Range(wq') \subseteq Range(wq),
             \A f \in Range(wq') : woken[f] => woken'[f],
             \A t \in Threads : pc'[t] = "asleep" =>
                pc[t] = "asleep" /\ (t \in signalled => t \in signalled')
                                 /\ (expired[t] => expired'[t])
      PROVE  EmptyIsSeen'
  BY <1>a DEF EmptyIsSeen, Roused
<1>1. ASSUME NEW o \in Ops, Enter(o) PROVE EmptyIsSeen'
  <2>1. st'.count = st.count + 1  BY <1>1 DEF Enter, GateWords
  <2> QED  BY <2>1 DEF EmptyIsSeen
<1>2. ASSUME NEW o \in Ops, LeaveGate(o) PROVE EmptyIsSeen'
  <2>1. CASE RouseAll
    BY <1>2, <2>1, <1>0, Zenon DEF LeaveGate, RouseAll, EmptyIsSeen, Roused
  <2>2. CASE st'.count # 0  BY <2>2 DEF EmptyIsSeen
  <2> QED  BY <1>2, <2>1, <2>2 DEF LeaveGate
<1>3. CASE Close
  <2>1. st'.count = st.count /\ pc' = pc /\ wq' = wq /\ expired' = expired
        /\ signalled \subseteq signalled'
    BY <1>3 DEF Close, GateWords
  <2>2. \A f \in Range(wq') : woken[f] => woken'[f]  BY <1>3, <2>1, <1>0, Zenon DEF Close
  <2> QED  BY <2>1, <2>2, <1>a
<1>4. ASSUME NEW a \in Actors, DrainFast(a) PROVE EmptyIsSeen'
  BY <1>4, <1>a DEF DrainFast, Drained, fwVars
<1>5. ASSUME NEW f \in Fibers, DrainPark(f) PROVE EmptyIsSeen'
  BY <1>5 DEF DrainPark, EmptyIsSeen
<1>10. ASSUME NEW f \in Fibers, DrainKilled(f) PROVE EmptyIsSeen'
  BY <1>10 DEF DrainKilled, EmptyIsSeen
<1>6. ASSUME NEW f \in Fibers, GateFiberStep(f) PROVE EmptyIsSeen'
  <2>1. CASE GateFiberParks(f)  BY <2>1 DEF GateFiberParks, EmptyIsSeen
  <2>2. CASE ~GateFiberParks(f)
    <3>1. PICK x \in {"deliver", "idle"} : Leave(f, fw_remove(wq, f), {}, x)
      BY <1>6, <2>2 DEF GateFiberStep, GateFiberKilled, FiberDrained, FiberTimesOut
    <3>2. UNCHANGED <<expired, signalled>> /\ st'.count = st.count
      BY <1>6, <2>2 DEF GateFiberStep, GateFiberKilled, FiberDrained, FiberTimesOut, Drained, GateWords
    <3>3. wq' = fw_remove(wq, f) /\ Range(wq') = Range(wq) \ {f}
      BY <3>1, RemoveQueue DEF Leave, WaitInv
    <3>4. \A g \in Range(wq') : woken[g] => woken'[g]
      BY <3>1, <3>3, <1>0, Zenon DEF Leave, WakeAll
    <3>5. \A t \in Threads : pc'[t] = "asleep" => pc[t] = "asleep"
      BY <3>1, <1>0 DEF Leave, WaitInv
    <3> QED  BY <3>2, <3>3, <3>4, <3>5, <1>a
  <2> QED  BY <2>1, <2>2
<1>7. ASSUME NEW t \in Threads, GateThreadStep(t) PROVE EmptyIsSeen'
  <2>1. CASE ThreadSleeps(t)  BY <2>1 DEF ThreadSleeps, EmptyIsSeen
  <2>2. CASE ThreadDrained(t) \/ ThreadTimesOut(t)
    <3>1. /\ st'.count = st.count /\ UNCHANGED <<wq, woken, expired>>
          /\ pc' = [pc EXCEPT ![t] = "idle"] /\ signalled' = signalled \ {t}
      BY <2>2 DEF ThreadDrained, ThreadTimesOut, Drained, GateWords
    <3>2. \A u \in Threads : pc'[u] = "asleep" => u # t /\ pc[u] = "asleep"
      BY <3>1, <1>0 DEF WaitInv
    <3> QED  BY <3>1, <3>2, <1>a
  <2> QED  BY <1>7, <2>1, <2>2 DEF GateThreadStep
<1>8. CASE Surroundings /\ UNCHANGED st
  <2>1. wq' = wq /\ st' = st /\ signalled' = signalled
    BY <1>8 DEF Surroundings, FiberSurroundings, DeadlinePasses, Kill, TimerFires, KillUnwinds,
                KillDeferred
  <2>2. \A f \in Fibers : woken[f] => woken'[f]
    BY <1>8 DEF Surroundings, FiberSurroundings, DeadlinePasses, Kill, TimerFires, KillUnwinds,
                KillDeferred, WaitInv, fwTypeOK
  <2>3. \A a \in Actors : (pc'[a] = "asleep" => pc[a] = "asleep") /\ (expired[a] => expired'[a])
    BY <1>8, <1>0 DEF Surroundings, FiberSurroundings, DeadlinePasses, Kill, TimerFires, KillUnwinds,
                KillDeferred, WaitInv, fwTypeOK
  <2> QED  BY <2>1, <2>2, <2>3, <1>0, <1>a
<1>9. CASE UNCHANGED meetVars
  BY <1>9, <1>a DEF meetVars, fwVars
<1> QED  BY <1>1, <1>2, <1>3, <1>4, <1>5, <1>6, <1>7, <1>8, <1>9, <1>10 DEF GateNext

(* The gate of xtc_gate_enter, leave, close and drain, for any operations and drainers:
   once a drain of the closed gate has returned no operation is inside it and none gets
   in, no drainer sleeps on beside an empty gate, and no waiter outlives its drain. *)
THEOREM GateSafe ==
  ASSUME IsFiniteSet(Ops)
  PROVE  GateSpec => [](DrainedStaysEmpty /\ EmptyIsSeen /\ NoWaiterLeft)
<1>1. GateInit => GateInv  BY GateInvInit
<1>2. GateInv /\ [GateNext]_meetVars => GateInv'
  <2> SUFFICES ASSUME GateInv, [GateNext]_meetVars PROVE GateInv'  OBVIOUS
  <2>1. st.count \in Nat
    BY FS_Subset, FS_CardinalityType DEF GateInv, GateWords
  <2> QED  BY <2>1, GateWordsStep, GateWaitStep, GateSeenStep DEF GateInv
<1>3. GateInv => DrainedStaysEmpty /\ EmptyIsSeen /\ NoWaiterLeft
  BY WaitInvImplies DEF GateInv, GateWords, DrainedStaysEmpty
<1> QED  BY <1>1, <1>2, <1>3, PTL DEF GateSpec

----------------------------------------------------------------------------
----------------------------------------------------------------------------
(* The barrier. *)

BarrierSpec == BarrierInit /\ [][BarrierNext]_meetVars

BarrierWords ==
  /\ st = [arrived |-> st.arrived, generation |-> st.generation, gen |-> st.gen,
           arrivals |-> st.arrivals, passed |-> st.passed]
  /\ st.generation \in 0 .. GenWrap - 1 /\ st.gen \in [Actors -> 0 .. GenWrap - 1]
  /\ st.arrivals \in [Actors -> Nat] /\ st.passed \in [Actors -> Nat]

Ahead(r) == {a \in Actors : st.arrivals[a] = r + 1}

(* r rounds are complete: everybody has arrived for them, some have arrived for the next
   and wait with the current generation, and who still waits for round r has an older one,
   has been woken if it is parked and signalled if it sleeps. *)
Rounds(r) ==
  /\ \A a \in Actors : st.arrivals[a] \in {r, r + 1}
  /\ \A a \in Actors : pc[a] = "idle" => st.arrivals[a] = r /\ st.passed[a] = r
  /\ \A a \in Actors : pc[a] # "idle" => st.arrivals[a] = st.passed[a] + 1
  /\ \A a \in Actors : st.arrivals[a] = r + 1 => st.gen[a] = st.generation
  /\ \A a \in Actors : pc[a] # "idle" /\ st.arrivals[a] = r => st.gen[a] # st.generation
  /\ \A f \in Fibers : pc[f] = "parked" /\ st.arrivals[f] = r => woken[f]
  /\ \A t \in Threads : pc[t] = "asleep" /\ st.arrivals[t] = r => t \in signalled
  /\ st.arrived = Cardinality(Ahead(r)) /\ st.arrived < target

(* Who is parked is queued, and only threads sleep. *)
BarrierPlaces ==
  /\ \A a \in Actors : pc[a] = "parked" => a \in Range(wq)
  /\ \A a \in Actors : pc[a] = "asleep" => a \in Threads

BarrierInv == WaitInv /\ BarrierWords /\ BarrierPlaces /\ \E r \in Nat : Rounds(r)

LEMMA BarrierInvInit ==
  ASSUME IsFiniteSet(Actors), Actors # {}, GenWrap \in Nat, GenWrap > 1, BarrierInit
  PROVE  BarrierInv
<1>1. WaitInv /\ BarrierPlaces
  BY WaitInvInit DEF BarrierInit, fwInit, BarrierPlaces
<1>2. BarrierWords  BY DEF BarrierInit, BarrierWords
<1>3. Rounds(0)
  <2>1. Ahead(0) = {}  BY DEF Ahead, BarrierInit
  <2>2. target \in Nat /\ target # 0
    BY FS_EmptySet, FS_CardinalityType DEF target
  <2>3. Cardinality(Ahead(0)) = 0  BY <2>1, FS_EmptySet
  <2>4. Fibers \subseteq Actors /\ Threads \subseteq Actors  BY DEF Actors
  <2> QED  BY <2>2, <2>3, <2>4 DEF Rounds, BarrierInit, fwInit
<1> QED  BY <1>1, <1>2, <1>3 DEF BarrierInv

LEMMA BarrierWordsStep ==
  ASSUME GenWrap \in Nat, GenWrap > 1, BarrierWords, [BarrierNext]_meetVars
  PROVE  BarrierWords'
<1>0. Fibers \subseteq Actors /\ Threads \subseteq Actors  BY DEF Actors
<1>1. ASSUME NEW a \in Actors, WaitLast(a) PROVE BarrierWords'
  <2>1. /\ st'.arrivals = [st.arrivals EXCEPT ![a] = @ + 1]
        /\ st'.gen = [st.gen EXCEPT ![a] = st.generation]
        /\ st'.passed = [st.passed EXCEPT ![a] = @ + 1]
        /\ st'.generation = (st.generation + 1) % GenWrap
        /\ st' = [arrived |-> st'.arrived, generation |-> st'.generation, gen |-> st'.gen,
                  arrivals |-> st'.arrivals, passed |-> st'.passed]
    BY <1>1, Zenon DEF WaitLast, Arrival, BarrierWords
  <2>2. st'.generation \in 0 .. GenWrap - 1  BY <2>1 DEF BarrierWords
  <2>3. st'.arrivals \in [Actors -> Nat] /\ st'.passed \in [Actors -> Nat]
        /\ st'.gen \in [Actors -> 0 .. GenWrap - 1]
    BY <2>1 DEF BarrierWords
  <2> QED  BY <2>1, <2>2, <2>3 DEF BarrierWords
<1>2. ASSUME NEW a \in Actors, st' = [Arrival(a) EXCEPT !.arrived = @ + 1] PROVE BarrierWords'
  <2>1. /\ st'.arrivals = [st.arrivals EXCEPT ![a] = @ + 1]
        /\ st'.gen = [st.gen EXCEPT ![a] = st.generation]
        /\ st'.passed = st.passed /\ st'.generation = st.generation
        /\ st' = [arrived |-> st'.arrived, generation |-> st'.generation, gen |-> st'.gen,
                  arrivals |-> st'.arrivals, passed |-> st'.passed]
    BY <1>2, Zenon DEF Arrival, BarrierWords
  <2>2. st'.arrivals \in [Actors -> Nat] /\ st'.gen \in [Actors -> 0 .. GenWrap - 1]
    BY <2>1 DEF BarrierWords
  <2> QED  BY <2>1, <2>2 DEF BarrierWords
<1>3. ASSUME NEW a \in Actors, st' = [st EXCEPT !.passed[a] = @ + 1] PROVE BarrierWords'
  <2>1. /\ st'.arrivals = st.arrivals /\ st'.gen = st.gen
        /\ st'.passed = [st.passed EXCEPT ![a] = @ + 1] /\ st'.generation = st.generation
        /\ st' = [arrived |-> st'.arrived, generation |-> st'.generation, gen |-> st'.gen,
                  arrivals |-> st'.arrivals, passed |-> st'.passed]
    BY <1>3 DEF BarrierWords
  <2> QED  BY <2>1 DEF BarrierWords
<1>4. CASE UNCHANGED st  BY <1>4 DEF BarrierWords
<1> QED  BY <1>0, <1>1, <1>2, <1>3, <1>4
         DEF BarrierNext, WaitPark, WaitKilled, WaitSleep, BarrierFiberStep, FiberReturns, BarrierFiberKilled,
             BarrierFiberParks, BarrierThreadStep, ThreadReturns, meetVars

LEMMA BarrierWaitStep ==
  ASSUME WaitInv, [BarrierNext]_meetVars
  PROVE  WaitInv'
<1>1. ASSUME NEW a \in Actors, WaitLast(a) PROVE WaitInv'
  <2>1. woken' \in [Fibers -> BOOLEAN] /\ signalled' \subseteq Threads
    BY <1>1, RouseAllType DEF WaitLast
  <2> QED  BY <1>1, <2>1, SameWords, RestKeeps DEF WaitLast, WaitInv
<1>2. ASSUME NEW f \in Fibers, WaitPark(f) PROVE WaitInv'
  BY <1>2, StartsParking DEF WaitPark
<1>7. ASSUME NEW f \in Fibers, WaitKilled(f) PROVE WaitInv'
  BY <1>7, StartsDying DEF WaitKilled, Arrives
<1>3. ASSUME NEW f \in Fibers, BarrierFiberStep(f) PROVE WaitInv'
  <2>1. signalled' \subseteq Threads /\ UNCHANGED <<expired, killed, masked, signalled>>
    BY <1>3 DEF BarrierFiberStep, FiberReturns, BarrierFiberKilled, BarrierFiberParks,
                WaitInv, fwTypeOK
  <2>2. {"deliver", "idle"} \subseteq Places  BY DEF Places
  <2>3. CASE FiberReturns(f)  BY <2>1, <2>2, <2>3, LeavesQueue DEF FiberReturns
  <2>4. CASE BarrierFiberKilled(f)  BY <2>1, <2>2, <2>4, LeavesQueue DEF BarrierFiberKilled
  <2>5. CASE BarrierFiberParks(f)  BY <2>1, <2>5, ParksAgain DEF BarrierFiberParks
  <2> QED  BY <1>3, <2>3, <2>4, <2>5 DEF BarrierFiberStep
<1>4. ASSUME NEW t \in Threads, WaitSleep(t) \/ BarrierThreadStep(t) PROVE WaitInv'
  <2>1. WordsOK'
    BY <1>4 DEF WaitSleep, Sleep, BarrierThreadStep, ThreadReturns, WaitInv, fwTypeOK, WordsOK
  <2>2. PICK x \in {"idle", "asleep"} : pc' = [pc EXCEPT ![t] = x]
    BY <1>4 DEF WaitSleep, Sleep, BarrierThreadStep, ThreadReturns
  <2>3. pc[t] # "parked" /\ UNCHANGED <<wq, woken, timer>>
    BY <1>4 DEF WaitSleep, Arrives, BarrierThreadStep, ThreadReturns, Roused
  <2>4. x \in Places  BY DEF Places
  <2> QED  BY <2>1, <2>2, <2>3, <2>4, ThreadMoves, Zenon
<1>5. CASE Surroundings  BY <1>5, SurroundingsKeep
<1>6. CASE UNCHANGED meetVars  BY <1>6, StillKeeps DEF meetVars
<1> QED  BY <1>1, <1>2, <1>3, <1>4, <1>5, <1>6, <1>7 DEF BarrierNext

LEMMA BarrierPlacesStep ==
  ASSUME WaitInv, BarrierPlaces, [BarrierNext]_meetVars
  PROVE  BarrierPlaces'
<1>0. Fibers \subseteq Actors /\ Threads \subseteq Actors  BY DEF Actors
<1>1. ASSUME UNCHANGED <<pc, wq>> PROVE BarrierPlaces'
  BY <1>1 DEF BarrierPlaces
<1>2. ASSUME NEW f \in Fibers, Park(f, wq, {}) PROVE BarrierPlaces'
  <2>1. Range(wq') = Range(wq) \cup {f} /\ pc' = [pc EXCEPT ![f] = "parked"]
    BY <1>2, EnqueueQueue DEF Park, WaitInv
  <2> QED  BY <2>1, <1>0 DEF BarrierPlaces, WaitInv
<1>3. ASSUME NEW f \in Fibers, NEW x \in {"idle", "deliver"}, Leave(f, fw_remove(wq, f), {}, x)
      PROVE  BarrierPlaces'
  <2>1. Range(wq') = Range(wq) \ {f} /\ pc' = [pc EXCEPT ![f] = x]
    BY <1>3, RemoveQueue DEF Leave, WaitInv
  <2> QED  BY <2>1, <1>0 DEF BarrierPlaces, WaitInv
<1>4. ASSUME NEW a \in Actors, NEW x \in {"idle", "asleep", "dead", "retry"},
             x = "asleep" => a \in Threads, pc' = [pc EXCEPT ![a] = x], wq' = wq
      PROVE  BarrierPlaces'
  BY <1>4 DEF BarrierPlaces, WaitInv
<1>5. ASSUME NEW f \in Fibers, WaitPark(f) \/ BarrierFiberStep(f) PROVE BarrierPlaces'
  BY <1>5, <1>2, <1>3
     DEF WaitPark, StartPark, BarrierFiberStep, FiberReturns, BarrierFiberKilled, BarrierFiberParks
<1>8. ASSUME NEW f \in Fibers, WaitKilled(f) PROVE BarrierPlaces'
  <2>1. pc[f] = "idle" /\ wq' = wq /\ pc' = [pc EXCEPT ![f] = "deliver"]
    BY <1>8 DEF WaitKilled, Arrives, StartKilled, Leave
  <2> QED  BY <2>1, <1>0 DEF BarrierPlaces, WaitInv
<1>6. ASSUME NEW t \in Threads, WaitSleep(t) \/ BarrierThreadStep(t) PROVE BarrierPlaces'
  BY <1>6, <1>4, <1>0 DEF WaitSleep, Sleep, BarrierThreadStep, ThreadReturns
<1>7. CASE Surroundings
  <2>1. ASSUME NEW f \in Fibers, KillUnwinds(f) \/ KillDeferred(f) PROVE BarrierPlaces'
    BY <2>1, <1>4, <1>0 DEF KillUnwinds, KillDeferred
  <2> QED  BY <1>7, <2>1, <1>1
           DEF Surroundings, FiberSurroundings, DeadlinePasses, Kill, TimerFires
<1> QED  BY <1>1, <1>5, <1>6, <1>7, <1>8, Zenon DEF BarrierNext, WaitLast, meetVars, fwVars

(* The last party completes the round, and everybody else was waiting for it. *)
LEMMA LastCompletes ==
  ASSUME IsFiniteSet(Actors), GenWrap \in Nat, GenWrap > 1, WaitInv, BarrierWords,
         BarrierPlaces, NEW r \in Nat, Rounds(r), NEW a \in Actors, WaitLast(a)
  PROVE  Rounds(r + 1)'
<1>1. /\ st'.arrivals = [st.arrivals EXCEPT ![a] = @ + 1]
      /\ st'.gen = [st.gen EXCEPT ![a] = st.generation]
      /\ st'.passed = [st.passed EXCEPT ![a] = @ + 1]
      /\ st'.generation = (st.generation + 1) % GenWrap
      /\ st'.arrived = 0 /\ pc' = pc
  BY DEF WaitLast, Arrival, BarrierWords
<1>2. st'.generation # st.generation /\ st.generation \in Nat
  BY <1>1 DEF BarrierWords
<1>3. pc[a] = "idle" /\ st.arrivals[a] = r /\ st.passed[a] = r
  BY DEF WaitLast, Arrives, Rounds
<1>4. \A b \in Actors : b # a => st.arrivals[b] = r + 1
  <2>1. Ahead(r) \subseteq Actors /\ a \notin Ahead(r) /\ IsFiniteSet(Ahead(r))
    BY <1>3, FS_Subset DEF Ahead
  <2>2. Cardinality(Ahead(r) \cup {a}) = target
    <3>1. Cardinality(Ahead(r) \cup {a}) = Cardinality(Ahead(r)) + 1  BY <2>1, CardPlus
    <3>2. st.arrived = Cardinality(Ahead(r))  BY DEF Rounds
    <3>3. st.arrived + 1 = target  BY DEF WaitLast
    <3> QED  BY <3>1, <3>2, <3>3
  <2>3. Ahead(r) \cup {a} = Actors
    BY <2>1, <2>2, FS_Subset DEF target
  <2> QED  BY <2>3 DEF Ahead
<1>5. \A b \in Actors : st'.arrivals[b] = r + 1
  BY <1>1, <1>3, <1>4 DEF BarrierWords
<1>6. \A b \in Actors : b # a => pc[b] # "idle" /\ st.gen[b] = st.generation /\ st.passed[b] = r
  BY <1>4 DEF Rounds, BarrierWords
<1>7. \A b \in Actors : b # a => st'.gen[b] = st.generation /\ st'.passed[b] = r
  BY <1>1, <1>6 DEF BarrierWords
<1>8. st'.passed[a] = r + 1  BY <1>1, <1>3 DEF BarrierWords
<1>9. Ahead(r + 1)' = {}  BY <1>5 DEF Ahead
<1>10. Cardinality(Ahead(r + 1)') = 0  BY <1>9, FS_EmptySet
<1>11. target \in Nat /\ target > 0
  BY FS_EmptySet, FS_CardinalityType DEF target
<1>12. \A f \in Fibers : pc[f] = "parked" => woken'[f]
  BY Zenon DEF WaitLast, RouseAll, BarrierPlaces, Actors
<1>13. \A t \in Threads : pc[t] = "asleep" => t \in signalled'
  BY DEF WaitLast, RouseAll
<1>14. r + 1 \in Nat /\ \A n \in Nat : n # n + 1  OBVIOUS
<1>15. /\ \A b \in Actors : st'.arrivals[b] \in {r + 1, r + 2}
       /\ \A b \in Actors : pc'[b] = "idle" => st'.arrivals[b] = r + 1 /\ st'.passed[b] = r + 1
       /\ \A b \in Actors : pc'[b] # "idle" => st'.arrivals[b] = st'.passed[b] + 1
  BY <1>1, <1>3, <1>5, <1>6, <1>7, <1>8
<1>16. /\ \A b \in Actors : st'.arrivals[b] = r + 2 => st'.gen[b] = st'.generation
       /\ \A b \in Actors : pc'[b] # "idle" => st'.gen[b] # st'.generation
  BY <1>1, <1>2, <1>3, <1>5, <1>7
<1>17. (r + 1) + 1 = r + 2  OBVIOUS
<1> QED  BY <1>1, <1>10, <1>11, <1>12, <1>13, <1>15, <1>16, <1>17 DEF Rounds, target

(* A party arrives and waits. *)
LEMMA ArrivalKeeps ==
  ASSUME IsFiniteSet(Actors), WaitInv, BarrierWords, NEW r \in Nat, Rounds(r),
         NEW a \in Actors, Arrives(a), st.arrived + 1 < target,
         st' = [Arrival(a) EXCEPT !.arrived = @ + 1],
         NEW x \in {"parked", "asleep", "deliver"}, pc' = [pc EXCEPT ![a] = x],
         \A f \in Fibers : f # a /\ woken[f] => woken'[f],
         \A t \in Threads : t # a /\ t \in signalled => t \in signalled'
  PROVE  Rounds(r)'
<1>1. /\ st'.arrivals = [st.arrivals EXCEPT ![a] = @ + 1]
      /\ st'.gen = [st.gen EXCEPT ![a] = st.generation]
      /\ st'.passed = st.passed /\ st'.generation = st.generation
      /\ st'.arrived = st.arrived + 1
  BY DEF Arrival, BarrierWords
<1>2. pc[a] = "idle" /\ st.arrivals[a] = r /\ st.passed[a] = r  BY DEF Arrives, Rounds
<1>3. st'.arrivals[a] = r + 1 /\ st'.gen[a] = st'.generation /\ pc'[a] = x /\ x # "idle"
  BY <1>1, <1>2 DEF BarrierWords, WaitInv
<1>4. \A b \in Actors : b # a => st'.arrivals[b] = st.arrivals[b] /\ st'.gen[b] = st.gen[b]
                                 /\ pc'[b] = pc[b]
  BY <1>1 DEF BarrierWords, WaitInv
<1>5. Ahead(r)' = Ahead(r) \cup {a} /\ a \notin Ahead(r)
  BY <1>2, <1>3, <1>4 DEF Ahead
<1>6. IsFiniteSet(Ahead(r))  BY FS_Subset DEF Ahead
<1>7. Cardinality(Ahead(r)') = Cardinality(Ahead(r)) + 1  BY <1>5, <1>6, CardPlus, Zenon
<1>8. Fibers \subseteq Actors /\ Threads \subseteq Actors  BY DEF Actors
<1>9. st'.arrived = Cardinality(Ahead(r)') /\ st'.arrived < target
  BY <1>1, <1>7 DEF Rounds
<1>10. /\ \A b \in Actors : st'.arrivals[b] \in {r, r + 1}
       /\ \A b \in Actors : pc'[b] = "idle" => st'.arrivals[b] = r /\ st'.passed[b] = r
       /\ \A b \in Actors : pc'[b] # "idle" => st'.arrivals[b] = st'.passed[b] + 1
  BY <1>1, <1>2, <1>3, <1>4 DEF Rounds
<1>11. /\ \A b \in Actors : st'.arrivals[b] = r + 1 => st'.gen[b] = st'.generation
       /\ \A b \in Actors : pc'[b] # "idle" /\ st'.arrivals[b] = r => st'.gen[b] # st'.generation
  BY <1>1, <1>3, <1>4 DEF Rounds
<1>12. /\ \A f \in Fibers : pc'[f] = "parked" /\ st'.arrivals[f] = r => woken'[f]
       /\ \A t \in Threads : pc'[t] = "asleep" /\ st'.arrivals[t] = r => t \in signalled'
  BY <1>3, <1>4, <1>8 DEF Rounds
<1> QED  BY <1>9, <1>10, <1>11, <1>12 DEF Rounds, target

(* A released party returns: it waited for round r. *)
LEMMA ReturnKeeps ==
  ASSUME WaitInv, BarrierWords, NEW r \in Nat, Rounds(r), NEW a \in Actors,
         pc[a] # "idle", Released(a), st' = [st EXCEPT !.passed[a] = @ + 1],
         pc' = [pc EXCEPT ![a] = "idle"],
         \A f \in Fibers : f # a /\ woken[f] => woken'[f],
         \A t \in Threads : t # a /\ t \in signalled => t \in signalled'
  PROVE  Rounds(r)'
<1>1. /\ st'.arrivals = st.arrivals /\ st'.gen = st.gen
      /\ st'.passed = [st.passed EXCEPT ![a] = @ + 1]
      /\ st'.generation = st.generation /\ st'.arrived = st.arrived
  BY DEF BarrierWords
<1>2. st.arrivals[a] = r /\ st.passed[a] + 1 = r  BY DEF Rounds, Released
<1>3. st'.passed[a] = r /\ pc'[a] = "idle"  BY <1>1, <1>2 DEF BarrierWords, WaitInv
<1>4. \A b \in Actors : b # a => st'.passed[b] = st.passed[b] /\ pc'[b] = pc[b]
  BY <1>1 DEF BarrierWords, WaitInv
<1>5. Ahead(r)' = Ahead(r)  BY <1>1 DEF Ahead
<1>6. Fibers \subseteq Actors /\ Threads \subseteq Actors  BY DEF Actors
<1>7. /\ \A b \in Actors : pc'[b] = "idle" => st'.arrivals[b] = r /\ st'.passed[b] = r
      /\ \A b \in Actors : pc'[b] # "idle" => st'.arrivals[b] = st'.passed[b] + 1
  BY <1>1, <1>2, <1>3, <1>4 DEF Rounds
<1>8. /\ \A b \in Actors : pc'[b] # "idle" /\ st'.arrivals[b] = r => st'.gen[b] # st'.generation
      /\ \A f \in Fibers : pc'[f] = "parked" /\ st'.arrivals[f] = r => woken'[f]
      /\ \A t \in Threads : pc'[t] = "asleep" /\ st'.arrivals[t] = r => t \in signalled'
  BY <1>1, <1>3, <1>4, <1>6 DEF Rounds
<1> QED  BY <1>1, <1>5, <1>7, <1>8 DEF Rounds, target

(* The steps in which a waiting party stays in its wait, or dies in it. *)
LEMMA StayKeeps ==
  ASSUME WaitInv, NEW r \in Nat, Rounds(r), UNCHANGED st,
         \A a \in Actors : (pc'[a] = "idle") <=> (pc[a] = "idle"),
         \A f \in Fibers : pc'[f] = "parked" /\ st.arrivals[f] = r => woken'[f],
         \A t \in Threads : pc'[t] = "asleep" /\ st.arrivals[t] = r => t \in signalled'
  PROVE  Rounds(r)'
<1>1. Ahead(r)' = Ahead(r)  BY DEF Ahead
<1> QED  BY <1>1 DEF Rounds, target

LEMMA RoundsStep ==
  ASSUME IsFiniteSet(Actors), GenWrap \in Nat, GenWrap > 1, WaitInv, BarrierWords,
         BarrierPlaces, NEW r \in Nat, Rounds(r), [BarrierNext]_meetVars
  PROVE  \E n \in Nat : Rounds(n)'
<1>0. Fibers \subseteq Actors /\ Threads \subseteq Actors /\ r + 1 \in Nat  BY DEF Actors
<1>1. ASSUME NEW a \in Actors, WaitLast(a) PROVE Rounds(r + 1)'
  BY <1>1, LastCompletes
<1>2. ASSUME NEW f \in Fibers, WaitPark(f) PROVE Rounds(r)'
  <2>1. /\ Arrives(f) /\ st.arrived + 1 < target /\ signalled' = signalled
        /\ st' = [Arrival(f) EXCEPT !.arrived = @ + 1] /\ pc' = [pc EXCEPT ![f] = "parked"]
    BY <1>2 DEF WaitPark, StartPark, Park
  <2>2. \A g \in Fibers : g # f /\ woken[g] => woken'[g]
    BY <1>2, Zenon DEF WaitPark, StartPark, Park, WakeAll
  <2> QED  BY <2>1, <2>2, <1>0, ArrivalKeeps, Zenon
<1>8. ASSUME NEW f \in Fibers, WaitKilled(f) PROVE Rounds(r)'
  <2>1. /\ Arrives(f) /\ st.arrived + 1 < target /\ signalled' = signalled
        /\ st' = [Arrival(f) EXCEPT !.arrived = @ + 1] /\ pc' = [pc EXCEPT ![f] = "deliver"]
    BY <1>8 DEF WaitKilled, StartKilled, Leave
  <2>2. \A g \in Fibers : g # f /\ woken[g] => woken'[g]
    BY <1>8, Zenon DEF WaitKilled, StartKilled, Leave, WakeAll
  <2> QED  BY <2>1, <2>2, <1>0, ArrivalKeeps, Zenon
<1>3. ASSUME NEW t \in Threads, WaitSleep(t) PROVE Rounds(r)'
  <2>1. /\ Arrives(t) /\ st.arrived + 1 < target /\ signalled' = signalled \ {t}
        /\ st' = [Arrival(t) EXCEPT !.arrived = @ + 1] /\ pc' = [pc EXCEPT ![t] = "asleep"]
        /\ woken' = woken
    BY <1>3 DEF WaitSleep, Sleep
  <2> QED  BY <2>1, <1>0, ArrivalKeeps, Zenon
<1>4. ASSUME NEW f \in Fibers, BarrierFiberStep(f) PROVE Rounds(r)'
  <2>0. pc[f] # "idle"
    BY <1>4 DEF BarrierFiberStep, FiberReturns, BarrierFiberKilled, BarrierFiberParks, Resumed
  <2>1. CASE FiberReturns(f)
    <3>1. \A g \in Fibers : g # f /\ woken[g] => woken'[g]
      BY <2>1, Zenon DEF FiberReturns, Leave, WakeAll
    <3>2. /\ Released(f) /\ st' = [st EXCEPT !.passed[f] = @ + 1]
          /\ pc' = [pc EXCEPT ![f] = "idle"] /\ signalled' = signalled
      BY <2>1 DEF FiberReturns, Leave
    <3> QED  BY <2>0, <3>1, <3>2, <1>0, ReturnKeeps, Zenon
  <2>2. CASE BarrierFiberKilled(f) \/ BarrierFiberParks(f)
    <3>1. PICK x \in {"parked", "deliver"} : pc' = [pc EXCEPT ![f] = x]
      BY <2>2 DEF BarrierFiberKilled, BarrierFiberParks, Park, Leave
    <3>2. \A g \in Fibers : g # f /\ woken[g] => woken'[g]
      BY <2>2, Zenon DEF BarrierFiberKilled, BarrierFiberParks, Park, Leave, WakeAll
    <3>3. st' = st /\ signalled' = signalled
      BY <2>2 DEF BarrierFiberKilled, BarrierFiberParks
    <3>4. st.arrivals[f] # r
      BY <2>0, <2>2, <1>0 DEF BarrierFiberKilled, BarrierFiberParks, Released, Rounds
    <3>5. \A b \in Actors : b # f => pc'[b] = pc[b]  BY <3>1 DEF WaitInv
    <3>6. pc'[f] = x /\ x # "idle" /\ x # "asleep"  BY <3>1, <1>0 DEF WaitInv
    <3>7. \A b \in Actors : (pc'[b] = "idle") <=> (pc[b] = "idle")
      BY <2>0, <3>5, <3>6
    <3>8. \A g \in Fibers : pc'[g] = "parked" /\ st.arrivals[g] = r => woken'[g]
      BY <3>2, <3>4, <3>5, <1>0 DEF Rounds
    <3>9. \A t \in Threads : pc'[t] = "asleep" /\ st.arrivals[t] = r => t \in signalled'
      BY <3>3, <3>5, <3>6, <1>0 DEF Rounds
    <3> QED  BY <3>3, <3>7, <3>8, <3>9, StayKeeps
  <2> QED  BY <1>4, <2>1, <2>2 DEF BarrierFiberStep
<1>5. ASSUME NEW t \in Threads, BarrierThreadStep(t) PROVE Rounds(r)'
  <2>1. /\ Released(t) /\ st' = [st EXCEPT !.passed[t] = @ + 1] /\ pc[t] # "idle"
        /\ pc' = [pc EXCEPT ![t] = "idle"] /\ signalled' = signalled \ {t} /\ woken' = woken
    BY <1>5 DEF BarrierThreadStep, ThreadReturns, Roused
  <2> QED  BY <2>1, <1>0, ReturnKeeps, Zenon
<1>6. CASE Surroundings /\ UNCHANGED st
  <2>1. signalled' = signalled
    BY <1>6 DEF Surroundings, FiberSurroundings, DeadlinePasses, Kill, TimerFires, KillUnwinds,
                KillDeferred
  <2>2. \A f \in Fibers : woken[f] => woken'[f]
    BY <1>6 DEF Surroundings, FiberSurroundings, DeadlinePasses, Kill, TimerFires, KillUnwinds,
                KillDeferred, WaitInv, fwTypeOK
  <2>3. \A a \in Actors : /\ (pc'[a] = "idle") <=> (pc[a] = "idle")
                          /\ pc'[a] = "asleep" => pc[a] = "asleep"
                          /\ pc'[a] = "parked" => pc[a] = "parked"
    BY <1>6, <1>0 DEF Surroundings, FiberSurroundings, DeadlinePasses, Kill, TimerFires, KillUnwinds,
                KillDeferred, WaitInv
  <2>4. \A f \in Fibers : pc'[f] = "parked" /\ st.arrivals[f] = r => woken'[f]
    BY <2>2, <2>3, <1>0 DEF Rounds
  <2>5. \A t \in Threads : pc'[t] = "asleep" /\ st.arrivals[t] = r => t \in signalled'
    BY <2>1, <2>3, <1>0 DEF Rounds
  <2> QED  BY <1>6, <2>3, <2>4, <2>5, StayKeeps
<1>7. CASE UNCHANGED meetVars
  BY <1>7, StayKeeps DEF meetVars, fwVars, Rounds
<1> QED  BY <1>0, <1>1, <1>2, <1>3, <1>4, <1>5, <1>6, <1>7, <1>8 DEF BarrierNext

(* The barrier of xtc_barrier_wait, for any number of parties that meet any number of
   times, some of which may be killed while they wait, whatever the width of the wrapping
   generation above one bit: nobody passes before everybody has arrived for the round, a
   party whose round is complete has been released and woken, however many rounds the
   others have gone on since, and no waiter outlives its wait. *)
THEOREM BarrierSafe ==
  ASSUME IsFiniteSet(Actors), Actors # {}, GenWrap \in Nat, GenWrap > 1
  PROVE  BarrierSpec => [](NobodyAhead /\ PartiesLetGo /\ NoWaiterLeft)
<1>1. BarrierInit => BarrierInv  BY BarrierInvInit
<1>2. BarrierInv /\ [BarrierNext]_meetVars => BarrierInv'
  <2> SUFFICES ASSUME BarrierInv, [BarrierNext]_meetVars PROVE BarrierInv'  OBVIOUS
  <2>1. WaitInv /\ BarrierWords /\ BarrierPlaces  BY DEF BarrierInv
  <2>2. PICK r \in Nat : Rounds(r)  BY DEF BarrierInv
  <2>3. \E n \in Nat : Rounds(n)'  BY <2>1, <2>2, RoundsStep
  <2> QED  BY <2>1, <2>3, BarrierWordsStep, BarrierWaitStep, BarrierPlacesStep DEF BarrierInv
<1>3. BarrierInv => NobodyAhead /\ PartiesLetGo /\ NoWaiterLeft
  <2> SUFFICES ASSUME BarrierInv PROVE NobodyAhead /\ PartiesLetGo /\ NoWaiterLeft  OBVIOUS
  <2>1. PICK r \in Nat : Rounds(r)  BY DEF BarrierInv
  <2>2. NobodyAhead
    <3>1. \A a \in Actors : st.passed[a] <= r /\ st.passed[a] \in Nat
      BY <2>1 DEF Rounds, BarrierInv, BarrierWords
    <3>2. \A a \in Actors : st.arrivals[a] >= r /\ st.arrivals[a] \in Nat
      BY <2>1 DEF Rounds
    <3> QED  BY <3>1, <3>2 DEF NobodyAhead
  <2>3. ASSUME NEW a \in Actors, pc[a] \in Waiting,
               \A b \in Actors : st.arrivals[b] >= st.arrivals[a]
        PROVE  /\ Released(a)
               /\ pc[a] = "parked" => woken[a]
               /\ pc[a] = "asleep" => Roused(a)
    <3>1. st.arrivals[a] = r
      <4> SUFFICES ASSUME st.arrivals[a] = r + 1 PROVE FALSE  BY <2>1 DEF Rounds
      <4>1. \A b \in Actors : st.arrivals[b] = r + 1  BY <2>1, <2>3 DEF Rounds
      <4>2. Ahead(r) = Actors  BY <4>1 DEF Ahead
      <4>3. st.arrived = target /\ target \in Nat
        BY <2>1, <4>2, FS_CardinalityType DEF Rounds, target
      <4> QED  BY <2>1, <4>3 DEF Rounds
    <3>2. pc[a] # "idle"  BY <2>3 DEF Waiting
    <3>3. pc[a] = "parked" => a \in Fibers
      BY DEF BarrierInv, BarrierPlaces, WaitInv, Queue, Range
    <3>4. pc[a] = "asleep" => a \in Threads  BY DEF BarrierInv, BarrierPlaces
    <3> QED  BY <2>1, <3>1, <3>2, <3>3, <3>4 DEF Rounds, Released, Roused
  <2>4. PartiesLetGo  BY <2>3 DEF PartiesLetGo
  <2> QED  BY <2>2, <2>4, WaitInvImplies DEF BarrierInv
<1> QED  BY <1>1, <1>2, <1>3, PTL DEF BarrierSpec

----------------------------------------------------------------------------
----------------------------------------------------------------------------
(* The notify. *)

NotifySpec == NotifyInit /\ [][NotifyNext]_meetVars

(* The fields of a notify. *)
NotifyFields(n) ==
  /\ n = [stored |-> n.stored, granted |-> n.granted, sent |-> n.sent, taken |-> n.taken,
          merged |-> n.merged]
  /\ n.stored \in BOOLEAN /\ n.granted \subseteq Fibers
  /\ n.sent \in Nat /\ n.taken \in Nat /\ n.merged \in Nat

One(b) == IF b THEN 1 ELSE 0

(* Every signal is accounted for, and a fiber that was handed one is parked and off the
   queue. *)
NotifyWords ==
  /\ NotifyFields(st)
  /\ st.sent = st.taken + st.merged + Cardinality(st.granted) + One(st.stored)
  /\ \A f \in st.granted : pc[f] = "parked" /\ f \notin Range(wq)

NotifyInv == WaitInv /\ NotifyWords /\ StoredIsSeen

LEMMA NotifyInvInit ==
  ASSUME NotifyInit
  PROVE  NotifyInv
<1>1. WaitInv  BY WaitInvInit DEF NotifyInit
<1>2. NotifyWords
  <2>1. NotifyFields(st) /\ st.granted = {} /\ ~st.stored
        /\ st.sent = 0 /\ st.taken = 0 /\ st.merged = 0
    BY DEF NotifyInit, NotifyFields
  <2> QED  BY <2>1, FS_EmptySet DEF NotifyWords, One
<1>3. StoredIsSeen  BY DEF StoredIsSeen, NotifyInit
<1> QED  BY <1>1, <1>2, <1>3 DEF NotifyInv

(* What notify_give_locked does to the queue, the wakers and the threads. *)
Given(q, a, n) ==
  \/ /\ q = <<>> /\ wq' = <<>> /\ st'.granted = n.granted \ {a}
     /\ signalled' = signalled \cup {t \in Threads : pc[t] = "asleep"}
     /\ WakeAll({}, a)
  \/ /\ q # <<>> /\ wq' = Tail(q) /\ st'.granted = (n.granted \ {a}) \cup {Head(q)}
     /\ st'.stored = n.stored /\ signalled' = signalled
     /\ WakeAll({Head(q)}, a)

(* notify_give_locked accounts for one signal more than it finds. *)
LEMMA Give ==
  ASSUME IsFiniteSet(Fibers), NEW q, Queue(q), NEW a, NEW n, NotifyFields(n),
         Range(q) \cap n.granted = {}, notify_give_locked(q, a, n)
  PROVE  /\ NotifyFields(st') /\ st'.sent = n.sent /\ st'.taken = n.taken
         /\ st'.merged + Cardinality(st'.granted) + One(st'.stored)
              = n.merged + Cardinality(n.granted \ {a}) + One(n.stored) + 1
         /\ Given(q, a, n)
<1>0. /\ IsFiniteSet(n.granted \ {a}) /\ Cardinality(n.granted \ {a}) \in Nat
  BY FS_Subset, FS_CardinalityType DEF NotifyFields
<1>1. CASE q = <<>>
  <2>1. /\ st'.stored /\ st'.stored \in BOOLEAN /\ st'.granted = n.granted \ {a}
        /\ st'.merged = (IF n.stored THEN n.merged + 1 ELSE n.merged)
        /\ st'.sent = n.sent /\ st'.taken = n.taken
        /\ st' = [stored |-> st'.stored, granted |-> st'.granted, sent |-> st'.sent,
                  taken |-> st'.taken, merged |-> st'.merged]
    BY <1>1, Zenon DEF notify_give_locked, NotifyFields
  <2>2. /\ signalled' = signalled \cup {t \in Threads : pc[t] = "asleep"}
        /\ WakeAll({}, a) /\ wq' = <<>>
    BY <1>1 DEF notify_give_locked
  <2>3. NotifyFields(st')
    BY <2>1 DEF NotifyFields
  <2>4. st'.merged + One(st'.stored) = n.merged + One(n.stored) + 1
    BY <2>1 DEF One, NotifyFields
  <2>5. st'.merged \in Nat /\ One(st'.stored) \in Nat /\ n.merged \in Nat /\ One(n.stored) \in Nat
    BY <2>1 DEF One, NotifyFields
  <2>6. st'.merged + Cardinality(st'.granted) + One(st'.stored)
          = n.merged + Cardinality(n.granted \ {a}) + One(n.stored) + 1
    <3>1. Cardinality(st'.granted) = Cardinality(n.granted \ {a})  BY <2>1
    <3> QED  BY <1>0, <2>4, <2>5, <3>1
  <2> QED  BY <1>1, <2>1, <2>2, <2>3, <2>6, Zenon DEF Given
<1>2. CASE q # <<>>
  <2>1. /\ st'.stored = n.stored /\ st'.granted = (n.granted \ {a}) \cup {Head(q)}
        /\ st'.merged = n.merged
        /\ st'.sent = n.sent /\ st'.taken = n.taken
        /\ st' = [stored |-> st'.stored, granted |-> st'.granted, sent |-> st'.sent,
                  taken |-> st'.taken, merged |-> st'.merged]
    BY <1>2 DEF notify_give_locked, NotifyFields
  <2>2. wq' = Tail(q) /\ signalled' = signalled /\ WakeAll({Head(q)}, a)
    BY <1>2 DEF notify_give_locked
  <2>3. Head(q) \in Fibers /\ Head(q) \notin n.granted  BY <1>2, TailQueue
  <2>4. Cardinality(st'.granted) = Cardinality(n.granted \ {a}) + 1
    BY <1>0, <2>1, <2>3, CardPlus
  <2>5. NotifyFields(st')  BY <2>1, <2>3 DEF NotifyFields
  <2>6. One(n.stored) \in Nat /\ One(st'.stored) = One(n.stored) /\ n.merged \in Nat
    BY <2>1 DEF One, NotifyFields
  <2>7. st'.merged + Cardinality(st'.granted) + One(st'.stored)
          = n.merged + Cardinality(n.granted \ {a}) + One(n.stored) + 1
    <3>1. st'.merged = n.merged  BY <2>1
    <3> QED  BY <1>0, <2>4, <2>6, <3>1
  <2> QED  BY <1>2, <2>1, <2>2, <2>5, <2>7 DEF Given
<1> QED  BY <1>1, <1>2

(* The queue once f has left it. *)
LEMMA NotifyQueue ==
  ASSUME WaitInv, NotifyWords, NEW f
  PROVE  /\ Queue(fw_remove(wq, f)) /\ Range(fw_remove(wq, f)) = Range(wq) \ {f}
         /\ Range(wq) \cap st.granted = {}
         /\ f \in st.granted => fw_remove(wq, f) = wq
  BY RemoveQueue, Zenon DEF WaitInv, NotifyWords, fw_remove

(* Who was handed a signal stays parked, off the queue. *)
LEMMA GrantedStep ==
  ASSUME WaitInv, NotifyWords, st'.granted \subseteq st.granted,
         Range(wq') \cap st'.granted = {},
         \A f \in st'.granted : pc'[f] = pc[f], NotifyFields(st'),
         st'.sent = st'.taken + st'.merged + Cardinality(st'.granted) + One(st'.stored)
  PROVE  NotifyWords'
  BY DEF NotifyWords

LEMMA SignalStep ==
  ASSUME IsFiniteSet(Fibers), "signaler" \notin Fibers, NotifyInv, Signal("signaler")
  PROVE  NotifyInv'
<1> DEFINE n == [st EXCEPT !.sent = @ + 1]
<1>1. NotifyFields(n) /\ n.sent = st.sent + 1 /\ n.taken = st.taken /\ n.merged = st.merged
      /\ n.granted = st.granted /\ n.stored = st.stored
  BY DEF NotifyInv, NotifyWords, NotifyFields
<1>2. notify_give_locked(wq, "signaler", n) /\ UNCHANGED <<pc, timer, expired, killed, masked>>
  BY DEF Signal
<1> HIDE DEF n
<1>3. WaitInv /\ NotifyWords /\ Queue(wq) /\ Range(wq) \cap n.granted = {}
  BY <1>1, NotifyQueue DEF NotifyInv, WaitInv
<1>4. n.granted \ {"signaler"} = st.granted
  BY <1>1, <1>3 DEF NotifyWords, NotifyFields
<1>a. /\ NotifyFields(st') /\ st'.sent = n.sent /\ st'.taken = n.taken
      /\ st'.merged + Cardinality(st'.granted) + One(st'.stored)
           = n.merged + Cardinality(n.granted \ {"signaler"}) + One(n.stored) + 1
      /\ Given(wq, "signaler", n)
  BY <1>1, <1>2, <1>3, Give
<1>b. /\ NotifyFields(st') /\ st'.sent = st.sent + 1 /\ st'.taken = st.taken
      /\ st'.merged + Cardinality(st'.granted) + One(st'.stored)
           = st.merged + Cardinality(st.granted) + One(st.stored) + 1
  BY <1>a, <1>1, <1>4
<1>5. /\ NotifyFields(st') /\ st'.sent = st.sent + 1 /\ st'.taken = st.taken
      /\ st'.merged + Cardinality(st'.granted) + One(st'.stored)
           = st.merged + Cardinality(st.granted) + One(st.stored) + 1
      /\ \/ /\ wq = <<>> /\ wq' = <<>> /\ st'.granted = st.granted
            /\ signalled' = signalled \cup {t \in Threads : pc[t] = "asleep"}
            /\ WakeAll({}, "signaler")
         \/ /\ wq # <<>> /\ wq' = Tail(wq) /\ st'.granted = st.granted \cup {Head(wq)}
            /\ st'.stored = st.stored /\ signalled' = signalled
            /\ WakeAll({Head(wq)}, "signaler")
  BY <1>a, <1>b, <1>1, <1>4, Zenon DEF Given
<1>6. st.granted \subseteq Fibers /\ st'.granted \subseteq Fibers
  BY <1>3, <1>5 DEF NotifyWords, NotifyFields
<1>7. /\ Cardinality(st.granted) \in Nat /\ Cardinality(st'.granted) \in Nat
      /\ One(st.stored) \in Nat /\ One(st'.stored) \in Nat
  BY <1>6, FS_Subset, FS_CardinalityType DEF One
<1>8. st'.sent = st'.taken + st'.merged + Cardinality(st'.granted) + One(st'.stored)
  <2>1. /\ st.sent = st.taken + st.merged + Cardinality(st.granted) + One(st.stored)
        /\ st.taken \in Nat /\ st.merged \in Nat /\ st'.merged \in Nat
    BY <1>3, <1>5 DEF NotifyWords, NotifyFields
  <2> QED  BY <1>b, <1>7, <2>1
<1>9. WordsOK'  BY <1>2, <1>3, <1>5 DEF WordsOK, WaitInv, fwTypeOK
<1>10. CASE wq = <<>>
  <2>1. woken' \in [Fibers -> BOOLEAN]  BY <1>3, <1>5, <1>10, WakeAllType
  <2>2. WaitInv'  BY <1>2, <1>3, <1>5, <1>9, <1>10, <2>1, RestKeeps
  <2>3. NotifyWords'
    BY <1>2, <1>3, <1>5, <1>8, <1>10 DEF NotifyWords
  <2>4. StoredIsSeen'  BY <1>2, <1>5, <1>10 DEF StoredIsSeen, Roused
  <2> QED  BY <2>2, <2>3, <2>4 DEF NotifyInv
<1>11. CASE wq # <<>>
  <2>0. Queue(Tail(wq)) /\ Range(Tail(wq)) = Range(wq) \ {Head(wq)} /\ Head(wq) \in Range(wq)
    BY <1>3, <1>11, TailQueue
  <2>1. woken' \in [Fibers -> BOOLEAN]  BY <1>3, <1>5, <1>11, WakeAllType
  <2>2. WaitInv'  BY <1>2, <1>3, <1>5, <1>9, <1>11, <2>0, <2>1, RestKeeps, Zenon
  <2>3. \A f \in st'.granted : pc'[f] = "parked" /\ f \notin Range(wq')
    BY <1>2, <1>3, <1>5, <1>11, <2>0, Zenon DEF NotifyWords, WaitInv
  <2>4. NotifyWords'  BY <1>5, <1>8, <2>3 DEF NotifyWords
  <2>5. ~st.stored  BY <1>11 DEF NotifyInv, StoredIsSeen
  <2>6. StoredIsSeen'  BY <1>5, <1>11, <2>5, Zenon DEF StoredIsSeen
  <2> QED  BY <2>2, <2>4, <2>6 DEF NotifyInv
<1> QED  BY <1>10, <1>11

LEMMA Rebalanced ==
  ASSUME NEW taken \in Nat, NEW merged \in Nat, NEW granted \in Nat, NEW stored \in Nat,
         NEW merged2 \in Nat, NEW granted2 \in Nat, NEW stored2 \in Nat, NEW rest,
         rest = granted - 1, merged2 + granted2 + stored2 = merged + rest + stored + 1
  PROVE  taken + merged + granted + stored = taken + merged2 + granted2 + stored2
OBVIOUS

LEMMA OneTaken ==
  ASSUME NEW taken \in Nat, NEW merged \in Nat, NEW granted \in Nat, NEW stored \in Nat,
         NEW granted2 \in Nat, NEW stored2 \in Nat, granted2 + stored2 + 1 = granted + stored
  PROVE  taken + merged + granted + stored = (taken + 1) + merged + granted2 + stored2
OBVIOUS

(* A killed fiber that was handed a signal hands it on. *)
LEMMA KilledStep ==
  ASSUME IsFiniteSet(Fibers), NotifyInv, NEW f \in Fibers, NotifyFiberKilled(f)
  PROVE  NotifyInv'
<1> DEFINE q == fw_remove(wq, f)
<1>0. /\ WaitInv /\ NotifyWords /\ StoredIsSeen /\ f \in Actors
      /\ Threads \subseteq Actors /\ Fibers \subseteq Actors
  BY DEF NotifyInv, Actors
<1>1. /\ Queue(q) /\ Range(q) = Range(wq) \ {f} /\ Range(wq) \cap st.granted = {}
      /\ f \in st.granted => q = wq
  BY <1>0, NotifyQueue
<1>2. /\ pc' = [pc EXCEPT ![f] = "deliver"] /\ timer' = timer \ {f}
      /\ UNCHANGED <<expired, killed, masked>>
  BY DEF NotifyFiberKilled
<1>3. wq = <<>> => q = <<>>  BY DEF fw_remove, Range
<1>a. \A t \in Actors : (pc'[t] = "asleep" => pc[t] = "asleep") /\ (t # f => pc'[t] = pc[t])
  BY <1>0, <1>2 DEF WaitInv
<1>4. CASE f \in st.granted
  <2>0. q = wq /\ notify_give_locked(q, f, st)
    BY <1>1, <1>4 DEF NotifyFiberKilled
  <2> HIDE DEF q
  <2>1. NotifyFields(st) /\ Range(q) \cap st.granted = {}
    BY <1>0, <1>1, <2>0 DEF NotifyWords
  <2>2. /\ NotifyFields(st') /\ st'.sent = st.sent /\ st'.taken = st.taken
        /\ st'.merged + Cardinality(st'.granted) + One(st'.stored)
             = st.merged + Cardinality(st.granted \ {f}) + One(st.stored) + 1
        /\ Given(q, f, st)
    BY <1>1, <2>0, <2>1, Give
  <2>3. /\ IsFiniteSet(st.granted) /\ Cardinality(st.granted) \in Nat
        /\ Cardinality(st'.granted) \in Nat /\ One(st.stored) \in Nat /\ One(st'.stored) \in Nat
        /\ st.taken \in Nat /\ st.merged \in Nat /\ st'.merged \in Nat
    BY <2>1, <2>2, FS_Subset, FS_CardinalityType DEF NotifyFields, One
  <2>4. /\ Cardinality(st.granted \ {f}) = Cardinality(st.granted) - 1
        /\ Cardinality(st.granted \ {f}) \in Nat
    BY <1>4, <2>3, CardMinus, ZenonT(60)
  <2>5. st.sent = st.taken + st.merged + Cardinality(st.granted) + One(st.stored)
    BY <1>0 DEF NotifyWords
  <2>6. st'.sent = st'.taken + st'.merged + Cardinality(st'.granted) + One(st'.stored)
    <3>1. /\ st'.merged + Cardinality(st'.granted) + One(st'.stored)
             = st.merged + Cardinality(st.granted \ {f}) + One(st.stored) + 1
          /\ st'.sent = st.sent /\ st'.taken = st.taken
      BY <2>2
    <3>2. /\ st.taken \in Nat /\ st.merged \in Nat /\ st'.merged \in Nat
          /\ Cardinality(st.granted) \in Nat /\ Cardinality(st'.granted) \in Nat
          /\ One(st.stored) \in Nat /\ One(st'.stored) \in Nat
      BY <2>3
    <3> QED  BY <2>4, <2>5, <3>1, <3>2, Rebalanced
  <2>7. signalled' \subseteq Threads  BY <1>0, <2>2 DEF Given, WaitInv, fwTypeOK
  <2>8. WordsOK'  BY <1>0, <1>2, <2>7, SameWords
  <2>9. woken' \in [Fibers -> BOOLEAN]  BY <1>0, <2>2, WakeAllType DEF Given
  <2>10. f \notin Range(wq)  BY <1>1, <1>4
  <2>11. CASE q = <<>>
    <3>1. /\ wq' = <<>> /\ st'.granted = st.granted \ {f}
          /\ signalled' = signalled \cup {t \in Threads : pc[t] = "asleep"}
      BY <2>2, <2>11 DEF Given
    <3>2. Queue(wq') /\ Range(wq') = {}  BY <3>1, <1>1, <2>11 DEF Range
    <3>3. WaitInv'  BY <1>0, <1>2, <2>8, <2>9, <3>2, MoveKeeps, ZenonT(60) DEF Places
    <3>4. NotifyWords'  BY <1>0, <1>a, <2>2, <2>6, <3>1, <3>2 DEF NotifyWords, NotifyFields
    <3>5. StoredIsSeen'  BY <1>0, <1>a, <3>1 DEF StoredIsSeen, Roused
    <3> QED  BY <3>3, <3>4, <3>5 DEF NotifyInv
  <2>12. CASE q # <<>>
    <3>1. wq' = Tail(wq) /\ st'.granted = (st.granted \ {f}) \cup {Head(wq)} /\ st'.stored = st.stored
      BY <2>0, <2>2, <2>12 DEF Given
    <3>2. /\ Queue(wq') /\ Range(wq') = Range(wq) \ {Head(wq)} /\ Head(wq) \in Range(wq)
          /\ Head(wq) \in Fibers
      BY <1>1, <2>0, <2>12, <3>1, TailQueue
    <3>3. WaitInv'  BY <1>0, <1>2, <2>8, <2>9, <2>10, <3>2, MoveKeeps, Zenon DEF Places
    <3>4. \A g \in st'.granted : pc'[g] = "parked" /\ g \notin Range(wq')
      BY <1>0, <1>a, <1>1, <2>10, <3>1, <3>2 DEF NotifyWords, NotifyFields, WaitInv
    <3>5. NotifyWords'  BY <2>2, <2>6, <3>4 DEF NotifyWords
    <3>6. StoredIsSeen'  BY <1>0, <2>0, <2>12, <3>1 DEF StoredIsSeen
    <3> QED  BY <3>3, <3>5, <3>6 DEF NotifyInv
  <2> QED  BY <2>11, <2>12
<1>5. CASE f \notin st.granted
  <2>1. wq' = q /\ WakeAll({}, f) /\ UNCHANGED <<st, signalled>>
    BY <1>5 DEF NotifyFiberKilled
  <2>2. Leave(f, fw_remove(wq, f), {}, "deliver") /\ signalled' \subseteq Threads
    BY <1>0, <1>2, <2>1 DEF Leave, WaitInv, fwTypeOK
  <2>3. WaitInv'  BY <1>0, <1>2, <2>2, LeavesQueue DEF Places
  <2> HIDE DEF q
  <2>4. NotifyWords'
    <3>1. \A g \in st.granted : pc'[g] = "parked" /\ g \notin Range(wq')
      BY <1>0, <1>1, <1>5, <1>a, <2>1 DEF NotifyWords, NotifyFields
    <3> QED  BY <1>0, <2>1, <3>1 DEF NotifyWords
  <2>5. StoredIsSeen'
    BY <1>0, <1>2, <1>3, <1>a, <2>1 DEF StoredIsSeen, Roused
  <2> QED  BY <2>3, <2>4, <2>5 DEF NotifyInv
<1> QED  BY <1>4, <1>5

(* The other steps take the stored signal, take one that was handed over, or take none. *)
Takes ==
  \/ TakeStored
  \/ \E f \in st.granted : st' = [st EXCEPT !.granted = @ \ {f}, !.taken = @ + 1]
  \/ UNCHANGED st

LEMMA TakesStep ==
  ASSUME IsFiniteSet(Fibers), NotifyInv, Takes
  PROVE  /\ NotifyFields(st') /\ st'.granted \subseteq st.granted
         /\ st'.sent = st'.taken + st'.merged + Cardinality(st'.granted) + One(st'.stored)
         /\ st'.stored => st.stored
<1>0. /\ NotifyFields(st) /\ IsFiniteSet(st.granted) /\ Cardinality(st.granted) \in Nat
      /\ st.sent = st.taken + st.merged + Cardinality(st.granted) + One(st.stored)
  BY FS_Subset, FS_CardinalityType DEF NotifyInv, NotifyWords, NotifyFields
<1>1. CASE TakeStored
  <2>1. /\ ~st'.stored /\ st'.stored \in BOOLEAN /\ st.stored /\ st'.taken = st.taken + 1
        /\ st'.granted = st.granted /\ st'.sent = st.sent /\ st'.merged = st.merged
        /\ st' = [stored |-> st'.stored, granted |-> st'.granted, sent |-> st'.sent,
                  taken |-> st'.taken, merged |-> st'.merged]
    BY <1>0, <1>1, Zenon DEF TakeStored, NotifyFields
  <2>2. NotifyFields(st')
    <3>1. st.granted \subseteq Fibers /\ st.taken \in Nat /\ st.sent \in Nat /\ st.merged \in Nat
      BY <1>0 DEF NotifyFields
    <3>2. /\ st'.stored \in BOOLEAN /\ st'.granted \subseteq Fibers
          /\ st'.sent \in Nat /\ st'.taken \in Nat /\ st'.merged \in Nat
      BY <2>1, <3>1
    <3> QED  BY <2>1, <3>2, Zenon DEF NotifyFields
  <2>3. One(st.stored) = 1 /\ One(st'.stored) = 0  BY <2>1 DEF One
  <2>5. Cardinality(st'.granted) = Cardinality(st.granted)  BY <2>1
  <2>4. st'.sent = st'.taken + st'.merged + Cardinality(st'.granted) + One(st'.stored)
    <3>1. /\ st.taken \in Nat /\ st.merged \in Nat /\ Cardinality(st.granted) \in Nat
          /\ Cardinality(st'.granted) \in Nat /\ One(st.stored) \in Nat /\ One(st'.stored) \in Nat
      BY <1>0, <2>3, <2>5 DEF NotifyFields
    <3>2. Cardinality(st'.granted) + One(st'.stored) + 1 = Cardinality(st.granted) + One(st.stored)
      BY <2>3, <2>5, <3>1
    <3>3. /\ st.sent = st.taken + st.merged + Cardinality(st.granted) + One(st.stored)
          /\ st'.sent = st.sent /\ st'.taken = st.taken + 1 /\ st'.merged = st.merged
      BY <1>0, <2>1, Zenon
    <3> QED  BY <3>1, <3>2, <3>3, OneTaken
  <2> QED  BY <2>1, <2>2, <2>4
<1>2. CASE \E f \in st.granted : st' = [st EXCEPT !.granted = @ \ {f}, !.taken = @ + 1]
  <2>0. PICK f \in st.granted : st' = [st EXCEPT !.granted = @ \ {f}, !.taken = @ + 1]
    BY <1>2, Zenon
  <2>1. /\ st'.stored = st.stored /\ st'.taken = st.taken + 1
        /\ st'.granted = st.granted \ {f} /\ st'.sent = st.sent /\ st'.merged = st.merged
        /\ st' = [stored |-> st'.stored, granted |-> st'.granted, sent |-> st'.sent,
                  taken |-> st'.taken, merged |-> st'.merged]
    BY <1>0, <2>0, Zenon DEF NotifyFields
  <2>2. NotifyFields(st')
    <3>1. /\ st.granted \subseteq Fibers /\ st.taken \in Nat /\ st.sent \in Nat /\ st.merged \in Nat
          /\ st.stored \in BOOLEAN
      BY <1>0 DEF NotifyFields
    <3>2. /\ st'.stored \in BOOLEAN /\ st'.granted \subseteq Fibers
          /\ st'.sent \in Nat /\ st'.taken \in Nat /\ st'.merged \in Nat
      BY <2>1, <3>1
    <3> QED  BY <2>1, <3>2, Zenon DEF NotifyFields
  <2>3. Cardinality(st'.granted) = Cardinality(st.granted) - 1 /\ One(st'.stored) = One(st.stored)
        /\ One(st.stored) \in Nat
    BY <1>0, <2>1, CardMinus, Zenon DEF One
  <2>4. st'.sent = st'.taken + st'.merged + Cardinality(st'.granted) + One(st'.stored)
    <3>1. /\ st.taken \in Nat /\ st.merged \in Nat /\ Cardinality(st.granted) \in Nat
          /\ Cardinality(st'.granted) \in Nat /\ One(st.stored) \in Nat /\ One(st'.stored) \in Nat
      BY <1>0, <2>1, <2>3, CardMinus, Zenon DEF NotifyFields
    <3>2. Cardinality(st'.granted) + One(st'.stored) + 1 = Cardinality(st.granted) + One(st.stored)
      BY <2>1, <2>3, <3>1
    <3>3. /\ st.sent = st.taken + st.merged + Cardinality(st.granted) + One(st.stored)
          /\ st'.sent = st.sent /\ st'.taken = st.taken + 1 /\ st'.merged = st.merged
      BY <1>0, <2>1
    <3> QED  BY <3>1, <3>2, <3>3, OneTaken
  <2> QED  BY <2>1, <2>2, <2>4
<1>3. CASE UNCHANGED st  BY <1>0, <1>3
<1> QED  BY <1>1, <1>2, <1>3, Zenon DEF Takes

LEMMA NotifyFiberStepKeeps ==
  ASSUME IsFiniteSet(Fibers), NotifyInv, NEW f \in Fibers,
         NotifyWaitPark(f) \/ NotifyWaitKilled(f) \/ NotifyFiberStep(f)
  PROVE  NotifyInv'
<1>0. /\ WaitInv /\ NotifyWords /\ StoredIsSeen /\ f \in Actors
      /\ Threads \subseteq Actors /\ Fibers \subseteq Actors
  BY DEF NotifyInv, Actors
<1>1. CASE NotifyFiberKilled(f)  BY <1>1, KilledStep
<1>2. CASE NotifyFiberGranted(f) \/ NotifyFiberStored(f) \/ NotifyFiberTimesOut(f)
  <2>1. /\ Leave(f, fw_remove(wq, f), {}, "idle")
        /\ UNCHANGED <<expired, killed, masked, signalled>> /\ signalled' \subseteq Threads
    BY <1>0, <1>2
       DEF NotifyFiberGranted, NotifyFiberStored, NotifyFiberTimesOut, WaitInv, fwTypeOK
  <2>2. WaitInv'  BY <1>0, <2>1, LeavesQueue DEF Places
  <2>3. /\ NotifyFields(st') /\ st'.granted \subseteq st.granted
        /\ st'.sent = st'.taken + st'.merged + Cardinality(st'.granted) + One(st'.stored)
        /\ st'.stored => st.stored
    BY <1>2, TakesStep, Zenon DEF Takes, NotifyFiberGranted, NotifyFiberStored, NotifyFiberTimesOut
  <2>4. f \notin st'.granted
    <3>1. CASE NotifyFiberGranted(f)
      BY <1>0, <3>1 DEF NotifyFiberGranted, NotifyWords, NotifyFields
    <3>2. CASE NotifyFiberStored(f) \/ NotifyFiberTimesOut(f)
      BY <2>3, <3>2 DEF NotifyFiberStored, NotifyFiberTimesOut
    <3> QED  BY <1>2, <3>1, <3>2
  <2>5. wq' = fw_remove(wq, f) /\ Range(wq') = Range(wq) \ {f} /\ Range(wq) \cap st.granted = {}
    BY <1>0, <2>1, NotifyQueue DEF Leave
  <2>6. \A g \in Actors : (g # f => pc'[g] = pc[g]) /\ (pc'[g] = "asleep" => pc[g] = "asleep")
    BY <1>0, <2>1 DEF Leave, WaitInv
  <2>7. NotifyWords'
    BY <1>0, <2>3, <2>4, <2>5, <2>6, GrantedStep DEF NotifyWords, NotifyFields
  <2>8. wq = <<>> => wq' = <<>>  BY <2>5 DEF fw_remove, Range
  <2>9. StoredIsSeen'  BY <1>0, <2>1, <2>3, <2>6, <2>8, ZenonT(60) DEF StoredIsSeen, Roused
  <2> QED  BY <2>2, <2>7, <2>9 DEF NotifyInv
<1>3. CASE NotifyWaitPark(f) \/ NotifyFiberParks(f)
  <2>1. WaitInv'
    BY <1>0, <1>3, StartsParking, ParksAgain, Zenon DEF NotifyWaitPark, NotifyFiberParks
  <2>2. Park(f, wq, {}) /\ UNCHANGED st /\ ~st.stored
    BY <1>3 DEF NotifyWaitPark, StartPark, NotifyFiberParks
  <2>3. f \notin st.granted
    BY <1>0, <1>3 DEF NotifyWaitPark, NotifyFiberParks, NotifyWords
  <2>4. Range(wq') = Range(wq) \cup {f} /\ pc' = [pc EXCEPT ![f] = "parked"]
    BY <1>0, <2>2, EnqueueQueue DEF Park, WaitInv
  <2>5. \A g \in st.granted : pc'[g] = "parked" /\ g \notin Range(wq')
    BY <1>0, <2>3, <2>4 DEF NotifyWords, NotifyFields, WaitInv
  <2>6. NotifyWords'  BY <1>0, <2>2, <2>5 DEF NotifyWords
  <2>7. StoredIsSeen'  BY <2>2 DEF StoredIsSeen
  <2> QED  BY <2>1, <2>6, <2>7 DEF NotifyInv
<1>4. CASE NotifyWaitKilled(f)
  <2>1. WaitInv'  BY <1>0, <1>4, StartsDying DEF NotifyWaitKilled
  <2>2. /\ UNCHANGED st /\ ~st.stored /\ wq' = wq /\ pc' = [pc EXCEPT ![f] = "deliver"]
        /\ pc[f] = "idle"
    BY <1>4 DEF NotifyWaitKilled, StartKilled, Leave
  <2>3. \A g \in st.granted : pc'[g] = "parked" /\ g \notin Range(wq')
    BY <1>0, <2>2 DEF NotifyWords, NotifyFields, WaitInv
  <2>4. NotifyWords'  BY <1>0, <2>2, <2>3 DEF NotifyWords
  <2>5. StoredIsSeen'  BY <2>2 DEF StoredIsSeen
  <2> QED  BY <2>1, <2>4, <2>5 DEF NotifyInv
<1> QED  BY <1>1, <1>2, <1>3, <1>4 DEF NotifyFiberStep

LEMMA NotifyThreadStepKeeps ==
  ASSUME IsFiniteSet(Fibers), NotifyInv, NEW t \in Threads, NotifyThreadStep(t)
  PROVE  NotifyInv'
<1>0. /\ WaitInv /\ NotifyWords /\ StoredIsSeen /\ t \in Actors
      /\ Threads \subseteq Actors /\ Fibers \subseteq Actors
  BY DEF NotifyInv, Actors
<1>1. WordsOK'
  BY <1>0, Zenon DEF NotifyThreadStep, NotifyThreadSpins, NotifyThreadSleeps, Sleep, NotifyThreadTakes,
              NotifyThreadTimesOut, WaitInv, fwTypeOK, WordsOK
<1>2. PICK x \in {"idle", "spin", "asleep"} : pc' = [pc EXCEPT ![t] = x]
  BY DEF NotifyThreadStep, NotifyThreadSpins, NotifyThreadSleeps, Sleep, NotifyThreadTakes,
         NotifyThreadTimesOut
<1>3. pc[t] # "parked" /\ UNCHANGED <<wq, woken, timer>>
  BY DEF NotifyThreadStep, NotifyThreadSpins, NotifyThreadSleeps, NotifyThreadTakes,
         NotifyThreadTimesOut, Roused
<1>4. WaitInv'  BY <1>0, <1>1, <1>2, <1>3, ThreadMoves, Zenon DEF Places
<1>5. /\ NotifyFields(st') /\ st'.granted \subseteq st.granted
      /\ st'.sent = st'.taken + st'.merged + Cardinality(st'.granted) + One(st'.stored)
      /\ st'.stored => st.stored
  BY TakesStep, Zenon DEF Takes, NotifyThreadStep, NotifyThreadSpins, NotifyThreadSleeps, NotifyThreadTakes,
                   NotifyThreadTimesOut
<1>6. \A g \in Actors : g # t => pc'[g] = pc[g]  BY <1>0, <1>2 DEF WaitInv
<1>7. \A g \in st'.granted : pc'[g] = pc[g] /\ g \notin Range(wq')
  BY <1>0, <1>3, <1>5, <1>6 DEF NotifyWords, NotifyFields
<1>8. NotifyWords'  BY <1>0, <1>5, <1>7, GrantedStep
<1>9. StoredIsSeen'
  <2>1. CASE ~st'.stored  BY <2>1 DEF StoredIsSeen
  <2>2. CASE st'.stored
    <3>1. ~NotifyThreadTakes(t)
      BY <1>0, <2>2, Zenon DEF NotifyThreadTakes, TakeStored, NotifyWords, NotifyFields
    <3>2. ~NotifyThreadSleeps(t) /\ ~NotifyThreadTimesOut(t) /\ ~NotifyThreadSpins(t)
      BY <1>5, <2>2 DEF NotifyThreadSleeps, NotifyThreadTimesOut, NotifyThreadSpins
    <3> QED  BY <3>1, <3>2 DEF NotifyThreadStep
  <2> QED  BY <2>1, <2>2
<1> QED  BY <1>4, <1>8, <1>9 DEF NotifyInv

LEMMA NotifyRestKeeps ==
  ASSUME IsFiniteSet(Fibers), NotifyInv,
         \/ \E a \in Actors : NotifyWaitFast(a)
         \/ Surroundings /\ UNCHANGED st
         \/ UNCHANGED meetVars
  PROVE  NotifyInv'
<1>0. /\ WaitInv /\ NotifyWords /\ StoredIsSeen
      /\ Threads \subseteq Actors /\ Fibers \subseteq Actors
  BY DEF NotifyInv, Actors
<1>1. WaitInv'  BY <1>0, StillKeeps, SurroundingsKeep DEF NotifyWaitFast, meetVars
<1>2. /\ NotifyFields(st') /\ st'.granted \subseteq st.granted
      /\ st'.sent = st'.taken + st'.merged + Cardinality(st'.granted) + One(st'.stored)
      /\ st'.stored => st.stored
  BY TakesStep, Zenon DEF Takes, NotifyWaitFast, meetVars
<1>3. /\ wq' = wq /\ signalled' = signalled
      /\ \A a \in Actors : /\ pc[a] = "parked" => pc'[a] = "parked"
                           /\ pc'[a] = "asleep" => pc[a] = "asleep"
                           /\ expired[a] => expired'[a]
  <2>1. CASE UNCHANGED fwVars  BY <2>1 DEF fwVars
  <2>2. CASE Surroundings
    BY <2>2, <1>0 DEF Surroundings, FiberSurroundings, DeadlinePasses, Kill, TimerFires, KillUnwinds,
                KillDeferred, WaitInv, fwTypeOK
  <2> QED  BY <2>1, <2>2 DEF NotifyWaitFast, meetVars
<1>4. NotifyWords'
  BY <1>0, <1>2, <1>3 DEF NotifyWords, NotifyFields
<1>5. StoredIsSeen'  BY <1>0, <1>2, <1>3 DEF StoredIsSeen, Roused
<1> QED  BY <1>1, <1>4, <1>5 DEF NotifyInv

(* The notify of xtc_notify_signal and xtc_notify_wait, for any callers and any number of
   signals: every signal is taken by a wait, on its way to one, stored, or was sent while
   one was stored, so that none is lost to a waiter that is killed or times out after it
   was handed the signal; a stored signal never lies beside a waiter that sleeps on; and
   no waiter outlives its wait. *)
THEOREM NotifySafe ==
  ASSUME IsFiniteSet(Fibers), "signaler" \notin Fibers
  PROVE  NotifySpec => [](SignalsAccounted /\ StoredIsSeen /\ NoWaiterLeft)
<1>1. NotifyInit => NotifyInv  BY NotifyInvInit
<1>2. NotifyInv /\ [NotifyNext]_meetVars => NotifyInv'
  BY SignalStep, NotifyFiberStepKeeps, NotifyThreadStepKeeps, NotifyRestKeeps DEF NotifyNext
<1>3. NotifyInv => SignalsAccounted /\ StoredIsSeen /\ NoWaiterLeft
  BY WaitInvImplies DEF NotifyInv, NotifyWords, SignalsAccounted, One
<1> QED  BY <1>1, <1>2, <1>3, PTL DEF NotifySpec
=============================================================================
