---------------------------- MODULE MutexProofs ----------------------------
(***************************************************************************)
(* Proofs about the parking mutex and the semaphore of SyncAmutex, for any *)
(* number of fibers and threads and every value of their bounds.           *)
(***************************************************************************)
EXTENDS SyncAmutex, WaitProofs

Spec == Init /\ [][Next]_<<fwVars, st>>

Mutexes ==
  [held : BOOLEAN, handoff : BOOLEAN, granted : SUBSET Fibers,
   lost : [Fibers -> 0 .. AM_HANDOFF_LOSSES], spinners : SUBSET Threads,
   wake_skips : 0 .. SYNC_AM_SKIP_MAX, owner : Actors \cup {NoOwner},
   count : 0 .. MaxDepth]

Holders == {a \in Actors : pc[a] = "got"} \cup st.granted

(* The mutex is held by one caller, or by a fiber that was granted it. *)
OneHeld == IF st.held THEN \E h \in Actors : Holders = {h} ELSE Holders = {}

(* A fiber that was granted the mutex has not run since, and is off the queue. *)
Granted == \A f \in st.granted : pc[f] = "parked" /\ f \notin Range(wq)

(* Only spinners are counted as spinners. *)
Spinning == \A t \in st.spinners : pc[t] = "spin"

SomeThread == \E t \in Threads : Roused(t) \/ pc[t] \in {"spin", "relock"}

(* Beside a free mutex, the head of the queue has been woken, or else some thread is
   awake.  It is the head that makes NotStranded inductive: a woken fiber further back
   may leave without telling anybody. *)
Minded ==
  ~st.held =>
    /\ wq # <<>> => woken[Head(wq)]
    /\ wq = <<>> /\ Asleep # {} => SomeThread

MuInv ==
  /\ WaitInv /\ st \in Mutexes
  /\ OneHeld /\ Granted /\ Spinning /\ HandoffIsDue /\ Minded

Bounds ==
  /\ AM_HANDOFF_LOSSES \in Nat /\ SYNC_AM_SKIP_MAX \in Nat /\ MaxDepth \in Nat \ {0}

LEMMA MuInvInit ==
  ASSUME Bounds, Init
  PROVE  MuInv
<1>1. WaitInv  BY WaitInvInit DEF Init
<1>2. st \in Mutexes  BY DEF Init, Mutexes, Bounds
<1>3. Holders = {} /\ ~st.held  BY DEF Init, fwInit, Holders
<1>4. Granted /\ Spinning /\ HandoffIsDue  BY DEF Init, Granted, Spinning, HandoffIsDue
<1>5. wq = <<>> /\ Asleep = {}  BY DEF Init, fwInit, Asleep, Actors
<1> QED  BY <1>1, <1>2, <1>3, <1>4, <1>5 DEF MuInv, OneHeld, Minded

(* A caller that holds nothing moves, and the mutex stays as held as it was. *)
LEMMA OtherMoves ==
  ASSUME MuInv, WaitInv', st' \in Mutexes, st'.held = st.held, st'.granted = st.granted,
         NEW a \in Actors, a \notin st.granted, pc[a] # "got",
         NEW x \in Places \ {"got"}, pc' = [pc EXCEPT ![a] = x],
         Range(wq') \subseteq Range(wq) \cup {a}, HandoffIsDue', Spinning', Minded'
  PROVE  MuInv'
<1>1. Holders' = Holders  BY DEF Holders, MuInv, WaitInv
<1>2. OneHeld'  BY <1>1 DEF OneHeld, MuInv
<1>3. Granted'  BY DEF Granted, MuInv, WaitInv, Actors, Mutexes
<1> QED  BY <1>2, <1>3 DEF MuInv

LEMMA OwnType ==
  ASSUME Bounds, NEW a \in Actors, NEW m \in Mutexes
  PROVE  Own(a, m) \in Mutexes
<1>1. 1 \in 0 .. MaxDepth  BY DEF Bounds
<1> QED  BY <1>1, Zenon DEF Own, Mutexes

(* A caller takes the free mutex; h says whether the hand-off is still asked for. *)
LEMMA FreeTaken ==
  ASSUME MuInv, WaitInv', NEW a \in Actors, ~st.held, Bounds,
         pc' = [pc EXCEPT ![a] = "got"], NEW h \in BOOLEAN,
         st' = Own(a, [st EXCEPT !.handoff = h]),
         h => st.handoff /\ wq' # <<>> /\ Head(wq') = Head(wq)
  PROVE  MuInv'
<1>1. /\ st'.held = TRUE /\ st'.granted = st.granted \ {a} /\ st'.lost = st.lost
      /\ st'.spinners = st.spinners \ {a} /\ st'.handoff = h
  BY DEF MuInv, Mutexes, Own
<1>2. st' \in Mutexes
  <2>1. [st EXCEPT !.handoff = h] \in Mutexes  BY Zenon DEF MuInv, Mutexes
  <2> QED  BY <2>1, OwnType
<1>3. Holders = {}  BY DEF MuInv, OneHeld
<1>4. Holders' = {a} /\ st'.granted = {}
  BY <1>1, <1>3 DEF Holders, MuInv, WaitInv
<1>5. Spinning'  BY <1>1 DEF Spinning, MuInv, WaitInv, Mutexes, Actors
<1>6. HandoffIsDue'  BY <1>1 DEF HandoffIsDue, MuInv
<1> QED  BY <1>1, <1>2, <1>4, <1>5, <1>6 DEF MuInv, OneHeld, Granted, Minded

(* What Without leaves of a wish for the hand-off. *)
LEMMA WithoutKeeps ==
  ASSUME MuInv, NEW f \in Fibers
  PROVE  \E h \in BOOLEAN :
           /\ Without(f) = [st EXCEPT !.handoff = h]
           /\ h => /\ st.handoff /\ ~IsHead(f) /\ fw_remove(wq, f) # <<>>
                   /\ Head(fw_remove(wq, f)) = Head(wq)
<1> DEFINE h == st.handoff /\ ~IsHead(f)
<1>1. h \in BOOLEAN /\ Without(f) = [st EXCEPT !.handoff = h]
  BY DEF MuInv, Mutexes, Without
<1>2. ASSUME h PROVE fw_remove(wq, f) # <<>> /\ Head(fw_remove(wq, f)) = Head(wq)
  <2>1. wq # <<>> /\ Head(wq) # f  BY <1>2 DEF IsHead, MuInv, HandoffIsDue
  <2> QED  BY <2>1, RemoveQueue DEF MuInv, WaitInv
<1> QED  BY <1>1, <1>2, Zenon

LEMMA LockFastKeeps ==
  ASSUME MuInv, Bounds, NEW a \in Actors, LockFast(a)
  PROVE  MuInv'
<1>1. /\ pc' = [pc EXCEPT ![a] = "got"] /\ st' = Own(a, st) /\ pc[a] = "idle" /\ ~st.held
      /\ UNCHANGED <<wq, woken, timer, expired, killed, masked, signalled>>
  BY DEF LockFast
<1>2. WaitInv'
  <2>1. WordsOK'  BY <1>1, SameWords DEF MuInv, WaitInv, fwTypeOK
  <2>2. a \notin Range(wq) \cup timer  BY <1>1 DEF MuInv, WaitInv
  <2> QED  BY <1>1, <2>1, <2>2, MoveKeeps, Zenon DEF MuInv, WaitInv, fwTypeOK, Places
<1>3. st.handoff \in BOOLEAN /\ st = [st EXCEPT !.handoff = st.handoff]
  BY DEF MuInv, Mutexes
<1>4. st.handoff => wq' # <<>> /\ Head(wq') = Head(wq)
  BY <1>1 DEF MuInv, HandoffIsDue
<1> QED  BY <1>1, <1>2, <1>3, <1>4, FreeTaken, Zenon

LEMMA NestedKeeps ==
  ASSUME MuInv, Bounds, NEW a \in Actors, LockAgain(a) \/ UnlockNested(a)
  PROVE  MuInv'
<1>1. UNCHANGED fwVars  BY DEF LockAgain, UnlockNested
<1>2. WaitInv'  BY <1>1, StillKeeps DEF MuInv
<1>3. PICK n \in 0 .. MaxDepth : st' = [st EXCEPT !.count = n]
  <2>1. CASE LockAgain(a)
    <3>1. st.count + 1 \in 0 .. MaxDepth  BY <2>1 DEF LockAgain, MuInv, Mutexes, Bounds
    <3> QED  BY <2>1, <3>1 DEF LockAgain
  <2>2. CASE UnlockNested(a)
    <3>1. st.count - 1 \in 0 .. MaxDepth  BY <2>2 DEF UnlockNested, MuInv, Mutexes, Bounds
    <3> QED  BY <2>2, <3>1 DEF UnlockNested
  <2> QED  BY <2>1, <2>2
<1>4. /\ st'.held = st.held /\ st'.granted = st.granted /\ st'.lost = st.lost
      /\ st'.spinners = st.spinners /\ st'.handoff = st.handoff /\ st' \in Mutexes
  BY <1>3 DEF MuInv, Mutexes
<1>5. pc' = pc /\ wq' = wq /\ woken' = woken /\ signalled' = signalled /\ expired' = expired
  BY <1>1 DEF fwVars
<1>6. OneHeld' /\ Granted' /\ Spinning' /\ HandoffIsDue'
  BY <1>4, <1>5 DEF MuInv, OneHeld, Holders, Granted, Spinning, HandoffIsDue
<1>7. Minded'  BY <1>4, <1>5 DEF MuInv, Minded, Asleep, SomeThread, Roused
<1> QED  BY <1>2, <1>4, <1>6, <1>7 DEF MuInv

LEMMA LockParkKeeps ==
  ASSUME MuInv, Bounds, NEW f \in Fibers, LockPark(f)
  PROVE  MuInv'
<1>1. /\ f \in Actors /\ pc[f] = "idle" /\ st.held /\ Park(f, wq, {})
      /\ st' = [st EXCEPT !.lost[f] = 0] /\ pc' = [pc EXCEPT ![f] = "parked"]
  BY DEF LockPark, StartPark, Park, Actors
<1>2. WaitInv'  BY StartsParking DEF LockPark, MuInv
<1>3. /\ st'.held /\ st.held = st'.held /\ st'.granted = st.granted
      /\ st'.spinners = st.spinners
      /\ st'.handoff = st.handoff /\ st'.lost = [st.lost EXCEPT ![f] = 0]
  BY <1>1, Zenon DEF MuInv, Mutexes
<1>4. st' \in Mutexes
  <2>1. st'.lost \in [Fibers -> 0 .. AM_HANDOFF_LOSSES]
    BY <1>3 DEF MuInv, Mutexes, Bounds
  <2> QED  BY <1>1, <1>3, <2>1 DEF MuInv, Mutexes
<1>5. f \notin Range(wq) /\ f \notin st.granted
  BY <1>1 DEF MuInv, WaitInv, Granted
<1>6. /\ Range(wq') = Range(wq) \cup {f} /\ wq' # <<>>
      /\ wq # <<>> => Head(wq') = Head(wq)
  BY <1>1, EnqueueQueue DEF Park, MuInv, WaitInv
<1>7. HandoffIsDue'
  <2> SUFFICES ASSUME st.handoff PROVE wq' # <<>> /\ st'.lost[Head(wq')] = AM_HANDOFF_LOSSES
    BY <1>3 DEF HandoffIsDue
  <2>1. wq # <<>> /\ st.lost[Head(wq)] = AM_HANDOFF_LOSSES  BY DEF MuInv, HandoffIsDue
  <2>2. Head(wq) \in Range(wq) /\ Head(wq) \in Fibers  BY <2>1, TailQueue DEF MuInv, WaitInv
  <2> QED  BY <1>3, <1>5, <1>6, <2>1, <2>2 DEF MuInv, Mutexes
<1>8. Spinning'  BY <1>1, <1>3 DEF Spinning, MuInv, WaitInv, Mutexes, Actors
<1>9. Minded'  BY <1>3 DEF Minded
<1> QED  BY <1>1, <1>2, <1>3, <1>4, <1>5, <1>6, <1>7, <1>8, <1>9, OtherMoves, Zenon DEF Places

(* A fiber that a kill precedes has not been queued: the mutex and its queue stay. *)
LEMMA LockKilledKeeps ==
  ASSUME MuInv, Bounds, NEW f \in Fibers, LockKilled(f)
  PROVE  MuInv'
<1>1. /\ f \in Actors /\ pc[f] = "idle" /\ st.held /\ wq' = wq
      /\ st' = [st EXCEPT !.lost[f] = 0] /\ pc' = [pc EXCEPT ![f] = "deliver"]
  BY DEF LockKilled, StartKilled, Leave, Actors
<1>2. WaitInv'  BY <1>1, StartsDying DEF LockKilled, MuInv
<1>3. /\ st'.held /\ st.held = st'.held /\ st'.granted = st.granted
      /\ st'.spinners = st.spinners
      /\ st'.handoff = st.handoff /\ st'.lost = [st.lost EXCEPT ![f] = 0]
  BY <1>1, Zenon DEF MuInv, Mutexes
<1>4. st' \in Mutexes
  <2>1. st'.lost \in [Fibers -> 0 .. AM_HANDOFF_LOSSES]
    BY <1>3 DEF MuInv, Mutexes, Bounds
  <2> QED  BY <1>1, <1>3, <2>1 DEF MuInv, Mutexes
<1>5. f \notin Range(wq) /\ f \notin st.granted
  BY <1>1 DEF MuInv, WaitInv, Granted
<1>6. HandoffIsDue'
  <2> SUFFICES ASSUME st.handoff PROVE wq' # <<>> /\ st'.lost[Head(wq')] = AM_HANDOFF_LOSSES
    BY <1>3 DEF HandoffIsDue
  <2>1. wq # <<>> /\ st.lost[Head(wq)] = AM_HANDOFF_LOSSES  BY DEF MuInv, HandoffIsDue
  <2>2. Head(wq) \in Range(wq) /\ Head(wq) \in Fibers  BY <2>1, TailQueue DEF MuInv, WaitInv
  <2> QED  BY <1>1, <1>3, <1>5, <2>1, <2>2 DEF MuInv, Mutexes
<1>7. Spinning'  BY <1>1, <1>3 DEF Spinning, MuInv, WaitInv, Mutexes, Actors
<1>8. Minded'  BY <1>3 DEF Minded
<1> QED  BY <1>1, <1>2, <1>3, <1>4, <1>5, <1>6, <1>7, <1>8, OtherMoves, Zenon DEF Places

(* Woken and beaten to it, or out of time. *)
LEMMA FiberWaitsOn ==
  ASSUME MuInv, Bounds, NEW f \in Fibers, FiberParks(f) \/ FiberTimesOut(f)
  PROVE  MuInv'
<1>1. /\ f \in Actors /\ pc[f] \in {"parked", "retry"} /\ st.held /\ f \notin st.granted
      /\ UNCHANGED <<expired, killed, masked, signalled>> /\ signalled \subseteq Threads
  BY DEF FiberParks, FiberTimesOut, Resumed, Actors, MuInv, WaitInv, fwTypeOK
<1>2. CASE FiberTimesOut(f)
  <2>1. /\ Leave(f, fw_remove(wq, f), {}, "idle") /\ st' = Without(f)
        /\ pc' = [pc EXCEPT ![f] = "idle"] /\ wq' = fw_remove(wq, f)
    BY <1>2 DEF FiberTimesOut, Leave
  <2>2. WaitInv'  BY <1>1, <2>1, LeavesQueue DEF MuInv, Places
  <2>3. PICK h \in BOOLEAN :
          /\ st' = [st EXCEPT !.handoff = h]
          /\ h => st.handoff /\ wq' # <<>> /\ Head(wq') = Head(wq)
    BY <2>1, WithoutKeeps
  <2>4. /\ st' \in Mutexes /\ st'.held = st.held /\ st'.granted = st.granted
        /\ st'.spinners = st.spinners /\ st'.lost = st.lost /\ st'.handoff = h
    BY <2>3, Zenon DEF MuInv, Mutexes
  <2>5. Range(wq') \subseteq Range(wq)  BY <2>1, RemoveQueue DEF MuInv, WaitInv
  <2>6. HandoffIsDue'  BY <2>3, <2>4 DEF HandoffIsDue, MuInv
  <2>7. Spinning'  BY <1>1, <2>1, <2>4 DEF Spinning, MuInv, WaitInv, Mutexes, Actors
  <2>8. Minded'  BY <1>1, <2>4 DEF Minded
  <2> QED  BY <1>1, <2>1, <2>2, <2>4, <2>5, <2>6, <2>7, <2>8, OtherMoves, Zenon DEF Places
<1>3. CASE FiberParks(f)
  <2> DEFINE n == IF st.lost[f] < AM_HANDOFF_LOSSES THEN st.lost[f] + 1 ELSE st.lost[f]
  <2>1. /\ Park(f, wq, {}) /\ pc' = [pc EXCEPT ![f] = "parked"] /\ wq' = fw_enqueue(wq, f)
        /\ st' = IF IsHead(f)
                 THEN [st EXCEPT !.lost[f] = n, !.handoff = @ \/ n = AM_HANDOFF_LOSSES]
                 ELSE st
    BY <1>3 DEF FiberParks, Park
  <2>2. WaitInv'  BY <1>1, <2>1, ParksAgain DEF MuInv
  <2>3. /\ Range(wq') = Range(wq) \cup {f} /\ wq' # <<>>
        /\ wq # <<>> => Head(wq') = Head(wq)
    BY <2>1, EnqueueQueue DEF MuInv, WaitInv
  <2>4. /\ n \in 0 .. AM_HANDOFF_LOSSES
        /\ st.lost[f] = AM_HANDOFF_LOSSES => n = AM_HANDOFF_LOSSES
    BY DEF MuInv, Mutexes, Bounds
  <2> HIDE DEF n
  <2>5. /\ st' \in Mutexes /\ st'.held = st.held /\ st'.granted = st.granted
        /\ st'.spinners = st.spinners
        /\ IF IsHead(f)
           THEN /\ st'.lost[f] = n /\ st'.handoff = (st.handoff \/ n = AM_HANDOFF_LOSSES)
           ELSE st' = st
    <3>1. CASE IsHead(f)
      <4>1. st' = [st EXCEPT !.lost[f] = n, !.handoff = @ \/ n = AM_HANDOFF_LOSSES]
        BY <2>1, <3>1
      <4>2. /\ st'.held = st.held /\ st'.granted = st.granted /\ st'.spinners = st.spinners
            /\ st'.lost = [st.lost EXCEPT ![f] = n] /\ st'.wake_skips = st.wake_skips
            /\ st'.owner = st.owner /\ st'.count = st.count
            /\ st'.handoff = (st.handoff \/ n = AM_HANDOFF_LOSSES)
            /\ st' = [held |-> st'.held, handoff |-> st'.handoff, granted |-> st'.granted,
                      lost |-> st'.lost, spinners |-> st'.spinners,
                      wake_skips |-> st'.wake_skips, owner |-> st'.owner,
                      count |-> st'.count]
        BY <4>1, Zenon DEF MuInv, Mutexes
      <4>3. st'.lost \in [Fibers -> 0 .. AM_HANDOFF_LOSSES] /\ st'.lost[f] = n
        BY <2>4, <4>2 DEF MuInv, Mutexes
      <4>4. st'.handoff \in BOOLEAN  BY <4>2
      <4>5. st' \in Mutexes  BY <4>2, <4>3, <4>4, Zenon DEF MuInv, Mutexes
      <4> QED  BY <3>1, <4>2, <4>3, <4>5
    <3>2. CASE ~IsHead(f)  BY <2>1, <3>2 DEF MuInv
    <3> QED  BY <3>1, <3>2
  <2>6. HandoffIsDue'
    <3>1. CASE IsHead(f)
      <4>1. wq # <<>> /\ Head(wq') = f  BY <2>3, <3>1 DEF IsHead
      <4>2. st.handoff => st.lost[f] = AM_HANDOFF_LOSSES
        BY <3>1 DEF IsHead, MuInv, HandoffIsDue
      <4> QED  BY <2>3, <2>4, <2>5, <3>1, <4>1, <4>2, Zenon DEF HandoffIsDue
    <3>2. CASE ~IsHead(f)  BY <2>3, <2>5, <3>2 DEF HandoffIsDue, MuInv
    <3> QED  BY <3>1, <3>2
  <2>7. Spinning'  BY <1>1, <2>1, <2>5 DEF Spinning, MuInv, WaitInv, Mutexes, Actors
  <2>8. Minded'  BY <1>1, <2>5 DEF Minded
  <2> QED  BY <1>1, <2>1, <2>2, <2>3, <2>5, <2>6, <2>7, <2>8, OtherMoves, Zenon DEF Places
<1> QED  BY <1>2, <1>3

LEMMA FiberTakesKeeps ==
  ASSUME MuInv, Bounds, NEW f \in Fibers, FiberTakes(f)
  PROVE  MuInv'
<1>1. /\ f \in Actors /\ ~st.held /\ Leave(f, fw_remove(wq, f), {}, "got")
      /\ pc' = [pc EXCEPT ![f] = "got"] /\ wq' = fw_remove(wq, f) /\ st' = Own(f, Without(f))
      /\ UNCHANGED <<expired, killed, masked, signalled>> /\ signalled \subseteq Threads
  BY DEF FiberTakes, Leave, Actors, MuInv, WaitInv, fwTypeOK
<1>2. WaitInv'  BY <1>1, LeavesQueue DEF MuInv, Places
<1>3. PICK h \in BOOLEAN :
        /\ Without(f) = [st EXCEPT !.handoff = h]
        /\ h => st.handoff /\ wq' # <<>> /\ Head(wq') = Head(wq)
  BY <1>1, WithoutKeeps
<1> QED  BY <1>1, <1>2, <1>3, FreeTaken, ZenonT(60)

LEMMA FiberGrantedKeeps ==
  ASSUME MuInv, Bounds, NEW f \in Fibers, FiberGranted(f)
  PROVE  MuInv'
<1>1. /\ f \in Actors /\ f \in st.granted /\ Leave(f, wq, {}, "got")
      /\ pc' = [pc EXCEPT ![f] = "got"] /\ wq' = wq /\ st' = Own(f, st)
      /\ UNCHANGED <<expired, killed, masked, signalled>> /\ signalled \subseteq Threads
  BY DEF FiberGranted, Leave, Actors, MuInv, WaitInv, fwTypeOK
<1>2. WaitInv'
  <2>1. f \notin Range(wq) /\ Queue(wq)  BY <1>1 DEF MuInv, Granted, WaitInv
  <2>2. WordsOK'  BY <1>1, SameWords DEF MuInv
  <2> QED  BY <1>1, <2>1, <2>2, LeaveKeeps DEF MuInv, Places
<1>3. /\ st'.held = TRUE /\ st'.granted = st.granted \ {f} /\ st'.lost = st.lost
      /\ st'.spinners = st.spinners \ {f} /\ st'.handoff = st.handoff
  BY <1>1 DEF MuInv, Mutexes, Own
<1>4. st' \in Mutexes  BY <1>1, OwnType DEF MuInv
<1>5. Holders = {f}  BY <1>1 DEF MuInv, OneHeld, Holders
<1>6. Holders' = {f} /\ st'.granted = {}
  BY <1>1, <1>3, <1>5 DEF Holders, MuInv, WaitInv
<1>7. Spinning'  BY <1>1, <1>3 DEF Spinning, MuInv, WaitInv, Mutexes, Actors
<1>8. HandoffIsDue'  BY <1>1, <1>3 DEF HandoffIsDue, MuInv
<1> QED  BY <1>1, <1>2, <1>3, <1>4, <1>6, <1>7, <1>8 DEF MuInv, OneHeld, Granted, Minded

----------------------------------------------------------------------------
(* amutex_wake_next_locked: what it leaves of the mutex m, and whom it wakes. *)
Woke(q, m) ==
  /\ woken' \in [Fibers -> BOOLEAN] /\ signalled' \subseteq Threads
  /\ \E w \in 0 .. SYNC_AM_SKIP_MAX : st' = [m EXCEPT !.wake_skips = w]
  /\ q # <<>> => woken'[Head(q)]
  /\ q = <<>> /\ Asleep # {} =>
       \E t \in Threads : (pc[t] = "asleep" /\ t \in signalled') \/ t \in m.spinners

LEMMA WakesNext ==
  ASSUME MuInv, Bounds, NEW q, Queue(q), NEW a, NEW m \in Mutexes,
         amutex_wake_next_locked(q, a, m)
  PROVE  Woke(q, m)
<1>1. /\ m = [m EXCEPT !.wake_skips = m.wake_skips] /\ m.wake_skips \in 0 .. SYNC_AM_SKIP_MAX
      /\ 0 \in 0 .. SYNC_AM_SKIP_MAX /\ signalled \subseteq Threads
      /\ m.spinners \subseteq Threads /\ Asleep \subseteq Threads
  BY DEF Mutexes, Bounds, MuInv, WaitInv, fwTypeOK, Asleep
<1>2. CASE q # <<>>
  <2>1. WakeAll({Head(q)}, a) /\ st' = m /\ signalled' = signalled
    BY <1>2 DEF amutex_wake_next_locked
  <2>2. Head(q) \in Fibers  BY <1>2, TailQueue
  <2>3. woken' \in [Fibers -> BOOLEAN]  BY <2>1, WakeAllType DEF MuInv
  <2>4. woken'[Head(q)]  BY <2>1, <2>2, Zenon DEF WakeAll
  <2> QED  BY <1>1, <1>2, <2>1, <2>3, <2>4 DEF Woke
<1>3. CASE q = <<>>
  <2>1. WakeAll({}, a) /\ amutex_wake_thread_locked(m)
    BY <1>3 DEF amutex_wake_next_locked
  <2>2. woken' \in [Fibers -> BOOLEAN]  BY <2>1, WakeAllType DEF MuInv
  <2>3. CASE Asleep = {}
    <3>1. st' = m /\ signalled' = signalled  BY <2>1, <2>3 DEF amutex_wake_thread_locked
    <3> QED  BY <1>1, <1>3, <2>2, <2>3, <3>1 DEF Woke
  <2>4. CASE Asleep # {} /\ m.spinners # {} /\ m.wake_skips < SYNC_AM_SKIP_MAX
    <3>1. st' = [m EXCEPT !.wake_skips = m.wake_skips + 1] /\ signalled' = signalled
      BY <2>1, <2>4 DEF amutex_wake_thread_locked
    <3>2. m.wake_skips + 1 \in 0 .. SYNC_AM_SKIP_MAX  BY <1>1, <2>4 DEF Bounds
    <3>3. \E t \in Threads : t \in m.spinners  BY <1>1, <2>4
    <3> QED  BY <1>1, <1>3, <2>2, <3>1, <3>2, <3>3 DEF Woke
  <2>5. CASE Asleep # {} /\ ~(m.spinners # {} /\ m.wake_skips < SYNC_AM_SKIP_MAX)
    <3>1. /\ st' = [m EXCEPT !.wake_skips = 0]
          /\ IF Asleep \subseteq signalled
             THEN signalled' = signalled
             ELSE \E t \in Asleep \ signalled : signalled' = signalled \cup {t}
      BY <2>1, <2>5 DEF amutex_wake_thread_locked
    <3>2. \E t \in Asleep : t \in signalled' /\ signalled' \subseteq Threads
      BY <1>1, <2>5, <3>1
    <3> QED  BY <1>1, <1>3, <2>2, <3>1, <3>2 DEF Woke, Asleep
  <2> QED  BY <2>3, <2>4, <2>5
<1> QED  BY <1>2, <1>3

(* After it, the free mutex is minded: whoever sleeps or spins still does. *)
LEMMA WokeMinds ==
  ASSUME MuInv, NEW q, NEW m \in Mutexes, Woke(q, m), wq' = q, m.spinners = st.spinners,
         NEW a \in Actors, pc[a] \notin {"asleep", "spin"},
         NEW x \in Places \ {"asleep"}, pc' = [pc EXCEPT ![a] = x]
  PROVE  Minded'
<1>1. wq' # <<>> => woken'[Head(wq')]  BY DEF Woke
<1>2. ASSUME wq' = <<>>, Asleep' # {} PROVE SomeThread'
  <2>1. Asleep # {}  BY <1>2 DEF Asleep, MuInv, WaitInv, Actors
  <2>2. PICK t \in Threads : (pc[t] = "asleep" /\ t \in signalled') \/ t \in m.spinners
    BY <1>2, <2>1 DEF Woke
  <2>3. pc'[t] = pc[t]  BY <2>2 DEF MuInv, WaitInv, Actors, Spinning
  <2>4. Roused(t)' \/ pc'[t] = "spin"  BY <2>2, <2>3 DEF Roused, MuInv, Spinning
  <2> QED  BY <2>4 DEF SomeThread
<1> QED  BY <1>1, <1>2 DEF Minded

(* amutex_release_locked: the holder a gives the mutex up and goes to x. *)
LEMMA ReleaseKeeps ==
  ASSUME MuInv, Bounds, NEW a \in Actors, a \in Holders, a \notin Range(wq),
         NEW x \in {"idle", "deliver"}, pc' = [pc EXCEPT ![a] = x],
         amutex_release_locked(wq, a), timer' = timer \ {a},
         UNCHANGED <<expired, killed, masked>>
  PROVE  MuInv'
<1> DEFINE m == [st EXCEPT !.owner = NoOwner, !.count = 0, !.granted = @ \ {a}]
<1>0. Queue(wq)  BY DEF MuInv, WaitInv
<1>1. Holders = {a} /\ st.held  BY DEF MuInv, OneHeld
<1>2. /\ m \in Mutexes /\ m.granted = {} /\ m.spinners = st.spinners /\ m.held = TRUE
      /\ m.lost = st.lost /\ m.handoff = st.handoff
  <2>1. 0 \in 0 .. MaxDepth  BY DEF Bounds
  <2>2. m \in Mutexes  BY <2>1, Zenon DEF MuInv, Mutexes
  <2> QED  BY <1>1, <2>2 DEF MuInv, Mutexes, Holders
<1>3. /\ pc[a] \in {"got", "parked"} /\ \A b \in Actors \ {a} : pc'[b] = pc[b] /\ pc[b] # "got"
      /\ pc'[a] = x /\ x \in Places
  BY <1>1 DEF Holders, MuInv, Granted, WaitInv, Places
<1>4. {b \in Actors : pc'[b] = "got"} = {}  BY <1>3
<1>5. \A t \in st.spinners : pc'[t] = "spin"
  BY <1>3 DEF MuInv, Spinning, Mutexes, Actors
<1>6. CASE wq # <<>> /\ st.handoff
  <2>1. /\ st' = [m EXCEPT !.handoff = FALSE, !.granted = @ \cup {Head(wq)}]
        /\ wq' = Tail(wq) /\ WakeAll({Head(wq)}, a) /\ signalled' = signalled
    BY <1>6 DEF amutex_release_locked
  <2>2. /\ Head(wq) \in Fibers /\ Head(wq) \in Range(wq) /\ Queue(Tail(wq))
        /\ Range(Tail(wq)) = Range(wq) \ {Head(wq)}
    BY <1>0, <1>6, TailQueue
  <2> HIDE DEF m
  <2>3. /\ st' \in Mutexes /\ st'.held = TRUE /\ st'.granted = {Head(wq)}
        /\ st'.spinners = st.spinners /\ st'.handoff = FALSE
    BY <1>2, <2>1, <2>2, Zenon DEF Mutexes
  <2>4. WaitInv'
    <3>1. woken' \in [Fibers -> BOOLEAN]  BY <2>1, WakeAllType DEF MuInv
    <3>2. WordsOK'  BY <2>1, SameWords DEF MuInv, WaitInv, fwTypeOK
    <3>3. /\ Queue(wq') /\ Range(wq') \subseteq Range(wq) /\ timer' \subseteq timer
          /\ a \notin Range(wq') \cup timer'
      BY <2>1, <2>2
    <3> QED  BY <1>3, <3>1, <3>2, <3>3, MoveKeeps, Zenon DEF MuInv
  <2>5. Holders' = {Head(wq)} /\ Head(wq) \in Actors
    BY <1>4, <2>2, <2>3 DEF Holders, Actors
  <2>6. Granted'
    <3>1. pc[Head(wq)] = "parked" /\ Head(wq) # a /\ Head(wq) \in Actors
      BY <2>2 DEF MuInv, WaitInv, Actors
    <3> QED  BY <1>3, <2>1, <2>2, <2>3, <3>1 DEF Granted
  <2> QED  BY <1>5, <2>3, <2>4, <2>5, <2>6
           DEF MuInv, OneHeld, Spinning, HandoffIsDue, Minded
<1>7. CASE ~(wq # <<>> /\ st.handoff)
  <2>0. ~st.handoff
    BY <1>7 DEF MuInv, HandoffIsDue
  <2> DEFINE n == [m EXCEPT !.held = FALSE]
  <2>1. wq' = wq /\ amutex_wake_next_locked(wq, a, n)
    BY <1>7 DEF amutex_release_locked
  <2> HIDE DEF m
  <2>2. /\ n \in Mutexes /\ n.granted = {} /\ n.spinners = st.spinners /\ n.held = FALSE
        /\ n.handoff = st.handoff
    BY <1>2, Zenon DEF Mutexes
  <2> HIDE DEF n
  <2>3. Woke(wq, n)  BY <1>0, <2>1, <2>2, WakesNext
  <2>4. /\ st' \in Mutexes /\ st'.granted = {} /\ st'.held = FALSE
        /\ st'.spinners = st.spinners /\ st'.handoff = st.handoff
    BY <2>2, <2>3, Zenon DEF Woke, Mutexes
  <2>5. WaitInv'
    <3>1. woken' \in [Fibers -> BOOLEAN] /\ signalled' \subseteq Threads  BY <2>3 DEF Woke
    <3>2. WordsOK'  BY <3>1, SameWords DEF MuInv
    <3>3. /\ Queue(wq') /\ Range(wq') \subseteq Range(wq) /\ timer' \subseteq timer
          /\ a \notin Range(wq') \cup timer'
      BY <1>0, <2>1
    <3> QED  BY <1>3, <3>1, <3>2, <3>3, MoveKeeps, Zenon DEF MuInv
  <2>6. Holders' = {}  BY <1>4, <2>4 DEF Holders
  <2>7. Minded'  BY <1>3, <2>1, <2>2, <2>3, WokeMinds, Zenon
  <2> QED  BY <1>5, <2>0, <2>4, <2>5, <2>6, <2>7
           DEF MuInv, OneHeld, Granted, Spinning, HandoffIsDue
<1> QED  BY <1>6, <1>7

LEMMA UnlockKeeps ==
  ASSUME MuInv, Bounds, NEW a \in Actors, Unlock(a)
  PROVE  MuInv'
<1>1. /\ pc[a] = "got" /\ pc' = [pc EXCEPT ![a] = "idle"] /\ amutex_release_locked(wq, a)
      /\ UNCHANGED <<timer, expired, killed, masked>>
  BY DEF Unlock
<1>2. a \in Holders  BY <1>1 DEF Holders
<1>3. a \notin Range(wq) /\ a \notin timer  BY <1>1 DEF MuInv, WaitInv
<1>4. timer' = timer \ {a}  BY <1>1, <1>3
<1> QED  BY <1>1, <1>2, <1>3, <1>4, ReleaseKeeps, Zenon

(* A fiber is killed in its wait. *)
LEMMA FiberKilledKeeps ==
  ASSUME MuInv, Bounds, NEW f \in Fibers, FiberKilled(f)
  PROVE  MuInv'
<1> DEFINE q == fw_remove(wq, f)
<1>1. /\ f \in Actors /\ pc[f] \in {"parked", "retry"} /\ pc' = [pc EXCEPT ![f] = "deliver"]
      /\ timer' = timer \ {f} /\ UNCHANGED <<expired, killed, masked>>
      /\ signalled \subseteq Threads
  BY DEF FiberKilled, Resumed, Actors, MuInv, WaitInv, fwTypeOK
<1>2. /\ Queue(q) /\ Range(q) = Range(wq) \ {f}
      /\ wq # <<>> /\ Head(wq) # f => q # <<>> /\ Head(q) = Head(wq)
  BY RemoveQueue DEF MuInv, WaitInv
<1>3. CASE f \in st.granted
  <2>1. amutex_release_locked(q, f)  BY <1>3 DEF FiberKilled
  <2>2. f \notin Range(wq) /\ f \in Holders  BY <1>3 DEF MuInv, Granted, Holders
  <2>3. q = wq  BY <2>2 DEF fw_remove
  <2> QED  BY <1>1, <2>1, <2>2, <2>3, ReleaseKeeps, Zenon
<1>4. CASE f \notin st.granted
  <2>1. /\ wq' = q
        /\ IF IsHead(f) /\ ~st.held
           THEN amutex_wake_next_locked(q, f, Without(f))
           ELSE st' = Without(f) /\ WakeAll({}, f) /\ UNCHANGED signalled
    BY <1>4 DEF FiberKilled
  <2>2. PICK h \in BOOLEAN :
          /\ Without(f) = [st EXCEPT !.handoff = h]
          /\ h => st.handoff /\ q # <<>> /\ Head(q) = Head(wq)
    BY WithoutKeeps
  <2>3. /\ Without(f) \in Mutexes /\ Without(f).held = st.held
        /\ Without(f).granted = st.granted /\ Without(f).spinners = st.spinners
        /\ Without(f).lost = st.lost /\ Without(f).handoff = h
    BY <2>2, Zenon DEF MuInv, Mutexes
  <2> HIDE DEF q
  <2>4. /\ st' \in Mutexes /\ st'.held = st.held /\ st'.granted = st.granted
        /\ st'.spinners = st.spinners /\ st'.lost = st.lost /\ st'.handoff = h
        /\ woken' \in [Fibers -> BOOLEAN] /\ signalled' \subseteq Threads /\ Minded'
    <3>1. CASE IsHead(f) /\ ~st.held
      <4>1. Woke(q, Without(f))  BY <1>2, <2>1, <2>3, <3>1, WakesNext
      <4>2. Minded'  BY <1>1, <2>1, <2>3, <4>1, WokeMinds, Zenon DEF Places
      <4>3. PICK w \in 0 .. SYNC_AM_SKIP_MAX : st' = [Without(f) EXCEPT !.wake_skips = w]
        BY <4>1 DEF Woke
      <4> QED  BY <2>3, <4>1, <4>2, <4>3, Zenon DEF Woke, Mutexes
    <3>2. CASE ~(IsHead(f) /\ ~st.held)
      <4>1. st' = Without(f) /\ WakeAll({}, f) /\ signalled' = signalled  BY <2>1, <3>2
      <4>2. woken' \in [Fibers -> BOOLEAN]  BY <4>1, WakeAllType DEF MuInv
      <4>3. Minded'
        <5> SUFFICES ASSUME ~st.held
                     PROVE  /\ wq' # <<>> => woken'[Head(wq')]
                            /\ wq' = <<>> /\ Asleep' # {} => SomeThread'
          BY <2>3, <4>1 DEF Minded
        <5>1. ~IsHead(f)  BY <3>2
        <5>2. ASSUME wq # <<>> PROVE wq' # <<>> /\ woken'[Head(wq')]
          <6>1. q # <<>> /\ Head(q) = Head(wq) /\ Head(wq) # f  BY <1>2, <5>1, <5>2 DEF IsHead
          <6>2. woken[Head(wq)] /\ Head(wq) \in Fibers
            BY <5>2, TailQueue DEF MuInv, Minded, WaitInv
          <6> QED  BY <2>1, <4>1, <6>1, <6>2, Zenon DEF WakeAll
        <5>3. ASSUME wq = <<>> PROVE wq' = <<>> /\ (Asleep' # {} => SomeThread')
          <6>1. wq' = <<>>
            BY <1>2, <2>1, <5>3 DEF q, fw_remove, Range
          <6>2. Asleep' = Asleep  BY <1>1 DEF Asleep, MuInv, WaitInv, Actors
          <6>3. SomeThread => SomeThread'
            BY <1>1, <4>1 DEF SomeThread, Roused, MuInv, WaitInv, Actors
          <6> QED  BY <5>3, <6>1, <6>2, <6>3 DEF MuInv, Minded
        <5> QED  BY <5>2, <5>3
      <4> QED  BY <1>1, <2>3, <4>1, <4>2, <4>3
    <3> QED  BY <3>1, <3>2
  <2>5. WaitInv'
    <3>1. WordsOK'  BY <1>1, <2>4, SameWords DEF MuInv
    <3>2. /\ Queue(wq') /\ Range(wq') \subseteq Range(wq) /\ timer' \subseteq timer
          /\ f \notin Range(wq') \cup timer'
      BY <1>1, <1>2, <2>1
    <3> QED  BY <1>1, <2>4, <3>1, <3>2, MoveKeeps, Zenon DEF MuInv, Places
  <2>6. HandoffIsDue'  BY <2>1, <2>2, <2>4 DEF HandoffIsDue, MuInv
  <2>7. Spinning'  BY <1>1, <2>4 DEF Spinning, MuInv, WaitInv, Mutexes, Actors
  <2> QED  BY <1>1, <1>2, <1>4, <2>1, <2>4, <2>5, <2>6, <2>7, OtherMoves, Zenon DEF Places
<1> QED  BY <1>3, <1>4

----------------------------------------------------------------------------
(* A thread that holds nothing moves: threads are never queued. *)
LEMMA ThreadGoes ==
  ASSUME MuInv, NEW t \in Threads, pc[t] \notin {"got", "parked"}, WordsOK',
         NEW x \in Places \ {"got"}, pc' = [pc EXCEPT ![t] = x],
         UNCHANGED <<wq, woken, timer>>,
         NEW S \in SUBSET Threads, st' = [st EXCEPT !.spinners = S],
         \A u \in S : pc'[u] = "spin", Minded'
  PROVE  MuInv'
<1>1. /\ st' \in Mutexes /\ st'.held = st.held /\ st'.granted = st.granted
      /\ st'.spinners = S /\ st'.lost = st.lost /\ st'.handoff = st.handoff
  BY DEF MuInv, Mutexes
<1>2. WaitInv'  BY ThreadMoves, Zenon DEF MuInv
<1>3. t \in Actors /\ t \notin st.granted  BY DEF Actors, MuInv, Granted
<1>4. Spinning' /\ HandoffIsDue'  BY <1>1 DEF Spinning, HandoffIsDue, MuInv
<1> QED  BY <1>1, <1>2, <1>3, <1>4, OtherMoves, Zenon

LEMMA ThreadKeeps ==
  ASSUME MuInv, Bounds, NEW t \in Threads, ThreadStep(t)
  PROVE  MuInv'
<1>0. /\ t \in Actors /\ WaitInv /\ st.spinners \subseteq Threads
      /\ \A u \in st.spinners : pc[u] = "spin"
      /\ st = [st EXCEPT !.spinners = st.spinners]
  BY DEF Actors, MuInv, Spinning, Mutexes
<1>1. CASE ThreadSpins(t)
  <2>1. /\ pc[t] \in {"idle", "asleep"} /\ st.held /\ pc' = [pc EXCEPT ![t] = "spin"]
        /\ st' = [st EXCEPT !.spinners = st.spinners \cup {t}]
        /\ UNCHANGED <<wq, woken, timer>>
    BY <1>1 DEF ThreadSpins, Roused
  <2>2. WordsOK'  BY <1>0, <1>1, Zenon DEF ThreadSpins, WaitInv, fwTypeOK, WordsOK
  <2>3. st'.held = st.held  BY <2>1, Zenon DEF MuInv, Mutexes
  <2>4. Minded'  BY <2>1, <2>3 DEF Minded
  <2>5. \A u \in st.spinners \cup {t} : pc'[u] = "spin"  BY <1>0, <2>1 DEF WaitInv, Actors
  <2> QED  BY <1>0, <2>1, <2>2, <2>4, <2>5, ThreadGoes, Zenon DEF Places
<1>2. CASE ThreadSleeps(t) \/ ThreadTimesOut(t)
  <2>1. PICK x \in {"asleep", "idle"} : pc' = [pc EXCEPT ![t] = x]
    BY <1>2 DEF ThreadSleeps, ThreadTimesOut, Sleep
  <2>2. /\ pc[t] \in {"idle", "asleep", "relock"} /\ st.held /\ st' = st
        /\ UNCHANGED <<wq, woken, timer>>
    BY <1>2 DEF ThreadSleeps, ThreadTimesOut, Roused
  <2>3. WordsOK'
    BY <1>0, <1>2, Zenon DEF ThreadSleeps, ThreadTimesOut, Sleep, WaitInv, fwTypeOK, WordsOK
  <2>4. Minded'  BY <2>2 DEF Minded
  <2>5. \A u \in st.spinners : pc'[u] = "spin"  BY <1>0, <2>1, <2>2 DEF WaitInv, Actors
  <2> QED  BY <1>0, <2>1, <2>2, <2>3, <2>4, <2>5, ThreadGoes, Zenon DEF Places
<1>3. CASE SpinEnds(t)
  <2>1. /\ pc[t] = "spin" /\ pc' = [pc EXCEPT ![t] = "relock"]
        /\ st' = [st EXCEPT !.spinners = st.spinners \ {t}]
        /\ UNCHANGED <<wq, woken, timer, expired, killed, masked, signalled>>
    BY <1>3 DEF SpinEnds
  <2>2. WordsOK'  BY <1>0, <2>1, SameWords DEF WaitInv, fwTypeOK
  <2>3. Minded'
    <3>1. st'.held = st.held  BY <2>1 DEF MuInv, Mutexes
    <3>2. pc'[t] = "relock"  BY <1>0, <2>1 DEF WaitInv
    <3>3. SomeThread'  BY <3>2 DEF SomeThread
    <3> QED  BY <2>1, <3>1, <3>3 DEF MuInv, Minded
  <2>4. \A u \in st.spinners \ {t} : pc'[u] = "spin"  BY <1>0, <2>1 DEF WaitInv, Actors
  <2> QED  BY <1>0, <2>1, <2>2, <2>3, <2>4, ThreadGoes, Zenon DEF Places
<1>4. CASE ThreadTakes(t)
  <2>1. /\ pc[t] \notin {"parked", "got"} /\ ~st.held /\ pc' = [pc EXCEPT ![t] = "got"]
        /\ st' = Own(t, st) /\ UNCHANGED <<wq, woken, timer, expired, killed, masked>>
        /\ signalled' = signalled \ {t}
    BY <1>4 DEF ThreadTakes, Roused
  <2>2. WordsOK'  BY <1>0, <2>1, SameWords DEF WaitInv, fwTypeOK
  <2>3. WaitInv'  BY <1>0, <2>1, <2>2, ThreadMoves, Zenon DEF Places
  <2>4. st.handoff \in BOOLEAN /\ st = [st EXCEPT !.handoff = st.handoff]
    BY DEF MuInv, Mutexes
  <2>5. st.handoff => wq' # <<>> /\ Head(wq') = Head(wq)
    BY <2>1 DEF MuInv, HandoffIsDue
  <2> QED  BY <1>0, <2>1, <2>3, <2>4, <2>5, FreeTaken, Zenon
<1> QED  BY <1>1, <1>2, <1>3, <1>4 DEF ThreadStep

(* Time, timers and kills. *)
LEMMA MutexSurroundings ==
  ASSUME MuInv, UNCHANGED st, Surroundings \/ UNCHANGED fwVars
  PROVE  MuInv'
<1>1. WaitInv'  BY SurroundingsKeep, StillKeeps DEF MuInv
<1>2. Quiet  BY SurroundingsQuiet DEF MuInv
<1>3. Holders' = Holders  BY <1>2 DEF Quiet, Holders
<1>4. OneHeld'  BY <1>3 DEF OneHeld, MuInv
<1>5. Granted' /\ Spinning' /\ HandoffIsDue'
  BY <1>2 DEF Quiet, Granted, Spinning, HandoffIsDue, MuInv, Mutexes, Actors
<1>6. Minded'
  <2>1. Asleep' = Asleep  BY <1>2 DEF Quiet, Asleep, Actors
  <2>2. SomeThread => SomeThread'  BY <1>2 DEF Quiet, SomeThread, Roused, Actors
  <2>3. wq # <<>> => Head(wq) \in Fibers  BY TailQueue DEF MuInv, WaitInv
  <2> QED  BY <1>2, <2>1, <2>2, <2>3 DEF Quiet, MuInv, Minded
<1> QED  BY <1>1, <1>4, <1>5, <1>6 DEF MuInv

LEMMA MuInvNext ==
  ASSUME MuInv, Bounds, [Next]_<<fwVars, st>>
  PROVE  MuInv'
  BY LockFastKeeps, NestedKeeps, UnlockKeeps, LockParkKeeps, LockKilledKeeps, FiberKilledKeeps,
     FiberTakesKeeps, FiberGrantedKeeps, FiberWaitsOn, ThreadKeeps, MutexSurroundings
     DEF Next, FiberStep

LEMMA MuInvImplies ==
  ASSUME MuInv
  PROVE  TypeOK /\ OneHolder /\ NotStranded /\ NoWaiterLeft
<1>1. TypeOK
  <2>1. Places = Waiting \cup {"idle", "got", "spin", "relock", "dead"}
    BY DEF Places, Waiting
  <2> QED  BY <2>1 DEF TypeOK, MuInv, WaitInv, Mutexes
<1>2. OneHolder
  <2>1. CASE st.held
    <3>1. PICK h \in Actors : Holders = {h}  BY <2>1 DEF MuInv, OneHeld
    <3>2. Cardinality(Holders) = 1  BY <3>1, FS_Singleton, Zenon
    <3> QED  BY <2>1, <3>2 DEF OneHolder, Holders
  <2>2. CASE ~st.held
    <3>1. Holders = {}  BY <2>2 DEF MuInv, OneHeld
    <3>2. Cardinality(Holders) = 0  BY <3>1, FS_EmptySet
    <3> QED  BY <2>2, <3>2 DEF OneHolder, Holders
  <2> QED  BY <2>1, <2>2
<1>3. NotStranded
  <2> SUFFICES ASSUME ~st.held, wq # <<>> \/ Asleep # {}
               PROVE  \/ \E f \in Fibers : Resumed(f)
                      \/ \E t \in Threads : Roused(t) \/ pc[t] \in {"spin", "relock"}
    BY DEF NotStranded
  <2>1. CASE wq # <<>>
    <3>1. /\ Head(wq) \in Fibers /\ Head(wq) \in Range(wq)
      BY <2>1, TailQueue DEF MuInv, WaitInv
    <3>2. woken[Head(wq)] /\ pc[Head(wq)] = "parked"
      BY <2>1, <3>1 DEF MuInv, Minded, WaitInv
    <3> QED  BY <3>1, <3>2 DEF Resumed
  <2>2. CASE wq = <<>>  BY <2>2 DEF MuInv, Minded, SomeThread
  <2> QED  BY <2>1, <2>2
<1> QED  BY <1>1, <1>2, <1>3, WaitInvImplies DEF MuInv

(* The parking mutex of xtc_amutex_lock, xtc_amutex_unlock and their waits, for any number
   of fibers and threads: its variables keep their types within the code's bounds; it has
   one holder at a time, a fiber it was granted to counted, and is held exactly when it has
   one; a hand-off is only ever pending for a head that lost often enough; a free mutex is
   never left beside a waiter with nobody on the way to it, whoever is killed or times out
   and although wakes are skipped for spinners; and no waiter outlives its wait. *)
THEOREM MutexSafe ==
  ASSUME Bounds
  PROVE  Spec => [](TypeOK /\ OneHolder /\ HandoffIsDue /\ NotStranded /\ NoWaiterLeft)
<1>1. Init => MuInv  BY MuInvInit
<1>2. MuInv /\ [Next]_<<fwVars, st>> => MuInv'  BY MuInvNext
<1>3. MuInv => TypeOK /\ OneHolder /\ HandoffIsDue /\ NotStranded /\ NoWaiterLeft
  BY MuInvImplies DEF MuInv
<1> QED  BY <1>1, <1>2, <1>3, PTL DEF Spec

----------------------------------------------------------------------------
(* The semaphore. *)

SemSpec == SemInit /\ [][SemNext]_<<fwVars, st>>

(* The units out when the callers are at p. *)
Held(p) ==
  Cardinality({a \in Actors : p[a] = "got"} \ Big)
    + BigNeed * Cardinality({a \in Actors : p[a] = "got"} \cap Big)

SemWords ==
  /\ st = [count |-> st.count, calls |-> st.calls]
  /\ st.count \in Nat /\ st.calls \in [Actors -> Nat]

(* Besides the wait's own invariant: the count and what the callers hold add up. *)
SemInv == WaitInv /\ SemWords /\ st.count + Held(pc) = Initial

LEMMA HeldAdds ==
  ASSUME NEW s \in Nat, NEW b \in Nat, NEW n \in Nat
  PROVE  (s + 1) + b = (s + b) + 1 /\ s + (b + n) = (s + b) + n
OBVIOUS

LEMMA HeldType ==
  ASSUME IsFiniteSet(Actors), BigNeed \in Nat, NEW p
  PROVE  Held(p) \in Nat
<1> DEFINE S == {a \in Actors : p[a] = "got"} \ Big
           B == {a \in Actors : p[a] = "got"} \cap Big
<1>1. S \subseteq Actors /\ B \subseteq Actors  OBVIOUS
<1> HIDE DEF S, B
<1>2. Cardinality(S) \in Nat /\ Cardinality(B) \in Nat
  BY <1>1, FS_Subset, FS_CardinalityType
<1>3. Cardinality(S) + BigNeed * Cardinality(B) \in Nat  BY <1>2
<1> QED  BY <1>3 DEF Held, S, B

(* Nobody gets units or gives them back. *)
LEMMA HeldSame ==
  ASSUME NEW p, NEW q, \A b \in Actors : (p[b] = "got") <=> (q[b] = "got")
  PROVE  Held(q) = Held(p)
<1>1. {a \in Actors : p[a] = "got"} = {a \in Actors : q[a] = "got"}  OBVIOUS
<1> QED  BY <1>1 DEF Held

(* One caller more has its units. *)
LEMMA HeldPlus ==
  ASSUME IsFiniteSet(Actors), BigNeed \in Nat, NEW p, NEW q, NEW a \in Actors,
         p[a] # "got", q[a] = "got", \A b \in Actors \ {a} : p[b] = q[b]
  PROVE  Held(q) = Held(p) + Need(a)
<1> DEFINE P == {b \in Actors : p[b] = "got"}
           Q == {b \in Actors : q[b] = "got"}
<1>1. /\ Q = P \cup {a} /\ a \notin P /\ IsFiniteSet(P \ Big) /\ IsFiniteSet(P \cap Big)
  <2>1. Q = P \cup {a} /\ a \notin P  OBVIOUS
  <2>2. P \ Big \subseteq Actors /\ P \cap Big \subseteq Actors  OBVIOUS
  <2> QED  BY <2>1, <2>2, FS_Subset
<1>2. /\ Held(p) = Cardinality(P \ Big) + BigNeed * Cardinality(P \cap Big)
      /\ Held(q) = Cardinality(Q \ Big) + BigNeed * Cardinality(Q \cap Big)
  BY DEF Held
<1> HIDE DEF P, Q
<1>3. Cardinality(P \ Big) \in Nat /\ Cardinality(P \cap Big) \in Nat
  BY <1>1, FS_CardinalityType
<1>4. CASE a \in Big
  <2>1. Q \ Big = P \ Big /\ Q \cap Big = (P \cap Big) \cup {a} /\ a \notin P \cap Big
    BY <1>1, <1>4
  <2>2. Cardinality(Q \cap Big) = Cardinality(P \cap Big) + 1
    BY <1>1, <2>1, CardPlus, Zenon
  <2>3. BigNeed * (Cardinality(P \cap Big) + 1) = BigNeed * Cardinality(P \cap Big) + BigNeed
    BY <1>3
  <2>4. BigNeed * Cardinality(P \cap Big) \in Nat  BY <1>3
  <2>5. Need(a) = BigNeed  BY <1>4 DEF Need
  <2>6. Cardinality(P \ Big) + (BigNeed * Cardinality(P \cap Big) + BigNeed)
          = (Cardinality(P \ Big) + BigNeed * Cardinality(P \cap Big)) + BigNeed
    BY <1>3, <2>4, HeldAdds
  <2>7. Held(q) = Cardinality(P \ Big) + (BigNeed * Cardinality(P \cap Big) + BigNeed)
    BY <1>2, <2>1, <2>2, <2>3, Zenon
  <2> QED  BY <1>2, <2>5, <2>6, <2>7, Zenon
<1>5. CASE a \notin Big
  <2>1. Q \cap Big = P \cap Big /\ Q \ Big = (P \ Big) \cup {a} /\ a \notin P \ Big
    BY <1>1, <1>5
  <2>2. Cardinality(Q \ Big) = Cardinality(P \ Big) + 1
    BY <1>1, <2>1, CardPlus, Zenon
  <2>3. Need(a) = 1  BY <1>5 DEF Need
  <2>4. BigNeed * Cardinality(P \cap Big) \in Nat  BY <1>3
  <2>5. (Cardinality(P \ Big) + 1) + BigNeed * Cardinality(P \cap Big)
          = (Cardinality(P \ Big) + BigNeed * Cardinality(P \cap Big)) + 1
    BY <1>3, <2>4, HeldAdds
  <2>6. Held(q) = (Cardinality(P \ Big) + 1) + BigNeed * Cardinality(P \cap Big)
    BY <1>2, <2>1, <2>2, Zenon
  <2> QED  BY <1>2, <2>3, <2>5, <2>6, Zenon
<1> QED  BY <1>4, <1>5

LEMMA SemInvInit ==
  ASSUME IsFiniteSet(Actors), BigNeed \in Nat, Initial \in Nat, SemInit
  PROVE  SemInv
<1>1. WaitInv  BY WaitInvInit DEF SemInit
<1>2. SemWords /\ st.count = Initial  BY DEF SemInit, SemWords
<1>3. Held(pc) = 0
  <2>1. {a \in Actors : pc[a] = "got"} = {}  BY DEF SemInit, fwInit
  <2>2. Held(pc) = Cardinality({}) + BigNeed * Cardinality({})
    <3>1. {} \ Big = {} /\ {} \cap Big = {}  OBVIOUS
    <3> QED  BY <2>1, <3>1 DEF Held
  <2> QED  BY <2>2, FS_EmptySet
<1> QED  BY <1>1, <1>2, <1>3 DEF SemInv

(* A caller that takes its units is counted ... *)
LEMMA SemTakes ==
  ASSUME IsFiniteSet(Actors), BigNeed \in Nat, SemInv, NEW a \in Actors, pc[a] # "got",
         SemTake(a), pc' = [pc EXCEPT ![a] = "got"]
  PROVE  SemWords' /\ st'.count + Held(pc') = Initial
<1>1. /\ st'.count = st.count - Need(a) /\ st.count >= Need(a) /\ Need(a) \in Nat
      /\ st' = [count |-> st'.count, calls |-> st'.calls] /\ st'.calls \in [Actors -> Nat]
  <2>1. /\ st'.count = st.count - Need(a) /\ st.count >= Need(a)
        /\ st' = [count |-> st'.count, calls |-> st'.calls]
        /\ st'.calls = [st.calls EXCEPT ![a] = @ + 1]
    BY Zenon DEF SemInv, SemWords, SemTake
  <2>2. Need(a) \in Nat  BY DEF Need
  <2>3. st'.calls \in [Actors -> Nat]  BY <2>1 DEF SemInv, SemWords
  <2> QED  BY <2>1, <2>2, <2>3
<1>2. Held(pc') = Held(pc) + Need(a)
  <2>1. pc'[a] = "got" /\ \A b \in Actors \ {a} : pc[b] = pc'[b]  BY DEF SemInv, WaitInv
  <2> QED  BY <2>1, HeldPlus, Zenon
<1>3. Held(pc) \in Nat /\ st.count \in Nat /\ st.count + Held(pc) = Initial
  BY HeldType DEF SemInv, SemWords
<1>4. st'.count \in Nat  BY <1>1, <1>3
<1>5. st'.count + Held(pc') = Initial  BY <1>1, <1>2, <1>3
<1> QED  BY <1>1, <1>4, <1>5 DEF SemWords

(* ... and so is one that posts them. *)
LEMMA SemPosts ==
  ASSUME IsFiniteSet(Actors), BigNeed \in Nat, SemInv, NEW a \in Actors, Post(a)
  PROVE  SemInv'
<1>1. /\ st'.count = st.count + Need(a) /\ Need(a) \in Nat /\ pc[a] = "got"
      /\ st' = [count |-> st'.count, calls |-> st'.calls] /\ st'.calls \in [Actors -> Nat]
      /\ pc' = [pc EXCEPT ![a] = "idle"]
  BY DEF SemInv, SemWords, Post, Need
<1>2. Held(pc) = Held(pc') + Need(a)
  <2>1. pc'[a] # "got" /\ \A b \in Actors \ {a} : pc'[b] = pc[b]  BY <1>1 DEF SemInv, WaitInv
  <2> QED  BY <1>1, <2>1, HeldPlus, ZenonT(60)
<1>3. Held(pc') \in Nat /\ st.count \in Nat /\ st.count + Held(pc) = Initial
  BY HeldType DEF SemInv, SemWords
<1>4. st'.count \in Nat  BY <1>1, <1>3
<1>5. st'.count + Held(pc') = Initial  BY <1>1, <1>2, <1>3
<1>6. WaitInv'
  <2>1. /\ WaitInv /\ UNCHANGED <<wq, timer, expired, killed, masked>>
        /\ woken' \in [Fibers -> BOOLEAN] /\ signalled' \subseteq Threads
    BY DEF SemInv, WaitInv, fwTypeOK, Post
  <2>2. WordsOK'  BY <2>1, SameWords
  <2>3. a \notin Range(wq) \cup timer  BY <1>1, <2>1 DEF WaitInv
  <2>4. Queue(wq') /\ Range(wq') = Range(wq)  BY <2>1 DEF WaitInv
  <2> QED  BY <1>1, <2>1, <2>2, <2>3, <2>4, MoveKeeps, Zenon DEF Places
<1> QED  BY <1>1, <1>4, <1>5, <1>6 DEF SemInv, SemWords

(* The other steps move no units: nobody has got them or gives them back. *)
LEMMA SemStays ==
  ASSUME SemInv, UNCHANGED st, \A b \in Actors : (pc[b] = "got") <=> (pc'[b] = "got")
  PROVE  SemWords' /\ st'.count + Held(pc') = Initial
<1>1. Held(pc') = Held(pc)  BY HeldSame
<1> QED  BY <1>1 DEF SemInv, SemWords

LEMMA SemFiberKeeps ==
  ASSUME IsFiniteSet(Actors), BigNeed \in Nat, SemInv, NEW f \in Fibers,
         AcquirePark(f) \/ AcquireKilled(f) \/ SemFiberStep(f)
  PROVE  SemInv'
<1>0. /\ WaitInv /\ f \in Actors /\ signalled \subseteq Threads
  BY DEF SemInv, WaitInv, fwTypeOK, Actors
<1>1. CASE AcquirePark(f)
  <2>1. WaitInv'  BY <1>0, <1>1, StartsParking DEF AcquirePark
  <2>2. \A b \in Actors : (pc[b] = "got") <=> (pc'[b] = "got")
    BY <1>0, <1>1 DEF AcquirePark, StartPark, Park, WaitInv
  <2> QED  BY <1>1, <2>1, <2>2, SemStays DEF AcquirePark, SemInv
<1>5. CASE AcquireKilled(f)
  <2>1. WaitInv'  BY <1>0, <1>5, StartsDying DEF AcquireKilled
  <2>2. \A b \in Actors : (pc[b] = "got") <=> (pc'[b] = "got")
    BY <1>0, <1>5 DEF AcquireKilled, StartKilled, Leave, WaitInv
  <2> QED  BY <1>5, <2>1, <2>2, SemStays DEF AcquireKilled, SemInv
<1>2. CASE SemFiberKilled(f) \/ SemFiberTimesOut(f)
  <2>1. PICK x \in {"deliver", "idle"} :
          Leave(f, fw_remove(wq, f), sem_wake_locked(st.count, fw_remove(wq, f)), x)
    BY <1>2 DEF SemFiberKilled, SemFiberTimesOut
  <2>2. /\ UNCHANGED <<expired, killed, masked, signalled, st>> /\ pc[f] # "got"
    BY <1>2 DEF SemFiberKilled, SemFiberTimesOut, Resumed
  <2>3. WaitInv'  BY <1>0, <2>1, <2>2, LeavesQueue DEF Places
  <2>4. \A b \in Actors : (pc[b] = "got") <=> (pc'[b] = "got")
    BY <1>0, <2>1, <2>2 DEF Leave, WaitInv
  <2> QED  BY <2>2, <2>3, <2>4, SemStays DEF SemInv
<1>3. CASE SemFiberTakes(f)
  <2>1. PICK W : Leave(f, fw_remove(wq, f), W, "got")
    BY <1>3 DEF SemFiberTakes
  <2>2. /\ UNCHANGED <<expired, killed, masked, signalled>> /\ pc[f] # "got" /\ SemTake(f)
    BY <1>3 DEF SemFiberTakes, Resumed
  <2>3. WaitInv'  BY <1>0, <2>1, <2>2, LeavesQueue DEF Places
  <2>4. pc' = [pc EXCEPT ![f] = "got"]  BY <2>1 DEF Leave
  <2> QED  BY <1>0, <2>2, <2>3, <2>4, SemTakes, Zenon DEF SemInv
<1>4. CASE SemFiberParks(f)
  <2>1. WaitInv'  BY <1>0, <1>4, ParksAgain DEF SemFiberParks
  <2>2. \A b \in Actors : (pc[b] = "got") <=> (pc'[b] = "got")
    BY <1>0, <1>4 DEF SemFiberParks, Resumed, Park, WaitInv
  <2> QED  BY <1>4, <2>1, <2>2, SemStays DEF SemFiberParks, SemInv
<1> QED  BY <1>1, <1>2, <1>3, <1>4, <1>5 DEF SemFiberStep

LEMMA SemThreadKeeps ==
  ASSUME IsFiniteSet(Actors), BigNeed \in Nat, SemInv, NEW t \in Threads,
         SemThreadSleeps(t) \/ SemThreadTakes(t) \/ SemThreadTimesOut(t)
  PROVE  SemInv'
<1>0. /\ WaitInv /\ t \in Actors
  BY DEF SemInv, Actors
<1>1. /\ UNCHANGED <<wq, woken, timer>> /\ pc[t] # "parked" /\ pc[t] # "got"
  BY DEF SemThreadSleeps, SemThreadTakes, SemThreadTimesOut, Roused
<1>2. WordsOK'
  BY <1>0, Zenon DEF SemThreadSleeps, SemThreadTakes, SemThreadTimesOut, Sleep, WaitInv, fwTypeOK, WordsOK
<1>3. CASE SemThreadTakes(t)
  <2>1. pc' = [pc EXCEPT ![t] = "got"] /\ SemTake(t)  BY <1>3 DEF SemThreadTakes
  <2>2. WaitInv'  BY <1>0, <1>1, <1>2, <2>1, ThreadMoves, Zenon DEF Places
  <2> QED  BY <1>0, <1>1, <2>1, <2>2, SemTakes, Zenon DEF SemInv
<1>4. CASE SemThreadSleeps(t) \/ SemThreadTimesOut(t)
  <2>1. PICK x \in {"idle", "asleep"} : pc' = [pc EXCEPT ![t] = x]
    BY <1>4 DEF SemThreadSleeps, SemThreadTimesOut, Sleep
  <2>2. UNCHANGED st  BY <1>4 DEF SemThreadSleeps, SemThreadTimesOut
  <2>3. WaitInv'  BY <1>0, <1>1, <1>2, <2>1, ThreadMoves, Zenon DEF Places
  <2>4. \A b \in Actors : (pc[b] = "got") <=> (pc'[b] = "got")
    BY <1>0, <1>1, <2>1 DEF WaitInv
  <2> QED  BY <2>2, <2>3, <2>4, SemStays DEF SemInv
<1> QED  BY <1>3, <1>4

LEMMA SemRestKeeps ==
  ASSUME IsFiniteSet(Actors), BigNeed \in Nat, SemInv,
         \/ \E a \in Actors : AcquireFast(a)
         \/ Surroundings /\ UNCHANGED st
         \/ UNCHANGED <<fwVars, st>>
  PROVE  SemInv'
<1>0. WaitInv /\ Fibers \subseteq Actors  BY DEF SemInv, Actors
<1>1. ASSUME NEW a \in Actors, AcquireFast(a) PROVE SemInv'
  <2>1. /\ pc' = [pc EXCEPT ![a] = "got"] /\ SemTake(a) /\ pc[a] = "idle"
        /\ UNCHANGED <<wq, woken, timer, expired, killed, masked, signalled>>
    BY <1>1 DEF AcquireFast
  <2>2. WordsOK'  BY <1>0, <2>1, SameWords DEF WaitInv, fwTypeOK
  <2>3. a \notin Range(wq) \cup timer  BY <1>0, <2>1 DEF WaitInv
  <2>4. WaitInv'  BY <1>0, <2>1, <2>2, <2>3, MoveKeeps, Zenon DEF WaitInv, fwTypeOK, Places
  <2> QED  BY <2>1, <2>4, SemTakes, Zenon DEF SemInv
<1>2. CASE Surroundings /\ UNCHANGED st
  <2>1. WaitInv'  BY <1>0, <1>2, SurroundingsKeep
  <2>2. \A b \in Actors : (pc[b] = "got") <=> (pc'[b] = "got")
    BY <1>0, <1>2 DEF Surroundings, FiberSurroundings, DeadlinePasses, Kill, TimerFires,
                     KillUnwinds, KillDeferred, WaitInv
  <2> QED  BY <1>2, <2>1, <2>2, SemStays DEF SemInv
<1>3. CASE UNCHANGED <<fwVars, st>>
  <2>1. WaitInv' /\ UNCHANGED st /\ pc' = pc
    BY <1>0, <1>3, StillKeeps DEF fwVars
  <2> QED  BY <2>1, SemStays DEF SemInv
<1> QED  BY <1>1, <1>2, <1>3

(* The semaphore of xtc_sem_acquire, xtc_sem_try_acquire and xtc_sem_post, for any number of
   callers, any need and any count: units are neither made nor lost, whichever waits time
   out, are killed or are beaten to the units they were woken for; and no waiter, which is
   in its caller's stack frame, outlives its wait. *)
THEOREM SemSafe ==
  ASSUME IsFiniteSet(Actors), BigNeed \in Nat, Initial \in Nat
  PROVE  SemSpec => [](UnitsConserved /\ NoWaiterLeft)
<1>1. SemInit => SemInv  BY SemInvInit
<1>2. SemInv /\ [SemNext]_<<fwVars, st>> => SemInv'
  BY SemPosts, SemFiberKeeps, SemThreadKeeps, SemRestKeeps DEF SemNext
<1>3. SemInv => UnitsConserved /\ NoWaiterLeft
  <2> SUFFICES ASSUME SemInv PROVE UnitsConserved /\ NoWaiterLeft  OBVIOUS
  <2>1. /\ st.count \in Nat /\ st.count + Held(pc) = Initial  BY DEF SemInv, SemWords
  <2> DEFINE S == Cardinality({a \in Actors : pc[a] = "got"} \ Big)
             B == Cardinality({a \in Actors : pc[a] = "got"} \cap Big)
  <2>2. S \in Nat /\ BigNeed * B \in Nat
    <3>1. /\ {a \in Actors : pc[a] = "got"} \ Big \subseteq Actors
          /\ {a \in Actors : pc[a] = "got"} \cap Big \subseteq Actors  OBVIOUS
    <3>2. S \in Nat /\ B \in Nat  BY <3>1, FS_Subset, FS_CardinalityType
    <3> HIDE DEF S, B
    <3> QED  BY <3>2
  <2>3. Held(pc) = S + BigNeed * B  BY DEF Held
  <2>4. UnitsConserved <=> st.count + S + BigNeed * B = Initial  BY DEF UnitsConserved
  <2> HIDE DEF S, B
  <2>5. st.count + S + BigNeed * B = Initial  BY <2>1, <2>2, <2>3
  <2> QED  BY <2>4, <2>5, WaitInvImplies DEF SemInv
<1> QED  BY <1>1, <1>2, <1>3, PTL DEF SemSpec
=============================================================================
