----------------------------- MODULE WaitProofs -----------------------------
(***************************************************************************)
(* Facts about the wait of FiberWait that the proofs of the primitives     *)
(* share: what the queue operations return, and that the steps of a wait   *)
(* keep the queue, the park timers and the callers' states together.       *)
(***************************************************************************)
EXTENDS FiberWait, FiniteSetTheorems, TLAPS

(* Adding a member to a finite set counts one more. *)
LEMMA CardPlus ==
  ASSUME NEW S, NEW T, NEW x, IsFiniteSet(S), x \notin S, T = S \cup {x}
  PROVE  IsFiniteSet(T) /\ Cardinality(T) = Cardinality(S) + 1 /\ Cardinality(S) \in Nat
  BY FS_AddElement, FS_CardinalityType

(* Taking a member out of a finite set counts one less. *)
LEMMA CardMinus ==
  ASSUME NEW S, NEW T, NEW x, IsFiniteSet(S), x \in S, T = S \ {x}
  PROVE  /\ IsFiniteSet(T) /\ Cardinality(T) = Cardinality(S) - 1
         /\ Cardinality(S) \in Nat /\ Cardinality(T) \in Nat
  BY FS_RemoveElement, FS_CardinalityType

(* A queue in which nobody is twice. *)
Queue(q) == q \in Seq(Fibers) /\ IsInjective(q)

(* fw_enqueue adds the waiter behind the others. *)
LEMMA EnqueueQueue ==
  ASSUME NEW q, Queue(q), NEW f \in Fibers
  PROVE  /\ Queue(fw_enqueue(q, f))
         /\ Range(fw_enqueue(q, f)) = Range(q) \cup {f}
         /\ fw_enqueue(q, f) # <<>>
         /\ q # <<>> => Head(fw_enqueue(q, f)) = Head(q)
<1>1. CASE f \in Range(q)
  BY <1>1 DEF Queue, fw_enqueue, Range
<1>2. CASE f \notin Range(q)
  <2>1. fw_enqueue(q, f) = Append(q, f) /\ Append(q, f) \in Seq(Fibers)
    BY <1>2 DEF Queue, fw_enqueue
  <2>2. IsInjective(Append(q, f))
    BY <1>2 DEF Queue, IsInjective, Range
  <2>3. Range(Append(q, f)) = Range(q) \cup {f}
    <3>1. \A x \in Range(q) : x \in Range(Append(q, f))
      BY DEF Queue, Range
    <3>2. f \in Range(Append(q, f))
      <4>1. Len(q) + 1 \in DOMAIN Append(q, f) /\ Append(q, f)[Len(q) + 1] = f
        BY DEF Queue
      <4> QED  BY <4>1 DEF Range
    <3>3. \A x \in Range(Append(q, f)) : x \in Range(q) \cup {f}
      BY DEF Queue, Range
    <3> QED  BY <3>1, <3>2, <3>3
  <2> QED  BY <2>1, <2>2, <2>3 DEF Queue
<1> QED  BY <1>1, <1>2

(* fw_remove unlinks the waiter and leaves the others in their order. *)
LEMMA RemoveQueue ==
  ASSUME NEW q, Queue(q), NEW f
  PROVE  /\ Queue(fw_remove(q, f))
         /\ Range(fw_remove(q, f)) = Range(q) \ {f}
         /\ q # <<>> /\ Head(q) # f =>
              fw_remove(q, f) # <<>> /\ Head(fw_remove(q, f)) = Head(q)
<1>1. CASE f \notin Range(q)
  BY <1>1 DEF Queue, fw_remove
<1>2. CASE f \in Range(q)
  <2> DEFINE i == CHOOSE i \in DOMAIN q : q[i] = f
             r == [j \in 1 .. Len(q) - 1 |-> IF j < i THEN q[j] ELSE q[j + 1]]
  <2>1. i \in 1 .. Len(q) /\ q[i] = f
    BY <1>2 DEF Queue, Range
  <2>2. fw_remove(q, f) = r
    BY <1>2 DEF fw_remove
  <2> HIDE DEF i
  <2>3. Len(q) \in Nat /\ Len(q) >= 1 /\ q \in [1 .. Len(q) -> Fibers]
    BY <2>1 DEF Queue
  <2>4. r \in Seq(Fibers) /\ Len(r) = Len(q) - 1 /\ DOMAIN r = 1 .. Len(q) - 1
    BY <2>1, <2>3
  <2>5. IsInjective(r)
    BY <2>1, <2>3, <2>4 DEF Queue, IsInjective
  <2>6. \A x \in Range(r) : x \in Range(q) \ {f}
    BY <2>1, <2>3, <2>4 DEF Queue, IsInjective, Range
  <2>7. ASSUME NEW x \in Range(q), x # f PROVE x \in Range(r)
    <3>1. PICK k \in 1 .. Len(q) : q[k] = x  BY <2>7, <2>3 DEF Range
    <3>2. CASE k < i
      <4>1. k \in DOMAIN r /\ r[k] = x  BY <3>1, <3>2, <2>1, <2>3, <2>4
      <4> QED  BY <4>1 DEF Range
    <3>3. CASE k > i
      <4>1. k - 1 \in DOMAIN r /\ r[k - 1] = x  BY <3>1, <3>3, <2>1, <2>3, <2>4
      <4> QED  BY <4>1 DEF Range
    <3> QED  BY <3>1, <3>2, <3>3, <2>1, <2>3, <2>7
  <2>8. q # <<>> /\ Head(q) # f => r # <<>> /\ Head(r) = Head(q)
    <3> SUFFICES ASSUME Head(q) # f PROVE r # <<>> /\ Head(r) = Head(q)  OBVIOUS
    <3>1. Head(q) = q[1]  BY <2>3 DEF Queue
    <3>2. i > 1 /\ Len(q) > 1 /\ 1 \in DOMAIN r  BY <2>1, <2>3, <2>4, <3>1
    <3>3. r[1] = q[1]  BY <3>2
    <3>4. Len(r) # 0
      <4> HIDE DEF r
      <4> QED  BY <2>3, <2>4, <3>2
    <3> HIDE DEF r
    <3>5. r # <<>> /\ Head(r) = r[1]  BY <2>4, <3>4
    <3> QED  BY <3>1, <3>3, <3>5
  <2> QED  BY <2>2, <2>4, <2>5, <2>6, <2>7, <2>8 DEF Queue
<1> QED  BY <1>1, <1>2

(* Popping the head. *)
LEMMA TailQueue ==
  ASSUME NEW q, Queue(q), q # <<>>
  PROVE  /\ Queue(Tail(q)) /\ Head(q) \in Fibers /\ Head(q) \in Range(q)
         /\ Range(Tail(q)) = Range(q) \ {Head(q)}
<1>1. q \in [1 .. Len(q) -> Fibers] /\ Len(q) \in Nat /\ Len(q) >= 1 /\ Head(q) = q[1]
  BY DEF Queue
<1>2. Tail(q) \in Seq(Fibers) /\ Len(Tail(q)) = Len(q) - 1
      /\ \A k \in 1 .. Len(q) - 1 : Tail(q)[k] = q[k + 1]
  BY <1>1 DEF Queue
<1>3. DOMAIN Tail(q) = 1 .. Len(q) - 1  BY <1>2
<1>4. IsInjective(Tail(q))  BY <1>1, <1>2, <1>3 DEF Queue, IsInjective
<1>5. 1 \in DOMAIN q /\ q[1] \in Fibers  BY <1>1
<1>6. \A x \in Range(Tail(q)) : x \in Range(q) \ {Head(q)}
  BY <1>1, <1>2, <1>3 DEF Queue, IsInjective, Range
<1>7. ASSUME NEW x \in Range(q), x # Head(q) PROVE x \in Range(Tail(q))
  <2>1. PICK k \in 1 .. Len(q) : q[k] = x  BY <1>7, <1>1 DEF Range
  <2>2. k - 1 \in DOMAIN Tail(q) /\ Tail(q)[k - 1] = x  BY <2>1, <1>1, <1>2, <1>3, <1>7
  <2> QED  BY <2>2 DEF Range
<1> QED  BY <1>1, <1>2, <1>4, <1>5, <1>6, <1>7, Zenon DEF Queue, Range

----------------------------------------------------------------------------
(* Where a caller of a primitive can be. *)
Places == {"idle", "parked", "deliver", "retry", "asleep", "dead", "got", "spin", "relock"}

(* The words of the wait but the queue, the wakers and the timers. *)
WordsOK ==
  /\ expired \in [Actors -> BOOLEAN]
  /\ killed \in [Fibers -> BOOLEAN]
  /\ masked \in [Fibers -> 0 .. 2]
  /\ signalled \subseteq Threads

(* The queue, the park timers and the callers' states belong together: who is
   queued, and whose timer is armed, is parked. *)
WaitInv ==
  /\ pc \in [Actors -> Places]
  /\ fwTypeOK
  /\ Queue(wq)
  /\ \A f \in Range(wq) : pc[f] = "parked"
  /\ \A f \in timer : pc[f] = "parked"

LEMMA WaitInvInit == fwInit => WaitInv
<1> SUFFICES ASSUME fwInit PROVE WaitInv  OBVIOUS
<1>1. Queue(wq) /\ Range(wq) = {}  BY DEF fwInit, Queue, IsInjective, Range
<1>2. fwTypeOK /\ pc \in [Actors -> Places] /\ timer = {}
  BY <1>1 DEF fwInit, fwTypeOK, Queue, Places
<1> QED  BY <1>1, <1>2 DEF WaitInv

(* Together they say that no waiter outlives its wait. *)
LEMMA WaitInvImplies == WaitInv => NoWaiterLeft
  BY DEF WaitInv, NoWaiterLeft, Queue

(* A step in which one caller moves, and leaves the queue and the timers unless it
   parks, keeps it. *)
LEMMA MoveKeeps ==
  ASSUME WaitInv, NEW a \in Actors, NEW x \in Places, pc' = [pc EXCEPT ![a] = x],
         Queue(wq'), Range(wq') \subseteq Range(wq), timer' \subseteq timer,
         x = "parked" \/ a \notin Range(wq') \cup timer',
         woken' \in [Fibers -> BOOLEAN], WordsOK'
  PROVE  WaitInv'
<1>1. fwTypeOK'  BY Zenon DEF WaitInv, fwTypeOK, WordsOK, Queue
<1>2. pc' \in [Actors -> Places]  BY DEF WaitInv
<1>3. Range(wq) \subseteq Fibers /\ Fibers \subseteq Actors
  BY DEF WaitInv, Queue, Range, Actors
<1>4. \A f \in Range(wq') \cup timer' : pc'[f] = "parked"
  BY <1>3 DEF WaitInv, fwTypeOK
<1> QED  BY <1>1, <1>2, <1>4 DEF WaitInv

(* A step that moves nobody keeps it. *)
LEMMA RestKeeps ==
  ASSUME WaitInv, pc' = pc, Queue(wq'), Range(wq') \subseteq Range(wq),
         timer' \subseteq timer, woken' \in [Fibers -> BOOLEAN], WordsOK'
  PROVE  WaitInv'
  BY DEF WaitInv, fwTypeOK, WordsOK, Queue

(* WakeAll sets wakers. *)
LEMMA WakeAllType ==
  ASSUME WaitInv, NEW W, NEW a, WakeAll(W, a)
  PROVE  woken' \in [Fibers -> BOOLEAN]
  BY DEF WaitInv, fwTypeOK, WakeAll

(* StartWait resets the deadline and the mask of the caller. *)
LEMMA StartWaitWords ==
  ASSUME WaitInv, NEW a \in Actors, StartWait(a), UNCHANGED <<killed, signalled>>
  PROVE  WordsOK'
  BY DEF WaitInv, fwTypeOK, WordsOK, StartWait

LEMMA SameWords ==
  ASSUME WaitInv, UNCHANGED <<expired, killed, masked>>, signalled' \subseteq Threads
  PROVE  WordsOK'
  BY DEF WaitInv, fwTypeOK, WordsOK

(* A fiber parks. *)
LEMMA ParkKeeps ==
  ASSUME WaitInv, NEW f \in Fibers, NEW W, Park(f, wq, W), WordsOK'
  PROVE  WaitInv'
<1>1. /\ wq' = fw_enqueue(wq, f) /\ Queue(wq') /\ Range(wq') = Range(wq) \cup {f}
      /\ timer' \subseteq timer \cup {f} /\ pc' = [pc EXCEPT ![f] = "parked"]
  BY EnqueueQueue DEF Park, WaitInv
<1>2. woken' \in [Fibers -> BOOLEAN]  BY WakeAllType DEF Park
<1>3. fwTypeOK'  BY <1>1, <1>2 DEF WaitInv, fwTypeOK, WordsOK, Queue
<1>4. Range(wq) \subseteq Fibers /\ Fibers \subseteq Actors
  BY DEF WaitInv, Queue, Range, Actors
<1>5. \A g \in Range(wq') \cup timer' : pc'[g] = "parked"
  BY <1>1, <1>4 DEF WaitInv, fwTypeOK
<1>6. pc' \in [Actors -> Places]  BY <1>1, Zenon DEF WaitInv, Places
<1> QED  BY <1>1, <1>3, <1>5, <1>6 DEF WaitInv

(* A fiber leaves its wait: it is off the queue and its timer is cancelled. *)
LEMMA LeaveKeeps ==
  ASSUME WaitInv, NEW f \in Fibers, NEW q, NEW W, NEW x \in Places, Leave(f, q, W, x),
         Queue(q), Range(q) \subseteq Range(wq), f \notin Range(q), WordsOK'
  PROVE  WaitInv'
<1>1. woken' \in [Fibers -> BOOLEAN]  BY WakeAllType DEF Leave
<1>2. f \in Actors  BY DEF Actors
<1> QED  BY <1>1, <1>2, MoveKeeps, Zenon DEF Leave

(* Time, timers and kills keep it. *)
LEMMA SurroundingsKeep ==
  ASSUME WaitInv, Surroundings
  PROVE  WaitInv'
<1>1. ASSUME NEW a \in Actors, DeadlinePasses(a) PROVE WaitInv'
  BY <1>1 DEF DeadlinePasses, WaitInv, fwTypeOK
<1>2. ASSUME NEW f \in Fibers, Kill(f) PROVE WaitInv'
  BY <1>2 DEF Kill, WaitInv, fwTypeOK
<1>3. ASSUME NEW f \in Fibers, TimerFires(f) PROVE WaitInv'
  BY <1>3 DEF TimerFires, WaitInv, fwTypeOK
<1>4. ASSUME NEW f \in Fibers, KillUnwinds(f) \/ KillDeferred(f) PROVE WaitInv'
  <2>1. f \notin Range(wq) \cup timer /\ f \in Actors
    BY <1>4 DEF KillUnwinds, KillDeferred, WaitInv, Actors
  <2>2. WordsOK'  BY <1>4 DEF KillUnwinds, KillDeferred, WaitInv, fwTypeOK, WordsOK
  <2>3. PICK x \in {"dead", "retry"} : pc' = [pc EXCEPT ![f] = x]
    BY <1>4 DEF KillUnwinds, KillDeferred
  <2>4. wq' = wq /\ timer' = timer /\ woken' = woken
    BY <1>4 DEF KillUnwinds, KillDeferred
  <2> QED  BY <2>1, <2>2, <2>3, <2>4, MoveKeeps, Zenon DEF WaitInv, fwTypeOK, Places
<1> QED  BY <1>1, <1>2, <1>3, <1>4 DEF Surroundings, FiberSurroundings

(* A step that touches nothing of the wait keeps it. *)
LEMMA StillKeeps ==
  ASSUME WaitInv, UNCHANGED fwVars
  PROVE  WaitInv'
  BY DEF WaitInv, fwVars, fwTypeOK, Queue

(* A thread moves: it is neither queued nor has it a park timer. *)
LEMMA ThreadMoves ==
  ASSUME WaitInv, NEW t \in Threads, pc[t] # "parked", NEW x \in Places,
         pc' = [pc EXCEPT ![t] = x], UNCHANGED <<wq, woken, timer>>, WordsOK'
  PROVE  WaitInv'
<1>1. t \in Actors /\ t \notin Range(wq) \cup timer  BY DEF WaitInv, Actors
<1> QED  BY <1>1, MoveKeeps, Zenon DEF WaitInv, fwTypeOK

(* A fiber leaves the queue and its wait. *)
LEMMA LeavesQueue ==
  ASSUME WaitInv, NEW f \in Fibers, NEW W, NEW x \in Places,
         Leave(f, fw_remove(wq, f), W, x),
         UNCHANGED <<expired, killed, masked>>, signalled' \subseteq Threads
  PROVE  WaitInv'
<1>1. /\ Queue(fw_remove(wq, f)) /\ Range(fw_remove(wq, f)) \subseteq Range(wq)
      /\ f \notin Range(fw_remove(wq, f))
  BY RemoveQueue DEF WaitInv
<1> QED  BY <1>1, SameWords, LeaveKeeps

(* A fiber parks for the first time, or again. *)
LEMMA StartsParking ==
  ASSUME WaitInv, NEW f \in Fibers, NEW W, StartPark(f, W)
  PROVE  WaitInv'
<1>1. f \in Actors  BY DEF Actors
<1>2. StartWait(f) /\ Park(f, wq, W) /\ UNCHANGED <<killed, signalled>>  BY DEF StartPark
<1> QED  BY <1>1, <1>2, StartWaitWords, ParkKeeps

(* A fiber that a kill precedes turns back before it is queued. *)
LEMMA StartsDying ==
  ASSUME WaitInv, NEW f \in Fibers, NEW W, pc[f] = "idle", StartKilled(f, W)
  PROVE  WaitInv'
<1>1. /\ StartWait(f) /\ Leave(f, wq, W, "deliver") /\ UNCHANGED <<killed, signalled>>
      /\ f \in Actors
  BY DEF StartKilled, Actors
<1>2. WordsOK'  BY <1>1, StartWaitWords
<1>3. f \notin Range(wq) /\ Queue(wq)  BY DEF WaitInv
<1> QED  BY <1>1, <1>2, <1>3, LeaveKeeps DEF Places

LEMMA ParksAgain ==
  ASSUME WaitInv, NEW f \in Fibers, NEW W, Park(f, wq, W),
         UNCHANGED <<expired, killed, masked, signalled>>
  PROVE  WaitInv'
<1>1. signalled' \subseteq Threads  BY DEF WaitInv, fwTypeOK
<1> QED  BY <1>1, SameWords, ParkKeeps

(* Time, timers and kills move only a fiber that a kill is being delivered to, and undo
   no wake. *)
Quiet ==
  /\ wq' = wq /\ signalled' = signalled
  /\ \A a \in Actors : expired[a] => expired'[a]
  /\ \A a \in Actors : pc[a] # "deliver" => pc'[a] = pc[a]
  /\ \A a \in Actors : pc[a] = "deliver" => pc'[a] \in {"deliver", "dead", "retry"}
  /\ \A f \in Fibers : woken[f] => woken'[f]

LEMMA SurroundingsQuiet ==
  ASSUME WaitInv, Surroundings \/ UNCHANGED fwVars
  PROVE  Quiet
<1>1. ASSUME NEW a \in Actors, DeadlinePasses(a) PROVE Quiet
  BY <1>1 DEF DeadlinePasses, WaitInv, fwTypeOK, Quiet
<1>2. ASSUME NEW f \in Fibers, Kill(f) \/ TimerFires(f) PROVE Quiet
  BY <1>2 DEF Kill, TimerFires, WaitInv, fwTypeOK, Quiet
<1>3. ASSUME NEW f \in Fibers, KillUnwinds(f) \/ KillDeferred(f) PROVE Quiet
  <2>1. PICK x \in {"dead", "retry"} : pc' = [pc EXCEPT ![f] = x]
    BY <1>3 DEF KillUnwinds, KillDeferred
  <2>2. /\ pc[f] = "deliver" /\ wq' = wq /\ signalled' = signalled /\ expired' = expired
        /\ woken' = woken
    BY <1>3 DEF KillUnwinds, KillDeferred
  <2>3. pc'[f] = x /\ \A a \in Actors \ {f} : pc'[a] = pc[a]
    BY <2>1 DEF WaitInv, Actors
  <2> QED  BY <2>2, <2>3 DEF Quiet
<1>4. ASSUME UNCHANGED fwVars PROVE Quiet
  <2>1. /\ wq' = wq /\ signalled' = signalled /\ expired' = expired /\ woken' = woken
        /\ pc' = pc
    BY <1>4 DEF fwVars
  <2> QED  BY <2>1 DEF Quiet
<1> QED  BY <1>1, <1>2, <1>3, <1>4 DEF Surroundings, FiberSurroundings
=============================================================================
