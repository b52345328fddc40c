---------------------------- MODULE SchedProofs ----------------------------
(* Proofs about Sched for any sets of tasks, loops and threads. *)
EXTENDS Sched, TLAPS

USE PinnedAssumption, HomeAssumption, NoneAssumption, ActorAssumption

(* Enqueuing the tasks of S on loop l splits them between its two queues. *)
LEMMA EnqueueEffect ==
    ASSUME NEW l, NEW S, Enqueue(l, S)
    PROVE  \E D \in SUBSET S :
              /\ D \cap Pinned = {}
              /\ deque' = [deque EXCEPT ![l] = @ \cup D]
              /\ fifo' = [fifo EXCEPT ![l] = @ \cup (S \ D)]
  BY Zenon DEF Enqueue

(* Enqueuing a single task puts it on one of the two queues. *)
LEMMA EnqueueOne ==
    ASSUME NEW l, NEW t, Enqueue(l, {t})
    PROVE  \/ /\ t \notin Pinned
              /\ deque' = [deque EXCEPT ![l] = @ \cup {t}]
              /\ fifo' = [fifo EXCEPT ![l] = @ \cup {}]
           \/ /\ deque' = [deque EXCEPT ![l] = @ \cup {}]
              /\ fifo' = [fifo EXCEPT ![l] = @ \cup {t}]
<1>1. PICK D \in SUBSET ({t} \ Pinned) :
          /\ deque' = [deque EXCEPT ![l] = @ \cup D]
          /\ fifo' = [fifo EXCEPT ![l] = @ \cup ({t} \ D)]
  BY ZenonT(60) DEF Enqueue
<1>2. CASE t \in D
  <2>1. D = {t} /\ {t} \ D = {} /\ t \notin Pinned
    BY <1>2
  <2> QED BY <1>1, <2>1, Zenon
<1>3. CASE t \notin D
  <2>1. D = {} /\ {t} \ D = {t}
    BY <1>3
  <2> QED BY <1>1, <2>1
<1> QED BY <1>2, <1>3

(* Enqueuing keeps the run queues sets of tasks. *)
LEMMA EnqueueTypes ==
    ASSUME QueueTypes, NEW l \in Loops, NEW S \in SUBSET Tasks, Enqueue(l, S)
    PROVE  fifo' \in [Loops -> SUBSET Tasks] /\ deque' \in [Loops -> SUBSET Tasks]
  BY EnqueueEffect DEF QueueTypes

(* A call frame that is set as a whole stays well formed. *)
LEMMA FrameEffect ==
    ASSUME FrameTypes, FrameCoherent,
           NEW a \in Actors, NEW pc \in FrameSteps,
           NEW l \in Loops \cup {None}, NEW t \in Tasks \cup {None},
           t # None <=> pc \in AboutTask,
           l # None <=> pc # "idle",
           pc \in Handing => (pc = "enqueue" <=> l = a),
           Frame(a, pc, l, t)
    PROVE  FrameTypes' /\ FrameCoherent'
  BY DEF FrameTypes, FrameCoherent, Frame

(* A call that returns leaves a well-formed frame. *)
LEMMA ReturnEffect ==
    ASSUME FrameTypes, FrameCoherent, NEW a \in Actors, Return(a)
    PROVE  FrameTypes' /\ FrameCoherent'
<1>1. "idle" \in FrameSteps /\ "idle" \notin AboutTask /\ "idle" \notin Handing
  BY DEF FrameSteps, AboutTask, Claiming, Handing
<1> QED
  BY <1>1, FrameEffect DEF Return

(* A call that only moves on stays about the same task and loop. *)
LEMMA GotoEffect ==
    ASSUME FrameTypes, FrameCoherent,
           NEW a \in Actors, NEW pc \in FrameSteps,
           fpc[a] \in AboutTask <=> pc \in AboutTask,
           fpc[a] # "idle", pc # "idle", pc \notin Handing, Goto(a, pc)
    PROVE  FrameTypes' /\ FrameCoherent'
  BY DEF FrameTypes, FrameCoherent, Goto

(* The initial state is well typed. *)
LEMMA TypeInit == Init => TypeOK
  BY DEF Init, TypeOK, TaskTypes, QueueTypes, LoopTypes, FrameTypes, LoopCoherent,
         FrameCoherent, TaskStates, LoopSteps, FrameSteps, Actors, WithTask,
         AboutTask, Claiming, Handing

(* Every step keeps the types and the call frames well formed. *)
LEMMA TypeStep == TypeOK /\ [Next]_vars => TypeOK'
<1> SUFFICES ASSUME TypeOK, [Next]_vars PROVE TypeOK'
  OBVIOUS
<1> USE DEF TypeOK, TaskStates, LoopSteps, FrameSteps, Actors, WithTask, AboutTask, Claiming, Handing,
            taskVars, queueVars, inboxVars, nudgeVars, loopVars, frame,
            At, Step, NextStep
<1>1. ASSUME NEW a \in Actors, WakerWake(a) PROVE TypeOK'
  <2>1. TaskTypes'
    BY <1>1 DEF WakerWake, ClaimFirst, MayCall, MayName, CanClaim, Won, TaskTypes, FrameTypes, FrameCoherent, LoopTypes, LoopCoherent
  <2>2. QueueTypes'
    BY <1>1 DEF WakerWake, ClaimFirst, MayCall, MayName, CanClaim, Won, QueueTypes, FrameTypes, FrameCoherent, LoopTypes, LoopCoherent
  <2>3. LoopTypes'
    BY <1>1 DEF WakerWake, ClaimFirst, MayCall, MayName, CanClaim, Won, LoopTypes, FrameTypes, FrameCoherent
  <2>4. FrameTypes' /\ FrameCoherent'
    BY <1>1, FrameEffect, ReturnEffect, GotoEffect DEF WakerWake, ClaimFirst, MayCall, MayName, CanClaim, Won, FrameTypes, FrameCoherent
  <2>5. LoopCoherent'
    BY <1>1 DEF WakerWake, ClaimFirst, MayCall, MayName, CanClaim, Won, LoopTypes, FrameTypes, LoopCoherent, Frame, Goto, Return
  <2> QED BY <2>1, <2>2, <2>3, <2>4, <2>5
<1>2. ASSUME NEW a \in Actors, WakeLatch(a) PROVE TypeOK'
  BY <1>2 DEF WakeLatch, TaskTypes, QueueTypes, LoopTypes, FrameTypes, LoopCoherent, FrameCoherent, Frame, Goto, Return, Won
<1>3. ASSUME NEW a \in Actors, WakeCheck(a) PROVE TypeOK'
  <2>1. TaskTypes'
    BY <1>3 DEF WakeCheck, TaskTypes, FrameTypes, FrameCoherent, LoopTypes, LoopCoherent
  <2>2. QueueTypes'
    BY <1>3 DEF WakeCheck, QueueTypes, FrameTypes, FrameCoherent, LoopTypes, LoopCoherent
  <2>3. LoopTypes'
    BY <1>3 DEF WakeCheck, LoopTypes, FrameTypes, FrameCoherent
  <2>4. FrameTypes' /\ FrameCoherent'
    BY <1>3, FrameEffect, ReturnEffect, GotoEffect DEF WakeCheck, FrameTypes, FrameCoherent
  <2>5. LoopCoherent'
    BY <1>3 DEF WakeCheck, LoopTypes, FrameTypes, LoopCoherent, Frame, Goto, Return
  <2> QED BY <2>1, <2>2, <2>3, <2>4, <2>5
<1>4. ASSUME NEW a \in Actors, WakeTake(a) PROVE TypeOK'
  <2>1. TaskTypes'
    BY <1>4 DEF WakeTake, TaskTypes, FrameTypes, FrameCoherent, LoopTypes, LoopCoherent
  <2>2. QueueTypes'
    BY <1>4 DEF WakeTake, QueueTypes, FrameTypes, FrameCoherent, LoopTypes, LoopCoherent
  <2>3. LoopTypes'
    BY <1>4 DEF WakeTake, LoopTypes, FrameTypes, FrameCoherent
  <2>4. FrameTypes' /\ FrameCoherent'
    BY <1>4, FrameEffect, ReturnEffect, GotoEffect DEF WakeTake, FrameTypes, FrameCoherent
  <2>5. LoopCoherent'
    BY <1>4 DEF WakeTake, LoopTypes, FrameTypes, LoopCoherent, Frame, Goto, Return
  <2> QED BY <2>1, <2>2, <2>3, <2>4, <2>5
<1>5. ASSUME NEW a \in Actors, WakeCas(a) PROVE TypeOK'
  <2>1. TaskTypes'
    BY <1>5 DEF WakeCas, CanClaim, Won, TaskTypes, FrameTypes, FrameCoherent, LoopTypes, LoopCoherent
  <2>2. QueueTypes'
    BY <1>5 DEF WakeCas, CanClaim, Won, QueueTypes, FrameTypes, FrameCoherent, LoopTypes, LoopCoherent
  <2>3. LoopTypes'
    BY <1>5 DEF WakeCas, CanClaim, Won, LoopTypes, FrameTypes, FrameCoherent
  <2>4. FrameTypes' /\ FrameCoherent'
    BY <1>5, FrameEffect, ReturnEffect, GotoEffect DEF WakeCas, CanClaim, Won, FrameTypes, FrameCoherent
  <2>5. LoopCoherent'
    BY <1>5 DEF WakeCas, CanClaim, Won, LoopTypes, FrameTypes, LoopCoherent, Frame, Goto, Return
  <2> QED BY <2>1, <2>2, <2>3, <2>4, <2>5
<1>6. ASSUME NEW a \in Actors, WakeEnqueue(a) PROVE TypeOK'
  <2>1. TaskTypes'
    BY <1>6 DEF WakeEnqueue, TaskTypes, FrameTypes, FrameCoherent, LoopTypes, LoopCoherent
  <2>2. QueueTypes'
    BY <1>6, EnqueueTypes DEF WakeEnqueue, QueueTypes, FrameTypes, FrameCoherent, LoopTypes, LoopCoherent
  <2>3. LoopTypes'
    BY <1>6 DEF WakeEnqueue, LoopTypes, FrameTypes, FrameCoherent
  <2>4. FrameTypes' /\ FrameCoherent'
    BY <1>6, FrameEffect, ReturnEffect, GotoEffect DEF WakeEnqueue, FrameTypes, FrameCoherent
  <2>5. LoopCoherent'
    BY <1>6 DEF WakeEnqueue, LoopTypes, FrameTypes, LoopCoherent, Frame, Goto, Return
  <2> QED BY <2>1, <2>2, <2>3, <2>4, <2>5
<1>7. ASSUME NEW a \in Actors, WakePublish(a) PROVE TypeOK'
  BY <1>7 DEF WakePublish, TaskTypes, QueueTypes, LoopTypes, FrameTypes, LoopCoherent, FrameCoherent, Frame, Goto, Return, Won
<1>8. ASSUME NEW a \in Actors, SpawnPublish(a) PROVE TypeOK'
  BY <1>8 DEF SpawnPublish, TaskTypes, QueueTypes, LoopTypes, FrameTypes, LoopCoherent, FrameCoherent, Frame, Goto, Return, Won
<1>9. ASSUME NEW a \in Actors, NudgeLoad(a) PROVE TypeOK'
  <2>1. TaskTypes'
    BY <1>9 DEF NudgeLoad, TaskTypes, FrameTypes, FrameCoherent, LoopTypes, LoopCoherent
  <2>2. QueueTypes'
    BY <1>9 DEF NudgeLoad, QueueTypes, FrameTypes, FrameCoherent, LoopTypes, LoopCoherent
  <2>3. LoopTypes'
    BY <1>9 DEF NudgeLoad, LoopTypes, FrameTypes, FrameCoherent
  <2>4. FrameTypes' /\ FrameCoherent'
    BY <1>9, FrameEffect, ReturnEffect, GotoEffect DEF NudgeLoad, FrameTypes, FrameCoherent
  <2>5. LoopCoherent'
    BY <1>9 DEF NudgeLoad, LoopTypes, FrameTypes, LoopCoherent, Frame, Goto, Return
  <2> QED BY <2>1, <2>2, <2>3, <2>4, <2>5
<1>10. ASSUME NEW a \in Actors, NudgeSwap(a) PROVE TypeOK'
  <2>1. TaskTypes'
    BY <1>10 DEF NudgeSwap, TaskTypes, FrameTypes, FrameCoherent, LoopTypes, LoopCoherent
  <2>2. QueueTypes'
    BY <1>10 DEF NudgeSwap, QueueTypes, FrameTypes, FrameCoherent, LoopTypes, LoopCoherent
  <2>3. LoopTypes'
    BY <1>10 DEF NudgeSwap, LoopTypes, FrameTypes, FrameCoherent
  <2>4. FrameTypes' /\ FrameCoherent'
    BY <1>10, FrameEffect, ReturnEffect, GotoEffect DEF NudgeSwap, FrameTypes, FrameCoherent
  <2>5. LoopCoherent'
    BY <1>10 DEF NudgeSwap, LoopTypes, FrameTypes, LoopCoherent, Frame, Goto, Return
  <2> QED BY <2>1, <2>2, <2>3, <2>4, <2>5
<1>11. ASSUME NEW a \in Actors, NudgeWrite(a) PROVE TypeOK'
  <2>1. TaskTypes'
    BY <1>11 DEF NudgeWrite, TaskTypes, FrameTypes, FrameCoherent, LoopTypes, LoopCoherent
  <2>2. QueueTypes'
    BY <1>11 DEF NudgeWrite, QueueTypes, FrameTypes, FrameCoherent, LoopTypes, LoopCoherent
  <2>3. LoopTypes'
    BY <1>11, ZenonT(60) DEF NudgeWrite, LoopTypes, FrameTypes, FrameCoherent
  <2>4. FrameTypes' /\ FrameCoherent'
    BY <1>11, FrameEffect, ReturnEffect, GotoEffect, ZenonT(60) DEF NudgeWrite, FrameTypes, FrameCoherent
  <2>5. LoopCoherent'
    BY <1>11 DEF NudgeWrite, LoopTypes, FrameTypes, LoopCoherent, Frame, Goto, Return
  <2> QED BY <2>1, <2>2, <2>3, <2>4, <2>5
<1>12. ASSUME NEW a \in Actors, NudgeRearm(a) PROVE TypeOK'
  BY <1>12 DEF NudgeRearm, TaskTypes, QueueTypes, LoopTypes, FrameTypes, LoopCoherent, FrameCoherent, Frame, Goto, Return, Won
<1>13. ASSUME NEW a \in Actors, NEW t \in Tasks, Spawn(a, t) PROVE TypeOK'
  BY <1>13 DEF Spawn, MayCall, TaskTypes, QueueTypes, LoopTypes, FrameTypes, LoopCoherent, FrameCoherent, Frame, Goto, Return, Won
<1>40. ASSUME NEW a \in Actors, NEW t \in Tasks, SpawnRefused(a, t) PROVE TypeOK'
  BY <1>40 DEF SpawnRefused, TaskTypes, QueueTypes, LoopTypes, FrameTypes, LoopCoherent, FrameCoherent
<1>14. ASSUME NEW l \in Loops, ParkOn(l) PROVE TypeOK'
  <2>1. TaskTypes' /\ QueueTypes'
    BY <1>14 DEF ParkOn, TaskTypes, QueueTypes, LoopTypes, LoopCoherent
  <2>2. LoopTypes' /\ LoopCoherent'
    BY <1>14 DEF ParkOn, LoopTypes, LoopCoherent
  <2>3. FrameTypes' /\ FrameCoherent'
    BY <1>14 DEF ParkOn, FrameTypes, FrameCoherent
  <2> QED BY <2>1, <2>2, <2>3
<1>15. ASSUME NEW l \in Loops, CancelPark(l) PROVE TypeOK'
  <2>1. TaskTypes' /\ QueueTypes'
    BY <1>15 DEF CancelPark, TaskTypes, QueueTypes, LoopTypes, LoopCoherent
  <2>2. LoopTypes' /\ LoopCoherent'
    BY <1>15 DEF CancelPark, LoopTypes, LoopCoherent
  <2>3. FrameTypes' /\ FrameCoherent'
    BY <1>15 DEF CancelPark, FrameTypes, FrameCoherent
  <2> QED BY <2>1, <2>2, <2>3
<1>16. ASSUME NEW l \in Loops, VerdictDone(l) PROVE TypeOK'
  <2>1. TaskTypes' /\ QueueTypes'
    BY <1>16 DEF VerdictDone, TaskTypes, QueueTypes, LoopTypes, LoopCoherent
  <2>2. LoopTypes' /\ LoopCoherent'
    BY <1>16 DEF VerdictDone, LoopTypes, LoopCoherent
  <2>3. FrameTypes' /\ FrameCoherent'
    BY <1>16 DEF VerdictDone, FrameTypes, FrameCoherent
  <2> QED BY <2>1, <2>2, <2>3
<1>17. ASSUME NEW l \in Loops, VerdictResched(l) PROVE TypeOK'
  <2>1. TaskTypes' /\ QueueTypes'
    BY <1>17 DEF VerdictResched, TaskTypes, QueueTypes, LoopTypes, LoopCoherent
  <2>2. LoopTypes' /\ LoopCoherent'
    BY <1>17 DEF VerdictResched, LoopTypes, LoopCoherent
  <2>3. FrameTypes' /\ FrameCoherent'
    BY <1>17 DEF VerdictResched, FrameTypes, FrameCoherent
  <2> QED BY <2>1, <2>2, <2>3
<1>18. ASSUME NEW l \in Loops, VerdictPending(l) PROVE TypeOK'
  <2>1. TaskTypes' /\ QueueTypes'
    BY <1>18 DEF VerdictPending, TaskTypes, QueueTypes, LoopTypes, LoopCoherent
  <2>2. LoopTypes' /\ LoopCoherent'
    BY <1>18 DEF VerdictPending, LoopTypes, LoopCoherent
  <2>3. FrameTypes' /\ FrameCoherent'
    BY <1>18 DEF VerdictPending, FrameTypes, FrameCoherent
  <2> QED BY <2>1, <2>2, <2>3
<1>19. ASSUME NEW l \in Loops, DrainPub(l) PROVE TypeOK'
  <2>1. TaskTypes'
    BY <1>19 DEF DrainPub, TaskTypes, FrameTypes, FrameCoherent, LoopTypes, LoopCoherent
  <2>2. QueueTypes'
    BY <1>19, EnqueueTypes DEF DrainPub, QueueTypes, FrameTypes, FrameCoherent, LoopTypes, LoopCoherent
  <2>3. LoopTypes'
    BY <1>19 DEF DrainPub, LoopTypes, FrameTypes, FrameCoherent
  <2>4. FrameTypes' /\ FrameCoherent'
    BY <1>19, FrameEffect, ReturnEffect, GotoEffect, ZenonT(60) DEF DrainPub, FrameTypes, FrameCoherent
  <2>5. LoopCoherent'
    BY <1>19 DEF DrainPub, LoopTypes, FrameTypes, LoopCoherent, Frame, Goto, Return
  <2> QED BY <2>1, <2>2, <2>3, <2>4, <2>5
<1>20. ASSUME NEW l \in Loops, DrainWake(l) PROVE TypeOK'
  <2>1. TaskTypes'
    BY <1>20 DEF DrainWake, TaskTypes, FrameTypes, FrameCoherent, LoopTypes, LoopCoherent
  <2>2. QueueTypes'
    BY <1>20, EnqueueTypes DEF DrainWake, QueueTypes, FrameTypes, FrameCoherent, LoopTypes, LoopCoherent
  <2>3. LoopTypes'
    BY <1>20 DEF DrainWake, LoopTypes, FrameTypes, FrameCoherent
  <2>4. FrameTypes' /\ FrameCoherent'
    BY <1>20, FrameEffect, ReturnEffect, GotoEffect, ZenonT(60) DEF DrainWake, FrameTypes, FrameCoherent
  <2>5. LoopCoherent'
    BY <1>20 DEF DrainWake, LoopTypes, FrameTypes, LoopCoherent, Frame, Goto, Return
  <2> QED BY <2>1, <2>2, <2>3, <2>4, <2>5
<1>21. ASSUME NEW l \in Loops, PopNone(l) PROVE TypeOK'
  <2>1. TaskTypes' /\ QueueTypes'
    BY <1>21 DEF PopNone, TaskTypes, QueueTypes, LoopTypes, LoopCoherent
  <2>2. LoopTypes' /\ LoopCoherent'
    BY <1>21 DEF PopNone, LoopTypes, LoopCoherent
  <2>3. FrameTypes' /\ FrameCoherent'
    BY <1>21 DEF PopNone, FrameTypes, FrameCoherent
  <2> QED BY <2>1, <2>2, <2>3
<1>22. ASSUME NEW l \in Loops, StoreScheduled(l) PROVE TypeOK'
  <2>1. TaskTypes' /\ QueueTypes'
    BY <1>22 DEF StoreScheduled, TaskTypes, QueueTypes, LoopTypes, LoopCoherent
  <2>2. LoopTypes' /\ LoopCoherent'
    BY <1>22 DEF StoreScheduled, LoopTypes, LoopCoherent
  <2>3. FrameTypes' /\ FrameCoherent'
    BY <1>22 DEF StoreScheduled, FrameTypes, FrameCoherent
  <2> QED BY <2>1, <2>2, <2>3
<1>23. ASSUME NEW l \in Loops, StoreParked(l) PROVE TypeOK'
  <2>1. TaskTypes' /\ QueueTypes'
    BY <1>23 DEF StoreParked, TaskTypes, QueueTypes, LoopTypes, LoopCoherent
  <2>2. LoopTypes' /\ LoopCoherent'
    BY <1>23 DEF StoreParked, LoopTypes, LoopCoherent
  <2>3. FrameTypes' /\ FrameCoherent'
    BY <1>23 DEF StoreParked, FrameTypes, FrameCoherent
  <2> QED BY <2>1, <2>2, <2>3
<1>24. ASSUME NEW l \in Loops, RecheckTake(l) PROVE TypeOK'
  <2>1. TaskTypes'
    BY <1>24 DEF RecheckTake, TaskTypes, FrameTypes, FrameCoherent, LoopTypes, LoopCoherent
  <2>2. QueueTypes'
    BY <1>24 DEF RecheckTake, QueueTypes, FrameTypes, FrameCoherent, LoopTypes, LoopCoherent
  <2>3. LoopTypes'
    BY <1>24 DEF RecheckTake, LoopTypes, FrameTypes, FrameCoherent
  <2>4. FrameTypes' /\ FrameCoherent'
    BY <1>24, FrameEffect, ReturnEffect, GotoEffect, ZenonT(60) DEF RecheckTake, FrameTypes, FrameCoherent
  <2>5. LoopCoherent'
    BY <1>24 DEF RecheckTake, LoopTypes, FrameTypes, LoopCoherent, Frame, Goto, Return
  <2> QED BY <2>1, <2>2, <2>3, <2>4, <2>5
<1>25. ASSUME NEW l \in Loops, RecheckCas(l) PROVE TypeOK'
  <2>1. TaskTypes'
    BY <1>25 DEF RecheckCas, CanClaim, TaskTypes, FrameTypes, FrameCoherent, LoopTypes, LoopCoherent
  <2>2. QueueTypes'
    BY <1>25 DEF RecheckCas, CanClaim, QueueTypes, FrameTypes, FrameCoherent, LoopTypes, LoopCoherent
  <2>3. LoopTypes'
    BY <1>25 DEF RecheckCas, CanClaim, LoopTypes, FrameTypes, FrameCoherent
  <2>4. FrameTypes' /\ FrameCoherent'
    BY <1>25, FrameEffect, ReturnEffect, GotoEffect, ZenonT(60) DEF RecheckCas, CanClaim, FrameTypes, FrameCoherent
  <2>5. LoopCoherent'
    BY <1>25 DEF RecheckCas, CanClaim, LoopTypes, FrameTypes, LoopCoherent, Frame, Goto, Return
  <2> QED BY <2>1, <2>2, <2>3, <2>4, <2>5
<1>26. ASSUME NEW l \in Loops, VerdictEnqueue(l) PROVE TypeOK'
  <2>1. TaskTypes'
    BY <1>26 DEF VerdictEnqueue, TaskTypes, FrameTypes, FrameCoherent, LoopTypes, LoopCoherent
  <2>2. QueueTypes'
    BY <1>26, EnqueueTypes DEF VerdictEnqueue, QueueTypes, FrameTypes, FrameCoherent, LoopTypes, LoopCoherent
  <2>3. LoopTypes'
    BY <1>26 DEF VerdictEnqueue, LoopTypes, FrameTypes, FrameCoherent
  <2>4. FrameTypes' /\ FrameCoherent'
    BY <1>26, FrameEffect, ReturnEffect, GotoEffect, ZenonT(60) DEF VerdictEnqueue, FrameTypes, FrameCoherent
  <2>5. LoopCoherent'
    BY <1>26 DEF VerdictEnqueue, LoopTypes, FrameTypes, LoopCoherent, Frame, Goto, Return
  <2> QED BY <2>1, <2>2, <2>3, <2>4, <2>5
<1>27. ASSUME NEW l \in Loops, TimersDrained(l) PROVE TypeOK'
  <2>1. TaskTypes' /\ QueueTypes'
    BY <1>27 DEF TimersDrained, TaskTypes, QueueTypes, LoopTypes, LoopCoherent
  <2>2. LoopTypes' /\ LoopCoherent'
    BY <1>27 DEF TimersDrained, LoopTypes, LoopCoherent
  <2>3. FrameTypes' /\ FrameCoherent'
    BY <1>27 DEF TimersDrained, FrameTypes, FrameCoherent
  <2> QED BY <2>1, <2>2, <2>3
<1>28. ASSUME NEW l \in Loops, StealNone(l) PROVE TypeOK'
  <2>1. TaskTypes' /\ QueueTypes'
    BY <1>28 DEF StealNone, TaskTypes, QueueTypes, LoopTypes, LoopCoherent
  <2>2. LoopTypes' /\ LoopCoherent'
    BY <1>28 DEF StealNone, LoopTypes, LoopCoherent
  <2>3. FrameTypes' /\ FrameCoherent'
    BY <1>28 DEF StealNone, FrameTypes, FrameCoherent
  <2> QED BY <2>1, <2>2, <2>3
<1>29. ASSUME NEW l \in Loops, SleepBegin(l) PROVE TypeOK'
  <2>1. TaskTypes' /\ QueueTypes'
    BY <1>29 DEF SleepBegin, TaskTypes, QueueTypes, LoopTypes, LoopCoherent
  <2>2. LoopTypes' /\ LoopCoherent'
    BY <1>29 DEF SleepBegin, LoopTypes, LoopCoherent
  <2>3. FrameTypes' /\ FrameCoherent'
    BY <1>29 DEF SleepBegin, FrameTypes, FrameCoherent
  <2> QED BY <2>1, <2>2, <2>3
<1>30. ASSUME NEW l \in Loops, SleepCheckPub(l) PROVE TypeOK'
  <2>1. TaskTypes'
    BY <1>30 DEF SleepCheckPub, TaskTypes, FrameTypes, FrameCoherent, LoopTypes, LoopCoherent
  <2>2. QueueTypes'
    BY <1>30 DEF SleepCheckPub, QueueTypes, FrameTypes, FrameCoherent, LoopTypes, LoopCoherent
  <2>3. LoopTypes'
    <3>1. CASE pubHead[l] = {}
      BY <1>30, <3>1 DEF SleepCheckPub, LoopTypes
    <3>2. CASE pubHead[l] # {}
      BY <1>30, <3>2, ZenonT(60) DEF SleepCheckPub, LoopTypes
    <3> QED BY <3>1, <3>2
  <2>4. FrameTypes' /\ FrameCoherent'
    BY <1>30, FrameEffect, ReturnEffect, GotoEffect, ZenonT(60) DEF SleepCheckPub, FrameTypes, FrameCoherent
  <2>5. LoopCoherent'
    BY <1>30 DEF SleepCheckPub, LoopTypes, FrameTypes, LoopCoherent, Frame, Goto, Return
  <2> QED BY <2>1, <2>2, <2>3, <2>4, <2>5
<1>31. ASSUME NEW l \in Loops, SleepCheckWake(l) PROVE TypeOK'
  <2>1. TaskTypes'
    BY <1>31 DEF SleepCheckWake, TaskTypes, FrameTypes, FrameCoherent, LoopTypes, LoopCoherent
  <2>2. QueueTypes'
    BY <1>31 DEF SleepCheckWake, QueueTypes, FrameTypes, FrameCoherent, LoopTypes, LoopCoherent
  <2>3. LoopTypes'
    <3>1. CASE wakeHead[l] = {}
      BY <1>31, <3>1 DEF SleepCheckWake, LoopTypes
    <3>2. CASE wakeHead[l] # {}
      BY <1>31, <3>2, ZenonT(60) DEF SleepCheckWake, LoopTypes
    <3> QED BY <3>1, <3>2
  <2>4. FrameTypes' /\ FrameCoherent'
    BY <1>31, FrameEffect, ReturnEffect, GotoEffect, ZenonT(60) DEF SleepCheckWake, FrameTypes, FrameCoherent
  <2>5. LoopCoherent'
    BY <1>31 DEF SleepCheckWake, LoopTypes, FrameTypes, LoopCoherent, Frame, Goto, Return
  <2> QED BY <2>1, <2>2, <2>3, <2>4, <2>5
<1>32. ASSUME NEW l \in Loops, PollReturn(l) PROVE TypeOK'
  <2>1. TaskTypes' /\ QueueTypes'
    BY <1>32 DEF PollReturn, TaskTypes, QueueTypes, LoopTypes, LoopCoherent
  <2>2. LoopTypes' /\ LoopCoherent'
    BY <1>32 DEF PollReturn, LoopTypes, LoopCoherent
  <2>3. FrameTypes' /\ FrameCoherent'
    BY <1>32 DEF PollReturn, FrameTypes, FrameCoherent
  <2> QED BY <2>1, <2>2, <2>3
<1>33. ASSUME NEW l \in Loops, SleepEnd(l) PROVE TypeOK'
  <2>1. TaskTypes' /\ QueueTypes'
    BY <1>33 DEF SleepEnd, TaskTypes, QueueTypes, LoopTypes, LoopCoherent
  <2>2. LoopTypes' /\ LoopCoherent'
    BY <1>33 DEF SleepEnd, LoopTypes, LoopCoherent
  <2>3. FrameTypes' /\ FrameCoherent'
    BY <1>33 DEF SleepEnd, FrameTypes, FrameCoherent
  <2> QED BY <2>1, <2>2, <2>3
<1>34. ASSUME NEW l \in Loops, Dispatched(l) PROVE TypeOK'
  <2>1. TaskTypes' /\ QueueTypes'
    BY <1>34 DEF Dispatched, TaskTypes, QueueTypes, LoopTypes, LoopCoherent
  <2>2. LoopTypes' /\ LoopCoherent'
    BY <1>34 DEF Dispatched, LoopTypes, LoopCoherent
  <2>3. FrameTypes' /\ FrameCoherent'
    BY <1>34 DEF Dispatched, FrameTypes, FrameCoherent
  <2> QED BY <2>1, <2>2, <2>3
<1>35. ASSUME NEW l \in Loops, NEW t \in Tasks, Run(l, t) PROVE TypeOK'
  BY <1>35, SMTT(40) DEF Run, TaskTypes, QueueTypes, LoopTypes, FrameTypes, LoopCoherent, FrameCoherent, Frame, Goto, Return, Won
<1>36. ASSUME NEW l \in Loops, NEW t \in Tasks, EventWake(l, t) PROVE TypeOK'
  <2>1. TaskTypes'
    BY <1>36 DEF EventWake, ClaimFirst, CanClaim, Won, TaskTypes, FrameTypes, FrameCoherent, LoopTypes, LoopCoherent
  <2>2. QueueTypes'
    BY <1>36 DEF EventWake, ClaimFirst, CanClaim, Won, QueueTypes, FrameTypes, FrameCoherent, LoopTypes, LoopCoherent
  <2>3. LoopTypes'
    BY <1>36 DEF EventWake, ClaimFirst, CanClaim, Won, LoopTypes, FrameTypes, FrameCoherent
  <2>4. FrameTypes' /\ FrameCoherent'
    BY <1>36, FrameEffect, ReturnEffect, GotoEffect, ZenonT(60) DEF EventWake, ClaimFirst, CanClaim, Won, FrameTypes, FrameCoherent
  <2>5. LoopCoherent'
    BY <1>36 DEF EventWake, ClaimFirst, CanClaim, Won, LoopTypes, FrameTypes, LoopCoherent, Frame, Goto, Return
  <2> QED BY <2>1, <2>2, <2>3, <2>4, <2>5
<1>37. ASSUME NEW l \in Loops, NEW m \in Loops, NEW t \in Tasks, Steal(l, m, t) PROVE TypeOK'
  <2>1. TaskTypes'
    BY <1>37 DEF Steal, TaskTypes, FrameTypes, FrameCoherent, LoopTypes, LoopCoherent
  <2>2. QueueTypes'
    BY <1>37 DEF Steal, QueueTypes, FrameTypes, FrameCoherent, LoopTypes, LoopCoherent
  <2>3. LoopTypes'
    BY <1>37 DEF Steal, LoopTypes, FrameTypes, FrameCoherent
  <2>4. FrameTypes' /\ FrameCoherent'
    BY <1>37, FrameEffect, ReturnEffect, GotoEffect, ZenonT(60) DEF Steal, FrameTypes, FrameCoherent
  <2>5. LoopCoherent'
    BY <1>37 DEF Steal, LoopTypes, FrameTypes, LoopCoherent, Frame, Goto, Return
  <2> QED BY <2>1, <2>2, <2>3, <2>4, <2>5
<1>38. CASE UNCHANGED vars
  BY <1>38 DEF vars, TaskTypes, QueueTypes, LoopTypes, FrameTypes, LoopCoherent, FrameCoherent, Frame, Goto, Return, Won
<1>39. ASSUME NEW l \in Loops, PollNow(l) PROVE TypeOK'
  <2>1. TaskTypes' /\ QueueTypes'
    BY <1>39 DEF PollNow, TaskTypes, QueueTypes, LoopTypes, LoopCoherent
  <2>2. LoopTypes' /\ LoopCoherent'
    BY <1>39 DEF PollNow, LoopTypes, LoopCoherent
  <2>3. FrameTypes' /\ FrameCoherent'
    BY <1>39 DEF PollNow, FrameTypes, FrameCoherent
  <2> QED BY <2>1, <2>2, <2>3
<1> QED
  BY <1>1, <1>2, <1>3, <1>4, <1>5, <1>6, <1>7, <1>8, <1>9, <1>10, <1>11, <1>12, <1>13, <1>14, <1>15, <1>16, <1>17, <1>18, <1>19, <1>20, <1>21, <1>22, <1>23, <1>24, <1>25, <1>26, <1>27, <1>28, <1>29, <1>30, <1>31, <1>32, <1>33, <1>34, <1>35, <1>36, <1>37, <1>38, <1>39, <1>40, ZenonT(60) DEF Next, CallStep, TaskStep, LoopStep

(* Type correctness for every instance, and the call frames with it. *)
THEOREM TypeCorrect == Spec => []TypeOK
  BY TypeInit, TypeStep, PTL DEF Spec

----------------------------------------------------------------------------
(* What the steps leave alone. *)

(* The steps of a call that neither win nor queue a task. *)
QuietCallStep(a) ==
    \/ WakeLatch(a) \/ WakeCheck(a) \/ WakeTake(a)
    \/ NudgeLoad(a) \/ NudgeSwap(a) \/ NudgeWrite(a) \/ NudgeRearm(a)
    \/ \E t \in Tasks : SpawnRefused(a, t)

(* The steps of a loop thread that neither start, settle nor queue a task. *)
QuietLoopStep(l) ==
    \/ ParkOn(l) \/ CancelPark(l) \/ VerdictResched(l) \/ VerdictPending(l)
    \/ PopNone(l) \/ RecheckTake(l) \/ TimersDrained(l) \/ StealNone(l)
    \/ SleepBegin(l) \/ SleepCheckPub(l) \/ SleepCheckWake(l) \/ PollReturn(l)
    \/ SleepEnd(l) \/ PollNow(l) \/ Dispatched(l)

Executing == {"run", "resched", "park"}

(* A call that moves on or returns changes its own frame only. *)
LEMMA FrameMoves ==
    ASSUME FrameTypes, NEW a \in Actors, NEW pc,
           Return(a) \/ (Goto(a, pc) /\ pc \notin Handing)
    PROVE  /\ \A x \in Actors : x # a =>
                 fpc'[x] = fpc[x] /\ floop'[x] = floop[x] /\ ftask'[x] = ftask[x]
           /\ fpc'[a] \notin Handing
           /\ ftask'[a] = None \/ (ftask'[a] = ftask[a] /\ floop'[a] = floop[a])
  BY DEF FrameTypes, Return, Goto, Frame, Handing

(* A quiet call step moves no task and touches its own frame only. *)
LEMMA QuietCall ==
    ASSUME TypeOK, NEW a \in Actors, QuietCallStep(a)
    PROVE  /\ UNCHANGED <<state, fifo, deque, pubHead, wakeHead, armed, lpc, cur>>
           /\ fpc[a] \notin Handing /\ fpc'[a] \notin Handing
           /\ \A x \in Actors : x # a =>
                 fpc'[x] = fpc[x] /\ floop'[x] = floop[x] /\ ftask'[x] = ftask[x]
           /\ ftask'[a] = None \/ (ftask'[a] = ftask[a] /\ floop'[a] = floop[a])
<1>0. CASE \E t \in Tasks : SpawnRefused(a, t)
  <2>1. UNCHANGED <<state, fifo, deque, pubHead, wakeHead, armed, lpc, cur, fpc, ftask, floop>>
    BY <1>0 DEF SpawnRefused, queueVars, inboxVars, loopVars, frame
  <2>2. fpc[a] = "idle"
    BY <1>0 DEF SpawnRefused, MayCall
  <2> QED BY <2>1, <2>2 DEF Handing
<1> SUFFICES ASSUME ~\E t \in Tasks : SpawnRefused(a, t)
             PROVE  /\ UNCHANGED <<state, fifo, deque, pubHead, wakeHead, armed, lpc, cur>>
                    /\ fpc[a] \notin Handing /\ fpc'[a] \notin Handing
                    /\ \A x \in Actors : x # a =>
                          fpc'[x] = fpc[x] /\ floop'[x] = floop[x] /\ ftask'[x] = ftask[x]
                    /\ ftask'[a] = None \/ (ftask'[a] = ftask[a] /\ floop'[a] = floop[a])
  BY <1>0
<1>1. UNCHANGED <<state, fifo, deque, pubHead, wakeHead, armed, lpc, cur>>
  BY DEF QuietCallStep, WakeLatch, WakeCheck, WakeTake, NudgeLoad, NudgeSwap, NudgeWrite,
         NudgeRearm, taskVars, queueVars, inboxVars, loopVars
<1>2. fpc[a] \notin Handing
  BY ZenonT(60) DEF QuietCallStep, WakeLatch, WakeCheck, WakeTake, NudgeLoad, NudgeSwap, NudgeWrite,
         NudgeRearm, Handing
<1>3. Return(a) \/ \E pc \in {"check", "take", "cas", "swap", "write", "rearm"} : Goto(a, pc)
  BY DEF QuietCallStep, WakeLatch, WakeCheck, WakeTake, NudgeLoad, NudgeSwap, NudgeWrite,
         NudgeRearm
<1>4. \A pc \in {"check", "take", "cas", "swap", "write", "rearm"} : pc \notin Handing
  BY DEF Handing
<1> QED BY <1>1, <1>2, <1>3, <1>4, FrameMoves, ZenonT(60) DEF TypeOK

(* A quiet loop step moves no task and touches its own thread only. *)
LEMMA QuietLoop ==
    ASSUME TypeOK, NEW l \in Loops, QuietLoopStep(l)
    PROVE  /\ UNCHANGED <<state, fifo, deque, pubHead, wakeHead, fpc, floop, ftask>>
           /\ \A m \in Loops : m # l => lpc'[m] = lpc[m] /\ cur'[m] = cur[m]
           /\ lpc[l] # "enqueue" /\ lpc'[l] # "enqueue"
           /\ lpc[l] \in Executing <=> lpc'[l] \in Executing
           /\ cur'[l] = cur[l] \/ (cur'[l] = None /\ lpc[l] \notin Executing)
<1> USE DEF TypeOK, LoopTypes, At, Step, Executing,
            taskVars, queueVars, inboxVars, loopVars, frame
<1>1. CASE ParkOn(l) \/ CancelPark(l)
  BY <1>1, ZenonT(60) DEF ParkOn, CancelPark
<1>2. CASE VerdictResched(l) \/ VerdictPending(l)
  BY <1>2 DEF VerdictResched, VerdictPending
<1>3. CASE RecheckTake(l)
  BY <1>3 DEF RecheckTake, NextStep
<1>4. CASE PopNone(l) \/ TimersDrained(l) \/ StealNone(l)
  BY <1>4 DEF PopNone, TimersDrained, StealNone
<1>5. CASE SleepBegin(l) \/ SleepCheckPub(l) \/ SleepCheckWake(l)
  BY <1>5 DEF SleepBegin, SleepCheckPub, SleepCheckWake
<1>6. CASE PollReturn(l) \/ SleepEnd(l) \/ PollNow(l) \/ Dispatched(l)
  BY <1>6 DEF PollReturn, SleepEnd, PollNow, Dispatched
<1> QED BY <1>1, <1>2, <1>3, <1>4, <1>5, <1>6, ZenonT(60) DEF QuietLoopStep

(* A frame that is set changes no other frame. *)
LEMMA FrameSet ==
    ASSUME FrameTypes, NEW a \in Actors, NEW pc, NEW l, NEW t, Frame(a, pc, l, t)
    PROVE  /\ fpc'[a] = pc /\ floop'[a] = l /\ ftask'[a] = t
           /\ \A x \in Actors : x # a =>
                 fpc'[x] = fpc[x] /\ floop'[x] = floop[x] /\ ftask'[x] = ftask[x]
  BY DEF FrameTypes, Frame

(* What the steps that win or queue a task do to the frames. *)
LEMMA CallEffect ==
    ASSUME TypeOK, NEW a \in Actors, CallStep(a)
    PROVE  /\ UNCHANGED <<armed, lpc, cur>>
           /\ \A x \in Actors : x # a =>
                 fpc'[x] = fpc[x] /\ floop'[x] = floop[x] /\ ftask'[x] = ftask[x]
<1>1. CASE QuietCallStep(a)
  BY <1>1, QuietCall
<1>2. CASE WakerWake(a)
  <2>1. PICK l \in Loops, t \in Tasks, pc \in FrameSteps : Frame(a, pc, l, t)
    BY <1>2 DEF WakerWake, ClaimFirst, Won, FrameSteps
  <2>2. UNCHANGED <<armed, lpc, cur>>
    BY <1>2 DEF WakerWake, loopVars
  <2> QED BY <2>1, <2>2, FrameSet DEF TypeOK
<1>3. CASE WakeCas(a)
  <2>1. PICK l, t, pc : Frame(a, pc, l, t)
    BY <1>3, ZenonT(60) DEF WakeCas, Won, Return
  <2>2. UNCHANGED <<armed, lpc, cur>>
    BY <1>3 DEF WakeCas, loopVars
  <2> QED BY <2>1, <2>2, FrameSet DEF TypeOK
<1>4. CASE WakeEnqueue(a)
  BY <1>4, FrameSet DEF WakeEnqueue, Return, TypeOK, loopVars
<1>5. CASE WakePublish(a)
  <2>1. PICK l, t, pc : Frame(a, pc, l, t)
    BY <1>5 DEF WakePublish
  <2> QED BY <1>5, <2>1, FrameSet DEF WakePublish, TypeOK, loopVars
<1>6. CASE SpawnPublish(a)
  <2>1. PICK l, t, pc : Frame(a, pc, l, t)
    BY <1>6 DEF SpawnPublish
  <2> QED BY <1>6, <2>1, FrameSet DEF SpawnPublish, TypeOK, loopVars
<1>7. ASSUME NEW t \in Tasks, Spawn(a, t)
      PROVE  /\ UNCHANGED <<armed, lpc, cur>>
             /\ \A x \in Actors : x # a =>
                   fpc'[x] = fpc[x] /\ floop'[x] = floop[x] /\ ftask'[x] = ftask[x]
  <2>1. PICK l, pc : Frame(a, pc, l, t)
    BY <1>7 DEF Spawn
  <2> QED BY <1>7, <2>1, FrameSet DEF Spawn, TypeOK, loopVars
<1> QED BY <1>1, <1>2, <1>3, <1>4, <1>5, <1>6, <1>7, ZenonT(60) DEF CallStep, QuietCallStep

----------------------------------------------------------------------------
(* Latched wakes *)

(* Someone will look at the latch of task t again. *)
Guarded(t) ==
    \/ \E l \in Loops : lpc[l] = "take2" /\ cur[l] = t
    \/ \E a \in Actors : fpc[a] \in {"check", "take"} /\ ftask[a] = t

(* A step that latches nothing and parks nothing keeps every latch guarded if it
   keeps the guards. *)
LEMMA LatchKept ==
    ASSUME LatchNotOrphaned,
           \A t \in Tasks : state'[t] = "PARKED" /\ wakePending'[t] =>
               state[t] = "PARKED" /\ wakePending[t] /\ (Guarded(t) => Guarded(t)')
    PROVE  LatchNotOrphaned'
  BY DEF LatchNotOrphaned, Guarded

(* Calls keep the latches of parked tasks guarded. *)
LEMMA LatchCall ==
    ASSUME TypeOK, LatchNotOrphaned, NEW a \in Actors, CallStep(a)
    PROVE  LatchNotOrphaned'
<1> USE DEF TypeOK, TaskTypes
<1>1. /\ UNCHANGED <<lpc, cur>>
      /\ \A x \in Actors : x # a => fpc'[x] = fpc[x] /\ ftask'[x] = ftask[x]
  BY CallEffect, ZenonT(60)
<1>2. ASSUME fpc[a] \notin {"check", "take"} PROVE \A t : Guarded(t) => Guarded(t)'
  BY <1>1, <1>2 DEF Guarded
<1>3. ASSUME fpc[a] \notin {"check", "take"}, UNCHANGED wakePending,
             \A t \in Tasks : state'[t] = "PARKED" => state[t] = "PARKED"
      PROVE  LatchNotOrphaned'
  BY <1>2, <1>3, LatchKept
<1>4. CASE WakerWake(a)
  <2>1. fpc[a] = "idle" /\ UNCHANGED wakePending
    BY <1>4 DEF WakerWake, MayCall, ClaimFirst
  <2>2. \A t \in Tasks : state'[t] = "PARKED" => state[t] = "PARKED"
    BY <1>4 DEF WakerWake, ClaimFirst
  <2> QED BY <1>3, <2>1, <2>2
<1>5. CASE WakeLatch(a)
  <2>1. ftask[a] \in Tasks
    BY <1>5 DEF WakeLatch, FrameTypes, FrameCoherent, AboutTask, Claiming
  <2>2. ASSUME NEW t \in Tasks, t = ftask[a] PROVE Guarded(t)'
    BY <1>5, <2>2 DEF WakeLatch, Goto, FrameTypes, Guarded
  <2>3. \A t \in Tasks : t # ftask[a] => wakePending'[t] = wakePending[t]
    BY <1>5 DEF WakeLatch
  <2>4. \A t \in Tasks : Guarded(t) => Guarded(t)'
    BY <1>2, <1>5 DEF WakeLatch
  <2>5. UNCHANGED state
    BY <1>5 DEF WakeLatch
  <2>6. ASSUME NEW t \in Tasks, state'[t] = "PARKED", wakePending'[t] PROVE Guarded(t)'
    <3>1. CASE t = ftask[a]
      BY <2>2, <3>1
    <3>2. CASE t # ftask[a]
      BY <2>3, <2>4, <2>5, <2>6, <3>2 DEF LatchNotOrphaned, Guarded
    <3> QED BY <3>1, <3>2
  <2> QED BY <2>6 DEF LatchNotOrphaned, Guarded
<1>6. CASE WakeCheck(a)
  <2>1. UNCHANGED <<state, wakePending>>
    BY <1>6 DEF WakeCheck, taskVars
  <2>2. CASE state[ftask[a]] = "PARKED"
    <3>1. fpc'[a] = "take" /\ ftask'[a] = ftask[a]
      BY <1>6, <2>2 DEF WakeCheck, Goto, FrameTypes
    <3>2. \A t \in Tasks : Guarded(t) => Guarded(t)'
      BY <1>1, <1>6, <3>1 DEF Guarded, WakeCheck
    <3> QED BY <2>1, <3>2, LatchKept
  <2>3. CASE state[ftask[a]] # "PARKED"
    <3>1. \A t \in Tasks : t # ftask[a] => (Guarded(t) => Guarded(t)')
      BY <1>1 DEF Guarded
    <3> QED BY <2>1, <2>3, <3>1, LatchKept
  <2> QED BY <2>2, <2>3
<1>7. CASE WakeTake(a)
  <2>1. ftask[a] \in Tasks
    BY <1>7 DEF WakeTake, FrameTypes, FrameCoherent, AboutTask, Claiming
  <2>2. UNCHANGED state /\ wakePending' = [wakePending EXCEPT ![ftask[a]] = FALSE]
    BY <1>7, ZenonT(60) DEF WakeTake
  <2>3. \A t \in Tasks : t # ftask[a] => (Guarded(t) => Guarded(t)')
    BY <1>1 DEF Guarded
  <2> QED BY <2>1, <2>2, <2>3, LatchKept
<1>8. CASE WakeCas(a)
  <2>1. fpc[a] = "cas" /\ UNCHANGED wakePending
    BY <1>8 DEF WakeCas
  <2>2. \A t \in Tasks : state'[t] = "PARKED" => state[t] = "PARKED"
    BY <1>8 DEF WakeCas
  <2> QED BY <1>3, <2>1, <2>2
<1>9. CASE WakeEnqueue(a) \/ WakePublish(a) \/ SpawnPublish(a)
  BY <1>3, <1>9, ZenonT(60) DEF WakeEnqueue, WakePublish, SpawnPublish, taskVars
<1>10. CASE NudgeLoad(a) \/ NudgeSwap(a) \/ NudgeWrite(a) \/ NudgeRearm(a)
  BY <1>3, <1>10 DEF NudgeLoad, NudgeSwap, NudgeWrite, NudgeRearm, taskVars
<1>11. ASSUME NEW t \in Tasks, Spawn(a, t) PROVE LatchNotOrphaned'
  <2>1. fpc[a] = "idle"
    BY <1>11 DEF Spawn, MayCall
  <2>2. \A s \in Tasks : state'[s] = "PARKED" => state[s] = "PARKED" /\ wakePending'[s] = wakePending[s]
    BY <1>11, ZenonT(60) DEF Spawn
  <2> QED BY <1>2, <2>1, <2>2, LatchKept
<1>12. ASSUME NEW t \in Tasks, SpawnRefused(a, t) PROVE LatchNotOrphaned'
  <2>1. fpc[a] = "idle"
    BY <1>12 DEF SpawnRefused, MayCall
  <2>2. \A s \in Tasks : state'[s] = "PARKED" => state[s] = "PARKED" /\ wakePending'[s] = wakePending[s]
    BY <1>12, ZenonT(60) DEF SpawnRefused
  <2> QED BY <1>2, <2>1, <2>2, LatchKept
<1> QED BY <1>4, <1>5, <1>6, <1>7, <1>8, <1>9, <1>10, <1>11, <1>12 DEF CallStep

(* The loop threads keep the latches of parked tasks guarded: the one that parks
   a task looks again itself. *)
LEMMA LatchLoop ==
    ASSUME TypeOK, LatchNotOrphaned, NEW l \in Loops, TaskStep(l) \/ LoopStep(l)
    PROVE  LatchNotOrphaned'
<1> USE DEF TypeOK, TaskTypes, LoopTypes, At, Step, NextStep, taskVars, loopVars, frame
<1>1. ASSUME lpc[l] # "take2", \A m \in Loops : m # l => lpc'[m] = lpc[m] /\ cur'[m] = cur[m],
             UNCHANGED frame
      PROVE  \A t : Guarded(t) => Guarded(t)'
  BY <1>1, ZenonT(60) DEF Guarded
<1>2. CASE ParkOn(l) \/ CancelPark(l) \/ VerdictResched(l) \/ VerdictDone(l)
  <2>1. \A t \in Tasks : Guarded(t) => Guarded(t)'
    BY <1>1, <1>2, ZenonT(60) DEF ParkOn, CancelPark, VerdictResched, VerdictDone
  <2> QED BY <1>2, <2>1, LatchKept, ZenonT(60) DEF ParkOn, CancelPark, VerdictResched, VerdictDone
<1>3. CASE VerdictPending(l)
  <2>1. \A t \in Tasks : Guarded(t) => Guarded(t)'
    BY <1>1, <1>3, ZenonT(60) DEF VerdictPending
  <2> QED BY <1>3, <2>1, LatchKept, ZenonT(60) DEF VerdictPending
<1>4. CASE DrainPub(l) \/ DrainWake(l) \/ VerdictEnqueue(l)
  <2>1. \A t \in Tasks : Guarded(t) => Guarded(t)'
    BY <1>1, <1>4, ZenonT(60) DEF DrainPub, DrainWake, VerdictEnqueue
  <2> QED BY <1>4, <2>1, LatchKept, ZenonT(60) DEF DrainPub, DrainWake, VerdictEnqueue
<1>5. CASE StoreScheduled(l)
  <2>1. \A t \in Tasks : Guarded(t) => Guarded(t)'
    BY <1>1, <1>5, ZenonT(60) DEF StoreScheduled
  <2> QED BY <1>5, <2>1, LatchKept, ZenonT(60) DEF StoreScheduled
<1>6. CASE StoreParked(l)
  <2>1. \A t \in Tasks : Guarded(t) => Guarded(t)'
    BY <1>1, <1>6, ZenonT(60) DEF StoreParked
  <2>2. Guarded(cur[l])'
    BY <1>6, ZenonT(60) DEF StoreParked, Guarded
  <2>3. \A t \in Tasks : t # cur[l] => state'[t] = state[t]
    BY <1>6, ZenonT(60) DEF StoreParked
  <2>4. UNCHANGED <<wakePending, cur>>
    BY <1>6 DEF StoreParked
  <2>5. ASSUME NEW t \in Tasks, state'[t] = "PARKED", wakePending'[t] PROVE Guarded(t)'
    <3>1. CASE t = cur[l]
      BY <2>2, <2>4, <3>1 DEF Guarded
    <3>2. CASE t # cur[l]
      BY <2>1, <2>3, <2>4, <2>5, <3>2, ZenonT(60) DEF LatchNotOrphaned, Guarded
    <3> QED BY <3>1, <3>2
  <2> QED BY <2>5 DEF LatchNotOrphaned, Guarded
<1>7. CASE RecheckTake(l)
  <2>1. cur[l] \in Tasks
    BY <1>7, ZenonT(60) DEF RecheckTake, LoopCoherent, WithTask
  <2>2. UNCHANGED <<state, frame>> /\ wakePending' = [wakePending EXCEPT ![cur[l]] = FALSE]
    BY <1>7, ZenonT(60) DEF RecheckTake
  <2>3. \A m \in Loops : m # l => lpc'[m] = lpc[m] /\ cur'[m] = cur[m]
    BY <1>7, ZenonT(60) DEF RecheckTake
  <2>4. \A t \in Tasks : t # cur[l] => (Guarded(t) => Guarded(t)')
    BY <2>2, <2>3, ZenonT(60) DEF Guarded
  <2> QED BY <2>1, <2>2, <2>4, LatchKept
<1>8. CASE RecheckCas(l)
  <2>1. \A t \in Tasks : Guarded(t) => Guarded(t)'
    BY <1>1, <1>8, ZenonT(60) DEF RecheckCas
  <2> QED BY <1>8, <2>1, LatchKept, ZenonT(60) DEF RecheckCas
<1>9. CASE PopNone(l) \/ TimersDrained(l) \/ StealNone(l) \/ SleepBegin(l)
  <2>1. \A t \in Tasks : Guarded(t) => Guarded(t)'
    BY <1>1, <1>9, ZenonT(60) DEF PopNone, TimersDrained, StealNone, SleepBegin
  <2> QED BY <1>9, <2>1, LatchKept, ZenonT(60) DEF PopNone, TimersDrained, StealNone, SleepBegin
<1>10. CASE SleepCheckPub(l) \/ SleepCheckWake(l) \/ PollReturn(l)
  <2>1. \A t \in Tasks : Guarded(t) => Guarded(t)'
    BY <1>1, <1>10, ZenonT(60) DEF SleepCheckPub, SleepCheckWake, PollReturn
  <2> QED BY <1>10, <2>1, LatchKept, ZenonT(60) DEF SleepCheckPub, SleepCheckWake, PollReturn
<1>11. CASE SleepEnd(l) \/ PollNow(l) \/ Dispatched(l)
  <2>1. \A t \in Tasks : Guarded(t) => Guarded(t)'
    BY <1>1, <1>11, ZenonT(60) DEF SleepEnd, PollNow, Dispatched
  <2> QED BY <1>11, <2>1, LatchKept, ZenonT(60) DEF SleepEnd, PollNow, Dispatched
<1>12. ASSUME NEW t \in Tasks, Run(l, t) PROVE LatchNotOrphaned'
  <2>1. \A s \in Tasks : Guarded(s) => Guarded(s)'
    BY <1>1, <1>12, ZenonT(60) DEF Run
  <2> QED BY <1>12, <2>1, LatchKept, ZenonT(60) DEF Run
<1>13. ASSUME NEW t \in Tasks, EventWake(l, t) PROVE LatchNotOrphaned'
  <2>1. fpc[l] = "idle" /\ UNCHANGED <<lpc, cur, wakePending>>
    BY <1>13, ZenonT(60) DEF EventWake, ClaimFirst
  <2>2. \A x \in Actors : x # l => fpc'[x] = fpc[x] /\ ftask'[x] = ftask[x]
    BY <1>13, ZenonT(60) DEF EventWake, ClaimFirst, Won, Frame, FrameTypes
  <2>3. \A s \in Tasks : Guarded(s) => Guarded(s)'
    BY <2>1, <2>2, ZenonT(60) DEF Guarded
  <2>4. \A s \in Tasks : state'[s] = "PARKED" => state[s] = "PARKED"
    BY <1>13, ZenonT(60) DEF EventWake, ClaimFirst
  <2> QED BY <2>1, <2>3, <2>4, LatchKept, ZenonT(60)
<1>14. ASSUME NEW m \in Loops, NEW t \in Tasks, Steal(l, m, t) PROVE LatchNotOrphaned'
  <2>1. \A s \in Tasks : Guarded(s) => Guarded(s)'
    BY <1>1, <1>14, ZenonT(60) DEF Steal
  <2> QED BY <1>14, <2>1, LatchKept, ZenonT(60) DEF Steal
<1> QED
  BY <1>2, <1>3, <1>4, <1>5, <1>6, <1>7, <1>8, <1>9, <1>10, <1>11, <1>12, <1>13, <1>14, ZenonT(60)
     DEF TaskStep, LoopStep

(* A wake latched on a parked task always has a waker or a verdict that will
   look at the latch again (task.c's and loop.c's re-checks). *)
THEOREM LatchesOwned == Spec => []LatchNotOrphaned
<1>1. Init => LatchNotOrphaned
  BY DEF Init, LatchNotOrphaned
<1>2. TypeOK /\ LatchNotOrphaned /\ [Next]_vars => LatchNotOrphaned'
  <2>1. ASSUME LatchNotOrphaned, UNCHANGED vars PROVE LatchNotOrphaned'
    BY <2>1, ZenonT(60) DEF LatchNotOrphaned, vars, taskVars, loopVars, frame
  <2> QED BY <2>1, LatchCall, LatchLoop DEF Next
<1> QED BY <1>1, <1>2, TypeInit, TypeStep, PTL DEF Spec

----------------------------------------------------------------------------
(* Pinned tasks: PinnedStaysHome, one group of variables at a time. *)

QueuesHome ==
    \A t \in Pinned, l \in Loops :
        /\ t \notin deque[l]
        /\ t \in fifo[l] \cup pubHead[l] \cup wakeHead[l] => l = Home[t]
ThreadsHome == \A t \in Pinned, l \in Loops : cur[l] = t => l = Home[t]
FramesHome == \A t \in Pinned, a \in Actors : ftask[a] = t => floop[a] = Home[t]
ArmedHome == \A t \in Pinned : armed[t] \in {None, Home[t]}

(* The four groups make up the property. *)
LEMMA PinnedGroups ==
    PinnedStaysHome <=> QueuesHome /\ ThreadsHome /\ FramesHome /\ ArmedHome
  BY DEF PinnedStaysHome, QueuesHome, ThreadsHome, FramesHome, ArmedHome

(* Tasks that may be on loop l keep the queues home when they are enqueued there. *)
LEMMA EnqueueHome ==
    ASSUME QueueTypes, QueuesHome, NEW l \in Loops, NEW S \in SUBSET Tasks,
           \A t \in S \cap Pinned : l = Home[t],
           Enqueue(l, S),
           \A m \in Loops : pubHead'[m] \subseteq pubHead[m] /\ wakeHead'[m] \subseteq wakeHead[m]
    PROVE  QueuesHome'
<1>1. PICK D \in SUBSET S :
          /\ D \cap Pinned = {}
          /\ deque' = [deque EXCEPT ![l] = @ \cup D]
          /\ fifo' = [fifo EXCEPT ![l] = @ \cup (S \ D)]
  BY EnqueueEffect
<1>2. ASSUME NEW t \in Pinned, NEW m \in Loops PROVE t \notin deque'[m]
  BY <1>1 DEF QueueTypes, QueuesHome
<1>3. ASSUME NEW t \in Pinned, NEW m \in Loops, t \in fifo'[m] PROVE m = Home[t]
  BY <1>1, <1>3 DEF QueueTypes, QueuesHome
<1> QED BY <1>2, <1>3 DEF QueuesHome

(* A call frame is kept, dropped, or set for a waker or a new task that names
   the home loop. *)
LEMMA PinnedFrames ==
    ASSUME TypeOK, FramesHome, NEW a \in Actors, CallStep(a)
    PROVE  FramesHome'
<1>0. FrameTypes
  BY DEF TypeOK
<1>1. \A x \in Actors : x # a =>
         fpc'[x] = fpc[x] /\ floop'[x] = floop[x] /\ ftask'[x] = ftask[x]
  BY CallEffect
<1>2. ASSUME \A t \in Pinned : ftask'[a] = t => floop'[a] = Home[t] PROVE FramesHome'
  BY <1>1, <1>2 DEF FramesHome
<1>3. ASSUME ftask'[a] = None PROVE FramesHome'
  BY <1>2, <1>3
<1>4. CASE QuietCallStep(a)
  BY <1>2, <1>4, QuietCall DEF FramesHome
<1>5. CASE WakerWake(a)
  <2>1. PICK l, t, pc : l \in Loops /\ t \in Tasks /\ MayName(l, t) /\ Frame(a, pc, l, t)
    BY <1>5 DEF WakerWake, ClaimFirst, Won
  <2>2. floop'[a] = l /\ ftask'[a] = t
    BY <1>0, <2>1 DEF Frame, FrameTypes
  <2> QED BY <1>2, <2>1, <2>2 DEF MayName
<1>6. CASE WakeCas(a)
  <2>1. CASE CanClaim(ftask[a])
    <3>1. floop'[a] = floop[a] /\ ftask'[a] = ftask[a]
      BY <1>6, <2>1 DEF WakeCas, Won, Frame, TypeOK, FrameTypes
    <3> QED BY <1>2, <3>1 DEF FramesHome
  <2>2. CASE ~CanClaim(ftask[a])
    <3>1. ftask'[a] = None
      BY <1>0, <1>6, <2>2, FrameSet, ZenonT(60) DEF WakeCas, Return
    <3> QED BY <1>3, <3>1
  <2> QED BY <2>1, <2>2
<1>7. CASE WakeEnqueue(a)
  BY <1>0, <1>3, <1>7, FrameSet DEF WakeEnqueue, Return
<1>8. CASE WakePublish(a) \/ SpawnPublish(a)
  <2>1. PICK l : Frame(a, "nudge", l, None)
    BY <1>8, ZenonT(60) DEF WakePublish, SpawnPublish
  <2>2. ftask'[a] = None
    BY <1>0, <2>1 DEF Frame, FrameTypes
  <2> QED BY <1>3, <2>2
<1>9. ASSUME NEW t \in Tasks, Spawn(a, t) PROVE FramesHome'
  <2>1. PICK pc : Frame(a, pc, Home[t], t)
    BY <1>9 DEF Spawn
  <2>2. floop'[a] = Home[t] /\ ftask'[a] = t
    BY <1>0, <2>1 DEF Frame, FrameTypes
  <2> QED BY <1>2, <2>2
<1> QED BY <1>4, <1>5, <1>6, <1>7, <1>8, <1>9 DEF CallStep, QuietCallStep

(* A call queues and publishes a task on the loop its frame names. *)
LEMMA PinnedCall ==
    ASSUME TypeOK, PinnedStaysHome, NEW a \in Actors, CallStep(a)
    PROVE  PinnedStaysHome'
<1>1. QueuesHome /\ ThreadsHome /\ FramesHome /\ ArmedHome
  BY PinnedGroups
<1>2. FramesHome'
  BY <1>1, PinnedFrames
<1>3. ThreadsHome' /\ ArmedHome'
  <2>1. UNCHANGED <<armed, cur>>
    BY CallEffect
  <2> QED BY <1>1, <2>1 DEF ThreadsHome, ArmedHome
<1>4. QueuesHome'
  <2>1. ASSUME UNCHANGED <<fifo, deque, pubHead, wakeHead>> PROVE QueuesHome'
    BY <1>1, <2>1 DEF QueuesHome
  <2>2. CASE QuietCallStep(a)
    BY <2>1, <2>2, QuietCall
  <2>3. CASE WakerWake(a) \/ WakeCas(a)
    BY <2>1, <2>3, ZenonT(60) DEF WakerWake, WakeCas, queueVars, inboxVars
  <2>4. ASSUME NEW t \in Tasks, Spawn(a, t) PROVE QueuesHome'
    BY <2>1, <2>4 DEF Spawn, queueVars, inboxVars
  <2>5. ASSUME fpc[a] \in Handing
        PROVE  \E l \in Loops, t \in Tasks :
                   floop[a] = l /\ ftask[a] = t /\ (t \in Pinned => l = Home[t])
    BY <1>1, <2>5 DEF TypeOK, FrameTypes, FrameCoherent, AboutTask, Handing, FramesHome
  <2>6. CASE WakeEnqueue(a)
    <3>1. PICK l \in Loops, t \in Tasks :
              floop[a] = l /\ ftask[a] = t /\ (t \in Pinned => l = Home[t])
      BY <2>5, <2>6 DEF WakeEnqueue, Handing
    <3>2. Enqueue(l, {t}) /\ UNCHANGED <<pubHead, wakeHead>>
      BY <2>6, <3>1 DEF WakeEnqueue, inboxVars
    <3> QED BY <1>1, <3>1, <3>2, EnqueueHome DEF TypeOK
  <2>7. CASE WakePublish(a)
    <3>1. PICK l \in Loops, t \in Tasks :
              floop[a] = l /\ ftask[a] = t /\ (t \in Pinned => l = Home[t])
      BY <2>5, <2>7, ZenonT(60) DEF WakePublish, Handing
    <3>2. wakeHead' = [wakeHead EXCEPT ![l] = @ \cup {t}] /\ UNCHANGED <<fifo, deque, pubHead>>
      BY <2>7, <3>1, ZenonT(60) DEF WakePublish, queueVars
    <3> QED BY <1>1, <3>1, <3>2 DEF QueuesHome, TypeOK, QueueTypes
  <2>8. CASE SpawnPublish(a)
    <3>1. PICK l \in Loops, t \in Tasks :
              floop[a] = l /\ ftask[a] = t /\ (t \in Pinned => l = Home[t])
      BY <2>5, <2>8, ZenonT(60) DEF SpawnPublish, Handing
    <3>2. pubHead' = [pubHead EXCEPT ![l] = @ \cup {t}] /\ UNCHANGED <<fifo, deque, wakeHead>>
      BY <2>8, <3>1, ZenonT(60) DEF SpawnPublish, queueVars
    <3> QED BY <1>1, <3>1, <3>2, ZenonT(60) DEF QueuesHome, TypeOK, QueueTypes
  <2> QED BY <2>2, <2>3, <2>4, <2>6, <2>7, <2>8 DEF CallStep, QuietCallStep
<1> QED
  BY <1>2, <1>3, <1>4, ZenonT(60) DEF PinnedStaysHome, QueuesHome, ThreadsHome, FramesHome, ArmedHome

(* A loop thread runs, queues and arms pinned tasks of its own only. *)
LEMMA PinnedLoop ==
    ASSUME TypeOK, PinnedStaysHome, NEW l \in Loops, TaskStep(l) \/ LoopStep(l)
    PROVE  PinnedStaysHome'
<1> USE DEF TypeOK
<1>1. QueuesHome /\ ThreadsHome /\ FramesHome /\ ArmedHome
  BY PinnedGroups
<1>2. ASSUME QueuesHome', ThreadsHome', FramesHome', ArmedHome' PROVE PinnedStaysHome'
  BY <1>2, ZenonT(60) DEF PinnedStaysHome, QueuesHome, ThreadsHome, FramesHome, ArmedHome
<1>3. ASSUME UNCHANGED <<fifo, deque, pubHead, wakeHead>> PROVE QueuesHome'
  BY <1>1, <1>3, ZenonT(60) DEF QueuesHome
<1>4. ASSUME UNCHANGED frame PROVE FramesHome'
  BY <1>1, <1>4 DEF FramesHome, frame
<1>5. ASSUME UNCHANGED armed PROVE ArmedHome'
  BY <1>1, <1>5 DEF ArmedHome
<1>6. ASSUME \A m \in Loops : cur'[m] \in {None, cur[m]} PROVE ThreadsHome'
  BY <1>1, <1>6 DEF ThreadsHome
<1>7. CASE QuietLoopStep(l)
  <2>1. QueuesHome' /\ ThreadsHome' /\ FramesHome'
    BY <1>3, <1>4, <1>6, <1>7, QuietLoop, ZenonT(60) DEF frame
  <2>2. CASE ParkOn(l)
    <3>1. armed' = [armed EXCEPT ![cur[l]] = l]
      BY <2>2, ZenonT(60) DEF ParkOn
    <3> QED BY <1>1, <1>2, <2>1, <3>1, ZenonT(60) DEF ArmedHome, ThreadsHome, TaskTypes
  <2>3. CASE CancelPark(l)
    <3>1. armed' = [armed EXCEPT ![cur[l]] = None]
      BY <2>3 DEF CancelPark
    <3> QED BY <1>1, <1>2, <2>1, <3>1, ZenonT(60) DEF ArmedHome, TaskTypes
  <2>4. CASE ~ParkOn(l) /\ ~CancelPark(l)
    <3>1. UNCHANGED armed
      BY <1>7, <2>4, ZenonT(60) DEF QuietLoopStep, VerdictResched, VerdictPending, PopNone, RecheckTake,
             TimersDrained, StealNone, SleepBegin, SleepCheckPub, SleepCheckWake,
             PollReturn, SleepEnd, PollNow, Dispatched
    <3> QED BY <1>2, <1>5, <2>1, <3>1
  <2> QED BY <2>2, <2>3, <2>4
<1>8. CASE VerdictDone(l)
  <2>1. /\ armed' = [armed EXCEPT ![cur[l]] = None] /\ cur' = [cur EXCEPT ![l] = None]
        /\ UNCHANGED <<fifo, deque, pubHead, wakeHead, frame>>
    BY <1>8 DEF VerdictDone, NextStep, queueVars, inboxVars
  <2>2. ArmedHome' /\ ThreadsHome'
    BY <1>1, <1>6, <2>1 DEF ArmedHome, TaskTypes, LoopTypes
  <2> QED BY <1>2, <1>3, <1>4, <2>1, <2>2
<1>9. CASE StoreScheduled(l) \/ StoreParked(l)
  BY <1>2, <1>3, <1>4, <1>5, <1>6, <1>9, ZenonT(60) DEF StoreScheduled, StoreParked, queueVars, inboxVars
<1>10. CASE RecheckCas(l)
  <2>1. UNCHANGED <<fifo, deque, pubHead, wakeHead, frame, armed>>
    BY <1>10, ZenonT(60) DEF RecheckCas, queueVars, inboxVars
  <2>2. \A m \in Loops : cur'[m] \in {None, cur[m]}
    BY <1>10 DEF RecheckCas, NextStep, LoopTypes
  <2> QED BY <1>2, <1>3, <1>4, <1>5, <1>6, <2>1, <2>2, ZenonT(60)
<1>11. CASE DrainPub(l)
  <2>1. /\ Enqueue(l, pubHead[l]) /\ UNCHANGED <<frame, armed, cur>>
        /\ pubHead' = [pubHead EXCEPT ![l] = {}] /\ UNCHANGED wakeHead
    BY <1>11 DEF DrainPub
  <2>2. PICK S \in SUBSET Tasks : S = pubHead[l]
    BY DEF QueueTypes
  <2>3. \A t \in S \cap Pinned : l = Home[t]
    BY <1>1, <2>2 DEF QueuesHome
  <2>4. \A m \in Loops : pubHead'[m] \subseteq pubHead[m] /\ wakeHead'[m] \subseteq wakeHead[m]
    BY <2>1 DEF QueueTypes
  <2>5. QueuesHome'
    BY <1>1, <2>1, <2>2, <2>3, <2>4, EnqueueHome, ZenonT(60)
  <2> QED BY <1>2, <1>4, <1>5, <1>6, <2>1, <2>5, ZenonT(60)
<1>12. CASE DrainWake(l)
  <2>1. /\ Enqueue(l, wakeHead[l]) /\ UNCHANGED <<frame, armed, cur>>
        /\ wakeHead' = [wakeHead EXCEPT ![l] = {}] /\ UNCHANGED pubHead
    BY <1>12 DEF DrainWake
  <2>2. PICK S \in SUBSET Tasks : S = wakeHead[l]
    BY DEF QueueTypes
  <2>3. \A t \in S \cap Pinned : l = Home[t]
    BY <1>1, <2>2 DEF QueuesHome
  <2>4. \A m \in Loops : pubHead'[m] \subseteq pubHead[m] /\ wakeHead'[m] \subseteq wakeHead[m]
    BY <2>1 DEF QueueTypes
  <2>5. QueuesHome'
    BY <1>1, <2>1, <2>2, <2>3, <2>4, EnqueueHome, ZenonT(60)
  <2> QED BY <1>2, <1>4, <1>5, <1>6, <2>1, <2>5, Zenon
<1>13. CASE VerdictEnqueue(l)
  <2>1. PICK t \in Tasks : t = cur[l]
    BY <1>13, ZenonT(60) DEF VerdictEnqueue, At, LoopTypes, LoopCoherent, WithTask
  <2>2. /\ Enqueue(l, {t}) /\ UNCHANGED <<frame, armed, pubHead, wakeHead>>
        /\ \A m \in Loops : cur'[m] \in {None, cur[m]}
    BY <1>13, <2>1 DEF VerdictEnqueue, NextStep, inboxVars, LoopTypes
  <2>3. t \in Pinned => l = Home[t]
    BY <1>1, <2>1 DEF ThreadsHome
  <2>4. QueuesHome'
    BY <1>1, <2>2, <2>3, EnqueueHome, ZenonT(60)
  <2> QED BY <1>2, <1>4, <1>5, <1>6, <2>2, <2>4
<1>14. ASSUME NEW t \in Tasks, Run(l, t) PROVE PinnedStaysHome'
  <2>1. /\ fifo' = [fifo EXCEPT ![l] = @ \ {t}] /\ deque' = [deque EXCEPT ![l] = @ \ {t}]
        /\ cur' = [cur EXCEPT ![l] = t] /\ t \in fifo[l] \cup deque[l]
        /\ UNCHANGED <<pubHead, wakeHead, frame, armed>>
    BY <1>14 DEF Run, inboxVars
  <2>2. QueuesHome'
    BY <1>1, <2>1 DEF QueuesHome, QueueTypes
  <2>3. ThreadsHome'
    <3>1. t \in Pinned => l = Home[t]
      BY <1>1, <2>1 DEF QueuesHome
    <3>2. cur'[l] = t /\ \A m \in Loops : m # l => cur'[m] = cur[m]
      BY <2>1 DEF LoopTypes
    <3>3. ASSUME NEW p \in Pinned, NEW m \in Loops, cur'[m] = p PROVE m = Home[p]
      BY <1>1, <3>1, <3>2, <3>3, ZenonT(60) DEF ThreadsHome
    <3> QED BY <3>3 DEF ThreadsHome
  <2> QED BY <1>2, <1>4, <1>5, <2>1, <2>2, <2>3
<1>15. ASSUME NEW t \in Tasks, EventWake(l, t) PROVE PinnedStaysHome'
  <2>1. PICK pc : Frame(l, pc, l, t)
    BY <1>15 DEF EventWake, ClaimFirst, Won
  <2>2. /\ armed[t] = l /\ armed' = [armed EXCEPT ![t] = None]
        /\ UNCHANGED <<fifo, deque, pubHead, wakeHead, cur>>
    BY <1>15 DEF EventWake, queueVars, inboxVars, loopVars
  <2>3. ArmedHome' /\ (t \in Pinned => l = Home[t])
    BY <1>1, <2>2 DEF ArmedHome, TaskTypes
  <2>4. FramesHome'
    <3>1. /\ floop'[l] = l /\ ftask'[l] = t
          /\ \A x \in Actors : x # l => floop'[x] = floop[x] /\ ftask'[x] = ftask[x]
      BY <2>1 DEF Frame, FrameTypes, Actors
    <3> QED BY <1>1, <2>3, <3>1 DEF FramesHome
  <2> QED BY <1>2, <1>3, <1>6, <2>2, <2>3, <2>4
<1>16. ASSUME NEW m \in Loops, NEW t \in Tasks, Steal(l, m, t) PROVE PinnedStaysHome'
  <2>1. /\ t \in deque[m] /\ deque' = [deque EXCEPT ![m] = @ \ {t}, ![l] = @ \cup {t}]
        /\ UNCHANGED <<fifo, pubHead, wakeHead, frame, armed, cur>>
    BY <1>16 DEF Steal, inboxVars
  <2>2. t \notin Pinned
    BY <1>1, <2>1, ZenonT(60) DEF QueuesHome
  <2>3. QueuesHome'
    BY <1>1, <2>1, <2>2 DEF QueuesHome, QueueTypes
  <2> QED BY <1>2, <1>4, <1>5, <1>6, <2>1, <2>3, ZenonT(60)
<1> QED
  BY <1>7, <1>8, <1>9, <1>10, <1>11, <1>12, <1>13, <1>14, <1>15, <1>16, ZenonT(60)
     DEF TaskStep, LoopStep, QuietLoopStep

(* A task spawned pinned never leaves its home loop: no queue, no thread, no
   call and no timer of another loop ever holds it. *)
THEOREM PinnedHome == Spec => []PinnedStaysHome
<1>1. Init => PinnedStaysHome
  BY DEF Init, PinnedStaysHome
<1>2. TypeOK /\ PinnedStaysHome /\ [Next]_vars => PinnedStaysHome'
  <2>1. ASSUME PinnedStaysHome, UNCHANGED vars PROVE PinnedStaysHome'
    BY <2>1, ZenonT(60) DEF PinnedStaysHome, vars, queueVars, inboxVars, loopVars, frame
  <2> QED BY <2>1, PinnedCall, PinnedLoop DEF Next
<1> QED BY <1>1, <1>2, TypeInit, TypeStep, PTL DEF Spec

----------------------------------------------------------------------------
(* The sleep/nudge handshake: SleeperIsNudged, one loop at a time. *)

Promised(l, pcs) == wakeFd[l] \/ \E a \in Actors : floop[a] = l /\ fpc[a] \in pcs
Nudging == {"nudge", "swap", "write"}
NudgedAt(l) ==
    /\ lpc[l] \in {"seePub", "seeWake", "poll"} /\ ~sleeping[l] => Promised(l, {"write"})
    /\ lpc[l] \in {"seeWake", "poll"} /\ pubHead[l] # {} => Promised(l, Nudging)
    /\ lpc[l] = "poll" /\ wakeHead[l] # {} => Promised(l, Nudging)

(* The property holds when it holds of each loop. *)
LEMMA NudgedEach == SleeperIsNudged <=> \A l \in Loops : NudgedAt(l)
  BY DEF SleeperIsNudged, NudgedAt, Promised, Nudging

(* A step that adds nothing to a loop's inbox, does not make it sleep and drops
   no promise keeps the handshake of that loop. *)
LEMMA NudgeKept ==
    ASSUME NEW l \in Loops, NudgedAt(l),
           lpc'[l] \in {"seePub", "seeWake", "poll"} => lpc'[l] = lpc[l],
           sleeping[l] => sleeping'[l],
           wakeFd[l] => wakeFd'[l] \/ lpc'[l] \notin {"seePub", "seeWake", "poll"},
           pubHead'[l] # {} => pubHead[l] # {}, wakeHead'[l] # {} => wakeHead[l] # {},
           \A a \in Actors : floop[a] = l /\ fpc[a] \in Nudging =>
               floop'[a] = l /\ fpc'[a] = fpc[a]
    PROVE  NudgedAt(l)'
<1>1. CASE lpc'[l] \notin {"seePub", "seeWake", "poll"}
  BY <1>1, ZenonT(60) DEF NudgedAt
<1>2. CASE lpc'[l] \in {"seePub", "seeWake", "poll"}
  <2>1. ASSUME Promised(l, {"write"}) PROVE Promised(l, {"write"})'
    BY <1>2, <2>1, ZenonT(60) DEF Promised, Nudging
  <2>2. ASSUME Promised(l, Nudging) PROVE Promised(l, Nudging)'
    BY <1>2, <2>2 DEF Promised, Nudging
  <2> QED BY <1>2, <2>1, <2>2, ZenonT(60) DEF NudgedAt
<1> QED BY <1>1, <1>2, ZenonT(60)

(* A call that is not about to nudge, and pushes nothing, keeps the handshake. *)
LEMMA NudgeOther ==
    ASSUME TypeOK, SleeperIsNudged, NEW a \in Actors, CallStep(a), fpc[a] \notin Nudging,
           UNCHANGED <<inboxVars, nudgeVars>>
    PROVE  SleeperIsNudged'
<1>1. ASSUME NEW l \in Loops PROVE NudgedAt(l)'
  <2>1. UNCHANGED <<lpc, sleeping, wakeFd, pubHead, wakeHead>>
    BY CallEffect DEF inboxVars, nudgeVars
  <2>2. \A x \in Actors : fpc[x] \in Nudging => floop'[x] = floop[x] /\ fpc'[x] = fpc[x]
    BY CallEffect
  <2>3. NudgedAt(l)
    BY NudgedEach
  <2> QED BY <2>1, <2>2, <2>3, NudgeKept, ZenonT(60)
<1> QED BY <1>1, ZenonT(60) DEF SleeperIsNudged, NudgedAt, Promised, Nudging

(* The call of a, made for loop l, leaves the handshake of other loops alone. *)
LEMMA NudgeElsewhere ==
    ASSUME TypeOK, SleeperIsNudged, NEW a \in Actors, NEW l \in Loops, NEW m \in Loops, m # l,
           CallStep(a), floop[a] = l,
           sleeping'[m] = sleeping[m], wakeFd'[m] = wakeFd[m],
           pubHead'[m] = pubHead[m], wakeHead'[m] = wakeHead[m]
    PROVE  NudgedAt(m)'
<1>1. lpc'[m] = lpc[m]
  BY CallEffect, ZenonT(60)
<1>2. \A x \in Actors : floop[x] = m => floop'[x] = m /\ fpc'[x] = fpc[x]
  BY CallEffect, ZenonT(60)
<1>3. NudgedAt(m)
  BY NudgedEach
<1> QED BY <1>1, <1>2, <1>3, NudgeKept, ZenonT(60)

(* A pusher promises a nudge, and whoever takes the flag away pays for it. *)
LEMMA NudgeCall ==
    ASSUME TypeOK, SleeperIsNudged, ~NudgeMayFail, NEW a \in Actors, CallStep(a)
    PROVE  SleeperIsNudged'
<1> USE DEF TypeOK
<1>1. CASE WakerWake(a) \/ WakeLatch(a) \/ WakeCheck(a) \/ WakeTake(a)
  BY <1>1, NudgeOther, ZenonT(60) DEF WakerWake, WakeLatch, WakeCheck, WakeTake, MayCall, Nudging
<1>2. CASE WakeCas(a) \/ WakeEnqueue(a) \/ \E t \in Tasks : Spawn(a, t)
  BY <1>2, NudgeOther, ZenonT(60) DEF WakeCas, WakeEnqueue, Spawn, MayCall, Nudging
<1>13. CASE \E t \in Tasks : SpawnRefused(a, t)
  BY <1>13, NudgeOther DEF SpawnRefused, MayCall, Nudging, frame
<1>3. SUFFICES ASSUME fpc[a] \in {"publish", "spawn", "nudge", "swap", "write", "rearm"}
               PROVE  SleeperIsNudged'
  BY <1>1, <1>2, <1>13, ZenonT(60) DEF CallStep, WakePublish, SpawnPublish, NudgeLoad, NudgeSwap, NudgeWrite,
                    NudgeRearm
<1>4. PICK l \in Loops : floop[a] = l
  BY <1>3 DEF FrameTypes, FrameCoherent
<1>5. NudgedAt(l) /\ lpc'[l] = lpc[l]
  BY NudgedEach, CallEffect
<1>6. ASSUME \A m \in Loops : m # l =>
                /\ sleeping'[m] = sleeping[m] /\ wakeFd'[m] = wakeFd[m]
                /\ pubHead'[m] = pubHead[m] /\ wakeHead'[m] = wakeHead[m],
             NudgedAt(l)'
      PROVE  SleeperIsNudged'
  <2>1. \A m \in Loops : NudgedAt(m)'
    BY <1>4, <1>6, NudgeElsewhere
  <2> QED BY <2>1, ZenonT(60) DEF SleeperIsNudged, NudgedAt, Promised, Nudging
<1>7. ASSUME NEW pcs, NEW x \in Actors, x # a, floop[x] = l, fpc[x] \in pcs
      PROVE  Promised(l, pcs)'
  BY <1>7, CallEffect DEF Promised
<1>8. CASE WakePublish(a) \/ SpawnPublish(a)
  <2>1. fpc[a] \in {"publish", "spawn"} /\ UNCHANGED <<sleeping, wakeFd>>
    BY <1>8, ZenonT(60) DEF WakePublish, SpawnPublish, nudgeVars
  <2>2. \A m \in Loops : m # l => pubHead'[m] = pubHead[m] /\ wakeHead'[m] = wakeHead[m]
    BY <1>4, <1>8, ZenonT(60) DEF WakePublish, SpawnPublish, QueueTypes
  <2>3. Frame(a, "nudge", l, None)
    BY <1>4, <1>8, ZenonT(60) DEF WakePublish, SpawnPublish
  <2>4. Promised(l, Nudging)'
    <3>1. floop'[a] = l /\ fpc'[a] = "nudge"
      BY <2>3 DEF Frame, TypeOK, FrameTypes
    <3> QED BY <3>1 DEF Promised, Nudging
  <2>5. Promised(l, {"write"}) => Promised(l, {"write"})'
    BY <1>7, <2>1, ZenonT(60) DEF Promised
  <2>6. NudgedAt(l)'
    BY <1>5, <2>1, <2>4, <2>5, ZenonT(60) DEF NudgedAt
  <2> QED BY <1>6, <2>1, <2>2, <2>6
<1>9. CASE NudgeLoad(a)
  <2>1. fpc[a] = "nudge" /\ UNCHANGED <<sleeping, wakeFd, pubHead, wakeHead>>
    BY <1>9 DEF NudgeLoad, inboxVars, nudgeVars
  <2>2. Promised(l, {"write"}) => Promised(l, {"write"})'
    BY <1>7, <2>1, ZenonT(60) DEF Promised
  <2>3. CASE sleeping[l]
    <3>1. fpc'[a] = "swap" /\ floop'[a] = l
      BY <1>4, <1>9, <2>3, ZenonT(60) DEF NudgeLoad, Goto, FrameTypes
    <3>2. Promised(l, Nudging)'
      BY <3>1 DEF Promised, Nudging
    <3> QED BY <1>5, <1>6, <2>1, <2>2, <3>2, ZenonT(60) DEF NudgedAt
  <2>4. CASE ~sleeping[l]
    <3>1. Promised(l, {"write"})' => Promised(l, Nudging)'
      BY DEF Promised, Nudging
    <3>2. NudgedAt(l)'
      BY <1>5, <2>1, <2>2, <2>4, <3>1, ZenonT(60) DEF NudgedAt
    <3> QED BY <1>6, <2>1, <3>2, ZenonT(60)
  <2> QED BY <2>3, <2>4
<1>10. CASE NudgeSwap(a)
  <2>1. /\ fpc[a] = "swap" /\ UNCHANGED <<wakeFd, pubHead, wakeHead>>
        /\ sleeping' = [sleeping EXCEPT ![l] = FALSE]
    BY <1>4, <1>10, ZenonT(60) DEF NudgeSwap, inboxVars
  <2>2. Promised(l, {"write"}) => Promised(l, {"write"})'
    BY <1>7, <2>1, ZenonT(60) DEF Promised
  <2>3. Promised(l, {"write"})' => Promised(l, Nudging)'
    BY DEF Promised, Nudging
  <2>4. CASE sleeping[l]
    <3>1. fpc'[a] = "write" /\ floop'[a] = l
      BY <1>4, <1>10, <2>4 DEF NudgeSwap, Goto, FrameTypes
    <3>2. Promised(l, {"write"})'
      BY <3>1 DEF Promised
    <3>3. NudgedAt(l)'
      BY <2>3, <3>2, ZenonT(60) DEF NudgedAt
    <3> QED BY <1>6, <2>1, <3>3, ZenonT(60) DEF LoopTypes
  <2>5. CASE ~sleeping[l]
    <3>1. NudgedAt(l)'
      BY <1>5, <2>1, <2>2, <2>3, <2>5, ZenonT(60) DEF NudgedAt
    <3> QED BY <1>6, <2>1, <3>1, Zenon DEF LoopTypes
  <2> QED BY <2>4, <2>5
<1>11. CASE NudgeWrite(a)
  <2>1. wakeFd' = [wakeFd EXCEPT ![l] = TRUE] /\ UNCHANGED <<sleeping, pubHead, wakeHead>>
    BY <1>4, <1>11, ZenonT(60) DEF NudgeWrite, inboxVars
  <2>2. NudgedAt(l)'
    BY <2>1, ZenonT(60) DEF NudgedAt, Promised, LoopTypes
  <2> QED BY <1>6, <2>1, <2>2, ZenonT(60) DEF LoopTypes
<1>12. CASE NudgeRearm(a)
  <2>1. /\ fpc[a] = "rearm" /\ UNCHANGED <<wakeFd, pubHead, wakeHead>>
        /\ sleeping' = [sleeping EXCEPT ![l] = TRUE]
    BY <1>4, <1>12, ZenonT(60) DEF NudgeRearm, inboxVars
  <2>2. Promised(l, Nudging) => Promised(l, Nudging)'
    BY <1>7, <2>1, ZenonT(60) DEF Promised, Nudging
  <2>3. NudgedAt(l)'
    BY <1>5, <2>1, <2>2, ZenonT(60) DEF NudgedAt, LoopTypes
  <2> QED BY <1>6, <2>1, <2>3, ZenonT(60) DEF LoopTypes
<1> QED
  BY <1>3, <1>8, <1>9, <1>10, <1>11, <1>12, ZenonT(60)
     DEF CallStep, WakerWake, WakeLatch, WakeCheck, WakeTake, WakeCas, WakeEnqueue, Spawn,
         SpawnRefused, MayCall

(* A loop thread touches its own flag, descriptor and stacks only, and drops no
   call that is about to nudge. *)
LEMMA NudgeOwn ==
    ASSUME TypeOK, NEW l \in Loops, TaskStep(l) \/ LoopStep(l)
    PROVE  /\ \A m \in Loops : m # l =>
                 /\ lpc'[m] = lpc[m] /\ sleeping'[m] = sleeping[m] /\ wakeFd'[m] = wakeFd[m]
                 /\ pubHead'[m] = pubHead[m] /\ wakeHead'[m] = wakeHead[m]
           /\ \A x \in Actors : fpc[x] \in Nudging => floop'[x] = floop[x] /\ fpc'[x] = fpc[x]
<1> USE DEF TypeOK, LoopTypes, QueueTypes, Step, NextStep, inboxVars, nudgeVars, loopVars, frame
<1>1. CASE TaskStep(l)
  BY <1>1, ZenonT(60) DEF TaskStep, ParkOn, CancelPark, VerdictDone, VerdictResched, VerdictPending
<1>2. CASE DrainPub(l) \/ DrainWake(l) \/ PopNone(l)
  BY <1>2, ZenonT(60) DEF DrainPub, DrainWake, PopNone
<1>3. CASE StoreScheduled(l) \/ StoreParked(l) \/ RecheckTake(l) \/ RecheckCas(l)
  BY <1>3, ZenonT(60) DEF StoreScheduled, StoreParked, RecheckTake, RecheckCas
<1>4. CASE VerdictEnqueue(l) \/ TimersDrained(l) \/ StealNone(l) \/ SleepBegin(l)
  BY <1>4, ZenonT(60) DEF VerdictEnqueue, TimersDrained, StealNone, SleepBegin
<1>5. CASE SleepCheckPub(l) \/ SleepCheckWake(l)
  BY <1>5, ZenonT(60) DEF SleepCheckPub, SleepCheckWake
<1>6. CASE PollReturn(l) \/ SleepEnd(l) \/ PollNow(l) \/ Dispatched(l)
  BY <1>6, ZenonT(60) DEF PollReturn, SleepEnd, PollNow, Dispatched
<1>7. CASE \E t \in Tasks : Run(l, t)
  BY <1>7, ZenonT(60) DEF Run
<1>8. CASE \E m \in Loops, t \in Tasks : Steal(l, m, t)
  BY <1>8, ZenonT(60) DEF Steal
<1>9. ASSUME NEW t \in Tasks, EventWake(l, t)
      PROVE  /\ UNCHANGED <<lpc, sleeping, wakeFd, pubHead, wakeHead>>
             /\ \A x \in Actors : fpc[x] \in Nudging => floop'[x] = floop[x] /\ fpc'[x] = fpc[x]
  <2>1. PICK pc : Frame(l, pc, l, t)
    BY <1>9, ZenonT(60) DEF EventWake, ClaimFirst, Won
  <2>2. \A x \in Actors : x # l => floop'[x] = floop[x] /\ fpc'[x] = fpc[x]
    BY <2>1, FrameSet, ZenonT(60) DEF Actors
  <2>3. fpc[l] = "idle" /\ "idle" \notin Nudging
    BY <1>9, ZenonT(60) DEF EventWake, At, Nudging
  <2>4. UNCHANGED <<lpc, sleeping, wakeFd, pubHead, wakeHead>>
    BY <1>9, ZenonT(60) DEF EventWake
  <2> QED BY <2>2, <2>3, <2>4, ZenonT(60)
<1> QED
  BY <1>1, <1>2, <1>3, <1>4, <1>5, <1>6, <1>7, <1>8, <1>9, ZenonT(60) DEF LoopStep

(* A loop announces that it sleeps before it looks at its stacks, and blocks only
   after it found both empty. *)
LEMMA NudgeLoop ==
    ASSUME TypeOK, SleeperIsNudged, NEW l \in Loops, TaskStep(l) \/ LoopStep(l)
    PROVE  SleeperIsNudged'
<1>1. \A m \in Loops : NudgedAt(m)
  BY NudgedEach
<1>2. ASSUME NEW m \in Loops, m # l PROVE NudgedAt(m)'
  BY <1>1, <1>2, NudgeOwn, NudgeKept, ZenonT(60)
<1>3. SUFFICES NudgedAt(l)'
  <2> SUFFICES ASSUME \A m \in Loops : NudgedAt(m)' PROVE SleeperIsNudged'
    BY <1>2
  <2> QED BY ZenonT(60) DEF SleeperIsNudged, NudgedAt, Promised, Nudging
<1>4. ASSUME lpc'[l] \notin {"seePub", "seeWake", "poll"} PROVE NudgedAt(l)'
  BY <1>4, ZenonT(60) DEF NudgedAt
<1>5. ASSUME Promised(l, {"write"}), wakeFd'[l] = wakeFd[l] PROVE Promised(l, {"write"})'
  BY <1>5, NudgeOwn, ZenonT(60) DEF Promised, Nudging
<1>6. ASSUME Promised(l, Nudging), wakeFd'[l] = wakeFd[l] PROVE Promised(l, Nudging)'
  BY <1>6, NudgeOwn, ZenonT(60) DEF Promised
<1> USE DEF TypeOK, LoopTypes, At, Step, NextStep
<1>7. CASE TaskStep(l)
  BY <1>4, <1>7, ZenonT(60) DEF TaskStep, ParkOn, CancelPark, VerdictDone, VerdictResched, VerdictPending,
                    loopVars
<1>8. CASE DrainPub(l) \/ DrainWake(l) \/ PopNone(l)
  BY <1>4, <1>8, ZenonT(60) DEF DrainPub, DrainWake, PopNone
<1>9. CASE StoreScheduled(l) \/ StoreParked(l) \/ RecheckTake(l) \/ RecheckCas(l)
  BY <1>4, <1>9, ZenonT(60) DEF StoreScheduled, StoreParked, RecheckTake, RecheckCas
<1>10. CASE VerdictEnqueue(l) \/ TimersDrained(l) \/ StealNone(l)
  BY <1>4, <1>10, ZenonT(60) DEF VerdictEnqueue, TimersDrained, StealNone
<1>11. CASE PollReturn(l) \/ SleepEnd(l) \/ PollNow(l) \/ Dispatched(l)
  BY <1>4, <1>11, ZenonT(60) DEF PollReturn, SleepEnd, PollNow, Dispatched
<1>12. CASE \E t \in Tasks : Run(l, t) \/ EventWake(l, t)
  BY <1>4, <1>12, ZenonT(60) DEF Run, EventWake, loopVars
<1>13. CASE \E m \in Loops, t \in Tasks : Steal(l, m, t)
  BY <1>4, <1>13, ZenonT(60) DEF Steal
<1>14. CASE SleepBegin(l)
  <2>1. lpc'[l] = "seePub" /\ sleeping'[l]
    BY <1>14, ZenonT(60) DEF SleepBegin
  <2> QED BY <2>1, ZenonT(60) DEF NudgedAt
<1>15. CASE SleepCheckPub(l)
  <2>1. CASE pubHead[l] # {}
    BY <1>4, <1>15, <2>1, ZenonT(60) DEF SleepCheckPub
  <2>2. CASE pubHead[l] = {}
    <3>1. lpc[l] = "seePub" /\ lpc'[l] = "seeWake" /\ UNCHANGED <<sleeping, wakeFd, pubHead>>
      BY <1>15, <2>2, ZenonT(60) DEF SleepCheckPub, inboxVars
    <3> QED BY <1>1, <1>5, <2>2, <3>1, ZenonT(60) DEF NudgedAt
  <2> QED BY <2>1, <2>2, ZenonT(60)
<1>16. CASE SleepCheckWake(l)
  <2>1. CASE wakeHead[l] # {}
    BY <1>4, <1>16, <2>1, ZenonT(60) DEF SleepCheckWake
  <2>2. CASE wakeHead[l] = {}
    <3>1. /\ lpc[l] = "seeWake" /\ lpc'[l] = "poll"
          /\ UNCHANGED <<sleeping, wakeFd, pubHead, wakeHead>>
      BY <1>16, <2>2, ZenonT(60) DEF SleepCheckWake, inboxVars
    <3> QED BY <1>1, <1>5, <1>6, <2>2, <3>1, ZenonT(60) DEF NudgedAt
  <2> QED BY <2>1, <2>2, Zenon
<1> QED
  BY <1>7, <1>8, <1>9, <1>10, <1>11, <1>12, <1>13, <1>14, <1>15, <1>16, ZenonT(60) DEF LoopStep

(* If writing the wakeup descriptor never fails, a loop never blocks on an inbox
   with work in it unless a nudge is on its way. *)
THEOREM SleepersNudged ==
    ASSUME NudgeMayFail = FALSE
    PROVE  Spec => []SleeperIsNudged
<1>1. Init => SleeperIsNudged
  BY ZenonT(60) DEF Init, SleeperIsNudged
<1>2. TypeOK /\ SleeperIsNudged /\ [Next]_vars => SleeperIsNudged'
  <2>1. ASSUME SleeperIsNudged, UNCHANGED vars PROVE SleeperIsNudged'
    BY <2>1, ZenonT(60) DEF SleeperIsNudged, vars, inboxVars, nudgeVars, loopVars, frame
  <2> QED BY <2>1, NudgeCall, NudgeLoop DEF Next
<1> QED BY <1>1, <1>2, TypeInit, TypeStep, PTL DEF Spec

=============================================================================
