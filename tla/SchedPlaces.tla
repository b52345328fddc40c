---------------------------- MODULE SchedPlaces ----------------------------
(* The exactly-once discipline of Sched: a runnable task is in one place, a
   running one has one runner, and the scheduler implements TaskLifecycle. *)
EXTENDS SchedProofs

USE PinnedAssumption, HomeAssumption, NoneAssumption, ActorAssumption

PlaceInv == QueuedOnce /\ RunsAlone

(* No task changes place or runner. *)
LEMMA PlacesSame ==
    ASSUME QueuedOnce, RunsAlone, UNCHANGED state,
           \A t \in Tasks, k \in Kinds, x \in Actors : In(t, k, x)' <=> In(t, k, x),
           \A t \in Tasks, l \in Loops : Executes(l, t)' <=> Executes(l, t)
    PROVE  PlaceInv'
<1>1. QueuedOnce'
  BY DEF QueuedOnce
<1>2. RunsAlone'
  BY DEF RunsAlone
<1> QED BY <1>1, <1>2 DEF PlaceInv

(* No task starts or stops running. *)
LEMMA RunsSame ==
    ASSUME RunsAlone,
           \A t \in Tasks : state'[t] = "RUNNING" <=> state[t] = "RUNNING",
           \A t \in Tasks, l \in Loops : Executes(l, t)' <=> Executes(l, t)
    PROVE  RunsAlone'
  BY DEF RunsAlone

(* Task t ends up in place k0 of x0; the others do not move. *)
LEMMA PlacesTo ==
    ASSUME QueuedOnce, NEW t \in Tasks, NEW k0 \in Kinds, NEW x0 \in Actors,
           \A s \in Tasks : s # t => state'[s] = state[s],
           \A s \in Tasks : s # t =>
              \A k \in Kinds, x \in Actors : In(s, k, x)' <=> In(s, k, x),
           state'[t] = "SCHEDULED",
           \A k \in Kinds, x \in Actors : In(t, k, x)' <=> k = k0 /\ x = x0
    PROVE  QueuedOnce'
  BY DEF QueuedOnce

(* Task s is in the same places when the queues, stacks, threads and frames hold
   it as before. *)
LEMMA InSame ==
    ASSUME NEW s \in Tasks,
           \A x \in Loops : s \in fifo'[x] <=> s \in fifo[x],
           \A x \in Loops : s \in deque'[x] <=> s \in deque[x],
           \A x \in Loops : s \in pubHead'[x] <=> s \in pubHead[x],
           \A x \in Loops : s \in wakeHead'[x] <=> s \in wakeHead[x],
           \A x \in Loops : lpc'[x] = "enqueue" /\ cur'[x] = s <=> lpc[x] = "enqueue" /\ cur[x] = s,
           \A x \in Actors : fpc'[x] \in Handing /\ ftask'[x] = s <=> fpc[x] \in Handing /\ ftask[x] = s
    PROVE  \A k \in Kinds, x \in Actors : In(s, k, x)' <=> In(s, k, x)
  BY DEF In

(* Frames other than a's are as before. *)
FramesBut(a) == \A x \in Actors : x # a => fpc'[x] = fpc[x] /\ ftask'[x] = ftask[x]
(* Loop threads other than l are as before. *)
ThreadsBut(l) == \A m \in Loops : m # l => lpc'[m] = lpc[m] /\ cur'[m] = cur[m]

(* The threads alone decide who executes. *)
LEMMA ExecutesSame ==
    ASSUME UNCHANGED <<lpc, cur>>
    PROVE  \A t \in Tasks, l \in Loops : Executes(l, t)' <=> Executes(l, t)
  BY DEF Executes

(* A thread that moves on without starting or stopping a body. *)
LEMMA ExecutesOn ==
    ASSUME NEW l \in Loops, ThreadsBut(l),
           lpc[l] \in Executing <=> lpc'[l] \in Executing,
           lpc[l] \in Executing => cur'[l] = cur[l]
    PROVE  \A t \in Tasks, m \in Loops : Executes(m, t)' <=> Executes(m, t)
  BY DEF Executes, Executing, ThreadsBut

(* A call frame that wins and queues nothing moves no task. *)
LEMMA FrameOnly ==
    ASSUME PlaceInv, NEW a \in Actors,
           UNCHANGED <<state, fifo, deque, pubHead, wakeHead, lpc, cur>>,
           fpc[a] \notin Handing, fpc'[a] \notin Handing, FramesBut(a)
    PROVE  PlaceInv'
<1>1. \A s \in Tasks, x \in Actors :
          fpc'[x] \in Handing /\ ftask'[x] = s <=> fpc[x] \in Handing /\ ftask[x] = s
  BY DEF FramesBut
<1>2. \A s \in Tasks : \A k \in Kinds, x \in Actors : In(s, k, x)' <=> In(s, k, x)
  BY <1>1, InSame
<1> QED BY <1>2, ExecutesSame, PlacesSame DEF PlaceInv

(* A quiet step of a loop thread moves no task. *)
LEMMA ThreadOnly ==
    ASSUME TypeOK, PlaceInv, NEW l \in Loops, QuietLoopStep(l)
    PROVE  /\ PlaceInv' /\ UNCHANGED state
           /\ \A t \in Tasks, m \in Loops : Executes(m, t)' <=> Executes(m, t)
<1>1. /\ UNCHANGED <<state, fifo, deque, pubHead, wakeHead, fpc, floop, ftask>>
      /\ ThreadsBut(l)
      /\ lpc[l] # "enqueue" /\ lpc'[l] # "enqueue"
      /\ lpc[l] \in Executing <=> lpc'[l] \in Executing
      /\ cur'[l] = cur[l] \/ (cur'[l] = None /\ lpc[l] \notin Executing)
  BY QuietLoop DEF ThreadsBut
<1>2. \A s \in Tasks, x \in Loops :
          lpc'[x] = "enqueue" /\ cur'[x] = s <=> lpc[x] = "enqueue" /\ cur[x] = s
  BY <1>1 DEF ThreadsBut
<1>3. \A s \in Tasks : \A k \in Kinds, x \in Actors : In(s, k, x)' <=> In(s, k, x)
  BY <1>1, <1>2, InSame
<1>4. \A t \in Tasks, m \in Loops : Executes(m, t)' <=> Executes(m, t)
  BY <1>1, ExecutesOn
<1> QED BY <1>1, <1>3, <1>4, PlacesSame DEF PlaceInv

(* A caller wins a task that was in no place and that no one runs. *)
LEMMA ClaimPlaces ==
    ASSUME TypeOK, PlaceInv, NEW a \in Actors, NEW t \in Tasks,
           state[t] \in {"PARKED", "DONE"}, state' = [state EXCEPT ![t] = "SCHEDULED"],
           fpc[a] \notin Handing, fpc'[a] \in Handing, ftask'[a] = t, FramesBut(a),
           UNCHANGED <<fifo, deque, pubHead, wakeHead, lpc, cur>>
    PROVE  PlaceInv'
<1> USE DEF PlaceInv
<1>1. \A k \in Kinds, x \in Actors : ~In(t, k, x)
  BY DEF QueuedOnce
<1>2. \A s \in Tasks : s # t => \A k \in Kinds, x \in Actors : In(s, k, x)' <=> In(s, k, x)
  BY InSame DEF FramesBut
<1>3. \A k \in Kinds, x \in Actors : In(t, k, x)' <=> k = "call" /\ x = a
  BY <1>1 DEF In, Kinds, FramesBut
<1>4. /\ state'[t] = "SCHEDULED" /\ \A s \in Tasks : s # t => state'[s] = state[s]
      /\ \A s \in Tasks : state'[s] = "RUNNING" <=> state[s] = "RUNNING"
  BY DEF TypeOK, TaskTypes
<1>5. QueuedOnce'
  BY <1>2, <1>3, <1>4, PlacesTo DEF Kinds
<1>6. RunsAlone'
  BY <1>4, ExecutesSame, RunsSame
<1> QED BY <1>5, <1>6

(* Task t, held in place k0 of x0, is the only one held there and nowhere else. *)
LEMMA OnlyThere ==
    ASSUME QueuedOnce, NEW t \in Tasks, NEW k0 \in Kinds, NEW x0 \in Actors, In(t, k0, x0)
    PROVE  /\ state[t] = "SCHEDULED"
           /\ \A k \in Kinds, x \in Actors : In(t, k, x) => k = k0 /\ x = x0
  BY DEF QueuedOnce

(* The queue or stack of loop l of one kind gains the task t. *)
Gains(l, t) ==
    \/ /\ fifo' = [fifo EXCEPT ![l] = @ \cup {t}] /\ UNCHANGED <<deque, pubHead, wakeHead>>
    \/ /\ deque' = [deque EXCEPT ![l] = @ \cup {t}] /\ UNCHANGED <<fifo, pubHead, wakeHead>>
    \/ /\ pubHead' = [pubHead EXCEPT ![l] = @ \cup {t}] /\ UNCHANGED <<fifo, deque, wakeHead>>
    \/ /\ wakeHead' = [wakeHead EXCEPT ![l] = @ \cup {t}] /\ UNCHANGED <<fifo, deque, pubHead>>

(* Enqueuing one task is such a gain. *)
LEMMA EnqueueGains ==
    ASSUME TypeOK, NEW l \in Loops, NEW t \in Tasks, Enqueue(l, {t}), UNCHANGED <<pubHead, wakeHead>>
    PROVE  Gains(l, t)
<1>1. [fifo EXCEPT ![l] = @ \cup {}] = fifo /\ [deque EXCEPT ![l] = @ \cup {}] = deque
  BY DEF TypeOK, QueueTypes
<1> QED BY <1>1, EnqueueOne, Zenon DEF Gains

(* Where a gained task is, and where the others are. *)
LEMMA GainEffect ==
    ASSUME TypeOK, NEW l \in Loops, NEW t \in Tasks, Gains(l, t)
    PROVE  /\ \A s \in Tasks : s # t => \A x \in Loops :
                 /\ s \in fifo'[x] <=> s \in fifo[x]
                 /\ s \in deque'[x] <=> s \in deque[x]
                 /\ s \in pubHead'[x] <=> s \in pubHead[x]
                 /\ s \in wakeHead'[x] <=> s \in wakeHead[x]
           /\ (\A x \in Loops : t \notin fifo[x] \cup deque[x] \cup pubHead[x] \cup wakeHead[x]) =>
              \E k0 \in Kinds \ {"call", "verdict"} :
                 \A k \in Kinds \ {"call", "verdict"}, x \in Actors :
                     In(t, k, x)' <=> k = k0 /\ x = l
<1> USE DEF TypeOK, QueueTypes, Actors
<1>1. CASE fifo' = [fifo EXCEPT ![l] = @ \cup {t}] /\ UNCHANGED <<deque, pubHead, wakeHead>>
  BY <1>1 DEF In, Kinds
<1>2. CASE deque' = [deque EXCEPT ![l] = @ \cup {t}] /\ UNCHANGED <<fifo, pubHead, wakeHead>>
  BY <1>2 DEF In, Kinds
<1>3. CASE pubHead' = [pubHead EXCEPT ![l] = @ \cup {t}] /\ UNCHANGED <<fifo, deque, wakeHead>>
  BY <1>3 DEF In, Kinds
<1>4. CASE wakeHead' = [wakeHead EXCEPT ![l] = @ \cup {t}] /\ UNCHANGED <<fifo, deque, pubHead>>
  BY <1>4 DEF In, Kinds
<1> QED BY <1>1, <1>2, <1>3, <1>4 DEF Gains

(* A caller hands the task it won to a queue or stack. *)
LEMMA CallHandsOver ==
    ASSUME TypeOK, PlaceInv, NEW a \in Actors, NEW l \in Loops, NEW t \in Tasks,
           fpc[a] \in Handing, ftask[a] = t, fpc'[a] \notin Handing, FramesBut(a),
           UNCHANGED <<state, lpc, cur>>, Gains(l, t)
    PROVE  PlaceInv'
<1>1. In(t, "call", a) /\ "call" \in Kinds
  BY DEF In, Kinds
<1>2. /\ state[t] = "SCHEDULED"
      /\ \A k \in Kinds, x \in Actors : In(t, k, x) => k = "call" /\ x = a
  BY <1>1, OnlyThere DEF PlaceInv
<1>3. \A x \in Loops : t \notin fifo[x] \cup deque[x] \cup pubHead[x] \cup wakeHead[x]
  BY <1>2 DEF In, Kinds, Actors
<1>4. PICK k0 \in Kinds \ {"call", "verdict"} :
          \A k \in Kinds \ {"call", "verdict"}, x \in Actors : In(t, k, x)' <=> k = k0 /\ x = l
  BY <1>3, GainEffect
<1>5. \A x \in Actors : ~In(t, "call", x)' /\ ~In(t, "verdict", x)'
  BY <1>2 DEF In, FramesBut, Kinds
<1>6. \A k \in Kinds, x \in Actors : In(t, k, x)' <=> k = k0 /\ x = l
  BY <1>4, <1>5
<1>7. \A s \in Tasks : s # t => \A k \in Kinds, x \in Actors : In(s, k, x)' <=> In(s, k, x)
  BY GainEffect, InSame DEF FramesBut
<1>8. QueuedOnce'
  BY <1>2, <1>6, <1>7, PlacesTo DEF PlaceInv, Actors
<1>9. RunsAlone'
  BY ExecutesSame, RunsSame DEF PlaceInv
<1> QED BY <1>8, <1>9 DEF PlaceInv

(* A loop thread hands the task of its verdict to a run queue. *)
LEMMA VerdictHandsOver ==
    ASSUME TypeOK, PlaceInv, NEW l \in Loops, NEW t \in Tasks,
           lpc[l] = "enqueue", cur[l] = t, lpc'[l] \notin Executing, lpc'[l] # "enqueue",
           ThreadsBut(l), UNCHANGED <<state, fpc, ftask>>, Gains(l, t)
    PROVE  PlaceInv'
<1>1. In(t, "verdict", l) /\ "verdict" \in Kinds /\ l \in Actors
  BY DEF In, Kinds, Actors
<1>2. /\ state[t] = "SCHEDULED"
      /\ \A k \in Kinds, x \in Actors : In(t, k, x) => k = "verdict" /\ x = l
  BY <1>1, OnlyThere DEF PlaceInv
<1>3. \A x \in Loops : t \notin fifo[x] \cup deque[x] \cup pubHead[x] \cup wakeHead[x]
  BY <1>2 DEF In, Kinds, Actors
<1>4. PICK k0 \in Kinds \ {"call", "verdict"} :
          \A k \in Kinds \ {"call", "verdict"}, x \in Actors : In(t, k, x)' <=> k = k0 /\ x = l
  BY <1>3, GainEffect
<1>5. \A x \in Actors : ~In(t, "call", x)' /\ ~In(t, "verdict", x)'
  BY <1>2 DEF In, ThreadsBut, Kinds
<1>6. \A k \in Kinds, x \in Actors : In(t, k, x)' <=> k = k0 /\ x = l
  BY <1>4, <1>5
<1>7. \A s \in Tasks : s # t => \A k \in Kinds, x \in Actors : In(s, k, x)' <=> In(s, k, x)
  BY GainEffect, InSame DEF ThreadsBut
<1>8. QueuedOnce'
  BY <1>1, <1>2, <1>6, <1>7, PlacesTo DEF PlaceInv
<1>9. RunsAlone'
  BY ExecutesOn, RunsSame DEF PlaceInv, Executing
<1> QED BY <1>8, <1>9 DEF PlaceInv

(* Loop l stops running task t. *)
LEMMA RunnerStops ==
    ASSUME TypeOK, RunsAlone, NEW l \in Loops, NEW t \in Tasks, NEW to \in TaskStates,
           to # "RUNNING", Executes(l, t), state' = [state EXCEPT ![t] = to],
           lpc'[l] \notin Executing, ThreadsBut(l)
    PROVE  /\ RunsAlone'
           /\ \A s \in Tasks, m \in Loops : Executes(m, s)' <=> Executes(m, s) /\ m # l
<1>1. \A s \in Tasks, m \in Loops : Executes(m, s)' <=> Executes(m, s) /\ m # l
  BY DEF Executes, Executing, ThreadsBut
<1>2. \A m \in Loops : Executes(m, t) => m = l
  BY DEF RunsAlone
<1>3. \A s \in Tasks : Executes(l, s) => s = t
  BY DEF Executes
<1>4. state'[t] = to /\ \A s \in Tasks : s # t => state'[s] = state[s]
  BY DEF TypeOK, TaskTypes
<1> QED
  BY <1>1, <1>2, <1>3, <1>4 DEF RunsAlone

(* The body of task t ends on loop l and the task does not become runnable. *)
LEMMA StopsRunning ==
    ASSUME TypeOK, PlaceInv, NEW l \in Loops, NEW t \in Tasks, NEW to \in {"PARKED", "DONE"},
           lpc[l] \in Executing, cur[l] = t, state' = [state EXCEPT ![t] = to],
           lpc'[l] \notin Executing, lpc'[l] # "enqueue", ThreadsBut(l),
           UNCHANGED <<fifo, deque, pubHead, wakeHead, fpc, ftask>>
    PROVE  /\ PlaceInv' /\ Executes(l, t)
           /\ \A s \in Tasks, m \in Loops : Executes(m, s)' <=> Executes(m, s) /\ m # l
<1>1. Executes(l, t) /\ state[t] = "RUNNING"
  BY DEF PlaceInv, RunsAlone, Executes, Executing
<1>2. lpc[l] # "enqueue"
  BY DEF Executing
<1>3. \A s \in Tasks : \A k \in Kinds, x \in Actors : In(s, k, x)' <=> In(s, k, x)
  BY <1>2, InSame DEF ThreadsBut
<1>4. state'[t] = to /\ \A s \in Tasks : s # t => state'[s] = state[s]
  BY DEF TypeOK, TaskTypes
<1>5. QueuedOnce'
  BY <1>1, <1>3, <1>4 DEF PlaceInv, QueuedOnce
<1>6. to \in TaskStates /\ to # "RUNNING"
  BY DEF TaskStates
<1> QED BY <1>1, <1>5, <1>6, RunnerStops, Zenon DEF PlaceInv

(* The verdict on task t makes it runnable in the hands of loop l. *)
LEMMA VerdictHolds ==
    ASSUME TypeOK, QueuedOnce, NEW l \in Loops, NEW t \in Tasks,
           state[t] # "SCHEDULED", state' = [state EXCEPT ![t] = "SCHEDULED"],
           lpc[l] # "enqueue", lpc'[l] = "enqueue", cur'[l] = t, ThreadsBut(l),
           UNCHANGED <<fifo, deque, pubHead, wakeHead, fpc, ftask>>
    PROVE  QueuedOnce'
<1>1. \A k \in Kinds, x \in Actors : ~In(t, k, x)
  BY DEF QueuedOnce
<1>2. \A s \in Tasks : s # t => \A k \in Kinds, x \in Actors : In(s, k, x)' <=> In(s, k, x)
  BY InSame DEF ThreadsBut
<1>3. \A k \in Kinds, x \in Actors : In(t, k, x)' <=> k = "verdict" /\ x = l
  BY <1>1 DEF In, Kinds, ThreadsBut, Actors
<1>4. state'[t] = "SCHEDULED" /\ \A s \in Tasks : s # t => state'[s] = state[s]
  BY DEF TypeOK, TaskTypes
<1> QED BY <1>2, <1>3, <1>4, PlacesTo DEF Kinds, Actors

(* Tasks queued on loop l are then in one of its run queues each, and every other place
   in the run queues stays as it was. *)
LEMMA QueuesGrow ==
    ASSUME TypeOK, NEW l \in Loops, NEW S \in SUBSET Tasks, Enqueue(l, S)
    PROVE  \E D \in SUBSET S : \A t \in Tasks, x \in Actors :
              /\ In(t, "fifo", x)' <=> In(t, "fifo", x) \/ (x = l /\ t \in S \ D)
              /\ In(t, "deque", x)' <=> In(t, "deque", x) \/ (x = l /\ t \in D)
<1>1. PICK D \in SUBSET S :
          /\ deque' = [deque EXCEPT ![l] = @ \cup D]
          /\ fifo' = [fifo EXCEPT ![l] = @ \cup (S \ D)]
  BY EnqueueEffect
<1>2. /\ fifo'[l] = fifo[l] \cup (S \ D) /\ \A x \in Loops : x # l => fifo'[x] = fifo[x]
      /\ deque'[l] = deque[l] \cup D /\ \A x \in Loops : x # l => deque'[x] = deque[x]
  BY <1>1 DEF TypeOK, QueueTypes
<1>3. ASSUME NEW t \in Tasks, NEW x \in Actors
      PROVE  In(t, "fifo", x)' <=> In(t, "fifo", x) \/ (x = l /\ t \in S \ D)
  BY <1>2 DEF In
<1>4. ASSUME NEW t \in Tasks, NEW x \in Actors
      PROVE  In(t, "deque", x)' <=> In(t, "deque", x) \/ (x = l /\ t \in D)
  BY <1>2 DEF In
<1> QED BY <1>3, <1>4

(* Every task of the set S is in place k0 of loop l and moves to its run queues. *)
LEMMA DrainPlaces ==
    ASSUME TypeOK, PlaceInv, NEW l \in Loops, NEW S \in SUBSET Tasks, NEW k0 \in {"pub", "wake"},
           \A t \in S : In(t, k0, l),
           \A t \in Tasks \ S : ~In(t, k0, l),
           \A t \in Tasks, x \in Actors : In(t, k0, x)' <=> In(t, k0, x) /\ x # l,
           \A t \in Tasks, k \in {"pub", "wake", "call", "verdict"}, x \in Actors :
               k # k0 => (In(t, k, x)' <=> In(t, k, x)),
           Enqueue(l, S), UNCHANGED state
    PROVE  QueuedOnce'
<1>2. \A t \in S : /\ state[t] = "SCHEDULED"
                   /\ \A k \in Kinds, x \in Actors : In(t, k, x) => k = k0 /\ x = l
  BY OnlyThere DEF PlaceInv, Kinds, Actors
<1>3. PICK D \in SUBSET S : \A t \in Tasks, x \in Actors :
          /\ In(t, "fifo", x)' <=> In(t, "fifo", x) \/ (x = l /\ t \in S \ D)
          /\ In(t, "deque", x)' <=> In(t, "deque", x) \/ (x = l /\ t \in D)
  BY QueuesGrow
<1>4. \A t \in Tasks \ S : \A k \in Kinds, x \in Actors : In(t, k, x)' <=> In(t, k, x)
  BY <1>3 DEF Kinds
<1>5. \A t \in S : \A k \in Kinds, x \in Actors :
          In(t, k, x)' <=> x = l /\ ((t \in D /\ k = "deque") \/ (t \notin D /\ k = "fifo"))
  <2> SUFFICES ASSUME NEW t \in S, NEW k \in Kinds, NEW x \in Actors
               PROVE  In(t, k, x)' <=> x = l /\ ((t \in D /\ k = "deque") \/ (t \notin D /\ k = "fifo"))
    OBVIOUS
  <2>1. CASE k = "fifo" \/ k = "deque"
    BY <1>2, <1>3, <2>1 DEF Kinds
  <2>2. CASE k # "fifo" /\ k # "deque"
    BY <1>2, <2>2 DEF Kinds
  <2> QED BY <2>1, <2>2
<1>6. ASSUME NEW t \in Tasks \ S
      PROVE  /\ state'[t] = "SCHEDULED" <=> \E k \in Kinds, x \in Actors : In(t, k, x)'
             /\ \A k \in Kinds, x \in Actors :
                   In(t, k, x)' => \A j \in Kinds, y \in Actors : In(t, j, y)' => j = k /\ y = x
  BY <1>4 DEF PlaceInv, QueuedOnce
<1>7. ASSUME NEW t \in S
      PROVE  /\ state'[t] = "SCHEDULED" /\ \E k \in Kinds, x \in Actors : In(t, k, x)'
             /\ \A k \in Kinds, x \in Actors :
                   In(t, k, x)' => \A j \in Kinds, y \in Actors : In(t, j, y)' => j = k /\ y = x
  BY <1>2, <1>5 DEF Kinds, Actors
<1> QED BY <1>6, <1>7 DEF QueuedOnce

(* A popped task leaves its queue and runs. *)
LEMMA RunPlaces ==
    ASSUME TypeOK, PlaceInv, NEW l \in Loops, NEW t \in Tasks, Run(l, t)
    PROVE  /\ PlaceInv' /\ state[t] = "SCHEDULED"
           /\ \A s \in Tasks, m \in Loops : Executes(m, s)' <=> Executes(m, s) \/ (s = t /\ m = l)
<1>1. /\ t \in fifo[l] \cup deque[l] /\ lpc[l] = "pop" /\ lpc'[l] = "run" /\ cur'[l] = t
      /\ UNCHANGED <<pubHead, wakeHead, fpc, ftask>>
  BY DEF Run, At, Step, inboxVars, frame, TypeOK, LoopTypes
<1>2. fifo' = [fifo EXCEPT ![l] = @ \ {t}] /\ deque' = [deque EXCEPT ![l] = @ \ {t}]
  BY DEF Run
<1>3. state'[t] = "RUNNING" /\ \A s \in Tasks : s # t => state'[s] = state[s]
  BY DEF Run, TypeOK, TaskTypes
<1>4. ThreadsBut(l)
  BY DEF Run, Step, ThreadsBut, TypeOK, LoopTypes
<1>5. PICK k0 \in {"fifo", "deque"} : In(t, k0, l)
  BY <1>1 DEF In
<1>6. /\ state[t] = "SCHEDULED"
      /\ \A k \in Kinds, x \in Actors : In(t, k, x) => k = k0 /\ x = l
  BY <1>5, OnlyThere DEF PlaceInv, Kinds, Actors
<1>7. \A s \in Tasks : s # t => \A k \in Kinds, x \in Actors : In(s, k, x)' <=> In(s, k, x)
  <2>1. \A s \in Tasks, x \in Loops : s # t =>
            (s \in fifo'[x] <=> s \in fifo[x]) /\ (s \in deque'[x] <=> s \in deque[x])
    BY <1>2 DEF TypeOK, QueueTypes
  <2> QED BY <1>1, <1>4, <2>1, InSame DEF ThreadsBut
<1>8. \A k \in Kinds, x \in Actors : ~In(t, k, x)'
  <2>1. \A x \in Loops : t \notin fifo'[x] /\ t \notin deque'[x]
    BY <1>2, <1>6 DEF In, Kinds, Actors, TypeOK, QueueTypes
  <2> QED BY <1>1, <1>4, <1>6, <2>1 DEF In, Kinds, ThreadsBut
<1>9. QueuedOnce'
  BY <1>3, <1>7, <1>8 DEF PlaceInv, QueuedOnce
<1>10. \A m \in Loops : ~Executes(m, t)
  BY <1>6 DEF PlaceInv, RunsAlone
<1>11. \A s \in Tasks, m \in Loops : Executes(m, s)' <=> Executes(m, s) \/ (s = t /\ m = l)
  BY <1>1, <1>4 DEF Executes, ThreadsBut
<1>12. RunsAlone'
  BY <1>3, <1>10, <1>11 DEF PlaceInv, RunsAlone
<1> QED BY <1>6, <1>9, <1>11, <1>12 DEF PlaceInv

(* A stolen task moves from one deque to another. *)
LEMMA StealPlaces ==
    ASSUME TypeOK, PlaceInv, NEW l \in Loops, NEW m \in Loops, NEW t \in Tasks, Steal(l, m, t)
    PROVE  /\ PlaceInv' /\ UNCHANGED state
           /\ \A s \in Tasks, x \in Loops : Executes(x, s)' <=> Executes(x, s)
<1>1. /\ m # l /\ t \in deque[m]
      /\ UNCHANGED <<state, fifo, pubHead, wakeHead, cur, fpc, ftask>>
      /\ lpc[l] = "steal" /\ lpc' = [lpc EXCEPT ![l] = "dispatch"]
  BY DEF Steal, At, Step, inboxVars, frame, taskVars
<1>2. deque' = [deque EXCEPT ![m] = @ \ {t}, ![l] = @ \cup {t}]
  BY DEF Steal
<1>3. ThreadsBut(l) /\ lpc'[l] = "dispatch"
  BY <1>1 DEF ThreadsBut, TypeOK, LoopTypes
<1>4. In(t, "deque", m) /\ "deque" \in Kinds /\ m \in Actors /\ l \in Actors
  BY <1>1 DEF In, Kinds, Actors
<1>5. /\ state[t] = "SCHEDULED"
      /\ \A k \in Kinds, x \in Actors : In(t, k, x) => k = "deque" /\ x = m
  BY <1>4, OnlyThere DEF PlaceInv
<1>6. \A s \in Tasks, x \in Loops : s # t => (s \in deque'[x] <=> s \in deque[x])
  BY <1>2 DEF TypeOK, QueueTypes
<1>7. \A s \in Tasks : s # t => \A k \in Kinds, x \in Actors : In(s, k, x)' <=> In(s, k, x)
  BY <1>1, <1>3, <1>6, InSame DEF ThreadsBut
<1>8. \A x \in Loops : t \in deque'[x] <=> x = l
  <2>1. \A x \in Loops : t \in deque[x] => x = m
    BY <1>5 DEF In, Kinds, Actors
  <2> QED BY <1>1, <1>2, <2>1 DEF TypeOK, QueueTypes
<1>9. \A k \in Kinds, x \in Actors : In(t, k, x)' <=> k = "deque" /\ x = l
  BY <1>1, <1>3, <1>5, <1>8 DEF In, Kinds, ThreadsBut
<1>10. QueuedOnce'
  BY <1>1, <1>4, <1>5, <1>7, <1>9, PlacesTo DEF PlaceInv
<1>11. \A s \in Tasks, x \in Loops : Executes(x, s)' <=> Executes(x, s)
  BY <1>1, <1>3, ExecutesOn DEF Executing
<1>12. RunsAlone'
  BY <1>1, <1>11, RunsSame DEF PlaceInv
<1> QED BY <1>1, <1>10, <1>11, <1>12 DEF PlaceInv

(* What a step does to the states and runners of the tasks: nothing, a claim, the
   end of a run, or the start of one. *)
NobodyMoves == \A t \in Tasks, l \in Loops : Executes(l, t)' <=> Executes(l, t)
Stutters == UNCHANGED state /\ NobodyMoves
Claims ==
    \E t \in Tasks :
        /\ state[t] \in {"PARKED", "DONE"}
        /\ state' = [state EXCEPT ![t] = "SCHEDULED"]
        /\ NobodyMoves
Settles ==
    \E t \in Tasks, l \in Loops, to \in {"SCHEDULED", "PARKED", "DONE"} :
        /\ Executes(l, t)
        /\ state' = [state EXCEPT ![t] = to]
        /\ \A s \in Tasks, m \in Loops : Executes(m, s)' <=> Executes(m, s) /\ m # l
Starts == \E t \in Tasks, l \in Loops : Run(l, t)
Outcome == Stutters \/ Claims \/ Settles \/ Starts

(* A waker, or an event, that names t wins it or moves on. *)
LEMMA FirstClaim ==
    ASSUME TypeOK, PlaceInv, NEW a \in Actors, NEW l \in Loops, NEW t \in Tasks,
           ClaimFirst(a, l, t), fpc[a] = "idle",
           UNCHANGED <<fifo, deque, pubHead, wakeHead, lpc, cur>>
    PROVE  PlaceInv' /\ Outcome
<1>1. fpc[a] \notin Handing
  BY DEF Handing
<1>2. CASE CanClaim(t)
  <2>1. state[t] = "PARKED" /\ state' = [state EXCEPT ![t] = "SCHEDULED"]
    BY <1>2 DEF ClaimFirst, CanClaim
  <2>2. PICK pc \in Handing : Frame(a, pc, l, t)
    BY <1>2 DEF ClaimFirst, Won, Handing
  <2>3. fpc'[a] \in Handing /\ ftask'[a] = t /\ FramesBut(a)
    BY <2>2, FrameSet DEF TypeOK, FramesBut
  <2>4. PlaceInv'
    BY <1>1, <2>1, <2>3, ClaimPlaces, ZenonT(60)
  <2> QED BY <2>1, <2>4, ExecutesSame, ZenonT(60) DEF Outcome, Claims, NobodyMoves
<1>3. CASE ~CanClaim(t)
  <2>1. UNCHANGED state /\ Frame(a, "latch", l, t)
    BY <1>3 DEF ClaimFirst
  <2>2. fpc'[a] \notin Handing /\ FramesBut(a)
    BY <2>1, FrameSet DEF TypeOK, FramesBut, Handing
  <2>3. PlaceInv'
    BY <1>1, <2>1, <2>2, FrameOnly
  <2> QED BY <2>1, <2>3, ExecutesSame DEF Outcome, Stutters, NobodyMoves
<1> QED BY <1>2, <1>3

(* Calls keep the runnable tasks in one place and leave the running ones alone. *)
LEMMA CallPlaces ==
    ASSUME TypeOK, PlaceInv, NEW a \in Actors, CallStep(a)
    PROVE  PlaceInv' /\ Outcome
<1>1. UNCHANGED <<lpc, cur>> /\ FramesBut(a)
  BY CallEffect DEF FramesBut
<1>2. NobodyMoves
  BY <1>1, ExecutesSame DEF NobodyMoves
<1>3. CASE QuietCallStep(a)
  <2>1. /\ UNCHANGED <<state, fifo, deque, pubHead, wakeHead>>
        /\ fpc[a] \notin Handing /\ fpc'[a] \notin Handing
    BY <1>3, QuietCall
  <2>2. PlaceInv'
    BY <1>1, <2>1, FrameOnly
  <2> QED BY <1>2, <2>1, <2>2 DEF Outcome, Stutters
<1>4. CASE WakerWake(a)
  BY <1>1, <1>4, FirstClaim DEF WakerWake, MayCall, queueVars, inboxVars
<1>5. CASE WakeCas(a)
  <2>1. PICK t \in Tasks, l \in Loops : t = ftask[a] /\ l = floop[a]
    BY <1>5 DEF WakeCas, AboutTask, Claiming, TypeOK, FrameTypes, FrameCoherent
  <2>2. /\ fpc[a] = "cas" /\ "cas" \notin Handing
        /\ UNCHANGED <<fifo, deque, pubHead, wakeHead>>
    BY <1>5, ZenonT(60) DEF WakeCas, Handing, queueVars, inboxVars
  <2>3. CASE CanClaim(t)
    <3>1. state[t] = "PARKED" /\ state' = [state EXCEPT ![t] = "SCHEDULED"]
      BY <1>5, <2>1, <2>3 DEF WakeCas, CanClaim
    <3>2. PICK pc \in Handing : Frame(a, pc, l, t)
      BY <1>5, <2>1, <2>3 DEF WakeCas, Won, Handing
    <3>3. fpc'[a] \in Handing /\ ftask'[a] = t
      BY <3>2 DEF Frame, TypeOK, FrameTypes
    <3>4. PlaceInv'
      BY <1>1, <2>2, <3>1, <3>3, ClaimPlaces, ZenonT(60)
    <3> QED BY <1>2, <3>1, <3>4, ZenonT(60) DEF Outcome, Claims
  <2>4. CASE ~CanClaim(t)
    <3>1. UNCHANGED state /\ Return(a)
      BY <1>5, <2>1, <2>4, ZenonT(60) DEF WakeCas
    <3>2. fpc'[a] \notin Handing
      BY <3>1 DEF Return, Frame, Handing, TypeOK, FrameTypes
    <3>3. PlaceInv'
      BY <1>1, <2>2, <3>1, <3>2, FrameOnly
    <3> QED BY <1>2, <3>1, <3>3 DEF Outcome, Stutters
  <2> QED BY <2>3, <2>4
<1>6. CASE WakeEnqueue(a) \/ WakePublish(a) \/ SpawnPublish(a)
  <2>1. fpc[a] \in Handing /\ UNCHANGED state
    BY <1>6, ZenonT(60) DEF WakeEnqueue, WakePublish, SpawnPublish, Handing, taskVars
  <2>2. PICK t \in Tasks, l \in Loops : t = ftask[a] /\ l = floop[a]
    BY <2>1 DEF AboutTask, Handing, TypeOK, FrameTypes, FrameCoherent
  <2>3. Gains(l, t)
    <3>1. CASE WakeEnqueue(a)
      BY <2>2, <3>1, EnqueueGains DEF WakeEnqueue, inboxVars
    <3>2. CASE WakePublish(a) \/ SpawnPublish(a)
      BY <2>2, <3>2, ZenonT(60) DEF WakePublish, SpawnPublish, Gains, queueVars
    <3> QED BY <1>6, <3>1, <3>2
  <2>4. fpc'[a] \in {"idle", "nudge"}
    BY <1>6 DEF WakeEnqueue, WakePublish, SpawnPublish, Return, Frame, TypeOK, FrameTypes
  <2>5. fpc'[a] \notin Handing
    BY <2>4 DEF Handing
  <2>6. PlaceInv'
    BY <1>1, <2>1, <2>2, <2>3, <2>5, CallHandsOver
  <2> QED BY <1>2, <2>1, <2>6 DEF Outcome, Stutters
<1>7. ASSUME NEW t \in Tasks, Spawn(a, t) PROVE PlaceInv' /\ Outcome
  <2>1. /\ state[t] = "DONE" /\ state' = [state EXCEPT ![t] = "SCHEDULED"]
        /\ fpc[a] = "idle" /\ "idle" \notin Handing
        /\ UNCHANGED <<fifo, deque, pubHead, wakeHead>>
    BY <1>7 DEF Spawn, MayCall, Handing, queueVars, inboxVars
  <2>2. PICK pc \in Handing : Frame(a, pc, Home[t], t)
    BY <1>7 DEF Spawn, Handing
  <2>3. fpc'[a] \in Handing /\ ftask'[a] = t
    BY <2>2 DEF Frame, TypeOK, FrameTypes
  <2>4. PlaceInv'
    BY <1>1, <2>1, <2>3, ClaimPlaces, ZenonT(60)
  <2> QED BY <1>2, <2>1, <2>4, ZenonT(60) DEF Outcome, Claims
<1> QED BY <1>3, <1>4, <1>5, <1>6, <1>7 DEF CallStep, QuietCallStep

(* Loop threads keep the runnable tasks in one place and the running ones with
   one runner. *)
LEMMA LoopPlaces ==
    ASSUME TypeOK, PlaceInv, NEW l \in Loops, TaskStep(l) \/ LoopStep(l)
    PROVE  PlaceInv' /\ Outcome
<1> USE DEF TypeOK
<1>1. CASE QuietLoopStep(l)
  BY <1>1, ThreadOnly DEF Outcome, Stutters, NobodyMoves
<1>2. ASSUME lpc[l] \in WithTask PROVE \E t \in Tasks : t = cur[l]
  BY <1>2 DEF LoopTypes, LoopCoherent
<1>3. CASE VerdictDone(l) \/ StoreParked(l)
  <2>1. lpc[l] \in {"run", "park"}
    BY <1>3 DEF VerdictDone, StoreParked, At
  <2>2. PICK t \in Tasks : t = cur[l]
    BY <1>2, <2>1 DEF WithTask
  <2>3. PICK to \in {"PARKED", "DONE"} : state' = [state EXCEPT ![t] = to]
    BY <1>3, <2>2 DEF VerdictDone, StoreParked
  <2>4. ThreadsBut(l) /\ lpc'[l] \in {"take2", "drainPub", "fair"}
    BY <1>3 DEF VerdictDone, StoreParked, ThreadsBut, NextStep, Step, LoopTypes
  <2>5. UNCHANGED <<fifo, deque, pubHead, wakeHead, fpc, ftask>>
    BY <1>3 DEF VerdictDone, StoreParked, queueVars, inboxVars, frame
  <2>6. /\ PlaceInv' /\ Executes(l, t)
        /\ \A s \in Tasks, m \in Loops : Executes(m, s)' <=> Executes(m, s) /\ m # l
    BY <2>1, <2>2, <2>3, <2>4, <2>5, StopsRunning, ZenonT(60) DEF Executing
  <2> QED BY <2>3, <2>6, ZenonT(60) DEF Outcome, Settles
<1>4. CASE StoreScheduled(l)
  <2>1. lpc[l] = "resched" /\ UNCHANGED <<fifo, deque, pubHead, wakeHead, fpc, ftask, cur>>
    BY <1>4 DEF StoreScheduled, At, queueVars, inboxVars, frame
  <2>2. PICK t \in Tasks : t = cur[l]
    BY <1>2, <2>1 DEF WithTask
  <2>3. state' = [state EXCEPT ![t] = "SCHEDULED"] /\ lpc'[l] = "enqueue" /\ ThreadsBut(l)
    BY <1>4, <2>2 DEF StoreScheduled, Step, ThreadsBut, LoopTypes
  <2>4. Executes(l, t) /\ state[t] = "RUNNING"
    BY <2>1, <2>2 DEF Executes, PlaceInv, RunsAlone
  <2>5. QueuedOnce'
    BY <2>1, <2>2, <2>3, <2>4, VerdictHolds, ZenonT(60) DEF PlaceInv
  <2>6. /\ RunsAlone'
        /\ \A s \in Tasks, m \in Loops : Executes(m, s)' <=> Executes(m, s) /\ m # l
    BY <2>3, <2>4, RunnerStops, ZenonT(60) DEF PlaceInv, TaskStates, Executing
  <2> QED BY <2>3, <2>4, <2>5, <2>6, ZenonT(60) DEF PlaceInv, Outcome, Settles
<1>5. CASE RecheckCas(l)
  <2>1. lpc[l] = "cas" /\ UNCHANGED <<fifo, deque, pubHead, wakeHead, fpc, ftask>>
    BY <1>5 DEF RecheckCas, At, queueVars, inboxVars, frame
  <2>2. PICK t \in Tasks : t = cur[l]
    BY <1>2, <2>1 DEF WithTask
  <2>3. ThreadsBut(l) /\ lpc'[l] \in {"enqueue", "drainPub", "fair"}
    BY <1>5 DEF RecheckCas, NextStep, Step, ThreadsBut, LoopTypes
  <2>4. NobodyMoves
    BY <2>1, <2>3, ExecutesOn, ZenonT(60) DEF Executing, NobodyMoves
  <2>5. CASE CanClaim(t)
    <3>1. /\ state[t] = "PARKED" /\ state' = [state EXCEPT ![t] = "SCHEDULED"]
          /\ lpc'[l] = "enqueue" /\ cur'[l] = t
      BY <1>5, <2>2, <2>5 DEF RecheckCas, CanClaim, Step, LoopTypes
    <3>2. QueuedOnce'
      BY <2>1, <2>3, <3>1, VerdictHolds, ZenonT(60) DEF PlaceInv
    <3>3. \A s \in Tasks : state'[s] = "RUNNING" <=> state[s] = "RUNNING"
      BY <3>1 DEF TaskTypes
    <3>4. RunsAlone'
      BY <2>4, <3>3, RunsSame DEF PlaceInv, NobodyMoves
    <3> QED BY <2>4, <3>1, <3>2, <3>4, ZenonT(60) DEF PlaceInv, Outcome, Claims
  <2>6. CASE ~CanClaim(t)
    <3>1. UNCHANGED state /\ lpc'[l] # "enqueue"
      BY <1>5, <2>2, <2>6 DEF RecheckCas, NextStep, Step, LoopTypes
    <3>2. \A s \in Tasks : \A k \in Kinds, x \in Actors : In(s, k, x)' <=> In(s, k, x)
      BY <2>1, <2>3, <3>1, InSame, ZenonT(60) DEF ThreadsBut
    <3>3. PlaceInv'
      BY <2>4, <3>1, <3>2, PlacesSame, ZenonT(60) DEF PlaceInv, NobodyMoves
    <3> QED BY <2>4, <3>1, <3>3 DEF Outcome, Stutters
  <2> QED BY <2>5, <2>6
<1>6. CASE VerdictEnqueue(l)
  <2>1. lpc[l] = "enqueue" /\ UNCHANGED <<state, pubHead, wakeHead, fpc, ftask>>
    BY <1>6 DEF VerdictEnqueue, At, taskVars, inboxVars, frame
  <2>2. PICK t \in Tasks : t = cur[l]
    BY <1>2, <2>1 DEF WithTask
  <2>3. ThreadsBut(l) /\ lpc'[l] \in {"drainPub", "fair"}
    BY <1>6 DEF VerdictEnqueue, NextStep, Step, ThreadsBut, LoopTypes
  <2>4. Gains(l, t)
    BY <1>6, <2>1, <2>2, EnqueueGains DEF VerdictEnqueue
  <2>5. PlaceInv'
    BY <2>1, <2>2, <2>3, <2>4, VerdictHandsOver DEF Executing
  <2>6. NobodyMoves
    BY <2>1, <2>3, ExecutesOn, ZenonT(60) DEF Executing, NobodyMoves
  <2> QED BY <2>1, <2>5, <2>6 DEF Outcome, Stutters
<1>7. CASE DrainPub(l)
  <2>1. lpc[l] = "drainPub" /\ UNCHANGED <<state, wakeHead, cur, fpc, ftask>>
    BY <1>7 DEF DrainPub, At, taskVars, frame
  <2>2. ThreadsBut(l) /\ lpc'[l] = "drainWake"
    BY <1>7 DEF DrainPub, Step, ThreadsBut, LoopTypes
  <2>3. NobodyMoves
    BY <2>1, <2>2, ExecutesOn, ZenonT(60) DEF Executing, NobodyMoves
  <2>4. PICK S \in SUBSET Tasks : S = pubHead[l]
    BY DEF QueueTypes
  <2>5. Enqueue(l, S) /\ pubHead' = [pubHead EXCEPT ![l] = {}]
    BY <1>7, <2>4 DEF DrainPub
  <2>6. \A t \in Tasks : In(t, "pub", l) <=> t \in S
    BY <2>4 DEF In
  <2>7. \A t \in Tasks, x \in Actors : In(t, "pub", x)' <=> In(t, "pub", x) /\ x # l
    BY <2>5, ZenonT(60) DEF In, QueueTypes
  <2>8. \A t \in Tasks, k \in {"pub", "wake", "call", "verdict"}, x \in Actors :
            k # "pub" => (In(t, k, x)' <=> In(t, k, x))
    <3> SUFFICES ASSUME NEW t \in Tasks, NEW k \in {"wake", "call", "verdict"}, NEW x \in Actors
                 PROVE  In(t, k, x)' <=> In(t, k, x)
      OBVIOUS
    <3>1. CASE k = "wake" \/ k = "call"
      BY <2>1, <3>1 DEF In
    <3>2. CASE k = "verdict"
      BY <2>1, <2>2, <3>2 DEF In, ThreadsBut
    <3> QED BY <3>1, <3>2
  <2>9. QueuedOnce'
    BY <2>1, <2>5, <2>6, <2>7, <2>8, DrainPlaces, ZenonT(60)
  <2>10. RunsAlone'
    BY <2>1, <2>3, RunsSame DEF PlaceInv, NobodyMoves
  <2> QED BY <2>1, <2>3, <2>9, <2>10 DEF PlaceInv, Outcome, Stutters
<1>8. CASE DrainWake(l)
  <2>1. lpc[l] = "drainWake" /\ UNCHANGED <<state, pubHead, cur, fpc, ftask>>
    BY <1>8 DEF DrainWake, At, taskVars, frame
  <2>2. ThreadsBut(l) /\ lpc'[l] = "pop"
    BY <1>8 DEF DrainWake, Step, ThreadsBut, LoopTypes
  <2>3. NobodyMoves
    BY <2>1, <2>2, ExecutesOn, ZenonT(60) DEF Executing, NobodyMoves
  <2>4. PICK S \in SUBSET Tasks : S = wakeHead[l]
    BY DEF QueueTypes
  <2>5. Enqueue(l, S) /\ wakeHead' = [wakeHead EXCEPT ![l] = {}]
    BY <1>8, <2>4 DEF DrainWake
  <2>6. \A t \in Tasks : In(t, "wake", l) <=> t \in S
    BY <2>4 DEF In
  <2>7. \A t \in Tasks, x \in Actors : In(t, "wake", x)' <=> In(t, "wake", x) /\ x # l
    BY <2>5, ZenonT(60) DEF In, QueueTypes
  <2>8. \A t \in Tasks, k \in {"pub", "wake", "call", "verdict"}, x \in Actors :
            k # "wake" => (In(t, k, x)' <=> In(t, k, x))
    <3> SUFFICES ASSUME NEW t \in Tasks, NEW k \in {"pub", "call", "verdict"}, NEW x \in Actors
                 PROVE  In(t, k, x)' <=> In(t, k, x)
      OBVIOUS
    <3>1. CASE k = "pub" \/ k = "call"
      BY <2>1, <3>1 DEF In
    <3>2. CASE k = "verdict"
      BY <2>1, <2>2, <3>2, ZenonT(60) DEF In, ThreadsBut
    <3> QED BY <3>1, <3>2
  <2>9. QueuedOnce'
    BY <2>1, <2>5, <2>6, <2>7, <2>8, DrainPlaces, ZenonT(60)
  <2>10. RunsAlone'
    BY <2>1, <2>3, RunsSame DEF PlaceInv, NobodyMoves
  <2> QED BY <2>1, <2>3, <2>9, <2>10 DEF PlaceInv, Outcome, Stutters
<1>9. ASSUME NEW t \in Tasks, Run(l, t) PROVE PlaceInv' /\ Outcome
  BY <1>9, RunPlaces DEF Outcome, Starts
<1>10. ASSUME NEW t \in Tasks, EventWake(l, t) PROVE PlaceInv' /\ Outcome
  <2>1. /\ fpc[l] = "idle" /\ ClaimFirst(l, l, t)
        /\ UNCHANGED <<fifo, deque, pubHead, wakeHead, lpc, cur>>
    BY <1>10 DEF EventWake, At, queueVars, inboxVars, loopVars
  <2> QED BY <2>1, FirstClaim DEF Actors
<1>11. ASSUME NEW m \in Loops, NEW t \in Tasks, Steal(l, m, t) PROVE PlaceInv' /\ Outcome
  BY <1>11, StealPlaces DEF Outcome, Stutters, NobodyMoves
<1> QED
  BY <1>1, <1>3, <1>4, <1>5, <1>6, <1>7, <1>8, <1>9, <1>10, <1>11
     DEF TaskStep, LoopStep, QuietLoopStep

(* Every step keeps the runnable tasks in one place and the running ones with one
   runner, and is one of the four outcomes. *)
LEMMA PlaceStep == TypeOK /\ PlaceInv /\ [Next]_vars => PlaceInv' /\ Outcome
<1>1. ASSUME PlaceInv, UNCHANGED vars PROVE PlaceInv' /\ Outcome
  <2>1. UNCHANGED <<state, fifo, deque, pubHead, wakeHead, lpc, cur, fpc, ftask>>
    BY <1>1 DEF vars, taskVars, queueVars, inboxVars, loopVars, frame
  <2>2. \A s \in Tasks : \A k \in Kinds, x \in Actors : In(s, k, x)' <=> In(s, k, x)
    BY <2>1, InSame
  <2>3. NobodyMoves
    BY <2>1, ExecutesSame DEF NobodyMoves
  <2> QED BY <1>1, <2>1, <2>2, <2>3, PlacesSame DEF PlaceInv, Outcome, Stutters, NobodyMoves
<1> QED BY <1>1, CallPlaces, LoopPlaces DEF Next

(* Initially no task is in a place or running. *)
LEMMA PlaceInit == Init => PlaceInv
<1> SUFFICES ASSUME Init PROVE PlaceInv
  OBVIOUS
<1>1. QueuedOnce
  <2>1. ASSUME NEW t \in Tasks, NEW k \in Kinds, NEW x \in Actors PROVE ~In(t, k, x)
    BY DEF Init, In, Handing, Actors
  <2>2. \A t \in Tasks : state[t] # "SCHEDULED"
    BY DEF Init
  <2> QED BY <2>1, <2>2, Zenon DEF QueuedOnce
<1>2. RunsAlone
  BY DEF Init, RunsAlone, Executes
<1> QED BY <1>1, <1>2 DEF PlaceInv

(* A runnable task is in exactly one run queue, inbox stack or pair of hands:
   the claim of __task_wake_claim and the verdicts of __xtc_loop_step never
   queue a task twice and never drop a runnable one. *)
THEOREM ExactlyOnce == Spec => []QueuedOnce
<1>1. Init => TypeOK /\ PlaceInv
  BY TypeInit, PlaceInit
<1>2. TypeOK /\ PlaceInv /\ [Next]_vars => (TypeOK /\ PlaceInv)'
  BY TypeStep, PlaceStep
<1>3. PlaceInv => QueuedOnce
  BY DEF PlaceInv
<1> QED BY <1>1, <1>2, <1>3, PTL DEF Spec

(* No task is ever executed by two loops at once. *)
THEOREM OneRunner == Spec => []RunsAlone
<1>1. Init => TypeOK /\ PlaceInv
  BY TypeInit, PlaceInit
<1>2. TypeOK /\ PlaceInv /\ [Next]_vars => (TypeOK /\ PlaceInv)'
  BY TypeStep, PlaceStep
<1>3. PlaceInv => RunsAlone
  BY DEF PlaceInv
<1> QED BY <1>1, <1>2, <1>3, PTL DEF Spec

----------------------------------------------------------------------------
(* The refinement mapping names the loop that executes a task. *)
LEMMA RunnerIs ==
    ASSUME RunsAlone, NEW t \in Tasks
    PROVE  /\ \A l \in Loops : Executes(l, t) => Runner(t) = l
           /\ (\A l \in Loops : ~Executes(l, t)) => Runner(t) = None
  BY DEF RunsAlone, Runner

(* The mapping does not see a step that starts and stops no task. *)
LEMMA RunnerSame ==
    ASSUME RunsAlone, RunsAlone', NEW t \in Tasks,
           \A l \in Loops : Executes(l, t)' <=> Executes(l, t)
    PROVE  Runner(t)' = Runner(t)
<1>1. CASE \E l \in Loops : Executes(l, t)
  <2>1. PICK l \in Loops : Executes(l, t)
    BY <1>1
  <2>2. Runner(t) = l
    BY <2>1, RunnerIs
  <2>3. Executes(l, t)'
    BY <2>1
  <2>4. Runner(t)' = l
    BY <2>3 DEF RunsAlone, Runner
  <2> QED BY <2>2, <2>4
<1>2. CASE \A l \in Loops : ~Executes(l, t)
  BY <1>2 DEF Runner
<1> QED BY <1>1, <1>2

(* A step that neither runs nor settles a task nor changes its state is a
   stuttering step of the life cycle. *)
LEMMA StutterStep ==
    ASSUME RunsAlone, RunsAlone', UNCHANGED state,
           \A t \in Tasks, l \in Loops : Executes(l, t)' <=> Executes(l, t)
    PROVE  UNCHANGED Lifecycle!vars
<1>1. \A t \in Tasks : Runner(t)' = Runner(t)
  BY RunnerSame
<1> QED BY <1>1 DEF Lifecycle!vars

(* A claim of a parked or finished task is a Wake or a Create. *)
LEMMA ClaimStep ==
    ASSUME TypeOK, RunsAlone, RunsAlone', NEW t \in Tasks,
           state[t] \in {"PARKED", "DONE"}, state' = [state EXCEPT ![t] = "SCHEDULED"],
           \A s \in Tasks, l \in Loops : Executes(l, s)' <=> Executes(l, s)
    PROVE  Lifecycle!Next
<1>1. \A s \in Tasks : Runner(s)' = Runner(s)
  BY RunnerSame
<1> QED BY <1>1, ZenonT(60) DEF Lifecycle!Next, Lifecycle!Wake, Lifecycle!Create, Lifecycle!Move

(* The end of a run is a Verdict. *)
LEMMA VerdictStep ==
    ASSUME TypeOK, RunsAlone, RunsAlone', NEW t \in Tasks, NEW l \in Loops,
           NEW to \in {"SCHEDULED", "PARKED", "DONE"},
           Executes(l, t), state' = [state EXCEPT ![t] = to],
           \A s \in Tasks, m \in Loops : Executes(m, s)' <=> Executes(m, s) /\ m # l
    PROVE  Lifecycle!Next
<1>1. state[t] = "RUNNING" /\ \A m \in Loops : Executes(m, t) => m = l
  BY DEF RunsAlone
<1>2. \A s \in Tasks : s # t => Runner(s)' = Runner(s)
  <2>1. \A s \in Tasks : s # t => \A m \in Loops : Executes(m, s)' <=> Executes(m, s)
    BY DEF Executes
  <2> QED BY <2>1, RunnerSame
<1>3. Runner(t)' = None
  BY <1>1 DEF Runner
<1>4. [s \in Tasks |-> Runner(s)'] = [[s \in Tasks |-> Runner(s)] EXCEPT ![t] = None]
  BY <1>2, <1>3, Zenon
<1> QED BY <1>1, <1>4, ZenonT(60) DEF Lifecycle!Next, Lifecycle!Verdict, Lifecycle!Move

(* The start of a run is a Dispatch. *)
LEMMA DispatchStep ==
    ASSUME TypeOK, PlaceInv, RunsAlone', NEW t \in Tasks, NEW l \in Loops, Run(l, t)
    PROVE  Lifecycle!Next
<1>1. /\ state[t] = "SCHEDULED"
      /\ \A s \in Tasks, m \in Loops : Executes(m, s)' <=> Executes(m, s) \/ (s = t /\ m = l)
  BY RunPlaces
<1>2. \A m \in Loops : ~Executes(m, t)
  BY <1>1, ZenonT(60) DEF PlaceInv, RunsAlone
<1>3. \A s \in Tasks : s # t => Runner(s)' = Runner(s)
  BY <1>1, RunnerSame, ZenonT(60) DEF PlaceInv
<1>4. Runner(t) = None /\ Runner(t)' = l
  BY <1>1, <1>2, ZenonT(60) DEF Runner, RunsAlone
<1>5. [s \in Tasks |-> Runner(s)'] = [[s \in Tasks |-> Runner(s)] EXCEPT ![t] = l]
  BY <1>3, <1>4, ZenonT(60)
<1>6. state' = [state EXCEPT ![t] = "RUNNING"]
  BY DEF Run
<1> QED BY <1>1, <1>4, <1>5, <1>6, ZenonT(60) DEF Lifecycle!Next, Lifecycle!Dispatch, Lifecycle!Move

(* Every step of the scheduler is a step of the life cycle or a stutter. *)
LEMMA LifecycleStep ==
    TypeOK /\ PlaceInv /\ [Next]_vars => [Lifecycle!Next]_(Lifecycle!vars)
<1> SUFFICES ASSUME TypeOK, PlaceInv, [Next]_vars PROVE [Lifecycle!Next]_(Lifecycle!vars)
  OBVIOUS
<1>1. PlaceInv' /\ Outcome
  BY PlaceStep
<1>2. CASE Stutters
  BY <1>1, <1>2, StutterStep DEF PlaceInv, Stutters, NobodyMoves
<1>3. CASE Claims
  BY <1>1, <1>3, ClaimStep, ZenonT(60) DEF PlaceInv, Claims, NobodyMoves
<1>4. CASE Settles
  BY <1>1, <1>4, VerdictStep, ZenonT(60) DEF PlaceInv, Settles
<1>5. CASE Starts
  BY <1>1, <1>5, DispatchStep DEF PlaceInv, Starts
<1> QED BY <1>1, <1>2, <1>3, <1>4, <1>5 DEF Outcome

(* The scheduler implements the life cycle that TaskLifecycle promises. *)
THEOREM Refinement == Spec => ImplementsLifecycle
<1>1. Init => TypeOK /\ PlaceInv
  BY TypeInit, PlaceInit
<1>2. TypeOK /\ PlaceInv /\ [Next]_vars => (TypeOK /\ PlaceInv)'
  BY TypeStep, PlaceStep
<1>3. Init => Lifecycle!Init
  BY DEF Init, Lifecycle!Init, Runner, Executes
<1>4. TypeOK /\ PlaceInv /\ [Next]_vars => [Lifecycle!Next]_(Lifecycle!vars)
  BY LifecycleStep
<1> QED BY <1>1, <1>2, <1>3, <1>4, PTL DEF Spec, ImplementsLifecycle, Lifecycle!Spec
=============================================================================
