-------------------------------- MODULE Sched --------------------------------
(***************************************************************************)
(* The scheduler core of libxtc: tasks, wakers, per-loop run queues, the   *)
(* cross-thread inbox and the sleep/nudge handshake.                       *)
(*                                                                         *)
(*   evt/task.c  __task_wake_claim, xtc_waker_wake, spawn                  *)
(*   evt/loop.c  inbox push/drain/sleep, enqueue, pop, __xtc_loop_step     *)
(*   evt/exec.c  __xtc_exec_try_steal, the worker's idle poll              *)
(*                                                                         *)
(* One action is one atomic access to shared memory (an atomic load, store,*)
(* exchange or compare-and-swap) together with the thread-local work that  *)
(* follows it.  Run queues are sets: which of the queued tasks runs first  *)
(* is left open.                                                           *)
(*                                                                         *)
(* Every actor that may call xtc_waker_wake or spawn a task has a call     *)
(* frame: external threads, and loop threads (from a running task, a due   *)
(* timer or an I/O event).  A loop thread does nothing else while its      *)
(* frame is active.                                                        *)
(***************************************************************************)
EXTENDS Naturals, FiniteSets, FiniteSetsExt

CONSTANTS
    Tasks,          \* task structs (type-stable: recycled, never unmapped)
    Loops,          \* loops of one executor
    Threads,        \* threads outside the executor that hold wakers
    Pinned,         \* tasks spawned with pinned = 1: never stolen
    Home,           \* Home[t]: the loop that owns the struct (t->loop)
    DequeCap,       \* XTC_DEQUE_CAP; 0 for a standalone loop (exec == NULL)
    NudgeMayFail,   \* whether xtc_io_wakeup may report an error
    None            \* no task, no loop

ASSUME PinnedAssumption == Pinned \subseteq Tasks
ASSUME HomeAssumption == Home \in [Tasks -> Loops]
ASSUME NoneAssumption == None \notin Tasks \cup Loops
ASSUME ActorAssumption == Loops \cap Threads = {}
ASSUME DequeCapAssumption == DequeCap \in Nat
ASSUME NudgeAssumption == NudgeMayFail \in BOOLEAN

VARIABLES
    state,          \* t->state
    wakePending,    \* t->wake_pending
    owed,           \* history: a wake of t was called since t last started
    fifo,           \* loop->q_head: the owner-only run queue
    deque,          \* loop->deque: the stealable run queue
    pubHead,        \* inbox.pub_head: tasks spawned from another thread
    wakeHead,       \* inbox.wake_head: tasks woken from another thread
    sleeping,       \* inbox.sleeping
    wakeFd,         \* the wakeup descriptor of loop->io is readable
    armed,          \* the loop on which t's park timer or descriptor is armed
    lpc,            \* where the loop thread is in __xtc_loop_step
    cur,            \* the task the loop thread is running, or its verdict
    fpc,            \* where an actor is in xtc_waker_wake or a spawn
    floop,          \* the loop and
    ftask           \* the task of that call

taskVars == <<state, wakePending, owed>>
queueVars == <<fifo, deque>>
inboxVars == <<pubHead, wakeHead>>
nudgeVars == <<sleeping, wakeFd>>
loopVars == <<lpc, cur>>
frame == <<fpc, floop, ftask>>
vars == <<taskVars, queueVars, inboxVars, nudgeVars, armed, loopVars, frame>>

Actors == Loops \cup Threads

TaskStates == {"SCHEDULED", "RUNNING", "PARKED", "DONE"}

LoopSteps == {"drainPub", "drainWake", "pop", "run", "resched",
              "park", "take2", "cas", "enqueue", "timers", "steal",
              "sleep", "seePub", "seeWake", "poll", "awake", "dispatch", "fair"}

FrameSteps == {"idle", "latch", "check", "take", "cas", "enqueue", "publish", "spawn",
               "nudge", "swap", "write", "rearm"}

(* The frame steps in which the caller has won the task and must queue it. *)
Handing == {"enqueue", "publish", "spawn"}
(* The frame steps of __task_wake_claim that may still win the task. *)
Claiming == {"latch", "check", "take", "cas"}

Frame(a, pc, l, t) ==
    /\ fpc' = [fpc EXCEPT ![a] = pc]
    /\ floop' = [floop EXCEPT ![a] = l]
    /\ ftask' = [ftask EXCEPT ![a] = t]
Goto(a, pc) == fpc' = [fpc EXCEPT ![a] = pc] /\ UNCHANGED <<floop, ftask>>
Return(a) == Frame(a, "idle", None, None)

----------------------------------------------------------------------------
Init ==
    /\ state = [t \in Tasks |-> "DONE"]
    /\ wakePending = [t \in Tasks |-> FALSE]
    /\ owed = [t \in Tasks |-> FALSE]
    /\ fifo = [l \in Loops |-> {}]
    /\ deque = [l \in Loops |-> {}]
    /\ pubHead = [l \in Loops |-> {}]
    /\ wakeHead = [l \in Loops |-> {}]
    /\ sleeping = [l \in Loops |-> FALSE]
    /\ wakeFd = [l \in Loops |-> FALSE]
    /\ armed = [t \in Tasks |-> None]
    /\ lpc = [l \in Loops |-> "drainPub"]
    /\ cur = [l \in Loops |-> None]
    /\ fpc = [a \in Actors |-> "idle"]
    /\ floop = [a \in Actors |-> None]
    /\ ftask = [a \in Actors |-> None]

(* __xtc_loop_enqueue for the tasks of S: a pinned task goes to the FIFO, a
   migratable one to the deque, or to the FIFO when the deque is full. *)
Enqueue(l, S) ==
    \E D \in SUBSET (S \ Pinned) :
        /\ Cardinality(D) = Min({Cardinality(S \ Pinned),
                                 DequeCap - Cardinality(deque[l])})
        /\ deque' = [deque EXCEPT ![l] = @ \cup D]
        /\ fifo' = [fifo EXCEPT ![l] = @ \cup (S \ D)]

(* An external thread calls at any time, a loop thread from the running task. *)
MayCall(a) ==
    /\ fpc[a] = "idle"
    /\ a \in Loops => lpc[a] = "run"

(* The caller won t: queue it directly on its own loop, else through the inbox. *)
Won(a, l, t) ==
    Frame(a, IF a = l THEN "enqueue" ELSE "publish", l, t)

----------------------------------------------------------------------------
(* xtc_waker_wake *)

(* Mutants: a claim that also takes a runnable, or a running, task. *)
CanClaimScheduled(t) == state[t] \in {"PARKED", "SCHEDULED"}
CanClaimRunning(t) == state[t] \in {"PARKED", "RUNNING"}

(* The compare-and-swap PARKED -> SCHEDULED of wakers and verdicts succeeds. *)
CanClaim(t) == state[t] = "PARKED"

(* The first compare-and-swap of __task_wake_claim, made for waker <<l, t>>. *)
ClaimFirst(a, l, t) ==
    /\ owed' = [owed EXCEPT ![t] = TRUE]
    /\ \/ /\ CanClaim(t)
          /\ state' = [state EXCEPT ![t] = "SCHEDULED"]
          /\ Won(a, l, t)
       \/ /\ ~CanClaim(t)
          /\ Frame(a, "latch", l, t)
          /\ UNCHANGED state
    /\ UNCHANGED wakePending

(* Mutant: the waker names the loop of whoever made it. *)
MayNameAny(l, t) == TRUE

(* xtc_task_waker names the loop the task runs on when it makes the waker: the
   home loop of a pinned task, any loop that may have stolen another.  Structs
   are recycled and wakers are plain <<loop, task>> pairs, so a waker made in
   an earlier life of the struct may be called at any time. *)
MayName(l, t) == t \in Pinned => l = Home[t]

WakerWake(a) ==
    /\ MayCall(a)
    /\ \E l \in Loops, t \in Tasks : MayName(l, t) /\ ClaimFirst(a, l, t)
    /\ UNCHANGED <<queueVars, inboxVars, nudgeVars, armed, loopVars>>

WakeLatch(a) ==
    /\ fpc[a] = "latch"
    /\ wakePending' = [wakePending EXCEPT ![ftask[a]] = TRUE]
    /\ Goto(a, "check")
    /\ UNCHANGED <<state, owed, queueVars, inboxVars, nudgeVars, armed, loopVars>>

WakeCheck(a) ==
    /\ fpc[a] = "check"
    /\ IF state[ftask[a]] = "PARKED" THEN Goto(a, "take") ELSE Return(a)
    /\ UNCHANGED <<taskVars, queueVars, inboxVars, nudgeVars, armed, loopVars>>

WakeTake(a) ==
    /\ fpc[a] = "take"
    /\ wakePending' = [wakePending EXCEPT ![ftask[a]] = FALSE]
    /\ IF wakePending[ftask[a]] THEN Goto(a, "cas") ELSE Return(a)
    /\ UNCHANGED <<state, owed, queueVars, inboxVars, nudgeVars, armed, loopVars>>

WakeCas(a) ==
    LET t == ftask[a] IN
    /\ fpc[a] = "cas"
    /\ \/ /\ CanClaim(t)
          /\ state' = [state EXCEPT ![t] = "SCHEDULED"]
          /\ Won(a, floop[a], t)
       \/ /\ ~CanClaim(t)
          /\ Return(a)
          /\ UNCHANGED state
    /\ UNCHANGED <<wakePending, owed, queueVars, inboxVars, nudgeVars, armed, loopVars>>

(* The winner is on the waker's own loop: straight onto its run queue. *)
WakeEnqueue(a) ==
    /\ fpc[a] = "enqueue"
    /\ Enqueue(floop[a], {ftask[a]})
    /\ Return(a)
    /\ UNCHANGED <<taskVars, inboxVars, nudgeVars, armed, loopVars>>

(* __xtc_inbox_push(XTC_INB_WAKE): the push onto the wake stack. *)
WakePublish(a) ==
    /\ fpc[a] = "publish"
    /\ wakeHead' = [wakeHead EXCEPT ![floop[a]] = @ \cup {ftask[a]}]
    /\ Frame(a, "nudge", floop[a], None)
    /\ UNCHANGED <<taskVars, queueVars, pubHead, nudgeVars, armed, loopVars>>

(* The nudge at the end of __xtc_inbox_push: load sleeping, ... *)
NudgeLoad(a) ==
    /\ fpc[a] = "nudge"
    /\ IF sleeping[floop[a]] THEN Goto(a, "swap") ELSE Return(a)
    /\ UNCHANGED <<taskVars, queueVars, inboxVars, nudgeVars, armed, loopVars>>

(* ... exchange it, ... *)
NudgeSwap(a) ==
    /\ fpc[a] = "swap"
    /\ sleeping' = [sleeping EXCEPT ![floop[a]] = FALSE]
    /\ IF sleeping[floop[a]] THEN Goto(a, "write") ELSE Return(a)
    /\ UNCHANGED <<taskVars, queueVars, inboxVars, wakeFd, armed, loopVars>>

(* ... write the wakeup descriptor, and on failure put the flag back. *)
NudgeWrite(a) ==
    /\ fpc[a] = "write"
    /\ \/ /\ wakeFd' = [wakeFd EXCEPT ![floop[a]] = TRUE]
          /\ Return(a)
       \/ /\ NudgeMayFail
          /\ Goto(a, "rearm")
          /\ UNCHANGED wakeFd
    /\ UNCHANGED <<taskVars, queueVars, inboxVars, sleeping, armed, loopVars>>

NudgeRearm(a) ==
    /\ fpc[a] = "rearm"
    /\ sleeping' = [sleeping EXCEPT ![floop[a]] = TRUE]
    /\ Return(a)
    /\ UNCHANGED <<taskVars, queueVars, inboxVars, wakeFd, armed, loopVars>>

----------------------------------------------------------------------------
(* Spawning *)

(* __xtc_task_spawn_cleanup on a recycled struct: fields are reset, then the
   task is queued on the caller's own loop or published to its home loop. *)
Spawn(a, t) ==
    /\ MayCall(a)
    /\ state[t] = "DONE"
    /\ state' = [state EXCEPT ![t] = "SCHEDULED"]
    /\ wakePending' = [wakePending EXCEPT ![t] = FALSE]
    /\ owed' = [owed EXCEPT ![t] = FALSE]
    /\ Frame(a, IF a = Home[t] THEN "enqueue" ELSE "spawn", Home[t], t)
    /\ UNCHANGED <<queueVars, inboxVars, nudgeVars, armed, loopVars>>

(* A spawn from another thread that gets no inbox slot of the accountant: the struct was
   reset and goes back to the spare list.  It keeps the word SCHEDULED, which every waker
   treats as DONE, so the model keeps DONE.  (A spawn that gets no task slot or no struct
   returns before it has touched anything.) *)
SpawnRefused(a, t) ==
    /\ MayCall(a)
    /\ a # Home[t]
    /\ state[t] = "DONE"
    /\ wakePending' = [wakePending EXCEPT ![t] = FALSE]
    /\ owed' = [owed EXCEPT ![t] = FALSE]
    /\ UNCHANGED <<state, queueVars, inboxVars, nudgeVars, armed, loopVars, frame>>

(* __xtc_inbox_push(XTC_INB_PUBLISH). *)
SpawnPublish(a) ==
    /\ fpc[a] = "spawn"
    /\ pubHead' = [pubHead EXCEPT ![floop[a]] = @ \cup {ftask[a]}]
    /\ Frame(a, "nudge", floop[a], None)
    /\ UNCHANGED <<taskVars, queueVars, wakeHead, nudgeVars, armed, loopVars>>

----------------------------------------------------------------------------
(* __xtc_loop_step *)

(* The loop thread is at pc and in no call. *)
At(l, pc) == lpc[l] = pc /\ fpc[l] = "idle"
Step(l, pc) == lpc' = [lpc EXCEPT ![l] = pc]
(* Mutant: the thread does not forget the task. *)
NextStepKeepsTask(l) ==
    /\ \E pc \in {"drainPub", "fair"} : Step(l, pc)
    /\ UNCHANGED cur

(* The step returns: the thread forgets the task and starts the next step; every
   IO_FAIRNESS_QUANTUM runs it polls once without blocking before that. *)
NextStep(l) ==
    /\ \E pc \in {"drainPub", "fair"} : Step(l, pc)
    /\ cur' = [cur EXCEPT ![l] = None]

(* Mutant: the tasks taken off the publish stack are not linked. *)
DrainPubDrops(l) ==
    /\ At(l, "drainPub")
    /\ pubHead' = [pubHead EXCEPT ![l] = {}]
    /\ Step(l, "drainWake")
    /\ UNCHANGED <<taskVars, queueVars, wakeHead, nudgeVars, armed, cur, frame>>

(* __xtc_inbox_drain: take the publish stack, link and enqueue its tasks, ... *)
DrainPub(l) ==
    /\ At(l, "drainPub")
    /\ Enqueue(l, pubHead[l])
    /\ pubHead' = [pubHead EXCEPT ![l] = {}]
    /\ Step(l, "drainWake")
    /\ UNCHANGED <<taskVars, wakeHead, nudgeVars, armed, cur, frame>>

(* ... then the wake stack. *)
DrainWake(l) ==
    /\ At(l, "drainWake")
    /\ Enqueue(l, wakeHead[l])
    /\ wakeHead' = [wakeHead EXCEPT ![l] = {}]
    /\ Step(l, "pop")
    /\ UNCHANGED <<taskVars, pubHead, nudgeVars, armed, cur, frame>>

(* __queue_pop found t: run it. *)
Run(l, t) ==
    /\ At(l, "pop")
    /\ t \in fifo[l] \cup deque[l]
    /\ fifo' = [fifo EXCEPT ![l] = @ \ {t}]
    /\ deque' = [deque EXCEPT ![l] = @ \ {t}]
    /\ state' = [state EXCEPT ![t] = "RUNNING"]
    /\ owed' = [owed EXCEPT ![t] = FALSE]
    /\ cur' = [cur EXCEPT ![l] = t]
    /\ Step(l, "run")
    /\ UNCHANGED <<wakePending, inboxVars, nudgeVars, armed, frame>>

(* The running task arms a timer or a descriptor on the loop it runs on. *)
ParkOn(l) ==
    /\ At(l, "run")
    /\ armed[cur[l]] = None
    /\ armed' = [armed EXCEPT ![cur[l]] = l]
    /\ UNCHANGED <<taskVars, queueVars, inboxVars, nudgeVars, loopVars, frame>>

(* The running task disarms what it armed, on whatever loop it armed it. *)
CancelPark(l) ==
    /\ At(l, "run")
    /\ armed[cur[l]] # None
    /\ armed' = [armed EXCEPT ![cur[l]] = None]
    /\ UNCHANGED <<taskVars, queueVars, inboxVars, nudgeVars, loopVars, frame>>

(* The verdict XTC_TASK_DONE: what the fiber still holds is released
   (__task_release_parts) and its struct may be recycled. *)
VerdictDone(l) ==
    /\ At(l, "run")
    /\ state' = [state EXCEPT ![cur[l]] = "DONE"]
    /\ armed' = [armed EXCEPT ![cur[l]] = None]
    /\ NextStep(l)
    /\ UNCHANGED <<wakePending, owed, queueVars, inboxVars, nudgeVars, frame>>

(* The verdict XTC_TASK_RESCHED. *)
VerdictResched(l) ==
    /\ At(l, "run")
    /\ Step(l, "resched")
    /\ UNCHANGED <<taskVars, queueVars, inboxVars, nudgeVars, armed, cur, frame>>

(* The verdict XTC_TASK_PENDING: consume a latched wake, ... *)
VerdictPending(l) ==
    /\ At(l, "run")
    /\ wakePending' = [wakePending EXCEPT ![cur[l]] = FALSE]
    /\ Step(l, IF wakePending[cur[l]] THEN "resched" ELSE "park")
    /\ UNCHANGED <<state, owed, queueVars, inboxVars, nudgeVars, armed, cur, frame>>

(* ... and stay runnable, ... *)
StoreScheduled(l) ==
    /\ At(l, "resched")
    /\ state' = [state EXCEPT ![cur[l]] = "SCHEDULED"]
    /\ Step(l, "enqueue")
    /\ UNCHANGED <<wakePending, owed, queueVars, inboxVars, nudgeVars, armed, cur, frame>>

(* Mutant: no second look at the latch once PARKED is published. *)
StoreParkedLast(l) ==
    /\ At(l, "park")
    /\ state' = [state EXCEPT ![cur[l]] = "PARKED"]
    /\ NextStep(l)
    /\ UNCHANGED <<wakePending, owed, queueVars, inboxVars, nudgeVars, armed, frame>>

(* ... or publish PARKED, ... *)
StoreParked(l) ==
    /\ At(l, "park")
    /\ state' = [state EXCEPT ![cur[l]] = "PARKED"]
    /\ Step(l, "take2")
    /\ UNCHANGED <<wakePending, owed, queueVars, inboxVars, nudgeVars, armed, cur, frame>>

(* ... look at the latch again, ... *)
RecheckTake(l) ==
    /\ At(l, "take2")
    /\ wakePending' = [wakePending EXCEPT ![cur[l]] = FALSE]
    /\ IF wakePending[cur[l]] THEN Step(l, "cas") /\ UNCHANGED cur ELSE NextStep(l)
    /\ UNCHANGED <<state, owed, queueVars, inboxVars, nudgeVars, armed, frame>>

(* ... and compete for the task with the wakers. *)
RecheckCas(l) ==
    /\ At(l, "cas")
    /\ \/ /\ CanClaim(cur[l])
          /\ state' = [state EXCEPT ![cur[l]] = "SCHEDULED"]
          /\ Step(l, "enqueue")
          /\ UNCHANGED cur
       \/ /\ ~CanClaim(cur[l])
          /\ NextStep(l)
          /\ UNCHANGED state
    /\ UNCHANGED <<wakePending, owed, queueVars, inboxVars, nudgeVars, armed, frame>>

VerdictEnqueue(l) ==
    /\ At(l, "enqueue")
    /\ Enqueue(l, {cur[l]})
    /\ NextStep(l)
    /\ UNCHANGED <<taskVars, inboxVars, nudgeVars, armed, frame>>

(* Nothing to run: fire due timers. *)
PopNone(l) ==
    /\ At(l, "pop")
    /\ fifo[l] \cup deque[l] = {}
    /\ Step(l, "timers")
    /\ UNCHANGED <<taskVars, queueVars, inboxVars, nudgeVars, armed, cur, frame>>

(* __xtc_drain_due_timers and __xtc_loop_dispatch_event: a timer or descriptor
   of this loop fires; the waker names this loop. *)
EventWake(l, t) ==
    /\ At(l, "timers") \/ At(l, "dispatch")
    /\ armed[t] = l
    /\ armed' = [armed EXCEPT ![t] = None]
    /\ ClaimFirst(l, l, t)
    /\ UNCHANGED <<queueVars, inboxVars, nudgeVars, loopVars>>

TimersDrained(l) ==
    /\ At(l, "timers")
    /\ IF fifo[l] \cup deque[l] = {} THEN Step(l, "steal") ELSE Step(l, "drainPub")
    /\ UNCHANGED <<taskVars, queueVars, inboxVars, nudgeVars, armed, cur, frame>>

(* Mutant: the stolen task stays in the victim's deque. *)
StealCopies(l, m, t) ==
    /\ At(l, "steal")
    /\ m # l
    /\ t \in deque[m]
    /\ deque' = [deque EXCEPT ![l] = @ \cup {t}]
    /\ wakeFd' = [wakeFd EXCEPT ![l] = FALSE]
    /\ Step(l, "dispatch")
    /\ UNCHANGED <<taskVars, fifo, inboxVars, sleeping, armed, cur, frame>>

(* __xtc_exec_try_steal took a task from a peer's deque; it is enqueued here
   and the loop reaps its own poller once, without blocking. *)
Steal(l, m, t) ==
    /\ At(l, "steal")
    /\ m # l
    /\ t \in deque[m]
    /\ deque' = [deque EXCEPT ![m] = @ \ {t}, ![l] = @ \cup {t}]
    /\ wakeFd' = [wakeFd EXCEPT ![l] = FALSE]
    /\ Step(l, "dispatch")
    /\ UNCHANGED <<taskVars, fifo, inboxVars, sleeping, armed, cur, frame>>

(* Nothing was stolen: the victims were empty when they were looked at, or
   another consumer won the race for their oldest task. *)
StealNone(l) ==
    /\ At(l, "steal")
    /\ Step(l, "sleep")
    /\ UNCHANGED <<taskVars, queueVars, inboxVars, nudgeVars, armed, cur, frame>>

(* Mutant: the loop blocks without looking at its inbox again. *)
SleepBeginBlind(l) ==
    /\ At(l, "sleep")
    /\ sleeping' = [sleeping EXCEPT ![l] = TRUE]
    /\ Step(l, "poll")
    /\ UNCHANGED <<taskVars, queueVars, inboxVars, wakeFd, armed, cur, frame>>

(* __xtc_inbox_sleep_begin: publish the intent to block, ... *)
SleepBegin(l) ==
    /\ At(l, "sleep")
    /\ sleeping' = [sleeping EXCEPT ![l] = TRUE]
    /\ Step(l, "seePub")
    /\ UNCHANGED <<taskVars, queueVars, inboxVars, wakeFd, armed, cur, frame>>

(* ... then look at both stacks: work there withdraws the intent. *)
SleepCheckPub(l) ==
    /\ At(l, "seePub")
    /\ \/ /\ pubHead[l] # {}
          /\ sleeping' = [sleeping EXCEPT ![l] = FALSE]
          /\ Step(l, "drainPub")
       \/ /\ pubHead[l] = {}
          /\ Step(l, "seeWake")
          /\ UNCHANGED sleeping
    /\ UNCHANGED <<taskVars, queueVars, inboxVars, wakeFd, armed, cur, frame>>

SleepCheckWake(l) ==
    /\ At(l, "seeWake")
    /\ \/ /\ wakeHead[l] # {}
          /\ sleeping' = [sleeping EXCEPT ![l] = FALSE]
          /\ Step(l, "drainPub")
       \/ /\ wakeHead[l] = {}
          /\ Step(l, "poll")
          /\ UNCHANGED sleeping
    /\ UNCHANGED <<taskVars, queueVars, inboxVars, wakeFd, armed, cur, frame>>

(* __xtc_exec_steal_recheck_ns: while a migratable task is alive somewhere, a
   loop that has peers wakes up on a tick to look for work to steal. *)
StealTick ==
    /\ DequeCap > 0
    /\ Cardinality(Loops) > 1
    /\ \E t \in Tasks \ Pinned : state[t] # "DONE"

(* The blocking xtc_io_poll returns: the wakeup descriptor is readable (and is
   drained), a timer or descriptor of this loop is due, or the tick passed. *)
PollReturn(l) ==
    /\ At(l, "poll")
    /\ wakeFd[l] \/ (\E t \in Tasks : armed[t] = l) \/ StealTick
    /\ wakeFd' = [wakeFd EXCEPT ![l] = FALSE]
    /\ Step(l, "awake")
    /\ UNCHANGED <<taskVars, queueVars, inboxVars, sleeping, armed, cur, frame>>

(* __xtc_inbox_sleep_end. *)
SleepEnd(l) ==
    /\ At(l, "awake")
    /\ sleeping' = [sleeping EXCEPT ![l] = FALSE]
    /\ Step(l, "dispatch")
    /\ UNCHANGED <<taskVars, queueVars, inboxVars, wakeFd, armed, cur, frame>>

(* xtc_io_poll with a zero timeout: the fairness poll, or a timer is due, so the
   loop does not announce that it sleeps.  The wakeup descriptor is drained. *)
PollNow(l) ==
    /\ \/ At(l, "fair")
       \/ At(l, "sleep") /\ \E t \in Tasks : armed[t] = l
    /\ wakeFd' = [wakeFd EXCEPT ![l] = FALSE]
    /\ Step(l, "dispatch")
    /\ UNCHANGED <<taskVars, queueVars, inboxVars, sleeping, armed, cur, frame>>

(* The events are dispatched: on to the next step. *)
Dispatched(l) ==
    /\ At(l, "dispatch")
    /\ Step(l, "drainPub")
    /\ UNCHANGED <<taskVars, queueVars, inboxVars, nudgeVars, armed, cur, frame>>

----------------------------------------------------------------------------
CallStep(a) ==
    \/ WakerWake(a) \/ WakeLatch(a) \/ WakeCheck(a) \/ WakeTake(a) \/ WakeCas(a)
    \/ WakeEnqueue(a) \/ WakePublish(a) \/ SpawnPublish(a)
    \/ NudgeLoad(a) \/ NudgeSwap(a) \/ NudgeWrite(a) \/ NudgeRearm(a)
    \/ \E t \in Tasks : Spawn(a, t) \/ SpawnRefused(a, t)

TaskStep(l) ==
    \/ ParkOn(l) \/ CancelPark(l)
    \/ VerdictDone(l) \/ VerdictResched(l) \/ VerdictPending(l)

LoopStep(l) ==
    \/ DrainPub(l) \/ DrainWake(l) \/ PopNone(l)
    \/ StoreScheduled(l) \/ StoreParked(l) \/ RecheckTake(l) \/ RecheckCas(l)
    \/ VerdictEnqueue(l) \/ TimersDrained(l) \/ StealNone(l)
    \/ SleepBegin(l) \/ SleepCheckPub(l) \/ SleepCheckWake(l)
    \/ PollReturn(l) \/ SleepEnd(l) \/ PollNow(l) \/ Dispatched(l)
    \/ \E t \in Tasks : Run(l, t) \/ EventWake(l, t)
    \/ \E m \in Loops, t \in Tasks : Steal(l, m, t)

Next ==
    \/ \E a \in Actors : CallStep(a)
    \/ \E l \in Loops : TaskStep(l) \/ LoopStep(l)

Spec == Init /\ [][Next]_vars

(* A call that was begun is carried through, a loop thread keeps stepping, a
   running task reaches a verdict, and a task in a run queue is popped in
   arrival order (so it cannot be passed over for ever).  No one is obliged to
   call a waker, to spawn or to arm anything. *)
Fairness ==
    /\ \A a \in Actors :
          /\ WF_vars(WakeLatch(a) \/ WakeCheck(a) \/ WakeTake(a) \/ WakeCas(a))
          /\ WF_vars(WakeEnqueue(a) \/ WakePublish(a) \/ SpawnPublish(a))
          /\ WF_vars(NudgeLoad(a) \/ NudgeSwap(a) \/ NudgeWrite(a) \/ NudgeRearm(a))
    /\ \A l \in Loops :
          /\ WF_vars(LoopStep(l))
          /\ SF_vars(VerdictDone(l) \/ VerdictResched(l) \/ VerdictPending(l))
          /\ \A t \in Tasks : SF_vars(Run(l, t))

FairSpec == Spec /\ Fairness

----------------------------------------------------------------------------
(* Properties *)

(* The loop steps in which the thread holds a task, and the frame steps in which
   the call is about one. *)
WithTask == {"run", "resched", "park", "take2", "cas", "enqueue"}
AboutTask == Claiming \cup Handing

TaskTypes ==
    /\ state \in [Tasks -> TaskStates]
    /\ wakePending \in [Tasks -> BOOLEAN]
    /\ owed \in [Tasks -> BOOLEAN]
    /\ armed \in [Tasks -> Loops \cup {None}]

QueueTypes ==
    /\ fifo \in [Loops -> SUBSET Tasks]
    /\ deque \in [Loops -> SUBSET Tasks]
    /\ pubHead \in [Loops -> SUBSET Tasks]
    /\ wakeHead \in [Loops -> SUBSET Tasks]

LoopTypes ==
    /\ sleeping \in [Loops -> BOOLEAN]
    /\ wakeFd \in [Loops -> BOOLEAN]
    /\ lpc \in [Loops -> LoopSteps]
    /\ cur \in [Loops -> Tasks \cup {None}]

FrameTypes ==
    /\ fpc \in [Actors -> FrameSteps]
    /\ floop \in [Actors -> Loops \cup {None}]
    /\ ftask \in [Actors -> Tasks \cup {None}]

(* A loop thread remembers a task exactly while it runs it or settles its
   verdict, and is inside a call only from a task, a timer or an event. *)
LoopCoherent ==
    \A l \in Loops :
        /\ cur[l] # None <=> lpc[l] \in WithTask
        /\ fpc[l] # "idle" => lpc[l] \in {"run", "timers", "dispatch"}

(* A frame names a task until the task is queued and a loop until the call
   returns, and a caller queues directly exactly on its own loop. *)
FrameCoherent ==
    \A a \in Actors :
        /\ ftask[a] # None <=> fpc[a] \in AboutTask
        /\ floop[a] # None <=> fpc[a] # "idle"
        /\ fpc[a] \in Handing => (fpc[a] = "enqueue" <=> floop[a] = a)

(* Types, and when the thread-local variables of the actors are set. *)
TypeOK ==
    /\ TaskTypes /\ QueueTypes /\ LoopTypes /\ FrameTypes
    /\ LoopCoherent /\ FrameCoherent

(* The places in which a runnable task can be: a run queue, an inbox stack, the
   hands of a loop thread with its verdict, or the hands of a caller that won
   it.  In(t, k, x): task t is in the place of kind k of loop or actor x. *)
Kinds == {"fifo", "deque", "pub", "wake", "verdict", "call"}

In(t, k, x) ==
    \/ k = "fifo" /\ x \in Loops /\ t \in fifo[x]
    \/ k = "deque" /\ x \in Loops /\ t \in deque[x]
    \/ k = "pub" /\ x \in Loops /\ t \in pubHead[x]
    \/ k = "wake" /\ x \in Loops /\ t \in wakeHead[x]
    \/ k = "verdict" /\ x \in Loops /\ lpc[x] = "enqueue" /\ cur[x] = t
    \/ k = "call" /\ fpc[x] \in Handing /\ ftask[x] = t

(* The loop thread is executing the task body, or has its verdict but has not
   yet stored the state that lets others have the task. *)
Executes(l, t) == lpc[l] \in {"run", "resched", "park"} /\ cur[l] = t

(* A runnable task is in exactly one place and a task in a place is runnable:
   __task_wake_claim lets one waker win a parked task, the verdict competes by
   the same compare-and-swap, and the single inbox link of a task (inbox_next)
   is never used twice at once. *)
QueuedOnce ==
    \A t \in Tasks :
        /\ state[t] = "SCHEDULED" <=> \E k \in Kinds, x \in Actors : In(t, k, x)
        /\ \A k \in Kinds, x \in Actors :
              In(t, k, x) => \A j \in Kinds, y \in Actors :
                                In(t, j, y) => j = k /\ y = x

(* No two loop threads execute one task at once, stealing and migrating wakers
   notwithstanding, and a RUNNING task is being executed by someone. *)
RunsAlone ==
    \A t \in Tasks :
        /\ state[t] = "RUNNING" <=> \E l \in Loops : Executes(l, t)
        /\ \A l, m \in Loops : Executes(l, t) /\ Executes(m, t) => l = m

(* A parked task whose wake latch is set has someone who is bound to consume
   the latch: the loop re-checking its PENDING verdict, or a waker re-checking
   after its latch store (the two re-checks of loop.c and task.c). *)
LatchNotOrphaned ==
    \A t \in Tasks :
        state[t] = "PARKED" /\ wakePending[t] =>
            \/ \E l \in Loops : lpc[l] = "take2" /\ cur[l] = t
            \/ \E a \in Actors : fpc[a] \in {"check", "take"} /\ ftask[a] = t

(* A wake called since the task last started is never forgotten: while the task
   is parked with such a wake, some waker or verdict can still schedule it. *)
NoLostWake ==
    \A t \in Tasks :
        state[t] = "PARKED" /\ owed[t] =>
            \/ \E l \in Loops : lpc[l] \in {"take2", "cas"} /\ cur[l] = t
            \/ \E a \in Actors : fpc[a] \in Claiming /\ ftask[a] = t

(* A loop blocked in its poller with a task in its inbox is about to be woken:
   the wakeup descriptor is readable, or a producer is still between its push
   and its write (the handshake of __xtc_inbox_push and _sleep_begin).  From the
   moment the loop publishes its intent to block, a stack it has found empty is
   only filled by a producer that has yet to look at the flag, and a flag that
   was taken is being paid for. *)
SleeperIsNudged ==
    \A l \in Loops :
        LET Promised(pcs) ==
                wakeFd[l] \/ \E a \in Actors : floop[a] = l /\ fpc[a] \in pcs
        IN  /\ lpc[l] \in {"seePub", "seeWake", "poll"} /\ ~sleeping[l] =>
                  Promised({"write"})
            /\ lpc[l] \in {"seeWake", "poll"} /\ pubHead[l] # {} =>
                  Promised({"nudge", "swap", "write"})
            /\ lpc[l] = "poll" /\ wakeHead[l] # {} =>
                  Promised({"nudge", "swap", "write"})

(* A pinned task is only ever claimed for, queued on, published to and run by
   its home loop, whatever stale wakers exist for it. *)
PinnedStaysHome ==
    \A t \in Pinned :
        /\ \A l \in Loops :
              /\ t \notin deque[l]
              /\ t \in fifo[l] \cup pubHead[l] \cup wakeHead[l] => l = Home[t]
              /\ cur[l] = t => l = Home[t]
        /\ \A a \in Actors : ftask[a] = t => floop[a] = Home[t]
        /\ armed[t] \in {None, Home[t]}

(* Every wake of a live task is followed by a run of it. *)
WakeDelivered ==
    \A t \in Tasks :
        owed[t] /\ state[t] # "DONE" ~> ~owed[t] \/ state[t] = "DONE"

(* A task another thread put on an inbox stack, by a spawn or a wake, is eventually run. *)
InboxDelivered ==
    \A t \in Tasks :
        (\E l \in Loops : t \in pubHead[l] \cup wakeHead[l]) ~> state[t] = "RUNNING"

----------------------------------------------------------------------------
(* What the scheduler promises a task: see TaskLifecycle. *)
Runner(t) == IF \E l \in Loops : Executes(l, t)
             THEN CHOOSE l \in Loops : Executes(l, t)
             ELSE None
Lifecycle == INSTANCE TaskLifecycle WITH
    mode <- state, runner <- [t \in Tasks |-> Runner(t)]
(* The scheduler implements the task life cycle: a task is dispatched by one
   loop when it is runnable, leaves it by a verdict, and only then runs again. *)
ImplementsLifecycle == Lifecycle!Spec
=============================================================================
