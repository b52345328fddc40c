------------------------------- MODULE Exec -------------------------------
(***************************************************************************)
(* The executor of evt/exec.c and the choice of the next task in           *)
(* evt/loop.c and evt/sched.c, in three machines.                          *)
(*                                                                         *)
(* The lanes (P): one loop's ready tasks, in the default lane (an          *)
(* owner-only FIFO and the deque thieves take from) and in the lanes of    *)
(* its classes; the pick by virtual runtime, and the pick by a policy      *)
(* whose choices the runtime bounds.                                       *)
(*                                                                         *)
(* The workers (W): how a worker goes idle, what wakes it, and how the     *)
(* thread in xtc_exec_run decides that everything is done.  One action is  *)
(* one atomic access and the thread's own work after it.                   *)
(*                                                                         *)
(* The simulated run (D): xtc_sim_exec_run steps the loops on one thread   *)
(* against a virtual clock, with its verdicts.                             *)
(***************************************************************************)
EXTENDS Integers, Sequences, FiniteSets
LOCAL INSTANCE SequencesExt
LOCAL INSTANCE FiniteSetsExt

CONSTANTS
  Tasks,          \* P: the tasks; W, D: 1 .. some number, spawned in this order
  Tag,            \* P: Tag[t], the class a task is tagged with, or -1
  Pinned,         \* P: the tasks that may not be stolen
  Accrual,        \* P: Accrual[l], the virtual runtime one quantum of lane l costs
  Classes,        \* P: the classes made before the run
  MaxClasses,     \* P: XTC_LOOP_MAX_CLASSES
  DequeCap,       \* P: XTC_DEQUE_CAP
  MaxBypass,      \* P: max_bypass of the policy that is installed
  Policies,       \* P: the policies somebody installs, of {"none", "any", "batch"}
  MaxRuns,        \* P: bound on the runs
  MaxCost,        \* P: the most quanta of one run
  Loops,          \* W, D: 0 .. n_loops - 1
  Eager,          \* W: eager_rebalance
  Service,        \* W: service_mode
  Spawners,       \* W: the workers whose tasks spawn, and Foreign
  MayStop,        \* W, D: somebody calls xtc_exec_stop
  MayFail,        \* W: a worker's thread may fail to start
  MaxTimers,      \* W: bound on the timers armed
  MaxTime         \* D: bound on the virtual deadlines

VARIABLE st

----------------------------------------------------------------------------
(* P: the lanes of one loop.  st has the fields
     n, vr             n_classes; vruntime of a lane, -1 being the default lane
     q, deque, flip    the FIFO of a lane; the deque; pop_flip
     policy, phase     loop->sched.policy and its phase; setting: what a setter copies
     bypass, next      struct xtc_sched_state: bypasses, batch_next
     hint              the attached lanes whose batch_ready is not zero
     pc, lane, cur     the loop: step, the lane selected, the task popped
     off               tasks that are parked, or on another loop
     runs, waited      history: runs; for how many a lane was ready and passed over
     was, lead         history: lanes ready at the last pick; of two lanes by how much the
                       virtual runtime of one exceeded the other's when both became ready,
                       and how much more weighted runtime it has had since *)

Lanes == -1 .. MaxClasses - 1
Made == -1 .. st.n - 1

(* The lane __xtc_loop_enqueue puts a task in: its class if this loop has it. *)
LaneOf(s, t) == IF Tag[t] \in 0 .. s.n - 1 THEN Tag[t] ELSE -1

(* __xtc_loop_enqueue: a class FIFO, the deque unless pinned or full, else the FIFO. *)
Enqueued(s, t) ==
  IF LaneOf(s, t) = -1 /\ t \notin Pinned /\ Len(s.deque) < DequeCap
  THEN [s EXCEPT !.deque = Append(@, t)]
  ELSE [s EXCEPT !.q[LaneOf(s, t)] = Append(@, t)]

(* The classes made and the tasks spawned before the run. *)
PInit ==
  \E p \in Policies :
    st = FoldLeft(Enqueued,
         [n |-> Classes, vr |-> [l \in Lanes |-> 0], q |-> [l \in Lanes |-> <<>>], deque |-> <<>>,
          flip |-> 0, policy |-> "none", phase |-> 0, setting |-> p,
          bypass |-> [l \in Lanes |-> 0], next |-> 0, hint |-> {}, pc |-> "start",
          lane |-> -2, cur |-> <<>>, off |-> {}, runs |-> 0,
          waited |-> [l \in Lanes |-> 0], was |-> {},
          lead |-> [i \in Lanes |-> [j \in Lanes |-> <<0, 0>>]]], SetToSortSeq(Tasks, <))

(* __sched_ready *)
Ready(s, l) == s.q[l] # <<>> \/ (l = -1 /\ s.deque # <<>>)

ReadyLanes(s) == {l \in -1 .. s.n - 1 : Ready(s, l)}

(* History: the loop is about to pick again. *)
AtPick(s) ==
  LET now == ReadyLanes(s)
  IN  [s EXCEPT !.pc = "step", !.cur = <<>>, !.lane = -2,
                !.was = IF s.policy = "none" THEN now ELSE {},
                !.waited = [l \in Lanes |-> IF l \in now THEN @[l] ELSE 0],
                !.lead = [i \in Lanes |-> [j \in Lanes |->
                           IF s.policy # "none" \/ ~({i, j} \subseteq now) THEN <<0, 0>>
                           ELSE IF {i, j} \subseteq s.was THEN @[i][j]
                           ELSE <<s.vr[i] - s.vr[j], 0>>]]]

(* xtc_sched_policy_set: the phase is taken, the descriptor copied, the phase given back.
   Once the loop has run the call fails with XTC_E_AGAIN. *)
PolicyTake ==
  /\ st.setting # "none" /\ st.phase = 0
  /\ st' = [st EXCEPT !.phase = 1]

PolicyCopy ==
  /\ st.phase = 1
  /\ st' = [st EXCEPT !.policy = st.setting, !.setting = "none", !.phase = 0]

(* __xtc_sched_freeze, on the first step. *)
Freeze ==
  /\ st.pc = "start" /\ st.phase = 0
  /\ st' = [st EXCEPT !.phase = 2, !.pc = "step"]

(* __xtc_loop_class_create seeds the new class with the least vruntime of a class. *)
NewVr == Min({st.vr[l] : l \in 0 .. st.n - 1})

__xtc_loop_class_create ==
  /\ st.pc = "step" /\ st.n < MaxClasses
  /\ st' = AtPick([st EXCEPT !.vr[st.n] = NewVr, !.n = @ + 1])

(* A wake or spawn drained from the inbox at the start of a step. *)
Arrive(t) ==
  /\ st.pc = "step" /\ t \in st.off
  /\ st' = AtPick([Enqueued(st, t) EXCEPT !.off = @ \ {t}])

(* A peer takes the oldest task of the deque. *)
Thief ==
  /\ st.deque # <<>>
  /\ LET s == [st EXCEPT !.deque = Tail(@), !.off = @ \cup {Head(st.deque)}]
     IN  st' = IF Ready(s, -1) THEN s ELSE [s EXCEPT !.waited[-1] = 0, !.was = @ \ {-1}]

----------------------------------------------------------------------------
(* The pick *)

(* __sched_continuous_select: of the attached lanes whose driver reported ready members the
   one passed over longest, the first one after the last served on a tie. *)
Distance(l) == (l + 16 - st.next) % 16

Preferred ==
  LET C == {l \in ReadyLanes(st) : l >= 0 /\ l \in st.hint}
      B == {l \in C : \A k \in C : st.bypass[k] <= st.bypass[l]}
  IN  IF C = {} THEN -2 ELSE CHOOSE l \in B : \A k \in B : Distance(l) <= Distance(k)

(* What the policy's select may return: a user's is free, and may be wrong. *)
MayChoose == IF st.policy = "batch" THEN {Preferred} ELSE -2 .. MaxClasses

(* Mutants: the bound is not enforced; the youngest of the overdue lanes is served. *)
ForcedNever(b) == {}
ForcedYoungest(b) ==
  LET F == {l \in ReadyLanes(st) : b[l] >= MaxBypass}
  IN  {l \in F : \A k \in F : b[l] < b[k] \/ (b[l] = b[k] /\ l <= k)}

(* The lane that must be served: passed over max_bypass times, the longest first. *)
Forced(b) ==
  LET F == {l \in ReadyLanes(st) : b[l] >= MaxBypass}
  IN  {l \in F : \A k \in F : b[l] > b[k] \/ (b[l] = b[k] /\ l <= k)}

(* __xtc_sched_select: lanes that are not ready lose their age; an overdue lane overrides the
   policy, and a choice that is not ready counts as none. *)
__xtc_sched_select ==
  /\ st.pc = "step" /\ st.policy # "none" /\ st.runs < MaxRuns
  /\ LET b == [l \in Lanes |-> IF l \in ReadyLanes(st) THEN st.bypass[l] ELSE 0]
     IN  \E c \in MayChoose :
           st' = [st EXCEPT !.bypass = b, !.pc = "pop",
                    !.lane = IF Forced(b) # {} THEN CHOOSE l \in Forced(b) : TRUE
                             ELSE IF c \in ReadyLanes(st) THEN c ELSE -2]

(* Without a policy __policy_pop is __queue_pop. *)
NoPolicy ==
  /\ st.pc = "step" /\ st.policy = "none" /\ st.runs < MaxRuns
  /\ st' = [st EXCEPT !.pc = "pick"]

(* A task leaves the FIFO of lane l. *)
FromFifo(s, l) == [s EXCEPT !.cur = <<Head(s.q[l])>>, !.q[l] = Tail(@), !.pc = "run"]

(* __default_pop: the FIFO and the deque take turns while both hold work. *)
DefaultPop(s, none) ==
  LET both == s.q[-1] # <<>> /\ s.deque # <<>>
      f == IF both THEN 1 - s.flip ELSE s.flip
  IN  IF s.deque # <<>> /\ (s.q[-1] = <<>> \/ (both /\ f = 0))
      THEN [s EXCEPT !.flip = f, !.cur = <<Head(s.deque)>>, !.deque = Tail(@), !.pc = "run"]
      ELSE IF s.q[-1] # <<>> THEN FromFifo([s EXCEPT !.flip = f], -1)
      ELSE [s EXCEPT !.pc = none]

(* __policy_pop: the selected lane; if a thief was faster, or none was selected, the
   ordinary pick. *)
Pop ==
  /\ st.pc = "pop"
  /\ st' = IF st.lane >= 0 /\ st.q[st.lane] # <<>> THEN FromFifo(st, st.lane)
           ELSE IF st.lane = -1 THEN DefaultPop(st, "pick")
           ELSE [st EXCEPT !.pc = "pick"]

(* The lanes of the least virtual runtime; __queue_pop takes the first of them. *)
Least ==
  LET R == ReadyLanes(st) IN {l \in R : \A k \in R : st.vr[l] <= st.vr[k]}

(* __queue_pop: the pick ... *)
Pick ==
  /\ st.pc \in {"pick", "pick2"}
  /\ st' = [st EXCEPT !.pc = IF st.pc = "pick" THEN "take" ELSE "take2",
                      !.lane = IF Least = {} THEN -1 ELSE Min(Least)]

(* The default lane was emptied: a policy's pop picks once more if a class has work. *)
AfterTake ==
  IF st.pc = "take" /\ st.policy # "none" /\ (\E l \in 0 .. st.n - 1 : st.q[l] # <<>>)
  THEN "pick2" ELSE "idle"

(* ... and the pop. *)
Take ==
  /\ st.pc \in {"take", "take2"}
  /\ st' = IF st.lane >= 0 THEN FromFifo(st, st.lane) ELSE DefaultPop(st, AfterTake)

(* Nothing to run: the rest of the step, which looks at the queues again before it blocks
   (__runq_nonempty). *)
Idle ==
  /\ st.pc = "idle"
  /\ st' = AtPick(st)

----------------------------------------------------------------------------
(* The quantum *)

(* __xtc_sched_service: every other ready lane was passed over once more. *)
Serviced(s, lane) ==
  [s EXCEPT !.bypass = [l \in Lanes |-> IF l # lane /\ l \in ReadyLanes(s) THEN @[l] + 1 ELSE 0],
            !.next = IF lane >= 0 THEN (lane + 1) % 16 ELSE @]

(* __xtc_sched_ran: lanes that drained lose their age. *)
Ran(s) == [s EXCEPT !.bypass = [l \in Lanes |-> IF l \in ReadyLanes(s) THEN @[l] ELSE 0]]

(* The accrual at the end of the run: vruntime += (cost * reciprocal) >> 12. *)
Charged(s, lane, cost) == [s EXCEPT !.vr[lane] = @ + cost * Accrual[lane]]

(* A task runs for one or two quanta and yields, or parks or ends; a batch driver reports
   whether its lane has ready members. *)
RunTask ==
  /\ st.pc = "run"
  /\ LET t == st.cur[1]
         lane == LaneOf(st, t)
         a == IF st.policy = "none" THEN st ELSE Serviced(st, lane)
     IN  \E cost \in 1 .. MaxCost, yields \in BOOLEAN,
            hint \in IF st.policy = "batch" THEN BOOLEAN ELSE {FALSE} :
           LET b == Charged(a, lane, cost)
               c == IF yields THEN Enqueued(b, t) ELSE [b EXCEPT !.off = @ \cup {t}]
               d == IF st.policy = "none" THEN c ELSE Ran(c)
           IN  st' = AtPick([d EXCEPT
                       !.runs = @ + 1,
                       !.lead = [i \in Lanes |-> [j \in Lanes |->
                         <<@[i][j][1], @[i][j][2] + (IF i = lane THEN cost * Accrual[i] ELSE 0)
                                                  - (IF j = lane THEN cost * Accrual[j] ELSE 0)>>]],
                       !.waited = [l \in Lanes |-> IF l # lane /\ l \in ReadyLanes(st)
                                                   THEN @[l] + 1 ELSE 0],
                       !.hint = IF lane = -1 THEN @
                                ELSE IF hint THEN @ \cup {lane} ELSE @ \ {lane}])

PNext ==
  \/ PolicyTake \/ PolicyCopy \/ Freeze \/ __xtc_loop_class_create
  \/ \E t \in Tasks : Arrive(t)
  \/ Thief \/ __xtc_sched_select \/ NoPolicy \/ Pop \/ Pick \/ Take \/ Idle \/ RunTask

Places(t) ==
  <<\E l \in Lanes : t \in ToSet(st.q[l]), t \in ToSet(st.deque), t \in st.off, st.cur = <<t>>>>

(* No task is lost or run twice: whatever the policy answers and whenever a thief takes the
   last task of the default lane, each task is in one queue, once, or running or away. *)
PlacedOnce ==
  /\ \A t \in Tasks : Cardinality({i \in 1 .. 4 : Places(t)[i]}) = 1
  /\ Cardinality(Tasks) = Cardinality(st.off) + Len(st.deque) + Len(st.cur)
                           + MapThenSumSet(LAMBDA l : Len(st.q[l]), Lanes)

(* man/man3/xtc_sched.3: of L lanes a lane that stays ready is served "within max_bypass + L
   opportunities", whatever the policy prefers. *)
BypassBounded ==
  st.policy # "none" => \A l \in Lanes : st.waited[l] < MaxBypass + st.n + 1

(* "never hiding class work behind idle" (__policy_pop): the pop of a policy gives up only
   when no class holds a task. *)
ClassWorkFound ==
  st.pc = "idle" /\ st.policy # "none" => \A l \in 0 .. st.n - 1 : st.q[l] = <<>>

(* Proportional share: while two lanes stay ready, the weighted runtime one has had exceeds
   the other's by no more than it did when both became ready, or by one run. *)
FairShare ==
  st.pc = "step" /\ st.policy = "none" =>
    \A i, j \in st.was :
      LET l == st.lead[i][j] IN i # j => l[1] + l[2] <= Max({l[1], MaxCost * Accrual[i]})

----------------------------------------------------------------------------
(* W: the workers.  st has the fields
     n_alive, n_mig_alive, steal_sleep, sleeping, byte     of a loop; byte: its wake fd is set
     inbox, deque, fifo, timers, timers_pub                of a loop
     n_mig_loops, n_idle, stop                             struct xtc_exec
     pc, cur, finite, idle     a worker: step, task; whether its poll has a timeout, and
                               whether it is the worker's poll and not the step's
     sp                        who spawns: a worker or Foreign, the step, the task, an index
     home, mig, made           a task: home loop, unpinned; how many were made
     sup, at                   the thread in xtc_exec_run: step, the loop it is at
     user                      the thread in xtc_exec_stop: step and loop
     behind                    history: in scan k work went behind the reader's back
     early                     history: the run was ended although something was left *)

Foreign == -1
N == Cardinality(Loops)
Idle0 == [at |-> "none", t |-> 0, i |-> 0]
AllOf(x) == [l \in Loops |-> x]

(* xtc_exec_init and the tasks spawned before the run: the first, unpinned, on loop 0. *)
WInit ==
  \E m \in BOOLEAN :
    st = [n_alive |-> [l \in Loops |-> IF l = 0 THEN 1 ELSE 0],
          n_mig_alive |-> [l \in Loops |-> IF l = 0 /\ m THEN 1 ELSE 0],
          steal_sleep |-> AllOf(FALSE), sleeping |-> AllOf(FALSE), byte |-> AllOf(FALSE),
          inbox |-> [l \in Loops |-> IF l = 0 THEN {1} ELSE {}], deque |-> AllOf({}),
          fifo |-> AllOf({}), timers |-> AllOf(0), timers_pub |-> AllOf(0),
          n_mig_loops |-> IF m THEN 1 ELSE 0, n_idle |-> 0, stop |-> FALSE,
          pc |-> AllOf("none"), cur |-> AllOf(0), finite |-> AllOf(FALSE),
          idle |-> AllOf(FALSE), sp |-> [a \in Loops \cup {Foreign} |-> Idle0],
          home |-> [t \in Tasks |-> 0], mig |-> [t \in Tasks |-> t = 1 /\ m], made |-> 1,
          sup |-> "create", at |-> 0, user |-> <<"none", 0>>,
          behind |-> <<FALSE, FALSE>>, early |-> FALSE]

Woken(s, l) == [s EXCEPT !.byte[l] = TRUE]

(* __xtc_exec_nudge_idle_peer: one wake, of the loop after the producer. *)
__xtc_exec_nudge_idle_peer(s, l) ==
  IF Eager /\ N > 1 /\ s.n_idle > 0 THEN Woken(s, (l + 1) % N) ELSE s

(* __xtc_loop_enqueue on the owner's thread. *)
Ready1(s, l, t) ==
  IF s.mig[t] THEN __xtc_exec_nudge_idle_peer([s EXCEPT !.deque[l] = @ \cup {t}], l)
  ELSE [s EXCEPT !.fifo[l] = @ \cup {t}]

(* __xtc_inbox_drain *)
Drained(s, l) == FoldSet(LAMBDA t, r : Ready1(r, l, t), [s EXCEPT !.inbox[l] = {}], s.inbox[l])

Goto(s, l, x) == [s EXCEPT !.pc[l] = x]

(* __xtc_loop_step_once publishes the timers when it returns. *)
Published(s, l) == [s EXCEPT !.timers_pub[l] = s.timers[l]]

----------------------------------------------------------------------------
(* __xtc_exec_worker and the step.  Only a stop request ends a worker. *)

(* The step before has published the timers. *)
Top(l) ==
  /\ st.pc[l] = "top"
  /\ st' = Goto(Published(st, l), l, IF st.stop THEN "out" ELSE "once")

StepOnce(l) ==
  /\ st.pc[l] = "once"
  /\ st' = Goto(st, l, IF st.n_alive[l] > 0 \/ st.timers[l] > 0 THEN "step" ELSE "poll0")

(* Nothing is homed here: reap this loop's own poller first ... *)
PollOwn(l) ==
  /\ st.pc[l] = "poll0"
  /\ st' = IF st.byte[l] THEN [Goto(st, l, "step") EXCEPT !.byte[l] = FALSE]
           ELSE Goto(st, l, "steal0")

(* __xtc_exec_try_steal *)
Stealable(l) == UNION {st.deque[p] : p \in Loops \ {l}}
Stolen(l, t) ==
  Ready1([st EXCEPT !.deque = [p \in Loops |-> IF p = l THEN @[p] ELSE @[p] \ {t}]], l, t)

(* ... then steal, or run what is queued here, or report idle. *)
StealFirst(l) ==
  /\ st.pc[l] = "steal0"
  /\ IF Stealable(l) # {} THEN \E t \in Stealable(l) : st' = Goto(Stolen(l, t), l, "step")
     ELSE IF st.deque[l] \cup st.fifo[l] \cup st.inbox[l] # {} THEN st' = Goto(st, l, "step")
     ELSE st' = [Published(Goto(st, l, "look"), l) EXCEPT !.idle[l] = TRUE, !.finite[l] = FALSE]

(* __xtc_loop_step: drain the inbox and run a task; without one, fire what is due, ... *)
Step(l) ==
  /\ st.pc[l] = "step"
  /\ LET s == Drained(st, l)
     IN  IF s.deque[l] \cup s.fifo[l] # {}
         THEN \E t \in s.deque[l] \cup s.fifo[l] :
                st' = [Goto(s, l, "run") EXCEPT !.cur[l] = t, !.deque[l] = @ \ {t},
                                                !.fifo[l] = @ \ {t}]
         ELSE \E due \in {0, Min({1, s.timers[l]})} :
                st' = [Goto(s, l, "steal") EXCEPT !.timers[l] = @ - due]

(* ... steal, ... *)
StealLater(l) ==
  /\ st.pc[l] = "steal"
  /\ IF Stealable(l) # {} THEN \E t \in Stealable(l) : st' = Goto(Stolen(l, t), l, "polled")
     ELSE IF st.timers[l] = 0 /\ st.n_alive[l] = 0 THEN st' = Goto(st, l, "top")
     ELSE st' = [Goto(st, l, "look") EXCEPT !.idle[l] = FALSE,
                                            !.finite[l] = st.timers[l] > 0]

(* The poll after a steal, which does not block. *)
PollAfterSteal(l) ==
  /\ st.pc[l] = "polled"
  /\ st' = [Goto(st, l, "top") EXCEPT !.byte[l] = FALSE]

(* ... and, with nothing to steal anywhere, block.  __xtc_exec_steal_recheck_ns: *)
Look(l) ==
  /\ st.pc[l] = "look"
  /\ st' = IF N = 1 THEN Goto(st, l, "begin")
           ELSE IF st.n_mig_loops <= 0 THEN Goto(st, l, "flag")
           ELSE [Goto(st, l, "begin") EXCEPT !.finite[l] = TRUE]

Flag(l) ==
  /\ st.pc[l] = "flag"
  /\ st' = [Goto(st, l, "again") EXCEPT !.steal_sleep[l] = TRUE]

(* A mutant: the count is not read again after the flag is up. *)
SeesMigNot == FALSE
SeesMig == st.n_mig_loops > 0

LookAgain(l) ==
  /\ st.pc[l] = "again"
  /\ st' = [Goto(st, l, "begin") EXCEPT !.finite[l] = @ \/ SeesMig]

(* __xtc_inbox_sleep_begin: announce the sleep, then look at the inbox; ... *)
SleepBegin(l) ==
  /\ st.pc[l] = "begin"
  /\ st' = [Goto(st, l, "check") EXCEPT !.sleeping[l] = TRUE,
                                        !.n_idle = IF st.idle[l] THEN @ + 1 ELSE @]

SleepCheck(l) ==
  /\ st.pc[l] = "check"
  /\ st' = Goto(st, l, IF st.inbox[l] # {} THEN "awake" ELSE "blocked")

(* xtc_io_poll: a wake that came before the poll ends it too. *)
Poll(l) ==
  /\ st.pc[l] = "blocked" /\ (IF st.byte[l] THEN TRUE ELSE st.finite[l])
  /\ st' = [Goto(st, l, "awake") EXCEPT !.byte[l] = FALSE]

(* ... __xtc_inbox_sleep_end; the worker's poll drains the inbox, the step returns. *)
SleepEnd(l) ==
  /\ st.pc[l] = "awake"
  /\ LET s == [st EXCEPT !.sleeping[l] = FALSE, !.finite[l] = FALSE, !.idle[l] = FALSE]
     IN  st' = IF st.idle[l] THEN Goto(Drained([s EXCEPT !.n_idle = @ - 1], l), l, "top")
               ELSE Goto(s, l, "top")

----------------------------------------------------------------------------
(* A task's turn.  Every 64 runs the loop polls without blocking. *)

Scanning(k) == st.sup = (IF k = 1 THEN "scan1" ELSE "scan2")

(* History: a task or a timer appeared on a loop the reader has passed.  Nothing orders a foreign
   thread's spawn before the end of the run. *)
BehindBack(a, l) ==
  [k \in 1 .. 2 |-> st.behind[k] \/ (Scanning(k) /\ l < st.at)
                    \/ (a = Foreign /\ (Scanning(1) \/ Scanning(2)))]

TurnOver(s, l) == [Goto(s, l, "top") EXCEPT !.cur[l] = 0]

Yields(l) ==
  /\ st.pc[l] = "run" /\ st.sp[l].at = "none"
  /\ \E b \in {st.byte[l], FALSE} :
       st' = TurnOver(Ready1([st EXCEPT !.byte[l] = b], l, st.cur[l]), l)

(* A timer of the loop that no task waits for. *)
Arms(l) ==
  /\ st.pc[l] = "run" /\ st.sp[l].at = "none"
  /\ MapThenSumSet(LAMBDA k : st.timers[k], Loops) < MaxTimers
  /\ st' = [st EXCEPT !.timers[l] = @ + 1, !.behind = BehindBack(l, l)]

HomeOf(l) == st.home[st.cur[l]]

(* XTC_TASK_DONE: the home loop's counts go down. *)
Ends(l) ==
  /\ st.pc[l] = "run" /\ st.sp[l].at = "none"
  /\ LET s == [st EXCEPT !.n_alive[HomeOf(l)] = @ - 1]
     IN  st' = IF st.mig[st.cur[l]] THEN Goto(s, l, "mig") ELSE TurnOver(s, l)

(* __xtc_exec_mig_alive, down: the loop's count, then on the edge the executor's. *)
MigDown(l) ==
  /\ st.pc[l] = "mig"
  /\ LET h == HomeOf(l)
         s == [st EXCEPT !.n_mig_alive[h] = @ - 1]
     IN  st' = IF st.n_mig_alive[h] = 1 THEN Goto(s, l, "edge") ELSE TurnOver(s, l)

MigEdge(l) ==
  /\ st.pc[l] = "edge"
  /\ st' = TurnOver([st EXCEPT !.n_mig_loops = @ - 1], l)

----------------------------------------------------------------------------
(* Spawning, by the task of worker a or by a foreign thread: __xtc_task_spawn_cleanup. *)

Spawns(a, l, m) ==
  /\ st.sp[a].at = "none" /\ st.made < Cardinality(Tasks)
  /\ IF a = Foreign THEN st.sup \notin {"join", "returned"} ELSE st.pc[a] = "run"
  /\ st' = [st EXCEPT !.made = @ + 1, !.home[st.made + 1] = l, !.mig[st.made + 1] = m,
                      !.n_alive[l] = @ + 1, !.behind = BehindBack(a, l),
                      !.sp[a] = [at |-> IF m THEN "mig" ELSE "push", t |-> st.made + 1, i |-> 0]]

(* __xtc_exec_mig_alive, up: the loop's count, on the edge the executor's, and then every
   other loop that sleeps because nothing could be stolen. *)
MigUp(a) ==
  /\ st.sp[a].at = "mig"
  /\ LET l == st.home[st.sp[a].t]
     IN  st' = [st EXCEPT !.n_mig_alive[l] = @ + 1,
                          !.sp[a].at = IF st.n_mig_alive[l] = 0 THEN "loops" ELSE "push"]

MigLoops(a) ==
  /\ st.sp[a].at = "loops"
  /\ st' = [st EXCEPT !.n_mig_loops = @ + 1, !.sp[a].at = "wake"]

StealSleeps(p, l) == p # l /\ st.steal_sleep[p]

MigWakes(a) ==
  /\ st.sp[a].at = "wake"
  /\ LET p == st.sp[a].i
         s == [st EXCEPT !.sp[a].i = @ + 1, !.sp[a].at = IF p = N - 1 THEN "push" ELSE "wake"]
     IN  st' = IF StealSleeps(p, st.home[st.sp[a].t])
               THEN Woken([s EXCEPT !.steal_sleep[p] = FALSE], p) ELSE s

(* Enqueued on the spawner's own loop, or pushed to the inbox of another ... *)
Publishes(a) ==
  /\ st.sp[a].at = "push"
  /\ LET t == st.sp[a].t
         l == st.home[t]
     IN  st' = IF a = l THEN Ready1([st EXCEPT !.sp[a] = Idle0], l, t)
               ELSE [st EXCEPT !.inbox[l] = @ \cup {t}, !.sp[a].at = "nudge"]

(* ... and that loop, if it sleeps, woken (__xtc_inbox_push). *)
Nudges(a) ==
  /\ st.sp[a].at = "nudge"
  /\ LET l == st.home[st.sp[a].t]
         s == [st EXCEPT !.sp[a] = Idle0]
     IN  st' = IF st.sleeping[l] THEN Woken([s EXCEPT !.sleeping[l] = FALSE], l) ELSE s

Spawner(a) == MigUp(a) \/ MigLoops(a) \/ MigWakes(a) \/ Publishes(a) \/ Nudges(a)

----------------------------------------------------------------------------
(* xtc_exec_run *)

(* The workers are started; a thread that cannot be ends the run. *)
Creates ==
  /\ st.sup = "create"
  /\ st' = [st EXCEPT !.pc[st.at] = "top", !.at = (@ + 1) % N,
                      !.sup = IF st.at = N - 1 THEN "watch" ELSE "create"]

CreateFails ==
  /\ st.sup = "create" /\ MayFail
  /\ st' = [st EXCEPT !.stop = TRUE, !.sup = IF st.at = 0 THEN "returned" ELSE "undo",
                      !.at = IF @ = 0 THEN 0 ELSE @ - 1]

UndoWakes ==
  /\ st.sup = "undo"
  /\ st' = [Woken(st, st.at) EXCEPT !.sup = "undone"]

UndoJoins ==
  /\ st.sup = "undone" /\ st.pc[st.at] = "out"
  /\ st' = [st EXCEPT !.sup = IF st.at = 0 THEN "returned" ELSE "undo",
                      !.at = IF @ = 0 THEN 0 ELSE @ - 1]

Watches ==
  /\ st.sup = "watch" /\ (Service => st.stop)
  /\ st' = [st EXCEPT !.sup = IF st.stop THEN "join" ELSE "scan1", !.at = 0,
                      !.behind = <<FALSE, FALSE>>]

(* Something is left: a task that has not ended, or a timer. *)
InPlay(t) ==
  \/ \E l \in Loops :
       t \in st.inbox[l] \cup st.deque[l] \cup st.fifo[l] \/ (st.pc[l] = "run" /\ t = st.cur[l])
  \/ \E a \in Loops \cup {Foreign} :
       t = st.sp[a].t /\ st.sp[a].at \in {"mig", "loops", "wake", "push"}

Left == (\E t \in 1 .. st.made : InPlay(t)) \/ (\E l \in Loops : st.timers[l] > 0)

(* __exec_has_work, for one loop. *)
WorkAt(l) ==
  st.n_alive[l] > 0 \/ st.deque[l] # {} \/ st.timers_pub[l] > 0 \/ st.inbox[l] # {}

(* __exec_has_work reads loop after loop; two scans that find nothing end the run. *)
Scans ==
  /\ st.sup \in {"scan1", "scan2"}
  /\ LET k == IF st.sup = "scan1" THEN 1 ELSE 2
         stale == st.behind[k] \/ st.timers_pub[st.at] # st.timers[st.at]
     IN  st' =
       IF WorkAt(st.at) THEN [st EXCEPT !.sup = "watch", !.at = 0]
       ELSE IF st.at < N - 1 THEN [st EXCEPT !.at = @ + 1, !.behind[k] = stale]
       ELSE IF k = 1 THEN [st EXCEPT !.sup = "scan2", !.at = 0, !.behind[1] = stale]
       ELSE [st EXCEPT !.sup = "stopping", !.at = 0, !.behind[2] = stale,
                       !.stop = TRUE, !.early = Left]

StopWakes ==
  /\ st.sup = "stopping"
  /\ st' = [Woken(st, st.at) EXCEPT !.at = (@ + 1) % N,
                                    !.sup = IF st.at = N - 1 THEN "join" ELSE "stopping"]

Joins ==
  /\ st.sup = "join" /\ \A l \in Loops : st.pc[l] = "out"
  /\ st' = [st EXCEPT !.sup = "returned"]

(* xtc_exec_stop, from another thread: the flag, then the wakes. *)
StopFlag ==
  /\ MayStop /\ st.user[1] = "none" /\ st.sup # "returned"
  /\ st' = [st EXCEPT !.stop = TRUE, !.user = <<"wakes", 0>>]

UserWakes ==
  /\ st.user[1] = "wakes"
  /\ LET l == st.user[2]
     IN  st' = [Woken(st, l) EXCEPT !.user = IF l = N - 1 THEN <<"done", 0>> ELSE <<"wakes", l + 1>>]

Supervisor ==
  \/ Creates \/ CreateFails \/ UndoWakes \/ UndoJoins \/ Watches \/ Scans \/ StopWakes
  \/ Joins

Worker(l) ==
  \/ Top(l) \/ StepOnce(l) \/ PollOwn(l) \/ StealFirst(l) \/ Step(l) \/ StealLater(l)
  \/ PollAfterSteal(l) \/ Look(l) \/ Flag(l) \/ LookAgain(l) \/ SleepBegin(l)
  \/ SleepCheck(l) \/ Poll(l) \/ SleepEnd(l)
  \/ Yields(l) \/ Ends(l) \/ MigDown(l) \/ MigEdge(l) \/ Spawner(l)

WNext ==
  \/ \E l \in Loops : Worker(l) \/ Arms(l)
  \/ \E a \in Spawners, l \in Loops, m \in BOOLEAN : Spawns(a, l, m)
  \/ Spawner(Foreign)
  \/ Supervisor \/ StopFlag \/ UserWakes

Edging ==
  (\E a \in Loops \cup {Foreign} : st.sp[a].at \in {"loops", "wake"})
  \/ (\E l \in Loops : st.pc[l] = "edge")

(* A loop counts the tasks spawned on it, wherever they are stolen to and run, until they
   end; and "may be transiently off by one while two edges race": with no edge under way,
   the count of loops that have something to steal is exact, so it never drifts. *)
MigCountExact ==
  /\ \A l \in Loops :
       st.n_alive[l] = Cardinality({t \in 1 .. st.made : st.home[t] = l /\ InPlay(t)})
  /\ ~Edging => st.n_mig_loops = Cardinality({l \in Loops : st.n_mig_alive[l] > 0})

(* "An up-edge that raises n_mig_loops after our read sees the flag and wakes us": a worker
   that blocks without a timeout, and whom no wake is on its way to, leaves no task in a
   peer's deque that it could have stolen, and nothing in its own inbox. *)
NothingLeftToSteal ==
  \A l \in Loops :
    st.pc[l] = "blocked" /\ ~st.finite[l] /\ ~st.byte[l] =>
      /\ ~Edging => Stealable(l) = {}
      /\ (\A a \in Loops \cup {Foreign} : st.sp[a].at # "nudge") => st.inbox[l] = {}

(* xtc_exec.h: the run ends when "all spawned tasks DONE and all timers fired/cancelled".
   It ends by itself with something left only if in both scans a task was spawned on a
   loop already read, or a timer was not published yet: one stale reading is absorbed. *)
EndsWhenDone == st.early => st.behind[1] /\ st.behind[2]

(* A worker leaves only on a stop, and after xtc_exec_run has returned none is left. *)
WorkersJoined ==
  /\ \A l \in Loops : st.pc[l] = "out" => st.stop
  /\ st.sup = "returned" => \A l \in Loops : st.pc[l] \in {"out", "none"}

----------------------------------------------------------------------------
(* D: the simulated run.  st has the fields
     at                at[t]: where a task is (k), on which loop (l), until when (d); k is one
                       of new, inbox, fifo, deque, timer, io, parked, done
     home              home[t]: the loop whose n_alive counts the task
     clock, steps      the virtual clock; steps taken
     pinned, last      the loop the pessimal pick keeps running; last_run
     stop, verdict     stop_flag; what xtc_sim_exec_run returned, or "none"
     spun              history: a step was taken that ran no task and changed nothing *)

Place(k, l, d) == [k |-> k, l |-> l, d |-> d]

DInit ==
  \E l \in Loops :
    st = [at |-> [t \in Tasks |-> IF t = 1 THEN Place("inbox", l, 0) ELSE Place("new", 0, 0)],
          home |-> [t \in Tasks |-> l], clock |-> 0, steps |-> 0, pinned |-> -1,
          last |-> AllOf(0), stop |-> FALSE, verdict |-> "none", spun |-> FALSE]

On1(s, l, K) == {t \in Tasks : s.at[t].k \in K /\ s.at[t].l = l}
Queue(s, l) == On1(s, l, {"fifo", "deque"})
DueOn(s, l, k) == {t \in On1(s, l, {k}) : s.at[t].d <= s.clock}
Alive(s, l) == {t \in Tasks : s.home[t] = l /\ s.at[t].k \notin {"new", "done"}}

(* __sim_peer_stealable *)
Peers(s, l) == UNION {On1(s, p, {"deque"}) : p \in Loops \ {l}}

__sim_loop_runnable(s, l) ==
  Queue(s, l) \cup On1(s, l, {"inbox"}) \cup DueOn(s, l, "timer") \cup DueOn(s, l, "io")
    \cup Peers(s, l) # {}

(* The deadlines __sim_earliest_deadline takes the least of. *)
__sim_earliest_deadline(s) ==
  {s.at[t].d : t \in {t \in Tasks : s.at[t].k \in {"timer", "io"}}}

(* Tasks made ready on loop l: __xtc_loop_enqueue. *)
Readied(s, l, T) ==
  [s EXCEPT !.at = [t \in Tasks |-> IF t \notin T THEN @[t]
                      ELSE Place(IF t \in Pinned THEN "fifo" ELSE "deque", l, 0)]]

(* A turn of task t on loop l, and what it does before it gives the loop up. *)
Turns(s, l, t) ==
  LET gone(k, d) == [s EXCEPT !.at[t] = Place(k, l, d)]
      back == Readied(s, l, {t})
      to(r, u, m) == IF m = l THEN Readied(r, l, {u}) ELSE [r EXCEPT !.at[u] = Place("inbox", m, 0)]
  IN  {gone("done", 0), gone("parked", 0), back, [back EXCEPT !.stop = MayStop]}
        \cup {gone("timer", d) : d \in s.clock + 1 .. MaxTime}
        \cup {gone("io", d) : d \in s.clock .. MaxTime}
        \cup {to(back, u, s.at[u].l) : u \in {u \in Tasks : s.at[u].k = "parked"}}
        \cup {[to(back, u, m) EXCEPT !.home[u] = m] :
               u \in {u \in Tasks : s.at[u].k = "new"}, m \in Loops}

(* __xtc_loop_step: drain the inbox and run a task; or fire the due timers; or steal and
   poll without blocking; or poll. *)
StepsOf(s0, l) ==
  LET s == Readied(s0, l, On1(s0, l, {"inbox"}))
      polled(r) == Readied(r, l, DueOn(r, l, "io"))
  IN  IF Queue(s, l) # {} THEN UNION {Turns(s, l, t) : t \in Queue(s, l)}
      ELSE IF DueOn(s, l, "timer") # {} THEN {Readied(s, l, DueOn(s, l, "timer"))}
      ELSE IF Peers(s, l) # {} THEN {polled(Readied(s, l, {t})) : t \in Peers(s, l)}
      ELSE IF On1(s, l, {"timer"}) = {} /\ Alive(s, l) = {} THEN {s}
      ELSE {polled(s)}

(* With nothing homed here and no timer: reap the own poller, then steal, then see whether
   anything is queued. *)
__loop_step_once(s, l) ==
  IF Alive(s, l) # {} \/ On1(s, l, {"timer"}) # {} THEN StepsOf(s, l)
  ELSE IF DueOn(s, l, "io") # {} THEN StepsOf(Readied(s, l, DueOn(s, l, "io")), l)
  ELSE IF Peers(s, l) # {} THEN UNION {StepsOf(Readied(s, l, {t}), l) : t \in Peers(s, l)}
  ELSE IF Queue(s, l) \cup On1(s, l, {"inbox"}) # {} THEN StepsOf(s, l)
  ELSE {s}

Runnable == {l \in Loops : __sim_loop_runnable(st, l)}

DRunning == st.verdict = "none" /\ ~st.stop /\ st.steps < MaxRuns

DStops ==
  /\ st.verdict = "none" /\ st.stop
  /\ st' = [st EXCEPT !.verdict = "OK"]

(* The step budget is spent. *)
DBudget ==
  /\ st.verdict = "none" /\ ~st.stop /\ st.steps = MaxRuns
  /\ st' = [st EXCEPT !.verdict = "AGAIN"]

(* Nobody can run: the clock goes to the next deadline, and without one the run is over. *)
DAdvances ==
  /\ DRunning /\ Runnable = {}
  /\ LET D == __sim_earliest_deadline(st)
     IN  st' = IF D # {} THEN [st EXCEPT !.clock = Max({@, Min(D)})]
               ELSE [st EXCEPT !.verdict = IF \E l \in Loops : Alive(st, l) # {}
                                           THEN "DEADLK" ELSE "OK"]

(* The pessimal pick: the pinned loop while it can run, then the one that ran longest ago. *)
Oldest == {l \in Runnable : \A m \in Runnable : st.last[l] < st.last[m]
                                               \/ (st.last[l] = st.last[m] /\ l <= m)}
Pessimal == IF st.pinned \in Runnable THEN {st.pinned} ELSE Oldest

DSteps(l) ==
  /\ DRunning /\ l \in Runnable
  /\ \E s \in __loop_step_once(st, l), pin \in {st.pinned} \cup (Pessimal \cap {l}) :
       st' = [s EXCEPT !.steps = @ + 1, !.last[l] = st.steps, !.pinned = pin,
                       !.spun = @ \/ __loop_step_once(st, l) = {st}]

DNext == DStops \/ DBudget \/ DAdvances \/ \E l \in Loops : DSteps(l)

(* XTC_E_DEADLK is returned "if the system stopped with procs still alive but all parked",
   XTC_OK only with every task ended, or on a stop: no task that is queued, asleep or
   waiting for I/O, on whichever loop it was stolen to, is taken for one that cannot run. *)
VerdictTrue ==
  LET K == {st.at[t].k : t \in Tasks} \ {"new", "done"}
  IN  /\ st.verdict = "DEADLK" => K = {"parked"}
      /\ st.verdict = "OK" /\ ~st.stop => K = {}

(* The virtual clock never passes a deadline that has not fired. *)
ClockHonest == \A t \in Tasks : st.at[t].k \in {"timer", "io"} => st.at[t].d >= st.clock

(* "so it cannot spin": a loop that is picked because it is runnable gets somewhere, also
   when all it has is I/O of a task that another loop counts. *)
NeverSpins == ~st.spun
=============================================================================
