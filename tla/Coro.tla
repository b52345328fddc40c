-------------------------------- MODULE Coro --------------------------------
(***************************************************************************)
(* Fibers and what they are made of.                                       *)
(*                                                                         *)
(* Machine F: evt/coro_fctx.c, evt/coro_uctx.c, evt/coro_winfiber.c.  The  *)
(* scheduler of a thread switches into a fiber and back; a fiber yields,   *)
(* awaits another and ends; a timer tick (ptc/preempt.c,                   *)
(* inc/coro_preempt.h) may divert a running fiber into a yield it never    *)
(* called.  Substrate names the file.  One action is the code between two  *)
(* places where a tick finds a different answer.                           *)
(*                                                                         *)
(* Machine S: the fiber stacks, which go from the pool of a thread, the    *)
(* spare of a loop or the kernel to a fiber and back (inc/coro_common.h).  *)
(*                                                                         *)
(* Machine K: the task structs of a loop, recycled by evt/task.c while     *)
(* wakers may still name an earlier user of the struct.                    *)
(*                                                                         *)
(* Machine A: the sources of ticks, and the table of address ranges in     *)
(* which a tick may divert a fiber (ptc/preempt.c).                        *)
(***************************************************************************)
EXTENDS Integers, Sequences, FiniteSets
LOCAL INSTANCE SequencesExt
LOCAL INSTANCE FiniteSetsExt

CONSTANTS
  Threads,      \* threads; F, S, K: each runs the loop of its own name
  Fibers,       \* F, S: fibers; K: task structs the allocator can give
  None,
  Home,         \* F: the loop every fiber was spawned on
  Procs,        \* F: the fibers that are processes
  Migratable,   \* F: the processes another loop may steal
  Awaits,       \* F: pairs: the first may await the second
  Substrate,    \* F: "fctx", "uctx" or "winfiber"; A: "posix" or "kqueue"
  Involuntary,  \* F: xtc_preempt_set_involuntary(1) was accepted; A: a static executable
  MaxYields,    \* bound: F: yields of one fiber; K: wakers outstanding
  Targets,      \* S, K: the loops that are spawned onto
  Sizes,        \* S: stack sizes xtc_set_stack_size is called with
  PoolMax,      \* S: XTC_STACK_POOL_MAX (64); K: XTC_TASK_FREELIST_LOCAL (64);
                \* A: XTC_PREEMPT_REGIONS (32)
  SpareMax,     \* S: XTC_LOOP_STACK_SPARE; K: XTC_TASK_FREELIST_MAX (4096)
  MaxSpawns     \* bound: S, K, A: spawns or arms

VARIABLE st

----------------------------------------------------------------------------
(* Machine F. *)

(* A thread: its place in the code, whose stack it is on (its own name: the scheduler's),
   the fiber it steps and the one it stepped before, and its thread-locals: the cursor
   __xtc_current_coro, the guard g_in_preempt, __current_proc, the scheduler's resume
   point g_sched_fctx, the unsafe depth and the pending tick; held: a lock is taken. *)
ThreadAt(t) ==
  [pc |-> "sched", on |-> t, step |-> None, saved |-> None, cur |-> None, guard |-> 0,
   proc |-> None, sctx |-> None, unsafe |-> 0, held |-> FALSE, pending |-> FALSE]

(* A fiber: its task's state and latched wake; the saved context (whose, and where it goes
   on) and the scheduler context it returns to; done, waiter and _parked_on; its process;
   a kill request; the process context it saved; whom it awaits; whether it has a stack. *)
FiberAt(f) ==
  [state |-> "SCHEDULED", latch |-> FALSE, ctx |-> [own |-> f, at |-> "entry"],
   lctx |-> None, at |-> "", done |-> FALSE, waiter |-> None, parked |-> None,
   proc |-> None, kill |-> FALSE, pctx |-> None, tgt |-> None, stack |-> TRUE, yields |-> 0]

FInit ==
  \E order \in SetToSeqs(Fibers) :
    st = [th |-> [t \in Threads |-> ThreadAt(t)],
          co |-> [f \in Fibers |-> FiberAt(f)],
          q |-> [t \in Threads |-> SelectSeq(order, LAMBDA f : Home[f] = t)]]

Guarded == Substrate # "winfiber"

(* xtc_waker_wake of a fiber's task (Sched models its races): a parked task is queued on
   loop l, a running one finds the latch at its verdict. *)
Wake(s, f, l) ==
  CASE s.co[f].state = "PARKED" ->
         [s EXCEPT !.co[f].state = "SCHEDULED", !.q[l] = Append(@, f)]
    [] s.co[f].state = "RUNNING" -> [s EXCEPT !.co[f].latch = TRUE]
    [] OTHER -> s

(* __xtc_coro_step begins: the guard is raised before the cursor moves.  A migratable
   fiber may be at the head of another loop's queue. *)
CoroStep(t) ==
  \E l \in Threads :
    /\ st.th[t].pc = "sched" /\ st.q[l] # <<>>
    /\ l = t \/ (Head(st.q[l]) \in Migratable /\ st.q[t] = <<>>)
    /\ LET f == Head(st.q[l])
       IN  st' = [st EXCEPT !.q[l] = Tail(@), !.co[f].state = "RUNNING",
                            !.co[f].lctx = IF Guarded THEN @ ELSE t,
                            !.th[t].step = f, !.th[t].pc = "cursor",
                            !.th[t].guard = IF Guarded THEN 1 ELSE @]

SetCursor(t) ==
  /\ st.th[t].pc = "cursor"
  /\ st' = [st EXCEPT !.th[t].saved = st.th[t].cur, !.th[t].cur = st.th[t].step,
                      !.th[t].pc = "jump"]

(* The switch: the scheduler's context is saved, in the thread (fctx) or in the fiber
   (uctx), and the fiber's is resumed. *)
JumpIn(t) ==
  /\ st.th[t].pc = "jump"
  /\ LET f == st.th[t].step
     IN  st' = [st EXCEPT !.th[t].pc = "land", !.th[t].on = st.co[f].ctx.own,
                          !.th[t].sctx = IF Substrate = "fctx" THEN t ELSE @,
                          !.co[f].lctx = IF Substrate = "uctx" THEN t ELSE @]

(* Control has arrived on the fiber's stack: it restores the process context (a new fiber:
   none), drops the guard, and a yield then honours a kill. *)
Land(t) ==
  /\ st.th[t].pc = "land"
  /\ LET f == st.th[t].on   at == st.co[f].ctx.at
         dies == at \in {"yield", "tramp"} /\ st.co[f].kill /\ st.co[f].pctx # None
     IN  st' = [st EXCEPT
           !.th[t].proc = IF at = "entry" THEN None ELSE st.co[f].pctx,
           !.th[t].guard = 0,
           !.th[t].pc = CASE dies -> "end" [] at = "entry" -> "fn"
                          [] at = "await" -> "await" [] at = "tramp" -> "epilogue"
                          [] OTHER -> "body"]

(* c->fn begins: __proc_entry makes a process's fiber its process. *)
Entered(t) ==
  /\ st.th[t].pc = "fn"
  /\ LET f == st.th[t].on
     IN  st' = IF f \in Procs THEN [st EXCEPT !.th[t].pc = "body", !.th[t].proc = f,
                                              !.co[f].proc = f]
               ELSE [st EXCEPT !.th[t].pc = "body"]

(* Where a switch out of a fiber begins; at is where the fiber goes on. *)
Leaves(s, t, at) ==
  [s EXCEPT !.th[t].pc = "leave", !.th[t].guard = IF Guarded THEN 1 ELSE @,
            !.co[s.th[t].cur].at = at]

Yield(t) ==
  LET f == st.th[t].on
  IN  /\ st.th[t].pc = "body" /\ st.co[f].yields < MaxYields
      /\ st' = Leaves([st EXCEPT !.co[f].yields = @ + 1], t, "yield")

(* xtc_yield_if_due: a tick that could not divert the fiber is taken here. *)
YieldIfDue(t) ==
  /\ st.th[t].pc = "body" /\ st.th[t].pending
  /\ st' = Leaves([st EXCEPT !.th[t].pending = FALSE], t, "yield")

(* xtc_await, called when nobody else awaits the target. *)
Await(t) ==
  LET f == st.th[t].on
  IN  \E g \in Fibers :
        /\ st.th[t].pc = "body" /\ <<f, g>> \in Awaits /\ ~st.co[g].done
        /\ \A h \in Fibers : st.co[h].tgt # g
        /\ st' = [st EXCEPT !.th[t].pc = "await", !.co[f].tgt = g]

AWAIT_KILL_POLL(s, f, g) ==
  IF s.co[g].waiter = f THEN [s EXCEPT !.co[g].waiter = None] ELSE s

(* The top of its loop: the target is done; or a kill is delivered, the fiber no longer
   being the waiter; or the fiber registers and parks. *)
AwaitRound(t) ==
  LET f == st.th[t].on   g == st.co[f].tgt   s == AWAIT_KILL_POLL(st, f, g)
  IN  /\ st.th[t].pc = "await"
      /\ st' = CASE st.co[g].done -> [st EXCEPT !.th[t].pc = "body", !.co[f].tgt = None]
                 [] st.co[f].kill /\ st.th[t].proc # None ->
                      [s EXCEPT !.th[t].pc = "end", !.co[f].tgt = None]
                 [] OTHER -> Leaves([s EXCEPT !.co[g].waiter = f, !.co[f].parked = g],
                                    t, "await")

(* The fiber takes a lock between __xtc_unsafe_enter and leave, or calls into a library
   that takes one unbracketed. *)
Locks(t) ==
  /\ st.th[t].pc = "body"
  /\ \E lib \in BOOLEAN :
       st' = [st EXCEPT !.th[t].pc = IF lib THEN "libc" ELSE "locked",
                        !.th[t].unsafe = IF lib THEN 0 ELSE 1, !.th[t].held = TRUE]

Unlocks(t) ==
  /\ st.th[t].pc \in {"locked", "libc"}
  /\ st' = [st EXCEPT !.th[t].pc = "body", !.th[t].unsafe = 0, !.th[t].held = FALSE]

Returns(t) ==
  /\ st.th[t].pc = "body"
  /\ st' = [st EXCEPT !.th[t].pc = "end"]

(* The body returned or was unwound: done, and the last switch. *)
Ends(t) ==
  /\ st.th[t].pc = "end"
  /\ st' = Leaves([st EXCEPT !.co[st.th[t].on].done = TRUE], t, "dead")

(* __xtc_fiber_ctx_save. *)
Keeps(t) == st.th[t].proc

(* The switch back, to the scheduler of the thread the fiber is on now. *)
JumpOut(t) ==
  /\ st.th[t].pc = "leave"
  /\ LET f == st.th[t].cur
     IN  st' = [st EXCEPT !.co[f].pctx = Keeps(t),
                          !.co[f].ctx = [own |-> st.th[t].on, at |-> st.co[f].at],
                          !.th[t].on = IF Substrate = "fctx" THEN st.th[t].sctx
                                       ELSE st.co[f].lctx,
                          !.th[t].pc = "back"]

(* Back in __xtc_coro_step: the cursor is restored before the guard goes down. *)
CursorBack(t) ==
  /\ st.th[t].pc = "back"
  /\ st' = [st EXCEPT !.th[t].cur = st.th[t].saved, !.th[t].guard = 0, !.th[t].pc = "verdict"]

(* What __xtc_coro_step tells the loop, and what the loop does (loop.c, task.c): a done
   fiber wakes its waiter and gives its stack back, here or as its process's task is
   reclaimed (a bare one of winfiber keeps it until the loop ends); a parked one stays
   parked unless a wake came meanwhile; any other is queued again. *)
Finished(s, f) ==
  LET w == s.co[f].waiter
      s1 == [s EXCEPT !.co[f] = [FiberAt(f) EXCEPT !.state = "DONE", !.done = TRUE,
                      !.stack = ~Guarded /\ s.co[f].proc = None]]
  IN  IF w = None THEN s1 ELSE Wake(s1, w, Home[w])

Verdict(t) ==
  /\ st.th[t].pc = "verdict"
  /\ LET f == st.th[t].step
         s == [st EXCEPT !.th[t] = [ThreadAt(t) EXCEPT !.pending = st.th[t].pending],
                         !.co[f].parked = None, !.co[f].latch = FALSE]
     IN  st' = CASE st.co[f].done -> Finished(s, f)
                 [] st.co[f].parked # None /\ ~st.co[f].latch -> [s EXCEPT !.co[f].state = "PARKED"]
                 [] OTHER -> [s EXCEPT !.co[f].state = "SCHEDULED", !.q[t] = Append(@, f)]

(* Another thread: xtc_exit_pid, and a late waker of the struct's earlier user. *)
Kill(f) ==
  /\ f \in Procs /\ ~st.co[f].kill /\ ~st.co[f].done /\ st.co[f].proc # None
  /\ st' = Wake([st EXCEPT !.co[f].kill = TRUE], f, Home[f])

LateWake(f) ==
  /\ st.co[f].state = "PARKED"
  /\ st' = Wake(st, f, Home[f])

(* What the redirect accepts of the interrupted address: code that may be diverted, not
   the trampoline and not a library. *)
AtSafePoint(t) == st.th[t].pc = "body"

(* preempt_handler and __xtc_coro_preempt: a fiber is running its own code, in no unsafe
   region, and no switch or redirect is under way. *)
Redirects(t) ==
  /\ Involuntary /\ st.th[t].unsafe = 0
  /\ st.th[t].cur # None /\ st.th[t].guard = 0
  /\ AtSafePoint(t)

Tick(t) ==
  /\ Guarded
  /\ st' = IF Redirects(t)
           THEN [st EXCEPT !.th[t].guard = 1, !.th[t].pc = "tramp"]
           ELSE [st EXCEPT !.th[t].pending = TRUE]

(* __xtc_preempt_trampoline: the interrupted registers are saved and xtc_yield called;
   once it returns they are restored. *)
Tramp(t) ==
  /\ st.th[t].pc = "tramp"
  /\ st' = Leaves(st, t, "tramp")

Epilogue(t) ==
  /\ st.th[t].pc = "epilogue"
  /\ st' = [st EXCEPT !.th[t].pc = "body"]

(* What the scheduler and the switching code do by themselves. *)
Runs(t) ==
  CoroStep(t) \/ SetCursor(t) \/ JumpIn(t) \/ Land(t) \/ Entered(t) \/ AwaitRound(t)
    \/ Unlocks(t) \/ Ends(t) \/ JumpOut(t) \/ CursorBack(t) \/ Verdict(t)
    \/ Tramp(t) \/ Epilogue(t)

FNext ==
  \/ \E t \in Threads : Runs(t)
  \/ \E t \in Threads : Yield(t) \/ YieldIfDue(t) \/ Await(t) \/ Locks(t) \/ Returns(t) \/ Tick(t)
  \/ \E f \in Fibers : Kill(f) \/ LateWake(f)
  \/ (\A f \in Fibers : st.co[f].done) /\ UNCHANGED st

(* A fiber's code runs as that fiber, on its own stack, and as its own process or none; the
   scheduler runs on its thread's stack, as nobody, and holds no lock: no tick diverts a
   thread that is switching, and a fiber that moved returns to the scheduler it is on. *)
RunsAsItself ==
  \A t \in Threads :
    LET h == st.th[t]
    IN  /\ h.on \in Fibers \union {t}
        /\ h.pc \in {"sched", "verdict"} => h.on = t /\ h.cur = None /\ h.guard = 0 /\ ~h.held
        /\ h.pc = "sched" => h.proc = None
        /\ h.pc \in {"fn", "body", "locked", "libc", "await", "tramp", "epilogue", "end", "leave"} =>
             /\ h.on = h.step /\ h.cur = h.step
             /\ st.co[h.on].stack /\ h.proc = st.co[h.on].proc

(* A fiber is in one place: run by one thread, or in one queue, or parked, or done; and the
   context saved for it is its own. *)
OneContext ==
  \A f \in Fibers :
    LET c == st.co[f]
        runs == {t \in Threads : st.th[t].step = f}
        queued == {x \in Threads \X (1 .. Cardinality(Fibers)) :
                     x[2] <= Len(st.q[x[1]]) /\ st.q[x[1]][x[2]] = f}
    IN  /\ Cardinality(runs) = IF c.state = "RUNNING" THEN 1 ELSE 0
        /\ Cardinality(queued) = IF c.state = "SCHEDULED" THEN 1 ELSE 0
        /\ c.state # "RUNNING" => c.ctx.own = f

(* xtc_await loses no completion: a fiber parked on a target that is done is about to be
   woken by it, and who is registered as a waiter does wait. *)
AwaitWakes ==
  \A f \in Fibers, g \in Fibers :
    /\ st.co[f].state = "PARKED" /\ st.co[f].tgt = g =>
         st.co[g].waiter = f /\ st.co[g].state # "DONE"
    /\ st.co[g].waiter = f => st.co[f].tgt = g

Queued(f) == st.co[f].state = "SCHEDULED"

----------------------------------------------------------------------------
(* Machine S.  A stack is the number of the fiber it was mapped for and its size; a pool
   or a spare has one size, set by the first stack it takes while empty. *)

Empty == [sz |-> 0, slots |-> <<>>]
Gone == [at |-> "gone", home |-> None, sz |-> 0, stk |-> None]
Idle == [pc |-> "idle", f |-> None, l |-> None, stk |-> None]

SInit ==
  st = [size |-> CHOOSE z \in Sizes : TRUE, mapped |-> {},
        pool |-> [t \in Threads |-> Empty], armed |-> [t \in Threads |-> FALSE],
        spare |-> [l \in Threads |-> Empty], want |-> [l \in Threads |-> 0],
        up |-> [t \in Threads |-> TRUE], open |-> [l \in Threads |-> TRUE],
        fib |-> [f \in Fibers |-> [Gone EXCEPT !.at = "no"]],
        th |-> [t \in Threads |-> Idle]]

xtc_set_stack_size(z) ==
  /\ st' = [st EXCEPT !.size = z]
  /\ z # st.size

(* __stack_pool_get, and the same under the lock of a spare. *)
Has(p, sz) == p.slots # <<>> /\ p.sz = sz

Popped(p) == [p EXCEPT !.slots = Front(@)]

(* __stack_pool_put, and the same under the lock of a spare. *)
Takes(p, stk, max) == (p.slots = <<>> \/ p.sz = stk.sz) /\ Len(p.slots) < max

Pushed(p, stk) ==
  [sz |-> IF p.slots = <<>> THEN stk.sz ELSE p.sz, slots |-> Append(p.slots, stk)]

Gives(s, f, stk) == [s EXCEPT !.fib[f].stk = stk, !.fib[f].at = "live"]

(* __xtc_async_ex on thread t, onto loop l: the thread's pool, else a look at the loop's
   spare (where a foreign spawn says it wants one), else the kernel. *)
AsyncEx(t, l, f) ==
  /\ st.th[t].pc = "idle" /\ st.up[t] /\ st.open[l] /\ st.fib[f].at = "no"
  /\ LET s == [st EXCEPT !.fib[f].home = l, !.fib[f].sz = st.size]
         w == IF t # l /\ s.want[l] < SpareMax THEN [s EXCEPT !.want[l] = @ + 1] ELSE s
     IN  st' = IF Has(s.pool[t], s.size)
               THEN Gives([s EXCEPT !.pool[t] = Popped(@)], f, s.pool[t].slots[Len(s.pool[t].slots)])
               ELSE [w EXCEPT !.fib[f].at = "spawn",
                              !.th[t] = [Idle EXCEPT !.pc = IF w.spare[l].slots = <<>> THEN "map"
                                                            ELSE "take", !.f = f, !.l = l]]

(* __stack_spare_get, under its lock. *)
SpareGet(t) ==
  LET h == st.th[t]   p == st.spare[h.l]
  IN  /\ h.pc = "take"
      /\ st' = IF Has(p, st.fib[h.f].sz)
               THEN Gives([st EXCEPT !.spare[h.l] = Popped(p), !.th[t] = Idle], h.f,
                          p.slots[Len(p.slots)])
               ELSE [st EXCEPT !.th[t].pc = "map"]

(* mmap and mprotect, which may fail. *)
Map(t) ==
  LET h == st.th[t]   stk == [id |-> h.f, sz |-> st.fib[h.f].sz]
  IN  /\ h.pc = "map"
      /\ \/ st' = Gives([st EXCEPT !.mapped = @ \union {stk}, !.th[t] = Idle], h.f, stk)
         \/ st' = [st EXCEPT !.fib[h.f] = Gone, !.th[t] = Idle]

Unmaps(s, stk) == [s EXCEPT !.mapped = @ \ {stk}]

(* __coro_release_stack by thread t, first half: the pool (unless its drain cannot be
   registered), else the home loop's spare if it is wanted, else the kernel.  A fiber that
   never ran has no c->self. *)
Releases(s, t, f, registers, ran) ==
  LET stk == s.fib[f].stk
      l == s.fib[f].home
      s1 == [s EXCEPT !.fib[f] = Gone]
      ok == s.armed[t] \/ registers
      spareOk == ran /\ s.want[l] >= SpareMax /\ Len(s.spare[l].slots) < SpareMax
  IN  IF ok /\ Takes(s.pool[t], stk, PoolMax)
      THEN [s1 EXCEPT !.pool[t] = Pushed(@, stk), !.armed[t] = TRUE]
      ELSE IF spareOk
      THEN [s1 EXCEPT !.th[t] = [Idle EXCEPT !.pc = "put", !.l = l, !.stk = stk], !.armed[t] = ok]
      ELSE Unmaps([s1 EXCEPT !.armed[t] = ok], stk)

(* The fiber ended on thread t (a thief's, maybe); or its task could not be spawned. *)
Release(t, f) ==
  /\ st.th[t].pc = "idle" /\ st.up[t] /\ st.fib[f].at = "live" /\ st.open[st.fib[f].home]
  /\ \E registers \in {TRUE, st.armed[t]}, ran \in BOOLEAN :
       st' = Releases(st, t, f, registers, ran)

(* __stack_spare_put, under its lock. *)
SparePut(t) ==
  LET h == st.th[t]   p == st.spare[h.l]
  IN  /\ h.pc = "put"
      /\ st' = IF Takes(p, h.stk, SpareMax)
               THEN [st EXCEPT !.spare[h.l] = Pushed(p, h.stk), !.th[t] = Idle]
               ELSE Unmaps([st EXCEPT !.th[t] = Idle], h.stk)

(* The thread-exit hook. *)
__stack_pool_drain(s, t) ==
  [s EXCEPT !.mapped = {x \in @ : x \notin ToSet(s.pool[t].slots)}, !.pool[t] = Empty,
            !.armed[t] = FALSE]

ThreadExit(t) ==
  /\ st.up[t] /\ st.th[t].pc = "idle" /\ ~st.open[t]
  /\ st' = IF st.armed[t] THEN __stack_pool_drain([st EXCEPT !.up[t] = FALSE], t)
           ELSE [st EXCEPT !.up[t] = FALSE]

(* xtc_loop_fini on the loop's thread, when no other thread uses the loop: the fibers that
   never ended are destroyed, then the spare is unmapped.  The destruction of one fiber is
   a Release; its spare put is at once. *)
LoopFini(l) ==
  /\ st.open[l] /\ st.up[l]
  /\ \A t \in Threads : st.th[t].pc = "idle" \/ st.th[t].l # l
  /\ st.th[l].pc = "idle"
  /\ \A f \in Fibers : st.fib[f].at = "live" => st.fib[f].home # l
  /\ st' = [st EXCEPT !.open[l] = FALSE, !.spare[l] = Empty,
                      !.mapped = {x \in @ : x \notin ToSet(st.spare[l].slots)}]

SNext ==
  \/ \E z \in Sizes : xtc_set_stack_size(z)
  \/ \E t \in Threads, l \in Targets, f \in Fibers :
       /\ \A g \in Fibers : g < f => st.fib[g].at # "no"
       /\ AsyncEx(t, l, f)
  \/ \E t \in Threads : SpareGet(t) \/ Map(t) \/ SparePut(t) \/ ThreadExit(t) \/ LoopFini(t)
  \/ \E t \in Threads, f \in Fibers : Release(t, f)

(* A stack is in one place: a fiber, a pool, a spare, or the hand that puts it away; it has
   the size its fiber asked for; a pool and a spare hold one size and no more than they may. *)
StackOnce ==
  LET places ==
        {<<"fib", f>> : f \in {g \in Fibers : st.fib[g].stk # None}}
          \union {<<"hand", t>> : t \in {u \in Threads : st.th[u].stk # None}}
          \union {<<"pool", t, i>> : t \in Threads, i \in 1 .. PoolMax}
          \union {<<"spare", l, i>> : l \in Threads, i \in 1 .. SpareMax}
      At(x) == CASE x[1] = "fib" -> {st.fib[x[2]].stk} [] x[1] = "hand" -> {st.th[x[2]].stk}
                 [] x[1] = "pool" -> IF x[3] <= Len(st.pool[x[2]].slots)
                                     THEN {st.pool[x[2]].slots[x[3]]} ELSE {}
                 [] OTHER -> IF x[3] <= Len(st.spare[x[2]].slots)
                             THEN {st.spare[x[2]].slots[x[3]]} ELSE {}
  IN  /\ \A k \in st.mapped : Cardinality({x \in places : k \in At(x)}) = 1
      /\ \A x \in places : At(x) \subseteq st.mapped
      /\ \A f \in Fibers : st.fib[f].stk # None => st.fib[f].stk.sz = st.fib[f].sz
      /\ \A t \in Threads :
           /\ Len(st.pool[t].slots) <= PoolMax /\ Len(st.spare[t].slots) <= SpareMax
           /\ \A p \in {st.pool[t], st.spare[t]} : \A k \in ToSet(p.slots) : k.sz = p.sz

(* When the loops are finished and the threads have ended, no stack is left mapped. *)
StacksReturned == (\A t \in Threads : ~st.up[t]) => st.mapped = {}
----------------------------------------------------------------------------
(* Machine K.  A task struct is a member of Fibers; the free lists, the spares, the dead
   stack and the inbox are sets, for the order of their entries does not matter.  `freed`
   is what went back to the allocator; a struct is allocated once, so that a waker that
   still names it shows. *)

Kinds == {"proc", "plain"}
Struct == [home |-> None, pinned |-> FALSE, stable |-> FALSE, kind |-> "plain", state |-> "none"]
PerLoop(x) == [l \in Threads |-> x]
ByPin == [p \in BOOLEAN |-> {}]

KInit ==
  st = [t |-> [k \in Fibers |-> Struct], made |-> {}, freed |-> {},
        list |-> PerLoop(ByPin), spare |-> PerLoop(ByPin), dead |-> PerLoop({}),
        all |-> PerLoop({}), inbox |-> PerLoop({}), q |-> PerLoop({}),
        run |-> PerLoop(None), hand |-> PerLoop(None), wakers |-> {},
        peak |-> PerLoop([p \in BOOLEAN |-> 0]), left |-> MaxSpawns, up |-> TRUE]

Held(s, l, p) == {k \in s.all[l] \union s.inbox[l] : s.t[k].pinned = p}
Spawning(s, l, p) ==
  {t \in Threads : s.hand[t] # None /\ s.hand[t].l = l /\ s.hand[t].pinned = p}
Kept(s, l, p) == s.list[l][p] \union s.spare[l][p]

(* The state, with the high-water mark of the structs in use brought up to date. *)
Marked(s) ==
  [s EXCEPT !.peak = [l \in Threads |-> [p \in BOOLEAN |->
     LET n == Cardinality(Held(s, l, p)) + Cardinality(Spawning(s, l, p))
     IN  IF n > s.peak[l][p] THEN n ELSE s.peak[l][p]]]]

task_free_n(s, l) == Cardinality(s.list[l][TRUE]) + Cardinality(s.list[l][FALSE])
__task_retained(s, l) ==
  task_free_n(s, l) + Cardinality(s.spare[l][TRUE]) + Cardinality(s.spare[l][FALSE])

__os_free(s, k) == [s EXCEPT !.freed = @ \union {k}]

__task_spare_push(s, l, k) == [s EXCEPT !.spare[l][s.t[k].pinned] = @ \union {k}]

(* A mutant: one free list for pinned and migratable structs alike. *)
__task_freelist_one(l, pinned) == TRUE

(* Which of the two free lists a struct of this kind lives on. *)
__task_freelist(l, pinned) == pinned

__task_freelist_push(s, l, k) ==
  IF task_free_n(s, l) >= PoolMax THEN __task_spare_push(s, l, k)
  ELSE [s EXCEPT !.list[l][__task_freelist(l, s.t[k].pinned)] = @ \union {k}]

(* __task_freelist_pop by thread t: what it may return, with the state after. *)
Pops(s, t, l, pinned) ==
  LET own == s.list[l][__task_freelist(l, pinned)]
      sp == s.spare[l][pinned]
  IN  IF t = l /\ own # {}
      THEN {<<k, [s EXCEPT !.list[l][__task_freelist(l, pinned)] = @ \ {k}]>> : k \in own}
      ELSE IF sp # {} THEN {<<k, [s EXCEPT !.spare[l][pinned] = @ \ {k}]>> : k \in sp}
      ELSE {<<None, s>>}

(* __task_alloc, first half, in __xtc_task_spawn_cleanup on thread t onto loop l: the charge
   of the task slot, then a recycled struct or none. *)
Alloc(t, l, pinned, kind) ==
  /\ st.up /\ st.hand[t] = None /\ st.left > 0
  /\ \E x \in Pops(st, t, l, pinned) :
       st' = Marked([x[2] EXCEPT !.hand[t] = [k |-> x[1], l |-> l, pinned |-> pinned, kind |-> kind],
                                 !.left = @ - 1])

(* What clearing a recycled struct keeps of it: whether it is type-stable. *)
__task_zero_recycled(s, k) == s.t[k].stable

(* The rest of __xtc_task_spawn_cleanup: a fresh struct if there was none, then all_tasks and
   the run queue on the loop's own thread, and its inbox from another (whose slot may be
   refused: the struct goes to the spare if it is type-stable, else to the allocator). *)
Publish(t) ==
  LET h == st.hand[t]
      fresh == {k \in Fibers : k \notin st.made /\ \A j \in Fibers : j < k => j \in st.made}
      l == h.l
  IN  /\ h # None
      /\ \E k \in IF h.k = None THEN fresh ELSE {h.k} :
         LET s == [st EXCEPT !.made = @ \union {k}, !.hand[t] = None,
                     !.t[k] = [home |-> l, pinned |-> h.pinned, kind |-> h.kind,
                               state |-> "SCHEDULED",
                               stable |-> h.k # None /\ __task_zero_recycled(st, k)]]
         IN  IF t = l
             THEN st' = Marked([s EXCEPT !.all[l] = @ \union {k}, !.q[l] = @ \union {k}])
             ELSE \/ st' = Marked([s EXCEPT !.inbox[l] = @ \union {k}])
                  \/ st' = IF s.t[k].stable THEN __task_spare_push(s, l, k) ELSE __os_free(s, k)

(* __task_recycle_home. *)
__task_recycle_home(s, l, k) ==
  __task_freelist_push([s EXCEPT !.all[l] = @ \ {k}, !.t[k].stable = TRUE], l, k)

__xtc_task_reclaim_drain(s, l) ==
  LET one(k, acc) == __task_recycle_home(acc, l, k)
  IN  [FoldSet(one, s, s.dead[l]) EXCEPT !.dead[l] = {}]

(* The top of a loop step: recycle what other loops handed back, then take the inbox. *)
LoopStep(l) ==
  LET s == __xtc_task_reclaim_drain(st, l)
  IN  /\ st.up /\ st.run[l] = None
      /\ st.dead[l] # {} \/ st.inbox[l] # {}
      /\ st' = [s EXCEPT !.all[l] = @ \union s.inbox[l], !.q[l] = @ \union s.inbox[l],
                         !.inbox[l] = {}]

(* A loop dispatches a task of its own queue, or a migratable one of another's. *)
Dispatch(l) ==
  /\ st.up /\ st.run[l] = None
  /\ \E v \in Threads, k \in Fibers :
       /\ k \in st.q[v] /\ (v = l \/ ~st.t[k].pinned)
       /\ st' = [st EXCEPT !.q[v] = @ \ {k}, !.run[l] = k, !.t[k].state = "RUNNING"]

(* The running proc takes a waker, which names this loop and the struct, and parks; a wake
   that came first has it rescheduled here. *)
Park(l) ==
  LET k == st.run[l]
  IN  /\ k # None /\ st.t[k].kind = "proc" /\ Cardinality(st.wakers \union {<<l, k>>}) <= MaxYields
      /\ st' = [st EXCEPT !.run[l] = None, !.t[k].state = "PARKED",
                          !.wakers = @ \union {<<l, k>>}]

(* xtc_waker_wake, at any time while the loops live: only a parked task is queued, on the
   loop the waker names.  A waker is a copied pair, so another copy may be left. *)
Fire(w, copy) ==
  LET l == w[1]   k == w[2]   s == [st EXCEPT !.wakers = (@ \ {w}) \union copy]
  IN  /\ st.up /\ w \in st.wakers
      /\ st' = IF st.t[k].state = "PARKED"
               THEN [s EXCEPT !.t[k].state = "SCHEDULED", !.q[l] = @ \union {k}] ELSE s

(* A finished proc: recycled on its home loop, else handed back to it. *)
__xtc_task_reclaim(s, l, k) ==
  IF s.t[k].home = l THEN __task_recycle_home(s, l, k)
  ELSE [s EXCEPT !.dead[s.t[k].home] = @ \union {k}]

(* A finished plain task on its home loop: kept if type-stable or if there is room. *)
__xtc_task_free(s, l, k) ==
  LET s1 == [s EXCEPT !.all[l] = @ \ {k}]
  IN  IF s.t[k].stable \/ __task_retained(s1, l) < SpareMax THEN __task_freelist_push(s1, l, k)
      ELSE __os_free(s1, k)

(* The DONE verdict: a plain task that finished on a thief stays on all_tasks until fini. *)
Finishes(s, l, k) ==
  IF s.t[k].kind = "plain" THEN IF s.t[k].home = l THEN __xtc_task_free(s, l, k) ELSE s
  ELSE __xtc_task_reclaim(s, l, k)

Done(l) ==
  LET k == st.run[l]
  IN  /\ k # None
      /\ st' = Finishes([st EXCEPT !.run[l] = None, !.t[k].state = "DONE"], l, k)

(* What an inbox that was not drained, and the spares, add to what fini frees. *)
__xtc_inbox_fini(s, l) == s.inbox[l]
__xtc_task_spare_fini(s, l) == s.spare[l][TRUE] \union s.spare[l][FALSE]

(* xtc_loop_fini of every loop once they all stopped: the dead stack is drained, then what
   is on all_tasks, on the free lists (with the spares) and in the inbox is freed. *)
Fini ==
  /\ st.up /\ \A t \in Threads : st.run[t] = None /\ st.hand[t] = None
  /\ LET s == [l \in Threads |-> __xtc_task_reclaim_drain(st, l)]
         frees(l) == s[l].all[l] \union s[l].list[l][TRUE] \union s[l].list[l][FALSE]
                       \union __xtc_task_spare_fini(s[l], l) \union __xtc_inbox_fini(s[l], l)
     IN  st' = [st EXCEPT !.up = FALSE, !.freed = @ \union UNION {frees(l) : l \in Threads},
                  !.list = PerLoop(ByPin), !.spare = PerLoop(ByPin), !.dead = PerLoop({}),
                  !.all = PerLoop({}), !.inbox = PerLoop({}), !.q = PerLoop({}), !.wakers = {}]

KNext ==
  \/ \E t \in Threads, l \in Targets, p \in BOOLEAN, kind \in Kinds : Alloc(t, l, p, kind)
  \/ \E t \in Threads :
       Publish(t) \/ LoopStep(t) \/ Dispatch(t) \/ Park(t) \/ Done(t)
  \/ \E w \in st.wakers : \E copy \in SUBSET {w} : Fire(w, copy)
  \/ Fini

(* A task struct is in one place at a time: on all_tasks or in an inbox, on a free list or a
   spare of its own kind, in the hand of a spawn, or back with the allocator; and at the end
   every struct is. *)
StructOnce ==
  /\ \A k \in st.made :
       Cardinality({x \in {"all", "inbox", "list", "spare"} \X Threads \X BOOLEAN :
          k \in CASE x[1] = "all" -> IF x[3] THEN {} ELSE st.all[x[2]]
                  [] x[1] = "inbox" -> IF x[3] THEN {} ELSE st.inbox[x[2]]
                  [] x[1] = "list" -> st.list[x[2]][x[3]]
                  [] x[1] = "spare" -> st.spare[x[2]][x[3]]})
       + Cardinality({t \in Threads : st.hand[t] # None /\ st.hand[t].k = k})
       + (IF k \in st.freed THEN 1 ELSE 0) = 1
  /\ \A l \in Threads : st.dead[l] \subseteq st.all[l]
  /\ ~st.up => st.freed = st.made

(* A pinned task is queued and run on its home loop alone, whatever wakers earlier users of
   its struct left behind; and no waker names a struct that went back to the allocator. *)
WakersSafe ==
  /\ \A l \in Threads :
       \A k \in st.q[l] \union (IF st.run[l] = None THEN {} ELSE {st.run[l]}) :
         st.t[k].pinned => st.t[k].home = l
  /\ \A w \in st.wakers : w[2] \notin st.freed

(* What a loop keeps of each kind is bounded by the most it ever had in use and the cap of
   its free list, however many tasks come and go. *)
StructsBounded ==
  \A l \in Threads, p \in BOOLEAN :
    Cardinality(Held(st, l, p)) + Cardinality(Kept(st, l, p)) <= st.peak[l][p] + PoolMax
----------------------------------------------------------------------------
(* Machine A.  Addresses are 0 .. 4: libxtc has 2, libc has 4; the executable is linked
   statically (2 and 4 lie inside it) or is 0 .. 1.  A thread that is armed has a timer
   (Substrate "posix") or a private kqueue and a helper that signals it ("kqueue"). *)

LibxtcPc == 2
LibcPc == 4
MainRange == <<0, 2>>

AInit ==
  st = [row |-> [i \in 1 .. PoolMax |-> [lo |-> 0, hi |-> 0]], n |-> 0, mu |-> None,
        init |-> FALSE, rc |-> "OK", norange |-> FALSE, on |-> FALSE, added |-> {},
        th |-> [t \in Threads |->
                  [pc |-> "idle", unsafe |-> 0, range |-> <<0, 0>>, armed |-> FALSE,
                   have |-> FALSE, kq |-> FALSE, stop |-> FALSE, pending |-> FALSE,
                   again |-> FALSE, sig |-> FALSE, at |-> None, n |-> 0, back |-> "idle"]],
        helper |-> [t \in Threads |-> "none"], left |-> MaxSpawns]

(* A thread does not go on while a signal for it is pending or handled. *)
At(t, pc) == st.th[t].pc = pc /\ ~st.th[t].sig

(* __xtc_mtx_lock of g_regions_mu in xtc_preempt_region_add. *)
LocksMu(t) ==
  st.mu = None /\ st' = [st EXCEPT !.mu = t, !.th[t].pc = "guarded", !.th[t].unsafe = @ + 1]

Covers(r, pc) == r[1] <= pc /\ pc < r[2]

(* xtc_preempt_region_add, up to its lock: an empty range, or one that covers libxtc, is
   refused. *)
xtc_preempt_region_add(t, r) ==
  /\ At(t, "idle") /\ st.left > 0 /\ r[1] < r[2] /\ ~Covers(r, LibxtcPc)
  /\ st' = [st EXCEPT !.th[t].pc = "lock", !.th[t].range = r, !.left = @ - 1]

RegionLock(t) == At(t, "lock") /\ LocksMu(t)

MuUnlocked(s, t) ==
  [s EXCEPT !.mu = None, !.th[t].pc = "idle", !.th[t].unsafe = @ - 1, !.th[t].range = <<0, 0>>]

(* The check against libc, then region_push: the count is read, the entry written field by
   field, and the count published. *)
region_push(t) ==
  LET h == st.th[t]
  IN  \/ /\ At(t, "guarded")
         /\ st' = IF Covers(h.range, LibcPc) \/ st.n >= PoolMax THEN MuUnlocked(st, t)
                  ELSE [st EXCEPT !.th[t].pc = "lo", !.th[t].n = st.n]
      \/ /\ At(t, "lo")
         /\ st' = [st EXCEPT !.row[h.n + 1].lo = h.range[1], !.th[t].pc = "hi"]
      \/ /\ At(t, "hi")
         /\ st' = [st EXCEPT !.row[h.n + 1].hi = h.range[2], !.th[t].pc = "count"]
      \/ /\ At(t, "count")
         /\ st' = MuUnlocked([st EXCEPT !.n = h.n + 1, !.added = @ \union {h.range},
                                        !.th[t].n = 0], t)

(* What the first enabling finds to be preemptible: the executable, unless libxtc or libc is
   part of it (a static one has no marked code here). *)
preempt_regions_init(s, static) == IF static THEN {} ELSE {MainRange}

(* Both entries are written and published before the lock is given back. *)
Filled(s, rs) ==
  LET one(r, acc) == IF acc.n >= PoolMax THEN acc
                     ELSE [acc EXCEPT !.row[acc.n + 1] = [lo |-> r[1], hi |-> r[2]],
                                      !.n = @ + 1, !.added = @ \union {r}]
  IN  FoldSet(one, s, rs)

(* A refusal for want of a range is lifted by one that was added. *)
Lifted(s) ==
  IF s.rc # "OK" /\ s.norange /\ s.n > 0 THEN [s EXCEPT !.rc = "OK", !.norange = FALSE] ELSE s

(* xtc_preempt_set_involuntary, on and off. *)
xtc_preempt_set_involuntary(t, static) ==
  /\ At(t, "idle") /\ st.mu = None
  /\ LET s0 == IF st.init THEN st ELSE Filled([st EXCEPT !.init = TRUE], preempt_regions_init(st, static))
         s1 == IF st.init \/ s0.n > 0 THEN s0 ELSE [s0 EXCEPT !.rc = "NOSYS", !.norange = TRUE]
         s2 == Lifted(s1)
     IN  st' = IF s2.rc = "OK" THEN [s2 EXCEPT !.on = TRUE] ELSE s2

InvoluntaryOff(t) == At(t, "idle") /\ st.on /\ st' = [st EXCEPT !.on = FALSE]

(* The timer of a thread fires, wherever the thread is: posix, the kernel signals it. *)
Expires(t) ==
  /\ Substrate = "posix" /\ st.th[t].have /\ ~st.th[t].sig /\ st.th[t].back = "idle"
  /\ st.th[t].pc \notin {"scan", "redirect"}
  /\ st' = [st EXCEPT !.th[t].sig = TRUE]

(* kq_timer_helper: the stop event ends it, a timer event has it signal its thread. *)
kq_timer_helper(t) ==
  \/ /\ st.helper[t] = "poll"
     /\ \/ st.th[t].stop /\ st' = [st EXCEPT !.helper[t] = "gone", !.th[t].stop = FALSE]
        \/ st' = [st EXCEPT !.helper[t] = "kill"]
  \/ /\ st.helper[t] = "kill" /\ st.th[t].pc \notin {"scan", "redirect"}
     /\ st' = [st EXCEPT !.helper[t] = "poll", !.th[t].sig = TRUE]

(* preempt_handler, interrupting at address pc: a table scan is to decide, or the tick is
   left pending. *)
preempt_handler(t, pc) ==
  /\ st.th[t].sig
  /\ (pc = LibxtcPc) <=> (st.th[t].pc # "idle")
  /\ st' = IF st.on /\ st.th[t].unsafe = 0
           THEN [st EXCEPT !.th[t].sig = FALSE, !.th[t].at = pc, !.th[t].n = st.n,
                           !.th[t].back = st.th[t].pc, !.th[t].pc = "scan"]
           ELSE [st EXCEPT !.th[t].sig = FALSE, !.th[t].pending = TRUE]

(* __xtc_preempt_pc_ok, with the count read before; a diverted fiber comes back. *)
__xtc_preempt_pc_ok(t) ==
  LET h == st.th[t]
      ok == \E i \in 1 .. h.n : Covers(<<st.row[i].lo, st.row[i].hi>>, h.at)
  IN  /\ h.pc = "scan"
      /\ st' = IF ok THEN [st EXCEPT !.th[t].pc = "redirect", !.th[t].n = 0]
               ELSE [st EXCEPT !.th[t].pc = h.back, !.th[t].back = "idle", !.th[t].at = None,
                               !.th[t].n = 0, !.th[t].pending = TRUE]

Resumes(t) ==
  /\ st.th[t].pc = "redirect"
  /\ st' = [st EXCEPT !.th[t].pc = st.th[t].back, !.th[t].back = "idle", !.th[t].at = None]

xtc_preempt_tick_pending(t) ==
  At(t, "idle") /\ st.th[t].pending /\ st' = [st EXCEPT !.th[t].pending = FALSE]

(* xtc_preempt_disarm stops a posix timer at once, and tells a helper to stop. *)
StopTimer(s, t) ==
  IF Substrate = "kqueue" /\ s.th[t].have
  THEN [s EXCEPT !.th[t].pc = "join", !.th[t].stop = TRUE]
  ELSE [s EXCEPT !.th[t].pc = "close", !.th[t].have = FALSE]

Joins(t) ==
  /\ st.helper[t] = "gone"
  /\ st' = [st EXCEPT !.helper[t] = "none", !.th[t].pc = "close", !.th[t].have = FALSE]

Join(t) == At(t, "join") /\ Joins(t)

Close(t) ==
  /\ At(t, "close")
  /\ st' = [st EXCEPT !.th[t].kq = FALSE, !.th[t].armed = FALSE, !.th[t].pending = FALSE,
                      !.th[t].pc = IF st.th[t].again THEN "arm" ELSE "idle", !.th[t].again = FALSE]

Disarm(t) == At(t, "idle") /\ st.th[t].armed /\ st' = StopTimer(st, t)

(* xtc_preempt_arm: an armed thread is disarmed first; every resource may be refused. *)
Arm(t) ==
  /\ At(t, "idle") /\ st.left > 0
  /\ LET s == [st EXCEPT !.left = @ - 1]
     IN  st' = IF st.th[t].armed THEN StopTimer([s EXCEPT !.th[t].again = TRUE], t)
               ELSE [s EXCEPT !.th[t].pc = "arm"]

Armed(t) ==
  /\ At(t, "arm")
  /\ \/ st' = [st EXCEPT !.th[t].pc = "idle"]
     \/ st' = [st EXCEPT !.th[t].pc = "idle", !.th[t].armed = TRUE, !.th[t].have = TRUE,
                 !.th[t].pending = FALSE, !.th[t].kq = Substrate = "kqueue",
                 !.helper[t] = IF Substrate = "kqueue" THEN "poll" ELSE "none"]

ANext ==
  \/ \E t \in Threads, r \in {<<0, 1>>, <<3, 4>>, <<3, 5>>} : xtc_preempt_region_add(t, r)
  \/ \E t \in Threads :
       \/ RegionLock(t) \/ region_push(t) \/ InvoluntaryOff(t)
       \/ xtc_preempt_set_involuntary(t, Involuntary)
       \/ __xtc_preempt_pc_ok(t) \/ Resumes(t)
  \/ \E t \in Targets :
       \/ Expires(t) \/ kq_timer_helper(t) \/ xtc_preempt_tick_pending(t)
       \/ Arm(t) \/ Armed(t) \/ Disarm(t) \/ Join(t) \/ Close(t)
       \/ \E pc \in 0 .. 4 : preempt_handler(t, pc)

(* A tick diverts only a thread in code some accepted range covers, never one in libxtc, in
   libc or holding the table's lock; and involuntary preemption is on only with a range. *)
SafePoints ==
  /\ \A t \in Threads :
       st.th[t].pc = "redirect" =>
         /\ \E r \in st.added : Covers(r, st.th[t].at)
         /\ st.th[t].at \notin {LibxtcPc, LibcPc} /\ st.th[t].unsafe = 0 /\ st.mu # t
  /\ st.on => st.n > 0

(* A thread that is not armed has no tick left over and no helper that could still signal
   it, and a helper never waits on a closed kqueue. *)
DisarmQuiet ==
  \A t \in Threads :
    /\ st.helper[t] # "none" => st.th[t].kq
    /\ ~st.th[t].armed /\ st.th[t].pc = "idle" => ~st.th[t].pending /\ ~st.th[t].sig /\ st.helper[t] = "none"
=============================================================================
