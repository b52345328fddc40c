------------------------------- MODULE Future -------------------------------
(***************************************************************************)
(* Results that come later: the futures and combinators of ptc/future.c,   *)
(* the dispatcher of ptc/dispatch.c, and the pool of threads that runs     *)
(* blocking calls (ptc/blocking.c).                                        *)
(***************************************************************************)
EXTENDS Integers, Sequences, FiniteSets
LOCAL INSTANCE SequencesExt
LOCAL INSTANCE FiniteSetsExt

CONSTANTS
  Kind,         \* the combinator: "map", "then", "all", "any" or "timeout"; or "dispatch"
  Srcs,         \* its sources
  Statuses,     \* what a source may end with; a drop is "ABORTED"
  Timed, MayKill,         \* of the one that waits for the result
  Workers, Callers,       \* of the pool: its cap of threads, the calls
  Fibers, Detached,       \* calls made by fibers, and fire-and-forget calls
  QueueMax,
  Stops                   \* shutdowns

(* A combinator's state st has the fields
     cell     per cell: ready, status, refs and whether a callback is pending on it
     prom     per cell: its promise is not yet used
     todo     per actor: what its thread has left to do, in order
     err, remaining, done, ctx     the combinator's context, and whether it is allocated
     timer    of with_timeout: armed, fired or cancelled
     wpc, queued, woken, killed, handle     the waiter for the result, and its handle *)
VARIABLE st

Cells == Srcs \cup {"out"} \cup IF Kind = "then" THEN {"next"} ELSE {}
Setters == Cells \ {"out"}
Actors == Setters \cup {"maker"} \cup IF Kind = "timeout" THEN {"timer"} ELSE {}

----------------------------------------------------------------------------
(* What a thread has left to do is a sequence of operations, each one access to shared
   state with the local work that follows it. *)

Op(o, c, s) == [op |-> o, c |-> c, s |-> s]
Do(o) == Op(o, "none", "OK")

(* xtc_promise_set and xtc_promise_drop *)
PromiseSet(c, s) == <<Op("complete", c, s)>>

(* The callbacks.  of map and then_inner: *)
map_on_complete(s) == PromiseSet("out", s)

(* of then: the function declines to chain, or returns the next future. *)
then_on_complete(s) == <<Op("fn", "next", s)>>
Chained(s) ==
  {[chain |-> FALSE, todo |-> PromiseSet("out", s) \o <<Do("free")>>],
   [chain |-> TRUE, todo |-> <<Op("register", "next", s), Op("unref", "next", s), Do("free")>>]}

all_on_complete(s) == (IF s = "OK" THEN <<>> ELSE <<Op("errcas", "none", s)>>) \o <<Do("dec")>>
any_on_complete(s) == <<Op("win", "none", s), Do("dec")>>
timeout_src_complete(s) == <<Op("win", "none", s), Do("retire")>>
timeout_fire == <<Op("win", "timer", "AGAIN"), Do("retire")>>

Callback(c, s) ==
  CASE c = "next" -> map_on_complete(s)
    [] Kind = "map" -> map_on_complete(s) \o <<Do("free")>>
    [] Kind = "then" -> then_on_complete(s)
    [] Kind = "all" -> all_on_complete(s)
    [] Kind = "any" -> any_on_complete(s)
    [] Kind = "timeout" -> timeout_src_complete(s)

(* __dispatch_entry: the finalizer cannot be registered; the function returns; or the
   fiber ends inside it, by a cancel or a fault, and its finalizer runs. *)
dispatch_entry ==
  {<<Do("unregistered")>>, <<Op("result", "none", "OK"), Do("final")>>, <<Do("final")>>}

RECURSIVE Registrations(_)
Registrations(S) ==
  IF S = {} THEN <<>>
  ELSE LET c == CHOOSE x \in S : TRUE
       IN <<Op("register", c, "OK"), Op("unref", c, "OK")>> \o Registrations(S \ {c})

(* What the caller of a combinator does once it has the new pair and the context: *)
xtc_future_map == Registrations(Srcs)
xtc_future_then == Registrations(Srcs)
xtc_future_when_all == Registrations(Srcs)
xtc_future_when_any == Registrations(Srcs)
xtc_future_with_timeout == <<Do("arm")>> \o Registrations(Srcs)
xtc_dispatch == <<Do("spawn")>>

(* xtc_future_new_pair for each cell *)
Init ==
  st = [cell |-> [c \in Cells |-> [ready |-> FALSE, status |-> "OK", refs |-> 2, cb |-> FALSE]],
        prom |-> [c \in Cells |-> TRUE],
        todo |-> [a \in Actors |->
                    IF a # "maker" THEN <<>>
                    ELSE CASE Kind = "map" -> xtc_future_map [] Kind = "then" -> xtc_future_then
                           [] Kind = "all" -> xtc_future_when_all
                           [] Kind = "any" -> xtc_future_when_any
                           [] Kind = "timeout" -> xtc_future_with_timeout
                           [] Kind = "dispatch" -> xtc_dispatch],
        chained |-> FALSE,
        err |-> "none", errset |-> FALSE, done |-> FALSE, ctx |-> TRUE,
        remaining |-> IF Kind = "timeout" THEN 2 ELSE Cardinality(Srcs),
        timer |-> "none",
        wpc |-> "idle", queued |-> FALSE, woken |-> FALSE, killed |-> FALSE, handle |-> TRUE]

(* cell_complete under the lock: the first one decides, takes the callback and wakes the
   waiters; the promise's reference goes last. *)
CompleteFirst(s, a, c, status, rest) ==
  LET done == [s EXCEPT !.cell[c] = [@ EXCEPT !.ready = TRUE, !.status = status, !.cb = FALSE],
                        !.prom[c] = FALSE,
                        !.queued = IF c = "out" THEN FALSE ELSE @,
                        !.woken = @ \/ c = "out"]
      drop == <<Op("unref", c, "OK")>>
  IN [done EXCEPT !.todo[a] = IF s.cell[c].cb THEN Callback(c, status) \o drop \o drop \o rest
                              ELSE drop \o rest]

(* cell_on_complete: a reference for the callback, which runs at once on a ready cell. *)
Register(s, a, c, rest) ==
  IF s.cell[c].ready
    THEN [s EXCEPT !.cell[c].refs = @ + 1,
                   !.todo[a] = Callback(c, s.cell[c].status) \o <<Op("unref", c, "OK")>> \o rest]
  ELSE [s EXCEPT !.cell[c] = [@ EXCEPT !.refs = @ + 1, !.cb = TRUE], !.todo[a] = rest]

(* cell_unref: the last one frees the cell. *)
Unref(s, c) == [s EXCEPT !.cell[c].refs = @ - 1]

(* any_on_complete, timeout_src_complete and timeout_fire: one of them decides. *)
Win(s, o) ==
  IF s.done THEN <<>>
  ELSE PromiseSet("out", o.s)
         \o IF Kind = "timeout" /\ o.c # "timer" THEN <<Do("cancel")>> ELSE <<>>

(* __xtc_timer_try_cancel: a cancel that stops the fire retires for it. *)
TryCancel(s) == IF s.timer = "armed" THEN <<Do("retire")>> ELSE <<>>

(* timeout_retire *)
TimeoutRetire(s) == IF s.remaining = 1 THEN <<Do("free")>> ELSE <<>>

(* __dispatch_finalize: the promise is dropped if the function's result did not use it. *)
DispatchFinalize(s) == (IF s.done THEN <<>> ELSE PromiseSet("out", "ABORTED")) \o <<Do("free")>>

(* all_on_complete's last decrement, any_on_complete's *)
LastRetires(s) ==
  IF Kind = "all"
    THEN PromiseSet("out", IF s.errset THEN s.err ELSE "OK") \o <<Do("free")>>
  ELSE <<Do("free")>>

(* One step of a thread: its first operation *)
Step(s, a) ==
  LET o == Head(s.todo[a])
      rest == Tail(s.todo[a])
      went(q) == [q EXCEPT !.todo[a] = rest]
      then(q, more) == [q EXCEPT !.todo[a] = more \o rest]
  IN CASE o.op = "complete" -> {CompleteFirst(s, a, o.c, o.s, rest)}
       [] o.op = "register" -> {Register(s, a, o.c, rest)}
       [] o.op = "unref" -> {went(Unref(s, o.c))}
       [] o.op = "arm" -> {went([s EXCEPT !.timer = "armed"]), went([s EXCEPT !.remaining = 1])}
       [] o.op = "errcas" ->
            {IF s.errset THEN went(s)
             ELSE then([s EXCEPT !.errset = TRUE], <<Op("errstore", "none", o.s)>>)}
       [] o.op = "errstore" -> {went([s EXCEPT !.err = o.s])}
       [] o.op = "dec" ->
            {then([s EXCEPT !.remaining = @ - 1], IF s.remaining = 1 THEN LastRetires(s) ELSE <<>>)}
       [] o.op = "win" -> {then([s EXCEPT !.done = TRUE], Win(s, o))}
       [] o.op = "cancel" ->
            {then([s EXCEPT !.timer = IF @ = "armed" THEN "cancelled" ELSE @], TryCancel(s))}
       [] o.op = "retire" -> {then([s EXCEPT !.remaining = @ - 1], TimeoutRetire(s))}
       [] o.op = "fn" -> {then([s EXCEPT !.chained = x.chain], x.todo) : x \in Chained(o.s)}
       [] o.op = "spawn" ->
            {then(s, more) : more \in dispatch_entry}
              \cup {then(s, PromiseSet("out", "ABORTED") \o <<Do("free")>>)}
       [] o.op = "unregistered" -> {then([s EXCEPT !.done = TRUE], PromiseSet("out", "ABORTED"))}
       [] o.op = "result" ->
            {IF s.done THEN went(s) ELSE then([s EXCEPT !.done = TRUE], PromiseSet("out", o.s))}
       [] o.op = "final" -> {then([s EXCEPT !.done = TRUE], DispatchFinalize(s))}
       [] o.op = "free" -> {went([s EXCEPT !.ctx = FALSE])}

Works(a) == st.todo[a] # <<>> /\ st' \in Step(st, a)

(* Somebody uses the promise of a source. *)
Resolve(c) ==
  /\ st.prom[c] /\ st.todo[c] = <<>>
  /\ \E s \in Statuses : st' = [st EXCEPT !.todo[c] = PromiseSet(c, s)]

(* The loop's timer thread runs the callback. *)
Fire ==
  /\ st.timer = "armed" /\ st.todo["maker"] = <<>>
  /\ st' = [st EXCEPT !.timer = "fired", !.todo["timer"] = timeout_fire]

----------------------------------------------------------------------------
(* future_get for the result: by a fiber, which may be killed, or a thread *)

Consume(s) == [s EXCEPT !.wpc = "consume", !.queued = FALSE]

Get ==
  /\ st.wpc = "idle" /\ st.handle
  /\ st' = IF st.cell["out"].ready THEN Consume(st)
           ELSE [st EXCEPT !.wpc = "parked", !.queued = TRUE, !.woken = FALSE]

(* The waiter runs again: killed it unlinks itself and leaves the future alone, ready it
   takes the result, late it gives up with XTC_E_AGAIN, otherwise it parks again. *)
Woken ==
  /\ st.wpc = "parked" /\ (st.woken \/ st.killed)
  /\ st' = IF st.killed THEN [st EXCEPT !.wpc = "killed", !.queued = FALSE]
           ELSE IF st.cell["out"].ready THEN Consume(st)
           ELSE [st EXCEPT !.woken = FALSE]

TimesOut ==
  /\ Timed /\ st.wpc = "parked"
  /\ st' = IF st.cell["out"].ready THEN Consume(st)
           ELSE [st EXCEPT !.wpc = "idle", !.queued = FALSE]

Consumed ==
  /\ st.wpc = "consume"
  /\ st' = [st EXCEPT !.wpc = "got", !.handle = FALSE, !.cell["out"].refs = @ - 1]

(* __xtc_future_discard *)
Discard ==
  /\ st.wpc = "idle" /\ st.handle /\ Timed
  /\ st' = [st EXCEPT !.wpc = "gone", !.handle = FALSE, !.cell["out"].refs = @ - 1]

KillWaiter ==
  /\ MayKill /\ ~st.killed
  /\ st' = [st EXCEPT !.killed = TRUE]

Waits == Woken \/ Consumed

(* A thread with work left goes on, and a fiber or thread that was woken runs. *)
Runs == (\E a \in Actors : Works(a)) \/ Fire \/ Waits

(* The waiter is parked for a result that its sources, or the timer, are about to give. *)
MustReturn == st.wpc = "parked" /\ (st.timer # "none" \/ \A c \in Srcs : ~st.prom[c])
Returned == st.wpc \in {"got", "killed"}

Next ==
  \/ \E a \in Actors : Works(a)
  \/ \E c \in Setters : Resolve(c)
  \/ Fire \/ Get \/ TimesOut \/ Waits \/ Discard \/ KillWaiter

----------------------------------------------------------------------------
Pending(o, c) ==
  MapThenSumSet(LAMBDA a : Len(SelectSeq(st.todo[a], LAMBDA x : x.op = o /\ x.c = c)),
                Actors)

(* Cells and contexts have values of their types. *)
TypeOK ==
  /\ st.remaining \in 0 .. 2 /\ st.err \in Statuses \cup {"none"}
  /\ \A c \in Cells : st.cell[c].refs \in 0 .. 6

(* A cell's count is its holders: the promise that is not used, the callback that is
   pending, the handle, and what a thread still has to drop.  So nobody reaches a cell that
   was freed, and when all is done each was freed. *)
RefsExact ==
  \A c \in Cells :
    st.cell[c].refs = Pending("unref", c) + (IF st.prom[c] THEN 1 ELSE 0)
                      + (IF st.cell[c].cb THEN 1 ELSE 0)
                      + (IF c = "out" /\ st.handle THEN 1 ELSE 0)
                      + (IF c = "next" /\ Kind = "then" /\ ~st.chained THEN 1 ELSE 0)

UsesCtx == {"errcas", "errstore", "dec", "win", "cancel", "retire", "fn", "spawn",
            "result", "final", "unregistered", "free", "arm"}

(* The combinator resolves its promise once and frees its context once, after its last
   use, whichever source or timer comes first and whatever comes at the same time: the
   promise is freed when it is used, so a second use would be of freed memory. *)
ResolvedOnce ==
  /\ Pending("complete", "out") <= 1 /\ (Pending("complete", "out") = 1 => st.prom["out"])
  /\ (\E a \in Actors : \E i \in 1 .. Len(st.todo[a]) : st.todo[a][i].op \in UsesCtx) => st.ctx
  /\ (\E c \in Srcs : st.cell[c].cb) => st.ctx
  /\ Pending("free", "none") <= 1

(* The result is what the combinator promises: of all sources, an error if and only if one
   of them had one, and only when all are there; of any, a source's; of a timeout, a
   source's unless the timer fired. *)
ResultRight ==
  st.cell["out"].ready =>
    LET s == st.cell["out"].status
        of(c) == st.cell[c].ready /\ st.cell[c].status = s
    IN CASE Kind = "all" -> /\ \A c \in Srcs : st.cell[c].ready
                            /\ IF s = "OK" THEN \A c \in Srcs : st.cell[c].status = "OK"
                               ELSE \E c \in Srcs : of(c)
         [] Kind = "any" -> \E c \in Srcs : of(c)
         [] Kind = "timeout" -> (\E c \in Srcs : of(c)) \/ (s = "AGAIN" /\ st.timer = "fired")
         [] Kind = "dispatch" -> s \in {"OK", "ABORTED"}
         [] OTHER -> \E c \in Setters : of(c)

(* The waiter is queued on the cell only while it is parked. *)
NoWaiterLeft == st.queued => st.wpc = "parked"

----------------------------------------------------------------------------
(* The blocking pool.  st has the fields
     queue, qlen, idle, nstarted, started, stopping     the globals under g_lock
     wpc, job   per worker: none, asleep in g_cv, awake, running its job, or ended
     call       per call: new, queued, running, done, refused, or returned and its frame gone
     cpc        per caller: where it is;  order  the calls in the order accepted and taken
     late       calls accepted during a shutdown
     spc, joins, stops    the shutdown: where it is, whom it joins, how many there were *)

PoolInit ==
  st = [queue |-> <<>>, qlen |-> 0, idle |-> 0, nstarted |-> 0, started |-> FALSE,
        stopping |-> FALSE, wpc |-> [w \in Workers |-> "none"], job |-> [w \in Workers |-> 0],
        call |-> [c \in Callers |-> "new"], ran |-> [c \in Callers |-> 0],
        killed |-> {}, taken |-> <<>>, accepted |-> <<>>, late |-> {},
        spc |-> "idle", joins |-> {}, stops |-> 0]

Alive(s) == {w \in Workers : s.wpc[w] \notin {"none", "ended"}}
Started(s, W) == [s EXCEPT !.wpc = [w \in Workers |-> IF w \in W THEN "enter" ELSE @[w]],
                           !.nstarted = @ + Cardinality(W)]

(* blk_start_locked: as many threads as could be started *)
BlkStart(s) ==
  IF s.started THEN {s}
  ELSE {[Started([s EXCEPT !.stopping = FALSE, !.nstarted = 0, !.idle = 0, !.started = W # {},
                           !.wpc = [w \in Workers |-> "none"]], W) EXCEPT !.started = W # {}] :
          W \in {{}, {CHOOSE w \in Workers : TRUE}}}

(* blk_grow_locked: one thread more when more is queued than idle workers can take, unless
   none can be had *)
BlkGrow(s) ==
  IF s.stopping \/ s.nstarted >= Cardinality(Workers) \/ s.qlen <= s.idle THEN {s}
  ELSE {s} \cup {Started(s, {w}) : w \in {CHOOSE w \in Workers : s.wpc[w] \in {"none", "ended"}}}

(* pthread_cond_signal, pthread_cond_broadcast of g_cv *)
SignalOne(s) ==
  LET asleep == {w \in Workers : s.wpc[w] = "asleep"}
  IN IF asleep = {} THEN {s} ELSE {[s EXCEPT !.wpc[w] = "awake"] : w \in asleep}
SignalAll(s) == [s EXCEPT !.wpc = [w \in Workers |-> IF @[w] = "asleep" THEN "awake" ELSE @[w]]]

(* blk_enqueue: refused when no thread runs or the queue is full *)
BlkEnqueue(s, c) ==
  UNION {IF ~q.started THEN {[q EXCEPT !.call[c] = "refused"]}
         ELSE IF q.qlen >= QueueMax THEN {[q EXCEPT !.call[c] = "refused"]}
         ELSE UNION {SignalOne(g) :
                g \in BlkGrow([q EXCEPT !.queue = Append(@, c), !.qlen = @ + 1, !.call[c] = "queued",
                                        !.accepted = Append(@, c),
                                        !.late = IF q.stopping THEN @ \cup {c} ELSE @])}
         : q \in BlkStart(s)}

(* xtc_blocking_run, xtc_blocking_run_off_loop, xtc_blocking_submit *)
BlkCall(c) ==
  /\ st.call[c] = "new"
  /\ st' \in BlkEnqueue(st, c)

(* The caller, woken, sees the result under g_done_lock; the kill that came meanwhile ends
   it only now. *)
BlkReturn(c) ==
  /\ c \notin Detached /\ st.call[c] = "done"
  /\ st' = [st EXCEPT !.call[c] = IF c \in st.killed THEN "died" ELSE "returned"]

BlkKill(c) ==
  /\ c \in Fibers /\ MayKill /\ c \notin st.killed /\ st.call[c] \in {"queued", "running", "done"}
  /\ st' = [st EXCEPT !.killed = @ \cup {c}]

(* blk_worker: the head of the queue, or the end of the thread, or sleep *)
TakeOrSleep(s, w) ==
  IF s.queue = <<>>
    THEN IF s.stopping THEN [s EXCEPT !.idle = @ - 1, !.wpc[w] = "ended"]
         ELSE [s EXCEPT !.wpc[w] = "asleep"]
  ELSE LET c == Head(s.queue)
       IN [s EXCEPT !.idle = @ - 1, !.queue = Tail(@), !.qlen = @ - 1, !.wpc[w] = "running",
                    !.job[w] = c, !.taken = Append(@, c),
                    !.call[c] = IF @ = "queued" THEN "running" ELSE @]

BlkWorker(w) ==
  /\ st.wpc[w] \in {"enter", "awake"}
  /\ st' = IF st.wpc[w] = "enter" THEN TakeOrSleep([st EXCEPT !.idle = @ + 1], w)
           ELSE TakeOrSleep(st, w)

(* The function returns; blk_complete stores the result, marks it done and wakes the
   caller, or the work item of a detached call is freed. *)
BlkComplete(w) ==
  /\ st.wpc[w] = "running"
  /\ st' = [st EXCEPT !.wpc[w] = "enter", !.job[w] = 0, !.ran[st.job[w]] = @ + 1,
                      !.call[st.job[w]] = IF @ = "running" THEN "done" ELSE @]

(* xtc_blocking_shutdown: stop, join everyone who was started, then clear *)
Stop ==
  /\ st.spc = "idle" /\ st.started /\ st.stops < Stops
  /\ st' = [SignalAll(st) EXCEPT !.stopping = TRUE, !.spc = "join", !.stops = @ + 1,
                                 !.joins = Alive(st)]
Joined ==
  /\ st.spc = "join" /\ \A w \in st.joins : st.wpc[w] = "ended"
  /\ st' = [st EXCEPT !.spc = "idle", !.started = FALSE, !.nstarted = 0, !.stopping = FALSE,
                      !.idle = 0, !.qlen = 0, !.joins = {}]

PoolWorks == (\E w \in Workers : BlkWorker(w) \/ BlkComplete(w)) \/ Joined

PoolNext ==
  \/ \E c \in Callers : BlkCall(c) \/ BlkReturn(c) \/ BlkKill(c)
  \/ PoolWorks \/ Stop

(* A call was accepted by a pool that is not shutting down. *)
PoolOwes(c) == c \notin st.late /\ st.call[c] \in {"queued", "running"}
PoolServed(c) == st.call[c] = "done" \/ c \in st.late

(* The accepted calls are taken in order and run once each; the queue's length and the
   number of idle workers, by which the pool grows, are counted right; all this unless a
   call was accepted by a pool that was shutting down, which leaves it to the next start. *)
PoolCounted ==
  st.late = {} =>
    /\ st.qlen = Len(st.queue) /\ IsPrefix(st.taken, st.accepted)
    /\ st.idle = Cardinality({w \in Workers : st.wpc[w] \in {"asleep", "awake"}})
    /\ \A c \in Callers : st.ran[c] <= 1
    /\ (st.spc = "idle" /\ ~st.started) => st.queue = <<>>

(* The work item lives in its caller's frame: the frame is there while the call is queued
   or a worker has it, also when its fiber is killed. *)
FrameKept ==
  \A w \in Workers : st.wpc[w] = "running" /\ st.job[w] \notin Detached => st.call[st.job[w]] = "running"
=============================================================================
