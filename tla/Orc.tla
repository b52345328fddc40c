-------------------------------- MODULE Orc --------------------------------
(***************************************************************************)
(* The small parts of the orc layer, a machine for each: the registry with *)
(* its reaper and the groups over it (orc/reg.c, orc/pg.c), the resource   *)
(* pool (orc/pool.c), credits (orc/credit.c), sagas (orc/saga.c) and       *)
(* streams (orc/stream.c).                                                 *)
(***************************************************************************)
EXTENDS Naturals, Sequences, FiniteSets
LOCAL INSTANCE SequencesExt

CONSTANTS
  Threads,     \* callers
  Names, Pids, \* of the registry
  ReaperCap,   \* messages that the reaper's mailbox takes
  ReaperEnds,  \* the reaper's loop may be torn down
  Cap,         \* resources of the pool; the window of the credits
  Kinds,       \* of the streams stacked on a demand channel, the innermost first
  NSteps,      \* steps of a saga
  MaxItems     \* bound: items of the stream, calls of each thread

VARIABLE st

----------------------------------------------------------------------------
(***************************************************************************)
(* The registry.  st has                                                   *)
(*   nodes, n                  the entries [name, pid, dup, by], r->n      *)
(*   has_reaper, rpc, inbox    the reaper: published, its step, its mail   *)
(*   monitored, alive          pids it monitors; procs that run            *)
(*   pc, arg, calls            of each caller                              *)
(*   todo, buf, got, was       a broadcast: members to send to, the        *)
(*                             caller's buffer, copies received, and the   *)
(*                             members at the time                         *)
(* `by` marks the caller of xtc_reg_register_mon, until it returns, and    *)
(* "mon" once it returned XTC_OK with the reaper asked.                    *)
(***************************************************************************)
RegInit ==
  st = [nodes |-> {}, n |-> 0, has_reaper |-> FALSE, rpc |-> "start", inbox |-> <<>>,
        monitored |-> {}, alive |-> Pids, pc |-> [t \in Threads |-> "idle"],
        arg |-> [t \in Threads |-> [name |-> "", pid |-> 0]], calls |-> [t \in Threads |-> 0],
        todo |-> <<>>, buf |-> "none", got |-> [p \in Pids |-> 0], was |-> {}]

Found(name) == {e \in st.nodes : e.name = name}
NodesOf(name, p) == {e \in Found(name) : e.pid = p}
Insert(s, e) == [s EXCEPT !.nodes = @ \cup {e}, !.n = @ + 1]
Removed(s, es) == [s EXCEPT !.nodes = @ \ es, !.n = @ - Cardinality(es)]
Begins(s, t) == [s EXCEPT !.calls[t] = @ + 1]
MayCall(t) == st.pc[t] = "idle" /\ st.calls[t] < MaxItems

(* xtc_reg_register, and the first part of xtc_reg_register_mon: one holder of a name. *)
Register(t, name, p, mon) ==
  /\ MayCall(t)
  /\ LET s == Begins(st, t)
         e == [name |-> name, pid |-> p, dup |-> FALSE, by |-> IF mon THEN t ELSE "plain"]
     IN  st' = IF Found(name) # {} THEN s
               ELSE IF mon THEN [Insert(s, e) EXCEPT !.pc[t] = "look", !.arg[t] = [name |-> name, pid |-> p]]
               ELSE Insert(s, e)

Settled(s, t, by) ==
  [s EXCEPT !.pc[t] = "idle", !.arg[t] = [name |-> "", pid |-> 0],
            !.nodes = {IF e.by = t THEN [e EXCEPT !.by = by] ELSE e : e \in @}]

(* The rest of xtc_reg_register_mon: without a reaper the name is an ordinary one; ... *)
LookReaper(t) ==
  /\ st.pc[t] = "look"
  /\ st' = IF st.has_reaper THEN [st EXCEPT !.pc[t] = "send"] ELSE Settled(st, t, "plain")

(* ... the request is sent, or is not, ... *)
SendMon(t) ==
  /\ st.pc[t] = "send"
  /\ st' = IF st.rpc # "gone" /\ Len(st.inbox) < ReaperCap
           THEN Settled([st EXCEPT !.inbox = Append(@, [tag |-> "MON", pid |-> st.arg[t].pid])], t, "mon")
           ELSE [st EXCEPT !.pc[t] = "rollback"]

(* ... and then the name is taken back, if it is still this pid's. *)
Rollback(t) ==
  /\ st.pc[t] = "rollback"
  /\ LET es == NodesOf(st.arg[t].name, st.arg[t].pid) IN
     \/ es = {} /\ st' = Settled(st, t, "plain")
     \/ \E e \in es : st' = Settled(Removed(st, {e}), t, "plain")

(* xtc_reg_unregister: the first entry of the name. *)
Unregister(t, name) ==
  /\ MayCall(t)
  /\ \E e \in Found(name) : st' = Removed(Begins(st, t), {e})

(* xtc_reg_register_dup (xtc_pg_join) and xtc_reg_unregister_pid (xtc_pg_leave). *)
Join(t, name, p) ==
  LET e == [name |-> name, pid |-> p, dup |-> TRUE, by |-> "plain"] IN
  /\ MayCall(t)
  /\ st' = IF e \in st.nodes THEN Begins(st, t) ELSE Insert(Begins(st, t), e)

Leave(t, name, p) ==
  /\ MayCall(t)
  /\ \E e \in NodesOf(name, p) : st' = Removed(Begins(st, t), {e})

(* xtc_reg_drop_pid *)
Drop(s, p) == Removed(s, {e \in s.nodes : e.pid = p})

(* pg_send: the members are collected under the lock, ... *)
PgCollect(t, name) ==
  /\ MayCall(t) /\ st.buf = "none" /\ Found(name) # {}
  /\ \E q \in SetToSeqs(Found(name)) :
       st' = [Begins(st, t) EXCEPT !.pc[t] = "pg", !.buf = "caller",
                !.todo = [j \in DOMAIN q |-> q[j].pid], !.was = {e.pid : e \in Found(name)}]

(* ... and sent to without it; the last one is given the buffer itself. *)
PgSend(t) ==
  LET p == Head(st.todo) IN
  /\ st.pc[t] = "pg" /\ st.todo # <<>>
  /\ st' = IF p \in st.alive
           THEN [st EXCEPT !.todo = Tail(@), !.got[p] = @ + 1,
                           !.buf = IF Len(st.todo) = 1 THEN "moved" ELSE @]
           ELSE [st EXCEPT !.todo = Tail(@)]

(* xtc_pg_send_owned frees what nobody took. *)
PgDone(t) ==
  /\ st.pc[t] = "pg" /\ st.todo = <<>>
  /\ st' = [st EXCEPT !.pc[t] = "idle", !.buf = IF @ = "caller" THEN "freed" ELSE @]

(* xtc_reg_reaper: it publishes itself, ... *)
ReaperStarts == st.rpc = "start" /\ st' = [st EXCEPT !.rpc = "recv", !.has_reaper = TRUE]

(* ... monitors the pids it is asked to (one that is gone is DOWN at once), and drops
   those that are DOWN. *)
ReaperRecv ==
  LET m == Head(st.inbox)
      s == [st EXCEPT !.inbox = Tail(@)]
  IN
  /\ st.rpc = "recv" /\ st.inbox # <<>>
  /\ st' = IF m.tag = "DOWN" THEN Drop(s, m.pid)
           ELSE IF m.pid \in st.alive THEN [s EXCEPT !.monitored = @ \cup {m.pid}]
           ELSE [s EXCEPT !.inbox = Append(@, [tag |-> "DOWN", pid |-> m.pid])]

(* The loop is torn down: the reaper unpublishes itself, ... *)
ReaperStops ==
  /\ ReaperEnds /\ st.rpc = "recv"
  /\ st' = [st EXCEPT !.rpc = "unpublish"]
ReaperUnpublishes ==
  /\ st.rpc = "unpublish"
  /\ st' = [st EXCEPT !.rpc = "gone", !.has_reaper = FALSE, !.inbox = <<>>, !.monitored = {}]

(* A proc ends, and its monitor hears of it: a signal is taken by a full mailbox too. *)
ProcEnds(p) ==
  /\ p \in st.alive
  /\ st' = [st EXCEPT !.alive = @ \ {p}, !.monitored = @ \ {p},
              !.inbox = IF p \in st.monitored /\ st.rpc # "gone"
                        THEN Append(@, [tag |-> "DOWN", pid |-> p]) ELSE @]

RegNext ==
  \/ \E t \in Threads :
       \/ \E name \in Names :
            \/ PgCollect(t, name) \/ Unregister(t, name)
            \/ \E p \in Pids :
                 \/ Join(t, name, p) \/ Leave(t, name, p)
                 \/ \E mon \in BOOLEAN : Register(t, name, p, mon)
       \/ LookReaper(t) \/ SendMon(t) \/ Rollback(t) \/ PgSend(t) \/ PgDone(t)
  \/ ReaperStarts \/ ReaperRecv \/ ReaperStops \/ ReaperUnpublishes
  \/ \E p \in Pids : ProcEnds(p)

(* xtc_reg_register_mon: a name whose monitored registration returned XTC_OK and whose
   proc is dead is on its way out, as long as the reaper runs: a request or a DOWN for
   the pid is in its mailbox. *)
DeadIsReaped ==
  st.rpc \in {"start", "recv"} =>
    \A e \in st.nodes :
      e.by = "mon" /\ e.pid \notin st.alive =>
        \E j \in DOMAIN st.inbox : st.inbox[j].pid = e.pid

(* xtc_reg_register: two procs never hold a name, and the count is the number of entries. *)
OneHolder ==
  /\ st.n = Cardinality(st.nodes)
  /\ \A e, f \in st.nodes : e.name = f.name /\ ~e.dup /\ ~f.dup => e = f

(* xtc_pg_send_owned: the buffer is given away or freed, once; a member that lives has a
   copy for each of its entries and nobody else has one. *)
PgExact ==
  /\ \A p \in Pids \ st.was : st.got[p] = 0
  /\ st.buf \in {"moved", "freed"} => \A p \in st.was \cap st.alive : st.got[p] > 0
  /\ st.buf = "freed" => \E p \in st.was : p \notin st.alive

----------------------------------------------------------------------------
(***************************************************************************)
(* The pool.  st has sem (the semaphore, module SyncSem), slots added,     *)
(* free (free_map), n_free and, of each thread, its step and what it holds *)
(***************************************************************************)
PoolInit ==
  st = [sem |-> 0, n_added |-> 0, free |-> {}, n_free |-> 0,
        pc |-> [t \in Threads |-> "idle"], has |-> [t \in Threads |-> 0]]

(* xtc_pool_add: the resource is there before its unit is posted. *)
PoolAdd(t) ==
  /\ st.pc[t] = "idle" /\ st.n_added < Cap
  /\ st' = [st EXCEPT !.n_added = @ + 1, !.free = @ \cup {st.n_added + 1}, !.n_free = @ + 1,
                      !.pc[t] = "post"]

PoolPost(t) == st.pc[t] = "post" /\ st' = [st EXCEPT !.sem = @ + 1, !.pc[t] = "idle"]

(* xtc_pool_checkout: a unit first, then the first free slot. *)
PoolAcquire(t) ==
  /\ st.pc[t] = "idle" /\ st.sem > 0
  /\ st' = [st EXCEPT !.sem = @ - 1, !.pc[t] = "unit"]

PoolTake(t) ==
  /\ st.pc[t] = "unit"
  /\ st' = IF st.free = {} THEN [st EXCEPT !.pc[t] = "held"]
           ELSE LET i == CHOOSE j \in st.free : \A k \in st.free : j <= k IN
                [st EXCEPT !.pc[t] = "held", !.has[t] = i, !.free = @ \ {i}, !.n_free = @ - 1]

(* xtc_pool_checkin *)
PoolCheckin(t) ==
  /\ st.pc[t] = "held"
  /\ st' = [st EXCEPT !.free = @ \cup {st.has[t]}, !.n_free = @ + 1, !.has[t] = 0, !.pc[t] = "post"]

PoolNext ==
  \E t \in Threads : PoolAdd(t) \/ PoolPost(t) \/ PoolAcquire(t) \/ PoolTake(t) \/ PoolCheckin(t)

(* xtc_pool_checkout: whoever has a unit finds a slot, whatever the order in which
   resources are given back and added; nothing is held twice. *)
PoolExact ==
  /\ \A t \in Threads : st.pc[t] = "held" => st.has[t] \in 1 .. st.n_added
  /\ \A t, u \in Threads : t # u /\ st.has[t] # 0 => st.has[t] # st.has[u]
  /\ st.n_free = Cardinality(st.free)
  /\ st.n_free = st.sem + Cardinality({t \in Threads : st.pc[t] \in {"unit", "post"}})

----------------------------------------------------------------------------
(* Credits.  st has sem, in_flight, peak and the step of each thread. *)
CreditInit == st = [sem |-> Cap, in_flight |-> 0, peak |-> 0, pc |-> [t \in Threads |-> "idle"]]

(* xtc_credit_acquire: the unit, then the counters. *)
CreditAcquire(t) ==
  /\ st.pc[t] = "idle" /\ st.sem > 0
  /\ st' = [st EXCEPT !.sem = @ - 1, !.pc[t] = "took"]

CreditTook(t) ==
  LET n == st.in_flight + 1 IN
  /\ st.pc[t] = "took"
  /\ st' = [st EXCEPT !.in_flight = n, !.peak = IF n > @ THEN n ELSE @, !.pc[t] = "using"]

(* xtc_credit_release: the counters, then the unit; refused when nothing is in flight. *)
CreditRelease(t) ==
  /\ st.pc[t] = "using"
  /\ st' = IF st.in_flight = 0 THEN st
           ELSE [st EXCEPT !.in_flight = @ - 1, !.pc[t] = "post"]

CreditPost(t) == st.pc[t] = "post" /\ st' = [st EXCEPT !.sem = @ + 1, !.pc[t] = "idle"]

CreditNext == \E t \in Threads : CreditAcquire(t) \/ CreditTook(t) \/ CreditRelease(t) \/ CreditPost(t)

(* No more than the window is in flight, a release of what was acquired is never refused,
   and no credit is lost or made. *)
CreditExact ==
  /\ st.in_flight = Cardinality({t \in Threads : st.pc[t] = "using"})
  /\ st.sem + Cardinality({t \in Threads : st.pc[t] # "idle"}) = Cap
  /\ st.in_flight <= st.peak /\ st.peak <= Cap

----------------------------------------------------------------------------
(***************************************************************************)
(* Sagas.  st has has (the steps that have a compensation), started, i     *)
(* (the step in hand), pc, n_completed, failed_step (0 for none),          *)
(* compensate_failed, rc and, as history, the actions done and undone.     *)
(***************************************************************************)
SagaInit ==
  st \in [has : SUBSET (1 .. NSteps), started : {FALSE}, pc : {"build"}, i : {1}, n_steps : {0},
          n_completed : {0}, failed_step : {0}, compensate_failed : {FALSE}, rc : {"none"},
          did : {<<>>}, undone : {<<>>}]

(* xtc_saga_step, refused once the saga runs. *)
SagaStep == st.pc = "build" /\ st.n_steps < NSteps /\ st' = [st EXCEPT !.n_steps = @ + 1]

(* xtc_saga_run: forward, ... *)
SagaRun == st.pc = "build" /\ st' = [st EXCEPT !.started = TRUE, !.pc = "forward"]

SagaForward(ok) ==
  /\ st.pc = "forward"
  /\ st' = IF st.i > st.n_steps THEN [st EXCEPT !.pc = "done", !.rc = "OK"]
           ELSE IF ok THEN [st EXCEPT !.i = @ + 1, !.n_completed = @ + 1, !.did = Append(@, st.i)]
           ELSE [st EXCEPT !.failed_step = st.i, !.pc = "back", !.i = @ - 1]

(* ... and after a failure back, past compensations that fail. *)
SagaBack(ok) ==
  /\ st.pc = "back"
  /\ st' = IF st.i = 0
           THEN [st EXCEPT !.pc = "done", !.rc = IF st.compensate_failed THEN "INTERNAL" ELSE "FAILED"]
           ELSE IF st.i \notin st.has THEN [st EXCEPT !.i = @ - 1]
           ELSE [st EXCEPT !.i = @ - 1, !.undone = Append(@, st.i),
                           !.compensate_failed = @ \/ ~ok]

SagaNext == SagaStep \/ SagaRun \/ \E ok \in BOOLEAN : SagaForward(ok) \/ SagaBack(ok)

(* A saga that failed has undone, newest first, all that it had done and could undo. *)
SagaUndone ==
  st.pc = "done" =>
    /\ Len(st.did) = st.n_completed
    /\ st.rc = "OK" => Len(st.did) = st.n_steps /\ st.undone = <<>>
    /\ st.rc # "OK" =>
         st.undone = Reverse(SelectSeq(st.did, LAMBDA j : j \in st.has))

----------------------------------------------------------------------------
(***************************************************************************)
(* Streams.  The innermost is a demand channel (module ChanDemand): st has *)
(* its demand, queue, whether it is closed, and what was sent; the items   *)
(* that for_each consumed, and its step.  An item is a number; a filter    *)
(* keeps the odd ones, a map adds one.                                     *)
(***************************************************************************)
StreamInit ==
  st = [demand |-> 0, q |-> <<>>, closed |-> FALSE, nsent |-> 0, pulled |-> <<>>,
        out |-> <<>>, pc |-> "next"]

(* The producer: an item for each unit of demand. *)
StreamSend ==
  /\ ~st.closed /\ st.demand > 0 /\ st.nsent < MaxItems
  /\ st' = [st EXCEPT !.demand = @ - 1, !.nsent = @ + 1, !.q = Append(@, st.nsent + 1)]
StreamClose == ~st.closed /\ st' = [st EXCEPT !.closed = TRUE]

(* What an item is after the stages above the channel; <<>> if a filter rejects it. *)
Stage(v, kind) ==
  IF v = <<>> THEN <<>>
  ELSE CASE kind = "MAP" -> <<v[1] + 1>>
         [] kind = "FILTER" -> IF v[1] % 2 = 1 THEN v ELSE <<>>
Through(v) == FoldLeft(Stage, <<v>>, Kinds)

(* xtc_stream_next, down to the channel: one unit of demand, one try.  An item that a
   filter rejects makes it pull the next; for_each yields and tries again. *)
StreamPull ==
  /\ st.pc = "next" /\ (st.demand < MaxItems \/ st.closed)
  /\ LET s == [st EXCEPT !.demand = IF st.closed THEN @ ELSE @ + 1] IN
     st' = IF st.q # <<>>
           THEN [s EXCEPT !.q = Tail(@), !.pulled = Append(@, Head(st.q)), !.out = @ \o Through(Head(st.q))]
           ELSE IF st.closed THEN [s EXCEPT !.pc = "end"]
           ELSE s

(* The consumer's function stops the walk. *)
StreamStops == st.pc = "next" /\ st.out # <<>> /\ st' = [st EXCEPT !.pc = "stopped"]

StreamNext == StreamSend \/ StreamClose \/ StreamPull \/ StreamStops

(* xtc_stream_for_each: what is consumed is what was sent, in order, through the stages;
   the end is reported when all that was sent has been consumed. *)
StreamExact ==
  /\ st.pulled \o st.q = [j \in 1 .. st.nsent |-> j]
  /\ st.out = FlattenSeq([j \in DOMAIN st.pulled |-> Through(st.pulled[j])])
  /\ st.pc = "end" => st.closed /\ Len(st.pulled) = st.nsent
=============================================================================
