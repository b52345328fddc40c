----------------------------- MODULE ProcTable -----------------------------
(***************************************************************************)
(* How ptc/proc.c finds a proc by its pid while loops come and go: the     *)
(* registry of loops, read without a lock under a sequence number, and the *)
(* slot tables, whose generations start again when the table of a loop     *)
(* that is gone serves a new one.  A pid is <<loop id, slot, generation>>. *)
(* Loops are numbered in the order in which they are created, and so are   *)
(* procs; all loop ids hash to the same place.                             *)
(*                                                                         *)
(* And what a proc in its slot unwinds (M): cancellation masks, scopes,    *)
(* brackets, the recovery registry and the at-exit hooks, for one proc and *)
(* a thread that kills it.  The proc runs any properly nested program of   *)
(* at most MaxDepth regions and MaxIds resources, each with a cleanup: a   *)
(* record of the registry, a scope's finalizer, a bracket's release, or an *)
(* at-exit hook.  Any point of it, cleanups included, may be one where     *)
(* kills are delivered.                                                    *)
(***************************************************************************)
EXTENDS Naturals, Sequences, FiniteSets
LOCAL INSTANCE SequencesExt

CONSTANTS
  Readers,    \* threads that resolve a pid
  NTables,    \* bound: tables ever allocated
  MaxLoops,   \* bound: loops ever created
  MaxProcs,   \* bound: procs ever spawned
  MaxResolves, \* bound: resolves of a reader
  Killers,    \* M: threads that call xtc_exit_pid_deadline
  MaxDepth,   \* M: bound: nested regions
  MaxIds,     \* M: bound: resources
  MaxScopes   \* M: bound: scopes

Loops == 1 .. MaxLoops
Tables == 1 .. NTables
Places == 1 .. MaxLoops
Empty == [id |-> 0, tbl |-> 0]

(* st has the fields
     lt, ih, seq, lt_tbl_free   the registry: array of [id, tbl], hash by id, sequence number,
                                and the retired tables
     slots, free                per table: the slots [proc, gen] in use so far, the free list
     phase                      per loop: "new", "adding", "up", "removing", "draining", "gone"
     wpc, todo                  the thread that holds __lt_lock, and the entries it has to put
     dtbl, drain                per loop: the table it had, the procs still to be let go
     pid, refs, owned           per proc: its pid, its reference count, and whether the
                                owner's reference stands
     frees                      history, per proc: how often it was freed
     rpc, ask, rseq, at, tbl, has, left    per reader: step, pid asked for, sequence number
                                read, hash place, table and proc found, resolves left
     steady                     history: the loop asked for was up since the resolve began *)
VARIABLE st

Init ==
  LET all(x) == [r \in Readers |-> x]
  IN st = [lt |-> <<>>, ih |-> [h \in Places |-> Empty], seq |-> 0,
           lt_tbl_free |-> [t \in Tables |-> t],
           slots |-> [t \in Tables |-> <<>>], free |-> [t \in Tables |-> <<>>],
           phase |-> [l \in Loops |-> "new"], wpc |-> "idle", todo |-> <<>>,
           dtbl |-> [l \in Loops |-> 0], drain |-> [l \in Loops |-> {}],
           pid |-> <<>>, refs |-> <<>>, owned |-> {}, frees |-> <<>>,
           rpc |-> all("idle"), ask |-> all(<<0, 0, 0>>), rseq |-> all(0), at |-> all(0),
           tbl |-> all(0), has |-> all(0), left |-> all(MaxResolves), steady |-> all(FALSE)]

Procs == 1 .. Len(st.pid)
EntryOf(l) == CHOOSE i \in 1 .. Len(st.lt) : st.lt[i].id = l
TableOf(l) == st.lt[EntryOf(l)].tbl

(* __proc_release: whoever takes the count from 1 to 0 frees. *)
Release(s, p) ==
  [s EXCEPT !.refs[p] = @ - 1, !.frees[p] = IF s.refs[p] = 1 THEN @ + 1 ELSE @]

----------------------------------------------------------------------------
(* __table_get of a new loop, under __lt_lock: a retired table, or a new one, ... *)
Register(l) ==
  /\ st.wpc = "idle" /\ st.phase[l] = "new" /\ (l > 1 => st.phase[l - 1] # "new")
  /\ st.lt_tbl_free # <<>>
  /\ LET e == [id |-> l, tbl |-> Head(st.lt_tbl_free)]
     IN st' = [st EXCEPT !.lt_tbl_free = Tail(@), !.seq = @ + 1, !.lt = Append(@, e),
                         !.todo = <<e>>, !.phase[l] = "adding", !.wpc = "put"]

(* __xtc_proc_loop_unregister: the last entry takes the place of the loop's, ... *)
Unregister(l) ==
  /\ st.wpc = "idle" /\ st.phase[l] = "up"
  /\ LET lt == Front([st.lt EXCEPT ![EntryOf(l)] = Last(st.lt)])
     IN st' = [st EXCEPT !.seq = @ + 1, !.lt = lt, !.todo = lt, !.dtbl[l] = TableOf(l),
                         !.phase[l] = "removing", !.wpc = "clear",
                         !.steady = [r \in Readers |-> @[r] /\ st.ask[r][1] # l]]

(* ... the hash is cleared, ... *)
Clear ==
  /\ st.wpc = "clear"
  /\ st' = [st EXCEPT !.ih = [h \in Places |-> Empty], !.wpc = "put"]

(* ... and __lt_id_put enters the loops, each at the first free place. *)
Put ==
  /\ st.wpc = "put" /\ st.todo # <<>>
  /\ LET h == CHOOSE h \in Places : st.ih[h] = Empty /\ \A g \in 1 .. h - 1 : st.ih[g] # Empty
     IN st' = [st EXCEPT !.ih[h] = Head(st.todo), !.todo = Tail(@)]

(* __lt_write_end, and __lt_lock is released. *)
WriteEnd ==
  /\ st.wpc = "put" /\ st.todo = <<>>
  /\ st' = [st EXCEPT !.seq = @ + 1, !.wpc = "idle",
                      !.phase = [l \in Loops |-> CASE @[l] = "adding" -> "up"
                                                   [] @[l] = "removing" -> "draining"
                                                   [] OTHER -> @[l]]]

(* The slots are taken under all stripes, ... *)
TakeSlots(l) ==
  /\ st.phase[l] = "draining"
  /\ LET t == st.dtbl[l]
     IN st' = [st EXCEPT !.slots[t] = <<>>, !.free[t] = <<>>, !.phase[l] = "letting go",
                         !.drain[l] = {st.slots[t][i].proc : i \in 1 .. Len(st.slots[t])} \ {0}]

(* ... the owner's reference to every proc in them is dropped, ... *)
LetGo(l, p) ==
  /\ st.phase[l] = "letting go" /\ p \in st.drain[l]
  /\ st' = Release([st EXCEPT !.drain[l] = @ \ {p}, !.owned = @ \ {p}], p)

(* ... and the table is retired, for another loop. *)
Retire(l) ==
  /\ st.phase[l] = "letting go" /\ st.drain[l] = {}
  /\ st' = [st EXCEPT !.phase[l] = "gone", !.lt_tbl_free = <<st.dtbl[l]>> \o @]

----------------------------------------------------------------------------
(* __proc_spawn_core, __table_alloc_slot: a freed slot or the next new one. *)
Spawn(l) ==
  /\ st.phase[l] = "up" /\ Len(st.pid) < MaxProcs
  /\ LET t == TableOf(l)
         p == Len(st.pid) + 1
         i == IF st.free[t] = <<>> THEN Len(st.slots[t]) + 1 ELSE Head(st.free[t])
         g == IF st.free[t] = <<>> THEN 1 ELSE st.slots[t][i].gen + 1
         slot == [proc |-> p, gen |-> g]
     IN st' = [st EXCEPT !.free[t] = IF @ = <<>> THEN @ ELSE Tail(@),
                         !.slots[t] = IF i > Len(@) THEN Append(@, slot) ELSE [@ EXCEPT ![i] = slot],
                         !.pid = Append(@, <<l, i, g>>), !.refs = Append(@, 1),
                         !.frees = Append(@, 0), !.owned = @ \union {p}]

InSlot(p) == LET t == TableOf(st.pid[p][1])
             IN st.pid[p][2] <= Len(st.slots[t]) /\ st.slots[t][st.pid[p][2]].proc = p

(* __notify_links_and_monitors: __table_vacate_locked under the stripe; ... *)
Vacate(p) ==
  /\ st.phase[st.pid[p][1]] = "up" /\ InSlot(p)
  /\ LET t == TableOf(st.pid[p][1])
         i == st.pid[p][2]
     IN st' = [st EXCEPT !.slots[t][i].proc = 0, !.free[t] = <<i>> \o @]

(* ... later the owner's reference is dropped. *)
OwnerReleases(p) ==
  /\ p \in st.owned /\ st.phase[st.pid[p][1]] = "up" /\ ~InSlot(p)
  /\ st' = Release([st EXCEPT !.owned = @ \ {p}], p)

----------------------------------------------------------------------------
(* __resolve of a pid once issued: __lt_find_id waits for an even sequence number, ... *)
Resolve(r, p) ==
  /\ st.rpc[r] = "idle" /\ st.left[r] > 0
  /\ st' = [st EXCEPT !.rpc[r] = "seq", !.ask[r] = st.pid[p], !.left[r] = @ - 1,
                      !.steady[r] = st.phase[st.pid[p][1]] = "up"]

ReadSeq(r) ==
  /\ st.rpc[r] = "seq" /\ st.seq % 2 = 0
  /\ st' = [st EXCEPT !.rpc[r] = "probe", !.rseq[r] = st.seq, !.at[r] = 1, !.tbl[r] = 0]

(* ... walks the places up to an empty one or the id, ... *)
Probe(r) ==
  /\ st.rpc[r] = "probe"
  /\ st' = IF st.at[r] > MaxLoops \/ st.ih[st.at[r]] = Empty
           THEN [st EXCEPT !.rpc[r] = "check"]
           ELSE IF st.ih[st.at[r]].id = st.ask[r][1] THEN [st EXCEPT !.rpc[r] = "table"]
           ELSE [st EXCEPT !.at[r] = @ + 1]

(* ... reads the table there, ... *)
ReadTable(r) ==
  /\ st.rpc[r] = "table"
  /\ st' = [st EXCEPT !.rpc[r] = "check", !.tbl[r] = st.ih[st.at[r]].tbl]

(* ... and starts again if there was a writer. *)
Check(r) ==
  /\ st.rpc[r] = "check"
  /\ st' = [st EXCEPT !.rpc[r] = IF st.seq = st.rseq[r] THEN "found" ELSE "seq"]

(* A mutant: the reference is taken after the stripe was let go. *)
LookupLate(r) ==
  LET t == st.tbl[r]
      hit == /\ t # 0 /\ st.ask[r][2] <= Len(st.slots[t])
             /\ LET s == st.slots[t][st.ask[r][2]] IN s.proc # 0 /\ s.gen = st.ask[r][3]
      p == st.slots[t][st.ask[r][2]].proc
  IN \/ /\ st.rpc[r] = "found"
        /\ st' = IF hit THEN [st EXCEPT !.rpc[r] = "ref", !.at[r] = p]
                 ELSE [st EXCEPT !.rpc[r] = "idle"]
     \/ /\ st.rpc[r] = "ref"
        /\ st' = [st EXCEPT !.rpc[r] = "compare", !.has[r] = st.at[r], !.refs[st.at[r]] = @ + 1]

(* __table_lookup: under the stripe a proc of that generation is taken a reference to. *)
Lookup(r) ==
  /\ st.rpc[r] = "found"
  /\ LET t == st.tbl[r]
         hit == /\ t # 0 /\ st.ask[r][2] <= Len(st.slots[t])
                /\ LET s == st.slots[t][st.ask[r][2]] IN s.proc # 0 /\ s.gen = st.ask[r][3]
         p == st.slots[t][st.ask[r][2]].proc
     IN st' = IF hit THEN [st EXCEPT !.rpc[r] = "compare", !.has[r] = p, !.refs[p] = @ + 1]
              ELSE [st EXCEPT !.rpc[r] = "idle"]

Drop(r) == Release([st EXCEPT !.rpc[r] = "idle", !.has[r] = 0], st.has[r])

(* A mutant: slot and generation are thought to identify the proc. *)
CompareNot(r) ==
  /\ st.rpc[r] = "compare"
  /\ st' = [st EXCEPT !.rpc[r] = "held"]

(* A table may have changed hands since it was found: the proc must have the pid. *)
Compare(r) ==
  /\ st.rpc[r] = "compare"
  /\ st' = IF st.pid[st.has[r]] = st.ask[r] THEN [st EXCEPT !.rpc[r] = "held"] ELSE Drop(r)

(* The caller is done with the proc. *)
Done(r) ==
  /\ st.rpc[r] = "held"
  /\ st' = Drop(r)

Next ==
  \/ \E l \in Loops : Register(l) \/ Unregister(l) \/ TakeSlots(l) \/ Retire(l) \/ Spawn(l)
  \/ \E l \in Loops, p \in Procs : LetGo(l, p)
  \/ Clear \/ Put \/ WriteEnd
  \/ \E p \in Procs : Vacate(p) \/ OwnerReleases(p)
  \/ \E r \in Readers : \/ \E p \in Procs : Resolve(r, p)
                        \/ ReadSeq(r) \/ Probe(r) \/ ReadTable(r) \/ Check(r) \/ Lookup(r)
                        \/ Compare(r) \/ Done(r)

----------------------------------------------------------------------------
(* Properties *)

TypeOK ==
  /\ st.wpc = "idle" <=> st.seq % 2 = 0
  /\ st.owned \subseteq Procs /\ Len(st.refs) = Len(st.pid)
  /\ \A r \in Readers : st.has[r] \in Procs \union {0} /\ st.tbl[r] \in Tables \union {0}

(* The lock-free walk finds the loop's own table if the loop was registered all the
   while, however many loops come and go beside it. *)
LoopFound ==
  \A r \in Readers : st.rpc[r] = "found" /\ st.steady[r] => st.tbl[r] = TableOf(st.ask[r][1])

(* A resolve only ever returns the proc that was given this pid, also when the table
   it found has been retired and serves another loop. *)
PidExact == \A r \in Readers : st.rpc[r] = "held" => st.pid[st.has[r]] = st.ask[r]

(* A proc is freed once, when its count first reaches 0, and the count never rises from 0
   again; a proc in a slot, where a resolve may find it, has its owner's reference still,
   and a resolve that has found one keeps it from being freed. *)
RefsExact ==
  /\ \A p \in Procs : st.frees[p] = IF st.refs[p] = 0 THEN 1 ELSE 0
  /\ \A t \in Tables : \A i \in 1 .. Len(st.slots[t]) :
       st.slots[t][i].proc # 0 => st.slots[t][i].proc \in st.owned /\ st.refs[st.slots[t][i].proc] > 0
  /\ \A r \in Readers : st.has[r] # 0 => st.refs[st.has[r]] > 0

----------------------------------------------------------------------------
Scopes == 1 .. MaxScopes

(* For M, st has the fields
     kill_pending, mask_depth, mask_deferred, recovery_armed, alive     struct xtc_proc
     recov       the registry: [s |-> scope or 0, id |-> resource]
     at_exit     the hooks
     fin, closing, open     per scope: its finalizers, its flag, whether it exists
     pc          "body", "fault" (the frame of __proc_entry walks the registry), "exit", "gone"
     stack       the regions the proc is in: [k |-> kind, s |-> scope, d |-> depth saved,
                 id |-> the cleanup it runs, or the resource it has acquired]
     nid         resources so far
     begun, cut  history: cleanups begun, in order; the ones a kill cut short
     lost, stuck history: resources of an acquire that faulted; masks of the regions that a
                 caught fault jumped out of
     kpc, status the killers *)
MInit ==
  st = [kill_pending |-> FALSE, mask_depth |-> 0, mask_deferred |-> FALSE,
        recovery_armed |-> TRUE, alive |-> TRUE, recov |-> <<>>, at_exit |-> <<>>,
        fin |-> [s \in Scopes |-> <<>>], closing |-> [s \in Scopes |-> FALSE],
        open |-> [s \in Scopes |-> "no"], pc |-> "body", stack |-> <<>>, nid |-> 0,
        begun |-> <<>>, cut |-> {}, lost |-> {}, stuck |-> 0, kpc |-> [k \in Killers |-> "idle"],
        status |-> [k \in Killers |-> "none"]]

Frame(k, s, d, id) == [k |-> k, s |-> s, d |-> d, id |-> id]
Top == IF st.stack = <<>> THEN Frame("base", 0, 0, 0) ELSE Last(st.stack)
Push(s, f) == [s EXCEPT !.stack = Append(@, f)]
Pop(s) == [s EXCEPT !.stack = Front(@)]
SetTop(s, f) == [s EXCEPT !.stack = Append(Front(@), f)]
Dec(n) == IF n = 0 THEN 0 ELSE n - 1

(* Running code of the program: the body or a region in it, not the cleanups of a walk. *)
InBody == st.pc = "body" /\ Top.k \in {"base", "mask", "poll", "use"}
Room == Len(st.stack) < MaxDepth
More == st.nid < MaxIds

(* __proc_entry from proc_exit on, and the start of __run_proc_at_exit: the kill is
   taken back and the mask raised for good before the registry is walked. *)
Exit(s) ==
  [s EXCEPT !.pc = "exit", !.alive = FALSE, !.recovery_armed = FALSE, !.kill_pending = FALSE,
            !.mask_deferred = FALSE, !.mask_depth = @ + 1, !.stack = <<Frame("walk", 0, 0, 0)>>]

(* xtc_exit_self, called for a kill: whatever cleanup is running does not come back. *)
Unwind(s) ==
  LET running == {f \in Range(st.stack) : f.k \in {"walk", "fin", "hooks"} /\ f.id # 0}
  IN Exit([s EXCEPT !.cut = @ \union {f.id : f \in running}])

(* __mask_drain *)
Drain(s) == IF s.mask_depth = 0 /\ s.mask_deferred THEN Unwind(s) ELSE s

Unmask(s) == Drain([s EXCEPT !.mask_depth = Dec(@)])

----------------------------------------------------------------------------
(* xtc_proc_recovery_track*, xtc_proc_at_exit *)
Track ==
  /\ InBody /\ More
  /\ st' = [st EXCEPT !.nid = @ + 1, !.recov = Append(@, [s |-> 0, id |-> st.nid + 1])]

AtExit ==
  /\ InBody /\ More
  /\ st' = [st EXCEPT !.nid = @ + 1, !.at_exit = Append(@, st.nid + 1)]

OpenScope(q, s) ==
  [q EXCEPT !.open[s] = "open", !.recov = Append(@, [s |-> s, id |-> 0])]

(* xtc_scope_open, xtc_scope_defer *)
ScopeOpen(s) ==
  /\ InBody /\ st.open[s] = "no"
  /\ st' = OpenScope(st, s)

Defer(s) ==
  /\ InBody /\ More /\ st.open[s] = "open"
  /\ st' = [st EXCEPT !.nid = @ + 1, !.fin[s] = Append(@, st.nid + 1)]

Close(q, s) ==
  Push([q EXCEPT !.open[s] = "closed", !.closing[s] = TRUE, !.mask_depth = @ + 1],
       Frame("fin", s, 0, 0))

(* xtc_scope_close of a scope no bracket uses. *)
ScopeClose(s) ==
  /\ InBody /\ st.open[s] = "open" /\ \A f \in Range(st.stack) : f.s # s
  /\ st' = Close(st, s)

(* __scope_run: the next finalizer is popped, then run; ... *)
FinNext ==
  /\ Top.k = "fin" /\ Top.id = 0 /\ st.fin[Top.s] # <<>>
  /\ LET id == Last(st.fin[Top.s])
     IN st' = SetTop([st EXCEPT !.fin[Top.s] = Front(@), !.begun = Append(@, id)],
                     Frame("fin", Top.s, 0, id))

(* ... it returns; ... *)
CleanupReturns ==
  /\ Top.k \in {"fin", "walk", "hooks"} /\ Top.id # 0
  /\ st' = SetTop(st, [Top EXCEPT !.id = 0])

(* ... after the last one __scope_drop_marker takes the scope off the registry, the
   mask is lowered, and a latched kill strikes. *)
FinEnd ==
  /\ Top.k = "fin" /\ Top.id = 0 /\ st.fin[Top.s] = <<>>
  /\ st' = Unmask(Pop([st EXCEPT !.recov = SelectSeq(@, LAMBDA r : r.s # Top.s)]))

----------------------------------------------------------------------------
(* xtc_mask_enter, or the start of xtc_uncancelable, and its end *)
MaskEnter ==
  /\ InBody /\ Room
  /\ st' = Push([st EXCEPT !.mask_depth = @ + 1], Frame("mask", 0, 0, 0))

MaskLeave ==
  /\ st.pc = "body" /\ Top.k = "mask"
  /\ st' = Unmask(Pop(st))

(* xtc_cancel_poll in a masked region: no mask, and a latched kill strikes first. *)
PollEnter ==
  /\ InBody /\ Room /\ st.mask_depth > 0
  /\ st' = Drain(Push([st EXCEPT !.mask_depth = 0], Frame("poll", 0, st.mask_depth, 0)))

PollLeave ==
  /\ st.pc = "body" /\ Top.k = "poll"
  /\ st' = Pop([st EXCEPT !.mask_depth = Top.d])

(* xtc_bracket: acquire runs masked, ... *)
Bracket ==
  /\ InBody /\ Room /\ More
  /\ st' = Push([st EXCEPT !.mask_depth = @ + 1], Frame("acquire", 0, 0, 0))

(* ... takes the resource or fails, ... *)
Acquire ==
  /\ st.pc = "body" /\ Top.k = "acquire" /\ Top.id = 0
  /\ st' = SetTop([st EXCEPT !.nid = @ + 1], [Top EXCEPT !.id = st.nid + 1])

AcquireFails ==
  /\ st.pc = "body" /\ Top.k = "acquire" /\ Top.id = 0
  /\ st' = Unmask(Pop(st))

(* ... the release is deferred in a scope of its own before the mask is lowered; ... *)
Acquired(s) ==
  /\ st.pc = "body" /\ Top.k = "acquire" /\ Top.id # 0 /\ st.open[s] = "no"
  /\ LET q == OpenScope(st, s)
     IN st' = Unmask(SetTop([q EXCEPT !.fin[s] = <<Top.id>>], Frame("use", s, 0, 0)))

(* ... without room for the scope the resource is released and the bracket fails. *)
AcquiredFull ==
  /\ st.pc = "body" /\ Top.k = "acquire" /\ Top.id # 0
  /\ st' = Unmask(Pop([st EXCEPT !.begun = Append(@, Top.id)]))

(* The end of use closes the scope. *)
UseEnd ==
  /\ st.pc = "body" /\ Top.k = "use"
  /\ st' = Close(Pop(st), Top.s)

----------------------------------------------------------------------------
(* __recov_release_all: the next record is popped, then run; ... *)
WalkNext ==
  /\ Top.k = "walk" /\ Top.id = 0 /\ Top.s = 0 /\ st.recov # <<>>
  /\ LET r == Last(st.recov)
         q == [st EXCEPT !.recov = Front(@)]
     IN st' = IF r.s = 0
              THEN SetTop([q EXCEPT !.begun = Append(@, r.id)], Frame("walk", 0, 0, r.id))
              ELSE SetTop([q EXCEPT !.open[r.s] = "closed",
                                    !.mask_depth = IF st.closing[r.s] THEN Dec(@) ELSE @],
                          Frame("walk", r.s, 0, 0))

(* ... for a scope it gives back the mask of a close that did not end
   (__scope_recover_cb), and runs the finalizers that are left. *)
WalkScope ==
  /\ Top.k = "walk" /\ Top.id = 0 /\ Top.s # 0
  /\ LET f == st.fin[Top.s]
     IN st' = IF f = <<>> THEN SetTop(st, Frame("walk", 0, 0, 0))
              ELSE SetTop([st EXCEPT !.fin[Top.s] = Front(@), !.begun = Append(@, Last(f))],
                          Frame("walk", Top.s, 0, Last(f)))

(* The walk is over: of the frame in __proc_entry, which exits; of the exit, which runs
   the hooks; of xtc_proc_recovery_cleanup, which lowers the mask and carries on. *)
WalkEnd ==
  /\ Top.k = "walk" /\ Top.id = 0 /\ Top.s = 0 /\ st.recov = <<>>
  /\ st' = CASE st.pc = "fault" -> Exit(st)
             [] st.pc = "exit" -> SetTop(st, Frame("hooks", 0, Len(st.at_exit), 0))
             [] st.pc = "body" -> Pop([st EXCEPT !.mask_depth = Dec(@)])

(* The hooks run last to first; the list is emptied after the last of them. *)
HookNext ==
  /\ Top.k = "hooks" /\ Top.id = 0
  /\ st' = IF Top.d = 0 THEN [st EXCEPT !.at_exit = <<>>, !.stack = <<>>, !.pc = "gone"]
           ELSE SetTop([st EXCEPT !.begun = Append(@, st.at_exit[Top.d])],
                       Frame("hooks", 0, Top.d - 1, st.at_exit[Top.d]))

----------------------------------------------------------------------------
(* __xtc_proc_kill_deliver, at a yield or receive of any code of the proc *)
Deliver ==
  /\ st.kill_pending /\ st.pc # "gone"
  /\ st' = IF st.mask_depth > 0 THEN [st EXCEPT !.mask_deferred = TRUE] ELSE Unwind(st)

(* The body returns, or calls xtc_exit_self. *)
Return ==
  /\ InBody
  /\ st' = Exit(st)

(* The regions of these kinds whose mask is in effect: those since the last poll. *)
Levels(kinds) ==
  {i \in 1 .. Len(st.stack) : st.stack[i].k \in kinds
                               /\ \A j \in i + 1 .. Len(st.stack) : st.stack[j].k # "poll"}

(* __xtc_fault_handler: the regions are jumped out of, without lowering their masks, and
   what an acquire has taken and not yet registered is forgotten. *)
Jumped ==
  [st EXCEPT !.recovery_armed = FALSE, !.mask_depth = @ + 1,
             !.lost = @ \union ({f.id : f \in {g \in Range(st.stack) : g.k = "acquire"}} \ {0}),
             !.stack = <<Frame("walk", 0, 0, 0)>>]

(* A fault in the body or in a finalizer of a close: the frame armed by __proc_entry walks
   the registry, masked, and the proc exits; ... *)
Fault ==
  /\ st.pc = "body" /\ st.recovery_armed
  /\ st' = [Jumped EXCEPT !.pc = "fault"]

(* ... a frame the body armed at its start calls xtc_proc_recovery_cleanup and carries on. *)
FaultCaught ==
  /\ st.pc = "body" /\ st.recovery_armed
  /\ st' = [Jumped EXCEPT !.stuck = Cardinality(Levels({"mask", "acquire"}))]

----------------------------------------------------------------------------
(* __exit_pid_deadline_on: the proc is alive, and is marked; ... *)
KillCheck(k) ==
  /\ st.kpc[k] = "idle"
  /\ st' = IF st.alive THEN [st EXCEPT !.kpc[k] = "mark"]
           ELSE [st EXCEPT !.kpc[k] = "done", !.status[k] = "delivered"]

KillMark(k) ==
  /\ st.kpc[k] = "mark"
  /\ st' = [st EXCEPT !.kpc[k] = "poll", !.kill_pending = TRUE]

(* ... until the deadline the outcome is looked for. *)
KillPoll(k) ==
  /\ st.kpc[k] = "poll"
  /\ \/ ~st.alive /\ st' = [st EXCEPT !.kpc[k] = "done", !.status[k] = "delivered"]
     \/ /\ st.alive /\ st.mask_depth > 0 /\ st.mask_deferred
        /\ st' = [st EXCEPT !.kpc[k] = "done", !.status[k] = "deferred"]
     \/ /\ st.alive /\ ~(st.mask_depth > 0 /\ st.mask_deferred)
        /\ st' = [st EXCEPT !.kpc[k] = "done", !.status[k] = "timeout"]

Runs == FinNext \/ CleanupReturns \/ FinEnd \/ WalkNext \/ WalkScope \/ WalkEnd \/ HookNext

MNext ==
  \/ Track \/ AtExit \/ MaskEnter \/ MaskLeave \/ PollEnter \/ PollLeave
  \/ Bracket \/ Acquire \/ AcquireFails \/ AcquiredFull \/ UseEnd
  \/ \E s \in Scopes : ScopeOpen(s) \/ Defer(s) \/ ScopeClose(s) \/ Acquired(s)
  \/ Runs \/ Deliver \/ Return \/ Fault \/ FaultCaught
  \/ \E k \in Killers : KillCheck(k) \/ KillMark(k) \/ KillPoll(k)

----------------------------------------------------------------------------
(* Properties *)

MTypeOK ==
  /\ st.mask_depth \in 0 .. 2 * MaxDepth + 3 /\ st.nid \in 0 .. MaxIds
  /\ Len(st.stack) <= MaxDepth + 1
  /\ st.pc # "body" => ~st.recovery_armed

(* Whatever ends the proc - a return, a kill at any point, a fault - no cleanup runs
   twice, no kill cuts one short, and every resource the proc took is cleaned up: all but
   the one of an acquire that faults between taking it and the deferral of its release. *)
CleanedOnce ==
  /\ \A i, j \in 1 .. Len(st.begun) : st.begun[i] = st.begun[j] => i = j
  /\ st.pc = "gone" => Range(st.begun) = (1 .. st.nid) \ st.lost
  /\ st.cut = {}

(* The mask is as deep as the regions that raised it, and a fault in a finalizer that was
   caught gives the mask of its close back.  A fault caught in a masked region or an
   acquire does not: those masks stay, until a poll sets the depth. *)
MaskBalanced ==
  st.pc = "body" =>
    LET owed == {s \in Scopes : st.closing[s] /\ \E r \in Range(st.recov) : r.s = s}
                  \ {f.s : f \in Range(st.stack)}
        polls == \E f \in Range(st.stack) : f.k = "poll"
    IN st.mask_depth = Cardinality(Levels({"mask", "acquire", "fin", "walk"})) + Cardinality(owed)
                       + (IF polls THEN 0 ELSE st.stuck)

=============================================================================
