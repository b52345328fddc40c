-------------------------------- MODULE Cfg --------------------------------
(***************************************************************************)
(* The configuration registry of ptc/cfg.c: entries under __cfg_lock, with *)
(* a count of the registry's and the overrides' references; files that set *)
(* them; and sessions, each a stack of levels of overrides, bound to the   *)
(* fiber or the thread that reads through them.  A critical section of     *)
(* __cfg_lock is one action.  The numeric kinds differ in their test only  *)
(* and are one kind here, INT.                                             *)
(*                                                                         *)
(* And a setting that is found, not set: the tuner of ptc/dio_sched.c,     *)
(* which measures the candidates of a population in turn and breeds the    *)
(* next from the best, and ptc/iosched.c, which lets it choose how many    *)
(* writes make a batch.                                                    *)
(***************************************************************************)
EXTENDS Integers, Sequences, FiniteSets, TLC
LOCAL INSTANCE FiniteSetsExt
LOCAL INSTANCE SequencesExt

CONSTANTS
  Fibers, Threads,     \* the callers: fibers, and threads that run none
  Names, Kinds,        \* of variables; Kinds \subseteq {"INT", "STRING"}
  Sessions, None,
  Values, Sources,     \* what is set, and its rank
  Lo, Hi, IntMax,      \* the bounds of an INT or a gene, INT_MAX
  File,                \* the lines of the file: a sequence of <<name, value>>
  MaxVars, MaxLevels, MaxCalls,  \* bounds
  PhenoOf,             \* tuner: gene_pheno, a sequence
  Pop, FreezeAfter,    \* tuner: population, FREEZE_AFTER
  Fits                 \* tuner: what may be measured, positive

Callers == Fibers \cup Threads

(* st has the fields
     vars     the entries ever allocated: name, kind, cur, refs; 0 refs: freed
     reg      __cfg_head: per name its entry, 0 for none
     file     __cfg_file is set
     live, lev           per session: it is there, its levels, the base first; a level maps
                         an entry to its override
     owner, nbound       the list of bound sessions and __cfg_nbound
     tls      per thread: __cfg_ssn_tls
     strs     string buffers allocated and not freed
     pc       per caller: where it is
   and, to state what is right,
     run      per fiber: which proc runs on it
     by       per session: who bound it last, as a caller and its proc
     want     per session: what each open level should see, the base first
     calls    calls so far *)
VARIABLE st

Idle == [at |-> "idle"]
NoLevel == <<>>
Unset == [val |-> None, src |-> None]

Init ==
  st = [vars |-> <<>>, reg |-> [n \in Names |-> 0], file |-> FALSE,
        live |-> [s \in Sessions |-> FALSE], lev |-> [s \in Sessions |-> <<>>],
        owner |-> [s \in Sessions |-> None], nbound |-> 0,
        tls |-> [t \in Threads |-> None], strs |-> 0, pc |-> [c \in Callers |-> Idle],
        run |-> [c \in Callers |-> 0], by |-> [s \in Sessions |-> None],
        want |-> [s \in Sessions |-> <<>>], calls |-> 0]

Free(c) == st.pc[c] = Idle /\ st.calls < MaxCalls
Called(s) == [s EXCEPT !.calls = @ + 1]
Goto(s, c, where) == [s EXCEPT !.pc[c] = where]
Bufs(e) == IF st.vars[e].kind = "STRING" THEN 1 ELSE 0

(* __cfg_var_unref_locked: the last reference frees the entry and its string. *)
Unref(s, e) ==
  [s EXCEPT !.vars[e].refs = @ - 1,
            !.strs = IF s.vars[e].refs = 1 THEN @ - Bufs(e) ELSE @]

(* __bounds_int_ok; a string has no bounds. *)
Accepts(e, v) == st.vars[e].kind = "INT" => v \in Lo .. Hi

----------------------------------------------------------------------------
(* The registry *)

Register(c, n, k) ==
  /\ Free(c) /\ st.reg[n] = 0 /\ Len(st.vars) < MaxVars
  /\ st' = Called([st EXCEPT
                     !.vars = Append(@, [name |-> n, kind |-> k, cur |-> Lo, refs |-> 1]),
                     !.reg[n] = Len(st.vars) + 1,
                     !.strs = IF k = "STRING" THEN @ + 1 ELSE @])

Unregister(c, n) ==
  /\ Free(c) /\ st.reg[n] # 0
  /\ st' = Called(Unref([st EXCEPT !.reg[n] = 0], st.reg[n]))

(* The setter for kind k stores under the lock ... *)
Store(s, n, k, v) ==
  LET e == st.reg[n]
  IN  IF e # 0 /\ st.vars[e].kind = k /\ Accepts(e, v) THEN [s EXCEPT !.vars[e].cur = v] ELSE s

(* ... and calls on_change after it, which is not modelled further. *)
Set(c, n, v) ==
  /\ Free(c) /\ st.reg[n] # 0
  /\ st' = Called(Store(st, n, st.vars[st.reg[n]].kind, v))

(* xtc_cfg_load_file; xtc_cfg_reload if a file was loaded. *)
Load(c) ==
  /\ Free(c)
  /\ st' = Called(Goto(st, c, [at |-> "line", rest |-> File]))

Reload(c) == st.file /\ Load(c)

(* __cfg_apply_string: the kind is looked up, under the lock, ... *)
LineKind(c) ==
  LET p == st.pc[c]
  IN  /\ p.at = "line" /\ p.rest # <<>>
      /\ LET e == st.reg[Head(p.rest)[1]]
         IN  st' = Goto(st, c, IF e = 0
                                 THEN [at |-> "line", rest |-> Tail(p.rest)]
                                 ELSE [at |-> "set", rest |-> p.rest, kind |-> st.vars[e].kind])

(* ... the value is read wide, and set if it is one of that kind; by then another variable
   may have the name. *)
Parses(k, v) == k = "INT" => v <= IntMax
LineSet(c) ==
  LET p == st.pc[c]
  IN  /\ p.at = "set"
      /\ LET n == Head(p.rest)[1]
             v == Head(p.rest)[2]
             s == IF Parses(p.kind, v) THEN Store(st, n, p.kind, v) ELSE st
         IN  st' = Goto(s, c, [at |-> "line", rest |-> Tail(p.rest)])

LoadEnd(c) ==
  /\ st.pc[c].at = "line" /\ st.pc[c].rest = <<>>
  /\ st' = Goto([st EXCEPT !.file = TRUE], c, Idle)

----------------------------------------------------------------------------
(* Bindings *)

(* __cfg_ssn_current_locked *)
Current(c) ==
  IF c \in Threads THEN st.tls[c]
  ELSE IF \E s \in Sessions : st.owner[s] = c THEN CHOOSE s \in Sessions : st.owner[s] = c
  ELSE None

UnbindSsn(s, x) ==
  IF s.owner[x] = None THEN s ELSE [s EXCEPT !.owner[x] = None, !.nbound = @ - 1]
UnbindTask(s, c) == IF Current(c) = None THEN s ELSE UnbindSsn(s, Current(c))

(* The contract: a session is one caller's at a time. *)
InUse(c, x) ==
  \E d \in Callers \ {c} : \/ "ssn" \in DOMAIN st.pc[d] /\ st.pc[d].ssn = x
                           \/ d \in Threads /\ st.tls[d] = x
MayUse(c, x) == st.live[x] /\ ~InUse(c, x) /\ st.owner[x] \in {c, None}

Bound(s, c, x) == [s EXCEPT !.by[x] = <<c, st.run[c]>>]

BindFiber(c, x) ==
  LET s == UnbindSsn(UnbindTask(st, c), x)
  IN  Bound([s EXCEPT !.owner[x] = c, !.nbound = @ + 1], c, x)

(* Binding again a session that another fiber has bound moves it. *)
Bind(c, x) ==
  /\ Free(c) /\ st.live[x] /\ ~InUse(c, x)
  /\ c \in Threads => st.owner[x] = None
  /\ st' = Called(IF c \in Threads THEN Bound([st EXCEPT !.tls[c] = x], c, x)
                                   ELSE BindFiber(c, x))

Unbind(c) ==
  /\ Free(c) /\ Current(c) # None
  /\ st' = Called(IF c \in Threads THEN [st EXCEPT !.tls[c] = None] ELSE UnbindTask(st, c))

(* __xtc_cfg_task_exit: without the lock, whether anything is bound at all ... *)
NextProc(s, c) == [s EXCEPT !.run[c] = @ + 1]
TaskExit(c) ==
  /\ Free(c) /\ c \in Fibers
  /\ st' = Called(IF st.nbound = 0 THEN NextProc(st, c) ELSE Goto(st, c, [at |-> "exit"]))

(* ... and with it the binding of this task, whose struct serves the next proc. *)
TaskExitLocked(c) ==
  /\ st.pc[c].at = "exit"
  /\ st' = Goto(NextProc(UnbindTask(st, c), c), c, Idle)

----------------------------------------------------------------------------
(* Sessions *)

Nothing == [e \in 1 .. MaxVars |-> Unset]
Top(x) == Last(st.lev[x])
SetTop(s, x, l) == [s EXCEPT !.lev[x] = Append(Front(@), l)]
Wants(s, x, w) == [s EXCEPT !.want[x] = w]

SsnCreate(c, x) ==
  /\ Free(c) /\ ~st.live[x]
  /\ st' = Called([st EXCEPT !.live[x] = TRUE, !.lev[x] = <<NoLevel>>, !.want[x] = <<Nothing>>])

(* __cfg_ssn_find, as __cfg_ssn_resolve uses it: the newest level first. *)
SsnFind(x, e) ==
  LET has == {i \in DOMAIN st.lev[x] : e \in DOMAIN st.lev[x][i]}
  IN  IF has = {} THEN Unset ELSE st.lev[x][Max(has)][e]

(* The getters, by name and by handle. *)
Get(c, n) ==
  LET x == Current(c)
      o == IF x = None THEN Unset ELSE SsnFind(x, st.reg[n])
  IN  IF o = Unset THEN st.vars[st.reg[n]].cur ELSE o.val

Push(c, x) ==
  /\ Free(c) /\ MayUse(c, x) /\ Len(st.lev[x]) < MaxLevels
  /\ st' = Called(Wants([st EXCEPT !.lev[x] = Append(@, NoLevel)], x,
                        Append(st.want[x], Last(st.want[x]))))

(* The references of the entries in E are dropped, each with its override's string. *)
OvrFree(s, E) == FoldSet(LAMBDA e, r : Unref([r EXCEPT !.strs = @ - Bufs(e)], e), s, E)

(* The newer value takes the place of the parent's; one reference and one string are
   surplus where both had one. *)
Commit(c, x) ==
  LET top == Top(x)
      parent == Last(Front(st.lev[x]))
      s == OvrFree(st, DOMAIN top \cap DOMAIN parent)
      w == st.want[x]
  IN  /\ Free(c) /\ MayUse(c, x) /\ Len(st.lev[x]) > 1
      /\ st' = Called(Wants([s EXCEPT !.lev[x] = Append(Front(Front(@)), top @@ parent)], x,
                            Append(Front(Front(w)), Last(w))))

Abort(c, x) ==
  /\ Free(c) /\ MayUse(c, x) /\ Len(st.lev[x]) > 1
  /\ st' = Called(Wants([OvrFree(st, DOMAIN Top(x)) EXCEPT !.lev[x] = Front(@)], x,
                        Front(st.want[x])))

Below(x, e) == IF Len(st.want[x]) = 1 THEN Unset ELSE Last(Front(st.want[x]))[e]
Without(l, e) == [d \in DOMAIN l \ {e} |-> l[d]]
WantsAt(s, x, e, o) == Wants(s, x, [st.want[x] EXCEPT ![Len(st.want[x])][e] = o])

(* xtc_cfg_session_reset: the override of this level, if any. *)
Reset(c, x, n) ==
  LET e == st.reg[n]
  IN  /\ Free(c) /\ MayUse(c, x) /\ e \in DOMAIN Top(x)
      /\ st' = Called(WantsAt(SetTop(OvrFree(st, {e}), x, Without(Top(x), e)), x, e, Below(x, e)))

(* xtc_cfg_ssn_set_*: the test and the reference under the lock ... *)
SsnSet(c, x, n, v, src) ==
  LET e == st.reg[n]
  IN  /\ Free(c) /\ MayUse(c, x) /\ e # 0 /\ Accepts(e, v)
      /\ st' = Called(Goto([st EXCEPT !.vars[e].refs = @ + 1, !.strs = @ + Bufs(e)], c,
                           [at |-> "apply", ssn |-> x, var |-> e, val |-> v, src |-> src]))

(* ... then __cfg_ssn_apply without it: an override of this level is replaced, and the
   reference given back, unless its source ranks higher. *)
SsnApply(c) ==
  LET p == st.pc[c]
      e == p.var
      o == [val |-> p.val, src |-> p.src]
      there == e \in DOMAIN Top(p.ssn)
      s == IF there THEN OvrFree(st, {e}) ELSE st
      new == SetTop(s, p.ssn, (e :> o) @@ Top(p.ssn))
  IN  /\ p.at = "apply"
      /\ st' = Goto(IF there /\ p.src < Top(p.ssn)[e].src THEN s ELSE WantsAt(new, p.ssn, e, o),
                    c, Idle)

(* There is no memory for a new override. *)
SsnApplyFails(c) ==
  /\ st.pc[c].at = "apply" /\ st.pc[c].var \notin DOMAIN Top(st.pc[c].ssn)
  /\ st' = Goto(OvrFree(st, {st.pc[c].var}), c, Idle)

(* xtc_cfg_session_destroy: the binding, whoever has it, ... *)
Destroy(c, x) ==
  /\ Free(c) /\ st.live[x] /\ ~InUse(c, x)
  /\ LET s == UnbindSsn(st, x)
         t == IF c \in Threads /\ st.tls[c] = x THEN [s EXCEPT !.tls[c] = None] ELSE s
     IN  st' = Called(Goto(t, c, [at |-> "free", ssn |-> x]))

(* ... then level by level, the lock taken anew for each, and the session. *)
DestroyLevel(c) ==
  /\ st.pc[c].at = "free"
  /\ LET x == st.pc[c].ssn
     IN  st' = IF st.lev[x] = <<>>
                 THEN Goto([st EXCEPT !.live[x] = FALSE, !.want[x] = <<>>, !.by[x] = None], c, Idle)
                 ELSE [OvrFree(st, DOMAIN Top(x)) EXCEPT !.lev[x] = Front(@)]

Next ==
  \E c \in Callers :
    \/ \E n \in Names, k \in Kinds : Register(c, n, k)
    \/ \E n \in Names : Unregister(c, n)
    \/ \E n \in Names, v \in Values : Set(c, n, v)
    \/ Load(c) \/ Reload(c) \/ LineKind(c) \/ LineSet(c) \/ LoadEnd(c)
    \/ Unbind(c) \/ TaskExit(c) \/ TaskExitLocked(c)
    \/ SsnApply(c) \/ SsnApplyFails(c) \/ DestroyLevel(c)
    \/ \E x \in Sessions :
         \/ SsnCreate(c, x) \/ Bind(c, x) \/ Push(c, x) \/ Commit(c, x) \/ Abort(c, x)
         \/ Destroy(c, x)
         \/ \E n \in Names : Reset(c, x, n)
         \/ \E n \in Names, v \in Values, src \in Sources : SsnSet(c, x, n, v, src)

----------------------------------------------------------------------------
(* The overrides of e: one per level of a session that has one. *)
Overrides(e) ==
  {y \in Sessions \X (1 .. MaxLevels) :
     y[2] \in DOMAIN st.lev[y[1]] /\ e \in DOMAIN st.lev[y[1]][y[2]]}
(* The sets that have their reference and no override yet. *)
Setting(e) == {c \in Callers : st.pc[c].at = "apply" /\ st.pc[c].var = e}
Holders(e) ==
  (IF st.reg[st.vars[e].name] = e THEN 1 ELSE 0) + Cardinality(Overrides(e))
    + Cardinality(Setting(e))

(* __cfg_var_unref_locked: an entry has one reference for the registry and one for every
   override and every set in flight that names it, so that unregistering, tearing down a session,
   committing and a refused or failed set in any order free it with the last and not
   before; every string buffer has one owner. *)
RefsExact ==
  LET strings == {e \in DOMAIN st.vars : st.vars[e].kind = "STRING"}
      bufs(e) == Cardinality(Overrides(e)) + Cardinality(Setting(e))
                   + (IF st.vars[e].refs > 0 THEN 1 ELSE 0)
  IN  /\ \A e \in DOMAIN st.vars : st.vars[e].refs = Holders(e)
      /\ st.strs = MapThenSumSet(bufs, strings)

(* xtc_cfg_session_bind: a getter resolves through a session that the proc which calls it has bound and
   that is still there; a proc on a task struct that is used again inherits none; and the counter
   that an exit reads without the lock counts the bound. *)
BindingIsOwn ==
  /\ \A c \in Callers : Current(c) # None =>
       st.live[Current(c)] /\ st.by[Current(c)] = <<c, st.run[c]>>
  /\ st.nbound = Cardinality({s \in Sessions : st.owner[s] # None})

(* xtc_cfg_session_push: a level sees what it set, else what was there when it was opened; an
   abort brings that back, a commit keeps what the level saw. *)
LevelsNest ==
  \A x \in Sessions, e \in DOMAIN st.vars :
    st.live[x] /\ ~(\E c \in Callers : st.pc[c] = [at |-> "free", ssn |-> x])
      => SsnFind(x, e) = Last(st.want[x])[e]

(* A value that is read, from the registry or from a session, is one that the variable
   accepts, although a file holds any number and the kind of a name may change before a
   line of it is applied. *)
ValuesAccepted ==
  \A c \in Callers, n \in Names : st.reg[n] # 0 => Accepts(st.reg[n], Get(c, n))
----------------------------------------------------------------------------
(* The tuner.  For it st has the fields
     genes, cur                 the population, the candidate that is measured now
     fitness, frozen, frozen_fitness, stagnant     per phenotype
     best, best_fitness, have_best                 per gene; per phenotype
     n, batch                   the queue and the batch size of struct xtc_iosched
   and, to state what is right,
     of, bestOf                 per phenotype: with which genes the fitness of a candidate and
                                the best fitness were measured
     calls                      calls so far *)
Genes == DOMAIN PhenoOf
Phenos == {PhenoOf[g] : g \in Genes}
Cands == 1 .. Pop
OwnBy(p, v) == [g \in {h \in Genes : PhenoOf[h] = p} |-> v[g]]
Populations == [Cands -> [Genes -> Lo .. Hi]]

(* xtc_dio_sched_current *)
CurrentGenes(s) ==
  [g \in Genes |-> IF s.frozen[PhenoOf[g]] THEN s.best[g] ELSE s.genes[s.cur][g]]

(* xtc_dio_sched_create, and xtc_iosched_create, which starts with the first candidate. *)
TuneInit ==
  LET all(x) == [p \in Phenos |-> x]
  IN  \E G \in Populations :
        st = [genes |-> G, cur |-> 1, fitness |-> all([c \in Cands |-> 0]), frozen |-> all(FALSE),
              frozen_fitness |-> all(0), stagnant |-> all(0), best |-> [g \in Genes |-> 0],
              best_fitness |-> all(0), have_best |-> all(FALSE), n |-> 0, batch |-> G[1][1],
              of |-> all([c \in Cands |-> <<>>]), bestOf |-> all(<<>>), calls |-> 0]

Elite(s, p) == Min({c \in Cands : \A d \in Cands : s.fitness[p][d] <= s.fitness[p][c]})

(* breed_pheno up to the freeze.  IMPROVE_EPS is 1%: what is better by less is kept as the
   best, and counts as stagnant. *)
Judge(p, s) ==
  LET e == Elite(s, p)
      top == s.fitness[p][e]
      better == ~s.have_best[p] \/ top > s.best_fitness[p]
      improved == ~s.have_best[p] \/ 100 * top > 101 * s.best_fitness[p]
      stagnant == IF improved THEN 0 ELSE s.stagnant[p] + 1
      fit == IF better THEN top ELSE s.best_fitness[p]
  IN  IF s.frozen[p] THEN s ELSE
      [s EXCEPT !.best = IF better THEN OwnBy(p, s.genes[e]) @@ @ ELSE @,
                !.best_fitness[p] = fit,
                !.bestOf[p] = IF better THEN s.of[p][e] ELSE @,
                !.have_best[p] = TRUE,
                !.stagnant[p] = stagnant,
                !.frozen[p] = stagnant >= FreezeAfter,
                !.frozen_fitness[p] = IF stagnant >= FreezeAfter THEN fit ELSE @]

(* A tournament may draw the same candidate twice, so any may be a parent, of any gene;
   the mutation rate is left out: a gene may mutate or not. *)
Clamp(v) == Max({Lo, Min({v, Hi})})
Step == (Hi - Lo) \div 4 + 1
Bred(s, g) == {Clamp(s.genes[c][g] + d) : c \in Cands, d \in - Step .. Step}

(* breed_generation; memory for the next population is taken to be there. *)
BreedGeneration(s) ==
  LET t == FoldSet(Judge, s, Phenos)
      kept(G, g) == \A c \in Cands : G[c][g] = t.best[g]
      bred(G, g) == /\ G[1][g] = s.genes[Elite(s, PhenoOf[g])][g]
                    /\ \A c \in Cands \ {1} : G[c][g] \in Bred(s, g)
      next == {G \in Populations :
                 \A g \in Genes : IF t.frozen[PhenoOf[g]] THEN kept(G, g) ELSE bred(G, g)}
  IN  {[t EXCEPT !.genes = G, !.cur = 1] : G \in next}

(* xtc_dio_sched_report_multi, of what f says of the genes v.  A frozen phenotype whose
   fitness falls by REGRESS_FRAC, 15%, is tuned again, and the generation begun anew. *)
Regressed(s, f) == {p \in Phenos : s.frozen[p] /\ 100 * f[p] < 85 * s.frozen_fitness[p]}
Note(s, f, v) ==
  LET heard(p) == ~s.frozen[p]
  IN  [s EXCEPT !.fitness = [p \in Phenos |-> IF heard(p) THEN [@[p] EXCEPT ![s.cur] = f[p]] ELSE @[p]],
                !.of = [p \in Phenos |->
                          IF heard(p) THEN [@[p] EXCEPT ![s.cur] = OwnBy(p, v)] ELSE @[p]]]
Thaw(s, P, f, v) ==
  LET seeded(G, g) == IF PhenoOf[g] \in P THEN G[1][g] = s.best[g]
                                          ELSE \A c \in Cands : G[c][g] = s.genes[c][g]
      thawed(was, p, new) == IF p \in P THEN new ELSE was[p]
      t == [s EXCEPT !.frozen = [p \in Phenos |-> thawed(@, p, FALSE)],
                     !.stagnant = [p \in Phenos |-> thawed(@, p, 0)],
                     !.best_fitness = [p \in Phenos |-> thawed(@, p, f[p])],
                     !.bestOf = [p \in Phenos |-> thawed(@, p, OwnBy(p, v))],
                     !.cur = 1]
  IN  {[t EXCEPT !.genes = G] : G \in {H \in Populations : \A g \in Genes : seeded(H, g)}}
Report(s, f, v) ==
  LET t == Note(s, f, v)
      P == Regressed(s, f)
  IN  IF P # {} THEN Thaw(t, P, f, v)
      ELSE IF s.cur = Pop THEN BreedGeneration(t)
      ELSE {[t EXCEPT !.cur = @ + 1]}

Measure(f) ==
  /\ st.calls < MaxCalls
  /\ st' \in Report([st EXCEPT !.calls = @ + 1], f, CurrentGenes(st))

TuneNext == \E f \in [Phenos -> Fits] : Measure(f)

(* xtc_iosched_flush of s: what it took is the fitness of the batch size in use, and the next
   candidate is taken up. *)
Flushed(s, f) ==
  {[t EXCEPT !.n = 0, !.batch = Clamp(CurrentGenes(t)[1])] :
     t \in Report(s, [p \in Phenos |-> f], <<s.batch>>)}

(* A write that fails ends it: nothing is reported, and what was queued is gone. *)
FlushOf(s, f) == st' \in Flushed(s, f) \cup {[s EXCEPT !.n = 0]}

Flush(f) ==
  /\ st.calls < MaxCalls /\ st.n > 0
  /\ FlushOf([st EXCEPT !.calls = @ + 1], f)

(* xtc_iosched_write *)
Write(f) ==
  LET s == [st EXCEPT !.n = @ + 1, !.calls = @ + 1]
  IN  /\ st.calls < MaxCalls
      /\ IF s.n >= s.batch THEN FlushOf(s, f) ELSE st' = s

IoNext == \E f \in Fits : Flush(f) \/ Write(f)

(* xtc_dio_sched_report_multi: what a phenotype is bred from was measured with the genes it is
   credited to: the candidates of this generation, although another phenotype that thaws begins
   it anew, and the best, whose fitness a thaw replaces. *)
MeasuredWithIt ==
  \A p \in Phenos :
    /\ ~st.frozen[p] => \A c \in 1 .. st.cur - 1 : st.of[p][c] = OwnBy(p, st.genes[c])
    /\ st.have_best[p] => st.bestOf[p] = OwnBy(p, st.best)

(* xtc_iosched_write: there is room in the queue, of max_batch entries, for the next write,
   although the batch size changes. *)
QueueFits == st.n < st.batch /\ st.batch <= Hi
=============================================================================
