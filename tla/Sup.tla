-------------------------------- MODULE Sup --------------------------------
(***************************************************************************)
(* The supervisor of orc/sup.c and the application of orc/app.c that runs  *)
(* one: restart strategies and intensity, children added at run time, the  *)
(* stop, and the drain of an application.  The supervisor is a proc; its   *)
(* children run on loops of their own.                                     *)
(***************************************************************************)
EXTENDS Naturals, Sequences, FiniteSets
LOCAL INSTANCE SequencesExt

CONSTANTS
  Strategy,     \* xtc_restart_strategy_t
  Policies,     \* xtc_restart_policy_t of the static children, a sequence
  MaxRestarts, Period,     \* xtc_sup_opts_t; the period in ticks
  MaxChildren,  \* xtc_sup_opts_t: 0 is no limit
  AddPolicy,    \* of the children added at run time
  Adds,         \* bound: calls of xtc_sup_add_child
  MaxPids,      \* bound: procs spawned; the next spawn fails
  MaxNow,       \* bound: ticks
  MayKill,      \* the supervisor itself may be killed
  App,          \* the application's loop: "none", "owned", "borrowed", "exec"
  Signal        \* xtc_app_drain_on_signal was called

Static == 1 .. Len(Policies)
Pids == 1 .. MaxPids
(* __record_restart: the size of the ring, as xtc_sup_start allocates it. *)
rr_cap == MaxRestarts + 4

(* st has
     proc, inc, reason, kill    of each pid: its step, the child it is an incarnation of,
                                its exit reason, whether it was told to exit
     npid                       pids given out
     mbox, pc, k, why           of the supervisor's proc
     children, n_alive, rr, restart_old, alive, stop_requested, abandon_wait, stopped
                                struct xtc_supervisor
     old                        the pids that the wait in progress is for
     killed                     the supervisor was told to exit
     cl, inbox                  the caller of xtc_sup_add_child and its mailbox
     kpid, returned, draining   struct app_kids; kpid is 0 before the child has run
     sd, i, forced, class       the thread in xtc_app_shutdown
     shutting_down, run, halted, leak_kids, watch, sig
                                struct xtc_app, its loop and its signal
     now
   and the history
     hist, gaveUp               times of all restarts; the intensity was exceeded
     cut, forcedAll             a wait ended before its children went; the force phase did not
     made, res                  pid of the child made for each call; the call's result
     asked                      pids that were sent the shutdown message
     freed. *)
VARIABLE st

Init ==
  st = [proc |-> [p \in Pids |-> "none"], inc |-> [p \in Pids |-> 0],
        reason |-> [p \in Pids |-> 0], kill |-> {}, npid |-> 0,
        mbox |-> <<>>, pc |-> "start", k |-> 1, why |-> 0,
        children |-> [c \in Static |-> [id |-> c, policy |-> Policies[c], dynamic |-> FALSE,
                                        pid |-> 0, alive |-> FALSE]],
        n_alive |-> 0, rr |-> <<>>, restart_old |-> <<>>, alive |-> TRUE,
        stop_requested |-> FALSE, abandon_wait |-> FALSE, stopped |-> FALSE, old |-> <<>>,
        killed |-> FALSE, cl |-> "idle", inbox |-> <<>>,
        kpid |-> [c \in Static |-> 0], returned |-> {}, draining |-> FALSE,
        sd |-> "idle", i |-> 1, forced |-> {}, class |-> [c \in Static |-> "none"],
        shutting_down |-> FALSE, run |-> IF App = "none" THEN "none" ELSE "running",
        halted |-> FALSE, leak_kids |-> FALSE,
        watch |-> IF Signal THEN "watch" ELSE "gone", sig |-> FALSE, now |-> 0,
        hist |-> <<>>, gaveUp |-> FALSE, cut |-> FALSE, forcedAll |-> FALSE,
        made |-> <<>>, res |-> <<>>, asked |-> {}, freed |-> FALSE]

(* The steps of a proc between its spawn and the release of its slot. *)
Running == {"new", "pub", "body", "post", "parked"}
InTable(p) == st.proc[p] \in Running \cup {"exit"}
SupThere == st.pc # "gone"
Down(p) == [kind |-> "D", pid |-> p, reason |-> st.reason[p]]
(* The loops run: a survivor on a borrowed loop goes on after xtc_app_run. *)
Loops == App = "borrowed" \/ st.run \in {"none", "running"}

----------------------------------------------------------------------------
(* A child.  An application's child runs through __kid_trampoline: it publishes its
   pid, ... *)
KidStarts(p) ==
  /\ Loops /\ st.proc[p] = "new"
  /\ st' = [st EXCEPT !.proc[p] = "pub", !.kpid[st.inc[p]] = p]

(* ... then looks whether the drain has begun; the body is skipped if it has. *)
KidLooks(p) ==
  /\ Loops /\ st.proc[p] = "pub"
  /\ st' = [st EXCEPT !.proc[p] = IF st.draining THEN "post" ELSE "body"]

KidReturns(p) ==
  /\ Loops /\ st.proc[p] = "body"
  /\ st' = [st EXCEPT !.proc[p] = IF App = "none" THEN "exit" ELSE "post"]

(* A body that has returned in a drain is recorded; a PERMANENT child parks. *)
KidParks(p) ==
  /\ Loops /\ st.proc[p] = "post"
  /\ st' = IF ~st.draining THEN [st EXCEPT !.proc[p] = "exit"]
           ELSE [st EXCEPT !.returned = @ \cup {st.inc[p]},
                           !.proc[p] = IF Policies[st.inc[p]] = "PERMANENT" THEN "parked"
                                       ELSE "exit"]

(* A fault, an exit with a status, or a kill at a kill point. *)
KidCrashes(p) ==
  /\ Loops
  /\ st.proc[p] = "body" \/ (st.proc[p] = "parked" /\ p \in st.kill)
  /\ st' = [st EXCEPT !.proc[p] = "exit", !.reason[p] = 1]

(* The exit: after the at-exit hooks the slot is released, then the DOWN is sent. *)
KidLeaves(p) == Loops /\ st.proc[p] = "exit" /\ st' = [st EXCEPT !.proc[p] = "left"]

KidDown(p) ==
  /\ Loops /\ st.proc[p] = "left"
  /\ st' = [st EXCEPT !.proc[p] = "gone", !.kill = @ \ {p}, !.reason[p] = 0,
                      !.mbox = IF SupThere THEN Append(@, Down(p)) ELSE @]

----------------------------------------------------------------------------
(* __child_alive. *)
ChildAlive(s, c, v) ==
  IF s.children[c].alive = v THEN s
  ELSE [s EXCEPT !.children[c].alive = v, !.n_alive = IF v THEN @ + 1 ELSE @ - 1]

(* __spawn_child: spawned and monitored in one; refused when no pid is left. *)
CanSpawn(s) == s.npid < MaxPids
SpawnChild(s, c) ==
  LET p == s.npid + 1 IN
  ChildAlive([s EXCEPT !.npid = p, !.proc[p] = IF App = "none" THEN "body" ELSE "new", !.inc[p] = s.children[c].id,
                       !.children[c].pid = p], c, TRUE)
TrySpawn(s, c) == IF CanSpawn(s) THEN SpawnChild(s, c) ELSE s

(* __xtc_exit_pid_on, for every pid of a set. *)
ExitPids(s, P) == [s EXCEPT !.kill = @ \cup {p \in P : s.proc[p] \in Running}]

AliveFrom(s, from) == {c \in from .. Len(s.children) : s.children[c].alive}
AllDead(s, from) ==
  [s EXCEPT !.children = [c \in DOMAIN @ |-> IF c < from THEN @[c]
                                             ELSE [@[c] EXCEPT !.alive = FALSE]],
            !.n_alive = @ - Cardinality(AliveFrom(s, from))]

(* __do_one_for_all and __do_rest_for_one as far as their wait: the pids of the
   generation to replace are kept, the siblings still alive are killed. *)
GroupRestart(s, from) ==
  LET old == [c \in DOMAIN s.children |-> IF c < from THEN 0 ELSE s.children[c].pid]
      dying == ExitPids(s, {s.children[c].pid : c \in AliveFrom(s, from)})
  IN  [AllDead(dying, from) EXCEPT !.old = old, !.restart_old = old, !.k = from, !.pc = "wait"]

ShouldRestart(c, why) ==
  \/ c.policy = "PERMANENT"
  \/ c.policy = "TRANSIENT" /\ why # 0

(* __record_restart: the oldest leaves a full ring. *)
Record(rr, t) == IF Len(rr) < rr_cap THEN Append(rr, t) ELSE Append(Tail(rr), t)

(* __intensity_exceeded: timestamps after the cutoff, without going below time zero. *)
InWindow(rr, t) == Cardinality({j \in DOMAIN rr : rr[j] + Period > t})
IntensityExceeded(rr, t) == InWindow(rr, t) > MaxRestarts

(* __handle_add_child. *)
HandleAddChild(s, tag) ==
  LET live == Cardinality({c \in DOMAIN s.children : s.children[c].alive})
      n == Len(s.children) + 1
      grown == [s EXCEPT !.children = Append(@, [id |-> Len(Policies) + tag,
                           policy |-> AddPolicy, dynamic |-> TRUE, pid |-> 0, alive |-> FALSE])]
      reply(q, ok, p) == [q EXCEPT !.inbox = Append(@, [tag |-> tag, ok |-> ok, pid |-> p])]
  IN  IF MaxChildren > 0 /\ live >= MaxChildren THEN reply(s, "RESOURCE", 0)
      ELSE IF ~CanSpawn(s) THEN reply(s, "NOMEM", 0)
      ELSE [reply(SpawnChild(grown, n), "OK", s.npid + 1)
              EXCEPT !.made = Append(@, [tag |-> tag, pid |-> s.npid + 1])]

----------------------------------------------------------------------------
(* __sup_entry: the static children are spawned in order, ... *)
SupSpawns ==
  /\ Loops /\ st.pc = "start"
  /\ st' = IF st.k > Len(st.children) THEN [st EXCEPT !.pc = "top"]
           ELSE IF ~CanSpawn(st) THEN [st EXCEPT !.pc = "exit"]
           ELSE [SpawnChild(st, st.k) EXCEPT !.k = @ + 1]

(* ... then the loop: the stop is looked at, ... *)
SupTop ==
  /\ Loops /\ st.pc = "top"
  /\ st' = [st EXCEPT !.pc = IF st.stop_requested THEN "exit" ELSE "recv"]

RecvTimesOut ==
  Loops /\ st.pc = "recv" /\ st.mbox = <<>> /\ ~st.killed /\ st' = [st EXCEPT !.pc = "top"]

(* __find_child_by_pid *)
FindChild(p) == {c \in DOMAIN st.children : st.children[c].alive /\ st.children[c].pid = p}

(* ... a message is received: a kick, an ADD_CHILD, or a DOWN, of which a stale one is
   ignored; the stop is looked at once more. *)
SupRecv ==
  /\ Loops /\ st.pc = "recv" /\ st.mbox # <<>>
  /\ LET m == Head(st.mbox)
         s == [st EXCEPT !.mbox = Tail(@), !.pc = "top"]
     IN  st' = CASE m.kind = "X" -> s
                 [] m.kind = "A" -> HandleAddChild(s, m.tag)
                 [] OTHER ->
                    IF FindChild(m.pid) = {} THEN s
                    ELSE LET c == CHOOSE c \in FindChild(m.pid) : TRUE IN
                         [ChildAlive(s, c, FALSE) EXCEPT
                            !.k = c, !.why = m.reason,
                            !.pc = IF st.stop_requested THEN "exit" ELSE "down"]

(* A child that is not to come back leaves the table if it was added; any other counts
   as a restart, which the intensity or the strategy answers. *)
SupDown ==
  LET c == st.k
      rr == Record(st.rr, st.now)
      s == [st EXCEPT !.rr = rr, !.hist = Append(@, st.now), !.why = 0]
  IN
  /\ Loops /\ st.pc = "down"
  /\ st' = IF ~ShouldRestart(st.children[c], st.why)
           THEN [st EXCEPT !.pc = "top",
                           !.children = IF @[c].dynamic THEN RemoveAt(@, c) ELSE @]
           ELSE IF IntensityExceeded(rr, st.now)
           THEN [s EXCEPT !.pc = "exit", !.gaveUp = TRUE]
           ELSE CASE Strategy = "ONE_FOR_ALL" -> GroupRestart(s, 1)
                  [] Strategy = "REST_FOR_ONE" -> GroupRestart(s, c)
                  [] OTHER -> [TrySpawn(s, c) EXCEPT !.pc = "top"]

(* __wait_children_gone: until all have left their loops' tables, the caller gives them
   up, or the deadline passes. *)
AllGone == {c \in DOMAIN st.old : st.old[c] # 0 /\ InTable(st.old[c])} = {}
SupWaits(gone) ==
  /\ Loops /\ st.pc = "wait"
  /\ gone => AllGone /\ ~st.abandon_wait
  /\ st' = [st EXCEPT !.restart_old = <<>>, !.old = <<>>,
                      !.pc = IF gone THEN "respawn" ELSE "top",
                      !.stop_requested = IF gone THEN @ ELSE TRUE, !.cut = @ \/ ~AllGone]

SupRespawns ==
  /\ Loops /\ st.pc = "respawn"
  /\ st' = IF st.k > Len(st.children) THEN [st EXCEPT !.pc = "top"]
           ELSE IF ~CanSpawn(st) THEN [st EXCEPT !.stop_requested = TRUE, !.pc = "top"]
           ELSE [SpawnChild(st, st.k) EXCEPT !.k = @ + 1]

(* A kill unwinds the supervisor out of its receive or of a restart's wait. *)
SupKilled ==
  /\ Loops /\ st.killed /\ st.pc \in {"recv", "wait"}
  /\ st' = [st EXCEPT !.pc = "exit"]

(* A mutant: the children of an interrupted restart are not waited for. *)
SupExitsForgets ==
  LET s == ExitPids(st, {st.children[c].pid : c \in AliveFrom(st, 1)}) IN
  /\ Loops /\ st.pc = "exit"
  /\ st' = [AllDead(s, 1) EXCEPT
              !.old = [c \in DOMAIN st.children |->
                         IF st.children[c].alive THEN st.children[c].pid ELSE 0],
              !.restart_old = <<>>, !.pc = "exitwait"]

(* __sup_exited, at every exit: the children alive are killed, and waited for with those
   that an interrupted restart had killed, ... *)
SupExits ==
  LET old == [c \in DOMAIN st.children |->
                IF st.children[c].alive THEN st.children[c].pid
                ELSE IF st.restart_old # <<>> THEN st.restart_old[c] ELSE 0]
      s == ExitPids(st, {st.children[c].pid : c \in AliveFrom(st, 1)})
  IN
  /\ Loops /\ st.pc = "exit"
  /\ st' = [AllDead(s, 1) EXCEPT !.old = old, !.restart_old = <<>>, !.pc = "exitwait"]

SupExitWaits(gone) ==
  /\ Loops /\ st.pc = "exitwait"
  /\ gone => AllGone /\ ~st.abandon_wait
  /\ st' = [st EXCEPT !.cut = @ \/ ~AllGone, !.old = <<>>, !.pc = "announce"]

(* ... then `alive` drops, ... *)
SupAnnounces ==
  Loops /\ st.pc = "announce" /\ st' = [st EXCEPT !.alive = FALSE, !.pc = "signal"]

(* ... a joiner is let go, who may free the supervisor, ... *)
SupSignals ==
  Loops /\ st.pc = "signal" /\ st' = [st EXCEPT !.stopped = TRUE, !.pc = "execstop"]

(* ... and the executor of a multi-loop application is stopped. *)
SupEnds ==
  /\ Loops /\ st.pc = "execstop"
  /\ st' = [st EXCEPT !.pc = "gone", !.halted = (App = "exec") \/ @]

SupRuns ==
  \/ SupSpawns \/ SupTop \/ RecvTimesOut \/ SupRecv \/ SupDown \/ SupRespawns \/ SupKilled
  \/ SupExits \/ SupAnnounces \/ SupSignals \/ SupEnds
  \/ \E gone \in BOOLEAN : SupWaits(gone) \/ SupExitWaits(gone)

----------------------------------------------------------------------------
(* xtc_sup_stop: the flag, and a kick for a supervisor in its receive. *)
Stop(s) == [s EXCEPT !.stop_requested = TRUE,
                     !.mbox = IF SupThere THEN Append(@, [kind |-> "X"]) ELSE @]

SupStop ==
  /\ App = "none" /\ ~st.stop_requested /\ ~st.freed
  /\ st' = Stop(st)

(* xtc_exit_pid of the supervisor. *)
SupKill ==
  /\ MayKill /\ ~st.killed /\ SupThere
  /\ st' = [st EXCEPT !.killed = TRUE]

(* xtc_sup_join: whoever has seen the stop frees the supervisor. *)
SupJoin ==
  /\ App = "none" /\ st.stopped /\ ~st.freed /\ st.cl = "idle"
  /\ st' = [st EXCEPT !.freed = TRUE]

(* xtc_sup_add_child: the request, its own reply among those of calls that timed out,
   and the deadline. *)
Tag == Len(st.res) + 1
AddChild ==
  /\ st.cl = "idle" /\ Len(st.res) < Adds /\ st.alive /\ ~st.freed
  /\ st' = [st EXCEPT !.cl = "await", !.mbox = Append(@, [kind |-> "A", tag |-> Tag])]

AddReply ==
  /\ st.cl = "await" /\ st.inbox # <<>>
  /\ LET r == Head(st.inbox)
         s == [st EXCEPT !.inbox = Tail(@)]
     IN  st' = IF r.tag # Tag THEN s
               ELSE [s EXCEPT !.cl = "idle", !.res = Append(@, [rc |-> r.ok, pid |-> r.pid])]

AddTimesOut ==
  /\ st.cl = "await"
  /\ st' = [st EXCEPT !.cl = "idle", !.res = Append(@, [rc |-> "AGAIN", pid |-> 0])]

Tick == st.now < MaxNow /\ st' = [st EXCEPT !.now = @ + 1]

----------------------------------------------------------------------------
(* __kid_gone: the pid that the child last published has left the table. *)
KidGone(c) == st.kpid[c] # 0 /\ ~InTable(st.kpid[c])
Driven == App # "none"

(* xtc_app_shutdown, by a plain thread while the loops run: once per application. *)
Shutdown ==
  /\ Driven /\ st.run = "running" /\ ~st.shutting_down
  /\ st.sd = IF Signal THEN "enter" ELSE "idle"
  /\ st' = [st EXCEPT !.shutting_down = TRUE, !.sd = "mark"]

(* The drain thread that finds the application stopped returns. *)
ShutdownRefused ==
  /\ st.sd = "enter" /\ st.run # "running"
  /\ st' = [st EXCEPT !.sd = "done"]

(* The cooperative phase: the flag is set, then every child that has run is asked; ... *)
Mark == st.sd = "mark" /\ st' = [st EXCEPT !.draining = TRUE, !.sd = "ask", !.i = 1]

Ask ==
  /\ st.sd = "ask"
  /\ st' = IF st.i > Len(Policies) THEN [st EXCEPT !.sd = "drain"]
           ELSE [st EXCEPT !.i = @ + 1,
                           !.asked = @ \cup (IF st.kpid[st.i] # 0 THEN {st.kpid[st.i]} ELSE {})]

(* ... __wait_kids until all returned or left, or the deadline. *)
Drained == st.sd = "drain" /\ st' = [st EXCEPT !.sd = "classify", !.i = 1]

Classify ==
  /\ st.sd = "classify"
  /\ st' = IF st.i > Len(Policies) THEN [Stop(st) EXCEPT !.sd = "force"]
           ELSE [st EXCEPT !.i = @ + 1,
                           !.forced = IF st.i \notin st.returned /\ ~KidGone(st.i)
                                      THEN @ \cup {st.i} ELSE @]

(* The force phase kills whatever incarnation is there, pass after pass, until all have
   left and the supervisor has exited, or the deadline. *)
Force ==
  /\ st.sd = "force"
  /\ st' = ExitPids(st, {st.kpid[c] : c \in {d \in Static : st.kpid[d] # 0}})
  /\ st' # st

ForceEnds ==
  /\ st.sd = "force"
  /\ st' = [st EXCEPT !.sd = "report", !.i = 1,
                      !.forcedAll = ~st.alive /\ \A c \in Static : KidGone(c)]

Report ==
  /\ st.sd = "report" /\ st.i <= Len(Policies)
  /\ st' = [st EXCEPT !.i = @ + 1,
                      !.class[st.i] = IF ~KidGone(st.i) THEN "survivor"
                                      ELSE IF st.i \in st.forced THEN "forced" ELSE "drained"]

(* The supervisor is told to wait no longer, and given a moment. *)
Abandon ==
  /\ st.sd = "report" /\ st.i > Len(Policies)
  /\ st' = [st EXCEPT !.abandon_wait = TRUE, !.sd = "moment"]

(* The loops stop unless they are the embedder's and nobody is left on them. *)
Survivors == {c \in Static : st.class[c] = "survivor"}
ShutdownEnds ==
  /\ st.sd = "moment"
  /\ st' = [st EXCEPT !.sd = "done",
                      !.leak_kids = (Survivors # {} /\ App = "borrowed") \/ @,
                      !.halted = (Survivors # {} \/ App \in {"owned", "exec"}) \/ @]

(* __drain_watcher: the signal starts a thread that drains, which xtc_app_run joins. *)
SignalComes == Signal /\ ~st.sig /\ st' = [st EXCEPT !.sig = TRUE]

Watch ==
  /\ Loops /\ st.watch = "watch"
  /\ st.shutting_down \/ ~st.alive \/ st.sig
  /\ st' = IF st.shutting_down \/ ~st.alive THEN [st EXCEPT !.watch = "gone"]
           ELSE [st EXCEPT !.watch = "gone", !.sd = "enter"]

(* xtc_app_run: the loops end when they are stopped or, but for an executor in service
   mode, have no proc left; ... *)
RunEnds ==
  /\ Driven /\ st.run = "running"
  /\ \/ st.halted
     \/ App # "exec" /\ ~SupThere /\ st.watch = "gone" /\ \A p \in Pids : ~InTable(p)
  /\ st' = [st EXCEPT !.run = "stopped"]

(* ... the drain thread is joined. *)
RunReturns ==
  /\ st.run = "stopped"
  /\ (Signal /\ st.sd # "idle") => st.sd = "done"
  /\ st' = [st EXCEPT !.run = "returned"]

(* xtc_app_destroy, after xtc_app_run and the caller's own shutdown have returned: it
   joins the supervisor or, when it has not stopped in time, leaves it. *)
Destroy ==
  /\ st.run = "returned" /\ (Signal \/ st.sd \in {"idle", "done"})
  /\ st' = [st EXCEPT !.run = "destroyed", !.freed = st.stopped]

Drains ==
  \/ Shutdown \/ ShutdownRefused \/ Mark \/ Ask \/ Drained \/ Classify \/ Force \/ ForceEnds
  \/ Report \/ Abandon \/ ShutdownEnds \/ Watch \/ RunEnds \/ RunReturns \/ Destroy

KidRuns(p) ==
  KidStarts(p) \/ KidLooks(p) \/ KidReturns(p) \/ KidParks(p) \/ KidCrashes(p) \/ KidLeaves(p)
  \/ KidDown(p)

Next ==
  \/ \E p \in Pids : KidRuns(p)
  \/ SupRuns \/ SupStop \/ SupKill \/ SupJoin
  \/ AddChild \/ AddReply \/ AddTimesOut \/ Tick
  \/ Drains \/ SignalComes

----------------------------------------------------------------------------
(* The fields of the supervisor have their types. *)
TypeOK ==
  /\ \A p \in Pids : st.proc[p] \in Running \cup {"none", "exit", "left", "gone"}
  /\ st.n_alive \in 0 .. MaxPids /\ Len(st.rr) <= rr_cap
  /\ \A c \in DOMAIN st.children : st.children[c].pid \in 0 .. MaxPids

(* __do_one_for_all, __do_rest_for_one: a replacement never runs beside what it replaces:
   no child is in the table twice, and when a group is spawned anew nobody of the old
   generation is left. *)
NoOverlap ==
  /\ \A p, q \in Pids : InTable(p) /\ InTable(q) /\ st.inc[p] = st.inc[q] => p = q
  /\ st.pc = "respawn" =>
       \A p \in Pids : InTable(p) => \E c \in DOMAIN st.children :
                                        st.children[c].pid = p /\ st.children[c].alive

(* __sup_entry: at its receive, the supervisor knows every child that runs, and of every
   child it thinks alive that it runs or that its DOWN is still to come; n_alive is their
   number. *)
Tracked ==
  /\ st.n_alive = Cardinality(AliveFrom(st, 1))
  /\ st.pc = "recv" =>
       /\ \A p \in Pids : InTable(p) => FindChild(p) # {}
       /\ \A c \in AliveFrom(st, 1) :
            LET p == st.children[c].pid IN
            InTable(p) \/ st.proc[p] = "left"
            \/ \E j \in DOMAIN st.mbox : st.mbox[j].kind = "D" /\ st.mbox[j].pid = p

(* __intensity_exceeded: the supervisor gives up exactly when more than max_restarts of
   all restarts so far fall within the period, though the ring keeps only the last. *)
IntensityExact ==
  LET n == Len(st.hist) IN
  st.gaveUp <=> (n > 0 /\ InWindow(st.hist, st.hist[n]) > MaxRestarts)

(* __handle_add_child: a bounded pool never runs more than max_children, restarts
   included. *)
PoolBounded ==
  (MaxChildren > 0 /\ Policies = <<>>) => Cardinality({p \in Pids : InTable(p)}) <= MaxChildren

(* xtc_sup_add_child: the pid returned is the one of the child made for this very call. *)
AddExact ==
  \A j \in DOMAIN st.res :
    st.res[j].rc = "OK" => \E e \in DOMAIN st.made : st.made[e] = [tag |-> j, pid |-> st.res[j].pid]

(* __sup_exited: once a joiner can be let go no child is left whose cleanup was seen
   through, also after a kill inside a group restart; and the supervisor is not touched
   after it was freed. *)
StoppedClean ==
  /\ st.stopped /\ ~st.cut => \A p \in Pids : ~InTable(p)
  /\ st.freed => st.pc \in {"execstop", "gone"}

(* __kid_trampoline and xtc_app_shutdown: once all children have been asked, every body
   that runs has the shutdown message. *)
Asked ==
  st.sd \in {"drain", "classify", "force", "report", "moment", "done"} /\ st.draining =>
    \A p \in Pids : st.proc[p] = "body" => p \in st.asked

(* xtc_app_shutdown: when its force phase ended before its deadline and the supervisor
   was not cut short, nothing of the application runs and nobody is reported a survivor;
   and nothing drains an application that is destroyed. *)
ReportRight ==
  /\ st.forcedAll /\ ~st.cut /\ st.sd = "done" =>
       Survivors = {} /\ \A p \in Pids : ~InTable(p)
  /\ st.run = "destroyed" => st.sd \in {"idle", "done"}

(* A supervisor that was told to stop, or killed, lets its joiner go. *)
MustStop == (st.stop_requested \/ st.killed) /\ ~st.stopped
Stopped == st.stopped

(* What a supervisor and its application owe their user, together. *)
Supervised ==
  /\ NoOverlap /\ Tracked /\ IntensityExact /\ PoolBounded /\ AddExact
  /\ StoppedClean /\ Asked /\ ReportRight
=============================================================================
