----------------------------- MODULE ProcLinks -----------------------------
(***************************************************************************)
(* Links, monitors and the exit of ptc/proc.c.  A proc runs on a loop of   *)
(* its own, so its calls interleave with those of its peers.  A peer's     *)
(* lists are reached under the stripe lock of its slot; a proc reaches its *)
(* own `links` without a lock, so its read of the head and its store are   *)
(* separate steps.                                                         *)
(***************************************************************************)
EXTENDS Integers, Sequences, FiniteSets
LOCAL INSTANCE SequencesExt

CONSTANTS
  Procs,      \* the procs, the children included
  Children,   \* spawned by one of the others
  None,
  MaxCalls,   \* bound: calls a proc makes before it exits
  MaxRefs,    \* bound: monitors established
  MON_SWEEP   \* entries on `monitors` that start a sweep

NOPROC == 99  \* XTC_DOWN_NOPROC
Refs == 1 .. MaxRefs
Reasons == {-1, 0, 1}

(* st has, for every proc, the fields
     pc, peer, seen         step, the other proc of the call, the list head it read
     rel, parent            how and by whom it was spawned
     slot, alive, lock      in the table; running; holder of the stripe lock
     links, monitored_by, monitors     struct xtc_proc: procs, refs, refs
     trap_exit, kill_pending, exit_reason
     outL, outM, outW       the lists the exit detached
     mbox                   DOWN and EXIT messages received
     calls
     unlinked               history: peers given up
   and for every monitor
     refs, target, watcher  mon_entry of the watcher; refs = 0 when freed
     heard                  history: the call that made it has returned
   and nref, the monitors made so far. *)
VARIABLE st

Init ==
  st = [pc |-> [p \in Procs |-> IF p \in Children THEN "unborn" ELSE "body"],
        peer |-> [p \in Procs |-> None], seen |-> [p \in Procs |-> <<>>],
        rel |-> [p \in Procs |-> "none"], parent |-> [p \in Procs |-> None],
        slot |-> [p \in Procs |-> p \notin Children],
        alive |-> [p \in Procs |-> p \notin Children],
        lock |-> [p \in Procs |-> None],
        links |-> [p \in Procs |-> <<>>], monitored_by |-> [p \in Procs |-> <<>>],
        monitors |-> [p \in Procs |-> <<>>], trap_exit |-> [p \in Procs |-> FALSE],
        kill_pending |-> [p \in Procs |-> 0], exit_reason |-> [p \in Procs |-> 0],
        outL |-> [p \in Procs |-> <<>>], outM |-> [p \in Procs |-> <<>>],
        outW |-> [p \in Procs |-> <<>>], mbox |-> [p \in Procs |-> <<>>],
        calls |-> [p \in Procs |-> 0], unlinked |-> [p \in Procs |-> {}],
        refs |-> [r \in Refs |-> 0], target |-> [r \in Refs |-> None],
        watcher |-> [r \in Refs |-> None], heard |-> {}, nref |-> 0]

(* A proc that makes a call, and the steps that end one. *)
Calls(p) == st.pc[p] = "body" /\ st.calls[p] < MaxCalls
Known(q) == st.alive[q] /\ st.pc[q] # "new"    \* alive, and its pid is out
Down(r, q, why) == [kind |-> "D", ref |-> r, pid |-> q, reason |-> why]
Exit(q, why) == [kind |-> "E", ref |-> 0, pid |-> q, reason |-> why]

----------------------------------------------------------------------------
(* xtc_link: the peer is there, and the head of the own list is read ... *)
LinkCheck(p, q) ==
  /\ Calls(p) /\ Known(q)
  /\ st' = [st EXCEPT !.pc[p] = "link", !.peer[p] = q, !.seen[p] = st.links[p],
                      !.calls[p] = @ + 1, !.unlinked[p] = @ \ {q}]

(* ... and replaced, ... *)
LinkSelf(p) ==
  /\ st.pc[p] = "link"
  /\ st' = [st EXCEPT !.pc[p] = "push", !.links[p] = <<st.peer[p]>> \o st.seen[p]]

(* ... then __peer_push_link: under the lock of the peer's slot it is tested once more
   and the head of its list read, ... *)
LinkPeer(p) ==
  LET q == st.peer[p] IN
  /\ st.pc[p] = "push" /\ st.lock[q] = None
  /\ IF st.slot[q] /\ st.alive[q]
     THEN st' = [st EXCEPT !.pc[p] = "pushed", !.lock[q] = p, !.seen[p] = st.links[q]]
     ELSE st' = [st EXCEPT !.pc[p] = "body"]

(* ... and replaced. *)
LinkPeerStore(p) ==
  LET q == st.peer[p] IN
  /\ st.pc[p] = "pushed"
  /\ st' = [st EXCEPT !.pc[p] = "body", !.lock[q] = None,
                      !.links[q] = <<p>> \o st.seen[p]]

(* xtc_unlink walks the own list from the head it read ... *)
UnlinkRead(p, q) ==
  /\ Calls(p) /\ \E i \in DOMAIN st.links[p] : st.links[p][i] = q
  /\ st' = [st EXCEPT !.pc[p] = "unlink", !.peer[p] = q, !.seen[p] = st.links[p],
                      !.calls[p] = @ + 1]

(* ... and takes the first entry of the peer out: at the head by a store to it. *)
UnlinkStore(p) ==
  LET q == st.peer[p]
      s == st.seen[p]
      front == SubSeq(st.links[p], 1, Len(st.links[p]) - Len(s))
  IN /\ st.pc[p] = "unlink"
     /\ st' = [st EXCEPT !.pc[p] = "body",
                         !.links[p] = IF Head(s) = q THEN Tail(s)
                                                     ELSE front \o RemoveFirst(s, q),
                         !.unlinked[p] = IF st.alive[q] THEN @ \cup {q} ELSE @]

TrapExit(p) ==
  /\ Calls(p)
  /\ st' = [st EXCEPT !.trap_exit[p] = ~@, !.calls[p] = @ + 1]

----------------------------------------------------------------------------
(* xtc_monitor of a proc that is gone sends the caller a DOWN, ... *)
MonitorGone(p, q) ==
  /\ Calls(p) /\ ~st.alive[q] /\ st.pc[q] # "unborn" /\ st.nref < MaxRefs
  /\ st' = [st EXCEPT !.nref = @ + 1, !.calls[p] = @ + 1,
                      !.target[st.nref + 1] = q, !.watcher[st.nref + 1] = p,
                      !.heard = @ \cup {st.nref + 1},
                      !.mbox[p] = Append(@, Down(st.nref + 1, q, NOPROC))]

(* ... of one that is alive makes the two entries, ... *)
MonitorCheck(p, q) ==
  /\ Calls(p) /\ Known(q) /\ st.nref < MaxRefs
  /\ st' = [st EXCEPT !.nref = @ + 1, !.calls[p] = @ + 1, !.peer[p] = q,
                      !.target[st.nref + 1] = q, !.watcher[st.nref + 1] = p,
                      !.refs[st.nref + 1] = 1, !.pc[p] = "monitor"]

(* The entry the caller is about to push on its own list. *)
Held(p) == CHOOSE r \in Refs : st.watcher[r] = p /\ \A s \in Refs : st.watcher[s] = p => s <= r

(* ... one goes to the target, under its lock and if it is still there, ... *)
MonitorPush(p) ==
  LET q == st.peer[p] IN
  /\ st.pc[p] = "monitor" /\ st.lock[q] = None
  /\ st' = IF st.slot[q] /\ st.alive[q]
           THEN [st EXCEPT !.pc[p] = "watch", !.refs[Held(p)] = 2,
                           !.monitored_by[q] = <<Held(p)>> \o @]
           ELSE [st EXCEPT !.pc[p] = "watch"]

(* The entries of `monitors` that nobody else holds: what __mon_watch_push frees. *)
Sweeps(p) == Len(st.monitors[p]) >= MON_SWEEP
Swept(p) == {r \in Range(st.monitors[p]) : Sweeps(p) /\ st.refs[r] = 1}
Watched(p, r) == <<r>> \o SelectSeq(st.monitors[p], LAMBDA x : x \notin Swept(p))
RefsSwept(p) == [r \in Refs |-> IF r \in Swept(p) THEN 0 ELSE st.refs[r]]

(* ... the other to the caller's own list. *)
MonitorWatch(p) ==
  /\ st.pc[p] = "watch"
  /\ st' = [st EXCEPT !.pc[p] = "body", !.refs = RefsSwept(p),
                      !.monitors[p] = Watched(p, Held(p)),
                      !.heard = @ \cup {Held(p)}]

----------------------------------------------------------------------------
(* __proc_spawn_core: the child has its slot and its end of the relation before it is
   queued; the parent's end of a link is a store to the head it read. *)
SpawnLink(p, c) ==
  /\ Calls(p) /\ st.pc[c] = "unborn"
  /\ st' = [st EXCEPT !.pc[p] = "spawn", !.peer[p] = c, !.calls[p] = @ + 1,
                      !.seen[p] = st.links[p], !.slot[c] = TRUE, !.alive[c] = TRUE,
                      !.links[c] = <<p>>, !.rel[c] = "link", !.parent[c] = p, !.pc[c] = "new"]

SpawnMonitor(p, c) ==
  /\ Calls(p) /\ st.pc[c] = "unborn" /\ st.nref < MaxRefs
  /\ LET r == st.nref + 1 IN
     st' = [st EXCEPT !.pc[p] = "spawn", !.peer[p] = c, !.calls[p] = @ + 1,
                      !.slot[c] = TRUE, !.alive[c] = TRUE, !.nref = r,
                      !.target[r] = c, !.watcher[r] = p,
                      !.refs = [RefsSwept(p) EXCEPT ![r] = 2],
                      !.monitors[p] = Watched(p, r), !.monitored_by[c] = <<r>>,
                      !.rel[c] = "monitor", !.parent[c] = p, !.pc[c] = "new"]

Born(c) == {r \in Refs : st.target[r] = c /\ st.refs[r] > 0}
LinksOf(p, c) == IF st.rel[c] = "link" THEN <<c>> \o st.seen[p] ELSE st.links[p]

(* A mutant: the child is queued before the relation is there. *)
SpawnQueuedEarly(p) ==
  LET c == st.peer[p] IN
  /\ st.pc[p] = "spawn"
  /\ st' = [st EXCEPT !.pc[p] = "body", !.pc[c] = "body", !.links[p] = LinksOf(p, c),
                      !.links[c] = <<>>, !.monitored_by[c] = <<>>,
                      !.heard = @ \cup Born(c)]

SpawnQueued(p) ==
  LET c == st.peer[p] IN
  /\ st.pc[p] = "spawn"
  /\ st' = [st EXCEPT !.pc[p] = "body", !.pc[c] = "body", !.links[p] = LinksOf(p, c),
                      !.heard = @ \cup Born(c)]

(* The child cannot be queued: its parent's entries and the child itself go. *)
SpawnFails(p) ==
  LET c == st.peer[p] IN
  /\ st.pc[p] = "spawn"
  /\ st' = [st EXCEPT !.pc[p] = "body", !.pc[c] = "unborn",
                      !.links[p] = IF st.rel[c] = "link" THEN st.seen[p] ELSE @,
                      !.monitors[p] = SelectSeq(@, LAMBDA r : r \notin Born(c)),
                      !.refs = [r \in Refs |-> IF r \in Born(c) THEN 0 ELSE @[r]],
                      !.links[c] = <<>>, !.monitored_by[c] = <<>>, !.rel[c] = "none",
                      !.slot[c] = FALSE, !.alive[c] = FALSE]

----------------------------------------------------------------------------
(* xtc_exit_self jumps to __proc_entry with why + 1.  A jump with 0 arrives as 1, so that
   -1 ends as a normal exit, like 0. *)
ExitReason(why) == (IF why + 1 = 0 THEN 1 ELSE why + 1) - 1

(* __proc_entry after the body: xtc_exit_self reports its own reason, kill or no kill, and
   a return without one is normal; ... *)
Dies(p, why) ==
  /\ st.pc[p] = "body"
  /\ st' = [st EXCEPT !.alive[p] = FALSE, !.exit_reason[p] = ExitReason(why), !.pc[p] = "detach"]

(* ... a kill that is delivered, or that the body did not get to deliver before it
   returned, is the reason. *)
DiesKilled(p) ==
  /\ st.pc[p] = "body" /\ st.kill_pending[p] # 0
  /\ st' = [st EXCEPT !.alive[p] = FALSE, !.exit_reason[p] = st.kill_pending[p] - 1,
                      !.pc[p] = "detach"]

(* __notify_links_and_monitors: the lists are detached with the slot, ... *)
Detach(p) ==
  /\ st.pc[p] = "detach" /\ st.lock[p] = None
  /\ st' = [st EXCEPT !.slot[p] = FALSE, !.pc[p] = "links",
                      !.outL[p] = st.links[p], !.links[p] = <<>>,
                      !.outM[p] = st.monitored_by[p], !.monitored_by[p] = <<>>,
                      !.outW[p] = st.monitors[p], !.monitors[p] = <<>>]

(* ... every linked peer that is there is asked whether it traps exits, ... *)
LinkNext(p) ==
  LET q == Head(st.outL[p]) IN
  /\ st.pc[p] = "links" /\ st.outL[p] # <<>>
  /\ st' = IF st.slot[q] /\ st.trap_exit[q] THEN [st EXCEPT !.pc[p] = "tell"]
           ELSE IF st.slot[q] /\ st.exit_reason[p] # 0 THEN [st EXCEPT !.pc[p] = "kill"]
           ELSE [st EXCEPT !.outL[p] = Tail(@)]

(* ... and gets an EXIT message ... *)
LinkTell(p) ==
  LET q == Head(st.outL[p]) IN
  /\ st.pc[p] = "tell"
  /\ st' = [st EXCEPT !.pc[p] = "links", !.outL[p] = Tail(@),
                      !.mbox[q] = IF st.alive[q] THEN Append(@, Exit(p, st.exit_reason[p]))
                                                 ELSE @]

(* __exit_pid_on: 0 stands for no kill, so the reason is stored as its successor; -1, for
   which that is 0 too, would leave no mark. *)
Encoded(reason) == IF reason = 0 THEN 1 ELSE reason + 1

(* ... or is killed with the same reason, unless it is being killed; *)
LinkKill(p) ==
  LET q == Head(st.outL[p])
      first == st.alive[q] /\ st.kill_pending[q] = 0
  IN /\ st.pc[p] = "kill"
     /\ st' = [st EXCEPT !.pc[p] = "links", !.outL[p] = Tail(@),
                         !.kill_pending[q] = IF first THEN Encoded(st.exit_reason[p]) ELSE @]

(* ... every watcher gets its DOWN and its entry is released, ... *)
DownNext(p) ==
  LET r == Head(st.outM[p])
      w == st.watcher[r]
  IN /\ st.pc[p] = "links" /\ st.outL[p] = <<>> /\ st.outM[p] # <<>>
     /\ st' = [st EXCEPT !.outM[p] = Tail(@), !.refs[r] = @ - 1,
                         !.mbox[w] = IF st.alive[w] THEN Append(@, Down(r, p, st.exit_reason[p]))
                                                    ELSE @]

(* ... and the own entries are released. *)
PutNext(p) ==
  /\ st.pc[p] = "links" /\ st.outL[p] = <<>> /\ st.outM[p] = <<>>
  /\ st' = IF st.outW[p] = <<>> THEN [st EXCEPT !.pc[p] = "done"]
           ELSE [st EXCEPT !.outW[p] = Tail(@), !.refs[Head(st.outW[p])] = @ - 1]

Next ==
  \E p \in Procs :
    \/ \E q \in Procs \ {p} :
         LinkCheck(p, q) \/ UnlinkRead(p, q) \/ MonitorGone(p, q) \/ MonitorCheck(p, q)
    \/ \E c \in Children \ {p} : SpawnLink(p, c) \/ SpawnMonitor(p, c)
    \/ LinkSelf(p) \/ LinkPeer(p) \/ LinkPeerStore(p) \/ UnlinkStore(p) \/ TrapExit(p)
    \/ MonitorPush(p) \/ MonitorWatch(p) \/ SpawnQueued(p) \/ SpawnFails(p)
    \/ \E why \in Reasons : Dies(p, why)
    \/ DiesKilled(p) \/ Detach(p) \/ LinkNext(p) \/ LinkTell(p) \/ LinkKill(p)
    \/ DownNext(p) \/ PutNext(p)

----------------------------------------------------------------------------
(* Properties *)

TypeOK ==
  /\ st.refs \in [Refs -> 0 .. 2]
  /\ st.links \in [Procs -> Seq(Procs)] /\ st.seen \in [Procs -> Seq(Procs)]
  /\ st.lock \in [Procs -> Procs \cup {None}]
  /\ \A p \in Procs : st.alive[p] => st.slot[p]

Downs(r) ==
  {i \in DOMAIN st.mbox[st.watcher[r]] :
     st.mbox[st.watcher[r]][i].kind = "D" /\ st.mbox[st.watcher[r]][i].ref = r}

(* A monitor is answered by one DOWN at most, which carries the reason of the target's
   exit or says that the target was gone before. *)
DownOnce ==
  \A r \in 1 .. st.nref :
    /\ Cardinality(Downs(r)) <= 1
    /\ \A i \in Downs(r) :
         st.mbox[st.watcher[r]][i].reason \in {st.exit_reason[st.target[r]], NOPROC}

Holders(r) ==
  LET w == st.watcher[r]
      t == st.target[r]
      mine == Range(st.monitors[w]) \cup Range(st.outW[w])
              \cup (IF st.pc[w] \in {"monitor", "watch"} THEN {Held(w)} ELSE {})
      theirs == Range(st.monitored_by[t]) \cup Range(st.outM[t])
  IN Cardinality({x \in {<<"w", mine>>, <<"t", theirs>>} : r \in x[2]})

(* The two ends of a monitor hold its entry and nobody else does: it is freed when the
   last of them lets go, whichever exits or sweeps first, and not before. *)
EntryHeld == \A r \in 1 .. st.nref : st.refs[r] = Holders(r)

(* A proc spawned with a link or a monitor never ends unheard: once its exit is through,
   a parent that still runs has its DOWN, or, unless the child gave the link up, was told
   of an exit that was not normal or killed by it. *)
SpawnHeard ==
  \A c \in Children :
    LET p == st.parent[c] IN
    st.pc[c] = "done" /\ p # None /\ st.alive[p] /\ p \notin st.unlinked[c] =>
      CASE st.rel[c] = "monitor" ->
             \E m \in Range(st.mbox[p]) : m.kind = "D" /\ m.pid = c /\ m.reason = st.exit_reason[c]
        [] st.rel[c] = "link" ->
             \/ st.exit_reason[c] = 0 \/ st.kill_pending[p] # 0
             \/ \E m \in Range(st.mbox[p]) : m.kind = "E" /\ m.pid = c
        [] OTHER -> TRUE

(* What xtc_monitor says of any target: once the target's exit is through, a watcher that
   still runs has its DOWN. *)
DownDelivered ==
  \A r \in st.heard :
    st.pc[st.target[r]] = "done" /\ st.pc[st.watcher[r]] = "body" => Downs(r) # {}
=============================================================================
