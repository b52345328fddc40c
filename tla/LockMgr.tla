------------------------------ MODULE LockMgr ------------------------------
(***************************************************************************)
(* The lock manager of ptc/lock_mgr.c: per-object lists of granted and     *)
(* waiting entries, the conflict matrix, conversions, compound requests    *)
(* and the deadlock detector.  A critical section of a partition's mutex   *)
(* is one action.  A waiter runs again when it is granted, aborted, killed *)
(* or out of time; a locker is used by one caller.                         *)
(***************************************************************************)
EXTENDS Naturals, Sequences, FiniteSets
LOCAL INSTANCE SequencesExt
LOCAL INSTANCE Relation

CONSTANTS
  Lockers,    \* numbers: the order of their ids, and of their ctime
  Objs,
  Modes,      \* the modes that are asked for
  Timed,      \* the lockers whose requests have a timeout
  MayDie,     \* the lockers on a fiber that may be killed
  Vecs,       \* the vectors of xtc_lock_vec that are used
  Policy,     \* opts.victim
  Detects,    \* whether the detector runs
  Ops,        \* the calls that are made
  MaxCalls    \* bound: calls per locker

(* st has the fields
     granted   per object: the entries [l, m], newest first
     waiting   per object: the lockers whose entries wait, in queue order
     call      per locker: what it is in: pc, and of the wait o, m, granted, aborted, up
     vec       per locker: the rest of its vector, what it has to undo, its state before
     n_held, n_write_held     per locker: the counters of its locker_rec
     killed    the fibers with a kill pending
     edges     the detector's graph, while it runs
     detecting the detector holds the partitions
     rc        per locker: what its last request returned
     left      history: objects whose queue was left ungranted since the last promotion
     freed     history: an entry was freed while it was on a granted list
     calls     calls so far *)
VARIABLE st

NoCall == [pc |-> "idle", o |-> "none", m |-> "NL", granted |-> FALSE, aborted |-> FALSE,
           up |-> FALSE]

Gone == [NoCall EXCEPT !.pc = "dead"]
NoVec == [todo |-> <<>>, undo |-> <<>>, before |-> <<>>]

Init ==
  st = [granted |-> [o \in Objs |-> <<>>], waiting |-> [o \in Objs |-> <<>>],
        call |-> [l \in Lockers |-> NoCall],
        vec |-> [l \in Lockers |-> NoVec],
        n_held |-> [l \in Lockers |-> 0], n_write_held |-> [l \in Lockers |-> 0],
        killed |-> {}, edges |-> {}, detecting |-> FALSE,
        rc |-> [l \in Lockers |-> "none"], left |-> {}, freed |-> FALSE,
        calls |-> [l \in Lockers |-> 0]]

----------------------------------------------------------------------------
(* XTC_DEFAULT_CONFLICTS_9: the modes that conflict with each mode. *)
Against ==
  [NL |-> {}, S |-> {"X", "IX", "IWR", "WW"},
   X |-> {"S", "X", "WT", "IX", "IS", "IWR", "RU", "WW"}, WT |-> {},
   IX |-> {"S", "X", "RU", "WW"}, IS |-> {"X", "WW"}, IWR |-> {"S", "X", "RU", "WW"},
   RU |-> {"X", "IX", "IWR"}, WW |-> {"S", "X", "IX", "IS", "IWR", "WW"}]

Conflicts(held, req) == req \in Against[held]

(* __dominates: p excludes, and is excluded by, at least what q is. *)
Dominates(p, q) ==
  /\ Against[q] \subseteq Against[p]
  /\ \A k \in DOMAIN Against : q \in Against[k] => p \in Against[k]

WriteMode == {"X", "IX", "IWR", "WW"}
Writes(m) == IF m \in WriteMode THEN 1 ELSE 0

(* __has_conflict_granted *)
HasConflict(s, o, l, m) ==
  \E i \in DOMAIN s.granted[o] : s.granted[o][i].l # l /\ Conflicts(s.granted[o][i].m, m)

(* __find_granted: the locker's newest entry on the object, or 0. *)
Held(s, o, l) == {i \in DOMAIN s.granted[o] : s.granted[o][i].l = l}
Newest(s, o, l) ==
  IF Held(s, o, l) = {} THEN 0
  ELSE CHOOSE i \in Held(s, o, l) : \A j \in Held(s, o, l) : i <= j

(* The counters of a granted entry. *)
Account(s, l, m) == [s EXCEPT !.n_held[l] = @ + 1, !.n_write_held[l] = @ + Writes(m)]

(* The loop that grants waiters from the head of the queue until one conflicts: the
   number of those it grants, and the state after. *)
Granting(s, o, n) ==
  [s EXCEPT !.waiting[o] = SubSeq(@, n + 1, Len(@)),
            !.granted[o] = [i \in 1 .. n |-> [l |-> s.waiting[o][n + 1 - i],
                                              m |-> s.call[s.waiting[o][n + 1 - i]].m]] \o @,
            !.call = [l \in Lockers |->
                        IF \E i \in 1 .. n : s.waiting[o][i] = l
                          THEN [s.call[l] EXCEPT !.granted = TRUE] ELSE s.call[l]]]

Promote(s, o) ==
  LET free(n) == LET w == s.waiting[o][n]
                 IN ~HasConflict(Granting(s, o, n - 1), o, w, s.call[w].m)
      n == CHOOSE n \in 0 .. Len(s.waiting[o]) :
             /\ \A i \in 1 .. n : free(i)
             /\ n < Len(s.waiting[o]) => ~free(n + 1)
  IN [Granting(s, o, n) EXCEPT !.left = @ \ {o}]

(* __release_entry_locked, of a granted entry *)
ReleaseEntry(s, o, i) ==
  LET e == s.granted[o][i]
  IN Promote([s EXCEPT !.granted[o] = RemoveAt(@, i), !.n_held[e.l] = @ - 1,
                       !.n_write_held[e.l] = @ - Writes(e.m)], o)

(* Whether an entry of the locker was granted to a wait that has not seen it. *)
Unseen(s, l) == s.call[l].pc = "wait" /\ s.call[l].granted

(* xtc_lock_release_all on one object: the locker's wait is aborted, then the entries it
   has now are released, newest first.  What a release grants is put before them and is
   not visited. *)
AbortWait(s, o, l) ==
  IF l \in Range(s.waiting[o]) THEN [s EXCEPT !.call[l].aborted = TRUE] ELSE s

ReleaseOn(s, o, l) ==
  LET behind == SetToSortSeq({Len(s.granted[o]) - i : i \in Held(s, o, l)}, LAMBDA i, j : i > j)
  IN FoldLeft(LAMBDA q, n : ReleaseEntry(q, o, Len(q.granted[o]) - n), AbortWait(s, o, l), behind)

(* The walk over all partitions, in the order of the objects. *)
ReleaseAll(s, l) == FoldLeft(LAMBDA q, o : ReleaseOn(q, o, l), s, SetToSeq(Objs))

----------------------------------------------------------------------------
Quiet == ~st.detecting /\ ~st.freed
Begin(l) == Quiet /\ st.call[l].pc = "idle" /\ st.calls[l] < MaxCalls
Counted(s, l) == [s EXCEPT !.calls[l] = @ + 1]
Returns(s, l, rc) == [s EXCEPT !.rc[l] = rc]


(* __do_acquire_locked up to its wait: the request is dominated by what is held, raises
   it in place, is granted as a further entry, or is queued, a conversion first. *)
AcquireLocked(s, o, l, m, wait) ==
  LET i == Newest(s, o, l)
      prior == IF i = 0 THEN "NL" ELSE s.granted[o][i].m
      merges == i # 0 /\ ~Conflicts(prior, m)
  IN IF merges /\ Dominates(prior, m) THEN Returns(s, l, "OK")
     ELSE IF merges /\ Dominates(m, prior) /\ ~HasConflict(s, o, l, m)
       THEN Returns([s EXCEPT !.granted[o][i].m = m,
                              !.n_write_held[l] = @ + Writes(m) - Writes(prior)], l, "OK")
     ELSE IF ~HasConflict(s, o, l, m) /\ (i # 0 \/ s.waiting[o] = <<>>)
       THEN Returns(Account([s EXCEPT !.granted[o] = <<[l |-> l, m |-> m]>> \o @], l, m),
                    l, "OK")
     ELSE IF ~wait THEN Returns(s, l, "AGAIN")
     ELSE [s EXCEPT !.waiting[o] = IF i # 0 THEN <<l>> \o @ ELSE Append(@, l), !.rc[l] = "none",
                    !.call[l] = [NoCall EXCEPT !.pc = "wait", !.o = o, !.m = m]]

(* xtc_lock_get; timeout_ns = 0 does not wait. *)
Get(l, o, m, wait) ==
  /\ "get" \in Ops /\ Begin(l)
  /\ st' = Counted(AcquireLocked(st, o, l, m, wait), l)

(* xtc_lock_put *)
Put(l, o) ==
  /\ Quiet /\ st.call[l].pc = "idle" /\ Held(st, o, l) # {}
  /\ st' = ReleaseEntry(st, o, Newest(st, o, l))

(* xtc_lock_release_all; for a dead locker xtc_lockmgr_failchk or xtc_lockmgr_id_free. *)
PutAll(l) ==
  /\ Quiet /\ \/ "all" \in Ops /\ st.call[l].pc = "idle"
              \/ st.call[l].pc = "dead"
  /\ \E o \in Objs : Held(st, o, l) # {}
  /\ st' = ReleaseAll(st, l)

(* xtc_lock_upgrade: in place, or by a wait at the new mode. *)
Upgrade(l, o, m) ==
  /\ "up" \in Ops /\ Begin(l) /\ Held(st, o, l) # {}
  /\ LET i == Newest(st, o, l)
         cur == st.granted[o][i].m
     IN /\ m # cur /\ Dominates(m, cur)
        /\ st' = Counted(
             IF HasConflict(st, o, l, m)
               THEN [AcquireLocked(st, o, l, m, TRUE) EXCEPT !.call[l].up = TRUE]
               ELSE Returns([st EXCEPT !.granted[o][i].m = m,
                               !.n_write_held[l] = @ + Writes(m) - Writes(cur)], l, "OK"), l)


DowngradeTo(s, o, l, m) ==
  LET i == Newest(s, o, l)
      cur == s.granted[o][i].m
      fewer == IF Writes(cur) = 1 /\ Writes(m) = 0 THEN 1 ELSE 0
  IN IF ~Dominates(cur, m) THEN s
     ELSE Promote([s EXCEPT !.granted[o][i].m = m, !.n_write_held[l] = @ - fewer], o)

(* xtc_lock_downgrade *)
Downgrade(l, o, m) ==
  /\ "down" \in Ops /\ Begin(l) /\ Held(st, o, l) # {}
  /\ st' = Counted(DowngradeTo(st, o, l, m), l)

----------------------------------------------------------------------------
(* The wait of __do_acquire_locked *)

Waits(l) == Quiet /\ st.call[l].pc = "wait"
Kills(l) == l \in st.killed

(* The end of a request: the vector goes on, or rolls back; other calls return. *)
Resume(s, l) ==
  [s EXCEPT !.call[l] = IF s.vec[l].before # <<>> THEN [NoCall EXCEPT !.pc = "vec"] ELSE NoCall]

(* The waiter is unlinked from the waiting list.  An entry that a release has moved to
   the granted list meanwhile is freed with that list still pointing to it. *)
LeaveQueue(s, l, rc) ==
  LET o == s.call[l].o
  IN Resume(Returns([s EXCEPT !.waiting[o] = SelectSeq(@, LAMBDA w : w # l),
                              !.left = @ \cup {o}, !.freed = s.call[l].granted], l, rc), l)

(* The wait was granted: the counters, and for an upgrade the older entry goes. *)
WaitGranted(l) ==
  /\ Waits(l) /\ ~Kills(l) /\ ~st.call[l].aborted /\ st.call[l].granted
  /\ LET o == st.call[l].o
         s == Account(st, l, st.call[l].m)
         older == Held(s, o, l) \ {Newest(s, o, l)}
         next == CHOOSE i \in older : \A j \in older : i <= j
     IN st' = Resume(Returns(
           IF st.call[l].up /\ older # {} THEN ReleaseEntry(s, o, next) ELSE s, l, "OK"), l)

(* It was chosen as a victim.  Nobody looks whether it was granted as well. *)
WaitAborted(l) ==
  /\ Waits(l) /\ ~Kills(l) /\ st.call[l].aborted
  /\ st' = LeaveQueue(st, l, "DEADLK")

WaitTimesOut(l) ==
  /\ Waits(l) /\ ~Kills(l) /\ ~st.call[l].aborted /\ ~st.call[l].granted /\ l \in Timed
  /\ st' = LeaveQueue(st, l, "AGAIN")

(* A kill: a grant that came first is counted and released again.  The fiber unwinds. *)
WaitKilled(l) ==
  /\ Waits(l) /\ Kills(l)
  /\ LET o == st.call[l].o
         s == Account(st, l, st.call[l].m)
     IN st' = [IF st.call[l].granted
                       THEN Returns(ReleaseEntry(s, o, Newest(s, o, l)), l, "ABORTED")
                       ELSE LeaveQueue(st, l, "ABORTED")
                     EXCEPT !.killed = @ \ {l}, !.call[l] = Gone, !.vec[l] = NoVec]

Kill(l) ==
  /\ l \in MayDie /\ ~Kills(l) /\ st.call[l].pc = "wait"
  /\ st' = [st EXCEPT !.killed = @ \cup {l}]

----------------------------------------------------------------------------
(* xtc_lock_vec of GETs *)

HeldBy(s, l) == [o \in Objs |-> SelectSeq(s.granted[o], LAMBDA e : e.l = l)]

VecBegin(l, v) ==
  /\ "vec" \in Ops /\ Begin(l) /\ v \in Vecs
  /\ st' = [Counted(st, l) EXCEPT
              !.vec[l] = [todo |-> v, undo |-> <<>>, before |-> <<HeldBy(st, l)>>],
              !.call[l].pc = "vec", !.rc[l] = "OK"]

(* __held_snapshot and the GET of the next request *)
VecGet(l) ==
  /\ Quiet /\ st.call[l].pc = "vec" /\ st.rc[l] = "OK" /\ st.vec[l].todo # <<>>
  /\ Head(st.vec[l].todo).op = "GET"
  /\ LET r == Head(st.vec[l].todo)
         i == Newest(st, r.o, l)
         undo == [o |-> r.o, n |-> Cardinality(Held(st, r.o, l)),
                  m |-> IF i = 0 THEN "NL" ELSE st.granted[r.o][i].m]
     IN st' = AcquireLocked(
                [st EXCEPT !.vec[l].todo = Tail(@), !.vec[l].undo = <<undo>> \o @],
                r.o, l, r.m, r.wait)

(* A PUT cannot be undone, and keeps all that was done before it. *)
VecPut(l) ==
  /\ Quiet /\ st.call[l].pc = "vec" /\ st.rc[l] = "OK" /\ st.vec[l].todo # <<>>
  /\ Head(st.vec[l].todo).op = "PUT"
  /\ LET o == Head(st.vec[l].todo).o
         s == ReleaseEntry(st, o, Newest(st, o, l))
     IN st' = IF Held(st, o, l) = {} THEN [st EXCEPT !.rc[l] = "INVAL"]
                    ELSE [s EXCEPT !.vec[l] = [todo |-> Tail(@.todo), undo |-> <<>>,
                                               before |-> <<HeldBy(s, l)>>]]

(* A mutant: a mode that was raised in place is not lowered back. *)
VecUndoNewOnly(l) ==
  /\ Quiet /\ st.call[l].pc = "vec" /\ st.rc[l] # "OK" /\ st.vec[l].undo # <<>>
  /\ LET u == Head(st.vec[l].undo)
         s == [st EXCEPT !.vec[l].undo = Tail(@)]
     IN st' = IF Cardinality(Held(s, u.o, l)) > u.n
                      THEN ReleaseEntry(s, u.o, Newest(s, u.o, l)) ELSE s

(* The rollback, newest first: an entry that is new is released, a mode that was raised
   is lowered back.  The request that failed changed nothing and is passed over. *)
VecUndo(l) ==
  /\ Quiet /\ st.call[l].pc = "vec" /\ st.rc[l] # "OK" /\ st.vec[l].undo # <<>>
  /\ LET u == Head(st.vec[l].undo)
         s == [st EXCEPT !.vec[l].undo = Tail(@)]
         i == Newest(s, u.o, l)
     IN st' = IF Cardinality(Held(s, u.o, l)) > u.n THEN ReleaseEntry(s, u.o, i)
                    ELSE IF i # 0 /\ s.granted[u.o][i].m # u.m THEN DowngradeTo(s, u.o, l, u.m)
                    ELSE s

VecEnd(l) ==
  /\ Quiet /\ st.call[l].pc = "vec"
  /\ IF st.rc[l] = "OK" THEN st.vec[l].todo = <<>> ELSE st.vec[l].undo = <<>>
  /\ st' = [st EXCEPT !.call[l] = NoCall, !.vec[l] = NoVec]

----------------------------------------------------------------------------
(* xtc_lockmgr_check_deadlocks: with all partitions locked the graph is read, ... *)
Edges(s) ==
  {<<w, g>> \in Lockers \X Lockers :
     /\ w # g
     /\ \E o \in Objs : /\ w \in Range(s.waiting[o])
                        /\ \E e \in Range(s.granted[o]) :
                             e.l = g /\ Conflicts(e.m, s.call[w].m)}

OnCycle(edges) ==
  LET R == TransitiveClosure([p \in Lockers \X Lockers |-> p \in edges], Lockers)
  IN {l \in Lockers : R[l, l]}

(* ... __dd_dfs stops at the first locker with an edge back into its path, ... *)
Paths(edges) ==
  {p \in UNION {[1 .. n -> Lockers] : n \in 2 .. Cardinality(Lockers)} :
     /\ IsInjective(p)
     /\ \A i \in 1 .. Len(p) - 1 : <<p[i], p[i + 1]>> \in edges
     /\ \E i \in 1 .. Len(p) - 1 : <<p[Len(p)], p[i]>> \in edges}

(* __dd_score; ids are in the order of their ctime, and the expired lockers are Timed. *)
Score(l) ==
  CASE Policy = "YOUNGEST" -> 10 + l
    [] Policy = "OLDEST" -> 10 - l
    [] Policy = "MAX_LOCKS" -> 10 + st.n_held[l]
    [] Policy = "MIN_LOCKS" -> 10 - st.n_held[l]
    [] Policy = "MAX_WRITE" -> 10 + st.n_write_held[l]
    [] Policy = "MIN_WRITE" -> 10 - st.n_write_held[l]
    [] Policy = "EXPIRE" -> IF l \in Timed THEN 1 ELSE 0
    [] OTHER -> 0

(* __dd_pick_victim: the best score on the path from its end, the stem that leads into
   the cycle included.  RANDOM may pick any. *)
Picks(p, v) ==
  IF Policy = "RANDOM" THEN v \in Range(p)
  ELSE \E i \in DOMAIN p : /\ p[i] = v
                           /\ \A j \in DOMAIN p : Score(p[j]) <= Score(v)
                           /\ \A j \in i + 1 .. Len(p) : Score(p[j]) < Score(v)

Detect ==
  /\ Detects /\ Quiet /\ OnCycle(Edges(st)) # {}
  /\ st' = [st EXCEPT !.detecting = TRUE, !.edges = Edges(st)]

(* ... the victim's waits are aborted, its entries released and its edges dropped, ... *)
AbortVictim(v) ==
  /\ st.detecting /\ \E p \in Paths(st.edges) : Picks(p, v)
  /\ Policy = "EXPIRE" => v \in Timed
  /\ st' = [ReleaseAll(st, v) EXCEPT !.edges = {e \in @ : e[1] # v},
                                     !.freed = st.freed \/ Unseen(st, v)]

(* ... a cycle in which none has expired is left alone, ... *)
LeaveCycle ==
  /\ st.detecting /\ Policy = "EXPIRE"
  /\ \E p \in Paths(st.edges) :
       /\ Range(p) \cap Timed = {}
       /\ st' = [st EXCEPT !.edges = {e \in @ : e[1] # p[Len(p)]}]

(* ... until no cycle is left. *)
DetectEnd ==
  /\ st.detecting /\ OnCycle(st.edges) = {}
  /\ st' = [st EXCEPT !.detecting = FALSE, !.edges = {}]

Next ==
  \/ \E l \in Lockers, o \in Objs :
       \/ Put(l, o)
       \/ \E m \in Modes : \/ \E wait \in BOOLEAN : Get(l, o, m, wait)
                           \/ Upgrade(l, o, m) \/ Downgrade(l, o, m)
  \/ \E l \in Lockers :
       \/ PutAll(l) \/ WaitGranted(l) \/ WaitAborted(l) \/ WaitTimesOut(l) \/ WaitKilled(l)
       \/ Kill(l) \/ VecGet(l) \/ VecPut(l) \/ VecUndo(l) \/ VecEnd(l) \/ AbortVictim(l)
       \/ \E v \in Vecs : VecBegin(l, v)
  \/ Detect \/ LeaveCycle \/ DetectEnd

----------------------------------------------------------------------------
(* Entries name lockers and modes, and counters are numbers. *)
TypeOK ==
  /\ \A o \in Objs : /\ \A e \in Range(st.granted[o]) : e.l \in Lockers /\ e.m \in DOMAIN Against
                     /\ Range(st.waiting[o]) \subseteq Lockers
  /\ st.n_held \in [Lockers -> Nat] /\ st.n_write_held \in [Lockers -> Nat]

(* Entries of different lockers on one object never conflict, whichever way each of them
   was granted, raised, lowered, promoted or rolled back; and a locker's counters are its
   entries, less the one it has been granted and has not run for. *)
LocksCompatible ==
  ~st.freed =>
  /\ \A o \in Objs : \A d, e \in Range(st.granted[o]) : d.l # e.l => ~Conflicts(d.m, e.m)
  /\ \A l \in Lockers :
       LET own(P(_)) == FoldLeft(LAMBDA n, o :
                          n + Len(SelectSeq(st.granted[o], LAMBDA e : e.l = l /\ P(e.m))), 0,
                          SetToSeq(Objs))
           c == st.call[l]
           late == IF c.granted THEN 1 ELSE 0
       IN /\ st.n_held[l] + late = own(LAMBDA m : TRUE)
          /\ st.n_write_held[l] + (IF c.granted THEN Writes(c.m) ELSE 0)
               = own(LAMBDA m : m \in WriteMode)

(* The head of a queue conflicts with a holder, unless a waiter ahead of it has given up
   since the last release: releases and downgrades grant all they can. *)
NotStranded ==
  \A o \in Objs \ st.left :
    st.waiting[o] # <<>> =>
      LET w == Head(st.waiting[o]) IN HasConflict(st, o, w, st.call[w].m)

(* xtc_lock_vec: a vector of GETs that fails leaves the locker what it held before,
   whatever it had been granted, raised or merged until then; the detector's victim, or
   a locker that was killed, apart. *)
AllOrNone ==
  \A l \in Lockers :
    /\ st.call[l].pc = "vec" /\ st.rc[l] = "AGAIN" /\ st.vec[l].undo = <<>>
    => st.vec[l].before = <<HeldBy(st, l)>>

(* xtc_lockmgr.h: a deadlock victim has had all its locks released by the detector, and
   nothing is held. *)
VictimHoldsNothing ==
  \A l \in Lockers : st.rc[l] = "DEADLK" => \A o \in Objs : Held(st, o, l) = {}
=============================================================================
