------------------------------- MODULE Maps -------------------------------
(***************************************************************************)
(* Structures read without a lock: the concurrent maps of ptc/chash.c and  *)
(* ptc/cskip.c, and the left-right lock of ptc/lock_lr.c.                  *)
(*                                                                         *)
(* Readers take no lock; what a writer unlinks is retired with RCU.  An    *)
(* object retired is freed at the earliest moment RCU allows: when the     *)
(* last read side that was open at the retirement has ended.  A section    *)
(* under the writers' mutexes is one action, except that what readers see  *)
(* of it is split where the code stores more than once.                    *)
(*                                                                         *)
(* The hash table (H): striped writers that look again at the array after  *)
(* they lock, and the resize that copies every node.                       *)
(* The ordered map (S): a skiplist with one writer mutex.                  *)
(* The left-right lock (L): readers announce themselves and read one copy, *)
(* the writer changes the other, swaps them, waits for the readers it saw  *)
(* and brings the stale copy up to date.  A copy is the sequence of the    *)
(* operations applied to it.                                               *)
(***************************************************************************)
EXTENDS Integers, Sequences, FiniteSets
LOCAL INSTANCE SequencesExt
LOCAL INSTANCE FiniteSetsExt

CONSTANTS
  Threads,        \* the threads, of 1 .. some number
  Keys,           \* the keys, numbers; also their hashes
  Ops,            \* what the threads do, of get, insert, remove, floor, min
  MaxOps,         \* bound on the calls
  MinN,           \* H: the initial number of buckets, in place of 16
  AutoShrink,     \* H: xtc_chash_set_auto_shrink
  MayFail,        \* H: allocations of a resize may fail
  MaxLevel,       \* S: XTC_CSKIP_MAXLEVEL
  Readers,        \* L: threads
  Writers,        \* L: threads
  Leavers,        \* L: readers whose thread may exit
  MaxReaders,     \* L: slots of this lock
  MaxSlots,       \* L: XTC_LRLOCK_MAX_GLOBAL_SLOTS
  Cow,            \* L: XTC_LRLOCK_COW
  ReplayMax,      \* L: the longest log that is replayed and not synced
  EpochWrap,      \* L: bound: epochs are counted modulo this, an even number
  MaxNest         \* L: bound

VARIABLE st

Idle == [pc |-> "idle", key |-> 0, a |-> 0, p |-> 0, q |-> 0, n |-> 0, must |-> {}, may |-> {}]

(* RCU.  obj[i] has the fields life (live, retired, freed) and wait, the read sides that were
   open when it was retired. *)
Freed(o) == IF o.life = "retired" /\ o.wait = {} THEN [o EXCEPT !.life = "freed"] ELSE o
Enter(s, t) == [s EXCEPT !.reading = @ \cup {t}]
Leave(s, t) ==
  [s EXCEPT !.reading = @ \ {t},
            !.obj = [i \in DOMAIN @ |-> Freed([@[i] EXCEPT !.wait = @ \ {t}])]]
Retire(s, O) ==
  [s EXCEPT !.obj = [i \in DOMAIN @ |-> IF i \in O
      THEN Freed([@[i] EXCEPT !.life = "retired", !.wait = s.reading]) ELSE @[i]]]

(* Object i is read. *)
Touch(s, i) == [s EXCEPT !.bad = @ \/ s.obj[i].life = "freed"]

Goto(s, t, x) == [s EXCEPT !.th[t].pc = x]
Done(s, t) == [s EXCEPT !.th[t] = Idle]

(* The contents changed: history for the readers, which keys are there all along and which
   pairs are there at some moment. *)
Noted(s) ==
  [s EXCEPT !.th = [t \in Threads |->
      [@[t] EXCEPT !.must = {k \in @ : \E e \in s.abs : e[1] = k}, !.may = @ \cup s.abs]]]
KeysOf(s) == {e[1] : e \in s.abs}
Put(s, k, v) == Noted([s EXCEPT !.abs = {e \in @ : e[1] # k} \cup {<<k, v>>}])
Drop(s, k) == Noted([s EXCEPT !.abs = {e \in @ : e[1] # k}])

(* A reader of k is done: it saw the pairs of F (one or none). *)
Answer(s, t, F) ==
  LET r == s.th[t]
  IN  Done(Leave([s EXCEPT !.wrong = @ \/ ~(F \subseteq r.may) \/ (F = {} /\ r.key \in r.must)],
                 t), t)

----------------------------------------------------------------------------
(* H: the hash table.  st has the fields
     obj               the nodes (k = "node") and bucket arrays (k = "arr") ever allocated
     cur, count        h->arr, h->count
     resizing          h->resizing
     th                th[t]: the call of thread t
     reading           the threads inside an RCU read side
     abs               history: the pairs in the map
     ops, gone         calls made; xtc_chash_destroy was called
     bad, wrong        history: freed memory was read; a get gave a wrong answer *)

Arr(n, head) == [k |-> "arr", n |-> n, head |-> head, life |-> "live", wait |-> {}]
Node(key, val, next) ==
  [k |-> "node", key |-> key, val |-> val, next |-> next, life |-> "live", wait |-> {}]

Bucket(key, n) == key % n

(* The nodes from node i on. *)
Chain(s, i) ==
  LET C[j \in 0 .. Len(s.obj)] ==
        IF j = 0 THEN {i} ELSE C[j - 1] \cup {s.obj[x].next : x \in C[j - 1] \ {0}}
  IN  C[Len(s.obj)] \ {0}
NodesOf(s, a) == UNION {Chain(s, s.obj[a].head[b]) : b \in DOMAIN s.obj[a].head}

(* An array of n buckets that holds the given pairs: each bucket's nodes in a row. *)
Built(s, n, pairs) ==
  LET E == SetToSeq(pairs)
      z == Len(s.obj)
      inB(b) == {i \in DOMAIN E : Bucket(E[i][1], n) = b}
      nxt(i) == {j \in inB(Bucket(E[i][1], n)) : j > i}
  IN  [s EXCEPT !.obj = @ \o [i \in DOMAIN E |-> Node(E[i][1], E[i][2],
                                 IF nxt(i) = {} THEN 0 ELSE z + Min(nxt(i)))]
                          \o <<Arr(n, [b \in 0 .. n - 1 |->
                                 IF inB(b) = {} THEN 0 ELSE z + Min(inB(b))])>>,
                !.cur = z + Len(E) + 1]

HInit ==
  \E P \in SUBSET Keys, n \in {MinN, 2 * MinN} :
    /\ Cardinality(P) * 4 <= n * 3
    /\ st = Built([obj |-> <<>>, cur |-> 0, count |-> Cardinality(P), resizing |-> FALSE,
                   th |-> [t \in Threads |-> Idle], reading |-> {},
                   abs |-> {<<k, 0>> : k \in P}, ops |-> 0, gone |-> FALSE,
                   bad |-> FALSE, wrong |-> FALSE], n, {<<k, 0>> : k \in P})

(* A call begins: the read side is entered and h->arr loaded. *)
Starts(t, op, k) ==
  /\ st.th[t].pc = "idle" /\ st.ops < MaxOps /\ ~st.gone
  /\ st' = Enter([st EXCEPT !.ops = @ + 1,
                    !.th[t] = [Idle EXCEPT !.pc = op, !.key = k, !.a = st.cur,
                                           !.must = IF op = "get" THEN KeysOf(st) ELSE {},
                                           !.may = IF op = "get" THEN st.abs ELSE {}]], t)

(* xtc_chash_get: the bucket's head, then node after node. *)
xtc_chash_get(t) ==
  /\ st.th[t].pc = "get"
  /\ LET r == st.th[t]
         a == st.obj[r.a]
     IN  st' = Touch([Goto(st, t, "walk") EXCEPT !.th[t].p = a.head[Bucket(r.key, a.n)]], r.a)

GetWalk(t) ==
  /\ st.th[t].pc = "walk"
  /\ LET r == st.th[t]
     IN  st' = IF r.p = 0 THEN Answer(st, t, {})
               ELSE LET o == st.obj[r.p]
                        s == Touch(st, r.p)
                    IN  IF o.key = r.key THEN Answer(s, t, {<<o.key, o.val>>})
                        ELSE [s EXCEPT !.th[t].p = o.next]

(* A mutant: the array is not looked at again under the lock. *)
SameArrNoCheck(r) == TRUE

(* Under the stripe lock: is the array still the one the stripe was computed from? *)
SameArr(r) == r.a = st.cur

Found(r) == {x \in Chain(st, st.obj[r.a].head[Bucket(r.key, st.obj[r.a].n)]) : st.obj[x].key = r.key}

Retry(t) ==
  /\ st.th[t].pc \in {"insert", "remove"} /\ ~SameArr(st.th[t])
  /\ st' = Touch([st EXCEPT !.th[t].a = st.cur], st.th[t].a)

(* xtc_chash_insert, with the stripe locked: replace the value, or put a node first.  The
   values there at first are 0, those inserted later 1. *)
xtc_chash_insert(t) ==
  /\ st.th[t].pc = "insert" /\ SameArr(st.th[t])
  /\ LET r == st.th[t]
         b == Bucket(r.key, st.obj[r.a].n)
         z == Len(st.obj) + 1
         s == Touch([st EXCEPT !.th[t].n = st.obj[r.a].n], r.a)
     IN  st' = Put(IF Found(r) # {}
                   THEN Goto([s EXCEPT !.obj = [x \in DOMAIN @ |-> IF x \in Found(r)
                                 THEN [@[x] EXCEPT !.val = 1] ELSE @[x]]], t, "replaced")
                   ELSE Goto([s EXCEPT !.obj = Append([@ EXCEPT ![r.a].head[b] = z],
                                                      Node(r.key, 1, @[r.a].head[b]))], t, "added"),
                   r.key, 1)

(* Node x leaves its chain: its predecessor's link is overwritten, its own is not. *)
Unlinked(s, a, x) ==
  [s EXCEPT !.obj = [i \in DOMAIN @ |->
     IF @[i].k = "arr" THEN (IF i = a THEN [@[i] EXCEPT !.head =
                               [b \in DOMAIN @ |-> IF @[b] = x THEN s.obj[x].next ELSE @[b]]] ELSE @[i])
     ELSE IF @[i].next = x /\ i \in NodesOf(s, a) THEN [@[i] EXCEPT !.next = s.obj[x].next]
     ELSE @[i]]]

(* xtc_chash_remove, with the stripe locked. *)
xtc_chash_remove(t) ==
  /\ st.th[t].pc = "remove" /\ SameArr(st.th[t])
  /\ LET r == st.th[t]
         s == Touch(Goto(st, t, "removed"), r.a)
     IN  st' = IF Found(r) = {} THEN s
               ELSE LET x == CHOOSE x \in Found(r) : TRUE
                    IN  Drop(Unlinked([s EXCEPT !.th[t].p = x], r.a, x), r.key)

(* The read side ends. *)
Unlocks(t) ==
  /\ st.th[t].pc \in {"replaced", "added", "removed"}
  /\ LET s == Leave(st, t)
         r == st.th[t]
     IN  st' = IF r.pc = "added" THEN Goto(s, t, "count")
               ELSE IF r.pc = "removed" /\ r.p # 0 THEN Goto(s, t, "retire") ELSE Done(s, t)

(* The count goes up; past three quarters of the buckets the array grows. *)
Counts(t) ==
  /\ st.th[t].pc = "count"
  /\ LET s == [st EXCEPT !.count = @ + 1]
     IN  st' = IF (st.count + 1) * 4 > st.th[t].n * 3 THEN Goto([s EXCEPT !.th[t].q = 2], t, "cas")
               ELSE Done(s, t)

RetireNode(s, x) == Retire(s, {x})

(* The value is read and the node retired; the count goes down. *)
Retires(t) ==
  /\ st.th[t].pc = "retire"
  /\ st' = RetireNode(Touch(Goto(st, t, "uncount"), st.th[t].p), st.th[t].p)

Uncounts(t) ==
  /\ st.th[t].pc = "uncount"
  /\ LET s == [st EXCEPT !.count = @ - 1]
     IN  st' = IF AutoShrink THEN Goto([s EXCEPT !.th[t].n = st.count - 1], t, "sees") ELSE Done(s, t)

(* __chash_maybe_shrink: the array's size is read inside a read side of its own. *)
Sees(t) ==
  /\ st.th[t].pc = "sees"
  /\ st' = Enter([Goto(st, t, "shrink") EXCEPT !.th[t].a = st.cur], t)

__chash_maybe_shrink(t) ==
  /\ st.th[t].pc = "shrink"
  /\ LET n == st.obj[st.th[t].a].n
         s == Leave(Touch(st, st.th[t].a), t)
     IN  st' = IF n \div 2 < MinN \/ st.th[t].n * 16 >= n * 3 THEN Done(s, t)
               ELSE Goto([s EXCEPT !.th[t].q = 1], t, "cas")

(* __chash_resize: one at a time, others give up; ... *)
Claims(t) ==
  /\ st.th[t].pc = "cas"
  /\ st' = IF st.resizing THEN Done(st, t) ELSE Goto([st EXCEPT !.resizing = TRUE], t, "rebuild")

(* What the resize makes of n buckets, 0 to leave them. *)
__chash_want_grow(n) == 2 * n
__chash_want_shrink(n) ==
  IF n \div 2 < MinN \/ st.count * 16 >= n * 3 THEN 0 ELSE n \div 2

(* ... every node is copied into a new array, which is published; the old nodes and the old
   array are retired. *)
Rebuilt(n) ==
  Retire(Built(st, n, {<<st.obj[x].key, st.obj[x].val>> : x \in NodesOf(st, st.cur)}),
         NodesOf(st, st.cur) \cup {st.cur})

(* With every stripe locked.  An allocation that fails leaves the old array in place. *)
__chash_resize(t) ==
  /\ st.th[t].pc = "rebuild"
  /\ LET old == st.obj[st.cur].n
         n == IF st.th[t].q = 2 THEN __chash_want_grow(old) ELSE __chash_want_shrink(old)
     IN  \E fails \in IF MayFail THEN BOOLEAN ELSE {FALSE} :
           st' = [Goto(IF n = 0 \/ fails THEN st ELSE Rebuilt(n), t, "unclaim")
                    EXCEPT !.resizing = TRUE]

Unclaims(t) ==
  /\ st.th[t].pc = "unclaim"
  /\ st' = Done([st EXCEPT !.resizing = FALSE], t)

(* xtc_chash_destroy, by the caller who knows that nobody uses the table: the nodes of the
   array and the array are freed. *)
xtc_chash_destroy ==
  /\ ~st.gone /\ \A t \in Threads : st.th[t].pc = "idle"
  /\ st' = [st EXCEPT !.gone = TRUE,
              !.obj = [i \in DOMAIN @ |-> IF i \in NodesOf(st, st.cur) \cup {st.cur}
                                          THEN [@[i] EXCEPT !.life = "freed"] ELSE @[i]]]

HNext ==
  \/ \E t \in Threads :
       \/ \E op \in Ops, k \in Keys : Starts(t, op, k)
       \/ xtc_chash_get(t) \/ GetWalk(t) \/ Retry(t) \/ xtc_chash_insert(t) \/ xtc_chash_remove(t)
       \/ Unlocks(t) \/ Counts(t) \/ Retires(t) \/ Uncounts(t) \/ Sees(t)
       \/ __chash_maybe_shrink(t) \/ Claims(t) \/ __chash_resize(t) \/ Unclaims(t)
  \/ xtc_chash_destroy

(* "the RCU retire discipline that keeps concurrent readers safe": no node or array is read
   after it was freed, and once the table is destroyed all memory is freed. *)
HSafe ==
  /\ ~st.bad
  /\ st.gone => \A i \in DOMAIN st.obj : st.obj[i].life = "freed"

(* xtc_chash_get gives a value the key had during the call, and does not miss a key that is
   in the table all along, while other keys of its bucket are removed and the table resized. *)
HAnswers == ~st.wrong

(* "no node can be lost or duplicated": the current array holds every pair that was inserted
   and not removed, once, in the bucket a reader looks in; and between calls the count is
   the number of pairs. *)
HHolds ==
  ~st.gone =>
    LET a == st.obj[st.cur]
        N == NodesOf(st, st.cur)
    IN  /\ {<<st.obj[x].key, st.obj[x].val>> : x \in N} = st.abs /\ Cardinality(N) = Cardinality(st.abs)
        /\ \A b \in DOMAIN a.head : \A x \in Chain(st, a.head[b]) :
             Bucket(st.obj[x].key, a.n) = b /\ st.obj[x].life = "live"
        /\ (\A t \in Threads : st.th[t].pc = "idle") => st.count = Cardinality(st.abs) /\ ~st.resizing
----------------------------------------------------------------------------
(* S: the skiplist.  Object 1 is the head, whose key is below all others.  st has, besides
   obj, th, reading, abs, ops, gone, bad and wrong of above,
     level, count      s->level, s->count
     lock              the thread that holds wlock, or 0 *)

SNode(k, lv, fwd) == [key |-> k, lv |-> lv, fwd |-> fwd, life |-> "live", wait |-> {}]
HeadKey == -1
KeyOf(s, i) == s.obj[i].key

(* The nodes on level i (from 1), from the head on. *)
OnLevel(s, i) ==
  LET C[j \in 0 .. Len(s.obj)] ==
        IF j = 0 THEN {s.obj[1].fwd[i]} ELSE C[j - 1] \cup {s.obj[x].fwd[i] : x \in C[j - 1] \ {0}}
  IN  C[Len(s.obj)] \ {0}

(* The last node below k on level i: the head when there is none. *)
PredOn(s, i, k) ==
  LET B == {x \in OnLevel(s, i) : KeyOf(s, x) < k}
  IN  IF B = {} THEN 1 ELSE CHOOSE x \in B : \A y \in B : KeyOf(s, y) <= KeyOf(s, x)

SInit ==
  \E P \in SUBSET Keys, lv \in [Keys -> 1 .. MaxLevel] :
    /\ \A k \in Keys \ P : lv[k] = 1
    /\ LET E == SetToSortSeq(P, LAMBDA x, y : x < y)
           next(i, l) == {j \in DOMAIN E : j > i /\ lv[E[j]] >= l}
           to(i, l) == IF next(i, l) = {} THEN 0 ELSE 1 + Min(next(i, l))
       IN  st = [obj |-> <<SNode(HeadKey, MaxLevel, [l \in 1 .. MaxLevel |-> to(0, l)])>>
                         \o [i \in DOMAIN E |->
                               SNode(E[i], lv[E[i]], [l \in 1 .. lv[E[i]] |-> to(i, l)])],
                 level |-> Max({1} \cup {lv[k] : k \in P}), count |-> Cardinality(P), lock |-> 0,
                 th |-> [t \in Threads |-> Idle], reading |-> {}, abs |-> {<<k, 0>> : k \in P},
                 ops |-> 0, gone |-> FALSE, bad |-> FALSE, wrong |-> FALSE]

(* A call begins: the read side is entered (by the caller, around a get, floor or min); a
   reader loads the level it starts from. *)
SStarts(t, op, k) ==
  /\ st.th[t].pc = "idle" /\ st.ops < MaxOps /\ ~st.gone
  /\ LET reads == op \notin {"insert", "remove"}
     IN  st' = Enter([st EXCEPT !.ops = @ + 1,
                    !.th[t] = [Idle EXCEPT !.pc = op, !.key = k, !.p = 1, !.a = st.level,
                                           !.must = IF reads THEN KeysOf(st) ELSE {},
                                           !.may = IF reads THEN st.abs ELSE {}]], t)

(* The reader is done with node x (0: none): what it says is right for some moment of the
   call.  get: x is the first key at or past its own; floor: the last up to its own; min:
   the first. *)
SAnswer(s, t, x, sound(_, _)) ==
  LET r == s.th[t]
  IN  Done(Leave([s EXCEPT !.wrong = @ \/ ~(x = 0 \/ \E e \in r.may : e[1] = KeyOf(s, x))
                                       \/ ~sound(r, IF x = 0 THEN {} ELSE {KeyOf(s, x)})], t), t)

GetSound(r, F) == r.key \in r.must => F = {r.key}
FloorSound(r, F) == \A k \in r.must : k <= r.key => \E f \in F : k <= f
MinSound(r, F) == \A k \in r.must : \E f \in F : f <= k

(* __cskip_find_ge, one link a step, for xtc_cskip_get: on while the next key is below, else a
   level down; at the bottom the next node is the answer. *)
__cskip_find_ge(t) ==
  /\ st.th[t].pc = "get"
  /\ LET r == st.th[t]
         nxt == st.obj[r.p].fwd[r.a]
         s == IF nxt = 0 THEN Touch(st, r.p) ELSE Touch(Touch(st, r.p), nxt)
     IN  st' = IF nxt # 0 /\ KeyOf(st, nxt) < r.key THEN [s EXCEPT !.th[t].p = nxt]
               ELSE IF r.a > 1 THEN [s EXCEPT !.th[t].a = r.a - 1]
               ELSE SAnswer(s, t, IF nxt # 0 /\ KeyOf(st, nxt) = r.key THEN nxt ELSE 0, GetSound)

(* xtc_cskip_floor: on while the next key is not past, remembering the last node. *)
xtc_cskip_floor(t) ==
  /\ st.th[t].pc = "floor"
  /\ LET r == st.th[t]
         nxt == st.obj[r.p].fwd[r.a]
         s == IF nxt = 0 THEN Touch(st, r.p) ELSE Touch(Touch(st, r.p), nxt)
     IN  st' = IF nxt # 0 /\ KeyOf(st, nxt) <= r.key THEN [s EXCEPT !.th[t].p = nxt]
               ELSE IF r.a > 1 THEN [s EXCEPT !.th[t].a = r.a - 1]
               ELSE SAnswer(s, t, IF r.p = 1 THEN 0 ELSE r.p, FloorSound)

(* xtc_cskip_min: the head's first link. *)
xtc_cskip_min(t) ==
  /\ st.th[t].pc = "min"
  /\ LET x == st.obj[1].fwd[1]
     IN  st' = SAnswer(IF x = 0 THEN st ELSE Touch(st, x), t, x, MinSound)

At(k) == {x \in OnLevel(st, 1) : KeyOf(st, x) = k}

(* xtc_cskip_insert, wlock taken: the value of a key that is there is replaced (and all is
   undone); else a node of some height with its own links set, not yet reachable. *)
xtc_cskip_insert(t) ==
  /\ st.th[t].pc = "insert" /\ st.lock = 0
  /\ LET k == st.th[t].key
         z == Len(st.obj) + 1
     IN  IF At(k) # {} THEN st' = Goto(st, t, "leave")
         ELSE \E lv \in 1 .. MaxLevel :
                st' = [Goto(st, t, "link") EXCEPT !.lock = t, !.th[t].p = z, !.th[t].a = 1,
                         !.obj = Append(@, SNode(k, lv, [l \in 1 .. lv |->
                                                   st.obj[PredOn(st, l, k)].fwd[l]]))]

(* Bottom-up. *)
LevelToLink(r) == r.a

(* The predecessor of the level is pointed at the node; at last the level and the count are
   raised and wlock is released. *)
Links(t) ==
  /\ st.th[t].pc = "link"
  /\ LET r == st.th[t]
         l == LevelToLink(r)
         s == [st EXCEPT !.obj[PredOn(st, l, r.key)].fwd[l] = r.p, !.th[t].a = @ + 1]
         x == IF l = 1 THEN Put(s, r.key, 0) ELSE s
     IN  st' = IF r.a < st.obj[r.p].lv THEN x ELSE Goto(x, t, "raise")

Raises(t) ==
  /\ st.th[t].pc = "raise"
  /\ st' = [Goto(st, t, "leave") EXCEPT !.level = Max({@, st.obj[st.th[t].p].lv}),
              !.count = @ + 1, !.lock = 0, !.th[t].p = 0]

(* xtc_cskip_remove, wlock taken. *)
xtc_cskip_remove(t) ==
  /\ st.th[t].pc = "remove" /\ st.lock = 0
  /\ st' = IF At(st.th[t].key) = {} THEN Goto([st EXCEPT !.th[t].p = 0], t, "leave")
           ELSE LET x == CHOOSE x \in At(st.th[t].key) : TRUE
                IN  [Goto(st, t, "unlink") EXCEPT !.lock = t, !.th[t].p = x, !.th[t].a = st.level]

(* Top-down. *)
LevelToUnlink(r) == r.a

Unlinks(t) ==
  /\ st.th[t].pc = "unlink"
  /\ LET r == st.th[t]
         l == LevelToUnlink(r)
         p == PredOn(st, l, r.key)
         s == IF st.obj[p].fwd[l] # r.p THEN st
              ELSE [st EXCEPT !.obj[p].fwd[l] = st.obj[r.p].fwd[l]]
         x == [IF l = 1 THEN Drop(s, r.key) ELSE s EXCEPT !.th[t].a = @ - 1]
     IN  st' = IF r.a > 1 THEN x ELSE Goto(x, t, "lower")

(* The level falls to the highest that still has a node, the count goes down, wlock is
   released. *)
Lowers(t) ==
  /\ st.th[t].pc = "lower"
  /\ st' = [Goto(st, t, "leave") EXCEPT !.count = @ - 1, !.lock = 0,
              !.level = Max({1} \cup {l \in 1 .. st.level : st.obj[1].fwd[l] # 0})]

SRetires(s, x) == Retire(s, {x})

(* The read side ends; a node taken out is retired. *)
SLeaves(t) ==
  /\ st.th[t].pc = "leave"
  /\ LET s == Done(Leave(st, t), t)
     IN  st' = IF st.th[t].p \in {0, 1} THEN s ELSE SRetires(s, st.th[t].p)

(* xtc_cskip_destroy. *)
xtc_cskip_destroy ==
  /\ ~st.gone /\ \A t \in Threads : st.th[t].pc = "idle"
  /\ st' = [st EXCEPT !.gone = TRUE,
              !.obj = [i \in DOMAIN @ |-> IF i \in OnLevel(st, 1) \cup {1}
                                          THEN [@[i] EXCEPT !.life = "freed"] ELSE @[i]]]

SNext ==
  \/ \E t \in Threads :
       \/ \E op \in Ops, k \in Keys : SStarts(t, op, k)
       \/ __cskip_find_ge(t) \/ xtc_cskip_floor(t) \/ xtc_cskip_min(t) \/ xtc_cskip_insert(t) \/ Links(t)
       \/ Raises(t) \/ xtc_cskip_remove(t) \/ Unlinks(t) \/ Lowers(t) \/ SLeaves(t)
  \/ xtc_cskip_destroy

(* Readers walk the levels while nodes are linked and unlinked: none reads a node that was
   freed, and a destroyed map has freed every node. *)
SSafe ==
  /\ ~st.bad
  /\ st.gone => \A i \in DOMAIN st.obj : st.obj[i].life = "freed"

(* get, floor and min answer for some moment of the call: a key that is there all along is
   not missed, and what is returned was in the map during the call. *)
SAnswers == ~st.wrong

(* While nobody holds wlock every level is a part of the level below, the bottom level holds
   exactly the keys inserted and not removed, level is the highest one in use and count the
   number of keys. *)
SHolds ==
  ~st.gone /\ st.lock = 0 =>
    /\ {KeyOf(st, x) : x \in OnLevel(st, 1)} = KeysOf(st)
    /\ Cardinality(OnLevel(st, 1)) = Cardinality(st.abs) /\ st.count = Cardinality(st.abs)
    /\ \A l \in 2 .. MaxLevel :
         /\ OnLevel(st, l) = {x \in OnLevel(st, 1) : st.obj[x].lv >= l}
         /\ st.level >= l <=> st.obj[1].fwd[l] # 0
    /\ \A x \in OnLevel(st, 1) : \A l \in 1 .. st.obj[x].lv :
         st.obj[x].fwd[l] # 0 => KeyOf(st, x) < KeyOf(st, st.obj[x].fwd[l])

----------------------------------------------------------------------------
None == 1000
Gone == << -1 >>
Slots == 0 .. MaxSlots - 1
LockSlots == 0 .. MaxReaders - 1

(* For L, st has the fields
     data        the two copies, Gone for one that is not there or was given back
     read_idx, first_publish_done, oplog
     mask, epoch, enters    of the slots: active_mask, epochs
     slot        per reader: __my_global_slot, -1 as None
     free, counter          __slot_free_list, __global_slot_counter
     rpc, on     per reader: where it is, the copies it has been given and not ended
     owner, wpc  the writer that has writer_mutex, and where it is
     last_seen, i, todo     the snapshot, the slot to look at, the slots still to read
     force       publish_full_sync
     ops         bound: operations so far *)
LInit ==
  st = [data |-> <<<<>>, IF Cow THEN Gone ELSE <<>>>>, read_idx |-> 1,
        first_publish_done |-> FALSE, oplog |-> <<>>, mask |-> {},
        epoch |-> [s \in Slots |-> 0], enters |-> [s \in Slots |-> 0],
        slot |-> [r \in Readers |-> None], free |-> <<>>, counter |-> 0,
        rpc |-> [r \in Readers |-> "idle"], on |-> [r \in Readers |-> <<>>],
        owner |-> None, wpc |-> "out", last_seen |-> [s \in LockSlots |-> 0], i |-> 0,
        todo |-> {}, force |-> FALSE, ops |-> 0]

Other(i) == 3 - i
WriteIdx == Other(st.read_idx)

----------------------------------------------------------------------------
(* Readers *)

(* __slot_for: a slot that was given back, else a new one while there is one. *)
SlotFor(r) ==
  /\ st.rpc[r] = "idle" /\ st.slot[r] = None
  /\ IF st.free # <<>>
       THEN st' = [st EXCEPT !.slot[r] = Last(st.free), !.free = Front(@)]
       ELSE /\ st.counter < MaxSlots
            /\ st' = [st EXCEPT !.slot[r] = st.counter, !.counter = @ + 1]

(* xtc_lrlock_read_begin by a thread with a slot of this lock; others get NULL. *)
HasSlot(r) == st.slot[r] \in LockSlots

ReadNested(r) ==
  /\ HasSlot(r) /\ st.rpc[r] = "in" /\ st.enters[st.slot[r]] < MaxNest
  /\ st' = [st EXCEPT !.enters[st.slot[r]] = @ + 1, !.on[r] = Append(@, st.read_idx)]

Announce(r) ==
  /\ HasSlot(r) /\ st.rpc[r] = "idle"
  /\ st' = [st EXCEPT !.mask = @ \cup {st.slot[r]}, !.rpc[r] = "epoch"]

BumpOdd(r) ==
  /\ st.rpc[r] = "epoch"
  /\ st' = [st EXCEPT !.epoch[st.slot[r]] = (@ + 1) % EpochWrap, !.rpc[r] = "load"]

LoadIdx(r) ==
  /\ st.rpc[r] = "load"
  /\ st' = [st EXCEPT !.enters[st.slot[r]] = 1, !.on[r] = <<st.read_idx>>, !.rpc[r] = "in"]

(* xtc_lrlock_read_end: the last one makes the epoch even, then clears the bit. *)
ReadEnd(r) ==
  /\ st.rpc[r] = "in"
  /\ LET s == st.slot[r]
         last == st.enters[s] = 1
     IN st' = [st EXCEPT !.enters[s] = @ - 1, !.on[r] = Front(@),
                         !.epoch[s] = IF last THEN (@ + 1) % EpochWrap ELSE @,
                         !.rpc[r] = IF last THEN "clear" ELSE "in"]

ClearBit(r) ==
  /\ st.rpc[r] = "clear"
  /\ st' = [st EXCEPT !.mask = @ \ {st.slot[r]}, !.rpc[r] = "idle"]

(* __slot_release, when the thread exits; another thread takes its place. *)
ThreadExits(r) ==
  /\ r \in Leavers /\ st.rpc[r] = "idle" /\ st.slot[r] # None
  /\ st' = [st EXCEPT !.free = Append(@, st.slot[r]), !.slot[r] = None]

----------------------------------------------------------------------------
(* Writers *)

(* xtc_lrlock_write_begin; __cow_ensure_write_copy *)
WriteBegin(w) ==
  /\ st.owner = None
  /\ st' = [st EXCEPT !.owner = w, !.wpc = "write",
                      !.data[WriteIdx] = IF Cow THEN st.data[st.read_idx] ELSE @]

(* xtc_lrlock_apply_op *)
ApplyOp ==
  /\ st.wpc = "write" /\ st.ops < MaxOps
  /\ LET op == st.ops + 1
     IN st' = [st EXCEPT !.ops = op, !.oplog = Append(@, op), !.data[WriteIdx] = Append(@, op)]

(* The writer changes the copy by itself, for publish_full_sync. *)
WriteDirect ==
  /\ st.wpc = "write" /\ st.ops < MaxOps /\ st.oplog = <<>>
  /\ st' = [st EXCEPT !.ops = @ + 1, !.data[WriteIdx] = Append(@, st.ops + 1),
                      !.force = TRUE]

(* __publish_common up to the exchange: the first publish makes the write copy from
   the read copy and the log. *)
Swap ==
  /\ st.wpc = "write"
  /\ LET base == IF st.first_publish_done \/ st.force THEN st.data[WriteIdx]
                 ELSE st.data[st.read_idx] \o st.oplog
     IN st' = [st EXCEPT !.data[WriteIdx] = base, !.first_publish_done = TRUE,
                         !.read_idx = WriteIdx, !.wpc = "mask"]

(* __snapshot_epochs: the mask, then the epochs of the slots in it. *)
SnapMask ==
  /\ st.wpc = "mask"
  /\ st' = [st EXCEPT !.todo = st.mask, !.last_seen = [s \in LockSlots |-> 0],
                      !.i = 0, !.wpc = "snap"]

SnapEpoch(s) ==
  /\ st.wpc = "snap" /\ s \in st.todo /\ \A t \in st.todo : s <= t
  /\ st' = [st EXCEPT !.todo = @ \ {s}, !.last_seen[s] = st.epoch[s]]

Waits == st.wpc = "snap" /\ st.todo = {}

(* __wait_for_readers: an odd epoch that has not changed starts the pass again. *)
WaitSlot ==
  /\ Waits /\ st.i < MaxReaders
  /\ LET last == st.last_seen[st.i]
     IN st' = [st EXCEPT !.i = IF last % 2 = 1 /\ st.epoch[st.i] = last THEN 0 ELSE @ + 1]

(* All have gone: the rest of __publish_common begins on the stale copy. *)
WaitOver ==
  /\ Waits /\ st.i = MaxReaders
  /\ st' = [st EXCEPT !.wpc = "stale"]

(* The log is replayed or the copy synced, and the writer may go on.  A copy-on-write copy
   is given back, and is there again after the next write_begin only. *)
CatchUp ==
  /\ st.wpc = "stale"
  /\ LET new == st.data[st.read_idx]
         old == st.data[WriteIdx]
     IN st' = [st EXCEPT !.data[WriteIdx] = IF Cow THEN Gone
                                            ELSE IF st.force THEN new
                                            ELSE IF st.oplog = <<>> THEN old
                                            ELSE IF Len(st.oplog) <= ReplayMax
                                                   THEN old \o st.oplog ELSE new,
                         !.oplog = <<>>, !.force = FALSE,
                         !.wpc = IF Cow THEN "published" ELSE "write"]

(* xtc_lrlock_write_end, after a publish or without one. *)
WriteEnd ==
  /\ st.wpc \in {"write", "published"} /\ ~st.force
  /\ st' = [st EXCEPT !.owner = None, !.wpc = "out"]

LNext ==
  \/ \E r \in Readers : \/ SlotFor(r) \/ ReadNested(r) \/ Announce(r) \/ BumpOdd(r)
                        \/ LoadIdx(r) \/ ReadEnd(r) \/ ClearBit(r) \/ ThreadExits(r)
  \/ \E w \in Writers : WriteBegin(w)
  \/ ApplyOp \/ WriteDirect \/ Swap \/ SnapMask \/ (\E s \in Slots : SnapEpoch(s))
  \/ WaitSlot \/ WaitOver \/ CatchUp \/ WriteEnd

----------------------------------------------------------------------------
(* Epochs, nesting depths and slots are in their ranges. *)
LTypeOK ==
  /\ st.read_idx \in {1, 2}
  /\ st.epoch \in [Slots -> 0 .. EpochWrap - 1] /\ st.enters \in [Slots -> 0 .. MaxNest]
  /\ st.mask \subseteq LockSlots /\ st.counter \in 0 .. MaxSlots
  /\ \A r \in Readers : st.slot[r] \in Slots \cup {None}

(* A reader is never on the copy that the writer may be changing or has given back, however
   its announcement falls between the swap, the snapshot and the wait, and however it
   nests; and no two live threads have one slot, through exits and reuse. *)
ReadersApart ==
  /\ \A r \in Readers : WriteIdx \in Range(st.on[r]) => st.wpc \in {"mask", "snap"}
  /\ \A q, r \in Readers : q # r /\ st.slot[q] # None => st.slot[q] # st.slot[r]

(* With no writer inside, the write copy is the read copy and what a writer that did not
   publish has left in the log. *)
CopiesAgree ==
  st.wpc = "out" /\ ~Cow => st.data[WriteIdx] = st.data[st.read_idx] \o st.oplog

=============================================================================
