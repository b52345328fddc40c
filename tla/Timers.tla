------------------------------- MODULE Timers -------------------------------
(***************************************************************************)
(* Timer queues.                                                           *)
(*                                                                         *)
(* Machine T: evt/timer.c, the heap of a loop.  Its owner arms, cancels    *)
(* and fires; other threads cancel and release the handles they were given *)
(* and only mark a node, which the owner drops at the root or in the sweep *)
(* before the heap would grow.                                             *)
(*                                                                         *)
(* Machine Q: bench/bench_timerq.c, the candidates for that heap behind    *)
(* one interface: push, cancel by handle, pop one due node, next deadline. *)
(* st.run names the candidate.  A candidate's operation is the set of its  *)
(* possible results, of which only the QuickHeap, with its random pivots,  *)
(* has several.  A node is its arm order, from 1; 0 is NULL.  Arrays count *)
(* from 1, so the handle 0 is the code's -1.                               *)
(***************************************************************************)
EXTENDS Integers, Sequences, FiniteSets
LOCAL INSTANCE SequencesExt
LOCAL INSTANCE FiniteSetsExt

CONSTANTS
  MaxArms,        \* bound: timers armed
  Delays,         \* the delays a timer is armed with
  MaxNow,         \* bound: the clock
  Threads,        \* T: the threads besides the owner
  Holders,        \* T: who is given the handle of a timer, "" for nobody
  FirstCap,       \* T: the capacity the first growth gives (8 in the code)
  Runs,           \* Q: a candidate (impl) with a trace, "loop" popping at the clock's time,
                  \*    "mcs" whatever is first, its arms, delays and clock
  D,              \* Q: arity of the d-ary heap
  Bits,           \* Q: bits of a key of the radix heap (64)
  Tick, Slots, Levels,    \* Q: the wheel's (1024, 64, 9)
  QhSmall, SweepMin, VecLen  \* Q: the QuickHeap's QH_SMALL, the sweep's 32, a vector's 8

VARIABLE st

Nodes == 1 .. MaxArms
Zero == [t \in Nodes |-> 0]

----------------------------------------------------------------------------
(* The slots of timer.c and of the d-ary candidates: {key, node} pairs inline, and the
   index of every node. *)

Parent(i, d) == (i - 2) \div d + 1

Place(q, i, x) == [q EXCEPT !.h[i] = x, !.idx[x.t] = i]

RECURSIVE dh_up(_, _, _, _)
dh_up(q, i, x, d) ==
  IF i = 1 \/ q.h[Parent(i, d)].k <= x.k THEN Place(q, i, x)
  ELSE dh_up(Place(q, i, q.h[Parent(i, d)]), Parent(i, d), x, d)

(* The first of the smallest children of the hole. *)
SmallestChild(q, i, d) ==
  LET kids == {j \in d * (i - 1) + 2 .. d * i + 1 : j <= Len(q.h)}
  IN  CHOOSE c \in kids : \A j \in kids : q.h[c].k < q.h[j].k \/ (q.h[c].k = q.h[j].k /\ c <= j)

RECURSIVE dh_down(_, _, _, _)
dh_down(q, i, x, d) ==
  IF d * (i - 1) + 2 > Len(q.h) \/ q.h[SmallestChild(q, i, d)].k >= x.k THEN Place(q, i, x)
  ELSE dh_down(Place(q, i, q.h[SmallestChild(q, i, d)]), SmallestChild(q, i, d), x, d)

dh_push(q, x, d) == dh_up([q EXCEPT !.h = Append(@, x)], Len(q.h) + 1, x, d)

(* The last slot fills the gap, and rises or sinks. *)
dh_remove(q, i, d) ==
  LET x == q.h[Len(q.h)]
      less == [q EXCEPT !.h = Front(@), !.idx[q.h[i].t] = 0]
  IN  IF i = Len(q.h) THEN less
      ELSE IF i > 1 /\ x.k < q.h[Parent(i, d)].k THEN dh_up(less, i, x, d)
      ELSE dh_down(less, i, x, d)

----------------------------------------------------------------------------
(* Machine T.  st has the fields
     q, cap                       loop->timers (slots and heap_idx), cap_timers
     deadline, fired, cancelled, refs     xtc_timer_t
     now                          the clock
     pc, top, at                  the owner's drain: its step, the timer it looks at and the
                                  time it read
     tpc, tt                      another thread: its step and the timer it cancels
     armed                        history: timers armed
     held                         history: who has the handle of a timer ("" nobody)
     stopped                      history: the timers a cancel returned 1 for
     fires                        history: how often a timer's callback ran
     freed                        history: the timers that were freed *)

Owner == "owner"

TInit ==
  st = [q |-> [h |-> <<>>, idx |-> Zero], cap |-> 0, deadline |-> Zero, fired |-> Zero,
        cancelled |-> {}, refs |-> Zero, now |-> 0, pc |-> "idle", top |-> 0, at |-> 0,
        tpc |-> [r \in Threads |-> "idle"], tt |-> [r \in Threads |-> 0], armed |-> 0,
        held |-> [t \in Nodes |-> ""], stopped |-> {}, fires |-> Zero, freed |-> {}]

FIRED == 1
CANCELLED == 2

__sift_up(q, i, x) == dh_up(q, i, x, 2)
__sift_down(q, i, x) == dh_down(q, i, x, 2)

__is_cancelled(s, t) == s.fired[t] = CANCELLED

(* Drop one reference; the last frees the node, whose history ends. *)
__xtc_timer_park_release(s, t) ==
  IF s.refs[t] = 0 THEN s
  ELSE IF s.refs[t] > 1 THEN [s EXCEPT !.refs[t] = @ - 1]
  ELSE [s EXCEPT !.refs[t] = 0, !.freed = @ \cup {t}, !.deadline[t] = 0,
                 !.fired[t] = FIRED, !.fires[t] = 0, !.cancelled = @ \ {t}, !.stopped = @ \ {t}]

__heap_remove_at(s, i) == [s EXCEPT !.q = dh_remove(@, i, 2)]

RECURSIVE Rebuilt(_, _)
Rebuilt(q, i) == IF i = 0 THEN q ELSE Rebuilt(__sift_down(q, i, q.h[i]), i - 1)

(* Every cancelled node is dropped, and the heap rebuilt. *)
__sweep_cancelled(s) ==
  LET h == SelectSeq(s.q.h, LAMBDA x : ~__is_cancelled(s, x.t))
      gone == {t \in Nodes : s.q.idx[t] # 0 /\ __is_cancelled(s, t)}
      idx == [t \in Nodes |-> IF t \in gone THEN 0
                              ELSE SelectInSeq(h, LAMBDA x : x.t = t)]
  IN  FoldSet(LAMBDA t, r : __xtc_timer_park_release(r, t),
              [s EXCEPT !.q = Rebuilt([h |-> h, idx |-> idx], Len(h) \div 2)], gone)

__grow(s) == [s EXCEPT !.cap = IF @ = 0 THEN FirstCap ELSE 2 * @]

(* A full heap is swept, and grows if it is still more than half full. *)
__heap_push(s, t) ==
  LET full == Len(s.q.h) >= s.cap
      swept == IF full /\ s.q.h # <<>> THEN __sweep_cancelled(s) ELSE s
      room == IF full /\ (swept.cap = 0 \/ Len(swept.q.h) > swept.cap \div 2)
              THEN __grow(swept) ELSE swept
      x == [k |-> s.deadline[t], t |-> t]
  IN  [room EXCEPT !.q = __sift_up([@ EXCEPT !.h = Append(@, x)], Len(@.h) + 1, x)]

__heap_pop_unsafe(s) ==
  LET x == s.q.h[Len(s.q.h)]
      less == [s.q EXCEPT !.h = Front(@), !.idx[s.q.h[1].t] = 0]
  IN  [s EXCEPT !.q = IF Len(s.q.h) > 1 THEN __sift_down(less, 1, x) ELSE less]

(* The owner calls between the steps of its loop, and from a callback. *)
OwnerFree == st.pc \in {"idle", "fired"}

(* xtc_timer_set; the handle, if one is asked for, goes to a thread. *)
xtc_timer_set(delay, who) ==
  /\ OwnerFree /\ st.armed < MaxArms
  /\ LET t == st.armed + 1
     IN  st' = __heap_push([st EXCEPT !.armed = t, !.deadline[t] = st.now + delay,
                                      !.refs[t] = IF who # "" THEN 2 ELSE 1,
                                      !.held[t] = who], t)

(* __xtc_timer_try_cancel by the owner: what the compare-and-swap wins is taken out of the
   heap, if it is still there. *)
OwnerCancels(t) ==
  /\ OwnerFree /\ st.held[t] = Owner /\ st.fired[t] = 0
  /\ LET won == [st EXCEPT !.fired[t] = CANCELLED, !.cancelled = @ \cup {t},
                           !.stopped = @ \cup {t}]
     IN  st' = IF st.q.idx[t] # 0
               THEN __xtc_timer_park_release(__heap_remove_at(won, st.q.idx[t]), t) ELSE won

(* By another thread: the compare-and-swap ... *)
ForeignCancels(r, t) ==
  /\ st.tpc[r] = "idle" /\ st.held[t] = r /\ st.fired[t] = 0
  /\ st' = [st EXCEPT !.fired[t] = CANCELLED, !.stopped = @ \cup {t},
                      !.tpc[r] = "mark", !.tt[r] = t]

(* ... and the mark. *)
ForeignMarks(r) ==
  /\ st.tpc[r] = "mark"
  /\ st' = [st EXCEPT !.cancelled = @ \cup {st.tt[r]}, !.tpc[r] = "idle", !.tt[r] = 0]

(* xtc_timer_release of a handle by whoever has it. *)
xtc_timer_release(t) ==
  /\ st.held[t] # ""
  /\ IF st.held[t] = Owner THEN OwnerFree ELSE st.tpc[st.held[t]] = "idle"
  /\ st' = __xtc_timer_park_release([st EXCEPT !.held[t] = ""], t)

(* __xtc_drain_due_timers reads the clock ... *)
DrainBegins ==
  /\ st.pc = "idle"
  /\ st' = [st EXCEPT !.pc = "pop", !.at = st.now]

(* ... and __xtc_timer_heap_pop_due looks at the root: nothing there or not due, ... *)
DrainEnds ==
  /\ st.pc = "pop"
  /\ IF st.q.h = <<>> THEN TRUE
     ELSE ~__is_cancelled(st, st.q.h[1].t) /\ st.q.h[1].k > st.at
  /\ st' = [st EXCEPT !.pc = "idle", !.at = 0]

(* ... cancelled, ... *)
PopDrops ==
  /\ st.pc = "pop" /\ st.q.h # <<>>
  /\ __is_cancelled(st, st.q.h[1].t)
  /\ st' = __xtc_timer_park_release(__heap_pop_unsafe(st), st.q.h[1].t)

(* ... or due. *)
PopDue ==
  /\ st.pc = "pop" /\ st.q.h # <<>>
  /\ ~__is_cancelled(st, st.q.h[1].t) /\ st.q.h[1].k <= st.at
  /\ st' = [st EXCEPT !.pc = "claim", !.top = st.q.h[1].t]

(* A due timer is claimed, unless a cancel was first. *)
PopClaims ==
  /\ st.pc = "claim"
  /\ st' = IF st.fired[st.top] = 0
           THEN [__heap_pop_unsafe(st) EXCEPT !.fired[st.top] = FIRED, !.pc = "fire"]
           ELSE [__xtc_timer_park_release(__heap_pop_unsafe(st), st.top)
                   EXCEPT !.pc = "pop", !.top = 0]

(* The drain: the callback ... *)
Fire ==
  /\ st.pc = "fire"
  /\ st' = IF st.top \in st.cancelled THEN [st EXCEPT !.pc = "fired"]
           ELSE [st EXCEPT !.fires[st.top] = @ + 1, !.pc = "fired"]

(* ... and the heap's reference. *)
Fired ==
  /\ st.pc = "fired"
  /\ st' = __xtc_timer_park_release([st EXCEPT !.pc = "pop", !.top = 0], st.top)

(* __xtc_timer_heap_next_deadline drops the cancelled nodes at the root. *)
__xtc_timer_heap_next_deadline ==
  /\ st.pc = "idle" /\ st.q.h # <<>>
  /\ __is_cancelled(st, st.q.h[1].t)
  /\ st' = __xtc_timer_park_release(__heap_pop_unsafe(st), st.q.h[1].t)

Clock ==
  /\ st.now < MaxNow
  /\ st' = [st EXCEPT !.now = @ + 1]

TNext ==
  \/ \E d \in Delays, who \in Holders : xtc_timer_set(d, who)
  \/ \E t \in Nodes : OwnerCancels(t) \/ xtc_timer_release(t)
  \/ \E r \in Threads : ForeignMarks(r) \/ \E t \in Nodes : ForeignCancels(r, t)
  \/ DrainBegins \/ DrainEnds \/ PopDrops \/ PopDue \/ PopClaims \/ Fire \/ Fired
  \/ __xtc_timer_heap_next_deadline \/ Clock

(* Of a cancel and a fire that race for a timer one wins: a cancel that returned 1 is
   never followed by the callback, which runs once at most and never early, and no timer
   is overtaken by one with a later deadline.  What was neither cancelled nor fired is in
   the heap, whatever was cancelled around it, and the loop, which sleeps until the root's
   deadline, does not sleep past it. *)
FiresOrCancelled ==
  /\ \A t \in Nodes : /\ st.fires[t] <= 1
                      /\ st.fires[t] = 1 => t \notin st.stopped /\ st.deadline[t] <= st.now
  /\ \A t \in 1 .. st.armed :
       st.fired[t] = 0 => st.q.idx[t] # 0 /\ st.q.h[st.q.idx[t]].t = t
  /\ st.pc \in {"claim", "fire"} =>
       \A t \in 1 .. st.armed : st.fired[t] = 0 => \/ st.deadline[st.top] <= st.deadline[t]
                                                   \/ st.deadline[t] > st.at
  /\ \A t \in 1 .. st.armed : st.fired[t] = 0 => st.q.h[1].k <= st.deadline[t]

(* Every timer is freed by the last of its owners, the heap (or the drain that fires it)
   and the handle, and no node of the heap is freed. *)
TimerRefs ==
  \A t \in 1 .. st.armed :
    LET inHeap == st.q.idx[t] # 0 \/ (t = st.top /\ st.pc \in {"claim", "fire", "fired"})
    IN  /\ st.refs[t] = (IF inHeap THEN 1 ELSE 0) + (IF st.held[t] # "" THEN 1 ELSE 0)
        /\ t \in st.freed <=> st.refs[t] = 0
----------------------------------------------------------------------------
(* Machine Q.  st has the fields
     q           the candidate's structure
     dl          the deadline of a node
     dead        the nodes cancelled lazily that are still in the structure
     nfree       the nodes in the pool
     now         the clock
     last        the deadline of the node that was popped last
     armed       history: nodes armed
     live        history: the nodes armed and neither popped nor cancelled
     out         history: the last operation and its result *)

Sole(q) == [q |-> q, t |-> 0, v |-> 0, freed |-> {}]

(* The heaps of node pointers: bin swaps, binh moves a hole; bins keeps the keys in an
   array of their own. *)

bin_swap(q, i, j) ==
  [h |-> [q.h EXCEPT ![i] = q.h[j], ![j] = q.h[i]],
   idx |-> [q.idx EXCEPT ![q.h[j]] = i, ![q.h[i]] = j]]

RECURSIVE bin_up(_, _, _)
bin_up(q, i, dl) ==
  IF i = 1 \/ dl[q.h[Parent(i, 2)]] <= dl[q.h[i]] THEN q
  ELSE bin_up(bin_swap(q, Parent(i, 2), i), Parent(i, 2), dl)

RECURSIVE bin_down(_, _, _)
bin_down(q, i, dl) ==
  LET better(j, best) == IF j <= Len(q.h) /\ dl[q.h[j]] < dl[q.h[best]] THEN j ELSE best
      best == better(2 * i + 1, better(2 * i, i))
  IN  IF best = i THEN q ELSE bin_down(bin_swap(q, i, best), best, dl)

bin_push(q, t, dl) ==
  bin_up([h |-> Append(q.h, t), idx |-> [q.idx EXCEPT ![t] = Len(q.h) + 1]],
         Len(q.h) + 1, dl)

bin_cancel(q, t, dl) ==
  LET i == q.idx[t]
      x == q.h[Len(q.h)]
      less == [h |-> Front([q.h EXCEPT ![i] = x]), idx |-> [q.idx EXCEPT ![x] = i, ![t] = 0]]
  IN  IF i = Len(q.h) THEN less
      ELSE IF i > 1 /\ dl[x] < dl[q.h[Parent(i, 2)]] THEN bin_up(less, i, dl)
      ELSE bin_down(less, i, dl)

bin_pop_due(q, dl, now) ==
  IF q.h = <<>> THEN 0 ELSE IF dl[q.h[1]] > now THEN 0 ELSE q.h[1]

bh_put(q, i, x) == [h |-> [q.h EXCEPT ![i] = x], idx |-> [q.idx EXCEPT ![x] = i]]

RECURSIVE bh_up(_, _, _, _)
bh_up(q, i, x, dl) ==
  IF i = 1 \/ dl[q.h[Parent(i, 2)]] <= dl[x] THEN bh_put(q, i, x)
  ELSE bh_up(bh_put(q, i, q.h[Parent(i, 2)]), Parent(i, 2), x, dl)

bh_down_child(q, i, dl) ==
  IF 2 * i + 1 <= Len(q.h) /\ dl[q.h[2 * i + 1]] < dl[q.h[2 * i]] THEN 2 * i + 1 ELSE 2 * i

RECURSIVE bh_down(_, _, _, _)
bh_down(q, i, x, dl) ==
  IF 2 * i > Len(q.h) \/ dl[q.h[bh_down_child(q, i, dl)]] >= dl[x] THEN bh_put(q, i, x)
  ELSE bh_down(bh_put(q, i, q.h[bh_down_child(q, i, dl)]), bh_down_child(q, i, dl), x, dl)

binh_push(q, t, dl) == bh_up([q EXCEPT !.h = Append(@, t)], Len(q.h) + 1, t, dl)

binh_remove(q, i, dl) ==
  LET x == q.h[Len(q.h)]
      less == [h |-> Front(q.h), idx |-> [q.idx EXCEPT ![q.h[i]] = 0]]
  IN  IF i = Len(q.h) THEN less
      ELSE IF i > 1 /\ dl[x] < dl[q.h[Parent(i, 2)]] THEN bh_up(less, i, x, dl)
      ELSE bh_down(less, i, x, dl)

bs_put(q, i, k, x) ==
  [k |-> [q.k EXCEPT ![i] = k], h |-> [q.h EXCEPT ![i] = x], idx |-> [q.idx EXCEPT ![x] = i]]

RECURSIVE bs_up(_, _, _, _)
bs_up(q, i, k, x) ==
  IF i = 1 \/ q.k[Parent(i, 2)] <= k THEN bs_put(q, i, k, x)
  ELSE bs_up(bs_put(q, i, q.k[Parent(i, 2)], q.h[Parent(i, 2)]), Parent(i, 2), k, x)

RECURSIVE bs_down(_, _, _, _)
bs_down(q, i, k, x) ==
  LET c == IF 2 * i + 1 <= Len(q.h) /\ q.k[2 * i + 1] < q.k[2 * i] THEN 2 * i + 1 ELSE 2 * i
  IN  IF 2 * i > Len(q.h) \/ q.k[c] >= k THEN bs_put(q, i, k, x)
      ELSE bs_down(bs_put(q, i, q.k[c], q.h[c]), c, k, x)

bs_push(q, t, dl) ==
  bs_up([q EXCEPT !.k = Append(@, dl[t]), !.h = Append(@, t)], Len(q.h) + 1, dl[t], t)

bs_remove(q, i) ==
  LET k == q.k[Len(q.k)]
      x == q.h[Len(q.h)]
      less == [k |-> Front(q.k), h |-> Front(q.h), idx |-> [q.idx EXCEPT ![q.h[i]] = 0]]
  IN  IF i = Len(q.h) THEN less
      ELSE IF i > 1 /\ k < q.k[Parent(i, 2)] THEN bs_up(less, i, k, x)
      ELSE bs_down(less, i, k, x)

----------------------------------------------------------------------------
(* The pairing heap: a is the first child, b the next sibling, c the previous sibling or
   the parent. *)

ph_less(dl, x, y) == dl[x] < dl[y] \/ (dl[x] = dl[y] /\ x < y)

ph_meld(q, x, y, dl) ==
  IF x = 0 THEN [q EXCEPT !.root = y]
  ELSE IF y = 0 THEN [q EXCEPT !.root = x]
  ELSE LET up == IF ph_less(dl, y, x) THEN y ELSE x
           dn == IF ph_less(dl, y, x) THEN x ELSE y
       IN  [root |-> up, a |-> [q.a EXCEPT ![up] = dn], b |-> [q.b EXCEPT ![dn] = q.a[up]],
            c |-> [t \in Nodes |-> IF t = dn THEN up ELSE IF t = q.a[up] THEN dn ELSE q.c[t]]]

(* The first pass melds pairs, from the left, into a list that b links backwards; *)
RECURSIVE Pairs(_, _, _, _)
Pairs(q, f, list, dl) ==
  IF f = 0 THEN [q EXCEPT !.root = list]
  ELSE LET y == q.b[f]
           nx == IF y = 0 THEN 0 ELSE q.b[y]
           apart == [q EXCEPT !.b = [@ EXCEPT ![f] = 0], !.c = [@ EXCEPT ![f] = 0]]
           both == [apart EXCEPT !.b = [t \in Nodes |-> IF t = y THEN 0 ELSE @[t]],
                                 !.c = [t \in Nodes |-> IF t = y THEN 0 ELSE @[t]]]
           m == ph_meld(both, f, y, dl)
       IN  Pairs([m EXCEPT !.b[m.root] = list], nx, m.root, dl)

(* the second melds that list into one heap. *)
RECURSIVE Chain(_, _, _, _)
Chain(q, r, list, dl) ==
  IF list = 0 THEN [q EXCEPT !.root = r, !.c[r] = 0]
  ELSE LET m == ph_meld([q EXCEPT !.b[list] = 0], r, list, dl)
       IN  Chain(m, m.root, q.b[list], dl)

ph_two_pass(q, f, dl) ==
  LET p == Pairs(q, f, 0, dl)
  IN  IF p.root = 0 THEN p
      ELSE Chain([p EXCEPT !.b[p.root] = 0], p.root, p.b[p.root], dl)

(* Take t, which is not the root, out of its list. *)
ph_cut(q, t) ==
  [q EXCEPT !.a = [x \in Nodes |-> IF x = q.c[t] /\ @[x] = t THEN q.b[t] ELSE @[x]],
            !.b = [x \in Nodes |-> IF x = q.c[t] /\ q.a[x] # t THEN q.b[t] ELSE @[x]],
            !.c = [x \in Nodes |-> IF x = q.b[t] THEN q.c[t] ELSE @[x]]]

ph_push(q, t, dl) ==
  ph_meld([q EXCEPT !.a[t] = 0, !.b[t] = 0, !.c[t] = 0], q.root, t, dl)

ph_cancel(q, t, dl) ==
  IF t = q.root THEN ph_two_pass(q, q.a[t], dl)
  ELSE LET sub == ph_two_pass(ph_cut(q, t), q.a[t], dl)
       IN  ph_meld(sub, q.root, sub.root, dl)
----------------------------------------------------------------------------
(* The buckets of the next two are doubly linked lists that grow at the head. *)

dl_ins(list, t) == <<t>> \o list
dl_del(list, t) == SelectSeq(list, LAMBDA x : x # t)

(* The radix heap: bucket 0 holds the keys up to last, bucket b those whose highest bit
   that differs from last is b - 1. *)

rx_bucket(last, k) ==
  IF k <= last THEN 0 ELSE Min({b \in 1 .. Bits : k \div 2^b = last \div 2^b})

rx_ins(q, t, dl) ==
  LET b == rx_bucket(q.last, dl[t])
  IN  [q EXCEPT !.idx[t] = b, !.bk[b] = dl_ins(@, t), !.mask = @ \cup {b}]

rx_push(q, t, dl) ==
  LET p == rx_ins(q, t, dl)
  IN  IF p.idx[t] # 0 /\ q.cmin_ok /\ dl[t] < q.cmin THEN [p EXCEPT !.cmin = dl[t]] ELSE p

rx_cancel(q, t, dl) ==
  LET b == q.idx[t]
      left == dl_del(q.bk[b], t)
  IN  [q EXCEPT !.bk[b] = left, !.mask = IF left = <<>> THEN @ \ {b} ELSE @,
                !.cmin_ok = @ /\ ~(b # 0 /\ dl[t] = q.cmin)]

rx_min(q, dl) ==
  IF q.cmin_ok THEN q
  ELSE [q EXCEPT !.cmin = Min({dl[t] : t \in ToSet(q.bk[Min(q.mask \ {0})])}), !.cmin_ok = TRUE]

(* With bucket 0 empty, last becomes the minimum and its bucket is spread again. *)
rx_pop_due(q, dl, now) ==
  LET m == IF 0 \in q.mask THEN q ELSE rx_min(q, dl)
      b == Min(m.mask)
      empty == [m EXCEPT !.last = m.cmin, !.bk[b] = <<>>, !.mask = @ \ {b}, !.cmin_ok = FALSE]
      spread == IF 0 \in q.mask THEN m
                ELSE FoldLeft(LAMBDA r, t : rx_ins(r, t, dl), empty, m.bk[b])
      t == Head(spread.bk[0])
      left == Tail(spread.bk[0])
  IN  IF q.mask = {} THEN Sole(q)
      ELSE IF 0 \notin q.mask /\ m.cmin > now THEN Sole(m)
      ELSE IF dl[t] > now THEN Sole(spread)
      ELSE [Sole([spread EXCEPT !.bk[0] = left,
                                !.mask = IF left = <<>> THEN @ \ {0} ELSE @]) EXCEPT !.t = t]

rx_next(q, dl) ==
  IF q.mask = {} THEN [Sole(q) EXCEPT !.v = -1]
  ELSE IF 0 \in q.mask THEN [Sole(q) EXCEPT !.v = q.last]
  ELSE [Sole(rx_min(q, dl)) EXCEPT !.v = rx_min(q, dl).cmin]

----------------------------------------------------------------------------
(* The wheel: a level's slot spans Slots of the slots below; no timer's tick is below
   cur. *)

wh_ins(q, t, dl) ==
  LET tk == Max({dl[t] \div Tick, q.cur})
      lv == Min({l \in 0 .. Levels - 1 : tk \div Slots^(l + 1) = q.cur \div Slots^(l + 1)})
      sl == (tk \div Slots^lv) % Slots
  IN  [q EXCEPT !.pos[t] = lv * Slots + sl, !.sl[lv][sl] = dl_ins(@, t),
                !.bm[lv] = @ \cup {sl}]

wh_cancel(q, t) ==
  LET lv == q.pos[t] \div Slots
      sl == q.pos[t] % Slots
      left == dl_del(q.sl[lv][sl], t)
  IN  [q EXCEPT !.sl[lv][sl] = left, !.bm[lv] = IF left = <<>> THEN @ \ {sl} ELSE @]

(* The tick at which the first occupied slot of a level begins. *)
SlotStart(q, lv) ==
  (q.cur \div Slots^(lv + 1)) * Slots^(lv + 1) + Min(q.bm[lv]) * Slots^lv

Occupied(q) == {l \in 0 .. Levels - 1 : q.bm[l] # {}}

wh_due(start, nt) == start < nt

(* The slot of an upper level that has begun is spread over the levels below. *)
RECURSIVE wh_pop_due(_, _, _)
wh_pop_due(q, dl, now) ==
  LET lv == Min(Occupied(q))
      start == SlotStart(q, lv)
      sl == Min(q.bm[lv])
      l == q.sl[lv][sl]
      taken == IF lv = 0 THEN Tail(l) ELSE <<>>
      rest == [q EXCEPT !.cur = start, !.sl[lv][sl] = taken,
                        !.bm[lv] = IF taken = <<>> THEN @ \ {sl} ELSE @]
  IN  IF Occupied(q) = {} THEN Sole(q)
      ELSE IF ~wh_due(start, now \div Tick) THEN Sole(q)
      ELSE IF lv = 0 THEN [Sole(rest) EXCEPT !.t = Head(l)]
      ELSE wh_pop_due(FoldLeft(LAMBDA r, t : wh_ins(r, t, dl), rest, l), dl, now)

wh_next(q) ==
  IF Occupied(q) = {} THEN -1 ELSE (SlotStart(q, Min(Occupied(q))) + 1) * Tick
----------------------------------------------------------------------------
(* The QuickHeap: ord lists the buckets from the largest keys to the smallest, piv[i]
   separates ord[i] from ord[i + 1]; a bucket is an element of pool, whose unused ones are
   in freeid.  qh keeps handles, qhl and qhls cancel lazily; qhl partitions by vectors. *)

Lazy == st.run.impl \in {"qhl", "qhls"}

qh_create ==
  [pool |-> <<<<>>>>, freeid |-> <<>>, ord |-> <<1>>, piv |-> <<>>, idx |-> Zero, pos |-> Zero,
   nlive |-> 0, ndead |-> 0]

nb(q) == Len(q.ord)
Bottom(q) == q.ord[nb(q)]

(* The bucket as the pool's id, with the handles of its nodes. *)
Fill(q, id, list) ==
  [q EXCEPT !.pool[id] = list,
            !.idx = [t \in Nodes |-> IF ~Lazy /\ t \in ToSet(list) THEN id ELSE @[t]],
            !.pos = [t \in Nodes |-> IF ~Lazy /\ t \in ToSet(list)
                                     THEN SelectInSeq(list, LAMBDA x : x = t) ELSE @[t]]]

(* A new bucket is one that was freed, or the pool grows; its id is the last of freeid. *)
qh_newbucket(q) ==
  IF q.freeid # <<>> THEN q
  ELSE [q EXCEPT !.pool = Append(@, <<>>), !.freeid = <<Len(q.pool) + 1>>]

qb_append(q, id, t) == Fill(q, id, Append(q.pool[id], t))

qh_push(q, t, dl) ==
  LET above == {i \in 1 .. nb(q) - 1 : dl[t] >= q.piv[i]}
      i == IF above = {} THEN nb(q) ELSE Min(above)
  IN  [qb_append(q, q.ord[i], t) EXCEPT !.nlive = @ + 1]

(* An empty bucket goes, and the pivot below it, or above the lowest. *)
qh_drop(q, oi) ==
  [q EXCEPT !.freeid = Append(@, q.ord[oi]), !.ord = RemoveAt(@, oi),
            !.piv = RemoveAt(@, IF oi = nb(q) THEN oi - 1 ELSE oi)]

(* The last of the bucket fills the gap. *)
qh_remove_at(q, id, p) ==
  LET b == q.pool[id]
      left == Fill(q, id, Front([b EXCEPT ![p] = b[Len(b)]]))
  IN  IF Len(b) = 1 /\ nb(q) > 1
      THEN qh_drop(left, CHOOSE k \in DOMAIN q.ord : q.ord[k] = id) ELSE left

(* Which go down: left of the pivot the smaller, right of it the equal ones too. *)
Goes(b, j, pi, dl) == IF j < pi THEN dl[b[j]] < dl[b[pi]] ELSE j > pi /\ dl[b[j]] <= dl[b[pi]]

Pick(b, js) == [n \in 1 .. Cardinality(js) |-> b[SetToSortSeq(js, <)[n]]]

ScalarSplit(b, pi, dl) ==
  LET go == {j \in 1 .. Len(b) : Goes(b, j, pi, dl)}
  IN  [stay |-> Pick(b, DOMAIN b \ go), go |-> Pick(b, go)]

(* A lane of the vector that begins at base: the masks lm and rm of the lanes on either
   side of the pivot. *)
LaneGoes(b, j, pi, base, dl) ==
  LET lm == IF pi >= base + VecLen THEN TRUE ELSE IF pi < base THEN FALSE ELSE j < pi
      rm == IF pi >= base + VecLen THEN FALSE ELSE IF pi < base THEN TRUE ELSE j > pi
  IN  (lm /\ dl[b[j]] < dl[b[pi]]) \/ (rm /\ dl[b[j]] <= dl[b[pi]])

(* Vector by vector, and the rest one by one. *)
qh_part_avx512(b, pi, dl) ==
  LET whole == (Len(b) \div VecLen) * VecLen
      go == {j \in 1 .. Len(b) :
               IF j <= whole THEN LaneGoes(b, j, pi, ((j - 1) \div VecLen) * VecLen + 1, dl)
               ELSE Goes(b, j, pi, dl)}
  IN  [stay |-> Pick(b, DOMAIN b \ go), go |-> Pick(b, go)]

(* Split the lowest bucket by a random pivot; eight pivots that split nothing leave it. *)
qh_partition(q, dl) ==
  LET b == q.pool[Bottom(q)]
      n == qh_newbucket(q)
      nid == n.freeid[Len(n.freeid)]
      parts == {[by |-> dl[b[pi]],
                 s |-> IF st.run.impl = "qhl" THEN qh_part_avx512(b, pi, dl) ELSE ScalarSplit(b, pi, dl)]
                : pi \in DOMAIN b}
  IN  {IF p.s.go = <<>> THEN [q |-> n, ok |-> FALSE]
       ELSE [q |-> [Fill(Fill(n, Bottom(q), p.s.stay), nid, p.s.go)
                      EXCEPT !.freeid = Front(@), !.ord = Append(@, nid),
                             !.piv = Append(@, p.by)],
             ok |-> TRUE] : p \in parts}

(* qh_bottom_min splits until the lowest bucket is small, and finds its first minimum. *)
RECURSIVE Bottoms(_, _)
Bottoms(q, dl) ==
  IF Len(q.pool[Bottom(q)]) <= QhSmall THEN {q}
  ELSE UNION {IF r.ok THEN Bottoms(r.q, dl) ELSE {r.q} : r \in qh_partition(q, dl)}

qh_bottom_min(q, dl) ==
  LET b == q.pool[Bottom(q)]
  IN  IF b = <<>> THEN 0
      ELSE CHOOSE m \in DOMAIN b :
             \A j \in DOMAIN b : dl[b[m]] < dl[b[j]] \/ (dl[b[m]] = dl[b[j]] /\ m <= j)

RECURSIVE DropEmpty(_, _)
DropEmpty(q, oi) ==
  IF oi = 0 \/ nb(q) = 1 THEN q
  ELSE DropEmpty(IF q.pool[q.ord[oi]] = <<>> THEN qh_drop(q, oi) ELSE q, oi - 1)

qh_sweep(q, dead) ==
  LET swept == [q EXCEPT !.pool = [id \in DOMAIN @ |-> SelectSeq(@[id], LAMBDA t : t \notin dead)],
                         !.ndead = 0]
  IN  DropEmpty(swept, nb(q))

qh_cancel(q, t, dead) ==
  LET less == [q EXCEPT !.nlive = @ - 1]
      mark == [less EXCEPT !.ndead = @ + 1]
      all == dead \cup {t}
  IN  IF ~Lazy THEN [Sole(qh_remove_at(less, q.idx[t], q.pos[t])) EXCEPT !.freed = {t}]
      ELSE IF mark.ndead > mark.nlive /\ mark.ndead > SweepMin
      THEN [Sole(qh_sweep(mark, all)) EXCEPT !.freed = all]
      ELSE Sole(mark)

(* Dead minima are dropped; then a due one is popped. *)
RECURSIVE qh_pop_due(_, _, _, _, _)
qh_pop_due(q, dl, now, dead, freed) ==
  UNION {LET mi == qh_bottom_min(p, dl)
             t == p.pool[Bottom(p)][mi]
             less == qh_remove_at(p, Bottom(p), mi)
         IN  IF mi = 0 THEN {[Sole(p) EXCEPT !.freed = freed]}
             ELSE IF t \in dead
             THEN qh_pop_due([less EXCEPT !.ndead = @ - 1], dl, now, dead \ {t}, freed \cup {t})
             ELSE IF dl[t] > now THEN {[Sole(p) EXCEPT !.freed = freed]}
             ELSE {[Sole([less EXCEPT !.nlive = @ - 1]) EXCEPT !.t = t, !.freed = freed]}
         : p \in Bottoms(q, dl)}

RECURSIVE qh_next(_, _, _, _)
qh_next(q, dl, dead, freed) ==
  UNION {LET mi == qh_bottom_min(p, dl)
             t == p.pool[Bottom(p)][mi]
         IN  IF mi = 0 THEN {[Sole(p) EXCEPT !.v = -1, !.freed = freed]}
             ELSE IF t \in dead
             THEN qh_next([qh_remove_at(p, Bottom(p), mi) EXCEPT !.ndead = @ - 1], dl,
                          dead \ {t}, freed \cup {t})
             ELSE {[Sole(p) EXCEPT !.v = dl[t], !.freed = freed]}
         : p \in Bottoms(q, dl)}
----------------------------------------------------------------------------
(* The interface pq_t.  "bin" runs the four binary heaps side by side. *)

Binary == st.run.impl = "bin"
Quick == st.run.impl \in {"qh", "qhl", "qhls"}
NoHeap == [h |-> <<>>, idx |-> Zero]

Created(impl) ==
  CASE impl = "bin" -> [bin |-> NoHeap, binh |-> NoHeap, bini |-> NoHeap,
                  bins |-> [k |-> <<>>, h |-> <<>>, idx |-> Zero]]
    [] impl = "dary" -> NoHeap
    [] impl = "pair" -> [root |-> 0, a |-> Zero, b |-> Zero, c |-> Zero]
    [] impl = "radix" -> [bk |-> [b \in 0 .. Bits |-> <<>>], mask |-> {}, last |-> 0, cmin |-> 0,
                          cmin_ok |-> FALSE, idx |-> Zero]
    [] impl = "wheel" -> [sl |-> [l \in 0 .. Levels - 1 |-> [i \in 0 .. Slots - 1 |-> <<>>]],
                          bm |-> [l \in 0 .. Levels - 1 |-> {}], cur |-> 0, pos |-> Zero]
    [] OTHER -> qh_create

push(q, t, dl) ==
  LET x == [k |-> dl[t], t |-> t]
  IN  CASE Binary -> [bin |-> bin_push(q.bin, t, dl), binh |-> binh_push(q.binh, t, dl),
                      bini |-> dh_push(q.bini, x, 2), bins |-> bs_push(q.bins, t, dl)]
        [] st.run.impl = "dary" -> dh_push(q, x, D)
        [] st.run.impl = "pair" -> ph_push(q, t, dl)
        [] st.run.impl = "radix" -> rx_push(q, t, dl)
        [] st.run.impl = "wheel" -> wh_ins(q, t, dl)
        [] Quick -> qh_push(q, t, dl)

cancel(q, t, dl, dead) ==
  LET done == CASE Binary -> [bin |-> bin_cancel(q.bin, t, dl),
                              binh |-> binh_remove(q.binh, q.binh.idx[t], dl),
                              bini |-> dh_remove(q.bini, q.bini.idx[t], 2),
                              bins |-> bs_remove(q.bins, q.bins.idx[t])]
                [] st.run.impl = "dary" -> dh_remove(q, q.idx[t], D)
                [] st.run.impl = "pair" -> ph_cancel(q, t, dl)
                [] st.run.impl = "radix" -> rx_cancel(q, t, dl)
                [] st.run.impl = "wheel" -> wh_cancel(q, t)
  IN  IF Quick THEN qh_cancel(q, t, dead) ELSE [Sole(done) EXCEPT !.freed = {t}]

(* What the four binary heaps pop they pop together (QueueHolds). *)
binh_pop_due(q, dl, now) ==
  LET t == bin_pop_due(q.bin, dl, now)
  IN  IF t = 0 THEN Sole(q)
      ELSE [Sole([bin |-> bin_cancel(q.bin, t, dl), binh |-> binh_remove(q.binh, 1, dl),
                  bini |-> dh_remove(q.bini, 1, 2), bins |-> bs_remove(q.bins, 1)]) EXCEPT !.t = t]

dh_pop_due(q, now) ==
  IF q.h = <<>> THEN Sole(q) ELSE IF q.h[1].k > now THEN Sole(q)
  ELSE [Sole(dh_remove(q, 1, D)) EXCEPT !.t = q.h[1].t]

ph_pop_due(q, dl, now) ==
  IF q.root = 0 THEN Sole(q) ELSE IF dl[q.root] > now THEN Sole(q)
  ELSE [Sole(ph_two_pass(q, q.a[q.root], dl)) EXCEPT !.t = q.root]

pop_due(q, dl, now, dead) ==
  CASE Binary -> {binh_pop_due(q, dl, now)}
    [] st.run.impl = "dary" -> {dh_pop_due(q, now)}
    [] st.run.impl = "pair" -> {ph_pop_due(q, dl, now)}
    [] st.run.impl = "radix" -> {rx_pop_due(q, dl, now)}
    [] st.run.impl = "wheel" -> {wh_pop_due(q, dl, now)}
    [] Quick -> qh_pop_due(q, dl, now, dead, {})

bin_next(q, dl) == IF q.bin.h = <<>> THEN -1 ELSE dl[q.bin.h[1]]

dh_next(q) == IF q.h = <<>> THEN -1 ELSE q.h[1].k

ph_next(q, dl) == IF q.root = 0 THEN -1 ELSE dl[q.root]

next(q, dl, dead) ==
  CASE Binary -> {[Sole(q) EXCEPT !.v = bin_next(q, dl)]}
    [] st.run.impl = "dary" -> {[Sole(q) EXCEPT !.v = dh_next(q)]}
    [] st.run.impl = "pair" -> {[Sole(q) EXCEPT !.v = ph_next(q, dl)]}
    [] st.run.impl = "radix" -> {rx_next(q, dl)}
    [] st.run.impl = "wheel" -> {[Sole(q) EXCEPT !.v = wh_next(q)]}
    [] Quick -> qh_next(q, dl, dead, {})

Far == 2^Bits - 1      \* INT64_MAX

QInit ==
  \E r \in Runs :
    st = [run |-> r, q |-> Created(r.impl), dl |-> Zero, dead |-> {}, nfree |-> r.arms, now |-> 0, last |-> 0,
          armed |-> 0, live |-> {}, out |-> [op |-> "none", t |-> 0, v |-> 0]]

(* A node in the pool has no deadline; that of the last pop is kept for its result. *)
Blank(dl, freed) ==
  [t \in Nodes |-> IF t \in freed \/ (t = st.out.t /\ t # 0) THEN 0 ELSE dl[t]]

Nothing == [op |-> "none", t |-> 0, v |-> 0]

(* A node leaves the pool and is armed: after the clock's time, or in the trace that pops
   without one, after the deadline that was popped last. *)
op_push(d) ==
  /\ st.armed < st.run.arms /\ st.nfree > 0
  /\ LET t == st.armed + 1
         dl == [Blank(st.dl, {}) EXCEPT ![t] = (IF st.run.trace = "mcs" THEN st.last ELSE st.now) + d]
     IN  st' = [st EXCEPT !.armed = t, !.dl = dl, !.nfree = @ - 1, !.live = @ \cup {t},
                          !.q = push(@, t, dl), !.out = Nothing]

(* What the operation freed goes back to the pool. *)
op_cancel(t) ==
  /\ t \in st.live /\ st.run.trace # "mcs"
  /\ LET r == cancel(st.q, t, st.dl, st.dead)
     IN  st' = [st EXCEPT !.q = r.q, !.live = @ \ {t}, !.dead = (@ \cup {t}) \ r.freed,
                          !.dl = Blank(@, r.freed), !.nfree = @ + Cardinality(r.freed), !.out = Nothing]

(* The trace frees what it pops. *)
op_pop ==
  \E r \in pop_due(st.q, st.dl, IF st.run.trace = "mcs" THEN Far ELSE st.now, st.dead) :
    st' = [st EXCEPT !.q = r.q, !.live = @ \ {r.t}, !.dead = @ \ r.freed,
                     !.dl = Blank(@, r.freed), !.nfree = @ + Cardinality(r.freed) + (IF r.t = 0 THEN 0 ELSE 1),
                     !.last = IF r.t # 0 /\ st.run.trace = "mcs" THEN st.dl[r.t] ELSE @,
                     !.out = [op |-> "pop", t |-> r.t, v |-> 0]]

op_next ==
  \E r \in next(st.q, st.dl, st.dead) :
    st' = [st EXCEPT !.q = r.q, !.dead = @ \ r.freed, !.dl = Blank(@, r.freed),
                     !.nfree = @ + Cardinality(r.freed), !.out = [op |-> "next", t |-> 0, v |-> r.v]]

TimePasses ==
  /\ st.now < st.run.now /\ st.run.trace # "mcs"
  /\ st' = [st EXCEPT !.now = @ + 1, !.dl = Blank(@, {}), !.out = Nothing]

QNext ==
  \/ \E d \in st.run.delays : op_push(d)
  \/ \E t \in Nodes : op_cancel(t)
  \/ op_pop \/ op_next \/ TimePasses

(* The nodes the structure holds, in a sequence. *)
RECURSIVE Subtree(_, _)
Subtree(q, t) == IF t = 0 THEN <<>> ELSE <<t>> \o Subtree(q, q.a[t]) \o Subtree(q, q.b[t])

Contents(q) ==
  CASE Binary -> q.bin.h
    [] st.run.impl = "dary" -> [i \in DOMAIN q.h |-> q.h[i].t]
    [] st.run.impl = "pair" -> Subtree(q, q.root)
    [] st.run.impl = "radix" -> FlattenSeq([b \in 1 .. Bits + 1 |-> q.bk[b - 1]])
    [] st.run.impl = "wheel" -> FlattenSeq([i \in 1 .. Levels * Slots |->
                           q.sl[(i - 1) \div Slots][(i - 1) % Slots]])
    [] Quick -> FlattenSeq([i \in 1 .. nb(q) |-> q.pool[q.ord[i]]])

(* A candidate holds every node that was armed and neither popped nor cancelled, once and
   with a handle that finds it, and the pool has all others; the four binary heaps, which
   make the same comparisons, agree on every slot and so pop equal deadlines in the same
   order. *)
QueueHolds ==
  /\ ToSet(Contents(st.q)) = st.live \cup st.dead
  /\ Len(Contents(st.q)) = Cardinality(st.live \cup st.dead)
  /\ st.nfree + Len(Contents(st.q)) = st.run.arms
  /\ st.run.impl = "dary" => \A i \in DOMAIN st.q.h : st.q.idx[st.q.h[i].t] = i
  /\ st.run.impl = "qh" => \A t \in st.live : st.q.pool[st.q.idx[t]][st.q.pos[t]] = t
  /\ Quick => st.q.nlive = Cardinality(st.live) /\ st.q.ndead = Cardinality(st.dead)
  /\ Binary => /\ st.q.binh = st.q.bin
               /\ st.q.bins.h = st.q.bin.h /\ st.q.bins.idx = st.q.bin.idx
               /\ [i \in DOMAIN st.q.bini.h |-> st.q.bini.h[i].t] = st.q.bin.h
               /\ \A t \in st.live : st.q.bin.h[st.q.bin.idx[t]] = t

(* What is popped is due and the first, nothing due is left when nothing is popped, and
   who sleeps until the next deadline does not sleep past a timer; the wheel counts in
   ticks and is a tick late. *)
PopsFirst ==
  LET due(t) == IF st.run.impl = "wheel" THEN (st.dl[t] \div Tick + 1) * Tick ELSE st.dl[t]
      now == IF st.run.trace = "mcs" THEN Far ELSE st.now
  IN  /\ st.out.op = "pop" /\ st.out.t # 0 =>
           due(st.out.t) <= now /\ \A t \in st.live : due(st.out.t) <= due(t)
      /\ st.out.op = "pop" /\ st.out.t = 0 => \A t \in st.live : due(t) > now
      /\ st.out.op = "next" => /\ st.out.v = -1 <=> st.live = {}
                               /\ \A t \in st.live : st.out.v <= due(t) \/ st.out.v <= now
=============================================================================
