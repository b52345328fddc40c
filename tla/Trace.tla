------------------------------- MODULE Trace -------------------------------
(***************************************************************************)
(* What the runtime tells of itself.                                       *)
(*                                                                         *)
(* The tail of ptc/tail.c: events stamped and put in a ring under a lock,  *)
(* and the two dumps of a snapshot of it, XTCL, a stream of bytes, and the *)
(* frames of dial9.  A payload stands for the pid and the detail of an     *)
(* event.  An append, a snapshot and a write are one action each.          *)
(*                                                                         *)
(* The histogram of ptc/stats.c (H): records into the buckets of a shard,  *)
(* and a quantile read across all of them, without a lock.  An access to   *)
(* a shard is one action.                                                  *)
(***************************************************************************)
EXTENDS Integers, Sequences, FiniteSets
LOCAL INSTANCE SequencesExt
LOCAL INSTANCE FiniteSetsExt

CONSTANTS
  Threads,           \* those that emit, or record
  Kinds,             \* of events, numbers below 128
  Fields,            \* per kind, the fields of its dial9 schema; a kind without one is skipped
  Ticks,             \* what may pass between two events
  Ring, DeltaMax,    \* XTC_TAIL_RING, XTC_D9_DELTA_MAX
  Base,              \* the bytes of a varint have digits of this base, in place of 128
  MaxEvents,         \* bound: events emitted, or values recorded
  BaseBits, SubBits, \* H: XTC_HIST_BASE_BITS, XTC_HIST_SUB_BITS
  Shards, Vals,      \* H: the shards, the values
  Quantiles          \* H: pairs <<n, d>>, for n / d in 0 .. 1

(* For the tail, st has the fields
     on       the source is in __tail_mask
     ring, seq           __tail_ring, __tail_seq
     clock    the monotonic clock
     epc      per thread: Idle, or the kind of an event that passed the mask
     d        the dump: pc, fmt, snap, i; prev, the prev_ts or base_ts; seen; out, what
              the file has
   and, to state what is right,
     log      the events since the last reset
     want     what the dump is to tell
     events   events so far *)
VARIABLE st

Idle == -1
NoDump == [pc |-> "idle", fmt |-> "none", snap |-> <<>>, i |-> 0, prev |-> 0, seen |-> {},
           out |-> <<>>]

(* __xtc_tail_from_env may have enabled the source. *)
Init ==
  \E on \in BOOLEAN :
    st = [on |-> on, ring |-> [k \in 0 .. Ring - 1 |-> <<>>], seq |-> 0, clock |-> 1,
          epc |-> [t \in Threads |-> Idle], d |-> NoDump, log |-> <<>>, want |-> <<>>,
          events |-> 0]

----------------------------------------------------------------------------
(* Emitting *)

(* __xtc_tail_emit: the mask without the lock, ... *)
Emit(t, k) ==
  /\ st.epc[t] = Idle /\ st.on /\ st.events < MaxEvents
  /\ st' = [st EXCEPT !.epc[t] = k, !.events = @ + 1]

(* ... then the record, stamped under it. *)
EmitLocked(t, tick) ==
  LET r == [ts |-> st.clock + tick, kind |-> st.epc[t], payload |-> st.events]
  IN  /\ st.epc[t] # Idle
      /\ st' = [st EXCEPT !.ring[st.seq % Ring] = r, !.seq = @ + 1, !.clock = r.ts,
                          !.epc[t] = Idle, !.log = Append(@, r)]

Enable == ~st.on /\ st' = [st EXCEPT !.on = TRUE]
Disable == st.on /\ st' = [st EXCEPT !.on = FALSE]
Reset == st.seq > 0 /\ st' = [st EXCEPT !.seq = 0, !.log = <<>>]

----------------------------------------------------------------------------
(* Dumping *)

(* __tail_snapshot, which leaves nothing behind, so that one dump is enough. *)
Oldest(s) == IF s.seq < Ring THEN 0 ELSE s.seq % Ring
Kept(s) == IF s.seq < Ring THEN s.seq ELSE Ring
Snap(s) == [j \in 1 .. Kept(s) |-> s.ring[(Oldest(s) + j - 1) % Ring]]

Snapshot(fmt) ==
  /\ st.d.pc = "idle"
  /\ st' = [st EXCEPT !.d = [NoDump EXCEPT !.pc = "header", !.fmt = fmt, !.snap = Snap(st)],
                      !.want = SubSeq(st.log, Len(st.log) - Kept(st) + 1, Len(st.log))]

(* A write: all of it, or an error after some of it. *)
Wrote(d) == st' = [st EXCEPT !.d = [d EXCEPT !.pc = IF d.i = Len(d.snap) THEN "ok" ELSE "record"]]
WriteFails(bytes, k) ==
  st' = [st EXCEPT !.d.out = @ \o SubSeq(bytes, 1, k), !.d.pc = "failed"]
Write(d, bytes) ==
  \/ Wrote([d EXCEPT !.out = @ \o bytes])
  \/ \E k \in 0 .. Len(bytes) - 1 : WriteFails(bytes, k)

FirstTs(d) == IF d.snap = <<>> THEN 0 ELSE d.snap[1].ts

(* The header of XTCL, as a word: the count and the first stamp; the frames of dial9, of
   which only the one that sets the time matters here. *)
HeaderOf(d) ==
  IF d.fmt = "xtcl" THEN <<[n |-> Len(d.snap), ts |-> FirstTs(d)]>>
                    ELSE <<[f |-> "reset", ts |-> FirstTs(d)]>>
Header ==
  /\ st.d.pc = "header"
  /\ Write([st.d EXCEPT !.prev = FirstTs(st.d)], HeaderOf(st.d))

(* __leb128: a digit is followed by another unless it is the last. *)
Leb[v \in Nat] ==
  IF v < Base THEN <<v>> ELSE <<(v % Base) + Base>> \o Leb[v \div Base]

(* xtc_tail_dump *)
DumpRecord ==
  LET d == st.d
      r == d.snap[d.i + 1]
      dts == IF r.ts >= d.prev THEN r.ts - d.prev ELSE 0
  IN  /\ d.pc = "record" /\ d.fmt = "xtcl"
      /\ Write([d EXCEPT !.i = @ + 1, !.prev = r.ts], <<r.kind>> \o Leb[dts] \o Leb[r.payload])

(* xtc_tail_dump_dial9: the schema before the first event of its kind, a reset of the time
   where a difference does not fit, and the values in the order of the schema. *)
KindSchema(r) == IF r.kind \in DOMAIN Fields THEN Fields[r.kind] ELSE <<>>
ValueOf(r, field) == IF field = "detail" THEN r.payload ELSE 0
Values(r) == [j \in DOMAIN KindSchema(r) |-> ValueOf(r, KindSchema(r)[j])]
SchemaFrame(d, r) ==
  IF r.kind \in d.seen THEN <<>> ELSE <<[f |-> "schema", kind |-> r.kind, fields |-> KindSchema(r)]>>
Resets(d, r) == r.ts < d.prev \/ r.ts - d.prev > DeltaMax
ResetFrame(d, r) == IF Resets(d, r) THEN <<[f |-> "reset", ts |-> r.ts]>> ELSE <<>>
EventFrame(d, r) ==
  [f |-> "event", kind |-> r.kind,
   delta |-> (r.ts - (IF Resets(d, r) THEN r.ts ELSE d.prev)) % (DeltaMax + 1),
   vals |-> Values(r)]
Dial9Record ==
  LET d == st.d
      r == d.snap[d.i + 1]
  IN  /\ d.pc = "record" /\ d.fmt = "dial9"
      /\ IF KindSchema(r) = <<>>
           THEN Wrote([d EXCEPT !.i = @ + 1])
           ELSE Write([d EXCEPT !.i = @ + 1, !.prev = r.ts, !.seen = @ \cup {r.kind}],
                      SchemaFrame(d, r) \o ResetFrame(d, r) \o <<EventFrame(d, r)>>)

Next ==
  \/ \E t \in Threads : \/ \E k \in Kinds : Emit(t, k)
                        \/ \E tick \in Ticks : EmitLocked(t, tick)
  \/ Enable \/ Disable \/ Reset
  \/ \E fmt \in {"xtcl", "dial9"} : Snapshot(fmt)
  \/ Header \/ DumpRecord \/ Dial9Record

----------------------------------------------------------------------------
(* What a reader makes of a file.  A varint at the head of s: its value and what follows;
   <<>> if it is cut off. *)
RECURSIVE ReadLeb(_)
ReadLeb(s) ==
  IF s = <<>> THEN <<>>
  ELSE IF s[1] < Base THEN <<s[1], Tail(s)>>
  ELSE LET more == ReadLeb(Tail(s))
       IN  IF more = <<>> THEN <<>> ELSE <<s[1] - Base + Base * more[1], more[2]>>

(* The records of XTCL from s on, n of them at most, after the stamp ts. *)
RECURSIVE ReadXtcl(_, _, _)
ReadXtcl(s, n, ts) ==
  LET dts == IF s = <<>> THEN <<>> ELSE ReadLeb(Tail(s))
      pay == IF dts = <<>> THEN <<>> ELSE ReadLeb(dts[2])
  IN  IF n = 0 \/ pay = <<>> THEN <<>>
      ELSE <<[ts |-> ts + dts[1], kind |-> s[1], payload |-> pay[1]]>>
             \o ReadXtcl(pay[2], n - 1, ts + dts[1])

(* The events of dial9, of which a reader knows the kinds in `known`. *)
RECURSIVE ReadDial9(_, _, _)
ReadDial9(s, ts, known) ==
  IF s = <<>> THEN <<>>
  ELSE LET f == s[1]
       IN  CASE f.f = "reset" -> ReadDial9(Tail(s), f.ts, known)
             [] f.f = "schema" -> ReadDial9(Tail(s), ts, known \cup {f.kind})
             [] OTHER -> <<[ts |-> ts + f.delta, kind |-> f.kind, vals |-> f.vals,
                            read |-> f.kind \in known]>>
                           \o ReadDial9(Tail(s), ts + f.delta, known)

(* An event as its schema tells it. *)
AsDial9(r) ==
  [ts |-> r.ts, kind |-> r.kind, vals |-> Values(r), read |-> TRUE]
Schematic(s) == SelectSeq(s, LAMBDA r : r.kind \in DOMAIN Fields)

Told ==
  LET d == st.d
  IN  CASE d.out = <<>> -> <<>>
        [] d.out # <<>> /\ d.fmt = "xtcl" -> ReadXtcl(Tail(d.out), d.out[1].n, d.out[1].ts)
        [] OTHER -> ReadDial9(d.out, 0, {})
ToTell ==
  IF st.d.fmt = "xtcl" THEN st.want
  ELSE [j \in DOMAIN Schematic(st.want) |-> AsDial9(Schematic(st.want)[j])]

(* xtc_tail_dump and xtc_tail_dump_dial9: a dump tells of the newest events since the last
   reset, the oldest first, each with its own stamp, while threads emit, reset and disable; if
   a write fails, of the first of them. *)
DumpTellsTruth ==
  /\ IsPrefix(Told, ToTell)
  /\ st.d.pc = "ok" => Told = ToTell

----------------------------------------------------------------------------
(* The histogram.  For it st has the fields
     cpu      per thread: __cached_cpu
     buckets, max        per shard
     rec      per thread: "idle", or where xtc_hist_record is
     q        xtc_hist_quantile: pc, b and s, the access it is at; total, running, target,
              m, and ans
   and, to state what is right,
     had      per bucket: the records when the query began
     all      per value: how often it was recorded
     quiet    no record has been on its way during the query
     events   records so far *)
Subs == 2 ^ SubBits
NBuckets == BaseBits * Subs
Buckets == 0 .. NBuckets - 1

(* __hist_bucket: the number of the highest bit and the SubBits bits below it. *)
HighBit(v) == CHOOSE k \in 0 .. BaseBits : 2 ^ k <= v /\ v < 2 ^ (k + 1)
Bucket(value) ==
  LET v == Min({value, 2 ^ BaseBits - 1})
      base == HighBit(v)
      sub == IF base >= SubBits THEN (v \div 2 ^ (base - SubBits)) % Subs
                                ELSE (v * 2 ^ (SubBits - base)) % Subs
  IN  IF value <= 0 THEN 0 ELSE base * Subs + sub

LowerBound(b) ==
  LET base == b \div Subs
      sub == b % Subs
  IN  2 ^ base + (IF base >= SubBits THEN sub * 2 ^ (base - SubBits) ELSE sub \div 2 ^ (SubBits - base))
UpperBound(b) ==
  LET base == b \div Subs
  IN  IF base >= SubBits THEN LowerBound(b) + 2 ^ (base - SubBits) - 1 ELSE LowerBound(b)

NoQuery == [pc |-> "idle", b |-> 0, s |-> 1, total |-> 0, running |-> 0, target |-> 0, m |-> 0,
            ans |-> 0, of |-> <<0, 1>>]

HInit ==
  \E cpu \in [Threads -> 1 .. Shards] :
    st = [cpu |-> cpu, buckets |-> [s \in 1 .. Shards |-> [b \in Buckets |-> 0]],
          max |-> [s \in 1 .. Shards |-> 0], rec |-> [t \in Threads |-> [at |-> "idle"]],
          q |-> NoQuery, had |-> [b \in Buckets |-> 0], all |-> [v \in Vals |-> 0], quiet |-> TRUE, events |-> 0]

(* xtc_hist_record *)
Record(t, v) ==
  /\ st.rec[t].at = "idle" /\ st.events < MaxEvents
  /\ st' = [st EXCEPT !.buckets[st.cpu[t]][Bucket(v)] = @ + 1,
                      !.rec[t] = [at |-> "max", v |-> v],
                      !.all[v] = @ + 1, !.quiet = FALSE, !.events = @ + 1]

LoadMax(t) ==
  LET cur == st.max[st.cpu[t]]
      v == st.rec[t].v
  IN  /\ st.rec[t].at = "max"
      /\ st' = [st EXCEPT !.rec[t] = IF v > cur THEN [at |-> "cas", v |-> v, cur |-> cur]
                                                ELSE [at |-> "idle"]]

CasMax(t) ==
  LET r == st.rec[t]
      s == st.cpu[t]
  IN  /\ r.at = "cas"
      /\ st' = IF st.max[s] = r.cur
                 THEN [st EXCEPT !.max[s] = r.v, !.rec[t] = [at |-> "idle"]]
                 ELSE [st EXCEPT !.rec[t] = IF r.v > st.max[s] THEN [r EXCEPT !.cur = st.max[s]]
                                                               ELSE [at |-> "idle"]]

(* xtc_hist_quantile, which leaves nothing behind, so that one is enough: the count, ... *)
TotalOf(b) == MapThenSumSet(LAMBDA s : st.buckets[s][b], 1 .. Shards)
Query(n, d) ==
  /\ st.q.pc = "idle"
  /\ st' = [st EXCEPT !.q = [NoQuery EXCEPT !.pc = "count", !.of = <<n, d>>],
                      !.had = [b \in Buckets |-> TotalOf(b)],
                      !.quiet = \A t \in Threads : st.rec[t].at = "idle"]

After(q) == IF q.s < Shards THEN [q EXCEPT !.s = @ + 1] ELSE [q EXCEPT !.s = 1, !.b = @ + 1]
Ceil(n, d) == (n + d - 1) \div d
Target(q, total) == Max({1, Ceil(total * q.of[1], q.of[2])})
Counted(q) ==
  IF q.b < NBuckets THEN q
  ELSE IF q.total = 0 THEN [q EXCEPT !.pc = "done"]
  ELSE [q EXCEPT !.pc = "walk", !.b = 0, !.target = Target(q, q.total)]
CountShard ==
  LET q == st.q
  IN  /\ q.pc = "count"
      /\ st' = [st EXCEPT !.q = Counted(After([q EXCEPT !.total = @ + st.buckets[q.s][q.b]]))]

(* ... the walk to the target, ... *)
Walked(q) ==
  LET n == After(q)
  IN  IF q.s < Shards THEN n
      ELSE IF q.running >= q.target \/ n.b = NBuckets THEN [q EXCEPT !.pc = "max", !.s = 1]
      ELSE n
WalkShard ==
  LET q == st.q
  IN  /\ q.pc = "walk"
      /\ st' = [st EXCEPT !.q = Walked([q EXCEPT !.running = @ + st.buckets[q.s][q.b]])]

(* ... and the largest value. *)
Answer(b, m) ==
  CASE b = 0 -> IF m > 0 THEN 1 ELSE 0
    [] b # 0 /\ m >= LowerBound(b) /\ (m < UpperBound(b) \/ b = NBuckets - 1) -> m
    [] OTHER -> UpperBound(b)
MaxShard ==
  LET q == st.q
      m == Max({q.m, st.max[q.s]})
  IN  /\ q.pc = "max"
      /\ st' = [st EXCEPT !.q = IF q.s < Shards THEN [q EXCEPT !.m = m, !.s = @ + 1]
                                ELSE [q EXCEPT !.m = m, !.pc = "done", !.ans = Answer(q.b, m)]]

HNext ==
  \/ \E t \in Threads : LoadMax(t) \/ CasMax(t) \/ \E v \in Vals : Record(t, v)
  \/ \E q \in Quantiles : Query(q[1], q[2])
  \/ CountShard \/ WalkShard \/ MaxShard

----------------------------------------------------------------------------
InBuckets(f, B) == MapThenSumSet(LAMBDA b : f[b], B)
Ended == st.q.pc = "done" /\ st.q.total > 0

(* __hist_bucket: every value is within the bounds of its bucket, the top one has all that are
   larger, no value is in two buckets, and a bucket is no wider than 1 / 2^SubBits of its
   values. *)
BucketsRight ==
  /\ \A v \in 1 .. 2 ^ BaseBits - 1 : \A b \in Buckets :
       b = Bucket(v) => LowerBound(b) <= v /\ v <= UpperBound(b)
                          /\ (UpperBound(b) - LowerBound(b)) * Subs <= LowerBound(b)
  /\ \A v \in Vals : Bucket(v) \in Buckets /\ (v >= 2 ^ BaseBits => Bucket(v) = NBuckets - 1)
  /\ \A v, w \in 1 .. 2 ^ BaseBits - 1 : v < w => Bucket(v) <= Bucket(w)

(* xtc_hist_quantile: the walk finds its target although records come in between, and the
   bucket is right for the records there when it began and those there when it ended. *)
QuantileBracketed ==
  Ended =>
    LET q == st.q
        now == [b \in Buckets |-> TotalOf(b)]
        size(f) == InBuckets(f, Buckets)
    IN  /\ q.running >= q.target
        /\ size(st.had) <= q.total /\ q.total <= size(now)
        /\ InBuckets(now, 0 .. q.b) >= Target(q, size(st.had))
        /\ InBuckets(st.had, 0 .. q.b - 1) < Target(q, size(now))

(* Nearest rank, where nothing is recorded meanwhile: the answer is no smaller than the smallest
   value with enough values at or below it, in the same bucket, and no larger than the
   largest value recorded. *)
AtMost(v) == MapThenSumSet(LAMBDA w : st.all[w], {w \in Vals : w <= v})
Rank(q) == Min({v \in Vals : AtMost(v) >= Target(q, AtMost(Max(Vals)))})
QuantileExact ==
  Ended /\ st.quiet =>
    LET v == Rank(st.q)
    IN  /\ v <= st.q.ans /\ Bucket(v) = Bucket(st.q.ans)
        /\ \E w \in Vals : st.all[w] > 0 /\ st.q.ans <= w
=============================================================================
