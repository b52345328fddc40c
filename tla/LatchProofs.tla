---------------------------- MODULE LatchProofs ----------------------------
(***************************************************************************)
(* Proofs about the parking reader/writer latch of SyncArwlock, for any    *)
(* number of fibers and threads.                                           *)
(***************************************************************************)
EXTENDS SyncArwlock, WaitProofs, WellFoundedInduction, SequenceTheorems

Spec == Init /\ [][Next]_<<fwVars, st>>

ModeSet == {ARW_SHARED, ARW_EXCL}

Latches ==
  [readers : Nat, writer : BOOLEAN, granted : SUBSET Fibers, last_excl : BOOLEAN,
   mode : [Actors -> ModeSet]]

(* Who has the latch, a fiber that was granted it and has not run yet among them. *)
Hold == {a \in Actors : pc[a] = "got"} \cup st.granted

(* The words of the latch l count the holders H: one writer, alone, or the readers. *)
Counts(l, H) ==
  IF l.writer
  THEN l.readers = 0 /\ \E h \in H : H = {h} /\ l.mode[h] = ARW_EXCL
  ELSE l.readers = Cardinality(H) /\ \A h \in H : l.mode[h] = ARW_SHARED

Free(l) == ~l.writer /\ l.readers = 0

(* A fiber that was granted the latch has not run since, and is off the queue; who is
   parked is queued or has been granted the latch. *)
Parked ==
  /\ \A f \in st.granted : pc[f] = "parked" /\ f \notin Range(wq)
  /\ \A f \in Fibers : pc[f] = "parked" => f \in Range(wq) \cup st.granted

HeadWaits == wq # <<>> => ~__arw_compatible(st.mode[Head(wq)], st)

Minded ==
  Free(st) /\ (\E t \in Threads : pc[t] = "asleep") =>
    \E t \in Threads : Roused(t) \/ pc[t] = "spin"

LaInv ==
  /\ WaitInv /\ \A a \in Actors : pc[a] # "relock"
  /\ st \in Latches /\ Counts(st, Hold) /\ Parked /\ HeadWaits /\ Minded

----------------------------------------------------------------------------
(* The naturals are well ordered. *)
LEMMA LessThan == \E R : IsWellFoundedOn(R, Nat) /\ \A x, y \in Nat : y < x => <<y, x>> \in R
<1> DEFINE R == OpToRel(<, Nat)
<1>1. IsWellFoundedOn(R, Nat)  BY NatLessThanWellFounded, Zenon
<1>2. \A x, y \in Nat : y < x => <<y, x>> \in R  BY DEF OpToRel
<1> HIDE DEF R
<1> QED  BY <1>1, <1>2, Zenon

LEMMA LeastNatural ==
  ASSUME NEW T, T \subseteq Nat, T # {}
  PROVE  \E n \in T : \A m \in T : n <= m
<1>1. PICK R : IsWellFoundedOn(R, Nat) /\ \A x, y \in Nat : y < x => <<y, x>> \in R
  BY LessThan
<1>2. PICK x \in T : \A y \in T : ~(<<y, x>> \in R)  BY <1>1, WFMin, Zenon
<1>3. ASSUME NEW y \in T PROVE x <= y
  <2>1. x \in Nat /\ y \in Nat  OBVIOUS
  <2>2. ~(y < x)  BY <1>1, <1>2, <2>1, Zenon
  <2> QED  BY <2>1, <2>2
<1> QED  BY <1>3

(* The first n waiters. *)
First(q, n) == {q[i] : i \in 1 .. n}

LEMMA NothingLeft ==
  ASSUME NEW k \in Nat, NEW n \in 0 .. k, ~(n + 1 <= k)
  PROVE  k - n = 0
OBVIOUS

(* The queue without its first n waiters. *)
LEMMA DropQueue ==
  ASSUME NEW q, Queue(q), NEW n \in 0 .. Len(q)
  PROVE  LET r == SubSeq(q, n + 1, Len(q)) IN
         /\ Queue(r) /\ First(q, n) \subseteq Range(q) /\ Range(q) \subseteq Fibers
         /\ Range(r) = Range(q) \ First(q, n)
         /\ r # <<>> => n < Len(q) /\ Head(r) = q[n + 1]
<1> DEFINE r == SubSeq(q, n + 1, Len(q))
<1>1. q \in [1 .. Len(q) -> Fibers] /\ Len(q) \in Nat /\ DOMAIN q = 1 .. Len(q)
  BY DEF Queue
<1>2. /\ r \in Seq(Fibers) /\ Len(r) = Len(q) - n
      /\ \A i \in 1 .. Len(q) - n : r[i] = q[n + i]
  <2>1. n + 1 \in Int /\ Len(q) \in Int /\ \A i \in n + 1 .. Len(q) : q[i] \in Fibers
    BY <1>1
  <2>2. /\ r \in Seq(Fibers) /\ Len(r) = IF n + 1 <= Len(q) THEN Len(q) - (n + 1) + 1 ELSE 0
        /\ \A i \in 1 .. Len(q) - (n + 1) + 1 : r[i] = q[n + 1 + i - 1]
    BY <2>1, SubSeqProperties
  <2> HIDE DEF r
  <2>3. Len(q) - (n + 1) + 1 = Len(q) - n /\ n <= Len(q)  BY <1>1
  <2>4. \A i \in 1 .. Len(q) - n : n + 1 + i - 1 = n + i  BY <1>1
  <2>5. Len(r) = Len(q) - n
    <3>1. CASE n + 1 <= Len(q)  BY <1>1, <2>2, <2>3, <3>1
    <3>2. CASE ~(n + 1 <= Len(q))
      <4>1. Len(r) = 0  BY <2>2, <3>2
      <4>2. Len(q) - n = 0  BY <1>1, <3>2, NothingLeft, Zenon
      <4> QED  BY <4>1, <4>2
    <3> QED  BY <3>1, <3>2
  <2>6. ASSUME NEW i \in 1 .. Len(q) - n PROVE r[i] = q[n + i]
    <3>1. i \in 1 .. Len(q) - (n + 1) + 1  BY <2>3
    <3> QED  BY <2>2, <2>4, <3>1
  <2> QED  BY <2>2, <2>5, <2>6
<1> HIDE DEF r
<1>3. DOMAIN r = 1 .. Len(q) - n  BY <1>1, <1>2
<1>4. IsInjective(r)
  <2>1. \A i, j \in 1 .. Len(q) : q[i] = q[j] => i = j  BY <1>1 DEF Queue, IsInjective
  <2>2. \A i \in 1 .. Len(q) - n : n + i \in 1 .. Len(q)  BY <1>1
  <2>3. \A i, j \in 1 .. Len(q) - n : r[i] = r[j] => i = j
    <3> TAKE i, j \in 1 .. Len(q) - n
    <3> HAVE r[i] = r[j]
    <3>1. n + i = n + j  BY <1>2, <2>1, <2>2
    <3> QED  BY <1>1, <3>1
  <2> QED  BY <1>3, <2>3 DEF IsInjective
<1>5. First(q, n) \subseteq Range(q) /\ Range(q) \subseteq Fibers
  BY <1>1 DEF First, Range
<1>6. \A x \in Range(r) : x \in Range(q) \ First(q, n)
  <2> TAKE x \in Range(r)
  <2>1. PICK i \in 1 .. Len(q) - n : r[i] = x  BY <1>3 DEF Range
  <2>2. n + i \in 1 .. Len(q) /\ x = q[n + i] /\ n + i > n  BY <1>1, <1>2, <2>1
  <2>3. x \in Range(q)  BY <1>1, <2>2 DEF Range
  <2>4. ASSUME x \in First(q, n) PROVE FALSE
    <3>1. PICK j \in 1 .. n : x = q[j]  BY <2>4 DEF First
    <3>2. j \in 1 .. Len(q)  BY <1>1
    <3>3. j = n + i  BY <1>1, <2>2, <3>1, <3>2, Zenon DEF Queue, IsInjective
    <3> QED  BY <2>2, <3>3
  <2> QED  BY <2>3, <2>4
<1>7. ASSUME NEW x \in Range(q), x \notin First(q, n) PROVE x \in Range(r)
  <2>1. PICK k \in 1 .. Len(q) : q[k] = x  BY <1>1 DEF Range
  <2>2. k > n  BY <1>1, <1>7, <2>1 DEF First
  <2>3. k - n \in DOMAIN r /\ r[k - n] = x  BY <1>1, <1>2, <1>3, <2>1, <2>2
  <2> QED  BY <2>3 DEF Range
<1>8. r # <<>> => n < Len(q) /\ Head(r) = q[n + 1]
  BY <1>1, <1>2
<1> QED  BY <1>2, <1>4, <1>5, <1>6, <1>7, <1>8 DEF Queue, r

(* A run of shared waiters at the head of the queue ends. *)
LEMMA RunEnds ==
  ASSUME NEW q, Queue(q), q # <<>>, NEW mode \in [Actors -> ModeSet],
         mode[Head(q)] = ARW_SHARED
  PROVE  \E n \in 1 .. Len(q) : /\ \A i \in 1 .. n : mode[q[i]] = ARW_SHARED
                                /\ n < Len(q) => mode[q[n + 1]] = ARW_EXCL
<1>1. /\ q \in [1 .. Len(q) -> Fibers] /\ Len(q) \in Nat /\ Len(q) >= 1 /\ Head(q) = q[1]
      /\ \A i \in 1 .. Len(q) : mode[q[i]] \in ModeSet
  BY DEF Queue, Actors
<1> DEFINE T == {i \in 1 .. Len(q) : mode[q[i]] = ARW_EXCL}
<1>2. CASE T = {}
  <2>1. \A i \in 1 .. Len(q) : mode[q[i]] = ARW_SHARED  BY <1>1, <1>2 DEF ModeSet
  <2> QED  BY <1>1, <2>1
<1>3. CASE T # {}
  <2>1. T \subseteq Nat  OBVIOUS
  <2>2. PICK k \in T : \A m \in T : k <= m
    <3> HIDE DEF T
    <3> QED  BY <1>3, <2>1, LeastNatural, Zenon
  <2>3. k \in 1 .. Len(q) /\ mode[q[k]] = ARW_EXCL  OBVIOUS
  <2>4. k # 1  BY <1>1, <2>3 DEF ARW_SHARED, ARW_EXCL
  <2>5. \A i \in 1 .. k - 1 : mode[q[i]] = ARW_SHARED
    BY <1>1, <2>2, <2>3 DEF ModeSet
  <2>6. k - 1 \in 1 .. Len(q) /\ (k - 1) + 1 = k  BY <1>1, <2>3, <2>4
  <2> QED  BY <2>3, <2>5, <2>6, Zenon
<1> QED  BY <1>2, <1>3

(* What Grantable counts: nobody, one writer, or a whole run of readers. *)
LEMMA GrantableIs ==
  ASSUME NEW q, Queue(q), NEW l \in Latches
  PROVE  LET n == Grantable(q, l) IN
         /\ n \in 0 .. Len(q)
         /\ \/ n = 0 /\ (q = <<>> \/ ~__arw_compatible(l.mode[Head(q)], l))
            \/ n = 1 /\ Free(l) /\ l.mode[q[1]] = ARW_EXCL
            \/ /\ n >= 1 /\ ~l.writer /\ \A i \in 1 .. n : l.mode[q[i]] = ARW_SHARED
               /\ n < Len(q) => l.mode[q[n + 1]] = ARW_EXCL
<1>0. Len(q) \in Nat /\ (q # <<>> => Len(q) >= 1 /\ Head(q) = q[1] /\ Head(q) \in Actors)
  BY DEF Queue, Actors
<1>1. CASE q = <<>>  BY <1>0, <1>1 DEF Grantable
<1>2. CASE q # <<>> /\ l.writer  BY <1>0, <1>2 DEF Grantable, __arw_compatible
<1>3. CASE q # <<>> /\ ~l.writer /\ l.mode[Head(q)] = ARW_EXCL
  <2>1. CASE __arw_compatible(ARW_EXCL, l)
    <3>1. Grantable(q, l) = 1  BY <1>3, <2>1 DEF Grantable
    <3>2. Free(l)  BY <2>1 DEF Free, __arw_compatible
    <3> QED  BY <1>0, <1>3, <3>1, <3>2
  <2>2. CASE ~__arw_compatible(ARW_EXCL, l)
    <3>1. Grantable(q, l) = 0  BY <1>3, <2>2 DEF Grantable
    <3> QED  BY <1>0, <1>3, <2>2, <3>1
  <2> QED  BY <2>1, <2>2
<1>4. CASE q # <<>> /\ ~l.writer /\ l.mode[Head(q)] # ARW_EXCL
  <2>1. l.mode \in [Actors -> ModeSet] /\ l.mode[Head(q)] = ARW_SHARED
    BY <1>0, <1>4 DEF Latches, ModeSet
  <2>2. \E n \in 1 .. Len(q) : /\ \A i \in 1 .. n : l.mode[q[i]] = ARW_SHARED
                               /\ n < Len(q) => l.mode[q[n + 1]] = ARW_EXCL
    BY <1>4, <2>1, RunEnds, Zenon
  <2>3. Grantable(q, l) = CHOOSE n \in 1 .. Len(q) :
                            /\ \A i \in 1 .. n : l.mode[q[i]] = ARW_SHARED
                            /\ n < Len(q) => l.mode[q[n + 1]] = ARW_EXCL
    BY <1>4, Zenon DEF Grantable
  <2>4. /\ Grantable(q, l) \in 1 .. Len(q)
        /\ \A i \in 1 .. Grantable(q, l) : l.mode[q[i]] = ARW_SHARED
        /\ Grantable(q, l) < Len(q) => l.mode[q[Grantable(q, l) + 1]] = ARW_EXCL
    BY <2>2, <2>3, Zenon
  <2> QED  BY <1>0, <1>4, <2>4
<1> QED  BY <1>1, <1>2, <1>3, <1>4

----------------------------------------------------------------------------
(* The latch n is l with one hold more, a's in mode m, compatible with those of H. *)
OneMore(l, n, H, a, m) ==
  /\ l \in Latches /\ n \in Latches /\ IsFiniteSet(H) /\ Counts(l, H)
  /\ a \notin H /\ m \in ModeSet /\ __arw_compatible(m, l)
  /\ n.mode[a] = m /\ \A h \in H : n.mode[h] = l.mode[h]
  /\ m = ARW_EXCL => n.writer /\ n.readers = l.readers
  /\ m # ARW_EXCL => n.writer = l.writer /\ n.readers = l.readers + 1

LEMMA TakeCounts ==
  ASSUME NEW l, NEW n, NEW H, NEW a, NEW m, OneMore(l, n, H, a, m)
  PROVE  Counts(n, H \cup {a}) /\ ~Free(n)
<1>0. /\ l \in Latches /\ n \in Latches /\ IsFiniteSet(H) /\ Counts(l, H)
      /\ a \notin H /\ m \in ModeSet /\ __arw_compatible(m, l)
      /\ n.mode[a] = m /\ \A h \in H : n.mode[h] = l.mode[h]
  BY DEF OneMore
<1>1. ~l.writer /\ l.readers = Cardinality(H) /\ \A h \in H : l.mode[h] = ARW_SHARED
  BY <1>0 DEF Counts, __arw_compatible
<1>2. CASE m = ARW_EXCL
  <2>1. l.readers = 0  BY <1>0, <1>2 DEF __arw_compatible
  <2>2. H = {}  BY <1>0, <1>1, <2>1, FS_EmptySet, Zenon
  <2>3. n.writer /\ n.readers = 0 /\ H \cup {a} = {a}  BY <1>2, <2>1, <2>2 DEF OneMore
  <2> QED  BY <1>0, <1>2, <2>3 DEF Counts, Free
<1>3. CASE m # ARW_EXCL
  <2>1. ~n.writer /\ n.readers = l.readers + 1 /\ m = ARW_SHARED  BY <1>1, <1>3 DEF ModeSet, OneMore
  <2>2. Cardinality(H \cup {a}) = Cardinality(H) + 1 /\ Cardinality(H) \in Nat  BY <1>0, CardPlus
  <2>3. \A h \in H \cup {a} : n.mode[h] = ARW_SHARED  BY <1>0, <1>1, <2>1
  <2>4. n.readers = Cardinality(H \cup {a}) /\ n.readers # 0  BY <1>1, <2>1, <2>2
  <2> QED  BY <2>1, <2>3, <2>4 DEF Counts, Free
<1> QED  BY <1>2, <1>3

(* __arw_release_locked: the words count the others. *)
LEMMA ReleaseCounts ==
  ASSUME st \in Latches, NEW H, IsFiniteSet(H), Counts(st, H), NEW a \in H
  PROVE  /\ Release(a) \in Latches /\ Release(a).mode = st.mode
         /\ Release(a).granted = st.granted /\ Counts(Release(a), H \ {a})
<1> DEFINE l == Release(a)
<1>1. /\ l = [readers |-> l.readers, writer |-> l.writer, granted |-> l.granted,
              last_excl |-> l.last_excl, mode |-> l.mode]
      /\ l.mode = st.mode /\ l.granted = st.granted /\ l.writer = FALSE
      /\ l.readers = IF st.writer \/ st.readers = 0 THEN st.readers ELSE st.readers - 1
      /\ l.last_excl \in BOOLEAN
  <2> DEFINE r == IF st.writer \/ st.readers = 0 THEN st.readers ELSE st.readers - 1
             e == IF Sleepers(ARW_SHARED, a) \cup Sleepers(ARW_EXCL, a) # {}
                  THEN st.writer ELSE st.last_excl
  <2>1. l = [st EXCEPT !.readers = r, !.writer = FALSE, !.last_excl = e]  BY DEF Release
  <2>2. e \in BOOLEAN
    <3>1. st.writer \in BOOLEAN /\ st.last_excl \in BOOLEAN  BY DEF Latches
    <3>2. e = st.writer \/ e = st.last_excl  OBVIOUS
    <3> HIDE DEF e
    <3> QED  BY <3>1, <3>2
  <2> HIDE DEF l, e
  <2>3. l.readers = r
    <3> HIDE DEF r
    <3> QED  BY <2>1 DEF Latches
  <2> HIDE DEF r
  <2>4. /\ l = [readers |-> l.readers, writer |-> l.writer, granted |-> l.granted,
                last_excl |-> l.last_excl, mode |-> l.mode]
        /\ l.mode = st.mode /\ l.granted = st.granted /\ l.writer = FALSE /\ l.last_excl = e
    BY <2>1, Zenon DEF Latches
  <2> QED  BY <2>2, <2>3, <2>4 DEF r
<1> HIDE DEF l
<1>2. l.readers \in Nat  BY <1>1 DEF Latches
<1>3. l \in Latches  BY <1>1, <1>2, Zenon DEF Latches
<1>4. Counts(l, H \ {a})
  <2>1. CASE st.writer
    <3>1. st.readers = 0 /\ H \ {a} = {}  BY <2>1 DEF Counts
    <3>2. l.readers = Cardinality(H \ {a})  BY <1>1, <2>1, <3>1, FS_EmptySet
    <3> QED  BY <1>1, <3>1, <3>2 DEF Counts
  <2>2. CASE ~st.writer
    <3>1. st.readers = Cardinality(H) /\ \A h \in H : st.mode[h] = ARW_SHARED
      BY <2>2 DEF Counts
    <3>2. /\ Cardinality(H \ {a}) = Cardinality(H) - 1
          /\ Cardinality(H) \in Nat /\ Cardinality(H \ {a}) \in Nat
      BY CardMinus
    <3>3. l.readers = Cardinality(H \ {a})  BY <1>1, <2>2, <3>1, <3>2
    <3> QED  BY <1>1, <3>1, <3>3 DEF Counts
  <2> QED  BY <2>1, <2>2
<1> QED  BY <1>1, <1>3, <1>4 DEF l

(* __arw_wake_threads_locked beside a free latch: a sleeper is roused, if there is one. *)
LEMMA WakesThreads ==
  ASSUME NEW q, NEW l \in Latches, NEW a, signalled \subseteq Threads, st \in Latches,
         __arw_wake_threads_locked(q, l, a)
  PROVE  /\ signalled' \subseteq Threads
         /\ q = <<>> /\ Free(l) =>
              \A t \in Threads \ {a} : pc[t] = "asleep" =>
                \E u \in Threads \ {a} : pc[u] = "asleep" /\ u \in signalled'
<1> DEFINE rd == Sleepers(ARW_SHARED, a)
           wr == Sleepers(ARW_EXCL, a)
           base == signalled \ {a}
<1>1. /\ rd \subseteq Threads \ {a} /\ wr \subseteq Threads \ {a} /\ base \subseteq Threads
      /\ \A t \in rd \cup wr : pc[t] = "asleep"
      /\ \A t \in Threads \ {a} : pc[t] = "asleep" => t \in rd \cup wr
  BY DEF Sleepers, Latches, ModeSet, Actors
<1>2. IF rd \cup wr = {} \/ q # <<>> \/ l.writer THEN signalled' = base
      ELSE IF l.readers > 0
      THEN signalled' = IF wr = {} THEN base \cup rd ELSE base
      ELSE IF wr # {} /\ (rd = {} \/ ~l.last_excl)
      THEN IF wr \subseteq signalled
           THEN signalled' = base
           ELSE \E t \in wr \ signalled : signalled' = base \cup {t}
      ELSE signalled' = base \cup rd
  BY DEF __arw_wake_threads_locked
<1> HIDE DEF rd, wr
<1>3. signalled' \subseteq Threads  BY <1>1, <1>2
<1>4. ASSUME q = <<>>, Free(l), rd \cup wr # {} PROVE \E u \in rd \cup wr : u \in signalled'
  <2>1. ~l.writer /\ ~(l.readers > 0)  BY <1>4 DEF Free
  <2>2. CASE wr # {} /\ (rd = {} \/ ~l.last_excl)
    BY <1>1, <1>2, <1>4, <2>1, <2>2
  <2>3. CASE ~(wr # {} /\ (rd = {} \/ ~l.last_excl))
    <3>1. rd # {} /\ signalled' = base \cup rd  BY <1>2, <1>4, <2>1, <2>3
    <3> QED  BY <3>1
  <2> QED  BY <2>2, <2>3
<1>5. ASSUME q = <<>>, Free(l), NEW t \in Threads \ {a}, pc[t] = "asleep"
      PROVE  \E u \in Threads \ {a} : pc[u] = "asleep" /\ u \in signalled'
  <2>1. rd \cup wr # {}  BY <1>1, <1>5
  <2>2. PICK u \in rd \cup wr : u \in signalled'  BY <1>4, <1>5, <2>1
  <2> QED  BY <1>1, <2>2
<1> QED  BY <1>3, <1>5

(* What __arw_grant_locked does with the queue q and the latch l, which H hold. *)
Grants(q, l, H, a, now) ==
  /\ now \subseteq Range(q) /\ Queue(wq') /\ Range(wq') = Range(q) \ now
  /\ st' \in Latches /\ st'.mode = l.mode /\ st'.granted = (l.granted \ {a}) \cup now
  /\ Counts(st', H \cup now) /\ HeadWaits'
  /\ woken' \in [Fibers -> BOOLEAN]
  /\ signalled' \subseteq Threads
  /\ Free(st') =>
       \A t \in Threads \ {a} : pc[t] = "asleep" =>
         \E u \in Threads \ {a} : pc[u] = "asleep" /\ u \in signalled'

LEMMA GrantLocked ==
  ASSUME LaInv, NEW q, Queue(q), NEW l \in Latches, NEW H,
         H \subseteq Actors, IsFiniteSet(H), Counts(l, H), Range(q) \cap H = {}, NEW a,
         IsFiniteSet(Actors), __arw_grant_locked(q, l, a)
  PROVE  \E now : Grants(q, l, H, a, now)
<1> DEFINE n == Grantable(q, l)
           now == First(q, n)
           rd == {f \in now : l.mode[f] = ARW_SHARED}
<1>1. /\ n \in 0 .. Len(q)
      /\ \/ n = 0 /\ (q = <<>> \/ ~__arw_compatible(l.mode[Head(q)], l))
         \/ n = 1 /\ Free(l) /\ l.mode[q[1]] = ARW_EXCL
         \/ /\ n >= 1 /\ ~l.writer /\ \A i \in 1 .. n : l.mode[q[i]] = ARW_SHARED
            /\ n < Len(q) => l.mode[q[n + 1]] = ARW_EXCL
  BY GrantableIs
<1>2. /\ wq' = SubSeq(q, n + 1, Len(q))
      /\ st' = [l EXCEPT !.granted = (@ \ {a}) \cup now, !.writer = @ \/ now # rd,
                         !.readers = @ + Cardinality(rd)]
      /\ WakeAll(now, a)
      /\ __arw_wake_threads_locked(wq', st', a)
  BY DEF __arw_grant_locked, First
<1> HIDE DEF n
<1>3. /\ Queue(wq') /\ now \subseteq Range(q) /\ Range(q) \subseteq Fibers
      /\ Range(wq') = Range(q) \ now
      /\ wq' # <<>> => n < Len(q) /\ Head(wq') = q[n + 1]
  BY <1>1, <1>2, DropQueue
<1>4. /\ st' = [readers |-> st'.readers, writer |-> st'.writer, granted |-> st'.granted,
                last_excl |-> st'.last_excl, mode |-> st'.mode]
      /\ st'.mode = l.mode /\ st'.granted = (l.granted \ {a}) \cup now
      /\ st'.writer = (l.writer \/ now # rd) /\ st'.readers = l.readers + Cardinality(rd)
      /\ st'.last_excl = l.last_excl
  BY <1>2, ZenonT(60) DEF Latches
<1>5. /\ now \subseteq Actors /\ IsFiniteSet(now) /\ IsFiniteSet(rd)
      /\ Cardinality(rd) \in Nat /\ now \cap H = {}
  <2>1. now \subseteq Actors /\ rd \subseteq Actors /\ now \cap H = {}
    BY <1>3 DEF Actors
  <2> HIDE DEF now, rd
  <2> QED  BY <2>1, FS_Subset, FS_CardinalityType
<1>6. st' \in Latches
  <2>1. st'.readers \in Nat  BY <1>4, <1>5 DEF Latches
  <2>2. st'.granted \subseteq Fibers  BY <1>3, <1>4 DEF Latches
  <2>3. st'.writer \in BOOLEAN  BY <1>4
  <2> HIDE DEF now, rd
  <2> QED  BY <1>4, <2>1, <2>2, <2>3, Zenon DEF Latches
<1>7. Counts(st', H \cup now) /\ HeadWaits'
  <2>1. CASE n = 0 /\ (q = <<>> \/ ~__arw_compatible(l.mode[Head(q)], l))
    <3>1. now = {} /\ rd = {}  BY <2>1 DEF First
    <3>2. st'.writer = l.writer /\ st'.readers = l.readers /\ H \cup now = H
      BY <1>4, <3>1, FS_EmptySet DEF Latches
    <3>3. wq' # <<>> => q # <<>> /\ Head(wq') = Head(q)
      BY <1>3, <2>1 DEF Queue
    <3>4. HeadWaits'  BY <1>4, <2>1, <3>2, <3>3 DEF HeadWaits, __arw_compatible
    <3> QED  BY <1>4, <3>2, <3>4 DEF Counts
  <2>2. CASE n = 1 /\ Free(l) /\ l.mode[q[1]] = ARW_EXCL
    <3>1. now = {q[1]} /\ rd = {}  BY <2>2 DEF First, ARW_EXCL, ARW_SHARED
    <3>2. st'.writer /\ st'.readers = 0
      <4>1. st'.writer  BY <1>4, <3>1, Zenon
      <4>2. l.readers = 0 /\ Cardinality(rd) = 0  BY <2>2, <3>1, FS_EmptySet, ZenonT(60) DEF Free
      <4> HIDE DEF rd, now
      <4>3. st'.readers = 0  BY <1>4, <4>2
      <4> QED  BY <4>1, <4>3
    <3>3. H = {}
      <4>1. Cardinality(H) = 0  BY <2>2 DEF Counts, Free
      <4> QED  BY <4>1, FS_EmptySet
    <3>4. HeadWaits'  BY <3>2 DEF HeadWaits, __arw_compatible
    <3>5. H \cup now = {q[1]}  BY <3>1, <3>3
    <3> QED  BY <1>4, <2>2, <3>2, <3>4, <3>5 DEF Counts
  <2>3. CASE /\ n >= 1 /\ ~l.writer /\ \A i \in 1 .. n : l.mode[q[i]] = ARW_SHARED
             /\ n < Len(q) => l.mode[q[n + 1]] = ARW_EXCL
    <3>1. now = rd /\ \A f \in now : l.mode[f] = ARW_SHARED  BY <2>3 DEF First
    <3>2. q[1] \in now  BY <1>1, <2>3 DEF First
    <3> HIDE DEF now, rd
    <3>3. st'.writer = FALSE /\ st'.readers = l.readers + Cardinality(now)
      BY <1>4, <2>3, <3>1, ZenonT(60)
    <3>4. Cardinality(now) # 0 /\ Cardinality(now) \in Nat
      BY <1>5, <3>1, <3>2, FS_EmptySet
    <3>5. l.readers = Cardinality(H) /\ \A h \in H : l.mode[h] = ARW_SHARED
      BY <2>3 DEF Counts
    <3>6. Cardinality(H \cup now) = Cardinality(H) + Cardinality(now)
      <4>1. Cardinality(H \cup now) = Cardinality(H) + Cardinality(now) - Cardinality(H \cap now)
        BY <1>5, FS_Union
      <4>2. Cardinality(H \cap now) = 0 /\ Cardinality(H) \in Nat
        <5>1. H \cap now = {}  BY <1>5
        <5> QED  BY <5>1, FS_EmptySet, FS_CardinalityType, ZenonT(60)
      <4> QED  BY <3>4, <4>1, <4>2
    <3>7. Counts(st', H \cup now)  BY <1>4, <3>1, <3>3, <3>5, <3>6 DEF Counts
    <3>8. st'.readers # 0  BY <3>3, <3>4 DEF Latches
    <3>9. HeadWaits'  BY <1>3, <1>4, <2>3, <3>8, ZenonT(60) DEF HeadWaits, __arw_compatible
    <3> QED  BY <3>7, <3>9
  <2> QED  BY <1>1, <2>1, <2>2, <2>3, ZenonT(60)
<1>8. woken' \in [Fibers -> BOOLEAN]  BY <1>2, WakeAllType DEF LaInv
<1>9. /\ signalled' \subseteq Threads
      /\ Free(st') =>
           \A t \in Threads \ {a} : pc[t] = "asleep" =>
             \E u \in Threads \ {a} : pc[u] = "asleep" /\ u \in signalled'
  <2>1. Free(st') => wq' = <<>>  BY <1>7 DEF HeadWaits, Free, __arw_compatible
  <2>2. signalled \subseteq Threads /\ st \in Latches  BY DEF LaInv, WaitInv, fwTypeOK
  <2> QED  BY <1>2, <1>6, <2>1, <2>2, WakesThreads, ZenonT(60)
<1> HIDE DEF now, rd
<1>10. Grants(q, l, H, a, now)
  BY <1>3, <1>4, <1>6, <1>7, <1>8, <1>9 DEF Grants
<1> QED  BY <1>10

----------------------------------------------------------------------------
LEMMA LaInvInit ==
  ASSUME Init
  PROVE  LaInv
<1>1. WaitInv  BY WaitInvInit DEF Init
<1>2. /\ (\A a \in Actors : pc[a] = "idle") /\ wq = <<>>
      /\ ~st.writer /\ st.readers = 0 /\ st.granted = {}
  BY DEF Init, fwInit, Latches, ModeSet
<1>3. Hold = {}  BY <1>2 DEF Hold
<1>4. Counts(st, Hold)  BY <1>2, <1>3, FS_EmptySet DEF Counts
<1>5. st \in Latches  BY DEF Init, Latches, ModeSet
<1>6. Parked /\ HeadWaits /\ Minded
  BY <1>2 DEF Parked, HeadWaits, Minded, Actors
<1> QED  BY <1>1, <1>2, <1>4, <1>5, <1>6 DEF LaInv

LEMMA HoldIs ==
  ASSUME LaInv, IsFiniteSet(Actors)
  PROVE  /\ Hold \subseteq Actors /\ IsFiniteSet(Hold) /\ Hold \cap Range(wq) = {}
         /\ \A a \in Hold : pc[a] = "got" \/ (pc[a] = "parked" /\ a \in st.granted)
<1>1. /\ Hold \subseteq Actors
      /\ \A a \in Hold : pc[a] = "got" \/ (pc[a] = "parked" /\ a \in st.granted)
  BY DEF LaInv, Hold, Latches, Actors, Parked
<1>2. Hold \cap Range(wq) = {}  BY DEF LaInv, Hold, Parked, WaitInv
<1> QED  BY <1>1, <1>2, FS_Subset

(* The holder a, or a waiter, leaves, or turns back before it is queued:
   __arw_grant_locked runs with the rest. *)
LEMMA LeaverGrants ==
  ASSUME LaInv, IsFiniteSet(Actors), NEW a \in Actors,
         pc[a] \in {"idle", "got", "parked", "retry"},
         NEW x \in {"idle", "deliver"}, pc' = [pc EXCEPT ![a] = x],
         NEW q, Queue(q), Range(q) = Range(wq) \ {a},
         NEW l \in Latches, l.granted = st.granted,
         Counts(l, Hold \ {a}), __arw_grant_locked(q, l, a),
         timer' = timer \ {a}, signalled' \subseteq Threads => WordsOK'
  PROVE  LaInv'
<1>1. /\ Hold \ {a} \subseteq Actors /\ IsFiniteSet(Hold \ {a})
      /\ Range(q) \cap (Hold \ {a}) = {}
  BY HoldIs, FS_Subset
<1>2. PICK now : Grants(q, l, Hold \ {a}, a, now)  BY <1>1, GrantLocked, ZenonT(60)
<1>3. /\ pc'[a] = x /\ x \in Places /\ x \notin {"got", "parked", "asleep", "relock"}
      /\ \A b \in Actors \ {a} : pc'[b] = pc[b]
  BY DEF LaInv, WaitInv, Places
<1>4. WaitInv'
  <2>1. WordsOK'  BY <1>2, Zenon DEF Grants
  <2>2. /\ Queue(wq') /\ Range(wq') \subseteq Range(wq) /\ timer' \subseteq timer
        /\ a \notin Range(wq') \cup timer' /\ woken' \in [Fibers -> BOOLEAN]
    BY <1>2, ZenonT(60) DEF Grants
  <2> QED  BY <1>3, <2>1, <2>2, MoveKeeps, ZenonT(60) DEF LaInv
<1>5. now \subseteq Range(wq) \ {a} /\ Range(wq) \subseteq Fibers
  <2>1. now \subseteq Range(q)  BY <1>2, ZenonT(60) DEF Grants
  <2>2. wq \in Seq(Fibers)  BY DEF LaInv, WaitInv, Queue
  <2>3. Range(wq) \subseteq Fibers  BY <2>2 DEF Range
  <2> QED  BY <2>1, <2>3, ZenonT(60)
<1>6. Hold' = (Hold \ {a}) \cup now
  <2>1. \A b \in Actors : pc'[b] = "got" <=> pc[b] = "got" /\ b # a  BY <1>3, ZenonT(60)
  <2>2. st'.granted = (st.granted \ {a}) \cup now  BY <1>2, ZenonT(60) DEF Grants
  <2> QED  BY <2>1, <2>2, ZenonT(60) DEF Hold
<1>7. Parked'
  <2>1. st'.granted = (st.granted \ {a}) \cup now /\ Range(wq') = (Range(wq) \ {a}) \ now
    BY <1>2, ZenonT(60) DEF Grants
  <2>2. \A f \in Range(wq) : pc[f] = "parked"  BY DEF LaInv, WaitInv
  <2>3. st.granted \subseteq Fibers  BY DEF LaInv, Latches
  <2> QED  BY <1>3, <1>5, <2>1, <2>2, <2>3 DEF Parked, LaInv, Actors
<1>8. Minded'
  <2> SUFFICES ASSUME Free(st'), NEW t \in Threads, pc'[t] = "asleep"
               PROVE  \E u \in Threads : Roused(u)'
    BY DEF Minded
  <2>1. t \in Threads \ {a} /\ pc[t] = "asleep"  BY <1>3, ZenonT(60) DEF Actors
  <2>2. PICK u \in Threads \ {a} : pc[u] = "asleep" /\ u \in signalled'
    BY <1>2, <2>1, ZenonT(60) DEF Grants
  <2> QED  BY <1>3, <2>2, ZenonT(60) DEF Roused, Actors
<1> QED  BY <1>2, <1>3, <1>4, <1>6, <1>7, <1>8, ZenonT(60) DEF LaInv, Grants

(* A caller that holds nothing moves, and no hold changes. *)
LEMMA OtherMoves ==
  ASSUME LaInv, IsFiniteSet(Actors), WaitInv', NEW a \in Actors, a \notin Hold,
         NEW x \in Places \ {"got", "relock"}, pc' = [pc EXCEPT ![a] = x],
         NEW d \in ModeSet, st' = [st EXCEPT !.mode[a] = d], Parked', HeadWaits', Minded'
  PROVE  LaInv'
<1>1. /\ st' \in Latches /\ st'.readers = st.readers /\ st'.writer = st.writer
      /\ st'.granted = st.granted /\ \A b \in Actors \ {a} : st'.mode[b] = st.mode[b]
  BY DEF LaInv, Latches
<1>2. Hold' = Hold /\ \A b \in Actors : pc'[b] # "relock"
  BY <1>1 DEF Hold, LaInv, WaitInv
<1>3. Counts(st', Hold)  BY <1>1, HoldIs DEF LaInv, Counts
<1> QED  BY <1>1, <1>2, <1>3 DEF LaInv

(* A caller takes the open latch. *)
LEMMA OpenTaken ==
  ASSUME LaInv, IsFiniteSet(Actors), WaitInv', NEW a \in Actors,
         pc[a] \notin {"got", "parked"}, pc' = [pc EXCEPT ![a] = "got"], wq' = wq,
         NEW m \in ModeSet, Open(m), st' = [__arw_take(st, m) EXCEPT !.mode[a] = m]
  PROVE  LaInv'
<1>1. /\ st' \in Latches /\ st'.granted = st.granted /\ st'.mode = [st.mode EXCEPT ![a] = m]
      /\ m = ARW_EXCL => st'.writer /\ st'.readers = st.readers
      /\ m # ARW_EXCL => st'.writer = st.writer /\ st'.readers = st.readers + 1
  <2>1. CASE m = ARW_EXCL
    <3>1. st' = [[st EXCEPT !.writer = TRUE] EXCEPT !.mode[a] = m]  BY <2>1 DEF __arw_take
    <3>2. /\ st'.granted = st.granted /\ st'.mode = [st.mode EXCEPT ![a] = m]
          /\ st'.writer = TRUE /\ st'.readers = st.readers /\ st'.last_excl = st.last_excl
          /\ st' = [readers |-> st'.readers, writer |-> st'.writer, granted |-> st'.granted,
                    last_excl |-> st'.last_excl, mode |-> st'.mode]
      BY <3>1, Zenon DEF LaInv, Latches
    <3>3. st'.mode \in [Actors -> ModeSet]
      <4>1. st.mode \in [Actors -> ModeSet]  BY DEF LaInv, Latches
      <4> QED  BY <3>2, <4>1, ZenonT(60)
    <3>4. st' \in Latches  BY <3>2, <3>3, Zenon DEF LaInv, Latches
    <3> QED  BY <2>1, <3>2, <3>4
  <2>2. CASE m # ARW_EXCL
    <3>1. st' = [[st EXCEPT !.readers = @ + 1] EXCEPT !.mode[a] = m]
      BY <2>2 DEF __arw_take
    <3>2. st.readers + 1 \in Nat  BY DEF LaInv, Latches
    <3>3. /\ st'.granted = st.granted /\ st'.mode = [st.mode EXCEPT ![a] = m]
          /\ st'.writer = st.writer /\ st'.readers = st.readers + 1
          /\ st'.last_excl = st.last_excl
          /\ st' = [readers |-> st'.readers, writer |-> st'.writer, granted |-> st'.granted,
                    last_excl |-> st'.last_excl, mode |-> st'.mode]
      BY <3>1, Zenon DEF LaInv, Latches
    <3>4. st'.mode \in [Actors -> ModeSet]  BY <3>3 DEF LaInv, Latches
    <3>5. st' \in Latches  BY <3>2, <3>3, <3>4 DEF LaInv, Latches
    <3> QED  BY <2>2, <3>3, <3>5
  <2> QED  BY <2>1, <2>2
<1>2. wq = <<>> /\ __arw_compatible(m, st)  BY DEF Open
<1>3. /\ a \notin Hold /\ IsFiniteSet(Hold) /\ Hold \subseteq Actors  BY HoldIs
<1>4. /\ st'.mode[a] = m /\ \A h \in Actors \ {a} : st'.mode[h] = st.mode[h]
  BY <1>1 DEF LaInv, Latches
<1>5. Counts(st', Hold \cup {a}) /\ ~Free(st')
  <2>1. \A h \in Hold : st'.mode[h] = st.mode[h]  BY <1>3, <1>4
  <2>2. st \in Latches /\ Counts(st, Hold)  BY DEF LaInv
  <2>3. /\ st' \in Latches /\ st'.mode[a] = m
        /\ m = ARW_EXCL => st'.writer /\ st'.readers = st.readers
        /\ m # ARW_EXCL => st'.writer = st.writer /\ st'.readers = st.readers + 1
    BY <1>1, <1>4
  <2>4. OneMore(st, st', Hold, a, m)
    BY <1>2, <1>3, <2>1, <2>2, <2>3, Zenon DEF OneMore
  <2> QED  BY <2>4, TakeCounts
<1>6. Hold' = Hold \cup {a} /\ \A b \in Actors : pc'[b] # "relock"
  BY <1>1 DEF Hold, LaInv, WaitInv
<1>7. Parked'  BY <1>1 DEF Parked, LaInv, WaitInv, Latches, Actors
<1>8. HeadWaits' /\ Minded'  BY <1>2, <1>5 DEF HeadWaits, Minded
<1> QED  BY <1>1, <1>5, <1>6, <1>7, <1>8 DEF LaInv

(* Whoever is refused finds the latch taken. *)
LEMMA RefusedNotFree ==
  ASSUME LaInv, NEW m, ~Open(m)
  PROVE  ~Free(st)
  BY DEF LaInv, Open, HeadWaits, Free, __arw_compatible

LEMMA TakeSame ==
  ASSUME st \in Latches, NEW a \in Actors
  PROVE  LET m == st.mode[a] IN
         m \in ModeSet /\ __arw_take(st, m) = [__arw_take(st, m) EXCEPT !.mode[a] = m]
<1> DEFINE m == st.mode[a]
<1>1. m \in ModeSet  BY DEF Latches
<1>2. CASE m = ARW_EXCL
  <2>1. __arw_take(st, m) = [st EXCEPT !.writer = TRUE]  BY <1>2 DEF __arw_take
  <2> QED  BY <1>1, <2>1, ZenonT(60) DEF Latches
<1>3. CASE m # ARW_EXCL
  <2>1. __arw_take(st, m) = [st EXCEPT !.readers = @ + 1]  BY <1>3 DEF __arw_take
  <2> QED  BY <1>1, <2>1 DEF Latches
<1> QED  BY <1>2, <1>3

LEMMA LockFastKeeps ==
  ASSUME LaInv, IsFiniteSet(Actors), NEW a \in Actors, NEW m \in ModeSet, LockFast(a, m)
  PROVE  LaInv'
<1>1. /\ pc[a] = "idle" /\ pc' = [pc EXCEPT ![a] = "got"] /\ Open(m)
      /\ st' = [__arw_take(st, m) EXCEPT !.mode[a] = m]
      /\ UNCHANGED <<wq, woken, timer, expired, killed, masked, signalled>>
  BY DEF LockFast
<1>2. WaitInv'
  <2>1. WordsOK'  BY <1>1, SameWords DEF LaInv, WaitInv, fwTypeOK
  <2>2. a \notin Range(wq) \cup timer  BY <1>1 DEF LaInv, WaitInv
  <2> QED  BY <1>1, <2>1, <2>2, MoveKeeps, Zenon DEF LaInv, WaitInv, fwTypeOK, Places
<1> QED  BY <1>1, <1>2, OpenTaken, Zenon

(* A fiber queues behind the others, or finds itself still queued. *)
LEMMA ParksBehind ==
  ASSUME LaInv, IsFiniteSet(Actors), NEW f \in Fibers, WaitInv', Park(f, wq, {}),
         f \notin Hold, NEW d \in ModeSet, st' = [st EXCEPT !.mode[f] = d],
         wq = <<>> => ~__arw_compatible(d, st), f \in Range(wq) => d = st.mode[f]
  PROVE  LaInv'
<1>1. /\ f \in Actors /\ pc' = [pc EXCEPT ![f] = "parked"] /\ wq' = fw_enqueue(wq, f)
  BY DEF Park, Actors
<1>2. /\ Range(wq') = Range(wq) \cup {f} /\ wq' # <<>> /\ Queue(wq')
      /\ wq # <<>> => Head(wq') = Head(wq)
  BY <1>1, EnqueueQueue DEF LaInv, WaitInv
<1>3. /\ st'.readers = st.readers /\ st'.writer = st.writer /\ st'.granted = st.granted
      /\ st'.mode[f] = d /\ \A b \in Actors \ {f} : st'.mode[b] = st.mode[b]
  BY <1>1 DEF LaInv, Latches
<1>4. Parked'
  BY <1>1, <1>2, <1>3 DEF Parked, LaInv, WaitInv, Hold, Actors, Latches
<1>5. HeadWaits' /\ ~Free(st')
  <2>1. CASE wq # <<>>
    <3>1. Head(wq) \in Range(wq) /\ Head(wq) \in Actors
      BY <2>1, TailQueue DEF LaInv, WaitInv, Actors
    <3>2. st'.mode[Head(wq)] = st.mode[Head(wq)]  BY <1>3, <3>1
    <3>3. ~__arw_compatible(st.mode[Head(wq)], st)  BY <2>1 DEF LaInv, HeadWaits
    <3> QED  BY <1>2, <1>3, <2>1, <3>2, <3>3 DEF HeadWaits, Free, __arw_compatible
  <2>2. CASE wq = <<>>
    <3>1. Head(wq') = f
      <4>1. Head(wq') \in Range(wq')  BY <1>2, TailQueue
      <4>2. Range(wq) = {}  BY <2>2 DEF Range
      <4> QED  BY <1>2, <4>1, <4>2
    <3> QED  BY <1>3, <2>2, <3>1 DEF HeadWaits, Free, __arw_compatible
  <2> QED  BY <2>1, <2>2
<1>6. Minded'  BY <1>5 DEF Minded
<1> QED  BY <1>1, <1>4, <1>5, <1>6, OtherMoves, Zenon DEF Places

LEMMA LockParkKeeps ==
  ASSUME LaInv, IsFiniteSet(Actors), NEW f \in Fibers, NEW m \in ModeSet, LockPark(f, m)
  PROVE  LaInv'
<1>1. /\ pc[f] = "idle" /\ ~Open(m) /\ st' = [st EXCEPT !.mode[f] = m] /\ Park(f, wq, {})
  BY DEF LockPark, StartPark
<1>2. WaitInv'  BY StartsParking DEF LockPark, LaInv
<1>3. f \notin Hold /\ f \notin Range(wq)
  BY <1>1, HoldIs DEF LaInv, WaitInv
<1>4. wq = <<>> => ~__arw_compatible(m, st)  BY <1>1 DEF Open
<1> QED  BY <1>1, <1>2, <1>3, <1>4, ParksBehind

LEMMA LockKilledKeeps ==
  ASSUME LaInv, IsFiniteSet(Actors), NEW f \in Fibers, NEW m \in ModeSet, LockKilled(f, m)
  PROVE  LaInv'
<1> DEFINE l == [st EXCEPT !.mode[f] = m]
<1>1. /\ pc[f] = "idle" /\ StartWait(f) /\ pc' = [pc EXCEPT ![f] = "deliver"]
      /\ __arw_grant_locked(wq, l, f) /\ UNCHANGED <<timer, killed>> /\ f \in Actors
  BY DEF LockKilled, Actors
<1>2. f \notin Hold /\ f \notin Range(wq) /\ f \notin timer /\ Queue(wq)
  BY <1>1, HoldIs DEF LaInv, WaitInv
<1>3. /\ l \in Latches /\ l.granted = st.granted /\ l.writer = st.writer
      /\ l.readers = st.readers /\ \A b \in Actors \ {f} : l.mode[b] = st.mode[b]
  BY <1>1 DEF LaInv, Latches
<1>4. Hold \ {f} = Hold /\ Range(wq) = Range(wq) \ {f} /\ timer' = timer \ {f}
  BY <1>1, <1>2
<1>5. signalled' \subseteq Threads => WordsOK'
  BY <1>1 DEF StartWait, LaInv, WaitInv, fwTypeOK, WordsOK
<1> HIDE DEF l
<1>6. Counts(l, Hold)  BY <1>2, <1>3, HoldIs DEF LaInv, Counts
<1> QED  BY <1>1, <1>2, <1>3, <1>4, <1>5, <1>6, LeaverGrants, Zenon

LEMMA FiberParksKeeps ==
  ASSUME LaInv, IsFiniteSet(Actors), NEW f \in Fibers, FiberParks(f)
  PROVE  LaInv'
<1>1. /\ pc[f] \in {"parked", "retry"} /\ f \notin st.granted /\ Park(f, wq, {}) /\ st' = st
      /\ pc[f] = "retry" => ~Open(st.mode[f])
  BY DEF FiberParks, Refused, Resumed
<1>2. WaitInv'  BY ParksAgain DEF FiberParks, LaInv
<1>3. f \notin Hold /\ f \in Actors  BY <1>1, HoldIs DEF Actors
<1>4. st.mode[f] \in ModeSet /\ st' = [st EXCEPT !.mode[f] = st.mode[f]]
  BY <1>1, <1>3 DEF LaInv, Latches
<1>5. wq = <<>> => ~__arw_compatible(st.mode[f], st)
  <2>1. wq = <<>> => Range(wq) = {}  BY DEF Range
  <2>2. pc[f] = "parked" => f \in Range(wq)  BY <1>1 DEF LaInv, Parked
  <2> QED  BY <1>1, <2>1, <2>2 DEF Open
<1> QED  BY <1>1, <1>2, <1>3, <1>4, <1>5, ParksBehind, Zenon

LEMMA FiberLeavesKeeps ==
  ASSUME LaInv, IsFiniteSet(Actors), NEW f \in Fibers, FiberKilled(f) \/ FiberTimesOut(f)
  PROVE  LaInv'
<1> DEFINE q == fw_remove(wq, f)
           l == IF f \in st.granted THEN Release(f) ELSE st
<1>1. /\ f \in Actors /\ pc[f] \in {"got", "parked", "retry"} /\ pc[f] # "got"
      /\ timer' = timer \ {f} /\ UNCHANGED <<expired, killed, masked>>
      /\ __arw_grant_locked(q, l, f)
  BY DEF FiberKilled, FiberTimesOut, Refused, Resumed, Actors
<1>2. PICK x \in {"idle", "deliver"} : pc' = [pc EXCEPT ![f] = x]
  BY DEF FiberKilled, FiberTimesOut
<1>3. Queue(q) /\ Range(q) = Range(wq) \ {f}  BY RemoveQueue DEF LaInv, WaitInv
<1>4. l \in Latches /\ l.mode = st.mode /\ l.granted = st.granted /\ Counts(l, Hold \ {f})
  <2>1. CASE f \in st.granted
    <3>1. f \in Hold /\ IsFiniteSet(Hold)  BY <2>1, HoldIs DEF Hold
    <3> QED  BY <2>1, <3>1, ReleaseCounts DEF LaInv
  <2>2. CASE f \notin st.granted
    <3>1. Hold \ {f} = Hold  BY <1>1, <2>2, HoldIs
    <3> QED  BY <2>2, <3>1 DEF LaInv
  <2> QED  BY <2>1, <2>2
<1>5. signalled' \subseteq Threads => WordsOK'  BY <1>1, SameWords DEF LaInv
<1> HIDE DEF q, l
<1> QED  BY <1>1, <1>2, <1>3, <1>4, <1>5, LeaverGrants, Zenon

LEMMA UnlockKeeps ==
  ASSUME LaInv, IsFiniteSet(Actors), NEW a \in Actors, Unlock(a)
  PROVE  LaInv'
<1>1. /\ pc[a] = "got" /\ pc' = [pc EXCEPT ![a] = "idle"]
      /\ __arw_grant_locked(wq, Release(a), a) /\ UNCHANGED <<timer, expired, killed, masked>>
  BY DEF Unlock
<1>2. a \in Hold /\ IsFiniteSet(Hold)  BY <1>1, HoldIs DEF Hold
<1>3. /\ Release(a) \in Latches /\ Release(a).mode = st.mode
      /\ Release(a).granted = st.granted /\ Counts(Release(a), Hold \ {a})
  BY <1>2, ReleaseCounts DEF LaInv
<1>4. Queue(wq) /\ Range(wq) = Range(wq) \ {a} /\ timer' = timer \ {a}
  BY <1>1 DEF LaInv, WaitInv
<1>5. signalled' \subseteq Threads => WordsOK'  BY <1>1, SameWords DEF LaInv
<1> QED  BY <1>1, <1>3, <1>4, <1>5, LeaverGrants, Zenon

LEMMA FiberGrantedKeeps ==
  ASSUME LaInv, IsFiniteSet(Actors), NEW f \in Fibers, FiberGranted(f)
  PROVE  LaInv'
<1>1. /\ f \in Actors /\ f \in st.granted /\ Leave(f, wq, {}, "got")
      /\ pc' = [pc EXCEPT ![f] = "got"] /\ wq' = wq
      /\ st' = [st EXCEPT !.granted = st.granted \ {f}]
      /\ UNCHANGED <<expired, killed, masked, signalled>> /\ signalled \subseteq Threads
  BY DEF FiberGranted, Leave, Actors, LaInv, WaitInv, fwTypeOK
<1>2. WaitInv'
  <2>1. f \notin Range(wq) /\ Queue(wq)  BY <1>1 DEF LaInv, Parked, WaitInv
  <2>2. WordsOK'  BY <1>1, SameWords DEF LaInv
  <2> QED  BY <1>1, <2>1, <2>2, LeaveKeeps DEF LaInv, Places
<1>3. /\ st' \in Latches /\ st'.readers = st.readers /\ st'.writer = st.writer
      /\ st'.mode = st.mode /\ st'.granted = st.granted \ {f}
  BY <1>1 DEF LaInv, Latches
<1>4. Hold' = Hold /\ \A b \in Actors : pc'[b] # "relock"
  BY <1>1, <1>3 DEF Hold, LaInv, WaitInv
<1>5. Counts(st', Hold) /\ HeadWaits'
  BY <1>1, <1>3 DEF LaInv, Counts, HeadWaits, __arw_compatible
<1>6. Parked'  BY <1>1, <1>3 DEF Parked, LaInv, WaitInv, Actors, Latches
<1>7. ~Free(st')
  <2>1. f \in Hold /\ IsFiniteSet(Hold)  BY <1>1, HoldIs DEF Hold
  <2>2. Cardinality(Hold) # 0  BY <2>1, FS_EmptySet
  <2> QED  BY <1>3, <2>2 DEF LaInv, Counts, Free
<1> QED  BY <1>2, <1>3, <1>4, <1>5, <1>6, <1>7 DEF LaInv, Minded

LEMMA FiberTakesKeeps ==
  ASSUME LaInv, IsFiniteSet(Actors), NEW f \in Fibers, FiberTakes(f)
  PROVE  LaInv'
<1>1. /\ f \in Actors /\ pc[f] = "retry" /\ Open(st.mode[f]) /\ Leave(f, wq, {}, "got")
      /\ pc' = [pc EXCEPT ![f] = "got"] /\ wq' = wq /\ st' = __arw_take(st, st.mode[f])
      /\ UNCHANGED <<expired, killed, masked, signalled>> /\ signalled \subseteq Threads
  BY DEF FiberTakes, Leave, Actors, LaInv, WaitInv, fwTypeOK
<1>2. WaitInv'
  <2>1. f \notin Range(wq) /\ Queue(wq)  BY <1>1 DEF LaInv, WaitInv
  <2>2. WordsOK'  BY <1>1, SameWords DEF LaInv
  <2> QED  BY <1>1, <2>1, <2>2, LeaveKeeps DEF LaInv, Places
<1>3. /\ st.mode[f] \in ModeSet
      /\ st' = [__arw_take(st, st.mode[f]) EXCEPT !.mode[f] = st.mode[f]]
  BY <1>1, TakeSame DEF LaInv
<1> QED  BY <1>1, <1>2, <1>3, OpenTaken, Zenon

(* A thread that was refused spins, sleeps or gives up. *)
LEMMA ThreadWaitsOn ==
  ASSUME LaInv, IsFiniteSet(Actors), NEW t \in Threads, NEW m \in ModeSet,
         ThreadSpins(t, m) \/ ThreadSleeps(t, m) \/ ThreadTimesOut(t)
  PROVE  LaInv'
<1>1. PICK x \in {"spin", "asleep", "idle"} : pc' = [pc EXCEPT ![t] = x]
  BY DEF ThreadSpins, ThreadSleeps, ThreadTimesOut, Sleep
<1>2. /\ t \in Actors /\ pc[t] \in {"idle", "asleep", "spin"}
      /\ UNCHANGED <<wq, woken, timer>>
  BY DEF ThreadSpins, ThreadSleeps, ThreadTimesOut, Roused, Actors
<1>3. WordsOK'
  BY Zenon DEF ThreadSpins, ThreadSleeps, ThreadTimesOut, Sleep, LaInv, WaitInv, fwTypeOK, WordsOK
<1>4. st' = [st EXCEPT !.mode[t] = m] \/ st' = st
  BY DEF ThreadSpins, ThreadSleeps, ThreadTimesOut
<1>5. PICK d \in ModeSet : st' = [st EXCEPT !.mode[t] = d]
  <2>1. st.mode[t] \in ModeSet /\ st = [st EXCEPT !.mode[t] = st.mode[t]]
    BY <1>2 DEF LaInv, Latches
  <2> QED  BY <1>4, <2>1
<1>6. WaitInv'  BY <1>1, <1>2, <1>3, ThreadMoves, Zenon DEF LaInv, Places
<1>7. t \notin Hold /\ t \notin Range(wq)  BY <1>2, HoldIs DEF LaInv, WaitInv
<1>8. /\ st'.readers = st.readers /\ st'.writer = st.writer /\ st'.granted = st.granted
      /\ \A b \in Actors \ {t} : st'.mode[b] = st.mode[b]
  BY <1>5 DEF LaInv, Latches
<1>9. ~Free(st')
  <2>1. ~Free(st)
    BY RefusedNotFree DEF ThreadSpins, ThreadSleeps, ThreadTimesOut
  <2> QED  BY <1>8, <2>1 DEF Free
<1>10. Parked'  BY <1>1, <1>2, <1>8 DEF Parked, LaInv, WaitInv, Actors, Latches
<1>11. HeadWaits'
  <2>1. wq # <<>> => Head(wq) \in Range(wq) /\ Head(wq) \in Actors
    BY TailQueue DEF LaInv, WaitInv, Actors
  <2> QED  BY <1>2, <1>7, <1>8, <2>1 DEF LaInv, HeadWaits, __arw_compatible
<1>12. Minded'  BY <1>9 DEF Minded
<1> QED  BY <1>1, <1>2, <1>5, <1>6, <1>7, <1>10, <1>11, <1>12, OtherMoves, Zenon DEF Places

LEMMA ThreadTakesKeeps ==
  ASSUME LaInv, IsFiniteSet(Actors), NEW t \in Threads, ThreadTakes(t)
  PROVE  LaInv'
<1>1. /\ t \in Actors /\ pc[t] \in {"asleep", "spin"} /\ Open(st.mode[t])
      /\ pc' = [pc EXCEPT ![t] = "got"] /\ st' = __arw_take(st, st.mode[t])
      /\ UNCHANGED <<wq, woken, timer, expired, killed, masked>>
  BY DEF ThreadTakes, Roused, Actors
<1>2. /\ st.mode[t] \in ModeSet
      /\ st' = [__arw_take(st, st.mode[t]) EXCEPT !.mode[t] = st.mode[t]]
  BY <1>1, TakeSame DEF LaInv
<1>3. st' \in Latches
  <2>1. CASE st.mode[t] = ARW_EXCL
    <3>1. st' = [st EXCEPT !.writer = TRUE]  BY <1>1, <2>1 DEF __arw_take
    <3> QED  BY <3>1, Zenon DEF LaInv, Latches
  <2>2. CASE st.mode[t] # ARW_EXCL
    <3>1. st' = [st EXCEPT !.readers = st.readers + 1]  BY <1>1, <2>2 DEF __arw_take
    <3>2. st.readers + 1 \in Nat  BY DEF LaInv, Latches
    <3> QED  BY <3>1, <3>2 DEF LaInv, Latches
  <2> QED  BY <2>1, <2>2
<1>4. signalled' \subseteq Threads
  <2>1. signalled \subseteq Threads /\ st \in Latches  BY DEF LaInv, WaitInv, fwTypeOK
  <2>2. CASE st.mode[t] = ARW_SHARED
    <3>1. __arw_wake_threads_locked(wq, st', t)  BY <2>2 DEF ThreadTakes
    <3> QED  BY <1>3, <2>1, <3>1, WakesThreads, Zenon
  <2>3. CASE st.mode[t] # ARW_SHARED  BY <2>1, <2>3 DEF ThreadTakes
  <2> QED  BY <2>2, <2>3
<1>5. WaitInv'
  <2>1. WordsOK'  BY <1>1, <1>4, SameWords DEF LaInv
  <2> QED  BY <1>1, <2>1, ThreadMoves, Zenon DEF LaInv, Places
<1> QED  BY <1>1, <1>2, <1>5, OpenTaken, Zenon

LEMMA LatchSurroundings ==
  ASSUME LaInv, UNCHANGED st, Surroundings \/ UNCHANGED fwVars
  PROVE  LaInv'
<1>1. WaitInv'  BY SurroundingsKeep, StillKeeps DEF LaInv
<1>2. Quiet  BY SurroundingsQuiet DEF LaInv
<1>3. Hold' = Hold /\ \A b \in Actors : pc'[b] # "relock"
  BY <1>2 DEF Quiet, Hold, LaInv
<1>4. Counts(st', Hold')  BY <1>3 DEF LaInv
<1>5. Parked' /\ HeadWaits'
  BY <1>2 DEF Quiet, Parked, HeadWaits, LaInv, Actors, Latches
<1>6. Minded'  BY <1>2 DEF Quiet, Minded, Roused, LaInv, Actors
<1> QED  BY <1>1, <1>3, <1>4, <1>5, <1>6 DEF LaInv

LEMMA LaInvNext ==
  ASSUME LaInv, IsFiniteSet(Actors), [Next]_<<fwVars, st>>
  PROVE  LaInv'
<1>1. \A a : Modes(a) \subseteq ModeSet  BY DEF Modes, ModeSet
<1>2. ASSUME NEW a \in Actors, Unlock(a) \/ \E m \in Modes(a) : LockFast(a, m) PROVE LaInv'
  BY <1>1, <1>2, UnlockKeeps, LockFastKeeps
<1>3. ASSUME NEW f \in Fibers, FiberStep(f) \/ \E m \in Modes(f) : LockPark(f, m) \/ LockKilled(f, m)
      PROVE  LaInv'
  BY <1>1, <1>3, FiberLeavesKeeps, FiberGrantedKeeps, FiberTakesKeeps, FiberParksKeeps,
     LockParkKeeps, LockKilledKeeps DEF FiberStep
<1>4. ASSUME NEW t \in Threads, ThreadStep(t) PROVE LaInv'
  <2>1. ARW_SHARED \in ModeSet  BY DEF ModeSet
  <2> QED  BY <1>1, <1>4, <2>1, ThreadWaitsOn, ThreadTakesKeeps DEF ThreadStep
<1>5. CASE UNCHANGED st /\ (Surroundings \/ UNCHANGED fwVars)
  BY <1>5, LatchSurroundings
<1> QED  BY <1>2, <1>3, <1>4, <1>5 DEF Next

LEMMA LaInvImplies ==
  ASSUME LaInv, IsFiniteSet(Actors)
  PROVE  TypeOK /\ HoldsCompatible /\ NotStranded /\ NoWaiterLeft
<1>1. TypeOK
  <2>1. Places \ {"relock"} = Waiting \cup {"idle", "got", "spin", "dead"}
    BY DEF Places, Waiting
  <2>2. pc \in [Actors -> Places \ {"relock"}]  BY DEF LaInv, WaitInv
  <2> QED  BY <2>1, <2>2 DEF TypeOK, LaInv, WaitInv, Latches, ModeSet
<1>2. HoldsCompatible
  <2>1. /\ Holders(ARW_SHARED) = {a \in Hold : st.mode[a] = ARW_SHARED}
        /\ Holders(ARW_EXCL) = {a \in Hold : st.mode[a] = ARW_EXCL}
    BY HoldIs DEF Holders, Hold
  <2>2. CASE st.writer
    <3>1. PICK h \in Hold : st.readers = 0 /\ Hold = {h} /\ st.mode[h] = ARW_EXCL
      BY <2>2 DEF LaInv, Counts
    <3>2. Holders(ARW_SHARED) = {} /\ Holders(ARW_EXCL) = {h}
      BY <2>1, <3>1 DEF ARW_SHARED, ARW_EXCL
    <3>3. Cardinality(Holders(ARW_SHARED)) = 0 /\ Cardinality(Holders(ARW_EXCL)) = 1
      BY <3>2, FS_EmptySet, FS_Singleton, Zenon
    <3> QED  BY <2>2, <3>1, <3>3 DEF HoldsCompatible
  <2>3. CASE ~st.writer
    <3>1. st.readers = Cardinality(Hold) /\ \A h \in Hold : st.mode[h] = ARW_SHARED
      BY <2>3 DEF LaInv, Counts
    <3>2. Holders(ARW_SHARED) = Hold /\ Holders(ARW_EXCL) = {}
      BY <2>1, <3>1 DEF ARW_SHARED, ARW_EXCL
    <3>3. Cardinality(Holders(ARW_EXCL)) = 0  BY <3>2, FS_EmptySet
    <3> QED  BY <2>3, <3>1, <3>2, <3>3 DEF HoldsCompatible
  <2> QED  BY <2>2, <2>3
<1>3. NotStranded  BY DEF NotStranded, LaInv, HeadWaits, Minded, Free
<1> QED  BY <1>1, <1>2, <1>3, WaitInvImplies DEF LaInv

(* The parking reader/writer latch of xtc_arwlock_*, for any number of fibers and threads:
   its variables keep their types; a writer is alone and the latch's words count exactly
   the holders, the fibers it was granted to and that have not run yet among them; the
   head of the queue never waits for a latch it could have, and a free latch is never left
   beside threads that all sleep on, whoever is killed or times out; and no waiter outlives
   its wait. *)
THEOREM LatchSafe ==
  ASSUME IsFiniteSet(Actors)
  PROVE  Spec => [](TypeOK /\ HoldsCompatible /\ NotStranded /\ NoWaiterLeft)
<1>1. Init => LaInv  BY LaInvInit
<1>2. LaInv /\ [Next]_<<fwVars, st>> => LaInv'  BY LaInvNext
<1>3. LaInv => TypeOK /\ HoldsCompatible /\ NotStranded /\ NoWaiterLeft  BY LaInvImplies
<1> QED  BY <1>1, <1>2, <1>3, PTL DEF Spec
=============================================================================
