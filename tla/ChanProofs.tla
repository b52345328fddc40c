----------------------------- MODULE ChanProofs -----------------------------
(***************************************************************************)
(* Proofs about the channels of ptc/chan.c: the bounded channel of         *)
(* ChanMpsc, for any number of senders and any capacity, and the channels  *)
(* of ChanSlots.                                                           *)
(***************************************************************************)
EXTENDS ChanMpsc, SequenceTheorems, FiniteSetTheorems, TLAPS

Spec == Init /\ [][Next]_st

(* The ring has a slot, the 64-bit counters exceed its capacity, and NULL is no message. *)
Constants ==
  /\ Cap \in Nat \ {0} /\ Wrap \in Nat /\ Cap < Wrap
  /\ IsFiniteSet(Senders) /\ None \notin Senders \X Nat

----------------------------------------------------------------------------
(* One received, and those before it lost. *)
LEMMA Tally ==
  ASSUME NEW f \in Nat, NEW n \in Nat, NEW l \in Int, NEW c \in Nat, NEW x \in Nat,
         c = f + n + l, c <= x
  PROVE  x + 1 = f + (n + 1) + (l + (x - c)) /\ (x + 1) - 1 = x
OBVIOUS

(* Arithmetic modulo the capacity. *)

LEMMA ModSmall ==
  ASSUME NEW x \in Nat, NEW w \in Nat \ {0}, x < w
  PROVE  x % w = x
OBVIOUS

LEMMA ModType ==
  ASSUME NEW x \in Int, NEW w \in Nat \ {0}
  PROVE  x % w \in 0 .. w - 1
OBVIOUS

LEMMA DivMod ==
  ASSUME NEW x \in Int, NEW w \in Nat \ {0}
  PROVE  x = w * (x \div w) + (x % w) /\ x \div w \in Int
OBVIOUS

LEMMA NoMultiple ==
  ASSUME NEW w \in Nat \ {0}, NEW k \in Int, 0 < w * k, w * k < w
  PROVE  FALSE
<1>1. CASE k <= 0
  <2>1. w * k <= 0  BY <1>1
  <2> QED  BY <2>1
<1>2. CASE k >= 1
  <2>1. w * k >= w  BY <1>2
  <2> QED  BY <2>1
<1> QED  BY <1>1, <1>2

(* Two positions less than a capacity apart have different slots. *)
LEMMA ModDiffers ==
  ASSUME NEW i \in Int, NEW j \in Int, NEW w \in Nat \ {0}, i < j, j < i + w
  PROVE  i % w # j % w
<1> SUFFICES ASSUME i % w = j % w PROVE FALSE  OBVIOUS
<1> DEFINE a == i \div w
           b == j \div w
           r == i % w
<1>1. i = w * a + r /\ j = w * b + r /\ a \in Int /\ b \in Int /\ r \in Int
  BY DivMod, ModType
<1> HIDE DEF a, b, r
<1>2. w * (b - a) = w * b - w * a  BY <1>1
<1>3. w * (b - a) = j - i  BY <1>1, <1>2
<1>4. b - a \in Int  BY <1>1
<1>5. 0 < j - i /\ j - i < w  OBVIOUS
<1> QED  BY <1>3, <1>4, <1>5, NoMultiple

(* A capacity on, it is the same slot again. *)
LEMMA ModAgain ==
  ASSUME NEW i \in Nat, NEW w \in Nat \ {0}
  PROVE  (i + w) % w = i % w
<1> DEFINE j == i + w
           a == i \div w
           b == j \div w
           r == i % w
           u == j % w
<1>0. j \in Int /\ j = i + w  OBVIOUS
<1> HIDE DEF j
<1>1. /\ i = w * a + r /\ j = w * b + u /\ a \in Int /\ b \in Int
      /\ r \in 0 .. w - 1 /\ u \in 0 .. w - 1
  <2>1. i = w * a + r /\ a \in Int  BY DivMod
  <2>2. j = w * b + u /\ b \in Int  BY <1>0, DivMod
  <2>3. r \in 0 .. w - 1  BY ModType
  <2>4. u \in 0 .. w - 1  BY <1>0, ModType
  <2> QED  BY <2>1, <2>2, <2>3, <2>4
<1> HIDE DEF a, b, r, u
<1>2. w * (b - a - 1) = w * b - w * a - w /\ w * (a + 1 - b) = w * a + w - w * b  BY <1>1
<1>3. w * (b - a - 1) = r - u /\ w * (a + 1 - b) = u - r  BY <1>0, <1>1, <1>2
<1>4. ~(0 < r - u) /\ ~(0 < u - r)
  <2>1. b - a - 1 \in Int /\ a + 1 - b \in Int /\ r - u < w /\ u - r < w  BY <1>1
  <2> QED  BY <1>3, <2>1, NoMultiple
<1>5. r = u  BY <1>1, <1>4
<1> QED  BY <1>5 DEF r, u, j

LEMMA Slots ==
  ASSUME Constants
  PROVE  /\ \A i \in Nat : Index(i) \in 0 .. Cap - 1
         /\ \A i, j \in Nat : i < j /\ j < i + Cap => Index(i) # Index(j)
         /\ \A i \in Nat : Index(i + Cap) = Index(i)
<1>1. Cap \in Nat \ {0}  BY DEF Constants
<1>2. ASSUME NEW i \in Nat PROVE Index(i) \in 0 .. Cap - 1 /\ Index(i + Cap) = Index(i)
  <2>1. i % Cap \in 0 .. Cap - 1  BY <1>1, ModType
  <2>2. (i + Cap) % Cap = i % Cap  BY <1>1, ModAgain, Zenon
  <2> QED  BY <2>1, <2>2, Zenon DEF Index
<1>3. ASSUME NEW i \in Nat, NEW j \in Nat, i < j, j < i + Cap PROVE Index(i) # Index(j)
  <2>1. i % Cap # j % Cap
    <3>1. i \in Int /\ j \in Int  OBVIOUS
    <3> QED  BY <1>1, <1>3, <3>1, ModDiffers, Zenon
  <2> QED  BY <2>1, Zenon DEF Index
<1> QED  BY <1>2, <1>3

----------------------------------------------------------------------------
(* What a step changes, field by field. *)

Message == Senders \X Nat

Shape(m) ==
  m = [slots |-> m.slots, head |-> m.head, tail |-> m.tail, closed |-> m.closed,
       hasWaker |-> m.hasWaker, used |-> m.used, woken |-> m.woken, spc |-> m.spc,
       shead |-> m.shead, sent |-> m.sent, cpc |-> m.cpc, cval |-> m.cval, kpc |-> m.kpc,
       log |-> m.log, received |-> m.received]

RingTyped(m) ==
  /\ m.slots \in [0 .. Cap - 1 -> Message \cup {None}]
  /\ m.head \in Nat /\ m.tail \in Nat /\ m.log \in Seq(Message)
SendTyped(m) ==
  /\ m.spc \in [Senders -> {"idle", "charge", "head", "tail", "refund", "cas", "store", "wake"}]
  /\ m.shead \in [Senders -> Nat] /\ m.sent \in [Senders -> Nat]
RecvTyped(m) ==
  /\ m.cpc \in {"register", "arm", "try", "closed", "slot", "clear", "tail", "release",
                "park", "done"}
  /\ m.cval \in Message \cup {None} /\ m.received \in Seq(Message)
FlagsTyped(m) ==
  /\ m.closed \in BOOLEAN /\ m.hasWaker \in BOOLEAN /\ m.woken \in BOOLEAN
  /\ m.kpc \in {"open", "wake", "closed", "destroyed"}

Typed(m) == RingTyped(m) /\ SendTyped(m) /\ RecvTyped(m) /\ FlagsTyped(m) /\ m.used \in Nat

LEMMA TypeFields ==
  TypeOK <=> Shape(st) /\ Typed(st)
<1>1. ASSUME TypeOK PROVE Shape(st) /\ Typed(st)
  BY <1>1 DEF TypeOK, Shape, Typed, RingTyped, SendTyped, RecvTyped, FlagsTyped, Message
<1>2. ASSUME Shape(st), Typed(st) PROVE TypeOK
  BY <1>2 DEF TypeOK, Shape, Typed, RingTyped, SendTyped, RecvTyped, FlagsTyped, Message
<1> QED  BY <1>1, <1>2

LEMMA TypeNext ==
  ASSUME Shape(st'), Typed(st')
  PROVE  TypeOK'
  BY DEF TypeOK, Shape, Typed, RingTyped, SendTyped, RecvTyped, FlagsTyped, Message

RingKept == st'.slots = st.slots /\ st'.head = st.head /\ st'.tail = st.tail /\ st'.log = st.log
SendKept == st'.spc = st.spc /\ st'.shead = st.shead /\ st'.sent = st.sent
RecvKept == st'.cpc = st.cpc /\ st'.cval = st.cval /\ st'.received = st.received
FlagsKept ==
  st'.closed = st.closed /\ st'.hasWaker = st.hasWaker /\ st'.woken = st.woken /\ st'.kpc = st.kpc


----------------------------------------------------------------------------
(* The inductive invariant. *)

(* A sender that read the current head and saw room still has room: tail only grows. *)
Positions ==
  /\ Len(st.log) = st.head /\ st.tail <= st.head /\ st.head <= st.tail + Cap
  /\ \A s \in Senders : st.shead[s] <= st.head
  /\ \A s \in Senders :
       st.spc[s] = "cas" /\ st.shead[s] = st.head => st.head < st.tail + Cap

(* A sender between its compare-and-swap and its store owns an empty slot that the
   consumer is not past. *)
Owns(s) ==
  /\ st.tail <= st.shead[s] /\ st.shead[s] < st.head
  /\ st.log[st.shead[s] + 1] = Msg(s)
  /\ st.slots[Index(st.shead[s])] = None
  /\ st.cpc \in {"clear", "tail"} => st.shead[s] # st.tail
  /\ \A t \in Senders : st.spc[t] = "store" /\ st.shead[t] = st.shead[s] => t = s

Storing == \A s \in Senders : st.spc[s] = "store" => Owns(s)

Awaited(i) ==
  \/ \E s \in Senders : st.spc[s] = "store" /\ st.shead[s] = i
  \/ i = st.tail /\ st.cpc = "tail"

(* A reserved position's slot holds its message, unless it is not written yet or just
   cleared; every other slot is empty. *)
Contents ==
  /\ \A i \in Nat : st.tail <= i /\ i < st.head =>
       \/ st.slots[Index(i)] = st.log[i + 1]
       \/ st.slots[Index(i)] = None /\ Awaited(i)
  /\ \A i \in Nat : st.head <= i /\ i < st.tail + Cap => st.slots[Index(i)] = None

(* The consumer holds the message at its tail, and has returned those before it. *)
Reading ==
  /\ st.cpc \in {"slot", "clear", "tail"} => st.tail < st.head
  /\ st.cpc \in {"clear", "tail"} => st.cval = st.log[st.tail + 1]
  /\ st.cpc = "tail" => st.slots[Index(st.tail)] = None
  /\ st.cpc = "release" => 1 <= st.tail /\ st.cval = st.log[st.tail]
  /\ Len(st.received) = IF st.cpc = "release" THEN st.tail - 1 ELSE st.tail
  /\ \A i \in 1 .. Len(st.received) : st.received[i] = st.log[i]

RingInv == Positions /\ Storing /\ Contents /\ Reading

(* A sender's step that neither reserves nor writes a slot. *)
LEMMA SenderOffRing ==
  ASSUME Constants, Typed(st), SendTyped(st'), RingInv, RingKept, RecvKept, NEW s \in Senders,
         st.spc[s] # "store", st'.spc[s] # "store", st'.shead[s] <= st.head,
         st'.spc[s] = "cas" /\ st'.shead[s] = st.head => st.head < st.tail + Cap,
         \A t \in Senders : t # s => /\ st'.spc[t] = st.spc[t] /\ st'.shead[t] = st.shead[t]
                                    /\ st'.sent[t] = st.sent[t]
  PROVE  RingInv'
<1>1. Positions'
  BY DEF RingInv, Positions, RingKept
<1>2. Storing'
  <2> SUFFICES ASSUME NEW t \in Senders, st'.spc[t] = "store" PROVE Owns(t)'
    BY DEF Storing
  <2>1. t # s /\ st.spc[t] = "store" /\ st'.shead[t] = st.shead[t] /\ st'.sent[t] = st.sent[t]
    OBVIOUS
  <2>2. Owns(t)  BY <2>1 DEF RingInv, Storing
  <2> QED  BY <2>1, <2>2 DEF Owns, RingKept, RecvKept, Msg
<1>3. \A i : Awaited(i) <=> Awaited(i)'
  BY DEF Awaited, RingKept, RecvKept
<1>4. Contents'
  BY <1>3 DEF RingInv, Contents, RingKept
<1>5. Reading'
  BY DEF RingInv, Reading, RingKept, RecvKept
<1> QED  BY <1>1, <1>2, <1>4, <1>5 DEF RingInv

(* A step of the consumer that neither takes nor returns a message. *)
LEMMA ReceiverOffRing ==
  ASSUME Constants, Typed(st), RingInv, RingKept, SendKept, st'.received = st.received,
         st.cpc \notin {"clear", "tail", "release"},
         st'.cpc \notin {"clear", "tail", "release"},
         st'.cpc = "slot" => st.tail < st.head
  PROVE  RingInv'
<1>1. Positions'
  BY DEF RingInv, Positions, RingKept, SendKept
<1>2. Storing'
  <2> SUFFICES ASSUME NEW t \in Senders, st'.spc[t] = "store" PROVE Owns(t)'
    BY DEF Storing
  <2>1. Owns(t)  BY DEF RingInv, Storing, SendKept
  <2> QED  BY <2>1 DEF Owns, RingKept, SendKept, Msg
<1>3. \A i : Awaited(i) <=> Awaited(i)'
  BY DEF Awaited, RingKept, SendKept
<1>4. Contents'
  BY <1>3 DEF RingInv, Contents, RingKept
<1>5. Reading'
  BY DEF RingInv, Reading, RingKept
<1> QED  BY <1>1, <1>2, <1>4, <1>5 DEF RingInv

(* A step that touches neither. *)
LEMMA NobodyOnRing ==
  ASSUME RingInv, RingKept, SendKept, RecvKept
  PROVE  RingInv'
<1>1. Positions'
  BY DEF RingInv, Positions, RingKept, SendKept
<1>2. Storing'
  BY DEF RingInv, Storing, Owns, RingKept, SendKept, RecvKept, Msg
<1>3. Contents'
  BY DEF RingInv, Contents, Awaited, RingKept, SendKept, RecvKept
<1>4. Reading'
  BY DEF RingInv, Reading, RingKept, RecvKept
<1> QED  BY <1>1, <1>2, <1>3, <1>4 DEF RingInv

(* A reserved position is a message more in the log and a sender that owns its slot. *)
LEMMA Reserve ==
  ASSUME Constants, Typed(st), RingInv, RecvKept, NEW s \in Senders,
         st.spc[s] = "cas", st.head = st.shead[s],
         st'.slots = st.slots, st'.tail = st.tail, st'.shead = st.shead, st'.sent = st.sent,
         st'.head = st.head + 1, st'.log = Append(st.log, Msg(s)),
         st'.spc = [st.spc EXCEPT ![s] = "store"]
  PROVE  RingInv'
<1> USE DEF Typed, RingTyped, SendTyped
<1>0. /\ st.head \in Nat /\ st.tail \in Nat /\ Cap \in Nat /\ Len(st.log) = st.head
      /\ st.tail <= st.head /\ st.head < st.tail + Cap
      /\ \A t \in Senders : st.shead[t] \in Nat /\ st.shead[t] <= st.head
  BY DEF Constants, RingInv, Positions
<1>1. /\ Len(st'.log) = st.head + 1 /\ st'.log[st.head + 1] = Msg(s)
      /\ \A i \in 1 .. st.head : st'.log[i] = st.log[i]
  <2>1. Msg(s) \in Message  BY DEF Msg, Message
  <2> QED  BY <1>0, <2>1
<1>2. st'.spc[s] = "store" /\ \A t \in Senders : t # s => st'.spc[t] = st.spc[t]
  OBVIOUS
<1> HIDE DEF Typed, RingTyped, SendTyped
<1>3. Positions'
  <2>1. ASSUME NEW t \in Senders PROVE st'.shead[t] <= st'.head /\ st'.shead[t] # st'.head
    BY <1>0
  <2> QED  BY <1>0, <1>1, <2>1 DEF Positions
<1>4. Storing'
  <2> SUFFICES ASSUME NEW t \in Senders, st'.spc[t] = "store" PROVE Owns(t)'
    BY DEF Storing
  <2>0. Msg(t)' = Msg(t) /\ Index(st.shead[t])' = Index(st.shead[t])  BY DEF Msg, Index
  <2>1. CASE t = s
    <3>1. st.slots[Index(st.head)] = None  BY <1>0 DEF RingInv, Contents
    <3>2. ASSUME NEW u \in Senders, st'.spc[u] = "store", st'.shead[u] = st.head PROVE u = s
      <4>1. SUFFICES ASSUME u # s PROVE FALSE  OBVIOUS
      <4>2. st.spc[u] = "store"  BY <1>2, <3>2, <4>1
      <4>3. st.shead[u] < st.head  BY <4>2 DEF RingInv, Storing, Owns
      <4> QED  BY <1>0, <3>2, <4>3
    <3>3. st.cpc \in {"clear", "tail"} => st.head # st.tail  BY <1>0 DEF RingInv, Reading
    <3> QED  BY <1>0, <1>1, <2>0, <2>1, <3>1, <3>2, <3>3 DEF Owns, RecvKept, Index
  <2>2. CASE t # s
    <3>1. st.spc[t] = "store" /\ Owns(t)  BY <1>2, <2>2 DEF RingInv, Storing
    <3>2. st.shead[t] \in Nat /\ st.shead[t] < st.head  BY <1>0, <3>1 DEF Owns
    <3>3. st'.log[st.shead[t] + 1] = Msg(t)  BY <1>0, <1>1, <3>1, <3>2 DEF Owns
    <3>4. ASSUME NEW u \in Senders, st'.spc[u] = "store", st'.shead[u] = st.shead[t] PROVE u = t
      <4>1. u # s  BY <1>0, <3>2, <3>4
      <4> QED  BY <1>2, <3>1, <3>4, <4>1 DEF Owns
    <3> QED  BY <1>0, <2>0, <3>1, <3>2, <3>3, <3>4 DEF Owns, RecvKept, Index
  <2> QED  BY <2>1, <2>2
<1>5. Contents'
  <2>1. ASSUME NEW i \in Nat, st.tail <= i, i < st.head + 1
        PROVE  st.slots[Index(i)] = st'.log[i + 1] \/ (st.slots[Index(i)] = None /\ Awaited(i)')
    <3>1. CASE i = st.head
      BY <1>0, <1>2, <3>1 DEF RingInv, Contents, Awaited
    <3>2. CASE i < st.head
      <4>1. st'.log[i + 1] = st.log[i + 1]  BY <1>0, <1>1, <3>2
      <4>2. Awaited(i) => Awaited(i)'  BY <1>2 DEF Awaited, RecvKept
      <4>3. st.slots[Index(i)] = st.log[i + 1] \/ (st.slots[Index(i)] = None /\ Awaited(i))
        BY <2>1, <3>2 DEF RingInv, Contents
      <4> HIDE DEF Awaited
      <4> QED  BY <4>1, <4>2, <4>3
    <3> QED  BY <1>0, <2>1, <3>1, <3>2
  <2>2. ASSUME NEW i \in Nat, st.head + 1 <= i, i < st.tail + Cap PROVE st.slots[Index(i)] = None
    <3>1. st.head <= i  BY <1>0, <2>2
    <3> QED  BY <2>2, <3>1 DEF RingInv, Contents
  <2> QED  BY <2>1, <2>2, ZenonT(60) DEF Contents, Index
<1>6. Reading'
  <2>1. Reading  BY DEF RingInv
  <2>2. st.cpc \in {"clear", "tail"} => st'.log[st.tail + 1] = st.log[st.tail + 1]
    BY <1>0, <1>1, <2>1 DEF Reading
  <2>3. st.cpc = "release" => st'.log[st.tail] = st.log[st.tail]
    BY <1>0, <1>1, <2>1 DEF Reading
  <2>4. \A i \in 1 .. Len(st.received) : i \in 1 .. st.head
    BY <1>0, <2>1 DEF Reading
  <2>5. \A i \in 1 .. Len(st.received) : st'.log[i] = st.log[i]  BY <1>1, <2>4, Zenon
  <2>6. st.tail < st.head => st.tail < st.head + 1  BY <1>0
  <2>7. \A i \in 1 .. Len(st.received) : st.received[i] = st'.log[i]  BY <2>1, <2>5, ZenonT(60) DEF Reading
  <2> QED  BY <2>1, <2>2, <2>3, <2>6, <2>7, ZenonT(60) DEF Reading, RecvKept, Index
<1> QED  BY <1>3, <1>4, <1>5, <1>6 DEF RingInv

(* Two positions of the window the ring covers have different slots. *)
LEMMA Apart ==
  ASSUME Constants, NEW a \in Nat, NEW i \in Nat, NEW j \in Nat,
         a <= i, i < a + Cap, a <= j, j < a + Cap, i # j
  PROVE  Index(i) # Index(j)
<1>1. Cap \in Nat  BY DEF Constants
<1>2. CASE i < j  BY <1>1, <1>2, Slots
<1>3. CASE j < i  BY <1>1, <1>3, Slots
<1> QED  BY <1>2, <1>3

(* The owner of a slot fills it, and no other owner's slot. *)
LEMMA Publish ==
  ASSUME Constants, Typed(st), RingInv, RecvKept, NEW s \in Senders, st.spc[s] = "store",
         st'.slots = [st.slots EXCEPT ![Index(st.shead[s])] = Msg(s)],
         st'.tail = st.tail, st'.shead = st.shead, st'.sent = st.sent,
         st'.head = st.head, st'.log = st.log,
         st'.spc = [st.spc EXCEPT ![s] = "wake"]
  PROVE  RingInv'
<1> DEFINE h == st.shead[s]
<1>0. /\ st.head \in Nat /\ st.tail \in Nat /\ Cap \in Nat /\ st.head <= st.tail + Cap
      /\ \A t \in Senders : st.shead[t] \in Nat
  BY DEF Constants, RingInv, Positions, Typed, RingTyped, SendTyped
<1>1. /\ Owns(s) /\ h \in Nat /\ st.tail <= h /\ h < st.head /\ h < st.tail + Cap
      /\ st.log[h + 1] = Msg(s)
  <2>1. Owns(s)  BY DEF RingInv, Storing
  <2> QED  BY <1>0, <2>1 DEF Owns
<1>2. st'.spc[s] = "wake" /\ \A t \in Senders : t # s => st'.spc[t] = st.spc[t]
  BY DEF Typed, SendTyped
<1>3. st'.slots[Index(h)] = Msg(s)
  BY <1>1, Slots, ZenonT(60) DEF Typed, RingTyped
<1>4. ASSUME NEW i \in Nat, st.tail <= i, i < st.tail + Cap, i # h
      PROVE  st'.slots[Index(i)] = st.slots[Index(i)]
  <2>1. Index(i) # Index(h)  BY <1>0, <1>1, <1>4, Apart
  <2>2. Index(i) \in 0 .. Cap - 1  BY Slots
  <2> QED  BY <2>1, <2>2 DEF Typed, RingTyped
<1> HIDE DEF h
<1>5. Positions'
  BY <1>2 DEF RingInv, Positions
<1>6. Storing'
  <2> SUFFICES ASSUME NEW t \in Senders, st'.spc[t] = "store" PROVE Owns(t)'
    BY DEF Storing
  <2>1. t # s /\ st.spc[t] = "store" /\ Owns(t)  BY <1>2 DEF RingInv, Storing
  <2>2. /\ st.tail <= st.shead[t] /\ st.shead[t] < st.tail + Cap /\ st.shead[t] # h
        /\ st.shead[t] \in Nat
    BY <1>0, <1>1, <2>1 DEF Owns, h
  <2>3. st'.slots[Index(st.shead[t])] = None  BY <1>4, <2>1, <2>2, Zenon DEF Owns
  <2> QED  BY <1>2, <2>1, <2>3 DEF Owns, RecvKept, Msg, Index
<1>7. Contents'
  <2>1. ASSUME NEW i \in Nat, st.tail <= i, i < st.head
        PROVE  st'.slots[Index(i)] = st.log[i + 1] \/ (st'.slots[Index(i)] = None /\ Awaited(i)')
    <3>1. CASE i = h  BY <1>1, <1>3, <3>1
    <3>2. CASE i # h
      <4>1. st'.slots[Index(i)] = st.slots[Index(i)]  BY <1>0, <1>4, <2>1, <3>2
      <4>2. Awaited(i) => Awaited(i)'  BY <1>2, <3>2 DEF Awaited, RecvKept, h
      <4>3. st.slots[Index(i)] = st.log[i + 1] \/ (st.slots[Index(i)] = None /\ Awaited(i))
        BY <2>1 DEF RingInv, Contents
      <4> QED  BY <4>1, <4>2, <4>3
    <3> QED  BY <3>1, <3>2
  <2>2. ASSUME NEW i \in Nat, st.head <= i, i < st.tail + Cap PROVE st'.slots[Index(i)] = None
    <3>1. st.tail <= i /\ i # h  BY <1>0, <1>1, <2>2
    <3> QED  BY <1>4, <2>2, <3>1 DEF RingInv, Contents
  <2> QED  BY <2>1, <2>2, ZenonT(60) DEF Contents, Index
<1>8. Reading'
  <2>1. Reading  BY DEF RingInv
  <2>2. st.cpc = "tail" => st'.slots[Index(st.tail)] = None
    <3> SUFFICES ASSUME st.cpc = "tail" PROVE st'.slots[Index(st.tail)] = None  OBVIOUS
    <3>1. st.tail # h /\ st.tail < st.tail + Cap
      BY <1>0, <1>1 DEF Owns, h, Constants
    <3> QED  BY <1>0, <1>4, <2>1, <3>1 DEF Reading
  <2> QED  BY <2>1, <2>2 DEF Reading, RecvKept, Index
<1> QED  BY <1>5, <1>6, <1>7, <1>8 DEF RingInv

(* A slot that is not empty holds the message of the position. *)
LEMMA Take ==
  ASSUME Constants, Typed(st), RingInv, RingKept, SendKept, st'.received = st.received,
         st.cpc = "slot", st'.cpc = "clear", st'.cval = st.slots[Index(st.tail)],
         st.slots[Index(st.tail)] # None
  PROVE  RingInv'
<1>0. st.tail \in Nat /\ st.tail < st.head
  BY DEF Typed, RingTyped, RingInv, Reading
<1>1. st'.cval = st.log[st.tail + 1]
  BY <1>0 DEF RingInv, Contents
<1>2. Positions'
  BY DEF RingInv, Positions, RingKept, SendKept
<1>3. Storing'
  <2> SUFFICES ASSUME NEW t \in Senders, st'.spc[t] = "store" PROVE Owns(t)'
    BY DEF Storing
  <2>1. Owns(t)  BY DEF RingInv, Storing, SendKept
  <2>2. st.shead[t] # st.tail  BY <2>1 DEF Owns
  <2> QED  BY <2>1, <2>2 DEF Owns, RingKept, SendKept, Msg, Index
<1>4. \A i : Awaited(i) <=> Awaited(i)'
  BY DEF Awaited, RingKept, SendKept
<1>5. Contents'
  BY <1>4 DEF RingInv, Contents, RingKept
<1>6. Reading'
  BY <1>0, <1>1 DEF RingInv, Reading, RingKept
<1> QED  BY <1>2, <1>3, <1>5, <1>6 DEF RingInv

(* The consumer empties the slot at its tail, which no sender owns. *)
LEMMA Clear ==
  ASSUME Constants, Typed(st), RingInv, SendKept,
         st'.received = st.received, st'.cval = st.cval, st.cpc = "clear", st'.cpc = "tail",
         st'.slots = [st.slots EXCEPT ![Index(st.tail)] = None],
         st'.head = st.head, st'.tail = st.tail, st'.log = st.log
  PROVE  RingInv'
<1>0. /\ st.head \in Nat /\ st.tail \in Nat /\ Cap \in Nat \ {0} /\ st.tail < st.head
      /\ st.head <= st.tail + Cap /\ \A t \in Senders : st.shead[t] \in Nat
  BY DEF Constants, RingInv, Positions, Reading, Typed, RingTyped, SendTyped
<1>1. st'.slots[Index(st.tail)] = None
  BY <1>0, Slots, ZenonT(60) DEF Typed, RingTyped
<1>2. ASSUME NEW i \in Nat, st.tail <= i, i < st.tail + Cap, i # st.tail
      PROVE  st'.slots[Index(i)] = st.slots[Index(i)]
  <2>0. st.tail <= st.tail /\ st.tail < st.tail + Cap  BY <1>0
  <2>1. Index(i) # Index(st.tail)  BY <1>0, <1>2, <2>0, Apart
  <2>2. Index(i) \in 0 .. Cap - 1  BY Slots
  <2> QED  BY <2>1, <2>2 DEF Typed, RingTyped
<1>3. Positions'
  BY DEF RingInv, Positions, SendKept
<1>4. Storing'
  <2> SUFFICES ASSUME NEW t \in Senders, st'.spc[t] = "store" PROVE Owns(t)'
    BY DEF Storing
  <2>1. Owns(t)  BY DEF RingInv, Storing, SendKept
  <2>2. /\ st.shead[t] \in Nat /\ st.tail <= st.shead[t] /\ st.shead[t] < st.tail + Cap
        /\ st.shead[t] # st.tail
    BY <1>0, <2>1 DEF Owns
  <2>3. st'.slots[Index(st.shead[t])] = None  BY <1>2, <2>1, <2>2 DEF Owns
  <2> QED  BY <2>1, <2>2, <2>3 DEF Owns, SendKept, Msg, Index
<1>5. Contents'
  <2>1. ASSUME NEW i \in Nat, st.tail <= i, i < st.head
        PROVE  st'.slots[Index(i)] = st.log[i + 1] \/ (st'.slots[Index(i)] = None /\ Awaited(i)')
    <3>1. CASE i = st.tail  BY <1>1, <3>1 DEF Awaited
    <3>2. CASE i # st.tail
      <4>1. st'.slots[Index(i)] = st.slots[Index(i)]  BY <1>0, <1>2, <2>1, <3>2
      <4>2. Awaited(i) => Awaited(i)'  BY <3>2 DEF Awaited, SendKept
      <4>3. st.slots[Index(i)] = st.log[i + 1] \/ (st.slots[Index(i)] = None /\ Awaited(i))
        BY <2>1 DEF RingInv, Contents
      <4> QED  BY <4>1, <4>2, <4>3
    <3> QED  BY <3>1, <3>2
  <2>2. ASSUME NEW i \in Nat, st.head <= i, i < st.tail + Cap PROVE st'.slots[Index(i)] = None
    <3>1. st.tail <= i /\ i # st.tail  BY <1>0, <2>2
    <3> QED  BY <1>2, <2>2, <3>1 DEF RingInv, Contents
  <2> QED  BY <2>1, <2>2 DEF Contents, Index
<1>6. Reading'
  BY <1>0, <1>1 DEF RingInv, Reading, Index
<1> QED  BY <1>3, <1>4, <1>5, <1>6 DEF RingInv

(* The tail moves past the emptied slot, which is free again one capacity on. *)
LEMMA Advance ==
  ASSUME Constants, Typed(st), RingInv, SendKept,
         st'.received = st.received, st'.cval = st.cval, st.cpc = "tail", st'.cpc = "release",
         st'.slots = st.slots, st'.head = st.head, st'.tail = st.tail + 1, st'.log = st.log
  PROVE  RingInv'
<1>0. /\ st.head \in Nat /\ st.tail \in Nat /\ Cap \in Nat \ {0} /\ st.tail < st.head
      /\ st.head <= st.tail + Cap /\ \A t \in Senders : st.shead[t] \in Nat
  BY DEF Constants, RingInv, Positions, Reading, Typed, RingTyped, SendTyped
<1>3. Positions'
  <2>1. st.tail + 1 <= st.head /\ st.head <= st.tail + 1 + Cap
        /\ (st.head < st.tail + Cap => st.head < st.tail + 1 + Cap)
    BY <1>0
  <2> QED  BY <2>1 DEF RingInv, Positions, SendKept
<1>4. Storing'
  <2> SUFFICES ASSUME NEW t \in Senders, st'.spc[t] = "store" PROVE Owns(t)'
    BY DEF Storing
  <2>1. Owns(t)  BY DEF RingInv, Storing, SendKept
  <2>2. st.tail + 1 <= st.shead[t]  BY <1>0, <2>1 DEF Owns
  <2> QED  BY <2>1, <2>2 DEF Owns, SendKept, Msg, Index
<1>5. Contents'
  <2>1. ASSUME NEW i \in Nat, st.tail + 1 <= i, i < st.head
        PROVE  st.slots[Index(i)] = st.log[i + 1] \/ (st.slots[Index(i)] = None /\ Awaited(i)')
    <3>1. st.tail <= i /\ i # st.tail  BY <1>0, <2>1
    <3>2. Awaited(i) => Awaited(i)'  BY <3>1 DEF Awaited, SendKept
    <3>3. st.slots[Index(i)] = st.log[i + 1] \/ (st.slots[Index(i)] = None /\ Awaited(i))
      BY <2>1, <3>1 DEF RingInv, Contents
    <3> QED  BY <3>2, <3>3
  <2>2. ASSUME NEW i \in Nat, st.head <= i, i < st.tail + 1 + Cap PROVE st.slots[Index(i)] = None
    <3>1. CASE i = st.tail + Cap
      <4>1. Index(i) = Index(st.tail)  BY <1>0, <3>1, Slots
      <4> QED  BY <4>1 DEF RingInv, Reading
    <3>2. CASE i < st.tail + Cap  BY <2>2, <3>2 DEF RingInv, Contents
    <3> QED  BY <1>0, <2>2, <3>1, <3>2
  <2> QED  BY <2>1, <2>2 DEF Contents, Index
<1>6. Reading'
  BY <1>0 DEF RingInv, Reading, Index
<1> QED  BY <1>3, <1>4, <1>5, <1>6 DEF RingInv

(* What is returned is the message before the tail. *)
LEMMA Return ==
  ASSUME Constants, Typed(st), RingInv, RingKept, SendKept, st.cpc = "release", st'.cpc = "try",
         st'.received = Append(st.received, st.cval)
  PROVE  RingInv'
<1>0. /\ st.tail \in Nat /\ 1 <= st.tail /\ st.tail <= st.head /\ st.head = Len(st.log)
      /\ st.cval = st.log[st.tail] /\ Len(st.received) = st.tail - 1
      /\ st.log \in Seq(Message) /\ st.received \in Seq(Message)
  BY DEF Typed, RingTyped, RecvTyped, RingInv, Positions, Reading
<1>1. st.cval \in Message
  BY <1>0
<1>2. Positions'
  BY DEF RingInv, Positions, RingKept, SendKept
<1>3. Storing'
  <2> SUFFICES ASSUME NEW t \in Senders, st'.spc[t] = "store" PROVE Owns(t)'
    BY DEF Storing
  <2>1. Owns(t)  BY DEF RingInv, Storing, SendKept
  <2> QED  BY <2>1 DEF Owns, RingKept, SendKept, Msg, Index
<1>4. \A i : Awaited(i) <=> Awaited(i)'
  BY DEF Awaited, RingKept, SendKept
<1>5. Contents'
  BY <1>4 DEF RingInv, Contents, RingKept
<1>6. Reading'
  <2>1. Len(st'.received) = st.tail /\ st'.received[st.tail] = st.cval
        /\ \A i \in 1 .. st.tail - 1 : st'.received[i] = st.received[i]
    BY <1>0, <1>1
  <2>2. \A i \in 1 .. st.tail : st'.received[i] = st.log[i]
    <3> SUFFICES ASSUME NEW i \in 1 .. st.tail PROVE st'.received[i] = st.log[i]  BY Zenon
    <3>1. CASE i = st.tail  BY <1>0, <2>1, <3>1
    <3>2. CASE i \in 1 .. st.tail - 1  BY <1>0, <2>1, <3>2 DEF RingInv, Reading
    <3> QED  BY <1>0, <3>1, <3>2
  <2> QED  BY <2>1, <2>2 DEF Reading, RingKept
<1> QED  BY <1>2, <1>3, <1>5, <1>6 DEF RingInv

----------------------------------------------------------------------------
(* The slot budget. *)

InCall == {"head", "tail", "cas", "refund"}
Busy == {s \in Senders : st.spc[s] \in InCall}

Charge ==
  st.kpc # "destroyed" =>
    st.used = (st.head - st.tail) + Cardinality(Busy) + (IF st.cpc = "release" THEN 1 ELSE 0)

(* Nobody uses a channel that was destroyed, and it has nothing charged. *)
Closing ==
  /\ st.kpc # "open" => st.closed
  /\ st.kpc = "destroyed" =>
       st.used = 0 /\ st.cpc = "done" /\ \A s \in Senders : st.spc[s] = "idle"

LEMMA BusyFinite ==
  ASSUME Constants
  PROVE  IsFiniteSet(Busy) /\ Cardinality(Busy) \in Nat
  BY FS_Subset, FS_CardinalityType DEF Constants, Busy

LEMMA BusySame ==
  ASSUME SendTyped(st), NEW s \in Senders, NEW x, st'.spc = [st.spc EXCEPT ![s] = x],
         x \in InCall => st.spc[s] \in InCall, st.spc[s] \in InCall => x \in InCall
  PROVE  Cardinality(Busy') = Cardinality(Busy)
<1>1. Busy' = Busy  BY DEF Busy, SendTyped
<1> QED  BY <1>1

LEMMA BusyMore ==
  ASSUME Constants, SendTyped(st), NEW s \in Senders, NEW x, st'.spc = [st.spc EXCEPT ![s] = x],
         x \in InCall, st.spc[s] \notin InCall
  PROVE  Cardinality(Busy') = Cardinality(Busy) + 1
<1>1. Busy' = Busy \cup {s} /\ s \notin Busy  BY DEF Busy, SendTyped
<1> QED  BY <1>1, BusyFinite, FS_AddElement, Zenon

LEMMA BusyLess ==
  ASSUME Constants, SendTyped(st), NEW s \in Senders, NEW x, st'.spc = [st.spc EXCEPT ![s] = x],
         x \notin InCall, st.spc[s] \in InCall
  PROVE  Cardinality(Busy') = Cardinality(Busy) - 1 /\ Cardinality(Busy) >= 1
<1>1. Busy' = Busy \ {s} /\ s \in Busy  BY DEF Busy, SendTyped
<1>2. Cardinality(Busy') = Cardinality(Busy) - 1  BY <1>1, BusyFinite, FS_RemoveElement, Zenon
<1>3. IsFiniteSet(Busy \ {s})  BY BusyFinite, FS_Subset
<1>4. Cardinality(Busy \ {s}) \in Nat  BY <1>3, FS_CardinalityType
<1> QED  BY <1>1, <1>2, <1>4, BusyFinite

----------------------------------------------------------------------------
(* The senders' steps. *)

Inv == TypeOK /\ RingInv /\ Charge /\ Closing

(* A step of a sender, from state to state x, that does not touch the ring. *)
LEMMA SenderQuiet ==
  ASSUME Constants, Inv, NEW s \in Senders,
         NEW x \in {"idle", "charge", "head", "tail", "refund", "cas"},
         Shape(st'), RingKept, RecvKept, st'.closed = st.closed, st'.kpc = st.kpc,
         st'.hasWaker \in BOOLEAN, st'.woken \in BOOLEAN, st'.used \in Nat,
         st.kpc # "destroyed", st.spc[s] # "store", st'.spc = [st.spc EXCEPT ![s] = x],
         st'.shead \in [Senders -> Nat], st'.sent \in [Senders -> Nat],
         st'.shead[s] <= st.head,
         x = "cas" /\ st'.shead[s] = st.head => st.head < st.tail + Cap,
         \A t \in Senders : t # s => st'.shead[t] = st.shead[t] /\ st'.sent[t] = st.sent[t],
         st'.used - Cardinality(Busy') = st.used - Cardinality(Busy), Cardinality(Busy') \in Nat
  PROVE  Inv'
<1>0. Shape(st) /\ Typed(st)  BY TypeFields DEF Inv
<1>1. st'.spc \in [Senders -> {"idle", "charge", "head", "tail", "refund", "cas", "store", "wake"}]
  BY <1>0 DEF Typed, SendTyped
<1>2. Typed(st')
  BY <1>0, <1>1 DEF Typed, RingTyped, SendTyped, RecvTyped, FlagsTyped, RingKept, RecvKept
<1>3. RingInv'
  <2>1. st'.spc[s] = x /\ \A t \in Senders : t # s => st'.spc[t] = st.spc[t]
    BY <1>0 DEF Typed, SendTyped
  <2>2. SendTyped(st') /\ RingInv  BY <1>2 DEF Typed, Inv
  <2> QED  BY <1>0, <2>1, <2>2, SenderOffRing
<1>4. Charge'
  <2>1. /\ st.used \in Nat /\ st.head \in Nat /\ st.tail \in Nat
        /\ (IF st.cpc = "release" THEN 1 ELSE 0) \in Nat
    BY <1>0 DEF Typed, RingTyped
  <2>2. st.used = (st.head - st.tail) + Cardinality(Busy) + (IF st.cpc = "release" THEN 1 ELSE 0)
    BY DEF Inv, Charge
  <2> DEFINE e == IF st.cpc = "release" THEN 1 ELSE 0
  <2> HIDE DEF e
  <2>3. st'.used = (st.head - st.tail) + Cardinality(Busy') + e
    BY <2>1, <2>2, BusyFinite DEF e
  <2> QED  BY <2>3 DEF Charge, RingKept, RecvKept, e
<1>5. Closing'
  BY DEF Inv, Closing
<1> QED  BY <1>2, <1>3, <1>4, <1>5, TypeNext DEF Inv

LEMMA SendLive ==
  ASSUME Inv, NEW s \in Senders, SendOpen(s) \/ SendStep(s)
  PROVE  st.kpc # "destroyed"
<1>1. CASE SendOpen(s)  BY <1>1 DEF SendOpen, Inv, Closing
<1>2. CASE SendStep(s)
  BY <1>2 DEF SendStep, SendCharge, SendHead, SendTail, SendAgain, SendCas, SendStore, SendWake,
              Inv, Closing
<1> QED  BY <1>1, <1>2

LEMMA SendOpenInv ==
  ASSUME Constants, Inv, NEW s \in Senders, SendOpen(s)
  PROVE  Inv'
<1>0. Shape(st) /\ Typed(st)  BY TypeFields DEF Inv
<1>1. /\ Shape(st') /\ RingKept /\ RecvKept /\ FlagsKept /\ st'.used = st.used
      /\ st.spc[s] = "idle" /\ st'.spc = [st.spc EXCEPT ![s] = "charge"]
      /\ st'.shead = st.shead /\ st'.sent = st.sent
  BY <1>0 DEF SendOpen, Shape, RingKept, RecvKept, FlagsKept
<1>2. Cardinality(Busy') = Cardinality(Busy)
  BY <1>0, <1>1, BusySame DEF Typed, InCall
<1>3. st.shead[s] <= st.head  BY DEF Inv, RingInv, Positions
<1> QED  BY <1>0, <1>1, <1>2, <1>3, SendLive, SenderQuiet, BusyFinite, Zenon
         DEF FlagsKept, Typed, SendTyped, FlagsTyped

LEMMA SendChargeInv ==
  ASSUME Constants, Inv, NEW s \in Senders, SendCharge(s)
  PROVE  Inv'
<1>0. Shape(st) /\ Typed(st) /\ st.kpc # "destroyed"
  BY TypeFields, SendLive DEF Inv, SendStep
<1>1. st.shead[s] <= st.head  BY DEF Inv, RingInv, Positions
<1>2. CASE st' = [st EXCEPT !.used = @ + 1, !.spc[s] = "head"]
  <2>1. /\ Shape(st') /\ RingKept /\ RecvKept /\ FlagsKept /\ st'.used = st.used + 1
        /\ st.spc[s] = "charge" /\ st'.spc = [st.spc EXCEPT ![s] = "head"]
        /\ st'.shead = st.shead /\ st'.sent = st.sent
    BY <1>0, <1>2, Zenon DEF SendCharge, Shape, RingKept, RecvKept, FlagsKept
  <2>2. Cardinality(Busy') = Cardinality(Busy) + 1
    BY <1>0, <2>1, BusyMore DEF Typed, InCall
  <2>3. /\ st'.used \in Nat /\ Cardinality(Busy') \in Nat
        /\ st'.used - Cardinality(Busy') = st.used - Cardinality(Busy)
    BY <1>0, <2>1, <2>2, BusyFinite DEF Typed
  <2> QED  BY <1>0, <1>1, <2>1, <2>3, SenderQuiet, Zenon
           DEF FlagsKept, Typed, SendTyped, FlagsTyped
<1>3. CASE st' = [st EXCEPT !.spc[s] = "idle"]
  <2>1. /\ Shape(st') /\ RingKept /\ RecvKept /\ FlagsKept /\ st'.used = st.used
        /\ st.spc[s] = "charge" /\ st'.spc = [st.spc EXCEPT ![s] = "idle"]
        /\ st'.shead = st.shead /\ st'.sent = st.sent
    BY <1>0, <1>3 DEF SendCharge, Shape, RingKept, RecvKept, FlagsKept
  <2>2. Cardinality(Busy') = Cardinality(Busy)
    BY <1>0, <2>1, BusySame DEF Typed, InCall
  <2> QED  BY <1>0, <1>1, <2>1, <2>2, SenderQuiet, BusyFinite, Zenon
           DEF FlagsKept, Typed, SendTyped, FlagsTyped
<1> QED  BY <1>2, <1>3 DEF SendCharge

LEMMA SendHeadInv ==
  ASSUME Constants, Inv, NEW s \in Senders, SendHead(s)
  PROVE  Inv'
<1>0. Shape(st) /\ Typed(st) /\ st.kpc # "destroyed"
  BY TypeFields, SendLive DEF Inv, SendStep
<1>1. /\ Shape(st') /\ RingKept /\ RecvKept /\ FlagsKept /\ st'.used = st.used
      /\ st.spc[s] = "head" /\ st'.spc = [st.spc EXCEPT ![s] = "tail"]
      /\ st'.shead = [st.shead EXCEPT ![s] = st.head] /\ st'.sent = st.sent
  BY <1>0, Zenon DEF SendHead, Shape, RingKept, RecvKept, FlagsKept
<1>2. Cardinality(Busy') = Cardinality(Busy)
  BY <1>0, <1>1, BusySame DEF Typed, InCall
<1>3. /\ st'.shead \in [Senders -> Nat] /\ st'.shead[s] <= st.head
      /\ \A t \in Senders : t # s => st'.shead[t] = st.shead[t] /\ st'.sent[t] = st.sent[t]
  BY <1>0, <1>1 DEF Typed, RingTyped, SendTyped
<1> QED  BY <1>0, <1>1, <1>2, <1>3, SenderQuiet, BusyFinite, Zenon
         DEF FlagsKept, Typed, SendTyped, FlagsTyped

(* A head that is still current and a distance to the tail below the capacity: there
   is room, the counters' wrap notwithstanding. *)
LEMMA SendTailInv ==
  ASSUME Constants, Inv, NEW s \in Senders, SendTail(s)
  PROVE  Inv'
<1>0. Shape(st) /\ Typed(st) /\ st.kpc # "destroyed"
  BY TypeFields, SendLive DEF Inv, SendStep
<1> DEFINE x == IF Full(st.shead[s], st.tail) THEN "refund" ELSE "cas"
<1>1. /\ Shape(st') /\ RingKept /\ RecvKept /\ FlagsKept /\ st'.used = st.used
      /\ st.spc[s] = "tail" /\ st'.spc = [st.spc EXCEPT ![s] = x]
      /\ st'.shead = st.shead /\ st'.sent = st.sent
  <2> HIDE DEF x
  <2>1. st.spc[s] = "tail" /\ st' = [st EXCEPT !.spc[s] = x]  BY DEF SendTail, x
  <2> QED  BY <1>0, <2>1 DEF Shape, RingKept, RecvKept, FlagsKept
<1>2. x \in {"refund", "cas"} /\ (x = "cas" => ~Full(st.shead[s], st.tail))  OBVIOUS
<1> HIDE DEF x
<1>3. Cardinality(Busy') = Cardinality(Busy)
  BY <1>0, <1>1, <1>2, BusySame DEF Typed, InCall
<1>4. st.shead[s] <= st.head  BY DEF Inv, RingInv, Positions
<1>5. x = "cas" /\ st.shead[s] = st.head => st.head < st.tail + Cap
  <2> SUFFICES ASSUME x = "cas", st.shead[s] = st.head PROVE st.head < st.tail + Cap  OBVIOUS
  <2> DEFINE d == st.head - st.tail
  <2>1. /\ st.head \in Nat /\ st.tail \in Nat /\ d \in Nat /\ Cap \in Nat /\ Wrap \in Nat \ {0}
        /\ d < Wrap
    BY <1>0 DEF Inv, RingInv, Positions, Typed, RingTyped, Constants
  <2>2. ~(d % Wrap >= Cap)  BY <1>2 DEF Full
  <2> HIDE DEF d
  <2>3. d % Wrap = d  BY <2>1, ModSmall
  <2>4. d < Cap  BY <2>1, <2>2, <2>3
  <2> QED  BY <2>1, <2>4 DEF d
<1> QED  BY <1>0, <1>1, <1>2, <1>3, <1>4, <1>5, SenderQuiet, BusyFinite, Zenon
         DEF FlagsKept, Typed, SendTyped, FlagsTyped

LEMMA SendAgainInv ==
  ASSUME Constants, Inv, NEW s \in Senders, SendAgain(s)
  PROVE  Inv'
<1>0. Shape(st) /\ Typed(st) /\ st.kpc # "destroyed"
  BY TypeFields, SendLive DEF Inv, SendStep
<1>1. /\ Shape(st') /\ RingKept /\ RecvKept /\ FlagsKept /\ st'.used = Less(1)
      /\ st.spc[s] = "refund" /\ st'.spc = [st.spc EXCEPT ![s] = "idle"]
      /\ st'.shead = st.shead /\ st'.sent = st.sent
  BY <1>0, Zenon DEF SendAgain, Shape, RingKept, RecvKept, FlagsKept
<1>2. Cardinality(Busy') = Cardinality(Busy) - 1 /\ Cardinality(Busy) >= 1
  BY <1>0, <1>1, BusyLess, Zenon DEF Typed, InCall
<1>3. st.used >= 1
  <2> DEFINE e == IF st.cpc = "release" THEN 1 ELSE 0
  <2>1. e \in Nat  OBVIOUS
  <2>2. st.used = (st.head - st.tail) + Cardinality(Busy) + e  BY <1>0 DEF Inv, Charge
  <2>3. st.tail \in Nat /\ st.head \in Nat /\ st.tail <= st.head
    BY <1>0 DEF Typed, RingTyped, Inv, RingInv, Positions
  <2> HIDE DEF e
  <2> QED  BY <1>2, <2>1, <2>2, <2>3, BusyFinite
<1>4. /\ st'.used \in Nat /\ Cardinality(Busy') \in Nat
      /\ st'.used - Cardinality(Busy') = st.used - Cardinality(Busy)
  BY <1>0, <1>1, <1>2, <1>3, BusyFinite DEF Less, Typed
<1>5. st.shead[s] <= st.head  BY DEF Inv, RingInv, Positions
<1> QED  BY <1>0, <1>1, <1>4, <1>5, SenderQuiet, Zenon DEF FlagsKept, Typed, SendTyped, FlagsTyped

LEMMA SendWakeInv ==
  ASSUME Constants, Inv, NEW s \in Senders, SendWake(s)
  PROVE  Inv'
<1>0. Shape(st) /\ Typed(st) /\ st.kpc # "destroyed"
  BY TypeFields, SendLive DEF Inv, SendStep
<1>1. /\ Shape(st') /\ RingKept /\ RecvKept /\ st'.used = st.used
      /\ st'.closed = st.closed /\ st'.kpc = st.kpc /\ st'.hasWaker = st.hasWaker
      /\ st.spc[s] = "wake" /\ st'.spc = [st.spc EXCEPT ![s] = "idle"]
      /\ st'.shead = st.shead /\ st'.sent = [st.sent EXCEPT ![s] = @ + 1]
  BY <1>0, Zenon DEF SendWake, Shape, RingKept, RecvKept
<1>2. st'.woken \in BOOLEAN  BY <1>0 DEF SendWake, Shape
<1>3. Cardinality(Busy') = Cardinality(Busy)
  BY <1>0, <1>1, BusySame DEF Typed, InCall
<1>4. /\ st'.sent \in [Senders -> Nat] /\ st.shead[s] <= st.head
      /\ \A t \in Senders : t # s => st'.shead[t] = st.shead[t] /\ st'.sent[t] = st.sent[t]
  BY <1>0, <1>1 DEF Typed, SendTyped, Inv, RingInv, Positions
<1> QED  BY <1>0, <1>1, <1>2, <1>3, <1>4, SenderQuiet, BusyFinite, Zenon DEF Typed, SendTyped, FlagsTyped

LEMMA SendCasInv ==
  ASSUME Constants, Inv, NEW s \in Senders, SendCas(s)
  PROVE  Inv'
<1>0. Shape(st) /\ Typed(st) /\ st.kpc # "destroyed"
  BY TypeFields, SendLive DEF Inv, SendStep
<1>1. CASE /\ st.head = st.shead[s]
           /\ st' = [st EXCEPT !.head = @ + 1, !.log = Append(@, Msg(s)), !.spc[s] = "store"]
  <2>1. /\ Shape(st') /\ RecvKept /\ FlagsKept /\ st'.used = st.used
        /\ st'.slots = st.slots /\ st'.tail = st.tail /\ st'.head = st.head + 1
        /\ st'.log = Append(st.log, Msg(s))
        /\ st.spc[s] = "cas" /\ st'.spc = [st.spc EXCEPT ![s] = "store"]
        /\ st'.shead = st.shead /\ st'.sent = st.sent
    <3> HIDE DEF Msg
    <3> QED  BY <1>0, <1>1, Zenon DEF SendCas, Shape, RecvKept, FlagsKept
  <2>2. Typed(st')
    <3>1. Msg(s) \in Message  BY <1>0 DEF Msg, Message, Typed, SendTyped
    <3>2. RingTyped(st')  BY <1>0, <2>1, <3>1 DEF Typed, RingTyped
    <3> QED  BY <1>0, <2>1, <3>2 DEF Typed, SendTyped, RecvTyped, FlagsTyped, RecvKept, FlagsKept
  <2>3. RingInv'
    BY <1>0, <1>1, <2>1, Reserve DEF Inv
  <2>4. Cardinality(Busy') = Cardinality(Busy) - 1
    BY <1>0, <2>1, BusyLess, ZenonT(60) DEF Typed, InCall
  <2>5. Charge'
    <3> DEFINE e == IF st.cpc = "release" THEN 1 ELSE 0
    <3>1. e \in Nat  OBVIOUS
    <3>2. st.used = (st.head - st.tail) + Cardinality(Busy) + e  BY <1>0 DEF Inv, Charge
    <3>3. (IF st'.cpc = "release" THEN 1 ELSE 0) = e  BY <2>1 DEF RecvKept
    <3> HIDE DEF e
    <3>4. st.head \in Nat /\ st.tail \in Nat /\ Cardinality(Busy) \in Nat
      BY <1>0, BusyFinite DEF Typed, RingTyped
    <3>5. st.used = ((st.head + 1) - st.tail) + (Cardinality(Busy) - 1) + e
      BY <3>1, <3>2, <3>4
    <3>6. st'.used = (st'.head - st'.tail) + Cardinality(Busy') + e
      <4>1. st'.used = st.used /\ st'.head = st.head + 1 /\ st'.tail = st.tail  BY <2>1
      <4> QED  BY <2>4, <3>5, <4>1, Zenon
    <3> QED  BY <3>3, <3>6 DEF Charge
  <2>6. Closing'
    BY <1>0, <2>1 DEF Inv, Closing, FlagsKept
  <2> QED  BY <2>1, <2>2, <2>3, <2>5, <2>6, TypeNext DEF Inv
<1>2. CASE st' = [st EXCEPT !.spc[s] = "head"]
  <2>1. /\ Shape(st') /\ RingKept /\ RecvKept /\ FlagsKept /\ st'.used = st.used
        /\ st.spc[s] = "cas" /\ st'.spc = [st.spc EXCEPT ![s] = "head"]
        /\ st'.shead = st.shead /\ st'.sent = st.sent
    BY <1>0, <1>2 DEF SendCas, Shape, RingKept, RecvKept, FlagsKept
  <2>2. Cardinality(Busy') = Cardinality(Busy)
    BY <1>0, <2>1, BusySame DEF Typed, InCall
  <2>3. st.shead[s] <= st.head  BY DEF Inv, RingInv, Positions
  <2> QED  BY <1>0, <2>1, <2>2, <2>3, SenderQuiet, BusyFinite, Zenon
           DEF FlagsKept, Typed, SendTyped, FlagsTyped
<1> QED  BY <1>1, <1>2 DEF SendCas

LEMMA SendStoreInv ==
  ASSUME Constants, Inv, NEW s \in Senders, SendStore(s)
  PROVE  Inv'
<1>0. Shape(st) /\ Typed(st) /\ st.kpc # "destroyed"
  BY TypeFields, SendLive DEF Inv, SendStep
<1>1. /\ Shape(st') /\ RecvKept /\ FlagsKept /\ st'.used = st.used
      /\ st'.slots = [st.slots EXCEPT ![Index(st.shead[s])] = Msg(s)]
      /\ st'.tail = st.tail /\ st'.head = st.head /\ st'.log = st.log
      /\ st.spc[s] = "store" /\ st'.spc = [st.spc EXCEPT ![s] = "wake"]
      /\ st'.shead = st.shead /\ st'.sent = st.sent
  BY <1>0, Zenon DEF SendStore, Shape, RecvKept, FlagsKept
<1>2. Typed(st')
  <2>1. Msg(s) \in Message  BY <1>0 DEF Msg, Message, Typed, SendTyped
  <2>2. RingTyped(st')  BY <1>0, <1>1, <2>1, Zenon DEF Typed, RingTyped
  <2> QED  BY <1>0, <1>1, <2>2 DEF Typed, SendTyped, RecvTyped, FlagsTyped, RecvKept, FlagsKept
<1>3. RingInv'
  BY <1>0, <1>1, Publish DEF Inv
<1>4. Cardinality(Busy') = Cardinality(Busy)
  BY <1>0, <1>1, BusySame DEF Typed, InCall
<1>5. Charge'
  BY <1>1, <1>4 DEF Inv, Charge, RecvKept, FlagsKept
<1>6. Closing'
  BY <1>0, <1>1 DEF Inv, Closing, FlagsKept
<1> QED  BY <1>1, <1>2, <1>3, <1>5, <1>6, TypeNext DEF Inv

----------------------------------------------------------------------------
(* The consumer's steps. *)

LEMMA RecvLive ==
  ASSUME Inv, RecvStep
  PROVE  st.kpc # "destroyed"
  BY DEF RecvStep, RecvLoad, RecvEmpty, RecvSlot, RecvClear, RecvTail, RecvRelease, SetWaker,
         SetWakerCheck, Resume, Inv, Closing

(* What the consumer's steps have in common. *)
LEMMA RecvFrame ==
  ASSUME Constants, Inv, RingInv', Shape(st'), st.kpc # "destroyed", SendKept,
         st'.closed = st.closed, st'.kpc = st.kpc,
         st'.hasWaker \in BOOLEAN, st'.woken \in BOOLEAN, st'.used \in Nat,
         RingTyped(st'), RecvTyped(st'),
         st'.used = (st'.head - st'.tail) + Cardinality(Busy)
                    + (IF st'.cpc = "release" THEN 1 ELSE 0)
  PROVE  Inv'
<1>0. Shape(st) /\ Typed(st)  BY TypeFields DEF Inv
<1>1. Typed(st')
  BY <1>0 DEF Typed, SendTyped, FlagsTyped, SendKept
<1>2. Busy' = Busy  BY DEF Busy, SendKept
<1>3. Charge'  BY <1>2 DEF Charge
<1>4. Closing'  BY DEF Inv, Closing
<1> QED  BY <1>1, <1>3, <1>4, TypeNext DEF Inv

LEMMA RecvQuiet ==
  ASSUME Constants, Inv, Shape(st'), st.kpc # "destroyed", RingKept, SendKept,
         st'.closed = st.closed, st'.kpc = st.kpc,
         st'.hasWaker \in BOOLEAN, st'.woken \in BOOLEAN, st'.used = st.used,
         st'.received = st.received, st'.cval \in Message \cup {None},
         st.cpc \notin {"clear", "tail", "release"},
         st'.cpc \in {"register", "arm", "try", "closed", "slot", "park", "done"},
         st'.cpc = "slot" => st.tail < st.head
  PROVE  Inv'
<1>0. Shape(st) /\ Typed(st)  BY TypeFields DEF Inv
<1>1. RingInv'  BY <1>0, ReceiverOffRing DEF Inv
<1>2. RingTyped(st') /\ RecvTyped(st') /\ st'.used \in Nat
  BY <1>0 DEF Typed, RingTyped, RecvTyped, RingKept
<1>3. st'.used = (st'.head - st'.tail) + Cardinality(Busy) + (IF st'.cpc = "release" THEN 1 ELSE 0)
  BY DEF Inv, Charge, RingKept
<1> QED  BY <1>1, <1>2, <1>3, RecvFrame

LEMMA RecvIdleInv ==
  ASSUME Constants, Inv, RecvLoad \/ RecvEmpty \/ SetWaker \/ SetWakerCheck \/ Resume
  PROVE  Inv'
<1>0. Shape(st) /\ Typed(st) /\ st.kpc # "destroyed"
  BY TypeFields, RecvLive DEF Inv, RecvStep
<1>1. st.hasWaker \in BOOLEAN /\ st.woken \in BOOLEAN /\ st.cval \in Message \cup {None}
  BY <1>0 DEF Typed, RecvTyped, FlagsTyped
<1>2. CASE RecvLoad
  <2>1. /\ Shape(st') /\ RingKept /\ SendKept /\ FlagsKept /\ st'.used = st.used
        /\ st'.received = st.received /\ st'.cval = st.cval /\ st.cpc = "try"
        /\ st'.cpc = IF st.tail >= st.head THEN "closed" ELSE "slot"
    BY <1>0, <1>2 DEF RecvLoad, Shape, RingKept, SendKept, FlagsKept
  <2>2. st'.cpc \in {"closed", "slot"} /\ (st'.cpc = "slot" => st.tail < st.head)
    BY <1>0, <2>1 DEF Typed, RingTyped
  <2> QED  BY <1>0, <1>1, <2>1, <2>2, RecvQuiet DEF FlagsKept
<1>3. CASE RecvEmpty
  <2>1. /\ Shape(st') /\ RingKept /\ SendKept /\ FlagsKept /\ st'.used = st.used
        /\ st'.received = st.received /\ st'.cval = st.cval /\ st.cpc = "closed"
        /\ st'.cpc \in {"done", "park"}
    BY <1>0, <1>3 DEF RecvEmpty, Shape, RingKept, SendKept, FlagsKept
  <2> QED  BY <1>0, <1>1, <2>1, RecvQuiet DEF FlagsKept
<1>4. CASE SetWaker
  <2>1. /\ Shape(st') /\ RingKept /\ SendKept /\ st'.used = st.used
        /\ st'.closed = st.closed /\ st'.kpc = st.kpc /\ st'.woken = st.woken
        /\ st'.hasWaker \in BOOLEAN
        /\ st'.received = st.received /\ st'.cval = st.cval /\ st.cpc \in {"register", "park"}
        /\ st'.cpc = "arm"
    BY <1>0, <1>4, Zenon DEF SetWaker, Shape, RingKept, SendKept
  <2> QED  BY <1>0, <1>1, <2>1, RecvQuiet
<1>5. CASE SetWakerCheck
  <2>1. /\ Shape(st') /\ RingKept /\ SendKept /\ st'.used = st.used
        /\ st'.closed = st.closed /\ st'.kpc = st.kpc /\ st'.hasWaker = st.hasWaker
        /\ st'.received = st.received /\ st'.cval = st.cval /\ st.cpc = "arm"
        /\ st'.cpc \in {"try", "park"}
    BY <1>0, <1>5, Zenon DEF SetWakerCheck, Shape, RingKept, SendKept
  <2>2. st'.woken \in BOOLEAN  BY <1>0, <1>5 DEF SetWakerCheck, Shape
  <2> QED  BY <1>0, <1>1, <2>1, <2>2, RecvQuiet
<1>6. CASE Resume
  <2>1. /\ Shape(st') /\ RingKept /\ SendKept /\ st'.used = st.used
        /\ st'.closed = st.closed /\ st'.kpc = st.kpc /\ st'.hasWaker = st.hasWaker
        /\ st'.woken \in BOOLEAN
        /\ st'.received = st.received /\ st'.cval = st.cval /\ st.cpc = "park"
        /\ st'.cpc = "try"
    BY <1>0, <1>6, Zenon DEF Resume, Shape, RingKept, SendKept
  <2> QED  BY <1>0, <1>1, <2>1, RecvQuiet
<1> QED  BY <1>2, <1>3, <1>4, <1>5, <1>6

LEMMA RecvSlotInv ==
  ASSUME Constants, Inv, RecvSlot
  PROVE  Inv'
<1>0. Shape(st) /\ Typed(st) /\ st.kpc # "destroyed"
  BY TypeFields, RecvLive DEF Inv, RecvStep
<1> DEFINE v == st.slots[Index(st.tail)]
<1>1. v \in Message \cup {None}
  BY <1>0, Slots, Zenon DEF Typed, RingTyped
<1>2. /\ Shape(st') /\ RingKept /\ SendKept /\ FlagsKept /\ st'.used = st.used
      /\ st'.received = st.received /\ st'.cval = v /\ st.cpc = "slot"
      /\ st'.cpc = IF v = None THEN "park" ELSE "clear"
  BY <1>0, ZenonT(60) DEF RecvSlot, Shape, RingKept, SendKept, FlagsKept
<1>3. st.hasWaker \in BOOLEAN /\ st.woken \in BOOLEAN
  BY <1>0 DEF Typed, FlagsTyped
<1>4. CASE v = None
  <2> HIDE DEF v
  <2> QED  BY <1>0, <1>1, <1>2, <1>3, <1>4, RecvQuiet DEF FlagsKept
<1>5. CASE v # None
  <2>1. RingInv'  BY <1>0, <1>2, <1>5, Take DEF Inv
  <2> HIDE DEF v
  <2>2. RingTyped(st') /\ RecvTyped(st') /\ st'.used \in Nat /\ st'.cpc = "clear"
    BY <1>0, <1>1, <1>2, <1>5 DEF Typed, RingTyped, RecvTyped, RingKept
  <2>3. st'.used = (st'.head - st'.tail) + Cardinality(Busy)
                   + (IF st'.cpc = "release" THEN 1 ELSE 0)
    BY <1>0, <1>2, <2>2 DEF Inv, Charge, RingKept
  <2> QED  BY <1>0, <1>2, <1>3, <2>1, <2>2, <2>3, RecvFrame DEF FlagsKept
<1> QED  BY <1>4, <1>5

LEMMA RecvClearInv ==
  ASSUME Constants, Inv, RecvClear
  PROVE  Inv'
<1>0. Shape(st) /\ Typed(st) /\ st.kpc # "destroyed"
  BY TypeFields, RecvLive DEF Inv, RecvStep
<1>1. /\ Shape(st') /\ SendKept /\ FlagsKept /\ st'.used = st.used
      /\ st'.received = st.received /\ st'.cval = st.cval /\ st.cpc = "clear" /\ st'.cpc = "tail"
      /\ st'.slots = [st.slots EXCEPT ![Index(st.tail)] = None]
      /\ st'.head = st.head /\ st'.tail = st.tail /\ st'.log = st.log
  BY <1>0, Zenon DEF RecvClear, Shape, SendKept, FlagsKept
<1>2. RingInv'  BY <1>0, <1>1, Clear DEF Inv
<1>3. RingTyped(st') /\ RecvTyped(st') /\ st'.used \in Nat
  BY <1>0, <1>1, Zenon DEF Typed, RingTyped, RecvTyped
<1>4. st'.used = (st'.head - st'.tail) + Cardinality(Busy) + (IF st'.cpc = "release" THEN 1 ELSE 0)
  BY <1>0, <1>1 DEF Inv, Charge
<1> QED  BY <1>0, <1>1, <1>2, <1>3, <1>4, RecvFrame DEF FlagsKept, Typed, FlagsTyped

LEMMA RecvTailInv ==
  ASSUME Constants, Inv, RecvTail
  PROVE  Inv'
<1>0. Shape(st) /\ Typed(st) /\ st.kpc # "destroyed"
  BY TypeFields, RecvLive DEF Inv, RecvStep
<1>1. /\ Shape(st') /\ SendKept /\ FlagsKept /\ st'.used = st.used
      /\ st'.received = st.received /\ st'.cval = st.cval /\ st.cpc = "tail" /\ st'.cpc = "release"
      /\ st'.slots = st.slots
      /\ st'.head = st.head /\ st'.tail = st.tail + 1 /\ st'.log = st.log
  BY <1>0, Zenon DEF RecvTail, Shape, SendKept, FlagsKept
<1>2. RingInv'  BY <1>0, <1>1, Advance DEF Inv
<1>3. RingTyped(st') /\ RecvTyped(st') /\ st'.used \in Nat
  BY <1>0, <1>1 DEF Typed, RingTyped, RecvTyped
<1>4. st'.used = (st'.head - st'.tail) + Cardinality(Busy) + (IF st'.cpc = "release" THEN 1 ELSE 0)
  <2>1. st.used = (st.head - st.tail) + Cardinality(Busy)  BY <1>0, <1>1, BusyFinite DEF Inv, Charge, Typed, RingTyped
  <2>2. st.head \in Nat /\ st.tail \in Nat /\ Cardinality(Busy) \in Nat
    BY <1>0, BusyFinite DEF Typed, RingTyped
  <2>3. st.used = (st.head - (st.tail + 1)) + Cardinality(Busy) + 1  BY <2>1, <2>2
  <2> QED  BY <1>1, <2>3
<1> QED  BY <1>0, <1>1, <1>2, <1>3, <1>4, RecvFrame DEF FlagsKept, Typed, FlagsTyped

LEMMA RecvReleaseInv ==
  ASSUME Constants, Inv, RecvRelease
  PROVE  Inv'
<1>0. Shape(st) /\ Typed(st) /\ st.kpc # "destroyed"
  BY TypeFields, RecvLive DEF Inv, RecvStep
<1>1. /\ Shape(st') /\ RingKept /\ SendKept /\ FlagsKept /\ st'.used = Less(1)
      /\ st'.received = Append(st.received, st.cval) /\ st'.cval = None
      /\ st.cpc = "release" /\ st'.cpc = "try"
  BY <1>0, Zenon DEF RecvRelease, Shape, RingKept, SendKept, FlagsKept
<1>2. RingInv'  BY <1>0, <1>1, Return DEF Inv
<1>3. st.used = (st.head - st.tail) + Cardinality(Busy) + 1
  BY <1>0, <1>1 DEF Inv, Charge
<1>4. /\ st.head \in Nat /\ st.tail \in Nat /\ Cardinality(Busy) \in Nat /\ st.tail <= st.head
      /\ st.used \in Nat
  BY <1>0, BusyFinite DEF Typed, RingTyped, Inv, RingInv, Positions
<1>5. st'.used = (st.head - st.tail) + Cardinality(Busy) /\ st'.used \in Nat
  BY <1>1, <1>3, <1>4 DEF Less
<1>6. RingTyped(st') /\ RecvTyped(st')
  <2>1. st.cval \in Message
    BY <1>0, <1>1 DEF Typed, RingTyped, Inv, RingInv, Reading, Positions
  <2> QED  BY <1>0, <1>1, <2>1 DEF Typed, RingTyped, RecvTyped, RingKept
<1>7. st'.used = (st'.head - st'.tail) + Cardinality(Busy) + (IF st'.cpc = "release" THEN 1 ELSE 0)
  BY <1>1, <1>4, <1>5 DEF RingKept
<1> QED  BY <1>0, <1>1, <1>2, <1>5, <1>6, <1>7, RecvFrame DEF FlagsKept, Typed, FlagsTyped

----------------------------------------------------------------------------
(* Closing and destroying the channel. *)

LEMMA CloseInv ==
  ASSUME Constants, Inv, CloseStore \/ CloseWake
  PROVE  Inv'
<1>0. Shape(st) /\ Typed(st)  BY TypeFields DEF Inv
<1>1. /\ Shape(st') /\ RingKept /\ SendKept /\ RecvKept /\ st'.used = st.used
      /\ st'.hasWaker = st.hasWaker /\ st'.kpc \in {"wake", "closed"} /\ st.kpc # "destroyed"
      /\ st'.closed
  <2>1. CASE CloseStore
    BY <1>0, <2>1, Zenon DEF CloseStore, Shape, RingKept, SendKept, RecvKept
  <2>2. CASE CloseWake
    BY <1>0, <2>2, Zenon DEF CloseWake, Shape, RingKept, SendKept, RecvKept, Inv, Closing
  <2> QED  BY <2>1, <2>2
<1>2. st'.woken \in BOOLEAN /\ st'.closed \in BOOLEAN
  <2>1. st.woken \in BOOLEAN /\ st.closed \in BOOLEAN  BY <1>0 DEF Typed, FlagsTyped
  <2>2. CASE CloseStore  BY <1>0, <2>1, <2>2 DEF CloseStore, Shape
  <2>3. CASE CloseWake  BY <1>0, <2>1, <2>3 DEF CloseWake, Shape
  <2> QED  BY <2>2, <2>3
<1>3. Typed(st')
  BY <1>0, <1>1, <1>2
     DEF Typed, RingTyped, SendTyped, RecvTyped, FlagsTyped, RingKept, SendKept, RecvKept
<1>4. RingInv'  BY <1>1, NobodyOnRing DEF Inv
<1>5. Busy' = Busy  BY <1>1 DEF Busy, SendKept
<1>6. Charge'  BY <1>1, <1>5 DEF Inv, Charge, RingKept, RecvKept
<1>7. Closing'  BY <1>1 DEF Closing
<1> QED  BY <1>1, <1>3, <1>4, <1>6, <1>7, TypeNext DEF Inv

(* Nobody is in a call, so what is charged is what is buffered. *)
LEMMA DestroyInv ==
  ASSUME Constants, Inv, Destroy
  PROVE  Inv'
<1>0. Shape(st) /\ Typed(st)  BY TypeFields DEF Inv
<1>1. /\ Shape(st') /\ RingKept /\ SendKept /\ RecvKept
      /\ st'.used = Less(st.head - st.tail) /\ st'.kpc = "destroyed" /\ st.kpc = "closed"
      /\ st'.hasWaker = st.hasWaker /\ st'.woken = st.woken /\ st'.closed = st.closed
      /\ st.cpc = "done" /\ \A s \in Senders : st.spc[s] = "idle"
  BY <1>0, Zenon DEF Destroy, Shape, RingKept, SendKept, RecvKept
<1>2. Cardinality(Busy) = 0
  <2>1. Busy = {}  BY <1>1 DEF Busy, InCall
  <2> QED  BY <2>1, FS_EmptySet
<1>3. st.head \in Nat /\ st.tail \in Nat  BY <1>0 DEF Typed, RingTyped
<1>4. st.used = st.head - st.tail
  BY <1>1, <1>2, <1>3 DEF Inv, Charge
<1>5. st'.used = 0
  BY <1>1, <1>3, <1>4 DEF Less
<1>6. Typed(st')
  BY <1>0, <1>1, <1>5
     DEF Typed, RingTyped, SendTyped, RecvTyped, FlagsTyped, RingKept, SendKept, RecvKept
<1>7. RingInv'  BY <1>1, NobodyOnRing DEF Inv
<1>8. Charge'  BY <1>1 DEF Charge
<1>9. Closing'  BY <1>1, <1>5 DEF Inv, Closing, SendKept, RecvKept
<1> QED  BY <1>1, <1>6, <1>7, <1>8, <1>9, TypeNext DEF Inv

----------------------------------------------------------------------------
LEMMA InitInv ==
  ASSUME Constants, Init
  PROVE  Inv
<1>0. TypeOK
  <2>1. Shape(st)  BY DEF Init, Shape
  <2>2. Typed(st)  BY DEF Init, Constants, Typed, RingTyped, SendTyped, RecvTyped, FlagsTyped
  <2> QED  BY <2>1, <2>2, TypeFields
<1>1. /\ st.head = 0 /\ st.tail = 0 /\ st.log = <<>> /\ st.received = <<>> /\ st.used = 0
      /\ st.kpc = "open" /\ st.cpc \in {"register", "try"} /\ st.slots = [i \in 0 .. Cap - 1 |-> None]
      /\ \A s \in Senders : st.spc[s] = "idle" /\ st.shead[s] = 0
  BY DEF Init
<1>2. Positions
  BY <1>1 DEF Positions, Constants
<1>3. Storing
  BY <1>1 DEF Storing
<1>4. Contents
  <2>1. \A i \in Nat : st.slots[Index(i)] = None  BY <1>1, Slots
  <2>2. \A i \in Nat : ~(i < 0)  OBVIOUS
  <2> QED  BY <1>1, <2>1, <2>2, Zenon DEF Contents
<1>5. Reading
  BY <1>1 DEF Reading
<1>6. Charge
  <2>1. Busy = {}  BY <1>1 DEF Busy, InCall
  <2>2. Cardinality(Busy) = 0  BY <2>1, FS_EmptySet
  <2> QED  BY <1>1, <2>2 DEF Charge
<1>7. Closing
  BY <1>1 DEF Closing
<1> QED  BY <1>0, <1>2, <1>3, <1>4, <1>5, <1>6, <1>7 DEF Inv, RingInv

LEMMA NextInv ==
  ASSUME Constants, Inv, [Next]_st
  PROVE  Inv'
<1>1. CASE UNCHANGED st
  <2>1. TypeOK'  BY <1>1 DEF Inv, TypeOK
  <2>2. RingKept /\ SendKept /\ RecvKept  BY <1>1 DEF RingKept, SendKept, RecvKept
  <2>3. RingInv'  BY <2>2, NobodyOnRing DEF Inv
  <2>4. Charge' /\ Closing'  BY <1>1 DEF Inv, Charge, Busy, Closing
  <2> QED  BY <2>1, <2>3, <2>4 DEF Inv
<1>2. ASSUME NEW s \in Senders, SendOpen(s) \/ SendStep(s) PROVE Inv'
  BY <1>2, SendOpenInv, SendChargeInv, SendHeadInv, SendTailInv, SendAgainInv, SendCasInv,
     SendStoreInv, SendWakeInv DEF SendStep
<1>3. CASE RecvStep
  BY <1>3, RecvIdleInv, RecvSlotInv, RecvClearInv, RecvTailInv, RecvReleaseInv DEF RecvStep
<1>4. CASE CloseStore \/ CloseWake  BY <1>4, CloseInv
<1>5. CASE Destroy  BY <1>5, DestroyInv
<1> QED  BY <1>1, <1>2, <1>3, <1>4, <1>5 DEF Next

LEMMA InvGives ==
  ASSUME Constants, Inv
  PROVE  TypeOK /\ RecvInOrder /\ SlotsCharged
<1>1. TypeOK  BY DEF Inv
<1>2. RecvInOrder
  <2> DEFINE n == Len(st.received)
             p == SubSeq(st.log, 1, n)
  <2>1. /\ st.log \in Seq(Message) /\ st.received \in Seq(Message) /\ n \in Nat
        /\ n <= Len(st.log) /\ \A i \in 1 .. n : st.received[i] = st.log[i]
    <3>1. Typed(st)  BY TypeFields DEF Inv
    <3> QED  BY <3>1 DEF Typed, RingTyped, RecvTyped, Inv, RingInv, Positions, Reading
  <2>2. p \in Seq(Message) /\ Len(p) = n /\ \A i \in 1 .. n : p[i] = st.log[i]
    <3>1. \A i \in 1 .. n : i \in 1 .. Len(st.log)  BY <2>1
    <3> QED  BY <2>1, <3>1, SubSeqProperties
  <2> HIDE DEF p
  <2>3. st.received = p  BY <2>1, <2>2, SeqEqual
  <2> QED  BY <2>3 DEF RecvInOrder, p
<1>3. SlotsCharged
  BY DEF Inv, Charge, Closing, SlotsCharged, Busy, InCall
<1> QED  BY <1>1, <1>2, <1>3

(* For any number of senders, any capacity and any slot budget, and wherever the
   channel is closed and destroyed: xtc_chan_mpsc_try_recv returns the messages in the
   order their positions were reserved, none lost, overwritten or returned twice; and the
   budget charges exactly the reserved slots and the callers in between. *)
THEOREM RingSafe ==
  ASSUME Constants
  PROVE  Spec => [](TypeOK /\ RecvInOrder /\ SlotsCharged)
<1>1. Init => Inv  BY InitInv
<1>2. Inv /\ [Next]_st => Inv'  BY NextInv
<1>3. Inv => TypeOK /\ RecvInOrder /\ SlotsCharged  BY InvGives
<1> QED  BY <1>1, <1>2, <1>3, PTL DEF Spec

----------------------------------------------------------------------------
(* The channels of ChanSlots. *)

CONSTANTS Receivers, MaxValues, IntMax

S == INSTANCE ChanSlots

OneshotSpec == S!OneshotInit /\ [][S!OneshotNext]_st

(* Whoever got past the compare-and-swap is the winner. *)
OneshotInv ==
  /\ st = [state |-> st.state, value |-> st.value, hasWaker |-> st.hasWaker, spc |-> st.spc,
           winner |-> st.winner, rpc |-> st.rpc, got |-> st.got, woken |-> st.woken]
  /\ st.spc \in [Senders -> {"start", "store", "wake", "ok", "inval"}]
  /\ \A s \in Senders : st.spc[s] \in {"store", "wake", "ok"} => s = st.winner /\ st.state = 1
  /\ st.value \in {None, st.winner}
  /\ st.state = 0 => st.value = None

LEMMA OneshotStep ==
  ASSUME OneshotInv, S!OneshotNext
  PROVE  OneshotInv'
<1>1. ASSUME NEW s \in Senders, S!OneshotSendClaim(s) PROVE OneshotInv'
  <2>1. CASE st.state = 0 /\ st' = [st EXCEPT !.state = 1, !.winner = s, !.spc[s] = "store"]
    <3>1. /\ st'.state = 1 /\ st'.winner = s /\ st'.value = st.value
          /\ st'.spc = [st.spc EXCEPT ![s] = "store"]
          /\ st' = [state |-> st'.state, value |-> st'.value, hasWaker |-> st'.hasWaker,
                    spc |-> st'.spc, winner |-> st'.winner, rpc |-> st'.rpc, got |-> st'.got,
                    woken |-> st'.woken]
      BY <2>1, Zenon DEF OneshotInv
    <3>2. st.value = None /\ \A t \in Senders : st.spc[t] \notin {"store", "wake", "ok"}
      BY <2>1 DEF OneshotInv
    <3> QED  BY <3>1, <3>2 DEF OneshotInv
  <2>2. CASE st.state # 0 /\ st' = [st EXCEPT !.spc[s] = "inval"]
    BY <1>1, <2>2 DEF OneshotInv
  <2> QED  BY <1>1, <2>1, <2>2 DEF S!OneshotSendClaim
<1>2. ASSUME NEW s \in Senders, S!OneshotSendStore(s) PROVE OneshotInv'
  <2>1. /\ st'.state = st.state /\ st'.winner = st.winner /\ st'.value = s
        /\ st.spc[s] = "store" /\ st'.spc = [st.spc EXCEPT ![s] = "wake"]
        /\ st' = [state |-> st'.state, value |-> st'.value, hasWaker |-> st'.hasWaker,
                  spc |-> st'.spc, winner |-> st'.winner, rpc |-> st'.rpc, got |-> st'.got,
                  woken |-> st'.woken]
    BY <1>2, Zenon DEF OneshotInv, S!OneshotSendStore
  <2>2. s = st.winner /\ st.state = 1  BY <2>1 DEF OneshotInv
  <2> QED  BY <2>1, <2>2 DEF OneshotInv
<1>3. ASSUME NEW s \in Senders, S!OneshotSendWake(s) PROVE OneshotInv'
  BY <1>3, Zenon DEF OneshotInv, S!OneshotSendWake
<1>4. CASE S!OneshotRecvStep
  <2>1. /\ st'.state = st.state /\ st'.value = st.value /\ st'.spc = st.spc
        /\ st'.winner = st.winner
        /\ st' = [state |-> st'.state, value |-> st'.value, hasWaker |-> st'.hasWaker,
                  spc |-> st'.spc, winner |-> st'.winner, rpc |-> st'.rpc, got |-> st'.got,
                  woken |-> st'.woken]
    <3>1. CASE S!SetWaker  BY <3>1, Zenon DEF OneshotInv, S!SetWaker
    <3>2. CASE S!SetWakerCheck  BY <3>2, Zenon DEF OneshotInv, S!SetWakerCheck
    <3>3. CASE S!Resume  BY <3>3, Zenon DEF OneshotInv, S!Resume
    <3>4. CASE S!OneshotRecvState  BY <3>4 DEF OneshotInv, S!OneshotRecvState
    <3>5. CASE S!OneshotRecvValue  BY <3>5, Zenon DEF OneshotInv, S!OneshotRecvValue
    <3> QED  BY <1>4, <3>1, <3>2, <3>3, <3>4, <3>5 DEF S!OneshotRecvStep
  <2> QED  BY <2>1 DEF OneshotInv
<1> QED  BY <1>1, <1>2, <1>3, <1>4 DEF S!OneshotNext, S!OneshotSendStep

(* For any number of racing senders, xtc_chan_oneshot_send succeeds for one, and the slot
   never holds another's value. *)
THEOREM OneshotSafe ==
  OneshotSpec => []S!OneMessage
<1>1. S!OneshotInit => OneshotInv
  BY DEF S!OneshotInit, OneshotInv
<1>2. OneshotInv /\ [S!OneshotNext]_st => OneshotInv'
  <2>1. CASE UNCHANGED st  BY <2>1 DEF OneshotInv
  <2> QED  BY <2>1, OneshotStep
<1>3. OneshotInv => S!OneMessage
  BY DEF OneshotInv, S!OneMessage
<1> QED  BY <1>1, <1>2, <1>3, PTL DEF OneshotSpec

WatchSpec == S!WatchInit /\ [][S!WatchNext]_st

(* The slot's number bounds every number anyone remembers. *)
WatchInv ==
  /\ st \in [value : Nat, hasValue : BOOLEAN, spc : [Senders -> {"idle", "flag"}],
             sval : [Senders -> Nat], rpc : [Receivers -> {"idle", "value", "ok"}],
             got : [Receivers -> Nat], done : Nat, since : [Receivers -> Nat]]
  /\ st.hasValue => st.value >= 1
  /\ st.done <= st.value
  /\ \A s \in Senders : st.sval[s] <= st.value /\ (st.spc[s] = "flag" => st.value >= 1)
  /\ \A r \in Receivers : st.rpc[r] = "value" => st.value >= 1 /\ st.since[r] <= st.value
  /\ S!RecvIsFresh

LEMMA WatchStep ==
  ASSUME WatchInv, S!WatchNext
  PROVE  WatchInv'
<1> USE DEF WatchInv, S!RecvIsFresh
<1>1. ASSUME NEW s \in Senders, S!WatchSendStore(s) PROVE WatchInv'
  <2>1. /\ st'.value = st.value + 1 /\ st'.hasValue = st.hasValue /\ st'.done = st.done
        /\ st'.spc = [st.spc EXCEPT ![s] = "flag"]
        /\ st'.sval = [st.sval EXCEPT ![s] = st.value + 1]
        /\ st'.rpc = st.rpc /\ st'.got = st.got /\ st'.since = st.since
        /\ st' = [value |-> st'.value, hasValue |-> st'.hasValue, spc |-> st'.spc,
                  sval |-> st'.sval, rpc |-> st'.rpc, got |-> st'.got, done |-> st'.done,
                  since |-> st'.since]
    BY <1>1, Zenon DEF S!WatchSendStore
  <2>2. st'.spc \in [Senders -> {"idle", "flag"}] /\ st'.sval \in [Senders -> Nat]
    BY <2>1
  <2>3. ASSUME NEW t \in Senders
        PROVE  st'.sval[t] <= st'.value /\ (st'.spc[t] = "flag" => st'.value >= 1)
    BY <2>1
  <2>4. S!RecvIsFresh'  BY <2>1
  <2> QED  BY <2>1, <2>2, <2>3, <2>4
<1>2. ASSUME NEW s \in Senders, S!WatchSendFlag(s) PROVE WatchInv'
  BY <1>2, Zenon DEF S!WatchSendFlag
<1>3. ASSUME NEW r \in Receivers, S!WatchRecvFlag(r) PROVE WatchInv'
  BY <1>3, ZenonT(60) DEF S!WatchRecvFlag
<1>4. ASSUME NEW r \in Receivers, S!WatchRecvValue(r) PROVE WatchInv'
  BY <1>4, ZenonT(60) DEF S!WatchRecvValue
<1> QED  BY <1>1, <1>2, <1>3, <1>4 DEF S!WatchNext

(* For any senders and receivers, a successful xtc_chan_watch_recv returns a value that
   was sent, no older than the newest whose send had returned when it began. *)
THEOREM WatchSafe ==
  WatchSpec => []S!RecvIsFresh
<1>1. S!WatchInit => WatchInv
  BY DEF S!WatchInit, WatchInv, S!RecvIsFresh
<1>2. WatchInv /\ [S!WatchNext]_st => WatchInv'
  <2>1. CASE UNCHANGED st  BY <2>1 DEF WatchInv, S!RecvIsFresh
  <2> QED  BY <2>1, WatchStep
<1>3. WatchInv => S!RecvIsFresh
  BY DEF WatchInv
<1> QED  BY <1>1, <1>2, <1>3, PTL DEF WatchSpec

BroadcastSpec == S!BroadcastInit /\ [][S!BroadcastNext]_st

BroadcastShape(m) ==
  m = [slots |-> m.slots, pos |-> m.pos, subscribed |-> m.subscribed, cursor |-> m.cursor,
       got |-> m.got, first |-> m.first, nrecv |-> m.nrecv, nlost |-> m.nlost,
       exact |-> m.exact]

BroadcastTyped(m) ==
  /\ m.slots \in [0 .. Cap - 1 -> Nat] /\ m.pos \in Nat
  /\ m.subscribed \subseteq Receivers
  /\ m.cursor \in [Receivers -> Nat] /\ m.got \in [Receivers -> Nat]
  /\ m.first \in [Receivers -> Nat]
  /\ m.nrecv \in [Receivers -> Nat] /\ m.nlost \in [Receivers -> Int]
  /\ m.exact \in [Receivers -> BOOLEAN]

(* The last Cap messages are in their slots, and no cursor is ahead of the senders. *)
Latest ==
  /\ \A i \in Nat : i < st.pos /\ st.pos <= i + Cap => st.slots[Index(i)] = i
  /\ \A r \in Receivers : st.cursor[r] <= st.pos

BroadcastInv ==
  BroadcastShape(st) /\ BroadcastTyped(st) /\ Latest /\ S!EveryMessageCounted

BroadcastConstants == Cap \in Nat \ {0} /\ MaxValues \in Nat /\ IntMax \in Nat

(* A lag that fits an int is reported as it is. *)
LEMMA LagFits ==
  ASSUME NEW x \in Nat, IntMax \in Nat
  PROVE  S!ToInt(x) \in Int /\ (x <= IntMax => S!ToInt(x) = x)
<1> DEFINE w == 2 * (IntMax + 1)
           y == x + IntMax + 1
<1>1. w \in Nat \ {0} /\ y \in Nat /\ (x <= IntMax => y < w)  OBVIOUS
<1>2. S!ToInt(x) = (y % w) - (IntMax + 1)  BY Zenon DEF S!ToInt
<1>3. y % w \in 0 .. w - 1 /\ (y < w => y % w = y)
  <2> HIDE DEF w, y
  <2>1. y \in Int  BY <1>1
  <2> QED  BY <1>1, <2>1, ModType, ModSmall
<1>4. y = x + IntMax + 1 /\ w \in Int  BY <1>1
<1> HIDE DEF w, y
<1> QED  BY <1>1, <1>2, <1>3, <1>4

LEMMA BroadcastSendStep ==
  ASSUME BroadcastConstants, BroadcastInv, S!BroadcastSend
  PROVE  BroadcastInv'
<1>0. BroadcastShape(st) /\ BroadcastTyped(st) /\ Cap \in Nat \ {0} /\ st.pos \in Nat
  BY DEF BroadcastInv, BroadcastConstants, BroadcastTyped
<1>1. /\ BroadcastShape(st') /\ st'.slots = [st.slots EXCEPT ![Index(st.pos)] = st.pos]
      /\ st'.pos = st.pos + 1 /\ st'.subscribed = st.subscribed /\ st'.cursor = st.cursor
      /\ st'.got = st.got /\ st'.first = st.first /\ st'.nrecv = st.nrecv
      /\ st'.nlost = st.nlost /\ st'.exact = st.exact
  BY <1>0, Zenon DEF S!BroadcastSend, BroadcastShape, Index
<1>2. Index(st.pos) \in 0 .. Cap - 1
  <2>1. st.pos \in Int  BY <1>0
  <2>2. st.pos % Cap \in 0 .. Cap - 1  BY <1>0, <2>1, ModType, Zenon
  <2> QED  BY <2>2, Zenon DEF Index
<1>3. BroadcastTyped(st')
  <2>1. st'.slots \in [0 .. Cap - 1 -> Nat] /\ st'.pos \in Nat
    BY <1>0, <1>1, <1>2 DEF BroadcastTyped
  <2> QED  BY <1>0, <1>1, <2>1, Zenon DEF BroadcastTyped
<1>4. Latest'
  <2>1. ASSUME NEW i \in Nat, i < st.pos + 1, st.pos + 1 <= i + Cap PROVE st'.slots[Index(i)] = i
    <3>1. Index(i) \in 0 .. Cap - 1  BY <1>0, ModType DEF Index
    <3>2. CASE i = st.pos  BY <1>0, <1>1, <3>1, <3>2 DEF BroadcastTyped
    <3>3. CASE i < st.pos
      <4>1. st.pos < i + Cap /\ st.pos <= i + Cap  BY <1>0, <2>1
      <4>2. i \in Int /\ st.pos \in Int  BY <1>0
      <4>3. Index(i) # Index(st.pos)
        <5>1. i % Cap # st.pos % Cap  BY <1>0, <3>3, <4>1, <4>2, ModDiffers, Zenon
        <5> QED  BY <5>1, Zenon DEF Index
      <4>4. st.slots[Index(i)] = i  BY <3>3, <4>1 DEF BroadcastInv, Latest
      <4> QED  BY <1>0, <1>1, <3>1, <4>3, <4>4 DEF BroadcastTyped
    <3> QED  BY <1>0, <2>1, <3>2, <3>3
  <2>2. ASSUME NEW r \in Receivers PROVE st.cursor[r] <= st.pos + 1
    BY <1>0 DEF BroadcastInv, Latest, BroadcastTyped
  <2> QED  BY <1>1, <2>1, <2>2 DEF Latest, Index
<1>5. S!EveryMessageCounted'
  BY <1>1 DEF BroadcastInv, S!EveryMessageCounted
<1> QED  BY <1>1, <1>3, <1>4, <1>5 DEF BroadcastInv

LEMMA SubscribeStep ==
  ASSUME BroadcastConstants, BroadcastInv, NEW r \in Receivers, S!Subscribe(r)
  PROVE  BroadcastInv'
<1>0. /\ BroadcastShape(st) /\ BroadcastTyped(st) /\ Latest /\ S!EveryMessageCounted
      /\ st.pos \in Nat /\ S!Unset \in Nat
  <2>1. S!Unset \in Nat  BY DEF BroadcastConstants, S!Unset
  <2> QED  BY <2>1, Zenon DEF BroadcastInv, BroadcastTyped
<1>1. /\ BroadcastShape(st') /\ st'.slots = st.slots /\ st'.pos = st.pos
      /\ st'.subscribed = st.subscribed \cup {r} /\ st'.cursor = [st.cursor EXCEPT ![r] = st.pos]
      /\ st'.got = [st.got EXCEPT ![r] = S!Unset] /\ st'.first = [st.first EXCEPT ![r] = st.pos]
      /\ st'.nrecv = [st.nrecv EXCEPT ![r] = 0] /\ st'.nlost = [st.nlost EXCEPT ![r] = 0]
      /\ st'.exact = [st.exact EXCEPT ![r] = TRUE]
  BY <1>0, Zenon DEF S!Subscribe, BroadcastShape
<1>2. BroadcastTyped(st')
  BY <1>0, <1>1 DEF BroadcastTyped
<1>3. Latest'
  BY <1>0, <1>1 DEF Latest, BroadcastTyped, Index
<1>4. S!EveryMessageCounted'
  <2> SUFFICES ASSUME NEW q \in st'.subscribed
               PROVE  /\ st'.exact[q] => st'.cursor[q] = st'.first[q] + st'.nrecv[q] + st'.nlost[q]
                      /\ st'.nrecv[q] > 0 => st'.got[q] = st'.cursor[q] - 1
    BY DEF S!EveryMessageCounted
  <2>1. CASE q = r  BY <1>0, <1>1, <2>1 DEF BroadcastTyped
  <2>2. CASE q # r
    <3>1. q \in st.subscribed /\ q \in Receivers  BY <1>0, <1>1, <2>2 DEF BroadcastTyped
    <3>2. /\ st'.cursor[q] = st.cursor[q] /\ st'.first[q] = st.first[q] /\ st'.got[q] = st.got[q]
          /\ st'.nrecv[q] = st.nrecv[q] /\ st'.nlost[q] = st.nlost[q]
          /\ st'.exact[q] = st.exact[q]
      BY <1>0, <1>1, <2>2, <3>1, ZenonT(60) DEF BroadcastTyped
    <3> QED  BY <1>0, <3>1, <3>2 DEF S!EveryMessageCounted
  <2> QED  BY <2>1, <2>2
<1> QED  BY <1>1, <1>2, <1>3, <1>4 DEF BroadcastInv

LEMMA UnsubscribeStep ==
  ASSUME BroadcastInv, NEW r \in Receivers, S!Unsubscribe(r)
  PROVE  BroadcastInv'
<1>0. BroadcastShape(st) /\ BroadcastTyped(st) /\ Latest /\ S!EveryMessageCounted
  BY DEF BroadcastInv
<1>1. /\ BroadcastShape(st') /\ st'.slots = st.slots /\ st'.pos = st.pos
      /\ st'.subscribed = st.subscribed \ {r} /\ st'.cursor = st.cursor
      /\ st'.got = st.got /\ st'.first = st.first /\ st'.nrecv = st.nrecv
      /\ st'.nlost = st.nlost /\ st'.exact = st.exact
  BY <1>0 DEF S!Unsubscribe, BroadcastShape
<1>2. BroadcastTyped(st')  BY <1>0, <1>1 DEF BroadcastTyped
<1>3. Latest'  BY <1>0, <1>1 DEF Latest, Index
<1>4. S!EveryMessageCounted'  BY <1>0, <1>1 DEF S!EveryMessageCounted
<1> QED  BY <1>1, <1>2, <1>3, <1>4 DEF BroadcastInv

LEMMA BroadcastRecvStep ==
  ASSUME BroadcastConstants, BroadcastInv, NEW r \in Receivers, S!BroadcastRecv(r)
  PROVE  BroadcastInv'
<1>0. /\ BroadcastShape(st) /\ BroadcastTyped(st) /\ Latest /\ S!EveryMessageCounted
      /\ st.pos \in Nat /\ Cap \in Nat \ {0} /\ st.cursor[r] \in Nat
  BY Zenon DEF BroadcastInv, BroadcastConstants, BroadcastTyped
<1> DEFINE at == S!OldestReadable(r)
<1>1. st.cursor[r] < st.pos /\ r \in st.subscribed  BY DEF S!BroadcastRecv
<1>2. /\ at \in Nat /\ st.cursor[r] <= at /\ at < st.pos /\ st.pos <= at + Cap
      /\ at - st.cursor[r] \in Nat
  <2>1. at = IF st.pos - st.cursor[r] > Cap THEN st.pos - Cap ELSE st.cursor[r]
    BY DEF S!OldestReadable
  <2> HIDE DEF at
  <2>2. CASE st.pos - st.cursor[r] > Cap
    <3>1. at = st.pos - Cap  BY <2>1, <2>2
    <3> QED  BY <1>0, <1>1, <2>2, <3>1
  <2>3. CASE ~(st.pos - st.cursor[r] > Cap)
    <3>1. at = st.cursor[r]  BY <2>1, <2>3
    <3> QED  BY <1>0, <1>1, <2>3, <3>1
  <2> QED  BY <2>2, <2>3
<1> HIDE DEF at
<1>3. st.slots[Index(at)] = at  BY <1>0, <1>2 DEF Latest
<1>4. /\ BroadcastShape(st') /\ st'.slots = st.slots /\ st'.pos = st.pos
      /\ st'.subscribed = st.subscribed /\ st'.cursor = [st.cursor EXCEPT ![r] = at + 1]
      /\ st'.got = [st.got EXCEPT ![r] = st.slots[Index(at)]] /\ st'.first = st.first
      /\ st'.nrecv = [st.nrecv EXCEPT ![r] = @ + 1]
      /\ st'.nlost = [st.nlost EXCEPT ![r] = @ + S!ToInt(at - st.cursor[r])]
      /\ st'.exact = [st.exact EXCEPT ![r] = @ /\ at - st.cursor[r] <= IntMax]
  <2>1. st' = [st EXCEPT !.got[r] = st.slots[Index(at)], !.nrecv[r] = @ + 1,
                         !.nlost[r] = @ + S!ToInt(at - st.cursor[r]),
                         !.exact[r] = @ /\ at - st.cursor[r] <= IntMax, !.cursor[r] = at + 1]
    BY DEF S!BroadcastRecv, at, Index
  <2> QED  BY <1>0, <2>1, Zenon DEF BroadcastShape
<1>8. /\ S!ToInt(at - st.cursor[r]) \in Int
      /\ at - st.cursor[r] <= IntMax => S!ToInt(at - st.cursor[r]) = at - st.cursor[r]
  <2>1. IntMax \in Nat  BY DEF BroadcastConstants
  <2> QED  BY <1>2, <2>1, LagFits, Zenon
<1>5. BroadcastTyped(st')
  <2> DEFINE lag == S!ToInt(at - st.cursor[r])
  <2>1. at \in Nat /\ at + 1 \in Nat /\ lag \in Int  BY <1>2, <1>8
  <2> HIDE DEF lag
  <2>2. st'.cursor \in [Receivers -> Nat]  BY <1>0, <1>4, <2>1 DEF BroadcastTyped
  <2>3. st'.got \in [Receivers -> Nat]  BY <1>0, <1>3, <1>4, <2>1 DEF BroadcastTyped
  <2>4. st'.nrecv \in [Receivers -> Nat]  BY <1>0, <1>4 DEF BroadcastTyped
  <2>5. st'.nlost \in [Receivers -> Int]
    <3>1. st'.nlost = [st.nlost EXCEPT ![r] = @ + lag]  BY <1>4 DEF lag
    <3> QED  BY <1>0, <2>1, <3>1 DEF BroadcastTyped
  <2>6. st'.exact \in [Receivers -> BOOLEAN]
    <3>1. \A q \in Receivers : st.exact[q] \in BOOLEAN  BY <1>0, Zenon DEF BroadcastTyped
    <3> QED  BY <1>0, <1>4, <3>1, Zenon DEF BroadcastTyped
  <2> QED  BY <1>0, <1>4, <2>2, <2>3, <2>4, <2>5, <2>6, Zenon DEF BroadcastTyped
<1>6. Latest'
  <2>1. ASSUME NEW q \in Receivers PROVE st'.cursor[q] <= st.pos
    <3>1. CASE q = r
      <4>1. st'.cursor[q] = at + 1  BY <1>0, <1>4, <3>1 DEF BroadcastTyped
      <4> QED  BY <1>0, <1>2, <4>1
    <3>2. CASE q # r  BY <1>0, <1>4, <3>2 DEF Latest, BroadcastTyped
    <3> QED  BY <3>1, <3>2
  <2> QED  BY <1>0, <1>4, <2>1 DEF Latest, Index
<1>7. S!EveryMessageCounted'
  <2> SUFFICES ASSUME NEW q \in st'.subscribed
               PROVE  /\ st'.exact[q] => st'.cursor[q] = st'.first[q] + st'.nrecv[q] + st'.nlost[q]
                      /\ st'.nrecv[q] > 0 => st'.got[q] = st'.cursor[q] - 1
    BY DEF S!EveryMessageCounted
  <2>1. CASE q = r
    <3>1. st.exact[r] => st.cursor[r] = st.first[r] + st.nrecv[r] + st.nlost[r]
      BY <1>0, <1>1 DEF S!EveryMessageCounted
    <3>2. /\ st'.cursor[q] = at + 1 /\ st'.got[q] = at /\ st'.first[q] = st.first[r]
          /\ st'.nrecv[q] = st.nrecv[r] + 1
          /\ st'.nlost[q] = st.nlost[r] + S!ToInt(at - st.cursor[r])
          /\ st'.exact[q] <=> st.exact[r] /\ at - st.cursor[r] <= IntMax
          /\ st.first[r] \in Nat /\ st.nrecv[r] \in Nat /\ st.nlost[r] \in Int
      BY <1>0, <1>3, <1>4, <2>1, ZenonT(60) DEF BroadcastTyped
    <3>3. /\ (at + 1) - 1 = at
          /\ st.exact[r] =>
                at + 1 = st.first[r] + (st.nrecv[r] + 1) + (st.nlost[r] + (at - st.cursor[r]))
      <4>1. /\ st.first[r] \in Nat /\ st.nrecv[r] \in Nat /\ st.nlost[r] \in Int
            /\ st.cursor[r] \in Nat /\ at \in Nat /\ st.cursor[r] <= at
        BY <1>0, <1>2, <3>2, Zenon
      <4>2. (at + 1) - 1 = at  BY <4>1
      <4>3. ASSUME st.exact[r]
            PROVE  at + 1 = st.first[r] + (st.nrecv[r] + 1) + (st.nlost[r] + (at - st.cursor[r]))
        <5>1. st.cursor[r] = st.first[r] + st.nrecv[r] + st.nlost[r]  BY <3>1, <4>3
        <5> QED  BY <4>1, <5>1, Tally
      <4> QED  BY <4>2, <4>3
    <3> QED  BY <1>8, <3>2, <3>3, Zenon
  <2>2. CASE q # r
    <3>1. q \in st.subscribed /\ q \in Receivers  BY <1>0, <1>4, <2>2 DEF BroadcastTyped
    <3>2. /\ st'.cursor[q] = st.cursor[q] /\ st'.first[q] = st.first[q] /\ st'.got[q] = st.got[q]
          /\ st'.nrecv[q] = st.nrecv[q] /\ st'.nlost[q] = st.nlost[q]
          /\ st'.exact[q] = st.exact[q]
      BY <1>0, <1>4, <2>2, <3>1, ZenonT(60) DEF BroadcastTyped
    <3> QED  BY <1>0, <3>1, <3>2 DEF S!EveryMessageCounted
  <2> QED  BY <2>1, <2>2
<1> QED  BY <1>4, <1>5, <1>6, <1>7 DEF BroadcastInv

(* For any capacity and any subscribers, xtc_chan_broadcast_recv returns the message its
   cursor stood for, and what a subscriber received and was told it lost add up to what
   was sent since it subscribed, as long as every lag it was told of fits an int. *)
THEOREM BroadcastSafe ==
  ASSUME BroadcastConstants
  PROVE  BroadcastSpec => []S!EveryMessageCounted
<1>1. S!BroadcastInit => BroadcastInv
  <2> SUFFICES ASSUME S!BroadcastInit PROVE BroadcastInv  OBVIOUS
  <2>1. /\ BroadcastShape(st) /\ st.pos = 0 /\ st.subscribed = {}
        /\ \A r \in Receivers : st.cursor[r] = 0
    BY DEF S!BroadcastInit, BroadcastShape
  <2>2. BroadcastTyped(st)
    BY DEF S!BroadcastInit, S!Unset, BroadcastTyped, BroadcastConstants
  <2>3. Latest  BY <2>1 DEF Latest
  <2>4. S!EveryMessageCounted  BY <2>1 DEF S!EveryMessageCounted
  <2> QED  BY <2>1, <2>2, <2>3, <2>4 DEF BroadcastInv
<1>2. BroadcastInv /\ [S!BroadcastNext]_st => BroadcastInv'
  <2>1. CASE UNCHANGED st
    BY <2>1 DEF BroadcastInv, BroadcastShape, BroadcastTyped, Latest, Index, S!EveryMessageCounted
  <2> QED  BY <2>1, BroadcastSendStep, SubscribeStep, UnsubscribeStep, BroadcastRecvStep
           DEF S!BroadcastNext
<1>3. BroadcastInv => S!EveryMessageCounted
  BY DEF BroadcastInv
<1> QED  BY <1>1, <1>2, <1>3, PTL DEF BroadcastSpec
=============================================================================
