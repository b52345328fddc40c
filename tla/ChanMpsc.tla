------------------------------ MODULE ChanMpsc ------------------------------
(***************************************************************************)
(* The bounded multi-producer single-consumer channel of ptc/chan.c: a     *)
(* ring of slots, head advanced by the senders' compare-and-swap, tail by  *)
(* the one consumer, a waker the consumer registers, a close flag, and the *)
(* slot budget of xtc_res (XTC_RES_CHAN_SLOTS).                            *)
(*                                                                         *)
(* One action is one atomic access and the local work after it.  A message *)
(* is <<sender, n>>: the n-th message that sender puts into the channel.   *)
(* The consumer is the loop every user of the channel writes: receive      *)
(* until XTC_E_AGAIN, then wait for the waker.  xtc_waker_wake is taken    *)
(* from Sched: a wake of a running task is remembered until it parks.      *)
(***************************************************************************)
EXTENDS Integers, Sequences, FiniteSets

CONSTANTS
  Senders,
  Cap,            \* capacity, already rounded up to a power of two
  Wrap,           \* the modulus of the 64-bit counters
  SlotCap,        \* cap of XTC_RES_CHAN_SLOTS
  MaxSends,       \* bound: messages per sender
  MayClose,       \* whether someone closes the channel
  RegisterFirst,  \* the consumer registers its waker before it first receives
  None

(* st has the fields
     slots, head, tail, closed, hasWaker   struct xtc_chan_mpsc
     used                                  slots charged to the xtc_res
     woken                                 a wake the consumer has not consumed
     spc, shead, sent                      a sender: step, loaded head, messages
     cpc, cval                             the consumer: step, loaded slot
     kpc                                   the closer: step
     log, received   history: the messages as reserved, and as returned *)
VARIABLE st

Index(i) == i % Cap
Msg(s) == <<s, st.sent[s] + 1>>

(* Mutant: off by one. *)
FullLate(h, t) == (h - t) % Wrap > Cap

(* Unsigned: a tail newer than the head makes the difference huge. *)
Full(h, t) == (h - t) % Wrap >= Cap

Init ==
  st = [slots |-> [i \in 0 .. Cap - 1 |-> None],
        head |-> 0, tail |-> 0, closed |-> FALSE, hasWaker |-> FALSE,
        used |-> 0, woken |-> FALSE,
        spc |-> [s \in Senders |-> "idle"],
        shead |-> [s \in Senders |-> 0],
        sent |-> [s \in Senders |-> 0],
        cpc |-> IF RegisterFirst THEN "register" ELSE "try", cval |-> None,
        kpc |-> "open", log |-> <<>>, received |-> <<>>]

(* xtc_res_release never takes the count below zero. *)
Less(n) == IF st.used >= n THEN st.used - n ELSE 0

----------------------------------------------------------------------------
(* xtc_chan_mpsc_try_send *)

(* The closed flag is checked once, at the start. *)
SendOpen(s) ==
  /\ st.spc[s] = "idle" /\ st.sent[s] < MaxSends
  /\ ~st.closed
  /\ st' = [st EXCEPT !.spc[s] = "charge"]

(* Charge a slot to the budget, or fail with XTC_E_RESOURCE. *)
SendCharge(s) ==
  /\ st.spc[s] = "charge"
  /\ \/ /\ st.used < SlotCap
        /\ st' = [st EXCEPT !.used = @ + 1, !.spc[s] = "head"]
     \/ /\ st.used >= SlotCap
        /\ st' = [st EXCEPT !.spc[s] = "idle"]

SendHead(s) ==
  /\ st.spc[s] = "head"
  /\ st' = [st EXCEPT !.shead[s] = st.head, !.spc[s] = "tail"]

SendTail(s) ==
  /\ st.spc[s] = "tail"
  /\ st' = [st EXCEPT !.spc[s] = IF Full(st.shead[s], st.tail) THEN "refund" ELSE "cas"]

(* Mutant: the slot stays charged. *)
SendAgainKeeps(s) ==
  /\ st.spc[s] = "refund"
  /\ st' = [st EXCEPT !.spc[s] = "idle"]

(* The channel looked full: give the slot back and return XTC_E_AGAIN. *)
SendAgain(s) ==
  /\ st.spc[s] = "refund"
  /\ st' = [st EXCEPT !.used = Less(1), !.spc[s] = "idle"]

(* Reserve a position, or start over when another sender was faster. *)
SendCas(s) ==
  /\ st.spc[s] = "cas"
  /\ \/ /\ st.head = st.shead[s]
        /\ st' = [st EXCEPT !.head = @ + 1, !.log = Append(@, Msg(s)), !.spc[s] = "store"]
     \/ /\ st.head # st.shead[s]
        /\ st' = [st EXCEPT !.spc[s] = "head"]

(* Publish the message in the reserved slot, ... *)
SendStore(s) ==
  /\ st.spc[s] = "store"
  /\ st' = [st EXCEPT !.slots[Index(st.shead[s])] = Msg(s), !.spc[s] = "wake"]

(* ... and fire the waker if there is one. *)
SendWake(s) ==
  /\ st.spc[s] = "wake"
  /\ st' = [st EXCEPT !.woken = @ \/ st.hasWaker, !.sent[s] = @ + 1, !.spc[s] = "idle"]

----------------------------------------------------------------------------
(* xtc_chan_mpsc_try_recv; XTC_E_AGAIN sends the consumer to "park" *)

RecvLoad ==
  /\ st.cpc = "try"
  /\ st' = [st EXCEPT !.cpc = IF st.tail >= st.head THEN "closed" ELSE "slot"]

(* Empty: XTC_E_INVAL when closed, else XTC_E_AGAIN. *)
RecvEmpty ==
  /\ st.cpc = "closed"
  /\ st' = [st EXCEPT !.cpc = IF st.closed THEN "done" ELSE "park"]

(* Mutant: no test for a slot that is not written yet. *)
RecvSlotBlind ==
  /\ st.cpc = "slot"
  /\ st' = [st EXCEPT !.cval = st.slots[Index(st.tail)], !.cpc = "clear"]

(* A reserved slot that is not written yet is XTC_E_AGAIN too. *)
RecvSlot ==
  /\ st.cpc = "slot"
  /\ LET v == st.slots[Index(st.tail)]
     IN  st' = [st EXCEPT !.cval = v, !.cpc = IF v = None THEN "park" ELSE "clear"]

RecvClear ==
  /\ st.cpc = "clear"
  /\ st' = [st EXCEPT !.slots[Index(st.tail)] = None, !.cpc = "tail"]

RecvTail ==
  /\ st.cpc = "tail"
  /\ st' = [st EXCEPT !.tail = @ + 1, !.cpc = "release"]

RecvRelease ==
  /\ st.cpc = "release"
  /\ st' = [st EXCEPT !.used = Less(1), !.received = Append(@, st.cval),
                      !.cval = None, !.cpc = "try"]

(* xtc_chan_mpsc_set_waker: the flag first, ... *)
SetWaker ==
  /\ st.cpc = "register" \/ (st.cpc = "park" /\ ~st.hasWaker)
  /\ st' = [st EXCEPT !.hasWaker = TRUE, !.cpc = "arm"]

(* Mutant: a message that is already there does not count. *)
SetWakerBlind ==
  /\ st.cpc = "arm"
  /\ st' = [st EXCEPT !.cpc = IF RegisterFirst THEN "try" ELSE "park"]

(* ... then fire at once if anything was sent before. *)
SetWakerCheck ==
  /\ st.cpc = "arm"
  /\ st' = [st EXCEPT !.woken = @ \/ st.head > st.tail,
                      !.cpc = IF RegisterFirst THEN "try" ELSE "park"]

(* The consumer's task returned PENDING and its waker fires. *)
Resume ==
  /\ st.cpc = "park" /\ st.hasWaker /\ st.woken
  /\ st' = [st EXCEPT !.woken = FALSE, !.cpc = "try"]

(* xtc_chan_mpsc_close: the flag, then the waker. *)
CloseStore ==
  /\ MayClose /\ st.kpc = "open"
  /\ st' = [st EXCEPT !.closed = TRUE, !.kpc = "wake"]

CloseWake ==
  /\ st.kpc = "wake"
  /\ st' = [st EXCEPT !.woken = @ \/ st.hasWaker, !.kpc = "closed"]

(* xtc_chan_mpsc_destroy, when no call is in progress: what is still buffered is
   given back to the budget. *)
Destroy ==
  /\ st.kpc = "closed" /\ st.cpc = "done"
  /\ \A s \in Senders : st.spc[s] = "idle"
  /\ st' = [st EXCEPT !.used = Less(st.head - st.tail), !.kpc = "destroyed"]

----------------------------------------------------------------------------
SendStep(s) ==
  \/ SendCharge(s) \/ SendHead(s) \/ SendTail(s) \/ SendAgain(s)
  \/ SendCas(s) \/ SendStore(s) \/ SendWake(s)

RecvStep ==
  \/ RecvLoad \/ RecvEmpty \/ RecvSlot \/ RecvClear \/ RecvTail \/ RecvRelease
  \/ SetWaker \/ SetWakerCheck \/ Resume

Next ==
  \/ \E s \in Senders : SendOpen(s) \/ SendStep(s)
  \/ RecvStep
  \/ CloseStore \/ CloseWake \/ Destroy

----------------------------------------------------------------------------
(* Properties *)

TypeOK ==
  LET M == (Senders \X Nat) \cup {None} IN
  st \in [slots : [0 .. Cap - 1 -> M], head : Nat, tail : Nat,
          closed : BOOLEAN, hasWaker : BOOLEAN, used : Nat, woken : BOOLEAN,
          spc : [Senders -> {"idle", "charge", "head", "tail", "refund", "cas",
                             "store", "wake"}],
          shead : [Senders -> Nat], sent : [Senders -> Nat],
          cpc : {"register", "arm", "try", "closed", "slot", "clear", "tail",
                 "release", "park", "done"},
          cval : M, kpc : {"open", "wake", "closed", "destroyed"},
          log : Seq(Senders \X Nat), received : Seq(Senders \X Nat)]

(* What try_recv has returned is what was reserved, in that order: no message is
   lost in the ring, overwritten, returned twice or overtaken, although slots are
   reused and written out of order. *)
RecvInOrder == st.received = SubSeq(st.log, 1, Len(st.received))

(* The budget counts exactly the reserved slots and the callers in between; the
   messages left behind in a destroyed channel are given back. *)
SlotsCharged ==
  st.used = IF st.kpc = "destroyed" THEN 0
            ELSE (st.head - st.tail)
                 + Cardinality({s \in Senders :
                                  st.spc[s] \in {"head", "tail", "cas", "refund"}})
                 + (IF st.cpc = "release" THEN 1 ELSE 0)

=============================================================================
