----------------------------- MODULE ChanQueues -----------------------------
(***************************************************************************)
(* The channels of ptc/chan.c that keep a ring under a mutex, and the      *)
(* accountant they charge.                                                 *)
(*                                                                         *)
(* The multi-producer multi-consumer channel: the slot budget is charged   *)
(* before the lock is taken and given back after it is released, so a call *)
(* is two or three steps: the budget, the critical section, the budget.    *)
(* The k-th message sent is k.                                             *)
(*                                                                         *)
(* The demand-driven channel, whose producer may send only what the        *)
(* consumer asked for: the wakers fire after the lock is released.  The    *)
(* producer is a task that sends until XTC_E_AGAIN and then registers its  *)
(* waker and parks; the consumer asks for AskUnits whenever it has         *)
(* received all it asked for, receives until XTC_E_AGAIN, registers its    *)
(* waker and parks.  As in Sched, a wake of a running task is remembered.  *)
(*                                                                         *)
(* The resource accountant of ptc/res.c, one kind of it: a counter that    *)
(* many threads charge (xtc_res_acquire) and give back (xtc_res_release)   *)
(* without a lock, a cap it must not pass, a high-water mark, and an alert *)
(* that fires when the counter reaches a threshold and is armed again when *)
(* it drops below it.  One action is one atomic access.  The caps and the  *)
(* alert are configured before the threads start.                          *)
(***************************************************************************)
EXTENDS Integers, Sequences, FiniteSets
LOCAL INSTANCE FiniteSetsExt

CONSTANTS
  Threads,        \* of the MPMC channel: each may send and receive
  Cap,            \* capacity of a channel, not rounded
  SlotCap,        \* cap of XTC_RES_CHAN_SLOTS
  MaxSends,       \* bound: try_send calls of all threads
  AskUnits,       \* units of one xtc_chan_demand_ask
  MaxAsks,        \* bound: calls of xtc_chan_demand_ask
  MayClose,       \* whether someone closes and destroys the demand channel
  Clients,        \* of the accountant, whose cap is Cap, 0 for none
  Threshold,      \* (int64_t)(alert_pct * cap)
  IntMax,         \* INT64_MAX
  MaxUnits,       \* bound: units of one acquire
  MaxCalls        \* bound: acquires of one client

(* st has the fields, of
   the MPMC channel
     slots, head, tail, n, closed   struct xtc_chan_mpmc
     used                           slots charged to the xtc_res
     pc                             a thread: step
     destroyed
     sent, received, calls          history: messages sent, received in order; calls
   the demand channel
     slots, head, tail, n, demand, closed,
     hasProd, hasCons              struct xtc_chan_demand
     used                          slots charged to the xtc_res
     ppc, pwoken, cpc, cwoken      producer and consumer: step, remembered wake
     kpc                           the closer
     asks, sent, received          history: calls of ask, items sent, received
   the accountant
     used, high, rejects, armed    xtc_res_t
     pc, units, cur                a client: step, argument n, loaded value
     held, calls                   units a client has been granted, its calls *)
VARIABLE st

----------------------------------------------------------------------------
(* MPMC *)

MpmcInit ==
  st = [slots |-> [i \in 0 .. Cap - 1 |-> 0], head |-> 0, tail |-> 0, n |-> 0,
        closed |-> FALSE, used |-> 0, pc |-> [t \in Threads |-> "idle"],
        destroyed |-> FALSE, sent |-> 0, received |-> <<>>, calls |-> 0]

(* xtc_res_release never takes the count below zero. *)
Less(k) == IF st.used > k THEN st.used - k ELSE 0

----------------------------------------------------------------------------
(* xtc_chan_mpmc_try_send: charge a slot, or fail with XTC_E_RESOURCE, ... *)
SendCharge(t) ==
  /\ st.pc[t] = "idle" /\ ~st.destroyed
  /\ st.calls < MaxSends
  /\ \/ /\ st.used < SlotCap
        /\ st' = [st EXCEPT !.calls = @ + 1, !.used = @ + 1, !.pc[t] = "send"]
     \/ /\ st.used >= SlotCap
        /\ st' = [st EXCEPT !.calls = @ + 1]

Full == st.n >= Cap

(* ... put the message in under the lock, unless closed or full, ... *)
SendLocked(t) ==
  /\ st.pc[t] = "send"
  /\ \/ /\ ~st.closed /\ ~Full
        /\ st' = [st EXCEPT !.slots[st.head] = st.sent + 1, !.sent = @ + 1,
                            !.head = (@ + 1) % Cap, !.n = @ + 1, !.pc[t] = "idle"]
     \/ /\ st.closed \/ Full
        /\ st' = [st EXCEPT !.pc[t] = "refund"]

(* ... and give the slot back if it was not used. *)
SendRefund(t) ==
  /\ st.pc[t] = "refund"
  /\ st' = [st EXCEPT !.used = Less(1), !.pc[t] = "idle"]

(* xtc_chan_mpmc_try_recv: take the oldest message, ... *)
RecvLocked(t) ==
  /\ st.pc[t] = "idle" /\ ~st.destroyed
  /\ st.n > 0
  /\ st' = [st EXCEPT !.received = Append(@, st.slots[st.tail]),
                      !.tail = (@ + 1) % Cap, !.n = @ - 1, !.pc[t] = "release"]

(* ... and give its slot back. *)
RecvRelease(t) ==
  /\ st.pc[t] = "release"
  /\ st' = [st EXCEPT !.used = Less(1), !.pc[t] = "idle"]

MpmcClose ==
  /\ ~st.closed
  /\ st' = [st EXCEPT !.closed = TRUE]

(* xtc_chan_mpmc_destroy, when no call is in progress. *)
MpmcDestroy ==
  /\ ~st.destroyed
  /\ \A t \in Threads : st.pc[t] = "idle"
  /\ st' = [st EXCEPT !.used = Less(st.n), !.destroyed = TRUE]

MpmcNext ==
  \/ \E t \in Threads : \/ SendCharge(t) \/ SendLocked(t) \/ SendRefund(t)
                        \/ RecvLocked(t) \/ RecvRelease(t)
  \/ MpmcClose \/ MpmcDestroy

----------------------------------------------------------------------------
(* Properties *)

MpmcTypeOK ==
  st \in [slots : [0 .. Cap - 1 -> Nat], head : 0 .. Cap - 1, tail : 0 .. Cap - 1,
          n : 0 .. Cap, closed : BOOLEAN, used : Nat,
          pc : [Threads -> {"idle", "send", "refund", "release"}],
          destroyed : BOOLEAN, sent : Nat, received : Seq(Nat), calls : Nat]

(* Across all consumers every message is received once and in the order of the
   sends, and what is not received yet is in the ring. *)
DeliveredOnce ==
  st.received \o [i \in 1 .. st.n |-> st.slots[(st.tail + i - 1) % Cap]]
    = [i \in 1 .. st.sent |-> i]

(* The budget counts what is buffered and the callers before or after the lock, and
   nothing once the channel is destroyed. *)
SlotsBalanced ==
  st.used = (IF st.destroyed THEN 0 ELSE st.n)
            + Cardinality({t \in Threads : st.pc[t] # "idle"})

----------------------------------------------------------------------------
(* Demand *)

DemandInit ==
  st = [slots |-> [i \in 0 .. Cap - 1 |-> 0], head |-> 0, tail |-> 0, n |-> 0,
        demand |-> 0, closed |-> FALSE, hasProd |-> FALSE, hasCons |-> FALSE,
        used |-> 0, ppc |-> "send", pwoken |-> FALSE, cpc |-> "ask", cwoken |-> FALSE,
        kpc |-> "open", asks |-> 0, sent |-> 0, received |-> <<>>]

----------------------------------------------------------------------------
(* xtc_chan_demand_send *)

(* Mutant: only the buffer is checked. *)
MaySendFull == st.n < Cap

MaySend == st.demand > 0 /\ st.n < Cap

Send ==
  /\ st.ppc = "send"
  /\ ~st.closed /\ MaySend /\ st.used < SlotCap
  /\ st' = [st EXCEPT !.used = @ + 1, !.slots[st.tail] = st.sent + 1,
                      !.tail = (@ + 1) % Cap, !.n = @ + 1,
                      !.demand = IF @ > 0 THEN @ - 1 ELSE 0,
                      !.sent = @ + 1, !.ppc = "wake"]

(* XTC_E_INVAL ends the producer; XTC_E_AGAIN and XTC_E_RESOURCE make it wait. *)
SendFails ==
  /\ st.ppc = "send"
  /\ st.closed \/ ~MaySend \/ st.used >= SlotCap
  /\ st' = [st EXCEPT !.ppc = IF st.closed THEN "done" ELSE "register"]

SendWake ==
  /\ st.ppc = "wake"
  /\ st' = [st EXCEPT !.cwoken = @ \/ st.hasCons, !.ppc = "send"]

(* xtc_chan_demand_set_producer_waker: demand that is already there wakes at once. *)
SetProducerWaker ==
  /\ st.ppc = "register"
  /\ st' = [st EXCEPT !.hasProd = TRUE, !.pwoken = @ \/ st.demand > 0, !.ppc = "park"]

ProducerResumes ==
  /\ st.ppc = "park" /\ st.pwoken
  /\ st' = [st EXCEPT !.pwoken = FALSE, !.ppc = "send"]

----------------------------------------------------------------------------
(* xtc_chan_demand_ask *)
Ask ==
  /\ st.cpc = "ask" /\ st.asks < MaxAsks
  /\ \/ /\ ~st.closed
        /\ st' = [st EXCEPT !.demand = @ + AskUnits, !.asks = @ + 1, !.cpc = "wake"]
     \/ /\ st.closed
        /\ st' = [st EXCEPT !.cpc = "recv"]

AskWake ==
  /\ st.cpc = "wake"
  /\ st' = [st EXCEPT !.pwoken = @ \/ st.hasProd, !.cpc = "recv"]

AfterHead == (st.head + 1) % Cap

(* xtc_chan_demand_try_recv *)
Recv ==
  /\ st.cpc = "recv"
  /\ st.n > 0
  /\ LET got == Append(st.received, st.slots[st.head])
     IN  st' = [st EXCEPT !.received = got, !.head = AfterHead, !.n = @ - 1,
                          !.used = IF @ > 1 THEN @ - 1 ELSE 0,
                          !.cpc = IF Len(got) = st.asks * AskUnits /\ st.asks < MaxAsks
                                  THEN "ask" ELSE "recv"]

RecvFails ==
  /\ st.cpc = "recv"
  /\ st.n = 0
  /\ st' = [st EXCEPT !.cpc = IF st.closed THEN "done" ELSE "register"]

(* xtc_chan_demand_set_consumer_waker *)
SetConsumerWaker ==
  /\ st.cpc = "register"
  /\ st' = [st EXCEPT !.hasCons = TRUE, !.cwoken = @ \/ st.n > 0, !.cpc = "park"]

ConsumerResumes ==
  /\ st.cpc = "park" /\ st.cwoken
  /\ st' = [st EXCEPT !.cwoken = FALSE, !.cpc = "recv"]

----------------------------------------------------------------------------
(* xtc_chan_demand_close wakes the consumer only. *)
DemandClose ==
  /\ MayClose /\ st.kpc = "open"
  /\ st' = [st EXCEPT !.closed = TRUE, !.kpc = "wake"]

CloseWake ==
  /\ st.kpc = "wake"
  /\ st' = [st EXCEPT !.cwoken = @ \/ st.hasCons, !.kpc = "closed"]

(* xtc_chan_demand_destroy, when neither task is inside a call: the slots of items
   that were not received stay charged. *)
DemandDestroy ==
  /\ st.kpc = "closed"
  /\ st.ppc \in {"send", "park", "done"}
  /\ st.cpc \in {"ask", "recv", "park", "done"}
  /\ st' = [st EXCEPT !.kpc = "destroyed", !.ppc = "done", !.cpc = "done"]

Producer == Send \/ SendFails \/ SendWake \/ SetProducerWaker \/ ProducerResumes
Consumer ==
  Ask \/ AskWake \/ Recv \/ RecvFails \/ SetConsumerWaker \/ ConsumerResumes

DemandNext == Producer \/ Consumer \/ DemandClose \/ CloseWake \/ DemandDestroy

----------------------------------------------------------------------------
(* Properties *)

DemandTypeOK ==
  st \in [slots : [0 .. Cap - 1 -> Nat], head : 0 .. Cap - 1, tail : 0 .. Cap - 1,
          n : 0 .. Cap, demand : Nat, closed : BOOLEAN, hasProd : BOOLEAN, hasCons : BOOLEAN,
          used : 0 .. SlotCap, ppc : {"send", "wake", "register", "park", "done"},
          pwoken : BOOLEAN, cpc : {"ask", "wake", "recv", "register", "park", "done"},
          cwoken : BOOLEAN, kpc : {"open", "wake", "closed", "destroyed"},
          asks : 0 .. MaxAsks, sent : Nat, received : Seq(Nat)]

(* The demand channel has charged a slot for every item that was sent and not received.
   Its destroy gives none back, so the slots of what was still buffered stay charged. *)
DemandSlotsCharged == st.used = st.sent - Len(st.received)

(* A fast producer cannot outrun the consumer: what was sent and what may still be
   sent is what was asked for. *)
DemandConserved == st.sent + st.demand = st.asks * AskUnits

(* Items come out once and in order, and the rest is in the ring. *)
ItemsInOrder ==
  st.received \o [i \in 1 .. st.n |-> st.slots[(st.head + i - 1) % Cap]]
    = [i \in 1 .. st.sent |-> i]

(* xtc_chan.h: after close "buffered items still drain": a consumer that is told
   XTC_E_INVAL has received everything that was sent. *)
ClosedDrains ==
  st.cpc = "done" /\ st.kpc # "destroyed" => Len(st.received) = st.sent

----------------------------------------------------------------------------
(* The accountant. *)

ResInit ==
  LET Zero == [c \in Clients |-> 0] IN
  st = [used |-> 0, high |-> 0, rejects |-> 0, armed |-> 1,
        pc |-> [c \in Clients |-> "idle"], units |-> Zero, cur |-> Zero,
        held |-> Zero, calls |-> Zero]

(* Signed addition as the machine does it. *)
Plus(a, b) == ((a + b + IntMax + 1) % (2 * (IntMax + 1))) - (IntMax + 1)

(* The headroom test comes before the addition, which could overflow. *)
Refused(u, n) ==
  \/ u > 0 /\ n > IntMax - u
  \/ Cap > 0 /\ Plus(u, n) > Cap

Sum(c) == Plus(st.cur[c], st.units[c])

----------------------------------------------------------------------------
(* xtc_res_acquire *)

Call(c) ==
  /\ st.pc[c] = "idle"
  /\ st.calls[c] < MaxCalls
  /\ \E n \in 1 .. MaxUnits :
       st' = [st EXCEPT !.units[c] = n, !.calls[c] = @ + 1, !.pc[c] = "load"]

AcquireLoad(c) ==
  /\ st.pc[c] = "load"
  /\ \/ /\ Refused(st.used, st.units[c])
        /\ st' = [st EXCEPT !.cur[c] = st.used, !.rejects = @ + 1, !.pc[c] = "idle"]
     \/ /\ ~Refused(st.used, st.units[c])
        /\ st' = [st EXCEPT !.cur[c] = st.used, !.pc[c] = "cas"]

AcquireCas(c) ==
  /\ st.pc[c] = "cas"
  /\ \/ /\ st.used = st.cur[c]
        /\ st' = [st EXCEPT !.used = Sum(c), !.held[c] = @ + st.units[c], !.pc[c] = "high"]
     \/ /\ st.used # st.cur[c]
        /\ st' = [st EXCEPT !.pc[c] = "load"]

(* Raise the high-water mark with one attempt: a lost race is not repeated.  The
   load and the compare-and-swap are one action, since a mark that changed in
   between only makes the attempt fail. *)
AcquireHigh(c) ==
  /\ st.pc[c] = "high"
  /\ \E h \in IF Sum(c) > st.high THEN {st.high, Sum(c)} ELSE {st.high} :
       st' = [st EXCEPT !.high = h, !.pc[c] = IF Threshold > 0 /\ Sum(c) >= Threshold
                                              THEN "alert" ELSE "idle"]

(* Only the caller that disarms the alert calls alert_fn. *)
AcquireAlert(c) ==
  /\ st.pc[c] = "alert"
  /\ st' = [st EXCEPT !.armed = 0, !.pc[c] = "idle"]

----------------------------------------------------------------------------
(* xtc_res_release *)

ReleaseLoad(c) ==
  /\ st.pc[c] = "idle"
  /\ \E n \in 1 .. st.held[c] :
       st' = [st EXCEPT !.units[c] = n, !.cur[c] = st.used, !.pc[c] = "rcas"]

(* Subtract with a floor of zero; a failed compare-and-swap reloads. *)
ReleaseCas(c) ==
  /\ st.pc[c] = "rcas"
  /\ \/ /\ st.used = st.cur[c]
        /\ st' = [st EXCEPT !.used = IF @ > st.units[c] THEN @ - st.units[c] ELSE 0,
                            !.held[c] = @ - st.units[c],
                            !.pc[c] = IF Threshold > 0 THEN "rearm" ELSE "idle"]
     \/ /\ st.used # st.cur[c]
        /\ st' = [st EXCEPT !.cur[c] = st.used]

(* Read the counter again ... *)
RearmLoad(c) ==
  /\ st.pc[c] = "rearm"
  /\ st' = [st EXCEPT !.pc[c] = IF st.used < Threshold THEN "rstore" ELSE "idle"]

(* ... and arm the alert if it was below the threshold. *)
RearmStore(c) ==
  /\ st.pc[c] = "rstore"
  /\ st' = [st EXCEPT !.armed = 1, !.pc[c] = "idle"]

----------------------------------------------------------------------------
ResNext ==
  \E c \in Clients :
    \/ Call(c) \/ AcquireLoad(c) \/ AcquireCas(c) \/ AcquireHigh(c) \/ AcquireAlert(c)
    \/ ReleaseLoad(c) \/ ReleaseCas(c) \/ RearmLoad(c) \/ RearmStore(c)

----------------------------------------------------------------------------
(* Properties *)

ResTypeOK ==
  LET Words == 0 .. IntMax IN
  st \in [used : Words, high : Words, rejects : Nat, armed : {0, 1},
          pc : [Clients -> {"idle", "load", "cas", "high", "alert", "rcas", "rearm",
                            "rstore"}],
          units : [Clients -> Words], cur : [Clients -> Words],
          held : [Clients -> Words], calls : [Clients -> Nat]]

(* xtc_res_acquire never takes the counter past the cap, whatever the interleaving
   and however large the request. *)
UsedWithinCap == Cap > 0 => st.used <= Cap

(* Nothing is lost or counted twice: the counter is what the clients hold. *)
UsedIsHeld == st.used = MapThenSumSet(LAMBDA c : st.held[c], Clients)

=============================================================================
