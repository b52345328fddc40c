---------------------------- MODULE ChanSlots ----------------------------
(***************************************************************************)
(* The channels of ptc/chan.c that keep no queue.                          *)
(*                                                                         *)
(* The oneshot channel: the first send wins, a second one fails, and the   *)
(* receiver's waker fires.  A sender sends its own name.  The receiver     *)
(* polls first or follows the pattern of xtc_chan.h: register the waker,   *)
(* return PENDING, and receive when the waker fires.                       *)
(*                                                                         *)
(* The watch channel: one slot, the latest value wins.  A value is its     *)
(* number in the order of the stores.                                      *)
(*                                                                         *)
(* The broadcast channel: a ring that senders overwrite, and a cursor per  *)
(* subscriber that skips what was overwritten and counts it.  Every        *)
(* operation is one critical section of the channel's mutex.  The message  *)
(* with sequence number q is q itself.                                     *)
(*                                                                         *)
(* Of the first two one action is one atomic access.                       *)
(***************************************************************************)
EXTENDS Integers

CONSTANTS
  Senders, Receivers,
  None,           \* NULL, the initial value of the oneshot slot
  Cap,            \* slots of the broadcast ring
  IntMax,         \* INT_MAX
  MaxValues       \* bound: values sent

(* st has the fields, of
   the oneshot channel
     state, value, hasWaker   struct xtc_chan_oneshot
     spc                      a sender: step
     winner                   history: the sender whose send succeeds
     rpc, got                 the receiver: step, what it received
     woken                    the waker has fired
   the watch channel
     value, hasValue   struct xtc_chan_watch; 0 is NULL
     spc, sval         a sender: step, the value it stored
     rpc, got          a receiver: step, the last value received
     done              history: the newest value whose send has returned
     since             history: done when the receiver's call began
   the broadcast channel
     slots, pos           struct xtc_chan_broadcast
     subscribed, cursor   struct xtc_chan_broadcast_recv
     got                  a receiver: message of the last recv
     first                history: sequence number at the subscription
     nrecv, nlost         history: messages received, and reported as lagged
     exact                history: every lag reported so far fitted an int *)
VARIABLE st

----------------------------------------------------------------------------
(* Oneshot *)

OneshotInit ==
  \E start \in {"register", "poll"} :
    st = [state |-> 0, value |-> None, hasWaker |-> FALSE,
          spc |-> [s \in Senders |-> "start"], winner |-> None,
          rpc |-> start, got |-> None, woken |-> FALSE]

----------------------------------------------------------------------------
(* xtc_chan_oneshot_send *)

(* The state goes from empty to written; a second send is XTC_E_INVAL. *)
OneshotSendClaim(s) ==
  /\ st.spc[s] = "start"
  /\ \/ /\ st.state = 0
        /\ st' = [st EXCEPT !.state = 1, !.winner = s, !.spc[s] = "store"]
     \/ /\ st.state # 0
        /\ st' = [st EXCEPT !.spc[s] = "inval"]

(* Only then is the value stored ... *)
OneshotSendStore(s) ==
  /\ st.spc[s] = "store"
  /\ st' = [st EXCEPT !.value = s, !.spc[s] = "wake"]

(* ... and the waker fired. *)
OneshotSendWake(s) ==
  /\ st.spc[s] = "wake"
  /\ st' = [st EXCEPT !.woken = @ \/ st.hasWaker, !.spc[s] = "ok"]

(* xtc_chan_oneshot_set_waker: the flag ... *)
SetWaker ==
  /\ st.rpc = "register"
  /\ st' = [st EXCEPT !.hasWaker = TRUE, !.rpc = "check"]

(* ... and a wake at once when a message is there. *)
SetWakerCheck ==
  /\ st.rpc = "check"
  /\ st' = [st EXCEPT !.woken = @ \/ st.state = 1, !.rpc = "park"]

(* The receiver's task parked, and its waker fires. *)
Resume ==
  /\ st.rpc = "park" /\ st.woken
  /\ st' = [st EXCEPT !.woken = FALSE, !.rpc = "try"]

(* xtc_chan_oneshot_try_recv: the state, then the value. *)
OneshotRecvState ==
  /\ st.rpc \in {"poll", "try"}
  /\ st' = [st EXCEPT !.rpc = CASE st.state = 1 -> "value"
                                [] st.state # 1 /\ @ = "poll" -> "register"
                                [] st.state # 1 /\ @ = "try" -> "park"]

OneshotRecvValue ==
  /\ st.rpc = "value"
  /\ st' = [st EXCEPT !.got = st.value, !.rpc = "ok"]

----------------------------------------------------------------------------
OneshotSendStep(s) == OneshotSendStore(s) \/ OneshotSendWake(s)
OneshotRecvStep == SetWaker \/ SetWakerCheck \/ Resume \/ OneshotRecvState \/ OneshotRecvValue

OneshotNext == OneshotRecvStep \/ \E s \in Senders : OneshotSendClaim(s) \/ OneshotSendStep(s)

----------------------------------------------------------------------------
OneshotTypeOK ==
  st \in [state : {0, 1}, value : Senders \cup {None}, hasWaker : BOOLEAN,
          spc : [Senders -> {"start", "store", "wake", "ok", "inval"}],
          winner : Senders \cup {None},
          rpc : {"register", "check", "park", "poll", "try", "value", "ok"},
          got : Senders \cup {None}, woken : BOOLEAN]

(* Of the racing sends one succeeds, and no other sender's value is ever in the
   slot, so whoever receives a value receives that one's. *)
OneMessage ==
  /\ \A s, t \in Senders : st.spc[s] = "ok" /\ st.spc[t] = "ok" => s = t
  /\ st.value \in {None, st.winner}

(* xtc_chan.h: try_recv "Returns XTC_E_AGAIN if nothing yet", so XTC_OK comes with
   the message. *)
OkHasMessage == st.rpc = "ok" => st.got = st.winner

----------------------------------------------------------------------------
(* Watch *)

WatchInit ==
  st = [value |-> 0, hasValue |-> FALSE,
        spc |-> [s \in Senders |-> "idle"], sval |-> [s \in Senders |-> 0],
        rpc |-> [r \in Receivers |-> "idle"], got |-> [r \in Receivers |-> 0],
        done |-> 0, since |-> [r \in Receivers |-> 0]]

(* xtc_chan_watch_send: the value ... *)
WatchSendStore(s) ==
  /\ st.spc[s] = "idle"
  /\ st.value < MaxValues
  /\ st' = [st EXCEPT !.value = @ + 1, !.sval[s] = st.value + 1, !.spc[s] = "flag"]

(* ... then the flag. *)
WatchSendFlag(s) ==
  /\ st.spc[s] = "flag"
  /\ st' = [st EXCEPT !.hasValue = TRUE, !.spc[s] = "idle",
                      !.done = IF st.sval[s] > @ THEN st.sval[s] ELSE @]

(* xtc_chan_watch_recv: the flag (XTC_E_AGAIN without it) ... *)
WatchRecvFlag(r) ==
  /\ st.rpc[r] \in {"idle", "ok"}
  /\ st.hasValue
  /\ st' = [st EXCEPT !.since[r] = st.done, !.rpc[r] = "value"]

(* ... then the value. *)
WatchRecvValue(r) ==
  /\ st.rpc[r] = "value"
  /\ st' = [st EXCEPT !.got[r] = st.value, !.rpc[r] = "ok"]

WatchNext ==
  \/ \E s \in Senders : WatchSendStore(s) \/ WatchSendFlag(s)
  \/ \E r \in Receivers : WatchRecvFlag(r) \/ WatchRecvValue(r)

WatchTypeOK ==
  LET Values == 0 .. MaxValues IN
  st \in [value : Values, hasValue : BOOLEAN, spc : [Senders -> {"idle", "flag"}],
          sval : [Senders -> Values], rpc : [Receivers -> {"idle", "value", "ok"}],
          got : [Receivers -> Values], done : Values, since : [Receivers -> Values]]

(* A receive that succeeds returns a value that was sent, no older than the newest
   one whose send had returned when the receive began. *)
RecvIsFresh ==
  \A r \in Receivers : st.rpc[r] = "ok" => st.got[r] >= 1 /\ st.got[r] >= st.since[r]

----------------------------------------------------------------------------
(* Broadcast *)

Unset == MaxValues + 1

BroadcastInit ==
  st = [slots |-> [i \in 0 .. Cap - 1 |-> Unset], pos |-> 0,
        subscribed |-> {}, cursor |-> [r \in Receivers |-> 0],
        got |-> [r \in Receivers |-> Unset], first |-> [r \in Receivers |-> 0],
        nrecv |-> [r \in Receivers |-> 0], nlost |-> [r \in Receivers |-> 0],
        exact |-> [r \in Receivers |-> TRUE]]

(* xtc_chan_broadcast_send overwrites the oldest slot. *)
BroadcastSend ==
  /\ st.pos < MaxValues
  /\ st' = [st EXCEPT !.slots[st.pos % Cap] = st.pos, !.pos = @ + 1]

(* xtc_chan_broadcast_subscribe: the cursor starts at the next message. *)
Subscribe(r) ==
  /\ r \notin st.subscribed
  /\ st' = [st EXCEPT !.subscribed = @ \cup {r}, !.cursor[r] = st.pos, !.first[r] = st.pos,
                      !.got[r] = Unset, !.nrecv[r] = 0, !.nlost[r] = 0, !.exact[r] = TRUE]

Unsubscribe(r) ==
  /\ r \in st.subscribed
  /\ st' = [st EXCEPT !.subscribed = @ \ {r}]

(* Where recv reads: the cursor, or the oldest slot that was not overwritten. *)
OldestReadable(r) ==
  IF st.pos - st.cursor[r] > Cap THEN st.pos - Cap ELSE st.cursor[r]

(* (int) of a 64-bit count keeps its low bits. *)
ToInt(x) == ((x + IntMax + 1) % (2 * (IntMax + 1))) - (IntMax + 1)

(* xtc_chan_broadcast_recv; XTC_E_AGAIN changes nothing. *)
BroadcastRecv(r) ==
  /\ r \in st.subscribed
  /\ st.cursor[r] < st.pos
  /\ LET at == OldestReadable(r)
     IN  st' = [st EXCEPT !.got[r] = st.slots[at % Cap], !.nrecv[r] = @ + 1,
                          !.nlost[r] = @ + ToInt(at - st.cursor[r]),
                          !.exact[r] = @ /\ at - st.cursor[r] <= IntMax,
                          !.cursor[r] = at + 1]

BroadcastNext == BroadcastSend \/ \E r \in Receivers : Subscribe(r) \/ Unsubscribe(r) \/ BroadcastRecv(r)

----------------------------------------------------------------------------
BroadcastTypeOK ==
  LET Seqs == 0 .. Unset IN
  st \in [slots : [0 .. Cap - 1 -> Seqs], pos : 0 .. MaxValues, subscribed : SUBSET Receivers,
          cursor : [Receivers -> Seqs], got : [Receivers -> Seqs], first : [Receivers -> Seqs],
          nrecv : [Receivers -> Seqs], nlost : [Receivers -> - Unset .. Unset],
          exact : [Receivers -> BOOLEAN]]

(* A subscriber gets exactly the message its cursor stood for, although the slot may
   have been overwritten since it last looked, and it is told of every message it
   missed: what it received and what it was told it lost add up to what was sent.  Once
   more than INT_MAX messages are lost at a time the reported lag is another number, and
   the sum says nothing; the message is still the right one. *)
EveryMessageCounted ==
  \A r \in st.subscribed :
    /\ st.exact[r] => st.cursor[r] = st.first[r] + st.nrecv[r] + st.nlost[r]
    /\ st.nrecv[r] > 0 => st.got[r] = st.cursor[r] - 1
=============================================================================
