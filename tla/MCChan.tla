------------------------------- MODULE MCChan -------------------------------
(***************************************************************************)
(* The channels of ptc/chan.c and the accountant they charge, for TLC.     *)
(* The components share no state, so a behaviour runs one of them: `scene` *)
(* names it and `st` is its state.  A component appears in several scenes  *)
(* when its users differ.                                                  *)
(***************************************************************************)
EXTENDS Integers, Sequences

CONSTANTS s1, s2, s3, r1, r2, None, Scenes

VARIABLES scene, st
vars == <<scene, st>>

(* A ring of two that wraps, filled by two senders, closed and destroyed. *)
Ring == INSTANCE ChanMpsc WITH Senders <- {s1, s2}, Cap <- 2, Wrap <- 64, SlotCap <- 3,
          MaxSends <- 2, MayClose <- TRUE, RegisterFirst <- TRUE
(* A ring of one whose consumer registers its waker only after XTC_E_AGAIN. *)
Late == INSTANCE ChanMpsc WITH Senders <- {s1, s2}, Cap <- 1, Wrap <- 64, SlotCap <- 4,
          MaxSends <- 2, MayClose <- FALSE, RegisterFirst <- FALSE
(* A consumer that registered its waker beforehand, and a close. *)
Shut == INSTANCE ChanMpsc WITH Senders <- {s1, s2}, Cap <- 1, Wrap <- 64, SlotCap <- 4,
          MaxSends <- 1, MayClose <- TRUE, RegisterFirst <- TRUE
Mpmc == INSTANCE ChanQueues WITH Threads <- {s1, s2, s3}, Cap <- 3, SlotCap <- 4,
          MaxSends <- 7, AskUnits <- 1, MaxAsks <- 1, MayClose <- TRUE,
          Clients <- {}, Threshold <- 0, IntMax <- 0, MaxUnits <- 0, MaxCalls <- 0
Oneshot == INSTANCE ChanSlots WITH Senders <- {s1, s2, s3}, Receivers <- {r1}, Cap <- 1,
             IntMax <- 0, MaxValues <- 1
Watch == INSTANCE ChanSlots WITH Cap <- 1, Senders <- {s1, s2}, Receivers <- {r1, r2},
          IntMax <- 0, MaxValues <- 3
(* Lags up to 4, of which an int holds 2. *)
Broadcast == INSTANCE ChanSlots WITH Senders <- {s1}, Receivers <- {r1, r2}, Cap <- 2,
               IntMax <- 2, MaxValues <- 6
(* A consumer that asks for more than the buffer holds; with and without a close. *)
Demand == INSTANCE ChanQueues WITH Threads <- {}, MaxSends <- 1, Cap <- 2, SlotCap <- 3, AskUnits <- 3, MaxAsks <- 3,
          MayClose <- FALSE,
          Clients <- {}, Threshold <- 0, IntMax <- 0, MaxUnits <- 0, MaxCalls <- 0
DemandShut == INSTANCE ChanQueues WITH Threads <- {}, MaxSends <- 1, Cap <- 2, SlotCap <- 3, AskUnits <- 3, MaxAsks <- 2,
          MayClose <- TRUE,
          Clients <- {}, Threshold <- 0, IntMax <- 0, MaxUnits <- 0, MaxCalls <- 0
(* Requests near the largest integer. *)
Counter == INSTANCE ChanQueues WITH Clients <- {s1, s2}, Cap <- 2, Threshold <- 1, IntMax <- 3,
          MaxUnits <- 3, MaxCalls <- 2,
          Threads <- {}, SlotCap <- 0, MaxSends <- 0, AskUnits <- 0, MaxAsks <- 0, MayClose <- FALSE

(* The batching engine: the step engine with its owner's calls; the offloading engine with
   its owner; the same with a producer; and two producers against a close. *)
Bat == INSTANCE Batch WITH Capacity <- 2, MaxActive <- 1, ResourceCapacity <- 2,
          Charges <- <<1, 2, 1>>, MaxHandle <- 3, Async <- FALSE, Kinds <- {}, Timed <- FALSE,
          MtCap <- 0, Producers <- {}, Results <- {"DONE", "BLOCKED", "CONTINUE"},
          Calls <- {"SUBMIT", "CANCEL", "RESUME"}, MtCalls <- {},
          Modes <- {"DRAIN", "CANCEL"}, MayKill <- TRUE, MayExit <- TRUE
BatOff == INSTANCE Batch WITH Capacity <- 2, MaxActive <- 2, ResourceCapacity <- 3,
          Charges <- <<1, 2>>, MaxHandle <- 2, Async <- TRUE,
          Kinds <- {"SYNC", "FENCE", "FUTURE", "BLOCKING"}, Timed <- TRUE, MtCap <- 0,
          Producers <- {}, Results <- {"DONE", "BLOCKED", "CONTINUE", "ERROR"},
          Calls <- {"SUBMIT", "CANCEL", "RESUME"}, MtCalls <- {},
          Modes <- {"CANCEL"}, MayKill <- TRUE, MayExit <- FALSE
BatMt == INSTANCE Batch WITH Capacity <- 1, MaxActive <- 1, ResourceCapacity <- 1,
          Charges <- <<1, 1>>, MaxHandle <- 2, Async <- TRUE, Kinds <- {"FUTURE"},
          Timed <- FALSE, MtCap <- 1, Producers <- {s1}, Results <- {"DONE", "BLOCKED"},
          Calls <- {}, MtCalls <- {"SUBMIT", "CANCEL", "RESUME"},
          Modes <- {"CANCEL"}, MayKill <- FALSE, MayExit <- FALSE
BatGate == INSTANCE Batch WITH Capacity <- 1, MaxActive <- 1, ResourceCapacity <- 1,
          Charges <- <<1, 1>>, MaxHandle <- 2, Async <- FALSE, Kinds <- {}, Timed <- FALSE,
          MtCap <- 1, Producers <- {s1, s2}, Results <- {"DONE"}, Calls <- {},
          MtCalls <- {"SUBMIT"}, Modes <- {"DRAIN"}, MayKill <- TRUE,
          MayExit <- FALSE

On(x) == scene = x

Init ==
  /\ scene \in Scenes
  /\ \/ On("ring") /\ Ring!Init
     \/ On("late") /\ Late!Init
     \/ On("shut") /\ Shut!Init
     \/ On("mpmc") /\ Mpmc!MpmcInit
     \/ On("oneshot") /\ Oneshot!OneshotInit
     \/ On("watch") /\ Watch!WatchInit
     \/ On("broadcast") /\ Broadcast!BroadcastInit
     \/ On("demand") /\ Demand!DemandInit
     \/ On("demandShut") /\ DemandShut!DemandInit
     \/ On("counter") /\ Counter!ResInit
     \/ On("batch") /\ Bat!Init
     \/ On("batchOff") /\ BatOff!Init
     \/ On("batchMt") /\ BatMt!Init
     \/ On("batchGate") /\ BatGate!Init

Next ==
  \/ On("ring") /\ Ring!Next /\ UNCHANGED scene
  \/ On("late") /\ Late!Next /\ UNCHANGED scene
  \/ On("shut") /\ Shut!Next /\ UNCHANGED scene
  \/ On("mpmc") /\ Mpmc!MpmcNext /\ UNCHANGED scene
  \/ On("oneshot") /\ Oneshot!OneshotNext /\ UNCHANGED scene
  \/ On("watch") /\ Watch!WatchNext /\ UNCHANGED scene
  \/ On("broadcast") /\ Broadcast!BroadcastNext /\ UNCHANGED scene
  \/ On("demand") /\ Demand!DemandNext /\ UNCHANGED scene
  \/ On("demandShut") /\ DemandShut!DemandNext /\ UNCHANGED scene
  \/ On("counter") /\ Counter!ResNext /\ UNCHANGED scene
  \/ On("batch") /\ Bat!Next /\ UNCHANGED scene
  \/ On("batchOff") /\ BatOff!Next /\ UNCHANGED scene
  \/ On("batchMt") /\ BatMt!Next /\ UNCHANGED scene
  \/ On("batchGate") /\ BatGate!Next /\ UNCHANGED scene

Spec == Init /\ [][Next]_vars

(* Whoever is inside a call finishes it, and a task whose waker fired runs: the
   loop schedules it.  Nobody has to begin a call. *)
FairSpec ==
  /\ Spec
  /\ \A s \in {s1, s2} : WF_vars(On("late") /\ Late!SendStep(s) /\ UNCHANGED scene)
  /\ WF_vars(On("late") /\ Late!RecvStep /\ UNCHANGED scene)
  /\ \A s \in {s1, s2} : WF_vars(On("shut") /\ Shut!SendStep(s) /\ UNCHANGED scene)
  /\ WF_vars(On("shut") /\ (Shut!RecvStep \/ Shut!CloseWake) /\ UNCHANGED scene)
  /\ \A s \in {s1, s2, s3} : WF_vars(On("oneshot") /\ Oneshot!OneshotSendStep(s) /\ UNCHANGED scene)
  /\ WF_vars(On("oneshot") /\ Oneshot!OneshotRecvStep /\ UNCHANGED scene)
  /\ WF_vars(On("demand") /\ Demand!Producer /\ UNCHANGED scene)
  /\ WF_vars(On("demand") /\ Demand!Consumer /\ UNCHANGED scene)
  /\ \A s \in {s1, s2} : WF_vars(On("batchGate") /\ BatGate!Inside(s) /\ UNCHANGED scene)
  /\ <>[](On("batchGate") /\ BatGate!DriverRuns) => []<><<On("batchGate") /\ BatGate!Driver>>_vars

----------------------------------------------------------------------------
(* The state of the chosen component is well formed: every step of every call in
   chan.c, res.c and batch.c leaves counters, indices and program counters in their ranges. *)
TypeOK ==
  /\ On("ring") => Ring!TypeOK
  /\ On("late") => Late!TypeOK
  /\ On("shut") => Shut!TypeOK
  /\ On("mpmc") => Mpmc!MpmcTypeOK
  /\ On("oneshot") => Oneshot!OneshotTypeOK
  /\ On("watch") => Watch!WatchTypeOK
  /\ On("broadcast") => Broadcast!BroadcastTypeOK
  /\ On("demand") => Demand!DemandTypeOK
  /\ On("demandShut") => DemandShut!DemandTypeOK
  /\ On("counter") => Counter!ResTypeOK
  /\ On("batch") => Bat!TypeOK
  /\ On("batchOff") => BatOff!TypeOK
  /\ On("batchMt") => BatMt!TypeOK
  /\ On("batchGate") => BatGate!TypeOK

(* Messages come out at most once and in the order they were sent: of the MPSC ring
   that wraps while senders fill reserved slots out of order; of the MPMC queue,
   across all its consumers; of the oneshot, where one of the racing sends wins; of
   the demand channel, which is drained before its consumer is told of a close.  What a
   broadcast received and what it reported lost add up to what was sent, as long as the
   lags it reports fit an int, and a watch is never older than the newest send that had
   returned.  Every request the batching engine accepted is completed once, with the outcome
   first recorded, and none is left anywhere when its driver is gone, whether it closed, was
   killed or exited in a callback. *)
InOrderOnce ==
  /\ On("ring") => Ring!RecvInOrder
  /\ On("mpmc") => Mpmc!DeliveredOnce
  /\ On("oneshot") => Oneshot!OneMessage
  /\ On("demandShut") => DemandShut!ItemsInOrder /\ DemandShut!ClosedDrains
  /\ On("broadcast") => Broadcast!EveryMessageCounted
  /\ On("watch") => Watch!RecvIsFresh
  /\ On("batch") => Bat!CompletedOnce
  /\ On("batchOff") => BatOff!CompletedOnce /\ BatOff!FrozenVector
  /\ On("batchMt") => BatMt!CompletedOnce
  /\ On("batchGate") => BatGate!CompletedOnce

(* The accounts balance at every step: the MPSC and the MPMC channel have charged a slot
   for each message they hold or are sending, through failed sends and close, and none
   after destroy; the demand channel for each item sent and not received, also after its
   destroy, which leaves them charged (chan.c:700); the accountant's
   counter is what its clients hold, never above the cap; what a producer sent and may
   still send is what was asked for; the batching engine's admission counters are what
   its lists hold, and every hand-in record is in exactly one place. *)
SlotsAccounted ==
  /\ On("ring") => Ring!SlotsCharged
  /\ On("mpmc") => Mpmc!SlotsBalanced
  /\ On("counter") => Counter!UsedWithinCap /\ Counter!UsedIsHeld
  /\ On("demand") => Demand!DemandConserved /\ Demand!DemandSlotsCharged
  /\ On("demandShut") => DemandShut!DemandConserved /\ DemandShut!DemandSlotsCharged
  /\ On("batch") => Bat!SlotsExact
  /\ On("batchOff") => BatOff!SlotsExact
  /\ On("batchMt") => BatMt!SlotsExact
  /\ On("batchGate") => BatGate!SlotsExact

(* The k-th thing a receiver is owed: a message reserved in the ring, the close of a
   channel whose receiver registers its waker before it polls, the oneshot's message, a
   batch it asked for; of the batching engine, the end of a closed group and the completion of an accepted request. *)
Owed(k) ==
  \/ On("late") /\ Len(st.log) >= k
  \/ On("shut") /\ k = 1 /\ st.closed
  \/ On("oneshot") /\ k = 1 /\ st.state = 1
  \/ On("demand") /\ st.asks >= k
  \/ On("batchGate") /\ IF k = 1 THEN st.closed ELSE k - 1 \in st.known
Served(k) ==
  \/ On("late") /\ Len(st.received) >= k
  \/ On("shut") /\ st.cpc = "done"
  \/ On("oneshot") /\ st.rpc = "ok"
  \/ On("demand") /\ Len(st.received) >= 3 * k
  \/ On("batchGate") /\ IF k = 1 THEN st.pc = "gone" ELSE \E i \in 1 .. Len(st.done) : st.done[i][1] = k - 1

(* No wakeup of a receiver is lost: it gets every message, whether its waker was
   registered before, during or after the send, and even when it asks for more than the
   buffer holds; and it learns of a close if it registers its waker before it polls.  (The
   call that registers a waker does not look for a close, so a receiver that polls first
   and registers afterwards can miss one.)  The batching engine's driver completes every
   request it was handed through the ring, and a closed group ends although producers
   keep calling. *)
ReceiverServed == \A k \in 1 .. 4 : Owed(k) ~> Served(k)
=============================================================================
