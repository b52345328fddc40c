------------------------------- MODULE MCSync -------------------------------
(***************************************************************************)
(* The blocking primitives of ptc/sync.c, the locks of ptc/lock_lw.c and   *)
(* lock_lr.c and the concurrent maps, for TLC.  They share no state, so a  *)
(* behaviour runs one of them: `scene` names it, `st` is its own state and *)
(* the other variables are those of its waits.                             *)
(***************************************************************************)
EXTENDS Integers, Sequences, TLC

CONSTANTS f1, f2, f3, t1, t2, t3, NoOwner, Scenes

VARIABLES scene, st, pc, wq, woken, timer, expired, killed, masked, signalled
vars == <<scene, st, pc, wq, woken, timer, expired, killed, masked, signalled>>

(* Two waiters want both units, the others one. *)
Sem == INSTANCE SyncAmutex WITH Fibers <- {f1, f2, f3}, Threads <- {t1}, Timed <- {f2, t1},
         MayDie <- {f1}, Big <- {f1, f3}, BigNeed <- 2, Initial <- 2, MaxCalls <- 1,
         AM_HANDOFF_LOSSES <- 1, SYNC_AM_SKIP_MAX <- 1, SpinCap <- 1, MaxDepth <- 1
(* One waiter wants both units while the others come back and overtake it. *)
SemAgain == INSTANCE SyncAmutex WITH Fibers <- {f1, f2}, Threads <- {t1}, Timed <- {f2, t1},
         MayDie <- {f1}, Big <- {f1}, BigNeed <- 2, Initial <- 2, MaxCalls <- 2,
         AM_HANDOFF_LOSSES <- 1, SYNC_AM_SKIP_MAX <- 1, SpinCap <- 1, MaxDepth <- 1
Notify == INSTANCE SyncMeet WITH Fibers <- {f1, f2}, Threads <- {t1}, Timed <- {f2},
         MayDie <- {f1, f2}, MaxSignals <- 4, MaxRounds <- 1, GenWrap <- 2, Ops <- {}, Writers <- {}
(* Fibers and a thread that lock again without end. *)
Amutex == INSTANCE SyncAmutex WITH Fibers <- {f1, f2}, Threads <- {t1}, Timed <- {f2, t1},
         MayDie <- {f1}, AM_HANDOFF_LOSSES <- 2, SYNC_AM_SKIP_MAX <- 1, SpinCap <- 1,
         MaxDepth <- 1, Initial <- 0, Big <- {}, BigNeed <- 1, MaxCalls <- 0
(* Threads that spin and sleep beside a fiber, and a recursive mutex. *)
Recursive == INSTANCE SyncAmutex WITH Fibers <- {f1}, Threads <- {t1, t2}, Timed <- {t2},
         MayDie <- {f1}, AM_HANDOFF_LOSSES <- 1, SYNC_AM_SKIP_MAX <- 1, SpinCap <- 1,
         MaxDepth <- 2, Initial <- 0, Big <- {}, BigNeed <- 1, MaxCalls <- 0
(* A writer fiber among readers, fibers and a thread. *)
Latch == INSTANCE SyncArwlock WITH Fibers <- {f1, f2, f3}, Threads <- {t1},
         Timed <- {f2}, MayDie <- {f2}, Reading <- {f2, f3, t1}, Writing <- {f1}
(* Callers of either mode, a reader and a writer. *)
LatchAny == INSTANCE SyncArwlock WITH Fibers <- {f1, f2}, Threads <- {t1, t2},
         Timed <- {t1}, MayDie <- {f1}, Reading <- {f2}, Writing <- {t2}
Rwlock == INSTANCE SyncMeet WITH Fibers <- {}, Threads <- {t1, t2, t3},
         Timed <- {t1, t2}, MayDie <- {}, Writers <- {t1}, MaxRounds <- 1, GenWrap <- 2, Ops <- {}, MaxSignals <- 0
RwlockTwo == INSTANCE SyncMeet WITH Fibers <- {}, Threads <- {t1, t2, t3},
         Timed <- {t1, t3}, MayDie <- {}, Writers <- {t1, t2}, MaxRounds <- 1, GenWrap <- 2, Ops <- {},
         MaxSignals <- 0
Barrier == INSTANCE SyncMeet WITH Fibers <- {f1, f2}, Threads <- {t1}, Timed <- {},
         MayDie <- {f1}, MaxRounds <- 3, GenWrap <- 2, Ops <- {}, Writers <- {}, MaxSignals <- 0
Gate == INSTANCE SyncMeet WITH Fibers <- {f1, f2}, Threads <- {t1}, Timed <- {f2, t1},
         MayDie <- {f1}, Ops <- {t2, t3}, MaxRounds <- 1, GenWrap <- 2, Writers <- {}, MaxSignals <- 0

(* A writer that may be killed, a reader and a thread of either mode; three threads. *)
Lw == INSTANCE LockLw WITH Fibers <- {f1, f2}, Threads <- {t1}, Timed <- {}, MayDie <- {f1},
         Modes <- (f1 :> {"X"} @@ f2 :> {"S"} @@ t1 :> {"S", "X"}), MaxHolds <- 2
LwThreads == INSTANCE LockLw WITH Fibers <- {f1}, Threads <- {t1, t2}, Timed <- {},
         MayDie <- {}, Modes <- (f1 :> {"S"} @@ t1 :> {"S", "X"} @@ t2 :> {"S", "X"}),
         MaxHolds <- 0

(* The left-right lock: two slots for readers that come and go and nest; copy on write,
   with more threads than slots. *)
Lr == INSTANCE Maps WITH Threads <- {}, Keys <- {}, Ops <- {}, MinN <- 0, AutoShrink <- FALSE,
         MayFail <- FALSE, MaxLevel <- 0, 
         Readers <- {1, 2}, Leavers <- {}, Writers <- {1}, MaxReaders <- 2, MaxSlots <- 2,
         Cow <- FALSE, ReplayMax <- 1, EpochWrap <- 2, MaxNest <- 2, MaxOps <- 1
LrCow == INSTANCE Maps WITH Threads <- {}, Keys <- {}, Ops <- {}, MinN <- 0, AutoShrink <- FALSE,
         MayFail <- FALSE, MaxLevel <- 0, 
         Readers <- {1, 2}, Leavers <- {1}, Writers <- {1}, MaxReaders <- 1,
         MaxSlots <- 2, Cow <- TRUE, ReplayMax <- 1, EpochWrap <- 4, MaxNest <- 1, MaxOps <- 2

(* The hash table, with two keys that share a bucket until it has eight; the skiplist. *)
Hash == INSTANCE Maps WITH
  Threads <- {1, 2}, Keys <- {0, 4}, Ops <- {"get", "insert", "remove"}, MaxOps <- 3,
  MinN <- 2, AutoShrink <- TRUE, MayFail <- TRUE, MaxLevel <- 1,
  Readers <- {}, Writers <- {}, Leavers <- {}, MaxReaders <- 0, MaxSlots <- 0, Cow <- FALSE,
  ReplayMax <- 0, EpochWrap <- 2, MaxNest <- 0
Skip == INSTANCE Maps WITH
  Threads <- {1, 2}, Keys <- {1, 2}, Ops <- {"get", "insert", "remove", "floor", "min"},
  MaxOps <- 3, MinN <- 2, AutoShrink <- FALSE, MayFail <- FALSE, MaxLevel <- 2,
  Readers <- {}, Writers <- {}, Leavers <- {}, MaxReaders <- 0, MaxSlots <- 0, Cow <- FALSE,
  ReplayMax <- 0, EpochWrap <- 2, MaxNest <- 0

(* A scene whose threads spin and wait in no queue. *)
waits == <<pc, wq, woken, timer, expired, killed, masked, signalled>>
NoWaits ==
  /\ pc = <<>> /\ wq = <<>> /\ killed = <<>>
  /\ woken = {} /\ timer = {} /\ expired = {} /\ masked = {} /\ signalled = {}

On(x) == scene = x

Init ==
  /\ scene \in Scenes
  /\ \/ On("sem") /\ Sem!SemInit
     \/ On("semAgain") /\ SemAgain!SemInit
     \/ On("notify") /\ Notify!NotifyInit
     \/ On("amutex") /\ Amutex!Init
     \/ On("recursive") /\ Recursive!Init
     \/ On("latch") /\ Latch!Init
     \/ On("latchAny") /\ LatchAny!Init
     \/ On("rwlock") /\ Rwlock!RwInit
     \/ On("rwlockTwo") /\ RwlockTwo!RwInit
     \/ On("barrier") /\ Barrier!BarrierInit
     \/ On("gate") /\ Gate!GateInit
     \/ On("lw") /\ Lw!Init
     \/ On("lwThreads") /\ LwThreads!Init
     \/ On("lr") /\ Lr!LInit /\ NoWaits
     \/ On("lrCow") /\ LrCow!LInit /\ NoWaits
     \/ On("hash") /\ Hash!HInit /\ NoWaits
     \/ On("skip") /\ Skip!SInit /\ NoWaits

Next ==
  \/ On("sem") /\ Sem!SemNext /\ UNCHANGED scene
  \/ On("semAgain") /\ SemAgain!SemNext /\ UNCHANGED scene
  \/ On("notify") /\ Notify!NotifyNext /\ UNCHANGED scene
  \/ On("amutex") /\ Amutex!Next /\ UNCHANGED scene
  \/ On("recursive") /\ Recursive!Next /\ UNCHANGED scene
  \/ On("latch") /\ Latch!Next /\ UNCHANGED scene
  \/ On("latchAny") /\ LatchAny!Next /\ UNCHANGED scene
  \/ On("rwlock") /\ Rwlock!RwNext /\ UNCHANGED scene
  \/ On("rwlockTwo") /\ RwlockTwo!RwNext /\ UNCHANGED scene
  \/ On("barrier") /\ Barrier!BarrierNext /\ UNCHANGED scene
  \/ On("gate") /\ Gate!GateNext /\ UNCHANGED scene
  \/ On("lw") /\ Lw!Next /\ UNCHANGED scene
  \/ On("lwThreads") /\ LwThreads!Next /\ UNCHANGED scene
  \/ On("lr") /\ Lr!LNext /\ UNCHANGED <<scene, waits>>
  \/ On("lrCow") /\ LrCow!LNext /\ UNCHANGED <<scene, waits>>
  \/ On("hash") /\ Hash!HNext /\ UNCHANGED <<scene, waits>>
  \/ On("skip") /\ Skip!SNext /\ UNCHANGED <<scene, waits>>

Spec == Init /\ [][Next]_vars

(* A fiber in its wait runs, on being woken or killed. *)
FiberMoves(f) ==
  \/ On("sem") /\ Sem!SemFiberStep(f)
  \/ On("latch") /\ Latch!FiberStep(f)
  \/ On("amutex") /\ f # f3 /\ Amutex!FiberStep(f)
  \/ On("barrier") /\ f # f3 /\ Barrier!BarrierFiberStep(f)
  \/ On("gate") /\ f # f3 /\ Gate!GateFiberStep(f)
  \/ On("lw") /\ f # f3 /\ Lw!Step(f)

(* A thread in its wait runs. *)
ThreadMoves(t) ==
  /\ pc[t] # "idle"
  /\ \/ On("rwlock") /\ Rwlock!RwThreadStep(t)
     \/ On("sem") /\ Sem!SemThreadStep(t)
     \/ On("amutex") /\ Amutex!ThreadStep(t)
     \/ On("latch") /\ Latch!ThreadStep(t)
     \/ On("barrier") /\ Barrier!BarrierThreadStep(t)
     \/ On("gate") /\ Gate!GateThreadStep(t)
     \/ On("lw") /\ Lw!Step(t)

(* A due timer of the fiber's loop fires, a kill is delivered. *)
LoopMoves(f) ==
  /\ scene \notin {"rwlock", "rwlockTwo"}
  /\ f \in DOMAIN killed
  /\ Sem!FiberSurroundings(f)
  /\ UNCHANGED st

(* Whoever holds the primitive gives it up. *)
GivesUp(a) ==
  /\ a \in DOMAIN pc /\ pc[a] = "got"
  /\ \/ On("sem") /\ Sem!Post(a)
     \/ On("latch") /\ Latch!Unlock(a)
     \/ On("amutex") /\ Amutex!Unlock(a)
     \/ On("rwlock") /\ Rwlock!Unlock(a)
     \/ On("lw") /\ Lw!Release(a)

(* Callers may ask for a primitive again at once and for ever. *)
FairSpec ==
  /\ Spec
  /\ \A f \in {f1, f2, f3} : /\ WF_vars(FiberMoves(f) /\ UNCHANGED scene)
                            /\ WF_vars(LoopMoves(f) /\ UNCHANGED scene)
  /\ \A t \in {t1, t2, t3} : WF_vars(t \in DOMAIN pc /\ ThreadMoves(t) /\ UNCHANGED scene)
  /\ \A a \in {f1, f2, f3, t1, t2, t3} : WF_vars(GivesUp(a) /\ UNCHANGED scene)
  /\ \A o \in {t2, t3} : WF_vars(On("gate") /\ Gate!LeaveGate(o) /\ UNCHANGED scene)

----------------------------------------------------------------------------
(* No waiter, which lives in its caller's stack frame, stays queued and no park
   timer armed once the caller has left the wait by success, timeout or kill. *)
NoWaiterLeft ==
  /\ On("sem") => Sem!NoWaiterLeft
  /\ On("semAgain") => SemAgain!NoWaiterLeft
  /\ On("notify") => Notify!NoWaiterLeft
  /\ On("amutex") => Amutex!NoWaiterLeft
  /\ On("latchAny") => LatchAny!NoWaiterLeft
  /\ On("barrier") => Barrier!NoWaiterLeft
  /\ On("gate") => Gate!NoWaiterLeft
  /\ On("lw") => Lw!WaiterGone

(* Nothing that was posted is lost or made up when a wait it was meant for times out
   or is killed: the semaphore's units, and the signals of a notify, each of which
   reaches a wait, is stored, or found one stored. *)
Conserved ==
  /\ On("sem") => Sem!UnitsConserved
  /\ On("semAgain") => SemAgain!UnitsConserved
  /\ On("notify") => Notify!SignalsAccounted

(* Locks exclude, and their words count the holders through grants, timeouts, failed
   tries and kills: a mutex has one holder, a fiber that was granted it counting as
   one, and the writer of a latch or of a writer-priority lock is alone.  The writer of the
   left-right lock is apart from the readers, in the other copy, and leaves two copies that
   agree. *)
Exclusive ==
  /\ On("amutex") => Amutex!OneHolder
  /\ On("recursive") => Recursive!OneHolder
  /\ On("latch") => Latch!HoldsCompatible
  /\ On("latchAny") => LatchAny!HoldsCompatible
  /\ On("rwlock") => Rwlock!HoldsCompatible
  /\ On("rwlockTwo") => RwlockTwo!HoldsCompatible
  /\ On("lw") => Lw!HoldsCompatible
  /\ On("lwThreads") => LwThreads!HoldsCompatible
  /\ On("lr") => Lr!ReadersApart /\ Lr!CopiesAgree
  /\ On("lrCow") => LrCow!ReadersApart

(* Nobody sleeps on beside what it waits for, unless somebody is on the way to take
   it or to wake the others: units of the semaphore, a stored signal, a free mutex
   whose release found a spinner, a latch or lock that a timeout made available, the
   end of a barrier's round, an empty gate. *)
NobodyStranded ==
  /\ On("sem") => Sem!UnitsClaimed
  /\ On("semAgain") => SemAgain!UnitsClaimed
  /\ On("notify") => Notify!StoredIsSeen
  /\ On("amutex") => Amutex!NotStranded
  /\ On("recursive") => Recursive!NotStranded
  /\ On("latch") => Latch!NotStranded
  /\ On("latchAny") => LatchAny!NotStranded
  /\ On("rwlock") => Rwlock!NotStranded
  /\ On("rwlockTwo") => RwlockTwo!NotStranded
  /\ On("barrier") => Barrier!PartiesLetGo
  /\ On("gate") => Gate!EmptyIsSeen
  /\ On("lw") => Lw!NotStranded
  /\ On("lwThreads") => LwThreads!NotStranded

(* Nobody goes before those it has to wait for: the mutex is handed to the head of the
   queue only, which has lost often enough; nobody passes the barrier before everybody
   has arrived for that round; once a drain of the closed gate has returned, nobody is
   inside. *)
NobodyAhead ==
  /\ On("amutex") => Amutex!HandoffIsDue
  /\ On("barrier") => Barrier!NobodyAhead
  /\ On("gate") => Gate!DrainedStaysEmpty

Waiting == Sem!Waiting

(* The waits that have to end: for units that holders post; of a fiber for the mutex,
   although others lock again without end, and for a latch that holders release; of
   the writer for the writer-priority lock, whatever stream of readers comes; at a
   barrier to which everybody has come; in the drain of a closed gate. *)
MustEnd(a) ==
  /\ a \in DOMAIN pc /\ pc[a] \in Waiting
  /\ \/ On("sem")
     \/ On("amutex") /\ a # t1
     \/ On("latch") /\ a # t1
     \/ On("rwlock") /\ a = t1
     \/ On("barrier") /\ \A b \in DOMAIN pc : st.arrivals[b] >= st.arrivals[a]
     \/ On("gate") /\ st.closed
     \/ On("lw")

(* Every wait that has to end ends: no wake of the primitives is lost, to a timeout,
   a kill or both, and nobody is overtaken for ever. *)
WaitEnds ==
  \A a \in {f1, f2, f3, t1} : MustEnd(a) ~> (a \in DOMAIN pc /\ pc[a] \notin Waiting)

(* The maps keep what is put in them: a lookup finds a key that is there all along, gives no
   pair that was not there during the call and reads no freed memory, through removals,
   resizes and the linking of levels; nothing is lost, doubled or counted wrong. *)
MapsHold ==
  /\ On("hash") => Hash!HSafe /\ Hash!HAnswers /\ Hash!HHolds
  /\ On("skip") => Skip!SSafe /\ Skip!SAnswers /\ Skip!SHolds

=============================================================================
