------------------------------- MODULE MCSched -------------------------------
(***************************************************************************)
(* Instances of Sched for model checking, and beside them the scenes of     *)
(* Exec (the lanes of a loop, the workers of an executor, a simulated run), *)
(* of Timers, Coro (fibers), Net (sockets and frames) and Tls.  A           *)
(* behaviour plays one scene of Scenes; "sched" is Sched itself, whose      *)
(* variables stay as they are in the other scenes.                          *)
(***************************************************************************)
EXTENDS Sched, TLC

CONSTANTS l1, l2, t1, t2, w1, w2, Scenes

VARIABLES scene, st

OneLoop == {l1}
TwoLoops == {l1, l2}
OneTask == {t1}
TwoTasks == {t1, t2}
OneThread == {w1}
TwoThreads == {w1, w2}
NoPinned == {}
PinnedOne == {t1}
AllHome == [t \in Tasks |-> l1]

On(x) == scene = x
Others == <<vars, scene>>

(* A quantum of class 0, which has half the weight, costs it twice the virtual runtime. *)
HalfWeight == [l \in -1 .. 1 |-> IF l = 0 THEN 2 ELSE 1]

(* The lanes without a policy, and with one that picks as it likes or a batch. *)
Lanes == INSTANCE Exec WITH
  Tasks <- 1 .. 4, Tag <- << -1, -1, 0, 1 >>, Pinned <- {2}, Accrual <- HalfWeight,
  MaxClasses <- 2, DequeCap <- 1, MaxBypass <- 1, Classes <- 1, Policies <- {"none"},
  MaxRuns <- 4, MaxCost <- 2, Loops <- 0 .. 1, Eager <- FALSE, Service <- TRUE,
  Spawners <- {}, MayStop <- FALSE, MayFail <- FALSE, MaxTimers <- 0, MaxTime <- 0
Picked == INSTANCE Exec WITH
  Tasks <- 1 .. 3, Tag <- << -1, 0, 1 >>, Pinned <- {}, Accrual <- HalfWeight,
  MaxClasses <- 2, DequeCap <- 1, MaxBypass <- 1, Classes <- 2, Policies <- {"any", "batch"},
  MaxRuns <- 4, MaxCost <- 1, Loops <- 0 .. 1, Eager <- FALSE, Service <- TRUE,
  Spawners <- {}, MayStop <- FALSE, MayFail <- FALSE, MaxTimers <- 0, MaxTime <- 0

(* Two workers: a service that a foreign thread spawns on; a finite run whose tasks spawn;
   one task that arms a timer; and a run that somebody stops. *)
Serves == INSTANCE Exec WITH
  Tasks <- 1 .. 2, Loops <- 0 .. 1, Eager <- FALSE, Service <- TRUE, Spawners <- { -1 },
  MayStop <- FALSE, MayFail <- FALSE, MaxTimers <- 0, MaxTime <- 0, Tag <- <<>>, Pinned <- {},
  Accrual <- <<>>, MaxClasses <- 1, DequeCap <- 1, MaxBypass <- 1, Classes <- 1,
  Policies <- {}, MaxRuns <- 1, MaxCost <- 1
Finite == INSTANCE Exec WITH
  Tasks <- 1 .. 2, Loops <- 0 .. 1, Eager <- FALSE, Service <- FALSE, Spawners <- {0},
  MayStop <- FALSE, MayFail <- FALSE, MaxTimers <- 0, MaxTime <- 0, Tag <- <<>>, Pinned <- {},
  Accrual <- <<>>, MaxClasses <- 1, DequeCap <- 1, MaxBypass <- 1, Classes <- 1,
  Policies <- {}, MaxRuns <- 1, MaxCost <- 1
Timed == INSTANCE Exec WITH
  Tasks <- 1 .. 1, Loops <- 0 .. 1, Eager <- FALSE, Service <- FALSE, Spawners <- {},
  MayStop <- FALSE, MayFail <- FALSE, MaxTimers <- 1, MaxTime <- 0, Tag <- <<>>, Pinned <- {},
  Accrual <- <<>>, MaxClasses <- 1, DequeCap <- 1, MaxBypass <- 1, Classes <- 1,
  Policies <- {}, MaxRuns <- 1, MaxCost <- 1
Stopped == INSTANCE Exec WITH
  Tasks <- 1 .. 1, Loops <- 0 .. 1, Eager <- TRUE, Service <- TRUE, Spawners <- {},
  MayStop <- TRUE, MayFail <- TRUE, MaxTimers <- 1, MaxTime <- 0, Tag <- <<>>, Pinned <- {},
  Accrual <- <<>>, MaxClasses <- 1, DequeCap <- 1, MaxBypass <- 1, Classes <- 1,
  Policies <- {}, MaxRuns <- 1, MaxCost <- 1

(* A simulated run of two tasks, one of them pinned, on two loops. *)
Sim == INSTANCE Exec WITH
  Tasks <- 1 .. 2, Loops <- 0 .. 1, Pinned <- {2}, MayStop <- TRUE, MaxRuns <- 4,
  MaxTime <- 1, Eager <- FALSE, Service <- TRUE, Spawners <- {}, MayFail <- FALSE,
  MaxTimers <- 0, Tag <- <<>>, Accrual <- <<>>, MaxClasses <- 1, DequeCap <- 1,
  MaxBypass <- 1, Classes <- 1, Policies <- {}, MaxCost <- 1

(* Sockets metered by two accountants of two units; frames, of which the last is too long. *)
Meter == INSTANCE Net WITH
  Threads <- {1, 2}, Accts <- {1, 2}, None <- 0,
  ResCap <- 2, Fds <- 0 .. 2, FirstCap <- 1, MayRaw <- TRUE, MaxCalls <- 4, Frames <- <<>>,
  Base <- 2, HdrLen <- 1, PipeCap <- 1, Chunk <- 1, MaxLen <- 0, MayExpire <- FALSE
Framed == INSTANCE Net WITH
  Frames <- << <<1, 0, 1>>, <<>>, <<2>>, <<1, 2>> >>, Base <- 2, HdrLen <- 2, PipeCap <- 3,
  Chunk <- 2, MaxLen <- 2, MayExpire <- TRUE, Threads <- {}, Accts <- {},
  None <- 0, ResCap <- 0, Fds <- {}, FirstCap <- 1, MayRaw <- FALSE, MaxCalls <- 0

(* Timers: the loop's heap with another thread; the candidates for its place. *)
Heap == INSTANCE Timers WITH
  MaxArms <- 3, Delays <- {1}, MaxNow <- 1, Threads <- {"r"}, Holders <- {"owner", "r", ""},
  FirstCap <- 1, D <- 2, Runs <- {}, Bits <- 0, Tick <- 1, Slots <- 1, Levels <- 0,
  QhSmall <- 0, SweepMin <- 0, VecLen <- 1
Sweep == INSTANCE Timers WITH
  MaxArms <- 3, Delays <- {0, 1}, MaxNow <- 0, Threads <- {"r"}, Holders <- {"r"},
  FirstCap <- 2, D <- 2, Runs <- {}, Bits <- 0, Tick <- 1, Slots <- 1, Levels <- 0,
  QhSmall <- 0, SweepMin <- 0, VecLen <- 1
Race(i, n) == [impl |-> i, trace |-> "loop", arms |-> n, delays |-> {0, 1}, now |-> 1]
Queue == INSTANCE Timers WITH
  Runs <- {Race("bin", 4), Race("dary", 5), Race("pair", 3), Race("qh", 3), Race("qhl", 3),
           [impl |-> "radix", trace |-> "mcs", arms |-> 4, delays |-> {0, 1, 3}, now |-> 0],
           [impl |-> "radix", trace |-> "loop", arms |-> 3, delays |-> {1, 2, 5}, now |-> 3],
           [impl |-> "wheel", trace |-> "loop", arms |-> 3, delays |-> {0, 3, 6}, now |-> 4]},
  MaxArms <- 6, D <- 4, Bits <- 4, Tick <- 2, Slots <- 2, Levels <- 3, QhSmall <- 1,
  SweepMin <- 1, VecLen <- 2, Delays <- {}, MaxNow <- 0, Threads <- {}, Holders <- {}, FirstCap <- 1

(* TLS: three connections of one thread; kernel TLS; sessions by backend; SChannel. *)
TlsQ == INSTANCE Tls WITH Conns <- {"x", "y"}, FdConns <- {"z"}, MaxOps <- 2, Backend <- "openssl",
         Roles <- {}, NoSigpipe <- FALSE
TlsK == INSTANCE Tls WITH Conns <- {}, FdConns <- {}, MaxOps <- 6, Backend <- "openssl",
         Roles <- {}, NoSigpipe <- FALSE
TlsO == INSTANCE Tls WITH Conns <- {}, FdConns <- {}, MaxOps <- 0, Backend <- "openssl",
         Roles <- {"CLIENT", "SERVER"}, NoSigpipe <- FALSE
TlsM == INSTANCE Tls WITH Conns <- {}, FdConns <- {}, MaxOps <- 0, Backend <- "mbedtls",
         Roles <- {"CLIENT", "SERVER"}, NoSigpipe <- FALSE
TlsG == INSTANCE Tls WITH Conns <- {}, FdConns <- {}, MaxOps <- 0, Backend <- "gnutls",
         Roles <- {"CLIENT", "SERVER"}, NoSigpipe <- FALSE
TlsW == INSTANCE Tls WITH Conns <- {}, FdConns <- {}, MaxOps <- 0, Backend <- "wolfssl",
         Roles <- {"CLIENT", "SERVER"}, NoSigpipe <- FALSE
TlsS == INSTANCE Tls WITH Conns <- {}, FdConns <- {}, MaxOps <- 6, Backend <- "schannel",
         Roles <- {}, NoSigpipe <- FALSE

(* Three fibers of a loop, two of which await the first; two tasks, of which another loop
   may steal a proc; and Windows fibers. *)
FiberAwait == INSTANCE Coro WITH Threads <- {1}, Fibers <- {1, 2, 3}, Home <- <<1, 1, 1>>,
          Procs <- {2}, Migratable <- {}, Awaits <- {<<2, 1>>, <<3, 1>>}, Substrate <- "fctx",
          Involuntary <- FALSE, MaxYields <- 1, Targets <- {}, PoolMax <- 1,
          Sizes <- {1}, SpareMax <- 1, MaxSpawns <- 1
FiberMoves == INSTANCE Coro WITH Threads <- {1, 2}, Fibers <- {1, 2}, Home <- <<1, 1>>,
          Procs <- {2}, Migratable <- {2}, Awaits <- {}, Substrate <- "uctx",
          Involuntary <- TRUE, MaxYields <- 1, Targets <- {}, PoolMax <- 1,
          Sizes <- {1}, SpareMax <- 1, MaxSpawns <- 1
FiberWin == INSTANCE Coro WITH Threads <- {1}, Fibers <- {1, 2}, Home <- <<1, 1>>,
          Procs <- {2}, Migratable <- {}, Awaits <- {<<2, 1>>}, Substrate <- "winfiber",
          Involuntary <- FALSE, MaxYields <- 1, Targets <- {}, PoolMax <- 1,
          Sizes <- {1}, SpareMax <- 1, MaxSpawns <- 1
(* The stacks and the task structs of a loop that two threads spawn onto. *)
Stacks == INSTANCE Coro WITH Threads <- {1, 2}, Fibers <- 1 .. 3, Home <- <<>>, Procs <- {}, Migratable <- {}, Awaits <- {},
          Substrate <- "fctx", Involuntary <- FALSE, MaxYields <- 1, Targets <- {2}, PoolMax <- 2,
          Sizes <- {1, 2}, SpareMax <- 1, MaxSpawns <- 1
Structs == INSTANCE Coro WITH Threads <- {1, 2}, Fibers <- 1 .. 2, Home <- <<>>, Procs <- {}, Migratable <- {}, Awaits <- {},
          Substrate <- "fctx", Involuntary <- FALSE, MaxYields <- 2, Targets <- {2}, PoolMax <- 1,
          Sizes <- {1}, SpareMax <- 1, MaxSpawns <- 3
(* The sources of ticks, in a static executable and in a dynamic one. *)
TicksKq == INSTANCE Coro WITH Threads <- {1, 2}, Fibers <- {}, Home <- <<>>, Procs <- {}, Migratable <- {}, Awaits <- {},
          Substrate <- "kqueue", Involuntary <- TRUE, MaxYields <- 1, Targets <- {1}, PoolMax <- 2,
          Sizes <- {1}, SpareMax <- 1, MaxSpawns <- 3
TicksPx == INSTANCE Coro WITH Threads <- {1, 2}, Fibers <- {}, Home <- <<>>, Procs <- {}, Migratable <- {}, Awaits <- {},
          Substrate <- "posix", Involuntary <- FALSE, MaxYields <- 1, Targets <- {1}, PoolMax <- 2,
          Sizes <- {1}, SpareMax <- 1, MaxSpawns <- 3

SceneInit ==
  /\ Init /\ scene \in Scenes
  /\ \/ On("sched") /\ st = <<>>
     \/ On("lanes") /\ Lanes!PInit
     \/ On("picked") /\ Picked!PInit
     \/ On("serves") /\ Serves!WInit
     \/ On("finite") /\ Finite!WInit
     \/ On("timed") /\ Timed!WInit
     \/ On("stopped") /\ Stopped!WInit
     \/ On("sim") /\ Sim!DInit
     \/ On("heap") /\ Heap!TInit
     \/ On("sweep") /\ Sweep!TInit
     \/ On("queue") /\ Queue!QInit
     \/ On("meter") /\ Meter!NInit
     \/ On("fibers") /\ FiberAwait!FInit
     \/ On("fiberMoves") /\ FiberMoves!FInit
     \/ On("fiberWin") /\ FiberWin!FInit
     \/ On("stacks") /\ Stacks!SInit
     \/ On("structs") /\ Structs!KInit
     \/ On("ticksKq") /\ TicksKq!AInit
     \/ On("ticksPx") /\ TicksPx!AInit
     \/ On("framed") /\ Framed!FInit
     \/ On("tlsQueue") /\ TlsQ!QInit
     \/ On("tlsKtls") /\ TlsK!KInit
     \/ On("tlsOpenssl") /\ TlsO!VInit
     \/ On("tlsMbed") /\ TlsM!VInit
     \/ On("tlsGnu") /\ TlsG!VInit
     \/ On("tlsWolf") /\ TlsW!VInit
     \/ On("tlsSchan") /\ TlsS!WInit

SceneNext ==
  \/ On("sched") /\ Next /\ UNCHANGED <<scene, st>>
  \/ On("lanes") /\ Lanes!PNext /\ UNCHANGED Others
  \/ On("picked") /\ Picked!PNext /\ UNCHANGED Others
  \/ On("serves") /\ Serves!WNext /\ UNCHANGED Others
  \/ On("finite") /\ Finite!WNext /\ UNCHANGED Others
  \/ On("timed") /\ Timed!WNext /\ UNCHANGED Others
  \/ On("sim") /\ Sim!DNext /\ UNCHANGED Others
  \/ On("heap") /\ Heap!TNext /\ UNCHANGED Others
  \/ On("sweep") /\ Sweep!TNext /\ UNCHANGED Others
  \/ On("queue") /\ Queue!QNext /\ UNCHANGED Others
  \/ On("meter") /\ Meter!NNext /\ UNCHANGED Others
  \/ On("fibers") /\ FiberAwait!FNext /\ UNCHANGED Others
  \/ On("fiberMoves") /\ FiberMoves!FNext /\ UNCHANGED Others
  \/ On("fiberWin") /\ FiberWin!FNext /\ UNCHANGED Others
  \/ On("stacks") /\ Stacks!SNext /\ UNCHANGED Others
  \/ On("structs") /\ Structs!KNext /\ UNCHANGED Others
  \/ On("ticksKq") /\ TicksKq!ANext /\ UNCHANGED Others
  \/ On("ticksPx") /\ TicksPx!ANext /\ UNCHANGED Others
  \/ On("framed") /\ Framed!FNext /\ UNCHANGED Others
  \/ On("tlsQueue") /\ TlsQ!QNext /\ UNCHANGED Others
  \/ On("tlsKtls") /\ TlsK!KNext /\ UNCHANGED Others
  \/ On("tlsOpenssl") /\ TlsO!VNext /\ UNCHANGED Others
  \/ On("tlsMbed") /\ TlsM!VNext /\ UNCHANGED Others
  \/ On("tlsGnu") /\ TlsG!VNext /\ UNCHANGED Others
  \/ On("tlsWolf") /\ TlsW!VNext /\ UNCHANGED Others
  \/ On("tlsSchan") /\ TlsS!WNext /\ UNCHANGED Others

SceneSpec == SceneInit /\ [][SceneNext]_<<vars, scene, st>>

(* Wakes of one task do not overlap: no one begins a wake of a task while
   another wake of it is still being decided. *)
SerialWakes ==
    \A a, b \in Actors :
        /\ a # b
        /\ fpc[a] = "idle"
        /\ fpc'[a] = "latch"
        => ~(fpc[b] \in Claiming /\ ftask[b] = ftask'[a])

(* A worker and the thread in xtc_exec_run keep going, and who stops the run wakes it. *)
StopFairness ==
  /\ WF_st(On("stopped") /\ Stopped!Supervisor /\ UNCHANGED Others)
  /\ WF_st(On("stopped") /\ Stopped!UserWakes /\ UNCHANGED Others)
  /\ \A l \in 0 .. 1 : WF_st(On("stopped") /\ Stopped!Worker(l) /\ UNCHANGED Others)

SerialNext ==
  \/ SceneNext /\ SerialWakes
  \/ On("stopped") /\ Stopped!WNext /\ UNCHANGED Others

SerialSpec ==
  SceneInit /\ [][SerialNext]_<<vars, scene, st>> /\ Fairness /\ StopFairness

(* Ready work is where it must be.  The lanes: a task is in one lane, a lane is bypassed at
   most max_bypass times, a thief's leftovers are found, and lanes that stay ready share the
   loop by weight.  The workers: the counts of stealable tasks are exact, a worker that
   blocks leaves nothing it could have stolen, the run ends by itself only with nothing left
   (up to two stale scans), and no worker outlives it.  The simulated run: verdicts are true,
   no deadline is passed, no step spins.  The timers: one fires once and not early, or was
   cancelled, and is freed by the last of its references; a queue of timers holds what was
   armed and neither fired nor cancelled, and gives the earliest first. *)
WorkPlaced ==
  /\ On("lanes") => Lanes!PlacedOnce /\ Lanes!BypassBounded /\ Lanes!ClassWorkFound /\ Lanes!FairShare
  /\ On("picked") => Picked!PlacedOnce /\ Picked!BypassBounded /\ Picked!ClassWorkFound
  /\ On("serves") => Serves!MigCountExact /\ Serves!NothingLeftToSteal
  /\ On("finite") => Finite!MigCountExact /\ Finite!NothingLeftToSteal /\ Finite!EndsWhenDone
  /\ On("timed") => Timed!EndsWhenDone /\ Timed!WorkersJoined
  /\ On("sim") => Sim!VerdictTrue /\ Sim!ClockHonest /\ Sim!NeverSpins
  /\ On("heap") => Heap!FiresOrCancelled /\ Heap!TimerRefs
  /\ On("sweep") => Sweep!FiresOrCancelled /\ Sweep!TimerRefs
  /\ On("queue") => Queue!QueueHolds /\ Queue!PopsFirst

(* Fibers are kept apart.  A fiber's code runs as that fiber, on its own stack and as its own
   proc, and only on one thread; nobody is left parked in an await of a task that has ended.
   A stack has one fiber and goes back, a task struct has one task, and no waker reaches a
   struct that is used again.  A tick diverts a thread only in code that may be, and none
   comes after its source was disarmed. *)
FibersApart ==
  /\ On("fibers") => FiberAwait!RunsAsItself /\ FiberAwait!OneContext /\ FiberAwait!AwaitWakes
  /\ On("fiberMoves") => FiberMoves!RunsAsItself /\ FiberMoves!OneContext
  /\ On("fiberWin") => FiberWin!RunsAsItself /\ FiberWin!OneContext /\ FiberWin!AwaitWakes
  /\ On("stacks") => Stacks!StackOnce /\ Stacks!StacksReturned
  /\ On("structs") => Structs!StructOnce /\ Structs!WakersSafe /\ Structs!StructsBounded
  /\ On("ticksKq") => TicksKq!SafePoints /\ TicksKq!DisarmQuiet
  /\ On("ticksPx") => TicksPx!SafePoints /\ TicksPx!DisarmQuiet


StopAsked == IF On("stopped") THEN st.stop ELSE FALSE
StopDone == IF On("stopped") THEN st.sup = "returned" ELSE FALSE

(* Work is delivered, and so is a stop.  Every wake of a task is followed by a run of it and
   every task put on an inbox stack is run; once the stop flag is up, by xtc_exec_stop or because a worker
   could not be started, xtc_exec_run returns. *)
Delivered ==
  /\ WakeDelivered /\ InboxDelivered
  /\ StopAsked ~> StopDone
=============================================================================
