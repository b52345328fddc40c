------------------------------ MODULE MCStore ------------------------------
(***************************************************************************)
(* Locks, stores, orchestration and reactors, for TLC.  They share no      *)
(* state, so a behaviour runs one: `scene` names it and `st` is its state. *)
(***************************************************************************)
EXTENDS Integers, Sequences, TLC

CONSTANT Scenes

VARIABLES scene, st
vars == <<scene, st>>

(* The lock manager: three lockers of one object that convert; compound requests over
   two objects; and the detector. *)
Get(o, m, wait) == [op |-> "GET", o |-> o, m |-> m, wait |-> wait]
PutOf(o) == [op |-> "PUT", o |-> o]
Mgr == INSTANCE LockMgr WITH Lockers <- {1, 2, 3}, Objs <- {"a"}, Modes <- {"S", "X"},
         Timed <- {2}, MayDie <- {3}, Vecs <- {}, Policy <- "RANDOM", Detects <- FALSE,
         Ops <- {"get", "up", "down", "all"}, MaxCalls <- 2
MgrVec == INSTANCE LockMgr WITH Lockers <- {1, 2}, Objs <- {"a", "b"}, Modes <- {"IS", "X"},
         Timed <- {1}, MayDie <- {1}, Policy <- "RANDOM", Detects <- FALSE,
         Vecs <- {<<Get("a", "S", TRUE), Get("b", "X", FALSE), Get("a", "X", FALSE)>>,
                  <<Get("a", "IX", TRUE), PutOf("b"), Get("b", "WW", TRUE), Get("a", "X", TRUE)>>},
         Ops <- {"get", "vec"}, MaxCalls <- 2
MgrDetect == INSTANCE LockMgr WITH Lockers <- {1, 2, 3}, Objs <- {"a"},
         Modes <- {"S", "X"}, Timed <- {2}, MayDie <- {}, Vecs <- {}, Policy <- "YOUNGEST",
         Detects <- TRUE, Ops <- {"get"}, MaxCalls <- 2
MgrExpire == INSTANCE LockMgr WITH Lockers <- {1, 2}, Objs <- {"a", "b"},
         Modes <- {"X"}, Timed <- {2}, MayDie <- {}, Vecs <- {}, Policy <- "EXPIRE",
         Detects <- TRUE, Ops <- {"get"}, MaxCalls <- 2

(* The slab: two threads, one of which may exit; the shared region of three slots. *)
Sl == INSTANCE Slab WITH Threads <- {1, 2}, NoMags <- {}, Backoff <- TRUE, MaxChunks <- 2,
         ObjsPerChunk <- 2, MagazineSize <- 1, Refuses <- TRUE, Leavers <- {2}, MaxChunkId <- 2,
         Procs <- {}, Offsets <- {}, MayDie <- {},
         Budget <- 0, MaxChunk <- 0, Masked <- {}, Discarders <- {}
SlSlow == INSTANCE Slab WITH Threads <- {1, 2}, NoMags <- {2}, Backoff <- FALSE, MaxChunks <- 1,
         ObjsPerChunk <- 3, MagazineSize <- 2, Refuses <- TRUE, Leavers <- {}, MaxChunkId <- 2,
         Procs <- {}, Offsets <- {}, MayDie <- {},
         Budget <- 0, MaxChunk <- 0, Masked <- {}, Discarders <- {}
Shm == INSTANCE Slab WITH Threads <- {}, NoMags <- {}, Backoff <- FALSE, MaxChunks <- 0,
         ObjsPerChunk <- 0, MagazineSize <- 0, Refuses <- FALSE, Leavers <- {}, MaxChunkId <- 0,
         Procs <- {1, 2}, Offsets <- 0 .. 3, MayDie <- {2},
         Budget <- 0, MaxChunk <- 0, Masked <- {}, Discarders <- {}

(* Memory contexts: two threads, two accountants; a group of three processes, the last of
   which and a thread discard. *)
Mc == INSTANCE Slab WITH Threads <- {1, 2}, Budget <- 3, MaxChunk <- 2, Procs <- {},
         Masked <- {}, Discarders <- {},
         NoMags <- {}, Backoff <- FALSE, MaxChunks <- 0, ObjsPerChunk <- 0, MagazineSize <- 0,
         Refuses <- FALSE, Leavers <- {}, MaxChunkId <- 0, Offsets <- {}, MayDie <- {}
Grp == INSTANCE Slab WITH Threads <- {}, Budget <- 0, MaxChunk <- 0, Procs <- {1, 2, 3},
         Masked <- {2}, Discarders <- {0, 3},
         NoMags <- {}, Backoff <- FALSE, MaxChunks <- 0, ObjsPerChunk <- 0, MagazineSize <- 0,
         Refuses <- FALSE, Leavers <- {}, MaxChunkId <- 0, Offsets <- {}, MayDie <- {}

(* Supervisors: by strategy, one that restarts often, a pool of added children, and those
   of applications that are drained. *)
SupRate == INSTANCE Sup WITH Strategy <- "ONE_FOR_ONE", Policies <- <<"PERMANENT">>,
           MaxRestarts <- 1, Period <- 1, MaxChildren <- 0, AddPolicy <- "TEMPORARY", Adds <- 0,
           MaxPids <- 7, MaxNow <- 4, MayKill <- FALSE, App <- "none", Signal <- FALSE
SupAll == INSTANCE Sup WITH Strategy <- "ONE_FOR_ALL", Policies <- <<"PERMANENT", "TRANSIENT">>,
           MaxRestarts <- 1, Period <- 2, MaxChildren <- 0, AddPolicy <- "TEMPORARY", Adds <- 0,
           MaxPids <- 4, MaxNow <- 0, MayKill <- FALSE, App <- "none", Signal <- FALSE
SupRest == INSTANCE Sup WITH Strategy <- "REST_FOR_ONE", Policies <- <<"TRANSIENT", "PERMANENT">>,
           MaxRestarts <- 1, Period <- 2, MaxChildren <- 0, AddPolicy <- "TEMPORARY", Adds <- 0,
           MaxPids <- 3, MaxNow <- 0, MayKill <- TRUE, App <- "none", Signal <- FALSE
SupPool == INSTANCE Sup WITH Strategy <- "SIMPLE_OFO", Policies <- <<>>,
           MaxRestarts <- 1, Period <- 2, MaxChildren <- 1, AddPolicy <- "TRANSIENT", Adds <- 2,
           MaxPids <- 3, MaxNow <- 0, MayKill <- FALSE, App <- "none", Signal <- FALSE
AppOwned == INSTANCE Sup WITH Strategy <- "ONE_FOR_ONE", Policies <- <<"TRANSIENT">>,
           MaxRestarts <- 1, Period <- 2, MaxChildren <- 0, AddPolicy <- "TEMPORARY", Adds <- 0,
           MaxPids <- 3, MaxNow <- 0, MayKill <- FALSE, App <- "owned", Signal <- FALSE
AppLent == INSTANCE Sup WITH Strategy <- "ONE_FOR_ALL", Policies <- <<"PERMANENT">>,
           MaxRestarts <- 1, Period <- 2, MaxChildren <- 0, AddPolicy <- "TEMPORARY", Adds <- 0,
           MaxPids <- 2, MaxNow <- 0, MayKill <- FALSE, App <- "borrowed", Signal <- FALSE
AppExec == INSTANCE Sup WITH Strategy <- "ONE_FOR_ONE", Policies <- <<"PERMANENT">>,
           MaxRestarts <- 1, Period <- 2, MaxChildren <- 0, AddPolicy <- "TEMPORARY", Adds <- 0,
           MaxPids <- 3, MaxNow <- 0, MayKill <- FALSE, App <- "exec", Signal <- TRUE

(* A state machine. *)
Fsm == INSTANCE Svr WITH Threads <- {}, Procs <- {1}, Timed <- {1}, Aborters <- {},
           MaxCalls <- 4, MayKill <- FALSE

(* The registry with its reaper; the pool and credits with three users; sagas; a stream. *)
Reg == INSTANCE Orc WITH Threads <- {"t", "u"}, Names <- {"x"}, Pids <- {1, 2}, ReaperCap <- 1,
         ReaperEnds <- TRUE, Cap <- 0, Kinds <- <<>>, NSteps <- 0, MaxItems <- 2
Small == INSTANCE Orc WITH Threads <- {"t", "u", "v"}, Names <- {}, Pids <- {}, ReaperCap <- 0,
         ReaperEnds <- FALSE, Cap <- 2, Kinds <- <<"MAP", "FILTER", "MAP">>, NSteps <- 3, MaxItems <- 4

(* A tnt shard: messages from a peer and two threads; completions and timers. *)
TntMail == INSTANCE Tnt WITH Peers <- {"p"}, Exts <- {}, Slots <- 1 .. 2, Acts <- {"none", "send"},
         InitActs <- {"none"}, GenMod <- 4, MboxCap <- 1, RingCap <- 1, CompCap <- 1, Budget <- 1,
         MayStop <- FALSE, MaxMsgs <- 2, MaxSpawns <- 2, MaxIo <- 0
TntExt == INSTANCE Tnt WITH Peers <- {}, Exts <- {"e"}, Slots <- 1 .. 2, Acts <- {"none", "send"},
         InitActs <- {"none"}, GenMod <- 4, MboxCap <- 1, RingCap <- 1, CompCap <- 1, Budget <- 1,
         MayStop <- FALSE, MaxMsgs <- 2, MaxSpawns <- 2, MaxIo <- 0
TntIo == INSTANCE Tnt WITH Peers <- {}, Exts <- {}, Slots <- 1 .. 2,
         Acts <- {"none", "recv", "owned", "timer"}, InitActs <- {"none", "recv"},
         GenMod <- 4, MboxCap <- 1, RingCap <- 1, CompCap <- 1, Budget <- 2,
         MayStop <- FALSE, MaxMsgs <- 1, MaxSpawns <- 2, MaxIo <- 2

TntStop == INSTANCE Tnt WITH Peers <- {}, Exts <- {"e"}, Slots <- 1 .. 2,
         Acts <- {"none", "close", "send", "spawn"}, InitActs <- {"none", "send"},
         GenMod <- 4, MboxCap <- 1, RingCap <- 1, CompCap <- 1, Budget <- 2,
         MayStop <- TRUE, MaxMsgs <- 1, MaxSpawns <- 2, MaxIo <- 1

(* Process pairs: a fork on one loop, a re-exec with two; the channel's calls; xtc_launch. *)
XFork == INSTANCE OsProc WITH ByEntry <- FALSE, OneLoop <- TRUE, Codes <- {0, 7, 256},
         MaxFrames <- 2, MaxCalls <- 3, MaxMail <- 2
XEntry == INSTANCE OsProc WITH ByEntry <- TRUE, OneLoop <- FALSE, Codes <- {7},
         MaxFrames <- 1, MaxCalls <- 3, MaxMail <- 2

(* io_uring: one descriptor that is registered, reopened and deleted from two threads; AIO
   with a ring that changes its owner. *)
UrFd == INSTANCE Backends WITH Lats <- {}, Fds <- {"fd"}, Aios <- {}, SqCap <- 1, Short <- FALSE, Single <- FALSE,
         Nodes <- 1 .. 2, MaxRegs <- 2, MaxFiles <- 2,
         Kind <- "uring", MaxEvents <- 1, Sets <- {}, MayMod <- FALSE, MaxOps <- 0
UrShort == INSTANCE Backends WITH Lats <- {}, Fds <- {"fd"}, Aios <- {}, SqCap <- 1, Short <- TRUE, Single <- FALSE,
         Nodes <- 1 .. 2, MaxRegs <- 2, MaxFiles <- 1,
         Kind <- "uring", MaxEvents <- 1, Sets <- {}, MayMod <- FALSE, MaxOps <- 0
UrAio == INSTANCE Backends WITH Lats <- {}, Fds <- {"fd"}, Aios <- {"x", "y"}, SqCap <- 2, Short <- FALSE, Single <- TRUE,
         Nodes <- 1 .. 2, MaxRegs <- 1, MaxFiles <- 1,
         Kind <- "uring", MaxEvents <- 1, Sets <- {}, MayMod <- FALSE, MaxOps <- 0

(* The other reactor backends: two descriptors in the tables of poll and select, one with
   both directions in the kernel's queues. *)
BePoll == INSTANCE Backends WITH Lats <- {}, Kind <- "poll", Fds <- {1, 2}, MaxEvents <- 1, MaxRegs <- 3,
         Sets <- {{"r"}}, MayMod <- FALSE, Aios <- {}, MaxOps <- 0,
         SqCap <- 0, Short <- FALSE, Single <- FALSE, Nodes <- {}, MaxFiles <- 0
BeSelect == INSTANCE Backends WITH Lats <- {}, Kind <- "select", Fds <- {1, 2}, MaxEvents <- 1, MaxRegs <- 3,
         Sets <- {{"r"}}, MayMod <- FALSE, Aios <- {}, MaxOps <- 0,
         SqCap <- 0, Short <- FALSE, Single <- FALSE, Nodes <- {}, MaxFiles <- 0
BeKq == INSTANCE Backends WITH Lats <- {}, Kind <- "kqueue", Fds <- {1}, MaxEvents <- 1, MaxRegs <- 3,
         Sets <- {{"r"}, {"w"}, {"r", "w"}}, MayMod <- TRUE, Aios <- {}, MaxOps <- 0,
         SqCap <- 0, Short <- FALSE, Single <- FALSE, Nodes <- {}, MaxFiles <- 0
BePort == INSTANCE Backends WITH Lats <- {}, Kind <- "port", Fds <- {1, 2}, MaxEvents <- 1, MaxRegs <- 2,
         Sets <- {{"r"}}, MayMod <- TRUE, Aios <- {}, MaxOps <- 0,
         SqCap <- 0, Short <- FALSE, Single <- FALSE, Nodes <- {}, MaxFiles <- 0
BeAix == INSTANCE Backends WITH Lats <- {}, Kind <- "aix", Fds <- {1}, MaxEvents <- 2, MaxRegs <- 2,
         Sets <- {{"r"}}, MayMod <- TRUE, Aios <- {}, MaxOps <- 0,
         SqCap <- 0, Short <- FALSE, Single <- FALSE, Nodes <- {}, MaxFiles <- 0
BeEpoll == INSTANCE Backends WITH Lats <- {}, Kind <- "epoll", Fds <- {1}, MaxEvents <- 1, MaxRegs <- 2,
         Sets <- {{"r"}, {"w"}}, MayMod <- TRUE, Aios <- {}, MaxOps <- 0,
         SqCap <- 0, Short <- FALSE, Single <- FALSE, Nodes <- {}, MaxFiles <- 0

(* The completion port, of two descriptors, and of one beside a request: the buffer takes
   all there is (README, on what happens otherwise). *)
Iocp == INSTANCE Backends WITH Lats <- {}, Kind <- "iocp", Fds <- {1, 2}, MaxEvents <- 8, MaxRegs <- 2,
         Sets <- {}, MayMod <- FALSE, Aios <- {}, MaxOps <- 0,
         SqCap <- 0, Short <- FALSE, Single <- FALSE, Nodes <- {}, MaxFiles <- 0
IocpAio == INSTANCE Backends WITH Lats <- {}, Kind <- "iocp", Fds <- {1}, MaxEvents <- 8, MaxRegs <- 2,
         Sets <- {}, MayMod <- FALSE, Aios <- {"x"}, MaxOps <- 0,
         SqCap <- 0, Short <- FALSE, Single <- FALSE, Nodes <- {}, MaxFiles <- 0
AioF == INSTANCE Backends WITH Lats <- {}, Kind <- "aio", Fds <- {1}, MaxEvents <- 1, MaxRegs <- 0,
         Sets <- {}, MayMod <- FALSE, Aios <- {}, MaxOps <- 3,
         SqCap <- 0, Short <- FALSE, Single <- FALSE, Nodes <- {}, MaxFiles <- 0

(* The simulated disk: the data of one fiber, completed at once; the events of two. *)
SimDisk == INSTANCE Backends WITH Lats <- {}, Kind <- "sim", Fds <- {}, MaxEvents <- 1, MaxRegs <- 0,
         Sets <- {"PREAD", "PWRITE", "PWRITEV", "FSYNC"}, MayMod <- FALSE, Aios <- {1}, MaxOps <- 4,
         SqCap <- 1, Short <- FALSE, Single <- FALSE, Nodes <- {}, MaxFiles <- 0
SimQueue == INSTANCE Backends WITH Lats <- {0, 1}, Kind <- "sim", Fds <- {}, MaxEvents <- 1, MaxRegs <- 0,
         Sets <- {"PREADV"}, MayMod <- TRUE, Aios <- {1, 2}, MaxOps <- 3,
         SqCap <- 1, Short <- FALSE, Single <- FALSE, Nodes <- {}, MaxFiles <- 0

(* The tuner of two settings, each with a measure of its own; write batching by one. *)
Tuned == INSTANCE Cfg WITH
  Fibers <- {}, Threads <- {}, Names <- {}, Kinds <- {}, Sessions <- {},
  None <- 0, Values <- {}, Sources <- {}, IntMax <- 0, File <- <<>>, MaxVars <- 0, MaxLevels <- 0,
  Lo <- 1, Hi <- 2, PhenoOf <- <<1, 2>>, Pop <- 2, FreezeAfter <- 1, Fits <- {100, 200},
  MaxCalls <- 6
Batched == INSTANCE Cfg WITH
  Fibers <- {}, Threads <- {}, Names <- {}, Kinds <- {}, Sessions <- {},
  None <- 0, Values <- {}, Sources <- {}, IntMax <- 0, File <- <<>>, MaxVars <- 0, MaxLevels <- 0,
  Lo <- 1, Hi <- 3, PhenoOf <- <<1>>, Pop <- 2, FreezeAfter <- 2, Fits <- {100, 101, 200},
  MaxCalls <- 10
(* The tail: a ring of two, and a stamp that does not fit.  The histogram: two threads on the
   same shard or on two. *)
Tailed == INSTANCE Trace WITH
  Threads <- {1}, Kinds <- {0, 2, 9},
  Fields <- (0 :> <<"worker_id", "local_queue", "task_id", "spawn_loc">>
               @@ 2 :> <<"worker_id", "task_id", "detail">>),
  Ticks <- {2, 5}, Ring <- 2, DeltaMax <- 3, Base <- 2, MaxEvents <- 3, BaseBits <- 6,
  SubBits <- 2, Shards <- 1, Vals <- {0, 100}, Quantiles <- {}
Hist == INSTANCE Trace WITH
  Threads <- {1, 2}, Kinds <- {}, Fields <- <<>>, Ticks <- {}, Ring <- 1, DeltaMax <- 0, Base <- 2,
  MaxEvents <- 2, BaseBits <- 3, SubBits <- 0, Shards <- 2, Vals <- {2, 3, 9},
  Quantiles <- {<<1, 2>>, <<1, 1>>}

On(x) == scene = x

Init ==
  /\ scene \in Scenes
  /\ \/ On("mgr") /\ Mgr!Init
     \/ On("mgrVec") /\ MgrVec!Init
     \/ On("mgrDetect") /\ MgrDetect!Init
     \/ On("mgrExpire") /\ MgrExpire!Init
     \/ On("slab") /\ Sl!Init
     \/ On("slabSlow") /\ SlSlow!Init
     \/ On("shm") /\ Shm!ShmInit
     \/ On("mctx") /\ Mc!McInit
     \/ On("arena") /\ Grp!GrpInit
     \/ On("supRate") /\ SupRate!Init
     \/ On("supAll") /\ SupAll!Init
     \/ On("supRest") /\ SupRest!Init
     \/ On("supPool") /\ SupPool!Init
     \/ On("appOwned") /\ AppOwned!Init
     \/ On("appLent") /\ AppLent!Init
     \/ On("appExec") /\ AppExec!Init
     \/ On("fsm") /\ Fsm!FsmInit
     \/ On("reg") /\ Reg!RegInit
     \/ On("respool") /\ Small!PoolInit
     \/ On("credit") /\ Small!CreditInit
     \/ On("saga") /\ Small!SagaInit
     \/ On("stream") /\ Small!StreamInit
     \/ On("tntMail") /\ TntMail!Init
     \/ On("tntExt") /\ TntExt!Init
     \/ On("tntIo") /\ TntIo!Init
     \/ On("tntStop") /\ TntStop!Init
     \/ On("xfork") /\ XFork!XInit
     \/ On("xentry") /\ XEntry!XInit
     \/ On("oscall") /\ XFork!CallInit
     \/ On("launch") /\ XFork!LaunchInit
     \/ On("urFd") /\ UrFd!UrInit
     \/ On("urAio") /\ UrAio!UrInit
     \/ On("urShort") /\ UrShort!UrInit
     \/ On("bePoll") /\ BePoll!BInit
     \/ On("beSelect") /\ BeSelect!BInit
     \/ On("beKq") /\ BeKq!BInit
     \/ On("bePort") /\ BePort!BInit
     \/ On("beAix") /\ BeAix!BInit
     \/ On("beEpoll") /\ BeEpoll!BInit
     \/ On("iocp") /\ Iocp!IInit
     \/ On("iocpAio") /\ IocpAio!IInit
     \/ On("aioF") /\ AioF!AInit
     \/ On("simDisk") /\ SimDisk!SInit
     \/ On("simQueue") /\ SimQueue!SInit
     \/ On("tuned") /\ Tuned!TuneInit
     \/ On("batched") /\ Batched!TuneInit
     \/ On("tail") /\ Tailed!Init
     \/ On("hist") /\ Hist!HInit

Next ==
  \/ On("mgr") /\ Mgr!Next /\ UNCHANGED scene
  \/ On("mgrVec") /\ MgrVec!Next /\ UNCHANGED scene
  \/ On("mgrDetect") /\ MgrDetect!Next /\ UNCHANGED scene
  \/ On("mgrExpire") /\ MgrExpire!Next /\ UNCHANGED scene
  \/ On("slab") /\ Sl!Next /\ UNCHANGED scene
  \/ On("slabSlow") /\ SlSlow!Next /\ UNCHANGED scene
  \/ On("shm") /\ Shm!ShmNext /\ UNCHANGED scene
  \/ On("mctx") /\ Mc!McNext /\ UNCHANGED scene
  \/ On("arena") /\ Grp!GrpNext /\ UNCHANGED scene
  \/ On("supRate") /\ SupRate!Next /\ UNCHANGED scene
  \/ On("supAll") /\ SupAll!Next /\ UNCHANGED scene
  \/ On("supRest") /\ SupRest!Next /\ UNCHANGED scene
  \/ On("supPool") /\ SupPool!Next /\ UNCHANGED scene
  \/ On("appOwned") /\ AppOwned!Next /\ UNCHANGED scene
  \/ On("appLent") /\ AppLent!Next /\ UNCHANGED scene
  \/ On("appExec") /\ AppExec!Next /\ UNCHANGED scene
  \/ On("fsm") /\ Fsm!FsmNext /\ UNCHANGED scene
  \/ On("reg") /\ Reg!RegNext /\ UNCHANGED scene
  \/ On("respool") /\ Small!PoolNext /\ UNCHANGED scene
  \/ On("credit") /\ Small!CreditNext /\ UNCHANGED scene
  \/ On("saga") /\ Small!SagaNext /\ UNCHANGED scene
  \/ On("stream") /\ Small!StreamNext /\ UNCHANGED scene
  \/ On("tntMail") /\ TntMail!Next /\ UNCHANGED scene
  \/ On("tntExt") /\ TntExt!Next /\ UNCHANGED scene
  \/ On("tntIo") /\ TntIo!Next /\ UNCHANGED scene
  \/ On("tntStop") /\ TntStop!Next /\ UNCHANGED scene
  \/ On("xfork") /\ XFork!XNext /\ UNCHANGED scene
  \/ On("xentry") /\ XEntry!XNext /\ UNCHANGED scene
  \/ On("oscall") /\ XFork!CallNext /\ UNCHANGED scene
  \/ On("launch") /\ XFork!LaunchNext /\ UNCHANGED scene
  \/ On("urFd") /\ UrFd!UrNext /\ UNCHANGED scene
  \/ On("urAio") /\ UrAio!UrNext /\ UNCHANGED scene
  \/ On("urShort") /\ UrShort!UrNext /\ UNCHANGED scene
  \/ On("bePoll") /\ BePoll!BNext /\ UNCHANGED scene
  \/ On("beSelect") /\ BeSelect!BNext /\ UNCHANGED scene
  \/ On("beKq") /\ BeKq!BNext /\ UNCHANGED scene
  \/ On("bePort") /\ BePort!BNext /\ UNCHANGED scene
  \/ On("beAix") /\ BeAix!BNext /\ UNCHANGED scene
  \/ On("beEpoll") /\ BeEpoll!BNext /\ UNCHANGED scene
  \/ On("iocp") /\ Iocp!INext /\ UNCHANGED scene
  \/ On("iocpAio") /\ IocpAio!INext /\ UNCHANGED scene
  \/ On("aioF") /\ AioF!ANext /\ UNCHANGED scene
  \/ On("simDisk") /\ SimDisk!SNext /\ UNCHANGED scene
  \/ On("simQueue") /\ SimQueue!SNext /\ UNCHANGED scene
  \/ On("tuned") /\ Tuned!TuneNext /\ UNCHANGED scene
  \/ On("batched") /\ Batched!IoNext /\ UNCHANGED scene
  \/ On("tail") /\ Tailed!Next /\ UNCHANGED scene
  \/ On("hist") /\ Hist!HNext /\ UNCHANGED scene

Spec == Init /\ [][Next]_vars

----------------------------------------------------------------------------

(* Nobody waits on for what is there: a lock that a release, a downgrade, a timeout or a
   victim made free; a name whose holder died; a shard that parks beside mail, completions
   or due timers; the parent of a process that ended, or the shadow of one; a descriptor
   that is ready while its reactor sleeps; a request whose completion was swept up by
   another. *)
NobodyStranded ==
  /\ On("mgr") => Mgr!NotStranded
  /\ On("mgrVec") => MgrVec!NotStranded
  /\ On("mgrDetect") => MgrDetect!NotStranded
  /\ On("arena") => Grp!ResetAlone
  /\ On("reg") => Reg!DeadIsReaped
  /\ On("tntMail") => TntMail!ParkIsWoken /\ TntMail!NoneForgotten
  /\ On("tntExt") => TntExt!ParkIsWoken /\ TntExt!NoneForgotten
  /\ On("tntIo") => TntIo!ParkIsWoken /\ TntIo!NoneForgotten
  /\ On("tntStop") => TntStop!ParkIsWoken /\ TntStop!NoneForgotten
  /\ On("xfork") => XFork!DownTrue /\ XFork!ExitTrue /\ XFork!NoOrphan
  /\ On("xentry") => XEntry!DownTrue /\ XEntry!ExitTrue /\ XEntry!NoOrphan
  /\ On("launch") => XFork!LaunchTrue
  /\ On("urFd") => UrFd!Watched
  /\ On("urAio") => UrAio!Watched
  /\ On("urShort") => UrShort!Watched
  /\ On("bePoll") => BePoll!NothingUnheard
  /\ On("beSelect") => BeSelect!NothingUnheard
  /\ On("beKq") => BeKq!NothingUnheard
  /\ On("bePort") => BePort!NothingUnheard
  /\ On("beAix") => BeAix!NothingUnheard
  /\ On("beEpoll") => BeEpoll!NothingUnheard
  /\ On("iocp") => Iocp!StaysArmed
  /\ On("iocpAio") => IocpAio!StaysArmed
  /\ On("iocp") => Iocp!SweepHeard
  /\ On("iocpAio") => IocpAio!SweepHeard
  /\ On("aioF") => AioF!AioHeard
  /\ On("simQueue") => SimQueue!SimHeard

(* What fails part-way is undone: a compound lock request leaves what its locker held
   before, and a saga has compensated each step it completed, in reverse. *)
AllOrNone ==
  /\ On("mgrVec") => MgrVec!AllOrNone
  /\ On("saga") => Small!SagaUndone


(* A supervisor knows its children, and no replacement runs beside its predecessor; it
   gives up exactly when the intensity says so, bounds a pool, answers each add with its
   own child, and is freed after its last step with no child left that it waited for.  A
   drain reaches every body that runs, and its report is true. *)
Supervised ==
  /\ On("supRate") => SupRate!Supervised
  /\ On("supAll") => SupAll!Supervised
  /\ On("supRest") => SupRest!Supervised
  /\ On("supPool") => SupPool!Supervised
  /\ On("appOwned") => AppOwned!Supervised
  /\ On("appLent") => AppLent!Supervised
  /\ On("appExec") => AppExec!Supervised

(* The lock manager: a deadlock victim holds nothing. *)
VictimHoldsNothing == On("mgrExpire") => MgrExpire!VictimHoldsNothing
=============================================================================
