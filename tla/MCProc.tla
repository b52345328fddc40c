------------------------------- MODULE MCProc -------------------------------
(***************************************************************************)
(* The proc layer of ptc/proc.c, what stands on it (futures, the blocking  *)
(* pool, a supervisor, servers) and under it (a fiber), for                *)
(* TLC.  A behaviour looks at one mechanism: `scene` names it and `st` is  *)
(* its state.                                                              *)
(***************************************************************************)
EXTENDS Naturals, Sequences

CONSTANTS a, b, None, Scenes

VARIABLES scene, st
vars == <<scene, st>>

(* Two procs that link and monitor each other, and a proc that spawns another. *)
Links == INSTANCE ProcLinks WITH Procs <- {a, b}, Children <- {}, MaxCalls <- 2, MaxRefs <- 1,
           MON_SWEEP <- 1
Spawns == INSTANCE ProcLinks WITH Procs <- {a, b}, Children <- {b}, MaxCalls <- 2, MaxRefs <- 1,
           MON_SWEEP <- 1
(* A mailbox that fills, and one whose proc is killed and woken beside its mail. *)
Mail == INSTANCE ProcMailbox WITH Senders <- {a}, Killers <- {}, Wakers <- {}, Cap <- 1,
           Waits <- {"no", "timed", "forever"}, MaxSends <- 3, MaxCalls <- 2
Kill == INSTANCE ProcMailbox WITH Senders <- {a}, Killers <- {a}, Wakers <- {a}, Cap <- 1,
           Waits <- {"timed", "forever", "sleep"}, MaxSends <- 1, MaxCalls <- 2
(* Two loops share two tables, so that a table is used again. *)
Table == INSTANCE ProcTable WITH Readers <- {a}, NTables <- 2, MaxLoops <- 2, MaxProcs <- 2,
           MaxResolves <- 1, Killers <- {}, MaxDepth <- 0, MaxIds <- 0, MaxScopes <- 0
Mask == INSTANCE ProcTable WITH Readers <- {}, NTables <- 0, MaxLoops <- 0, MaxProcs <- 0,
          MaxResolves <- 0, Killers <- {a}, MaxDepth <- 2, MaxIds <- 2, MaxScopes <- 2
(* A proc that waits twice and moves between two loops, one that waits twice and has mail,
   and one that is killed. *)
Fd == INSTANCE ProcWaitFd WITH Loops <- {1, 2}, Home <- 1, MaxParks <- 2, MaxSends <- 0,
           Kills <- FALSE
FdMail == INSTANCE ProcWaitFd WITH Loops <- {1}, Home <- 1, MaxParks <- 2, MaxSends <- 1,
           Kills <- FALSE
FdKill == INSTANCE ProcWaitFd WITH Loops <- {1, 2}, Home <- 1, MaxParks <- 1, MaxSends <- 1,
           Kills <- TRUE

(* The combinators of futures, over two sources or one, and the dispatcher. *)
FutAll == INSTANCE Future WITH Kind <- "all", Srcs <- {"s1", "s2"},
          Statuses <- {"OK", "ABORTED", "INVAL"}, Timed <- FALSE, MayKill <- FALSE, Workers <- {},
          Callers <- {}, Fibers <- {}, Detached <- {}, QueueMax <- 0, Stops <- 0
FutAny == INSTANCE Future WITH Kind <- "any", Srcs <- {"s1", "s2"},
          Statuses <- {"OK", "ABORTED"}, Timed <- TRUE, MayKill <- FALSE, Workers <- {},
          Callers <- {}, Fibers <- {}, Detached <- {}, QueueMax <- 0, Stops <- 0
FutTimeout == INSTANCE Future WITH Kind <- "timeout", Srcs <- {"s1"},
          Statuses <- {"OK", "ABORTED", "AGAIN"}, Timed <- FALSE, MayKill <- TRUE, Workers <- {},
          Callers <- {}, Fibers <- {}, Detached <- {}, QueueMax <- 0, Stops <- 0
FutThen == INSTANCE Future WITH Kind <- "then", Srcs <- {"s1"},
          Statuses <- {"OK", "ABORTED"}, Timed <- TRUE, MayKill <- TRUE, Workers <- {},
          Callers <- {}, Fibers <- {}, Detached <- {}, QueueMax <- 0, Stops <- 0
FutMap == INSTANCE Future WITH Kind <- "map", Srcs <- {"s1"},
          Statuses <- {"OK", "ABORTED"}, Timed <- TRUE, MayKill <- TRUE, Workers <- {},
          Callers <- {}, Fibers <- {}, Detached <- {}, QueueMax <- 0, Stops <- 0
Disp == INSTANCE Future WITH Kind <- "dispatch", Srcs <- {},
          Statuses <- {"OK", "ABORTED"}, Timed <- TRUE, MayKill <- TRUE, Workers <- {},
          Callers <- {}, Fibers <- {}, Detached <- {}, QueueMax <- 0, Stops <- 0

(* The blocking pool: two threads at most, three calls, one shutdown. *)
Pool == INSTANCE Future WITH Kind <- "none", Srcs <- {}, Statuses <- {}, Timed <- FALSE,
          MayKill <- TRUE, Workers <- {1, 2}, Callers <- {1, 2, 3}, Fibers <- {1},
          Detached <- {3}, QueueMax <- 2, Stops <- 1

(* A supervisor that restarts the rest, and may be killed. *)
SupRest == INSTANCE Sup WITH Strategy <- "REST_FOR_ONE", Policies <- <<"TRANSIENT", "PERMANENT">>,
           MaxRestarts <- 1, Period <- 2, MaxChildren <- 0, AddPolicy <- "TEMPORARY", Adds <- 0,
           MaxPids <- 3, MaxNow <- 0, MayKill <- TRUE, App <- "none", Signal <- FALSE

(* A server with a thread that waits forever beside one that does not; and one with a proc
   that waits forever but for a token. *)
SvrSlot == INSTANCE Svr WITH Threads <- {a, b}, Procs <- {}, Timed <- {b}, Aborters <- {},
           MaxCalls <- 2, MayKill <- TRUE
SvrMail == INSTANCE Svr WITH Threads <- {}, Procs <- {b}, Timed <- {}, Aborters <- {b},
           MaxCalls <- 2, MayKill <- TRUE

(* Two fibers that must share their thread. *)
FiberRuns == INSTANCE Coro WITH Threads <- {a}, Fibers <- {1, 2}, Home <- <<a, a>>,
          Procs <- {2}, Migratable <- {}, Awaits <- {<<2, 1>>}, Substrate <- "fctx",
          Involuntary <- TRUE, MaxYields <- 1, Targets <- {}, PoolMax <- 1,
          Sizes <- {1}, SpareMax <- 1, MaxSpawns <- 1

(* The configuration: two procs and two sessions that are bound, moved and destroyed; a
   proc and a thread with nested levels and a variable that comes and goes; a file, with
   values of every kind, against a variable that changes its kind. *)
CfgBind == INSTANCE Cfg WITH
  Fibers <- {a, b}, Threads <- {}, Names <- {"x"}, Kinds <- {"STRING"}, Sessions <- {1, 2},
  Values <- {1}, Sources <- {0}, Lo <- 1, Hi <- 2, IntMax <- 3, File <- <<>>, MaxVars <- 1,
  MaxLevels <- 1, MaxCalls <- 7, PhenoOf <- <<>>, Pop <- 0, FreezeAfter <- 0, Fits <- {}
CfgNest == INSTANCE Cfg WITH
  Fibers <- {a}, Threads <- {b}, Names <- {"x"}, Kinds <- {"STRING"}, Sessions <- {1},
  Values <- {1, 2}, Sources <- {0, 1}, Lo <- 1, Hi <- 2, IntMax <- 3, File <- <<>>, MaxVars <- 2,
  MaxLevels <- 3, MaxCalls <- 7, PhenoOf <- <<>>, Pop <- 0, FreezeAfter <- 0, Fits <- {}
CfgFile == INSTANCE Cfg WITH
  Fibers <- {a, b}, Threads <- {}, Names <- {"x"}, Kinds <- {"INT", "STRING"}, Sessions <- {1},
  Values <- {0, 2}, Sources <- {0}, Lo <- 1, Hi <- 2, IntMax <- 3,
  File <- <<<<"x", 0>>, <<"x", 2>>, <<"x", 5>>>>, MaxVars <- 2, MaxLevels <- 1, MaxCalls <- 5,
  PhenoOf <- <<>>, Pop <- 0, FreezeAfter <- 0, Fits <- {}

On(x) == scene = x

Init ==
  /\ scene \in Scenes
  /\ \/ On("links") /\ Links!Init
     \/ On("spawns") /\ Spawns!Init
     \/ On("mail") /\ Mail!Init
     \/ On("kill") /\ Kill!Init
     \/ On("table") /\ Table!Init
     \/ On("mask") /\ Mask!MInit
     \/ On("fd") /\ Fd!Init
     \/ On("fdMail") /\ FdMail!Init
     \/ On("fdKill") /\ FdKill!Init
     \/ On("futAll") /\ FutAll!Init
     \/ On("futAny") /\ FutAny!Init
     \/ On("futTimeout") /\ FutTimeout!Init
     \/ On("futThen") /\ FutThen!Init
     \/ On("futMap") /\ FutMap!Init
     \/ On("dispatch") /\ Disp!Init
     \/ On("pool") /\ Pool!PoolInit
     \/ On("supRest") /\ SupRest!Init
     \/ On("svrSlot") /\ SvrSlot!Init
     \/ On("svrMail") /\ SvrMail!Init
     \/ On("cfgBind") /\ CfgBind!Init
     \/ On("cfgNest") /\ CfgNest!Init
     \/ On("cfgFile") /\ CfgFile!Init
     \/ On("fiberRuns") /\ FiberRuns!FInit

Next ==
  \/ On("links") /\ Links!Next /\ UNCHANGED scene
  \/ On("spawns") /\ Spawns!Next /\ UNCHANGED scene
  \/ On("mail") /\ Mail!Next /\ UNCHANGED scene
  \/ On("kill") /\ Kill!Next /\ UNCHANGED scene
  \/ On("table") /\ Table!Next /\ UNCHANGED scene
  \/ On("mask") /\ Mask!MNext /\ UNCHANGED scene
  \/ On("fd") /\ Fd!Next /\ UNCHANGED scene
  \/ On("fdMail") /\ FdMail!Next /\ UNCHANGED scene
  \/ On("fdKill") /\ FdKill!Next /\ UNCHANGED scene
  \/ On("futAll") /\ FutAll!Next /\ UNCHANGED scene
  \/ On("futAny") /\ FutAny!Next /\ UNCHANGED scene
  \/ On("futTimeout") /\ FutTimeout!Next /\ UNCHANGED scene
  \/ On("futThen") /\ FutThen!Next /\ UNCHANGED scene
  \/ On("futMap") /\ FutMap!Next /\ UNCHANGED scene
  \/ On("dispatch") /\ Disp!Next /\ UNCHANGED scene
  \/ On("pool") /\ Pool!PoolNext /\ UNCHANGED scene
  \/ On("supRest") /\ SupRest!Next /\ UNCHANGED scene
  \/ On("cfgBind") /\ CfgBind!Next /\ UNCHANGED scene
  \/ On("cfgNest") /\ CfgNest!Next /\ UNCHANGED scene
  \/ On("cfgFile") /\ CfgFile!Next /\ UNCHANGED scene
  \/ On("svrSlot") /\ SvrSlot!Next /\ UNCHANGED scene
  \/ On("svrMail") /\ SvrMail!Next /\ UNCHANGED scene
  \/ On("fiberRuns") /\ FiberRuns!FNext /\ UNCHANGED scene

Spec == Init /\ [][Next]_vars

(* A proc in a call runs when it can: its loop, or a thief, steps it. *)
ProcMoves ==
  \/ On("mail") /\ Mail!Runs
  \/ On("kill") /\ Kill!Runs
  \/ On("fd") /\ Fd!Runs
  \/ On("fdMail") /\ FdMail!Runs
  \/ On("fdKill") /\ FdKill!Runs
  \/ On("futAll") /\ FutAll!Runs
  \/ On("futTimeout") /\ FutTimeout!Runs
  \/ On("pool") /\ Pool!PoolWorks
  \/ On("supRest") /\ SupRest!SupRuns
  \/ On("svrSlot") /\ SvrSlot!CallerRuns(a)
  \/ On("svrMail") /\ SvrMail!CallerRuns(b)
  \/ On("fiberRuns") /\ FiberRuns!Runs(a)

(* A loop's thread fires timers and dispatches events. *)
LoopMoves(l) ==
  \/ On("mail") /\ l = 1 /\ (Mail!Tick \/ Mail!Fire)
  \/ On("kill") /\ l = 1 /\ (Kill!Tick \/ Kill!Fire)
  \/ On("fd") /\ Fd!LoopRuns(l)
  \/ On("fdMail") /\ l = 1 /\ FdMail!LoopRuns(l)
  \/ On("fdKill") /\ FdKill!LoopRuns(l)

(* A thread that has begun a kill ends it. *)
KillerMoves ==
  \/ On("kill") /\ (Kill!KillMark(a) \/ Kill!KillWake(a))
  \/ On("fdKill") /\ FdKill!KillWake

(* The timer does not always spare a fiber that computes where it may be diverted. *)
TickDiverts == On("fiberRuns") /\ FiberRuns!Tick(a) /\ FiberRuns!Redirects(a)

FairSpec ==
  /\ Spec
  /\ WF_vars(ProcMoves /\ UNCHANGED scene)
  /\ \A l \in {1, 2} : WF_vars(LoopMoves(l) /\ UNCHANGED scene)
  /\ WF_vars(KillerMoves /\ UNCHANGED scene)
  /\ SF_vars(TickDiverts /\ UNCHANGED scene)

----------------------------------------------------------------------------
(* A monitor is answered by one DOWN at most, with the target's reason; its entry is
   freed by the last of its two ends, whichever exits first; and a proc that was spawned
   linked or monitored never ends unheard by a parent that lives. *)
PeersHeardOnce ==
  /\ On("links") => Links!DownOnce /\ Links!EntryHeld
  /\ On("spawns") => Spawns!DownOnce /\ Spawns!EntryHeld /\ Spawns!SpawnHeard

(* Messages of one kind are received in the order in which they were accepted, none is
   lost or doubled by selective receive, timeouts or wakes, and the mailbox holds no more
   than its capacity, the one message in the receiver's hands, and the signals. *)
MailKept ==
  /\ On("mail") => Mail!MailInOrder /\ Mail!MailBounded
  /\ On("kill") => Kill!MailInOrder /\ Kill!MailBounded

(* Nobody is parked with mail or a kill that no one is about to tell of, nor on a
   descriptor or a deadline whose registration or timer is gone, nor in an await of a task
   that has ended. *)
NobodyStranded ==
  /\ On("mail") => Mail!NoSleepOnMail
  /\ On("kill") => Kill!NoSleepOnMail
  /\ On("fd") => Fd!ParkIsWatched
  /\ On("fdMail") => FdMail!ParkIsWatched
  /\ On("fdKill") => FdKill!ParkIsWatched
  /\ On("fiberRuns") => FiberRuns!AwaitWakes

(* A pid resolves to the proc it was given to or to none, although loops come and go,
   tables are used again and generations start anew, and a loop that is registered
   throughout is found.  A fiber that computes and is diverted runs as that fiber, on its own stack
   and as its own proc.  A proc reads its settings through the session it has bound itself,
   at the level it is at, and reads a value that the variable accepts. *)
Identity ==
  /\ On("table") => Table!PidExact /\ Table!LoopFound
  /\ On("cfgBind") => CfgBind!BindingIsOwn /\ CfgBind!LevelsNest /\ CfgBind!ValuesAccepted
  /\ On("cfgNest") => CfgNest!BindingIsOwn /\ CfgNest!LevelsNest /\ CfgNest!ValuesAccepted
  /\ On("cfgFile") => CfgFile!BindingIsOwn /\ CfgFile!LevelsNest /\ CfgFile!ValuesAccepted
  /\ On("fiberRuns") => FiberRuns!RunsAsItself /\ FiberRuns!OneContext

(* Reference counts are the references: of a proc, its owner's and the resolves' in
   flight; of a park timer, the heap's and the task's; of a future's cell, its promise, its handle
   and its pending callback; of a configuration variable, the registry's and the overrides'.
   Each is freed once, by the last.  The blocking pool's queue
   and idle workers are counted right. *)
RefsExact ==
  /\ On("table") => Table!RefsExact
  /\ On("fd") => Fd!TimerRefs
  /\ On("fdMail") => FdMail!TimerRefs
  /\ On("fdKill") => FdKill!TimerRefs
  /\ On("futAll") => FutAll!RefsExact
  /\ On("futAny") => FutAny!RefsExact
  /\ On("futTimeout") => FutTimeout!RefsExact
  /\ On("futThen") => FutThen!RefsExact
  /\ On("futMap") => FutMap!RefsExact
  /\ On("dispatch") => Disp!RefsExact
  /\ On("cfgBind") => CfgBind!RefsExact
  /\ On("cfgNest") => CfgNest!RefsExact
  /\ On("cfgFile") => CfgFile!RefsExact
  /\ On("pool") => Pool!PoolCounted

(* Whatever ends a proc, a return, a kill or a fault, every resource whose acquire returned
   is cleaned up exactly once and no kill cuts a cleanup short; and whatever ends a wait,
   nothing it registered is left behind.  A combinator of futures resolves once, rightly, and
   its context is freed after its last use; the frame of a blocking call is there while a
   worker has it, also when its fiber was killed.  The kill mask is as deep as the regions that
   raised it, those that a caught fault jumped out of included: nobody lowers theirs. *)
NothingLeft ==
  /\ On("mask") => Mask!CleanedOnce /\ Mask!MaskBalanced
  /\ On("fd") => Fd!NothingLeft
  /\ On("fdMail") => FdMail!NothingLeft
  /\ On("fdKill") => FdKill!NothingLeft
  /\ On("futAll") => FutAll!ResolvedOnce /\ FutAll!ResultRight /\ FutAll!NoWaiterLeft
  /\ On("futAny") => FutAny!ResolvedOnce /\ FutAny!ResultRight /\ FutAny!NoWaiterLeft
  /\ On("futTimeout") => FutTimeout!ResolvedOnce /\ FutTimeout!ResultRight /\ FutTimeout!NoWaiterLeft
  /\ On("futThen") => FutThen!ResolvedOnce /\ FutThen!ResultRight /\ FutThen!NoWaiterLeft
  /\ On("futMap") => FutMap!ResolvedOnce /\ FutMap!ResultRight /\ FutMap!NoWaiterLeft
  /\ On("dispatch") => Disp!ResolvedOnce /\ Disp!ResultRight /\ Disp!NoWaiterLeft
  /\ On("pool") => Pool!FrameKept

(* A call to a server returns the reply to itself, or the truth about why there is none;
   whatever ends the server, it leaves nothing behind. *)
Answered ==
  /\ On("svrSlot") => SvrSlot!OwnReply /\ SvrSlot!ReplyKept /\ SvrSlot!NotFoundTrue /\ SvrSlot!ExitClean
  /\ On("svrMail") => SvrMail!OwnReply /\ SvrMail!ReplyKept /\ SvrMail!NotFoundTrue /\ SvrMail!ExitClean

MustReturn ==
  \/ On("mail") /\ Mail!MustReturn
  \/ On("kill") /\ Kill!MustReturn
  \/ On("fd") /\ Fd!MustReturn
  \/ On("fdMail") /\ FdMail!MustReturn
  \/ On("fdKill") /\ FdKill!MustReturn
  \/ On("futAll") /\ FutAll!MustReturn
  \/ On("futTimeout") /\ FutTimeout!MustReturn
  \/ On("pool") /\ Pool!PoolOwes(1)
  \/ On("supRest") /\ SupRest!MustStop
  \/ On("svrSlot") /\ SvrSlot!MustReturn(a)
  \/ On("svrMail") /\ SvrMail!MustReturn(b)
  \/ On("fiberRuns") /\ FiberRuns!Queued(1)

Returned ==
  \/ On("mail") /\ Mail!Returned
  \/ On("kill") /\ Kill!Returned
  \/ On("fd") /\ Fd!Returned
  \/ On("fdMail") /\ FdMail!Returned
  \/ On("fdKill") /\ FdKill!Returned
  \/ On("futAll") /\ FutAll!Returned
  \/ On("futTimeout") /\ FutTimeout!Returned
  \/ On("pool") /\ Pool!PoolServed(1)
  \/ On("supRest") /\ SupRest!Stopped
  \/ On("svrSlot") /\ SvrSlot!Returned(a)
  \/ On("svrMail") /\ SvrMail!Returned(b)
  \/ On("fiberRuns") /\ ~FiberRuns!Queued(1)


----------------------------------------------------------------------------
(* xtc_monitor: once the target's exit is through, a watcher that still runs has its
   DOWN. *)
DownDelivered == Links!DownDelivered
=============================================================================
