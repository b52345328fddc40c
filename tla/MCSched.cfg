CONSTANTS
    l1 = l1
    l2 = l2
    t1 = t1
    t2 = t2
    w1 = w1
    w2 = w2
    None = None
    Home <- AllHome
    Threads <- OneThread
    Pinned <- NoPinned
    DequeCap = 1
    Loops <- OneLoop
    Tasks <- TwoTasks
    NudgeMayFail = TRUE
    Scenes = {"sched", "lanes", "picked", "serves", "finite", "timed", "sim",
              "heap", "sweep", "queue", "fibers", "fiberMoves", "fiberWin",
              "stacks", "structs", "ticksKq", "ticksPx"}
SPECIFICATION SceneSpec
INVARIANTS TypeOK QueuedOnce LatchNotOrphaned WorkPlaced FibersApart
CHECK_DEADLOCK FALSE
