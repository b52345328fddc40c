CONSTANTS
    l1 = l1
    l2 = l2
    t1 = t1
    t2 = t2
    w1 = w1
    w2 = w2
    None = None
    Tasks <- OneTask
    Home <- AllHome
    Loops <- OneLoop
    Threads <- TwoThreads
    Pinned <- PinnedOne
    DequeCap = 0
    NudgeMayFail = FALSE
    Scenes = {"sched"}
SPECIFICATION SceneSpec
INVARIANTS NoLostWake
CHECK_DEADLOCK FALSE
