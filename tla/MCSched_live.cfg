CONSTANTS
    l1 = l1
    l2 = l2
    t1 = t1
    t2 = t2
    w1 = w1
    w2 = w2
    None = None
    Tasks <- OneTask
    Home <- AllHome
    Loops <- TwoLoops
    Threads <- OneThread
    Pinned <- PinnedOne
    DequeCap = 1
    NudgeMayFail = FALSE
    Scenes = {"sched", "stopped"}
SPECIFICATION SerialSpec
INVARIANTS SleeperIsNudged PinnedStaysHome
PROPERTIES Delivered
CHECK_DEADLOCK FALSE
