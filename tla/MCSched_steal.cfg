CONSTANTS
    l1 = l1
    l2 = l2
    t1 = t1
    t2 = t2
    w1 = w1
    w2 = w2
    None = None
    Home <- AllHome
    Threads <- OneThread
    Pinned <- NoPinned
    DequeCap = 1
    Loops <- TwoLoops
    Tasks <- OneTask
    NudgeMayFail = FALSE
    Scenes = {"sched", "meter", "framed", "tlsQueue", "tlsKtls",
              "tlsOpenssl", "tlsMbed", "tlsGnu", "tlsWolf", "tlsSchan"}
SPECIFICATION SceneSpec
INVARIANTS RunsAlone 
PROPERTIES ImplementsLifecycle
CHECK_DEADLOCK FALSE
