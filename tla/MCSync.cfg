CONSTANTS
  f1 = f1
  f2 = f2
  f3 = f3
  t1 = t1
  t2 = t2
  t3 = t3
  NoOwner = NoOwner
  Scenes = {"sem", "semAgain", "notify", "amutex", "recursive", "latch", "latchAny", "rwlock",
            "rwlockTwo", "barrier", "gate", "lw", "lwThreads", "lr", "lrCow",
            "hash", "skip"}
SPECIFICATION FairSpec
INVARIANTS
  NoWaiterLeft
  Conserved
  Exclusive
  NobodyStranded
  NobodyAhead
  MapsHold
PROPERTIES
  WaitEnds
CHECK_DEADLOCK FALSE
