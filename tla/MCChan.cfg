CONSTANTS
  s1 = s1
  s2 = s2
  s3 = s3
  r1 = r1
  r2 = r2
  None = None
  Scenes = {"ring", "late", "shut", "mpmc", "oneshot", "watch", "broadcast", "demand",
            "demandShut", "counter", "batch", "batchOff", "batchMt", "batchGate"}
SPECIFICATION FairSpec
INVARIANTS TypeOK InOrderOnce SlotsAccounted
PROPERTIES ReceiverServed
CHECK_DEADLOCK FALSE
