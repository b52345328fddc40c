CONSTANTS
  Readers = {r1, r2}
  Syncers = {s1}
  Objects = {o1}
  MaxEpoch = 7
  MaxNest = 2
  None = None
SPECIFICATION FairSpec
INVARIANTS TypeOK NoUseAfterFree GracePeriod RetiredIsRecent
PROPERTIES SynchronizeReturns
