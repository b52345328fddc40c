CONSTANTS
  Readers = {r1}
  Syncers = {s1, s2}
  Objects = {o1}
  MaxEpoch = 5
  MaxNest = 1
  None = None
SPECIFICATION Spec
INVARIANTS NoUseAfterFree
