CONSTANTS
  Scenes = {"mgrExpire"}
SPECIFICATION Spec
INVARIANTS
  VictimHoldsNothing
CHECK_DEADLOCK FALSE
