CONSTANTS
  a = a
  b = b
  None = None
  Scenes = {"links"}
SPECIFICATION Spec
INVARIANT DownDelivered
CHECK_DEADLOCK FALSE
