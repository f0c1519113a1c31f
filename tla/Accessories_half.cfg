SPECIFICATION Spec
CONSTANTS
  Kinds = {"lock"}
  Capacity = 2
  MaxInputs = 3
INVARIANT LockTargetFollows
CHECK_DEADLOCK FALSE
