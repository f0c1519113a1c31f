SPECIFICATION Spec
CONSTANTS
  Kinds = {"light", "lock", "motion", "learn"}
  Capacity = 2
  MaxInputs = 3
INVARIANTS TypeOK QuietShowsAccessories
CHECK_DEADLOCK FALSE
