SPECIFICATION Spec
CONSTANTS
  MaxShift = 2
  FaultTimeout = 2
  MaxTrouble = 4
INVARIANTS TypeOK FaultIsEarned TileIsProven
PROPERTIES ConfirmedV2Stays SavedCodeNeverGoesBack CatchesUp
CHECK_DEADLOCK FALSE
