SPECIFICATION Spec
CONSTANTS
  DayMin = 4
  Window = 2
  Grain = 2
  Minutes = {1, 3}
  Zones = {16, 19}
  StepsOn = {6}
  StepsBack = {4}
  MayFail = TRUE
  MayLoseSync = TRUE
  Horizon = 9
  MaxEdits = 1
  MaxReboots = 1
INVARIANTS TypeOK 
PROPERTIES FiresOnlyIfOpenBefore OncePerWindow
CHECK_DEADLOCK FALSE
