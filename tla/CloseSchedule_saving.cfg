SPECIFICATION Spec
CONSTANTS
  DayMin = 6
  Window = 3
  Grain = 2
  Minutes = {1, 5}
  Zones = {24}
  StepsOn = {}
  StepsBack = {8}
  MayFail = FALSE
  MayLoseSync = FALSE
  Horizon = 20
  MaxEdits = 1
  MaxReboots = 0
PROPERTIES NeverForDoorOpenedLater
CHECK_DEADLOCK FALSE
