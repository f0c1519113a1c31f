SPECIFICATION Spec
CONSTANTS
  ToggleOnly = FALSE
  WarnTicks = 1
  WarnMax = 1
  EngageTicks = 1
  Timeouts = {2, 3}
  Inputs = {"motion", "obstruction"}
  MaxGen = 4
  MaxCmd = 2
INVARIANTS TypeOK CloseIsWarnedAndQuiet OpenClockFollowsDoor OneAutoWarning
