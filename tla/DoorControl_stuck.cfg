SPECIFICATION FairSpec
CONSTANTS
  ToggleOnly = FALSE
  WarnTicks = 1
  WarnMax = 1
  EngageTicks = 1
  Timeouts = {2}
  Inputs = {"link"}
  MaxGen = 3
  MaxCmd = 2
PROPERTY AutoCloseGivenUp
