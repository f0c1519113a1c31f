SPECIFICATION FairSpec
CONSTANTS
  ToggleOnly = FALSE
  WarnTicks = 1
  WarnMax = 1
  EngageTicks = 1
  Timeouts = {2}
  Inputs = {"open", "close", "obstruction", "ignored", "failure"}
  MaxGen = 3
  MaxCmd = 2
PROPERTIES AutoCloseGivenUp PendingSlotFreed
