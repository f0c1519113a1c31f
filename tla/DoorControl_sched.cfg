SPECIFICATION Spec
CONSTANTS
  ToggleOnly = FALSE
  WarnTicks = 1
  WarnMax = 2
  EngageTicks = 1
  Timeouts = {3}
  Inputs = {"settings", "window", "open", "close", "obstruction", "button", "failure", "ignored"}
  MaxGen = 3
  MaxCmd = 2
INVARIANTS CloseIsClear PendingSlotIsOwned SchedulePendingIsAWarning AutomaticClosesExclude RetriesAreBounded
PROPERTY KeepsPromise
