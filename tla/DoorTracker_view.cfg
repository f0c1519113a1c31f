SPECIFICATION Spec
CONSTANTS
  Capacity = 2
  Protocols = {"V1", "V2"}
  Inputs = {"link", "stop", "motor", "beam", "command"}
  MaxInputs = 3
INVARIANTS TypeOK CopyIsWhatArrives QuietShowsLastStates RestIsReported MovingIsWatched
CHECK_DEADLOCK FALSE
