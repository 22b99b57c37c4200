SPECIFICATION MCSpec
CONSTANTS
  None = None
  Scenarios <- DrivenOnly
  UserNames = {1}
  UserValues = {1}
  Epochs = {10}
  LaneWidths = {0, 3}
  HostStates <- PollStates
  Steps = {0, 1, 3}
  HasRoads = TRUE
  RoadLength = 2
  MaxSpeed = 2
  MaxTime = 5
INVARIANTS
  CleanSlate
