SPECIFICATION MCSpec
CONSTANTS
  None = None
  Scenarios <- AllScenarios
  UserNames = {1}
  UserValues = {1}
  Epochs = {10}
  LaneWidths = {0, 3}
  HostStates <- PollStates
  Steps <- Durations
  HasRoads = TRUE
  RoadLength = 2
  MaxSpeed = 2
  MaxTime = 3
INVARIANTS
  ClosedForgets SignalsFollowCycle OdometerMeetsPosition
PROPERTIES
  ForcedStands
