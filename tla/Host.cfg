SPECIFICATION MCSpec
CONSTANTS
  None = None
  Scenarios = {}
  Requests <- HostRequests
  Documents <- HostDocuments
  Sources <- HostSources
  Getters = {"variable", "controller", "signal"}
  MaxEntities = 1
  MaxEvents = 2
  MaxControllers = 1
  UserNames = {1}
  UserValues = {2}
  Epochs = {}
  LaneWidths = {}
  HostStates = {}
  Steps = {1}
  HasRoads = FALSE
  RoadLength = 2
  MaxSpeed = 1
  MaxTime = 1
INVARIANTS
  DiagnosticsStand RunsRunnable
PROPERTIES
  RunsWhatWasAuthored LoadReportsItself
