SPECIFICATION Spec
CONSTANTS
  rise = rise
  level = level
  change = change
  hold = hold
  Sites = {"stop"}
  Twice = {"stop"}
  Conds = {rise}
  Groups <- StopGroups
  Edge <- StopEdge
  Delay <- StopDelay
  StepSizes = {1}
  MaxTime = 4
  MaxSamples = 10
INVARIANT StopAnswersAsIfOnce
CHECK_DEADLOCK FALSE
