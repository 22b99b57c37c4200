SPECIFICATION Spec
CONSTANTS
  rise = rise
  level = level
  change = change
  hold = hold
  Sites = {"start", "stop"}
  Twice = {"stop"}
  Conds = {rise, level, change, hold}
  Groups <- EventGroups
  Edge <- EventEdge
  Delay <- EventDelay
  StepSizes = {0, 1}
  MaxTime = 3
  MaxSamples = 5
INVARIANT StopAnswersAsIfOnce
PROPERTY AnswerIsSampleAndHold
CHECK_DEADLOCK FALSE
