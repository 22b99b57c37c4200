SPECIFICATION FairSpec
CONSTANTS
  a1 = a1
  a2 = a2
  a3 = a3
  a4 = a4
  N = 12
  Kind <- ChainKind
  Parent <- MCParent
  Last <- MCLast
  Priority <- ChainPriority
  MaxExecutions <- ChainMax
  StartTriggered <- ChainStart
  StopTriggered = {7}
  StartCondition <- ChainCondition
  StopCondition <- AllFree
  Actions <- ChainActions
  Outcomes = {"Complete", "Running"}
INVARIANT HeldIsPolled
PROPERTY ActsComplete
