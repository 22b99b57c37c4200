SPECIFICATION Spec
CONSTANTS
  a1 = a1
  a2 = a2
  a3 = a3
  a4 = a4
  N = 16
  Kind <- ActsKind
  Parent <- MCParent
  Last <- MCLast
  Priority <- ActsPriority
  MaxExecutions <- ActsMax
  StartTriggered <- ActsStart
  StopTriggered <- ActsStop
  StartCondition <- ActsCondition
  StopCondition <- AllFree
  Actions <- ActsActions
  Outcomes = {"Complete", "Ongoing", "Running"}
INVARIANTS TypeOK RearmedIsFresh ExclusiveScope TreeCoherent OneStartPerEvaluation StopWinsAfterFirst ReportedUnlessRearmed
  LastTransitionSeen
PROPERTY CompleteIsFinal
