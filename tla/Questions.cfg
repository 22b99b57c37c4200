SPECIFICATION Spec
CONSTANTS
  None = None
  Asked <- AllQuestions
  Net <- Networks
  lowered <- Lower
INVARIANTS
  AcceptedIsRunnable DanglingIsSemantic
   RoundTrip RouteIsShortest
  DistanceIsTheRoom TimeToCollisionIsKept AnswersAreCoherent WithinDynamics ReadsAsWritten LoweredAsComposed
CHECK_DEADLOCK FALSE
