-------------------------- MODULE SchedulerProofs --------------------------
(***************************************************************************)
(* Proofs about the storyboard executor, for every storyboard: its state is *)
(* well typed, the element tree stays coherent (TreeCoherent), what a group *)
(* takes back is fresh (RearmedIsFresh) and events exclude each other as    *)
(* their priorities say (ExclusiveScope); and about one evaluation of the    *)
(* tree: the actions the host holds are those the executor polls, a          *)
(* completed element stays complete, nothing starts twice, stop wins over    *)
(* start, and what the last transition of an element was is reported and     *)
(* seen.                                                                     *)
(***************************************************************************)
EXTENDS SchedulerProperties, InductionFacts

---------------------------------------------------------------------------
(* The tree.                                                               *)

\* An event has no children.
LEMMA EventsAreLeaves ==
  ASSUME NEW m \in Nodes \ {1}
  PROVE  Kind[Parent[m]] # "Event"
BY TreeAssumption DEF Nodes, Kinds, ChildKind

\* A subtree holds the children of its elements and no child of another.
LEMMA SubtreeClosed ==
  ASSUME NEW n \in Nodes, NEW m \in Nodes \ {1}
  PROVE  /\ Parent[m] \in Subtree(n) => m \in Subtree(n)
         /\ m \in Subtree(n) /\ m # n => Parent[m] \in Subtree(n)
         /\ Parent[n] \notin Subtree(n)
<1>1. /\ n \in 1 .. N /\ m \in 1 .. N /\ N \in Nat
      /\ Last[n] \in 1 .. N /\ Last[m] \in 1 .. N /\ m <= Last[m] /\ n <= Last[n]
  BY TreeAssumption DEF Nodes
<1>2. Parent[m] \in 1 .. N /\ Parent[m] < m /\ Last[m] <= Last[Parent[m]]
  BY TreeAssumption DEF Nodes
<1>3. Parent[m] \in Subtree(n) => m \in Subtree(n)
  <2>1. SUFFICES ASSUME Parent[m] \in n .. Last[n] PROVE m \in n .. Last[n]
    BY DEF Subtree
  <2>2. Last[Parent[m]] \in 1 .. N
    BY <1>2, TreeAssumption DEF Nodes
  <2>3. Last[Parent[m]] <= Last[n]
    <3>1. CASE Parent[m] = n
      BY <3>1, <1>1
    <3>2. CASE Parent[m] # n
      <4>1. Parent[m] \in n + 1 .. Last[n]
        BY <2>1, <3>2, <1>1, <1>2
      <4> QED BY <4>1, TreeAssumption
    <3> QED BY <3>1, <3>2
  <2> QED BY <2>1, <2>2, <2>3, <1>1, <1>2
<1>4. m \in Subtree(n) /\ m # n => Parent[m] \in Subtree(n)
  <2>1. SUFFICES ASSUME m \in n .. Last[n], m # n PROVE Parent[m] \in n .. Last[n]
    BY DEF Subtree
  <2>2. m \in n + 1 .. Last[n]
    BY <2>1, <1>1
  <2>3. n <= Parent[m]
    BY <2>2, TreeAssumption
  <2> QED BY <2>1, <2>3, <1>1, <1>2
<1>5. Parent[n] \notin Subtree(n)
  <2>1. Parent[n] \in 0 .. N /\ Parent[n] < n
    BY TreeAssumption DEF Nodes
  <2> QED BY <2>1, <1>1 DEF Subtree
<1> QED BY <1>3, <1>4, <1>5

\* The next element the walk goes to is an element.
LEMMA CursorInTree ==
  ASSUME NEW n \in Nodes
  PROVE  /\ n # 1 => Parent[n] \in Nodes /\ Parent[n] < n
         /\ n # 1 /\ HasSibling(n) =>
              Last[n] + 1 \in Nodes /\ Last[n] + 1 # 1 /\ Parent[Last[n] + 1] = Parent[n]
         /\ n < Last[n] => n + 1 \in Nodes /\ n + 1 # 1 /\ Parent[n + 1] = n
         /\ Last[n] \in Nodes /\ n <= Last[n]
BY TreeAssumption DEF Nodes, HasSibling

---------------------------------------------------------------------------
(* Types.                                                                  *)

LEMMA FreshType == Fresh \in NodeRecord
BY DEF Fresh, NodeRecord, States, Transitions

LEMMA MarkType ==
  ASSUME NEW r \in NodeRecord, NEW s \in States, NEW t \in Transitions
  PROVE  /\ Mark(r, s, t) \in NodeRecord
         /\ Mark(r, s, t).state = s
         /\ Mark(r, s, t).executions = r.executions
         /\ Mark(r, s, t).running = r.running
         /\ Mark(r, s, t).ongoing = r.ongoing
BY DEF Mark, NodeRecord

LEMMA StartedType ==
  ASSUME NEW n \in Nodes, NEW r \in NodeRecord
  PROVE  /\ Started(n, r) \in NodeRecord
         /\ Started(n, r).state = "Running"
BY MarkType DEF Started, NodeRecord, States, Transitions

LEMMA EndExecutionType ==
  ASSUME NEW e \in Nodes, NEW r \in NodeRecord
  PROVE  /\ EndExecution(e, r) \in NodeRecord
         /\ EndExecution(e, r).state \in {"Standby", "Complete"}
BY MarkType DEF EndExecution, States, Transitions

LEMMA StandbyExhaustionType ==
  ASSUME NEW e \in Nodes, NEW r \in NodeRecord
  PROVE  /\ StandbyExhaustion(e, r) \in NodeRecord
         /\ StandbyExhaustion(e, r).state \in {r.state, "Complete"}
BY MarkType DEF StandbyExhaustion, States, Transitions

LEMMA SkippedType ==
  ASSUME NEW r \in NodeRecord
  PROVE  Skipped(r) \in NodeRecord /\ Skipped(r).state = "Standby"
BY MarkType DEF Skipped, NodeRecord, States, Transitions

LEMMA StoppedType ==
  ASSUME NEW n \in Nodes, NEW r \in NodeRecord
  PROVE  /\ Stopped(n, r) \in NodeRecord
         /\ Stopped(n, r).state = "Complete"
<1> DEFINE s == IF r.state = "Complete" THEN r ELSE Mark(r, "Complete", "Stop")
<1>1. s \in NodeRecord /\ s.state = "Complete"
  BY MarkType DEF States, Transitions
<1>2. MaxExecutions[n] \in Nat
  BY ScenarioAssumption
<1> QED BY <1>1, <1>2 DEF Stopped, NodeRecord

LEMMA ActionsSetType ==
  ASSUME NEW q \in NodeRecord, NEW k \in SUBSET AllActions, NEW b \in BOOLEAN
  PROVE  [q EXCEPT !.executions = @ + 1, !.running = k, !.ongoing = b] \in NodeRecord
<1>1. [q EXCEPT !.executions = @ + 1] \in NodeRecord
  BY DEF NodeRecord
<1>2. ASSUME NEW r \in NodeRecord PROVE [r EXCEPT !.running = k] \in NodeRecord
  BY DEF NodeRecord
<1>3. ASSUME NEW r \in NodeRecord PROVE [r EXCEPT !.ongoing = b] \in NodeRecord
  BY DEF NodeRecord
<1>4. [q EXCEPT !.executions = @ + 1, !.running = k, !.ongoing = b]
        = [[[q EXCEPT !.executions = @ + 1] EXCEPT !.running = k] EXCEPT !.ongoing = b]
  BY DEF NodeRecord
<1> QED BY <1>1, <1>2, <1>3, <1>4

LEMMA FiredType ==
  ASSUME NEW e \in Nodes, NEW r \in NodeRecord, NEW out \in [Actions[e] -> Outcomes]
  PROVE  Fired(e, r, out) \in NodeRecord
<1> DEFINE s == [Mark(r, "Running", "Start") EXCEPT
                   !.executions = @ + 1,
                   !.running = {a \in Actions[e] : out[a] = "Running"},
                   !.ongoing = \E a \in Actions[e] : out[a] = "Ongoing"]
<1>1. Mark(r, "Running", "Start") \in NodeRecord
  BY MarkType DEF States, Transitions
<1>2. {a \in Actions[e] : out[a] = "Running"} \in SUBSET AllActions
  BY DEF AllActions
<1>3. (\E a \in Actions[e] : out[a] = "Ongoing") \in BOOLEAN
  OBVIOUS
<1>4. s \in NodeRecord
  BY ONLY <1>1, <1>2, <1>3, ActionsSetType, Zenon
<1> QED BY <1>4, EndExecutionType DEF Fired

LEMMA ProgressedType ==
  ASSUME NEW e \in Nodes, NEW r \in NodeRecord, NEW out \in [r.running -> Outcomes]
  PROVE  /\ Progressed(e, r, out) \in NodeRecord
<1> DEFINE s == [r EXCEPT !.running = {a \in @ : out[a] = "Running"}]
<1>1. s \in NodeRecord
  BY DEF NodeRecord
<1> QED BY <1>1, EndExecutionType DEF Progressed

---------------------------------------------------------------------------
(* What the operations on the tree do to the types.                         *)

TreeType ==
  /\ node \in [Nodes -> NodeRecord]
  /\ held \in [Nodes -> SUBSET AllActions]
  /\ log \in [Nodes -> Seq(Transitions)]

LEMMA TakesTransitionType ==
  ASSUME TreeType, NEW n \in Nodes, NEW t \in Transitions, TakesTransition(n, t)
  PROVE  log' \in [Nodes -> Seq(Transitions)]
BY DEF TreeType, TakesTransition

LEMMA StopCascadeType ==
  ASSUME TreeType, NEW S, StopCascade(S)
  PROVE  TreeType'
<1>1. node' \in [Nodes -> NodeRecord]
  BY StoppedType DEF TreeType, StopCascade
<1>2. held' \in [Nodes -> SUBSET AllActions]
  BY DEF TreeType, StopCascade, Released
<1>3. \A n \in Nodes : Append(log[n], "Stop") \in Seq(Transitions)
  BY DEF TreeType, Transitions
<1>4. log' \in [Nodes -> Seq(Transitions)]
  BY <1>3 DEF TreeType, StopCascade
<1> QED BY <1>1, <1>2, <1>4 DEF TreeType

LEMMA EndGroupType ==
  ASSUME TreeType, NEW n \in Nodes, EndGroupExecutionOrComplete(n)
  PROVE  TreeType'
<1>1. \A s \in {"Complete", "Standby"} : Mark(node[n], s, "End") \in NodeRecord
  BY MarkType DEF TreeType, States, Transitions
<1>2. node' \in [Nodes -> NodeRecord]
  BY <1>1, FreshType DEF TreeType, EndGroupExecutionOrComplete, ResetDescendant
<1>3. log' \in [Nodes -> Seq(Transitions)]
  BY TakesTransitionType DEF EndGroupExecutionOrComplete, Transitions
<1> QED BY <1>2, <1>3 DEF TreeType, EndGroupExecutionOrComplete

LEMMA ExhaustEventType ==
  ASSUME TreeType, NEW e \in Nodes, ExhaustEvent(e)
  PROVE  TreeType'
<1>1. node' \in [Nodes -> NodeRecord]
  BY StandbyExhaustionType DEF TreeType, ExhaustEvent
<1>2. log' \in [Nodes -> Seq(Transitions)]
  BY TakesTransitionType DEF TreeType, ExhaustEvent, Transitions
<1> QED BY <1>1, <1>2 DEF TreeType, ExhaustEvent

LEMMA SkipEventType ==
  ASSUME TreeType, NEW e \in Nodes, SkipEvent(e)
  PROVE  TreeType'
<1>1. Skipped(node[e]) \in NodeRecord
  BY SkippedType DEF TreeType
<1>2. StandbyExhaustion(e, Skipped(node[e])) \in NodeRecord
  BY <1>1, StandbyExhaustionType
<1>4. node' \in [Nodes -> NodeRecord]
  BY <1>2 DEF TreeType, SkipEvent
<1>5. log' \in [Nodes -> Seq(Transitions)]
  BY TakesTransitionType DEF SkipEvent, Transitions
<1> QED BY <1>4, <1>5 DEF TreeType, SkipEvent

LEMMA EnterEventType ==
  ASSUME TreeType, NEW e \in Nodes, NEW out \in [Actions[e] -> Outcomes], EnterEvent(e, out)
  PROVE  TreeType'
<1> DEFINE fired == Fired(e, node[e], out)
<1>1. fired \in NodeRecord
  BY FiredType DEF TreeType
<1>2. node' \in [Nodes -> NodeRecord]
  BY <1>1, StoppedType DEF TreeType, EnterEvent
<1>3. {a \in Actions[e] : out[a] # "Complete"} \in SUBSET AllActions
  BY DEF AllActions
<1>4. held' \in [Nodes -> SUBSET AllActions]
  BY <1>3 DEF TreeType, EnterEvent, Released
<1>5. \A n \in Nodes : \A t \in Transitions : Append(log[n], t) \in Seq(Transitions)
  BY DEF TreeType
<1>6. /\ \A n \in Nodes : Append(log[n], "Start") \in Seq(Transitions)
      /\ \A n \in Nodes : Append(log[n], "Stop") \in Seq(Transitions)
      /\ Append(Append(log[e], "Start"), "End") \in Seq(Transitions)
  BY <1>5 DEF Transitions
<1>7. log' \in [Nodes -> Seq(Transitions)]
  BY <1>6 DEF TreeType, EnterEvent
<1> QED BY <1>2, <1>4, <1>7 DEF TreeType

LEMMA StartEventType ==
  ASSUME TreeType, NEW e \in Nodes, StartEvent(e)
  PROVE  TreeType'
BY ExhaustEventType, SkipEventType, EnterEventType DEF StartEvent

---------------------------------------------------------------------------
(* The cursor.                                                             *)

CursorType == pc \in PCs /\ cur \in Nodes /\ top \in 0 .. N

\* While elements are entered the cursor is below the element update() started.
CursorBelowTop == pc \in {"enter", "entered"} => top \in Nodes /\ cur \in Subtree(top)

LEMMA NextWalkType ==
  ASSUME NEW n \in Nodes, NextWalk(n)
  PROVE  CursorType' /\ CursorBelowTop'
BY CursorInTree, TreeAssumption DEF NextWalk, CursorType, CursorBelowTop, PCs, Nodes

LEMMA WalkChildrenType ==
  ASSUME NEW n \in Nodes, WalkChildren(n)
  PROVE  CursorType' /\ CursorBelowTop'
BY CursorInTree, TreeAssumption DEF WalkChildren, CursorType, CursorBelowTop, PCs, Nodes

LEMMA AfterEnterType ==
  ASSUME NEW n \in Nodes, NEW s, top \in Nodes, n \in Subtree(top), AfterEnter(n, s)
  PROVE  CursorType' /\ CursorBelowTop'
<1>1. CASE n # top
  <2>1. n # 1
    BY <1>1, TreeAssumption DEF Subtree, Nodes
  <2>2. Parent[n] \in Nodes /\ Parent[n] \in Subtree(top)
    BY <1>1, <2>1, SubtreeClosed, CursorInTree
  <2>3. CASE HasSibling(n)
    <3>1. Last[n] + 1 \in Nodes \ {1} /\ Parent[Last[n] + 1] \in Subtree(top)
      BY <2>1, <2>2, <2>3, CursorInTree
    <3>2. Last[n] + 1 \in Subtree(top)
      BY <3>1, SubtreeClosed
    <3> QED BY <1>1, <2>3, <3>1, <3>2 DEF AfterEnter, CursorType, CursorBelowTop, PCs, Nodes
  <2>4. CASE ~HasSibling(n)
    BY <1>1, <2>2, <2>4 DEF AfterEnter, CursorType, CursorBelowTop, PCs, Nodes
  <2> QED BY <2>3, <2>4
<1>2. CASE n = top /\ n = 1
  BY <1>2, TreeAssumption DEF AfterEnter, CursorType, CursorBelowTop, PCs, Nodes
<1>3. CASE n = top /\ n # 1
  BY <1>3, WalkChildrenType, NextWalkType DEF AfterEnter
<1> QED BY <1>1, <1>2, <1>3

---------------------------------------------------------------------------
(* Type correctness.                                                       *)

TypeInv == TypeOK /\ CursorBelowTop

LEMMA TypeInvParts ==
  /\ TypeOK <=> /\ TreeType /\ CursorType
                /\ bound \in BOOLEAN /\ reports \in [Nodes -> 0 .. 2]
BY DEF TypeOK, TreeType, CursorType

LEMMA EmptyLogType == [n \in Nodes |-> <<>>] \in [Nodes -> Seq(Transitions)]
BY DEF Transitions

LEMMA TypeInvInit == Init => TypeInv
<1> SUFFICES ASSUME Init PROVE TypeInv
  OBVIOUS
<1>1. 1 \in Nodes
  BY TreeAssumption DEF Nodes
<1>2. node \in [Nodes -> NodeRecord]
  BY FreshType DEF Init
<1>3. held \in [Nodes -> SUBSET AllActions] /\ reports \in [Nodes -> 0 .. 2]
  <2>1. [n \in Nodes |-> {}] \in [Nodes -> SUBSET AllActions]
    OBVIOUS
  <2>2. [n \in Nodes |-> 0] \in [Nodes -> 0 .. 2]
    OBVIOUS
  <2> QED BY <2>1, <2>2 DEF Init
<1>4. log \in [Nodes -> Seq(Transitions)]
  BY EmptyLogType DEF Init
<1>5. pc = "idle" /\ top = 0 /\ bound = FALSE
  BY DEF Init
<1>6. pc \in PCs /\ bound \in BOOLEAN
  BY <1>5 DEF PCs
<1>7. N \in Nat
  BY TreeAssumption
<1>8. top \in 0 .. N
  BY ONLY <1>5, <1>7
<1> QED BY <1>1, <1>2, <1>3, <1>4, <1>5, <1>6, <1>8 DEF Init, TypeInv, TypeOK, CursorBelowTop

LEMMA EventStepType ==
  ASSUME TypeInv, NEW n \in Nodes, NEW s, pc \in {"enter", "entered"}, cur = n,
         TreeType', AfterEnter(n, s), UNCHANGED <<bound, reports>>
  PROVE  TypeInv'
<1>1. top \in Nodes /\ n \in Subtree(top)
  BY DEF TypeInv, CursorBelowTop
<1>2. CursorType' /\ CursorBelowTop'
  BY <1>1, AfterEnterType
<1> QED BY <1>2 DEF TypeInv, TypeOK, TreeType, CursorType

LEMMA WalkStepType ==
  ASSUME TypeInv, NEW n \in Nodes,
         TreeType', NextWalk(n) \/ WalkChildren(n), UNCHANGED <<bound, reports>>
  PROVE  TypeInv'
<1>1. CursorType' /\ CursorBelowTop'
  BY NextWalkType, WalkChildrenType
<1> QED BY <1>1 DEF TypeInv, TypeOK, TreeType, CursorType

\* A step of the host keeps the types.
LEMMA HostStepType ==
  ASSUME TypeInv, Bind \/ Reset \/ BeginStep \/ StepComplete \/ Report
  PROVE  TypeInv'
<1>1. CASE Bind \/ Reset
  <2>1. node' \in [Nodes -> NodeRecord] /\ log' \in [Nodes -> Seq(Transitions)]
    BY <1>1, FreshType, EmptyLogType DEF Bind, Reset, Rebuild
  <2>2. held' \in [Nodes -> SUBSET AllActions] /\ reports' \in [Nodes -> 0 .. 2]
    BY <1>1 DEF Bind, Reset, Rebuild
  <2> QED BY <1>1, <2>1, <2>2
          DEF TypeInv, TypeOK, CursorBelowTop, Bind, Reset, Rebuild, control
<1>2. CASE BeginStep
  <2>1. \A n \in Nodes : [node[n] EXCEPT !.stamped = FALSE] \in NodeRecord
    BY DEF TypeInv, TypeOK, NodeRecord
  <2>2. node' \in [Nodes -> NodeRecord]
    BY <1>2, <2>1 DEF BeginStep
  <2>3. CursorType' /\ CursorBelowTop'
    BY <1>2, TreeAssumption DEF BeginStep, CursorType, CursorBelowTop, Subtree, PCs, Nodes
  <2> QED BY <1>2, <2>2, <2>3 DEF BeginStep, TypeInv, TypeOK, CursorType
<1>3. CASE StepComplete
  BY <1>3 DEF StepComplete, TypeInv, TypeOK, CursorBelowTop, PCs
<1>4. CASE Report
  BY <1>4, TreeAssumption DEF Report, TypeInv, TypeOK, CursorBelowTop, PCs, Nodes
<1> QED BY <1>1, <1>2, <1>3, <1>4

\* A step of the walk keeps the types.
LEMMA VisitType ==
  ASSUME TypeInv, NEW n \in Nodes, Visit(n)
  PROVE  TypeInv'
<1> USE DEF TypeInv
<1>0. TreeType
  BY TypeInvParts
<1>1. CASE EnterWaiting(n)
  <2>1. TreeType'
    BY <1>0, <1>1, ExhaustEventType DEF EnterWaiting, TreeType
  <2> QED BY <1>1, <2>1, EventStepType DEF EnterWaiting
<1>2. CASE EnterExhaustedGroup(n)
  <2>1. Mark(node[n], "Complete", "End") \in NodeRecord
    BY <1>0, MarkType DEF TreeType, States, Transitions
  <2>2. log' \in [Nodes -> Seq(Transitions)]
    BY <1>0, <1>2, TakesTransitionType DEF EnterExhaustedGroup, Transitions
  <2>3. TreeType'
    BY <1>0, <1>2, <2>1, <2>2 DEF EnterExhaustedGroup, TreeType
  <2> QED BY <1>2, <2>3, EventStepType DEF EnterExhaustedGroup
<1>3. CASE EnterElement(n)
  <2>1. Started(n, node[n]) \in NodeRecord
    BY <1>0, StartedType DEF TreeType
  <2>2. log' \in [Nodes -> Seq(Transitions)]
    BY <1>0, <1>3, TakesTransitionType DEF EnterElement, Transitions
  <2>3. TreeType'
    BY <1>0, <1>3, <2>1, <2>2 DEF EnterElement, TreeType
  <2>4. top \in Nodes /\ n \in Subtree(top)
    BY <1>3 DEF EnterElement, CursorBelowTop
  <2>5. n < Last[n] => n + 1 \in Nodes /\ n + 1 \in Subtree(top)
    BY <2>4, CursorInTree, SubtreeClosed
  <2>6. CursorType' /\ CursorBelowTop'
    BY <1>3, <2>4, <2>5 DEF EnterElement, TypeOK, CursorType, CursorBelowTop, PCs
  <2> QED BY <1>3, <2>3, <2>6 DEF EnterElement, TypeOK, TreeType, CursorType
<1>4. CASE EnterEventOfManeuver(n)
  BY <1>0, <1>4, StartEventType, EventStepType DEF EnterEventOfManeuver
<1>5. CASE Entered(n)
  <2>1. TreeType'
    BY <1>0, <1>5, EndGroupType DEF Entered, TreeType
  <2> QED BY <1>5, <2>1, EventStepType DEF Entered
<1>6. CASE UpdateComplete(n) \/ UpdateWait(n) \/ UpdateRunning(n)
           \/ UpdateRunningEvent(n) \/ UpdateWaitingEvent(n)
  <2>1. UNCHANGED <<bound, node, held, log, reports>> /\ (NextWalk(n) \/ WalkChildren(n))
    BY <1>6 DEF UpdateComplete, UpdateWait, UpdateRunning, UpdateRunningEvent,
                UpdateWaitingEvent
  <2>2. TreeType'
    BY <1>0, <2>1 DEF TreeType
  <2> QED BY <2>1, <2>2, WalkStepType
<1>7. CASE UpdateStop(n)
  BY <1>0, <1>7, StopCascadeType, WalkStepType DEF UpdateStop
<1>8. CASE UpdateStart(n)
  <2>1. n \in Subtree(n)
    BY CursorInTree DEF Subtree, Nodes
  <2>2. /\ pc' = "enter" /\ top' = n /\ cur = n
        /\ UNCHANGED <<bound, node, cur, held, log, reports>>
    BY <1>8 DEF UpdateStart
  <2>3. TreeType' /\ CursorBelowTop'
    BY <1>0, <2>1, <2>2 DEF TreeType, CursorBelowTop, Subtree
  <2>4. top' \in 0 .. N /\ pc' \in PCs
    BY <2>2, TreeAssumption DEF PCs, Nodes
  <2> QED BY <2>2, <2>3, <2>4 DEF TypeOK, TreeType
<1>9. CASE ProgressEvent(n)
  <2>1. PICK out \in [node[n].running -> Outcomes] : ProgressWith(n, out)
    BY <1>9 DEF ProgressEvent
  <2>2. Progressed(n, node[n], out) \in NodeRecord
    BY <1>0, ProgressedType DEF TreeType
  <2>3. log' \in [Nodes -> Seq(Transitions)]
    BY <1>0, <2>1, TakesTransitionType DEF ProgressWith, Transitions, TreeType
  <2>4. TreeType'
    BY <1>0, <2>1, <2>2, <2>3 DEF ProgressWith, TreeType
  <2> QED BY <2>1, <2>4, WalkStepType DEF ProgressWith
<1>10. CASE UpdateTriggeredEvent(n)
  BY <1>0, <1>10, StartEventType, WalkStepType DEF UpdateTriggeredEvent
<1>11. CASE Updated(n)
  <2>1. TreeType'
    BY <1>0, <1>11, EndGroupType DEF Updated, TreeType
  <2> QED BY <1>11, <2>1, WalkStepType DEF Updated
<1> QED
  BY <1>1, <1>2, <1>3, <1>4, <1>5, <1>6, <1>7, <1>8, <1>9, <1>10, <1>11 DEF Visit

LEMMA StoryboardStopType ==
  ASSUME TypeInv, StoryboardStop
  PROVE  TypeInv'
<1>0. TreeType
  BY TypeInvParts DEF TypeInv
<1>1. TreeType'
  BY <1>0, StopCascadeType DEF StoryboardStop, TreeType
<1> QED BY <1>1 DEF StoryboardStop, TypeInv, TypeOK, TreeType, CursorBelowTop, PCs

LEMMA TypeInvNext ==
  ASSUME TypeInv, [Next]_vars
  PROVE  TypeInv'
<1>1. CASE UNCHANGED vars
  BY <1>1 DEF vars, TypeInv, TypeOK, CursorBelowTop
<1>2. CASE Next
  BY <1>2, HostStepType, VisitType, StoryboardStopType DEF Next, Walk
<1> QED BY <1>1, <1>2

\* The state the walk keeps is well typed in every storyboard: in particular the
\* cursor never leaves the tree, and executions never go negative.
THEOREM TypeCorrect == Spec => []TypeOK
<1>1. TypeInv => TypeOK
  BY DEF TypeInv
<1> QED BY <1>1, TypeInvInit, TypeInvNext, PTL DEF Spec

---------------------------------------------------------------------------
(* Subtrees as intervals.                                                  *)

LEMMA SubtreeInTree ==
  ASSUME NEW n \in Nodes
  PROVE  /\ n \in Subtree(n) /\ Last[n] \in Nodes
         /\ \A m \in Subtree(n) : m \in Nodes
<1>1. N \in Nat /\ n \in 1 .. N /\ Last[n] \in 1 .. N /\ n <= Last[n]
  BY TreeAssumption DEF Nodes
<1> QED BY <1>1 DEF Subtree, Nodes

LEMMA SubtreeNested ==
  ASSUME NEW n \in Nodes, NEW m \in Subtree(n), m # n
  PROVE  m \in Nodes \ {1} /\ Subtree(m) \subseteq Subtree(n)
<1>1. /\ N \in Nat /\ n \in 1 .. N /\ Last[n] \in 1 .. N
      /\ m \in 1 .. N /\ Last[m] \in 1 .. N
  <2>1. m \in Nodes
    BY SubtreeInTree
  <2> QED BY <2>1, SubtreeInTree, TreeAssumption DEF Nodes
<1>2. m \in n + 1 .. Last[n]
  BY <1>1 DEF Subtree
<1>3. Last[m] <= Last[n]
  BY <1>2, TreeAssumption
<1>4. m # 1
  BY <1>1, <1>2
<1>5. Subtree(m) \subseteq Subtree(n)
  BY <1>1, <1>2, <1>3 DEF Subtree
<1> QED BY <1>1, <1>4, <1>5 DEF Nodes

\* Two subtrees that share an element are one inside the other.
LEMMA SubtreesMeet ==
  ASSUME NEW n \in Nodes, NEW a \in Nodes, a \notin Subtree(n),
         NEW m \in Subtree(a), m \in Subtree(n)
  PROVE  n \in Subtree(a) /\ n # a /\ n # 1
<1>1. /\ n \in 1 .. N /\ a \in 1 .. N /\ m \in 1 .. N /\ N \in Nat
      /\ Last[n] \in 1 .. N /\ Last[a] \in 1 .. N
  BY SubtreeInTree, TreeAssumption DEF Nodes
<1> QED BY <1>1 DEF Subtree

LEMMA ParentNotSibling ==
  ASSUME NEW n \in Nodes \ {1}
  PROVE  Parent[n] \notin Siblings(n)
<1>1. Parent[n] \in Nodes /\ Parent[Parent[n]] \in 0 .. N /\ Parent[n] \in 1 .. N /\ N \in Nat
  BY TreeAssumption DEF Nodes
<1>2. Parent[n] # 1 => Parent[Parent[n]] < Parent[n]
  BY <1>1, CursorInTree
<1>3. Parent[1] = 0
  BY TreeAssumption
<1>4. Parent[Parent[n]] # Parent[n]
  BY <1>1, <1>2, <1>3
<1> QED BY <1>4 DEF Siblings

---------------------------------------------------------------------------
(* The inductive invariant.                                                *)

\* A standby element has a standby subtree: StandbyBelowStandby at any depth.
StandbySubtree ==
  \A n \in Nodes : node[n].state = "Standby" =>
    \A m \in Subtree(n) : node[m].state = "Standby"

\* A group waits with executions left, or has not executed at all.
GroupBudget ==
  \A g \in Groups : node[g].state = "Standby" =>
    node[g].executions = 0 \/ node[g].executions < MaxExecutions[g]

Coherent ==
  /\ RunningUnderRunning /\ StandbySubtree /\ CompleteBelowComplete
  /\ GroupBudget /\ ExclusiveScope /\ RearmedIsFresh

\* What the walk relies on where it stands: the parent of the element it visits
\* is running, and what it has not yet entered is in standbyState.
ParentRuns(n) == n # 1 => node[Parent[n]].state = "Running"
StandbyFrom(n) == \A m \in n .. Last[top] : node[m].state = "Standby"
Walking ==
  /\ pc = "stop" => cur = 1
  /\ pc \in {"stop", "entered", "walked"} => node[cur].state = "Running"
  /\ pc \in {"enter", "walk"} => ParentRuns(cur)
  /\ pc = "walk" /\ cur = 1 => node[1].state = "Running"
  /\ pc = "enter" => StandbyFrom(cur)
  /\ pc = "entered" => StandbyFrom(Last[cur] + 1)

IInv == TypeInv /\ Coherent /\ Walking

LEMMA CoherentTree == TypeInv /\ Coherent => TreeCoherent
<1> SUFFICES ASSUME TypeInv, Coherent PROVE StandbyBelowStandby
  BY DEF Coherent, TreeCoherent
<1> SUFFICES ASSUME NEW n \in Nodes \ {1}, node[Parent[n]].state = "Standby"
             PROVE  node[n].state = "Standby"
  BY DEF StandbyBelowStandby
<1>1. Parent[n] \in Nodes /\ Parent[n] \in Subtree(Parent[n])
  BY CursorInTree DEF Subtree, Nodes
<1>2. n \in Subtree(Parent[n])
  BY <1>1, SubtreeClosed
<1> QED BY <1>1, <1>2 DEF Coherent, StandbySubtree

\* Below an ancestor in standbyState no element has a running parent.
LEMMA AncestorsLeftStandby ==
  ASSUME StandbySubtree, NEW n \in Nodes \ {1}, NEW a \in Nodes,
         n \in Subtree(a), n # a, node[Parent[n]].state = "Running"
  PROVE  node[a].state # "Standby"
<1>1. Parent[n] \in Subtree(a)
  BY SubtreeClosed
<1> QED BY <1>1 DEF StandbySubtree

---------------------------------------------------------------------------
(* Each kind of change to the tree keeps it coherent.                       *)

\* States and executions unchanged.
LEMMA SameStates ==
  ASSUME Coherent,
         \A n \in Nodes : node'[n].state = node[n].state
                          /\ node'[n].executions = node[n].executions
                          /\ (node[n] = Fresh => node'[n] = Fresh)
  PROVE  Coherent'
<1> USE DEF Coherent
<1>1. \A n \in Nodes \ {1} : Parent[n] \in Nodes
  BY CursorInTree
<1>2. RunningUnderRunning'
  BY <1>1 DEF RunningUnderRunning
<1>3. \A n \in Nodes : \A m \in Subtree(n) : m \in Nodes
  BY TreeAssumption DEF Subtree, Nodes
<1>4. StandbySubtree'
  BY <1>3 DEF StandbySubtree
<1>5. CompleteBelowComplete'
  BY <1>1 DEF CompleteBelowComplete
<1>6. GroupBudget'
  BY DEF GroupBudget, Groups
<1>7. ExclusiveScope'
  BY DEF ExclusiveScope, Events
<1>8. RearmedIsFresh'
  <2>1. \A g \in Groups : g \in Nodes /\ \A m \in Subtree(g) : m \in Nodes
    BY <1>3 DEF Groups
  <2> QED BY <2>1 DEF RearmedIsFresh
<1> QED BY <1>2, <1>4, <1>5, <1>6, <1>7, <1>8

\* An event moves to any state, and siblings of it may be stopped.
LEMMA EventChange ==
  ASSUME Coherent, NEW e \in Events, ParentRuns(e),
         \A n \in Nodes : n # e /\ n \notin Siblings(e) => node'[n] = node[n],
         \A f \in Siblings(e) : \/ node'[f] = node[f]
                                \/ node[f].state = "Running" /\ node'[f].state = "Complete",
         \A f \in Siblings(e) : node'[e].state = "Running" /\ node'[f].state = "Running" =>
            Priority[e] = "Parallel" \/ Priority[f] = "Parallel"
  PROVE  Coherent'
<1> USE DEF Coherent
<1>0. e \in Nodes \ {1} /\ Parent[e] \in Nodes
  <2>1. e # 1
    BY TreeAssumption DEF Events
  <2> QED BY <2>1, CursorInTree DEF Events
<1>1. node[Parent[e]].state = "Running"
  BY <1>0 DEF ParentRuns
<1> DEFINE T == {e} \cup Siblings(e)
<1>2. \A f \in T : f \in Nodes \ {1} /\ Parent[f] = Parent[e] /\ Kind[f] = "Event"
  <2>1. SUFFICES ASSUME NEW f \in Siblings(e)
                 PROVE  f \in Nodes \ {1} /\ Parent[f] = Parent[e] /\ Kind[f] = "Event"
    BY <1>0 DEF Events
  <2>2. f \in Nodes /\ Parent[f] = Parent[e]
    BY DEF Siblings
  <2>3. f # 1
    BY <1>0, <2>2, TreeAssumption DEF Nodes
  <2>4. Kind[f] = ChildKind[Kind[Parent[f]]] /\ Kind[e] = ChildKind[Kind[Parent[e]]]
    BY <1>0, <2>2, <2>3, TreeAssumption
  <2> QED BY <2>2, <2>3, <2>4 DEF Events
<1>3. \A m \in Nodes \ {1} : Parent[m] \in Nodes \ T
  <2>1. SUFFICES ASSUME NEW m \in Nodes \ {1} PROVE Parent[m] \notin T
    BY CursorInTree
  <2> QED BY <1>2, EventsAreLeaves
<1>4. \A n \in Nodes : n \notin T => node'[n] = node[n]
  OBVIOUS
<1>5. RunningUnderRunning'
  <2>1. SUFFICES ASSUME NEW n \in Nodes \ {1}, node'[n].state = "Running"
                 PROVE  node[Parent[n]].state = "Running"
    BY <1>3, <1>4 DEF RunningUnderRunning
  <2>2. CASE n \in T
    BY <1>1, <1>2, <2>2
  <2>3. CASE n \notin T
    BY <1>4, <2>1, <2>3 DEF RunningUnderRunning
  <2> QED BY <2>2, <2>3
<1>6. StandbySubtree'
  <2>1. SUFFICES ASSUME NEW n \in Nodes, node'[n].state = "Standby",
                        NEW m \in Subtree(n)
                 PROVE  node'[m].state = "Standby"
    BY DEF StandbySubtree
  <2>2. m \in Nodes
    BY SubtreeInTree
  <2>3. CASE n \in T
    <3>1. Last[n] = n
      BY <1>2, <2>3, TreeAssumption
    <3>2. m = n
      BY <3>1 DEF Subtree, Nodes
    <3> QED BY <2>1, <3>2
  <2>4. CASE n \notin T /\ m \in T
    <3>1. node[Parent[m]].state = "Running"
      BY <1>1, <1>2, <2>4
    <3>2. node[n].state # "Standby"
      BY <3>1, <2>4, <1>2, AncestorsLeftStandby
    <3> QED BY <1>4, <2>1, <2>4, <3>2
  <2>5. CASE n \notin T /\ m \notin T
    BY <1>4, <2>1, <2>2, <2>5 DEF StandbySubtree
  <2> QED BY <2>3, <2>4, <2>5
<1>7. CompleteBelowComplete'
  <2>1. SUFFICES ASSUME NEW n \in Nodes \ {1}, node[Parent[n]].state = "Complete",
                        node'[n].state # "Complete"
                 PROVE  Kind[Parent[n]] = "Group" /\ MaxExecutions[Parent[n]] = 0
    BY <1>3, <1>4 DEF CompleteBelowComplete
  <2>2. n \notin T
    BY <1>1, <1>2, <2>1
  <2> QED BY <1>4, <2>1, <2>2 DEF CompleteBelowComplete
<1>8. GroupBudget'
  <2>1. \A g \in Groups : g \notin T /\ g \in Nodes
    BY <1>2 DEF Groups
  <2> QED BY <1>4, <2>1 DEF GroupBudget
<1>9. ExclusiveScope'
  <2>1. SUFFICES ASSUME NEW f \in Events, NEW h \in Events, f # h, Parent[f] = Parent[h],
                        node'[f].state = "Running", node'[h].state = "Running"
                 PROVE  Priority[f] = "Parallel" \/ Priority[h] = "Parallel"
    BY DEF ExclusiveScope
  <2>2. CASE f = e
    BY <2>1, <2>2 DEF Siblings, Events
  <2>3. CASE h = e
    BY <2>1, <2>3 DEF Siblings, Events
  <2>4. CASE f # e /\ h # e
    <3>1. node[f].state = "Running" /\ node[h].state = "Running"
      BY <2>1, <2>4, <1>4 DEF Events
    <3> QED BY <2>1, <3>1 DEF ExclusiveScope
  <2> QED BY <2>2, <2>3, <2>4
<1>10. RearmedIsFresh'
  <2>1. SUFFICES ASSUME NEW g \in Groups, node'[g].state = "Standby",
                        NEW m \in Subtree(g) \ {g}
                 PROVE  node'[m] = Fresh
    BY DEF RearmedIsFresh
  <2>2. g \in Nodes /\ m \in Nodes \ {1}
    BY SubtreeNested DEF Groups
  <2>3. g \notin T /\ node[g].state = "Standby"
    BY <1>2, <1>4, <2>1, <2>2 DEF Groups
  <2>4. m \notin T
    BY <1>1, <1>2, <2>2, <2>3, AncestorsLeftStandby
  <2> QED BY <1>4, <2>2, <2>3, <2>4 DEF RearmedIsFresh
<1> QED BY <1>5, <1>6, <1>7, <1>8, <1>9, <1>10

\* A subtree is stopped.
LEMMA StopChange ==
  ASSUME Coherent, NEW n \in Nodes, ParentRuns(n),
         \A m \in Nodes : m \notin Subtree(n) => node'[m] = node[m],
         \A m \in Subtree(n) : node'[m].state = "Complete"
  PROVE  Coherent'
<1> USE DEF Coherent
<1>1. \A m \in Nodes \ {1} : Parent[m] \in Nodes
  BY CursorInTree
<1>2. \A m \in Nodes \ {1} : m \notin Subtree(n) => Parent[m] \notin Subtree(n)
  BY SubtreeClosed
<1>3. \A m \in Nodes : node'[m].state = node[m].state \/ node'[m].state = "Complete"
  OBVIOUS
<1>4. RunningUnderRunning'
  <2>1. SUFFICES ASSUME NEW m \in Nodes \ {1}, node'[m].state = "Running"
                 PROVE  node'[Parent[m]].state = "Running"
    BY DEF RunningUnderRunning
  <2>2. m \notin Subtree(n) /\ Parent[m] \notin Subtree(n)
    BY <1>2, <2>1
  <2> QED BY <1>1, <2>1, <2>2 DEF RunningUnderRunning
<1>5. StandbySubtree'
  <2>1. SUFFICES ASSUME NEW a \in Nodes, node'[a].state = "Standby", NEW m \in Subtree(a)
                 PROVE  node'[m].state = "Standby"
    BY DEF StandbySubtree
  <2>2. m \in Nodes /\ a \notin Subtree(n) /\ node[a].state = "Standby"
    BY <2>1, SubtreeInTree
  <2>3. m \notin Subtree(n)
    <3>1. SUFFICES ASSUME m \in Subtree(n) PROVE FALSE
      OBVIOUS
    <3>2. n \in Subtree(a) /\ n # a /\ n # 1
      BY <2>2, <3>1, SubtreesMeet
    <3> QED BY <2>2, <3>2, AncestorsLeftStandby DEF ParentRuns
  <2> QED BY <2>2, <2>3 DEF StandbySubtree
<1>6. CompleteBelowComplete'
  <2>1. SUFFICES ASSUME NEW m \in Nodes \ {1}, node'[Parent[m]].state = "Complete",
                        node'[m].state # "Complete"
                 PROVE  Kind[Parent[m]] = "Group" /\ MaxExecutions[Parent[m]] = 0
    BY DEF CompleteBelowComplete
  <2>2. m \notin Subtree(n) /\ Parent[m] \notin Subtree(n)
    BY <1>2, <2>1
  <2> QED BY <1>1, <2>1, <2>2 DEF CompleteBelowComplete
<1>7. GroupBudget'
  BY DEF GroupBudget, Groups
<1>8. ExclusiveScope'
  BY <1>3 DEF ExclusiveScope, Events
<1>9. RearmedIsFresh'
  <2>1. SUFFICES ASSUME NEW g \in Groups, node'[g].state = "Standby",
                        NEW m \in Subtree(g) \ {g}
                 PROVE  node'[m] = Fresh
    BY DEF RearmedIsFresh
  <2>2. g \in Nodes /\ m \in Nodes \ {1}
    BY SubtreeNested DEF Groups
  <2>3. g \notin Subtree(n) /\ node[g].state = "Standby"
    BY <2>1, <2>2
  <2>4. m \notin Subtree(n)
    <3>1. SUFFICES ASSUME m \in Subtree(n) PROVE FALSE
      OBVIOUS
    <3>2. n \in Subtree(g) /\ n # g /\ n # 1
      BY <2>2, <2>3, <3>1, SubtreesMeet
    <3> QED BY <2>2, <2>3, <3>2, AncestorsLeftStandby DEF ParentRuns
  <2> QED BY <2>2, <2>3, <2>4 DEF RearmedIsFresh
<1> QED BY <1>4, <1>5, <1>6, <1>7, <1>8, <1>9

\* An element that is not an event starts.
LEMMA EnterChange ==
  ASSUME Coherent, NEW n \in Nodes, ParentRuns(n), Kind[n] # "Event",
         \A m \in Nodes : m # n => node'[m] = node[m],
         node'[n].state = "Running"
  PROVE  Coherent'
<1> USE DEF Coherent
<1>1. \A m \in Nodes \ {1} : Parent[m] \in Nodes
  BY CursorInTree
<1>2. \A m \in Nodes \ {1} : Parent[m] # m
  BY CursorInTree DEF Nodes
<1>4. RunningUnderRunning'
  BY <1>1, SubtreeClosed DEF RunningUnderRunning, ParentRuns
<1>5. StandbySubtree'
  <2>1. SUFFICES ASSUME NEW a \in Nodes, node'[a].state = "Standby", NEW m \in Subtree(a)
                 PROVE  node'[m].state = "Standby"
    BY DEF StandbySubtree
  <2>2. m \in Nodes /\ a # n /\ node[a].state = "Standby"
    BY <2>1, SubtreeInTree
  <2>3. m # n
    <3>1. SUFFICES ASSUME m = n PROVE FALSE
      OBVIOUS
    <3>2. n # 1
      BY <2>2, <3>1, SubtreeNested
    <3> QED BY <2>2, <3>1, <3>2, AncestorsLeftStandby DEF ParentRuns
  <2> QED BY <2>2, <2>3 DEF StandbySubtree
<1>6. CompleteBelowComplete'
  BY <1>1, <1>2 DEF CompleteBelowComplete, ParentRuns
<1>7. GroupBudget'
  BY DEF GroupBudget, Groups
<1>8. ExclusiveScope'
  BY DEF ExclusiveScope, Events
<1>9. RearmedIsFresh'
  <2>1. SUFFICES ASSUME NEW g \in Groups, node'[g].state = "Standby",
                        NEW m \in Subtree(g) \ {g}
                 PROVE  node'[m] = Fresh
    BY DEF RearmedIsFresh
  <2>2. g \in Nodes /\ m \in Nodes \ {1}
    BY SubtreeNested DEF Groups
  <2>3. g # n /\ node[g].state = "Standby"
    BY <2>1, <2>2
  <2>4. m # n
    BY <2>2, <2>3, AncestorsLeftStandby DEF ParentRuns
  <2> QED BY <2>2, <2>3, <2>4 DEF RearmedIsFresh
<1> QED BY <1>4, <1>5, <1>6, <1>7, <1>8, <1>9

\* An element completes over children that are complete,
\* or, for a group that may not execute, in standbyState.
LEMMA EndChange ==
  ASSUME Coherent, NEW n \in Nodes, ParentRuns(n),
         \A m \in Nodes : m # n => node'[m] = node[m],
         node'[n].state = "Complete",
         \/ AllChildrenComplete(n)
         \/ Kind[n] = "Group" /\ MaxExecutions[n] = 0 /\ node[n].state = "Standby"
  PROVE  Coherent'
<1> USE DEF Coherent
<1>1. \A m \in Nodes \ {1} : Parent[m] \in Nodes /\ Parent[m] # m
  BY CursorInTree DEF Nodes
<1>2. \A m \in Nodes \ {1} : Parent[m] = n => node[m].state # "Running"
  BY DEF RunningUnderRunning, AllChildrenComplete, Children
<1>4. RunningUnderRunning'
  BY <1>1, <1>2 DEF RunningUnderRunning
<1>5. StandbySubtree'
  <2>1. SUFFICES ASSUME NEW a \in Nodes, node'[a].state = "Standby", NEW m \in Subtree(a)
                 PROVE  node'[m].state = "Standby"
    BY DEF StandbySubtree
  <2>2. m \in Nodes /\ a # n /\ node[a].state = "Standby"
    BY <2>1, SubtreeInTree
  <2>3. m # n
    <3>1. SUFFICES ASSUME m = n PROVE FALSE
      OBVIOUS
    <3>2. n # 1
      BY <2>2, <3>1, SubtreeNested
    <3> QED BY <2>2, <3>1, <3>2, AncestorsLeftStandby DEF ParentRuns
  <2> QED BY <2>2, <2>3 DEF StandbySubtree
<1>6. CompleteBelowComplete'
  BY <1>1 DEF CompleteBelowComplete, AllChildrenComplete, Children
<1>7. GroupBudget'
  BY DEF GroupBudget, Groups
<1>8. ExclusiveScope'
  BY DEF ExclusiveScope, Events
<1>9. RearmedIsFresh'
  <2>1. SUFFICES ASSUME NEW g \in Groups, node'[g].state = "Standby",
                        NEW m \in Subtree(g) \ {g}
                 PROVE  node'[m] = Fresh
    BY DEF RearmedIsFresh
  <2>2. g \in Nodes /\ m \in Nodes \ {1}
    BY SubtreeNested DEF Groups
  <2>3. g # n /\ node[g].state = "Standby"
    BY <2>1, <2>2
  <2>4. m # n
    BY <2>2, <2>3, AncestorsLeftStandby DEF ParentRuns
  <2> QED BY <2>2, <2>3, <2>4 DEF RearmedIsFresh
<1> QED BY <1>4, <1>5, <1>6, <1>7, <1>8, <1>9

\* A group goes back to standbyState with its subtree as new.
LEMMA RearmChange ==
  ASSUME Coherent, NEW n \in Nodes, ParentRuns(n), AllChildrenComplete(n),
         \A m \in Nodes : m \notin Subtree(n) => node'[m] = node[m],
         \A m \in Subtree(n) : m # n => node'[m] = Fresh,
         node'[n].state = "Standby", node'[n].executions < MaxExecutions[n]
  PROVE  Coherent'
<1> USE DEF Coherent
<1>1. \A m \in Nodes \ {1} : Parent[m] \in Nodes
  BY CursorInTree
<1>2. \A m \in Nodes \ {1} : m \notin Subtree(n) => Parent[m] \notin Subtree(n)
  BY SubtreeClosed
<1>3. \A m \in Subtree(n) : node'[m].state = "Standby"
  BY DEF Fresh
<1>4. RunningUnderRunning'
  <2>1. SUFFICES ASSUME NEW m \in Nodes \ {1}, node'[m].state = "Running"
                 PROVE  node'[Parent[m]].state = "Running"
    BY DEF RunningUnderRunning
  <2>2. m \notin Subtree(n)
    BY <1>3, <2>1
  <2> QED BY <1>1, <1>2, <2>1, <2>2 DEF RunningUnderRunning
<1>5. StandbySubtree'
  <2>1. SUFFICES ASSUME NEW a \in Nodes, node'[a].state = "Standby", NEW m \in Subtree(a)
                 PROVE  node'[m].state = "Standby"
    BY DEF StandbySubtree
  <2>2. CASE m \in Subtree(n)
    BY <1>3, <2>2
  <2>3. CASE m \notin Subtree(n)
    <3>1. m \in Nodes
      BY SubtreeInTree
    <3>2. a \notin Subtree(n)
      BY <2>3, SubtreeNested
    <3> QED BY <2>1, <2>3, <3>1, <3>2 DEF StandbySubtree
  <2> QED BY <2>2, <2>3
<1>6. CompleteBelowComplete'
  <2>1. SUFFICES ASSUME NEW m \in Nodes \ {1}, node'[Parent[m]].state = "Complete",
                        node'[m].state # "Complete"
                 PROVE  Kind[Parent[m]] = "Group" /\ MaxExecutions[Parent[m]] = 0
    BY DEF CompleteBelowComplete
  <2>2. Parent[m] \notin Subtree(n)
    BY <1>3, <2>1
  <2>3. CASE m \notin Subtree(n)
    BY <1>1, <2>1, <2>2, <2>3 DEF CompleteBelowComplete
  <2>4. CASE m \in Subtree(n)
    <3>1. m = n
      BY <2>2, <2>4, SubtreeClosed
    <3> QED BY <1>1, <2>1, <2>2, <3>1 DEF ParentRuns
  <2> QED BY <2>3, <2>4
<1>7. GroupBudget'
  <2>1. SUFFICES ASSUME NEW g \in Groups, node'[g].state = "Standby"
                 PROVE  \/ node'[g].executions = 0
                        \/ node'[g].executions < MaxExecutions[g]
    BY DEF GroupBudget
  <2>2. CASE g = n
    BY <2>2
  <2>3. CASE g # n /\ g \in Subtree(n)
    BY <2>3 DEF Fresh
  <2>4. CASE g \notin Subtree(n)
    BY <2>1, <2>4 DEF GroupBudget, Groups
  <2> QED BY <2>2, <2>3, <2>4
<1>8. ExclusiveScope'
  <2>1. \A m \in Nodes : node'[m].state = node[m].state \/ node'[m].state = "Standby"
    BY <1>3
  <2> QED BY <2>1 DEF ExclusiveScope, Events
<1>9. RearmedIsFresh'
  <2>1. SUFFICES ASSUME NEW g \in Groups, node'[g].state = "Standby",
                        NEW m \in Subtree(g) \ {g}
                 PROVE  node'[m] = Fresh
    BY DEF RearmedIsFresh
  <2>2. g \in Nodes /\ m \in Nodes \ {1}
    BY SubtreeNested DEF Groups
  <2>3. CASE g \in Subtree(n)
    <3>1. g # n => n \notin Subtree(g)
      <4>1. g \in 1 .. N /\ n \in 1 .. N
        BY <2>2 DEF Nodes
      <4> QED BY <2>3, <4>1 DEF Subtree
    <3>2. m \in Subtree(n)
      BY <2>3, SubtreeNested
    <3> QED BY <3>1, <3>2
  <2>4. CASE g \notin Subtree(n)
    <3>1. node[g].state = "Standby"
      BY <2>1, <2>2, <2>4
    <3>2. m \notin Subtree(n)
      <4>1. SUFFICES ASSUME m \in Subtree(n) PROVE FALSE
        OBVIOUS
      <4>2. n \in Subtree(g) /\ n # g /\ n # 1
        BY <2>2, <2>4, <4>1, SubtreesMeet
      <4> QED BY <2>2, <3>1, <4>2, AncestorsLeftStandby DEF ParentRuns
    <3> QED BY <2>2, <3>1, <3>2 DEF RearmedIsFresh
  <2> QED BY <2>3, <2>4
<1> QED BY <1>4, <1>5, <1>6, <1>7, <1>8, <1>9

\* start_event(), called on an event in standbyState.
LEMMA StartEventChange ==
  ASSUME TypeInv, Coherent, NEW e \in Events, ParentRuns(e),
         node[e].state = "Standby", StartEvent(e)
  PROVE  /\ Coherent'
         /\ \A n \in Nodes : n # e /\ node[n].state # "Running" => node'[n] = node[n]
         /\ \A n \in Nodes : n # e /\ n \notin Siblings(e) => node'[n] = node[n]
<1>0. e \in Nodes /\ node \in [Nodes -> NodeRecord]
  BY DEF Events, TypeInv, TypeOK
<1>1. CASE ExhaustEvent(e)
  <2>1. /\ \A n \in Nodes : n # e => node'[n] = node[n]
        /\ node'[e] = StandbyExhaustion(e, node[e])
    BY <1>0, <1>1 DEF ExhaustEvent
  <2>2. node'[e].state # "Running"
    BY <1>0, <2>1, StandbyExhaustionType
  <2>3. \A f \in Siblings(e) : node'[f] = node[f]
    BY <2>1 DEF Siblings
  <2>4. Coherent'
    BY <2>1, <2>2, <2>3, EventChange
  <2> QED BY <2>1, <2>4
<1>2. CASE SkipEvent(e)
  <2>1. /\ \A n \in Nodes : n # e => node'[n] = node[n]
        /\ node'[e] = StandbyExhaustion(e, Skipped(node[e]))
    BY <1>0, <1>2 DEF SkipEvent
  <2>2. node'[e].state # "Running"
    BY <1>0, <2>1, StandbyExhaustionType, SkippedType
  <2>3. \A f \in Siblings(e) : node'[f] = node[f]
    BY <2>1 DEF Siblings
  <2>4. Coherent'
    BY <2>1, <2>2, <2>3, EventChange
  <2> QED BY <2>1, <2>4
<1>3. ASSUME NEW out \in [Actions[e] -> Outcomes], EnterEvent(e, out), ~Skips(e)
      PROVE  /\ Coherent'
             /\ \A n \in Nodes : n # e /\ node[n].state # "Running" => node'[n] = node[n]
             /\ \A n \in Nodes : n # e /\ n \notin Siblings(e) => node'[n] = node[n]
  <2>1. \A n \in Nodes : n # e =>
          node'[n] = IF n \in Overridden(e) THEN Stopped(n, node[n]) ELSE node[n]
    BY <1>3 DEF EnterEvent
  <2>2. \A n \in Overridden(e) : n \in Siblings(e) /\ node[n].state = "Running"
    BY DEF Overridden, RunningSiblings
  <2>3. \A n \in Overridden(e) : n \in Nodes /\ n # e
    BY <2>2 DEF Siblings
  <2>4. \A n \in Overridden(e) : node'[n].state = "Complete"
    BY <1>0, <2>1, <2>3, StoppedType
  <2>5. \A f \in Siblings(e) : \/ node'[f] = node[f]
                               \/ node[f].state = "Running" /\ node'[f].state = "Complete"
    BY <2>1, <2>2, <2>4 DEF Siblings
  <2>6. ASSUME NEW f \in Siblings(e), node'[f].state = "Running"
        PROVE  Priority[e] = "Parallel" \/ Priority[f] = "Parallel"
    <3>1. f \notin Overridden(e) /\ node[f].state = "Running"
      BY <2>4, <2>5, <2>6
    <3>2. f \in RunningSiblings(e)
      BY <3>1, <2>6 DEF RunningSiblings
    <3>3. Priority[e] # "Override" /\ Priority[e] # "Skip"
      BY <1>3, <3>1, <3>2 DEF Overridden, Skips
    <3> QED BY <1>0, <3>3, ScenarioAssumption DEF Priorities
  <2>7. \A n \in Nodes : n # e /\ n \notin Siblings(e) => node'[n] = node[n]
    BY <2>1, <2>2
  <2>8. Coherent'
    BY <2>5, <2>6, <2>7, EventChange
  <2> QED BY <2>1, <2>2, <2>7, <2>8
<1> QED BY <1>1, <1>2, <1>3 DEF StartEvent

\* end_group_execution_or_complete(), called on a running element.
LEMMA EndGroupChange ==
  ASSUME TypeInv, Coherent, NEW n \in Nodes, node[n].state = "Running",
         AllChildrenComplete(n), EndGroupExecutionOrComplete(n)
  PROVE  /\ Coherent' /\ ParentRuns(n)
         /\ \A m \in Nodes : m \notin Subtree(n) => node'[m] = node[m]
<1>1. node \in [Nodes -> NodeRecord] /\ MaxExecutions[n] \in Nat
  BY ScenarioAssumption DEF TypeInv, TypeOK
<1>2. node[n] \in NodeRecord /\ node[n].executions \in Nat
  BY <1>1 DEF NodeRecord
<1>3. ParentRuns(n) /\ n \in Subtree(n)
  BY SubtreeInTree DEF Coherent, RunningUnderRunning, ParentRuns
<1>4. CASE Completes(n)
  <2>1. /\ \A m \in Nodes : m # n => node'[m] = node[m]
        /\ node'[n] = Mark(node[n], "Complete", "End")
    BY <1>1, <1>4 DEF EndGroupExecutionOrComplete
  <2>2. node'[n].state = "Complete"
    BY <1>2, <2>1, MarkType DEF States, Transitions
  <2>3. Coherent'
    BY <1>3, <2>1, <2>2, EndChange
  <2> QED BY <1>3, <2>1, <2>3
<1>5. CASE ~Completes(n)
  <2>1. /\ \A m \in Nodes : m \notin Subtree(n) => node'[m] = node[m]
        /\ \A m \in Nodes : m \in Subtree(n) /\ m # n => node'[m] = Fresh
        /\ node'[n] = Mark(node[n], "Standby", "End")
    BY <1>3, <1>5 DEF EndGroupExecutionOrComplete, ResetDescendant
  <2>2. node'[n].state = "Standby" /\ node'[n].executions = node[n].executions
    BY <1>2, <2>1, MarkType DEF States, Transitions
  <2>3. node'[n].executions < MaxExecutions[n]
    BY <1>1, <1>2, <1>5, <2>2 DEF Completes
  <2>4. \A m \in Subtree(n) : m # n => node'[m] = Fresh
    BY <2>1, SubtreeInTree
  <2>5. Coherent'
    BY <1>3, <2>1, <2>2, <2>3, <2>4, RearmChange
  <2> QED BY <1>3, <2>1, <2>5
<1> QED BY <1>4, <1>5

---------------------------------------------------------------------------
(* Where the walk stands after a visit.                                     *)

LEMMA NextWalkStands ==
  ASSUME NEW n \in Nodes, NextWalk(n), ParentRuns(n)'
  PROVE  Walking'
<1>1. CASE n = 1
  <2>1. pc' = "report"
    BY <1>1 DEF NextWalk
  <2> QED BY <2>1 DEF Walking
<1>2. CASE n # 1 /\ HasSibling(n)
  <2>1. /\ pc' = "walk" /\ cur' = Last[n] + 1
        /\ cur' # 1 /\ Parent[cur'] = Parent[n]
    BY <1>2, CursorInTree DEF NextWalk
  <2> QED BY <1>2, <2>1 DEF Walking, ParentRuns
<1>3. CASE n # 1 /\ ~HasSibling(n)
  <2>1. pc' = "walked" /\ cur' = Parent[n]
    BY <1>3 DEF NextWalk
  <2> QED BY <1>3, <2>1 DEF Walking, ParentRuns
<1> QED BY <1>1, <1>2, <1>3

LEMMA WalkChildrenStands ==
  ASSUME NEW n \in Nodes, WalkChildren(n), node'[n].state = "Running"
  PROVE  Walking'
<1>1. CASE n < Last[n]
  <2>1. pc' = "walk" /\ cur' = n + 1 /\ cur' # 1 /\ Parent[cur'] = n
    BY <1>1, CursorInTree DEF WalkChildren
  <2> QED BY <2>1 DEF Walking, ParentRuns
<1>2. CASE ~(n < Last[n])
  <2>1. pc' = "walked" /\ cur' = n
    BY <1>2 DEF WalkChildren
  <2> QED BY <2>1 DEF Walking
<1> QED BY <1>1, <1>2

LEMMA AfterEnterStands ==
  ASSUME NEW n \in Nodes, NEW s, AfterEnter(n, s), ParentRuns(n)', n \in Subtree(top),
         top \in Nodes,
         n = top /\ s = "Running" => node'[n].state = "Running",
         n = 1 => node'[1].state = "Running",
         \A m \in Last[n] + 1 .. Last[top] : node'[m].state = "Standby"
  PROVE  Walking'
<1>1. CASE n # top
  <2>0. n # 1
    BY <1>1, SubtreeNested
  <2>1. CASE HasSibling(n)
    <3>1. /\ pc' = "enter" /\ cur' = Last[n] + 1 /\ top' = top
          /\ cur' # 1 /\ Parent[cur'] = Parent[n]
      BY <1>1, <2>0, <2>1, CursorInTree DEF AfterEnter
    <3> QED BY <2>0, <3>1 DEF Walking, ParentRuns, StandbyFrom
  <2>2. CASE ~HasSibling(n)
    <3>1. pc' = "entered" /\ cur' = Parent[n] /\ top' = top
      BY <1>1, <2>2 DEF AfterEnter
    <3>2. Last[Parent[n]] = Last[n]
      <4>1. Last[n] \in 1 .. N /\ Last[Parent[n]] \in 1 .. N /\ N \in Nat
        BY <2>0, CursorInTree, TreeAssumption DEF Nodes
      <4>2. Last[n] <= Last[Parent[n]] /\ ~(Last[n] < Last[Parent[n]])
        BY <2>0, <2>2, TreeAssumption DEF HasSibling
      <4> QED BY <4>1, <4>2
    <3> QED BY <2>0, <3>1, <3>2 DEF Walking, ParentRuns, StandbyFrom
  <2> QED BY <2>1, <2>2
<1>2. CASE n = top /\ n = 1
  <2>1. pc' = "stop" /\ cur' = 1
    BY <1>2 DEF AfterEnter
  <2> QED BY <1>2, <2>1 DEF Walking
<1>3. CASE n = top /\ n # 1 /\ s = "Running"
  BY <1>3, WalkChildrenStands DEF AfterEnter
<1>4. CASE n = top /\ n # 1 /\ s # "Running"
  BY <1>4, NextWalkStands DEF AfterEnter
<1> QED BY <1>1, <1>2, <1>3, <1>4

---------------------------------------------------------------------------
(* The steps of the host.                                                   *)

LEMMA HostStepKeeps ==
  ASSUME IInv, Bind \/ Reset \/ BeginStep \/ StepComplete \/ Report
  PROVE  Coherent' /\ Walking'
<1>0. node \in [Nodes -> NodeRecord] /\ 1 \in Nodes
  BY TreeAssumption DEF IInv, TypeInv, TypeOK, Nodes
<1>1. CASE Bind \/ Reset
  <2>1. pc' = "idle" /\ node' = [n \in Nodes |-> Fresh]
    BY <1>1 DEF Bind, Reset, Rebuild, control
  <2>2. \A n \in Nodes : node'[n].state = "Standby" /\ node'[n].executions = 0
    BY <2>1 DEF Fresh
  <2>3. \A n \in Nodes \ {1} : Parent[n] \in Nodes
    BY CursorInTree
  <2>4. RunningUnderRunning' /\ CompleteBelowComplete' /\ ExclusiveScope'
    BY <2>2, <2>3 DEF RunningUnderRunning, CompleteBelowComplete, ExclusiveScope, Events
  <2>5. StandbySubtree' /\ GroupBudget'
    BY <2>2, SubtreeInTree DEF StandbySubtree, GroupBudget, Groups
  <2>6. RearmedIsFresh'
    BY <2>1, SubtreeInTree DEF RearmedIsFresh, Groups
  <2> QED BY <2>1, <2>4, <2>5, <2>6 DEF Coherent, Walking
<1>2. CASE BeginStep
  <2>1. \A n \in Nodes : node'[n].state = node[n].state
                         /\ node'[n].executions = node[n].executions
                         /\ (node[n] = Fresh => node'[n] = Fresh)
    <3>1. [Fresh EXCEPT !.stamped = FALSE] = Fresh
      BY FreshType DEF Fresh, NodeRecord
    <3> QED BY <1>0, <1>2, <3>1 DEF BeginStep, NodeRecord
  <2>2. Coherent'
    BY <2>1, SameStates DEF IInv
  <2>3. CASE node[1].state = "Standby"
    <3>1. pc' = "enter" /\ cur' = 1 /\ top' = 1
      BY <1>2, <2>3 DEF BeginStep
    <3>2. \A m \in 1 .. Last[1] : node'[m].state = "Standby"
      BY <1>0, <2>1, <2>3, SubtreeInTree DEF IInv, Coherent, StandbySubtree, Subtree
    <3> QED BY <2>2, <3>1, <3>2 DEF Walking, ParentRuns, StandbyFrom
  <2>4. CASE node[1].state # "Standby"
    <3>1. pc' = "stop" /\ cur' = 1
      BY <1>2, <2>4 DEF BeginStep
    <3>2. node[1].state = "Running"
      BY <1>0, <1>2, <2>4 DEF BeginStep, NodeRecord, States
    <3> QED BY <1>0, <2>1, <2>2, <3>1, <3>2 DEF Walking
  <2> QED BY <2>3, <2>4
<1>3. CASE StepComplete \/ Report
  <2>1. node' = node /\ pc' \in {"report", "idle"}
    BY <1>3 DEF StepComplete, Report
  <2>2. Coherent'
    BY <2>1, SameStates DEF IInv
  <2> QED BY <2>1, <2>2 DEF Walking
<1> QED BY <1>1, <1>2, <1>3

LEMMA StoryboardStopKeeps ==
  ASSUME IInv, StoryboardStop
  PROVE  Coherent' /\ Walking'
<1>0. /\ node \in [Nodes -> NodeRecord] /\ 1 \in Nodes
      /\ cur = 1 /\ node[1].state = "Running"
  BY TreeAssumption DEF IInv, TypeInv, TypeOK, Nodes, Walking, StoryboardStop
<1>1. CASE StopCascade(Nodes) /\ pc' = "report"
  <2>1. Subtree(1) = Nodes
    BY TreeAssumption DEF Subtree, Nodes
  <2>2. \A m \in Nodes : node'[m].state = "Complete"
    BY <1>0, <1>1, StoppedType DEF StopCascade
  <2>3. Coherent'
    BY <1>0, <2>1, <2>2, StopChange DEF IInv, ParentRuns
  <2> QED BY <1>1, <2>3 DEF Walking
<1>2. CASE pc' = "walk" /\ node' = node /\ cur' = cur
  <2>1. Coherent'
    BY <1>2, SameStates DEF IInv
  <2> QED BY <1>0, <1>2, <2>1 DEF Walking, ParentRuns
<1> QED BY <1>1, <1>2 DEF StoryboardStop

---------------------------------------------------------------------------
(* The steps of the walk.                                                   *)

Entering(n) ==
  EnterWaiting(n) \/ EnterExhaustedGroup(n) \/ EnterElement(n) \/ EnterEventOfManeuver(n)

\* What the elements still to be entered rest on when the walk enters n.
LEMMA EnterStands ==
  ASSUME IInv, NEW n \in Nodes, pc = "enter", cur = n
  PROVE  /\ node \in [Nodes -> NodeRecord]
         /\ top \in Nodes /\ n \in Subtree(top) /\ ParentRuns(n)
         /\ node[n].state = "Standby"
         /\ \A m \in Last[n] + 1 .. Last[top] :
              m \in Nodes /\ m # n /\ node[m].state = "Standby"
         /\ \A m \in n + 1 .. Last[top] :
              m \in Nodes /\ m # n /\ node[m].state = "Standby"
<1>1. /\ node \in [Nodes -> NodeRecord] /\ top \in Nodes /\ n \in Subtree(top)
  BY DEF IInv, TypeInv, TypeOK, CursorBelowTop
<1>2. ParentRuns(n) /\ StandbyFrom(n)
  BY DEF IInv, Walking
<1>3. /\ n \in 1 .. N /\ Last[n] \in 1 .. N /\ n <= Last[n] /\ N \in Nat
      /\ Last[top] \in 1 .. N /\ n <= Last[top]
  BY <1>1, SubtreeInTree, TreeAssumption DEF Nodes, Subtree
<1>4. \A m \in n .. Last[top] : m \in Nodes /\ node[m].state = "Standby"
  BY <1>2, <1>3 DEF StandbyFrom, Nodes
<1>5. \A m \in n + 1 .. Last[top] : m \in n .. Last[top] /\ m # n
  BY <1>3
<1>6. \A m \in Last[n] + 1 .. Last[top] : m \in n + 1 .. Last[top]
  BY <1>3
<1>7. n \in n .. Last[top]
  BY <1>3
<1> QED BY <1>1, <1>2, <1>4, <1>5, <1>6, <1>7

LEMMA EnteringKeeps ==
  ASSUME IInv, NEW n \in Nodes, Entering(n)
  PROVE  Coherent' /\ Walking'
<1>0. pc = "enter" /\ cur = n /\ TypeInv /\ Coherent
  BY DEF Entering, EnterWaiting, EnterExhaustedGroup, EnterElement, EnterEventOfManeuver, IInv
<1>1. /\ node \in [Nodes -> NodeRecord]
      /\ top \in Nodes /\ n \in Subtree(top) /\ ParentRuns(n)
      /\ node[n].state = "Standby"
      /\ \A m \in Last[n] + 1 .. Last[top] :
           m \in Nodes /\ m # n /\ node[m].state = "Standby"
      /\ \A m \in n + 1 .. Last[top] :
           m \in Nodes /\ m # n /\ node[m].state = "Standby"
  BY <1>0, EnterStands
<1>2. n # 1 => Parent[n] \in Nodes /\ Parent[n] # n
  BY CursorInTree DEF Nodes
<1>3. CASE EnterWaiting(n)
  <2>1. \A m \in Nodes : m # n => node'[m] = node[m]
    BY <1>1, <1>3 DEF EnterWaiting, ExhaustEvent
  <2>2. Coherent'
    <3>1. CASE Kind[n] = "Event"
      <4>2. node'[n] = StandbyExhaustion(n, node[n])
        BY <1>1, <1>3, <3>1 DEF EnterWaiting, ExhaustEvent
      <4>3. node'[n].state # "Running"
        BY <1>1, <4>2, StandbyExhaustionType
      <4>4. n \in Events /\ \A f \in Siblings(n) : node'[f] = node[f]
        BY <2>1, <3>1 DEF Events, Siblings
      <4> QED BY <1>0, <1>1, <2>1, <4>3, <4>4, EventChange
    <3>2. CASE Kind[n] # "Event"
      BY <1>0, <1>3, <3>2, SameStates DEF EnterWaiting
    <3> QED BY <3>1, <3>2
  <2>3. n # top /\ n # 1
    BY <1>1, <1>3, SubtreeNested DEF EnterWaiting
  <2>4. ParentRuns(n)'
    BY <1>1, <1>2, <2>1 DEF ParentRuns
  <2>5. \A m \in Last[n] + 1 .. Last[top] : node'[m].state = "Standby"
    BY <1>1, <2>1
  <2>6. AfterEnter(n, node[n].state)
    BY <1>3 DEF EnterWaiting
  <2> QED BY <1>1, <2>2, <2>3, <2>4, <2>5, <2>6, AfterEnterStands
<1>4. CASE EnterExhaustedGroup(n)
  <2>1. /\ \A m \in Nodes : m # n => node'[m] = node[m]
        /\ node'[n] = Mark(node[n], "Complete", "End")
    BY <1>1, <1>4 DEF EnterExhaustedGroup
  <2>2. node'[n].state = "Complete"
    BY <1>1, <2>1, MarkType DEF States, Transitions
  <2>3. Kind[n] = "Group" /\ MaxExecutions[n] = 0
    <3>1. node[n].executions \in Nat /\ MaxExecutions[n] \in Nat
      BY <1>1, ScenarioAssumption DEF NodeRecord
    <3>2. node[n].executions = 0 \/ node[n].executions < MaxExecutions[n]
      BY <1>0, <1>1, <1>4 DEF Coherent, GroupBudget, Groups, EnterExhaustedGroup
    <3> QED BY <1>4, <3>1, <3>2 DEF EnterExhaustedGroup
  <2>4. Coherent'
    BY <1>0, <1>1, <2>1, <2>2, <2>3, EndChange
  <2>5. n # 1
    BY <2>3, TreeAssumption
  <2>6. ParentRuns(n)'
    BY <1>1, <1>2, <2>1 DEF ParentRuns
  <2>7. \A m \in Last[n] + 1 .. Last[top] : node'[m].state = "Standby"
    BY <1>1, <2>1
  <2>8. AfterEnter(n, "Complete")
    BY <1>4 DEF EnterExhaustedGroup
  <2> QED BY <1>1, <2>4, <2>5, <2>6, <2>7, <2>8, AfterEnterStands
<1>5. CASE EnterElement(n)
  <2>1. /\ \A m \in Nodes : m # n => node'[m] = node[m]
        /\ node'[n] = Started(n, node[n])
    BY <1>1, <1>5 DEF EnterElement
  <2>2. node'[n].state = "Running"
    BY <1>1, <2>1, StartedType
  <2>3. Coherent'
    BY <1>0, <1>1, <1>5, <2>1, <2>2, EnterChange DEF EnterElement
  <2>4. top' = top
    BY <1>5 DEF EnterElement
  <2>5. CASE n < Last[n]
    <3>1. pc' = "enter" /\ cur' = n + 1 /\ n + 1 # 1 /\ Parent[n + 1] = n
      BY <1>5, <2>5, CursorInTree DEF EnterElement
    <3>2. \A m \in n + 1 .. Last[top] : node'[m].state = "Standby"
      BY <1>1, <2>1
    <3> QED BY <2>2, <2>3, <2>4, <3>1, <3>2 DEF Walking, ParentRuns, StandbyFrom
  <2>6. CASE ~(n < Last[n])
    <3>1. pc' = "entered" /\ cur' = n
      BY <1>5, <2>6 DEF EnterElement
    <3>2. \A m \in Last[n] + 1 .. Last[top] : node'[m].state = "Standby"
      BY <1>1, <2>1
    <3> QED BY <2>2, <2>3, <2>4, <3>1, <3>2 DEF Walking, StandbyFrom
  <2> QED BY <2>5, <2>6
<1>6. CASE EnterEventOfManeuver(n)
  <2>1. n \in Events /\ StartEvent(n) /\ AfterEnter(n, node'[n].state)
    BY <1>6 DEF EnterEventOfManeuver, Events
  <2>2. /\ Coherent'
        /\ \A m \in Nodes : m # n /\ node[m].state # "Running" => node'[m] = node[m]
        /\ \A m \in Nodes : m # n /\ m \notin Siblings(n) => node'[m] = node[m]
    BY <1>0, <1>1, <2>1, StartEventChange
  <2>3. n # 1
    BY <2>1, TreeAssumption DEF Events
  <2>4. Parent[n] \notin Siblings(n)
    BY <2>3, ParentNotSibling
  <2>5. ParentRuns(n)'
    BY <1>1, <1>2, <2>2, <2>4 DEF ParentRuns
  <2>6. \A m \in Last[n] + 1 .. Last[top] : node'[m].state = "Standby"
    BY <1>1, <2>2
  <2> QED BY <1>1, <2>1, <2>2, <2>3, <2>5, <2>6, AfterEnterStands
<1> QED BY <1>3, <1>4, <1>5, <1>6 DEF Entering

LEMMA EnteredKeeps ==
  ASSUME IInv, NEW n \in Nodes, Entered(n)
  PROVE  Coherent' /\ Walking'
<1>1. /\ pc = "entered" /\ cur = n /\ TypeInv /\ Coherent
      /\ top \in Nodes /\ n \in Subtree(top)
      /\ node[n].state = "Running" /\ StandbyFrom(Last[n] + 1)
  BY DEF Entered, IInv, TypeInv, CursorBelowTop, Walking
<1>2. ParentRuns(n)
  BY <1>1 DEF Coherent, RunningUnderRunning, ParentRuns
<1>3. /\ Coherent'
      /\ \A m \in Nodes : m \notin Subtree(n) => node'[m] = node[m]
      /\ n = 1 => node' = node
  <2>1. CASE Kind[n] # "Storyboard" /\ AllChildrenComplete(n)
    <3>1. EndGroupExecutionOrComplete(n) /\ n # 1
      BY <2>1, TreeAssumption DEF Entered
    <3> QED BY <1>1, <2>1, <3>1, EndGroupChange
  <2>2. CASE ~(Kind[n] # "Storyboard" /\ AllChildrenComplete(n))
    <3>1. node' = node
      BY <2>2 DEF Entered
    <3> QED BY <1>1, <3>1, SameStates
  <2> QED BY <2>1, <2>2
<1>4. ParentRuns(n)'
  BY <1>2, <1>3, CursorInTree, SubtreeClosed DEF ParentRuns
<1>5. \A m \in Last[n] + 1 .. Last[top] : node'[m].state = "Standby"
  <2>1. \A m \in Last[n] + 1 .. Last[top] : node[m].state = "Standby"
    BY <1>1 DEF StandbyFrom
  <2>2. \A m \in Last[n] + 1 .. Last[top] : m \in Nodes /\ m \notin Subtree(n)
    <3>1. Last[n] \in 1 .. N /\ Last[top] \in 1 .. N /\ N \in Nat /\ n \in 1 .. N
      BY <1>1, SubtreeInTree, TreeAssumption DEF Nodes
    <3> QED BY <3>1 DEF Subtree, Nodes
  <2> QED BY <1>3, <2>1, <2>2
<1>6. AfterEnter(n, node'[n].state)
  BY DEF Entered
<1> QED BY <1>1, <1>3, <1>4, <1>5, <1>6, AfterEnterStands

LEMMA UpdatedKeeps ==
  ASSUME IInv, NEW n \in Nodes, Updated(n)
  PROVE  Coherent' /\ Walking'
<1>1. TypeInv /\ Coherent /\ node[n].state = "Running"
  BY DEF Updated, IInv, Walking
<1>2. ParentRuns(n)
  BY <1>1 DEF Coherent, RunningUnderRunning, ParentRuns
<1>3. /\ Coherent'
      /\ \A m \in Nodes : m \notin Subtree(n) => node'[m] = node[m]
  <2>1. CASE Kind[n] # "Storyboard" /\ AllChildrenComplete(n)
    <3>1. EndGroupExecutionOrComplete(n)
      BY <2>1 DEF Updated
    <3> QED BY <1>1, <2>1, <3>1, EndGroupChange
  <2>2. CASE ~(Kind[n] # "Storyboard" /\ AllChildrenComplete(n))
    <3>1. node' = node
      BY <2>2 DEF Updated
    <3> QED BY <1>1, <3>1, SameStates
  <2> QED BY <2>1, <2>2
<1>4. ParentRuns(n)'
  BY <1>2, <1>3, CursorInTree, SubtreeClosed DEF ParentRuns
<1> QED BY <1>3, <1>4, NextWalkStands DEF Updated

Updating(n) ==
  \/ UpdateComplete(n) \/ UpdateStop(n) \/ UpdateWait(n) \/ UpdateStart(n)
  \/ UpdateRunning(n) \/ UpdateRunningEvent(n) \/ ProgressEvent(n)
  \/ UpdateWaitingEvent(n) \/ UpdateTriggeredEvent(n)

LEMMA UpdatingKeeps ==
  ASSUME IInv, NEW n \in Nodes, Updating(n)
  PROVE  Coherent' /\ Walking'
<1>1. pc = "walk" /\ cur = n
  BY DEF Updating, UpdateComplete, UpdateStop, UpdateWait, UpdateStart, UpdateRunning,
         UpdateRunningEvent, ProgressEvent, ProgressWith, UpdateWaitingEvent,
         UpdateTriggeredEvent
<1>2. TypeInv /\ Coherent /\ ParentRuns(n) /\ node \in [Nodes -> NodeRecord]
  BY <1>1 DEF IInv, Walking, TypeInv, TypeOK
<1>3. n # 1 => Parent[n] \in Nodes /\ Parent[n] # n /\ Parent[n] \notin Subtree(n)
  BY CursorInTree, SubtreeClosed DEF Nodes
<1>4. CASE \/ UpdateComplete(n) \/ UpdateWait(n)
           \/ UpdateRunningEvent(n) \/ UpdateWaitingEvent(n)
  <2>1. node' = node /\ NextWalk(n)
    BY <1>4 DEF UpdateComplete, UpdateWait, UpdateRunningEvent, UpdateWaitingEvent
  <2>2. Coherent' /\ ParentRuns(n)'
    BY <1>2, <2>1, SameStates DEF ParentRuns
  <2> QED BY <2>1, <2>2, NextWalkStands
<1>5. CASE UpdateStop(n)
  <2>1. /\ \A m \in Nodes : m \notin Subtree(n) => node'[m] = node[m]
        /\ \A m \in Nodes : m \in Subtree(n) => node'[m] = Stopped(m, node[m])
    BY <1>5 DEF UpdateStop, StopCascade
  <2>2. \A m \in Subtree(n) : node'[m].state = "Complete"
    BY <1>2, <2>1, SubtreeInTree, StoppedType
  <2>3. Coherent'
    BY <1>2, <2>1, <2>2, StopChange
  <2>4. ParentRuns(n)' /\ NextWalk(n)
    BY <1>2, <1>3, <1>5, <2>1 DEF ParentRuns, UpdateStop
  <2> QED BY <2>3, <2>4, NextWalkStands
<1>6. CASE UpdateStart(n)
  <2>1. pc' = "enter" /\ cur' = n /\ top' = n /\ node' = node /\ node[n].state = "Standby"
    BY <1>1, <1>6 DEF UpdateStart
  <2>2. \A m \in n .. Last[n] : node[m].state = "Standby"
    BY <1>2, <2>1 DEF Coherent, StandbySubtree, Subtree
  <2>3. Coherent'
    BY <1>2, <2>1, SameStates
  <2>4. ParentRuns(cur)' /\ StandbyFrom(cur)'
    BY <1>2, <2>1, <2>2 DEF ParentRuns, StandbyFrom
  <2> QED BY <2>1, <2>3, <2>4 DEF Walking
<1>7. CASE UpdateRunning(n)
  <2>1. node' = node /\ WalkChildren(n) /\ node[n].state = "Running"
    BY <1>7 DEF UpdateRunning
  <2>2. Coherent'
    BY <1>2, <2>1, SameStates
  <2> QED BY <2>1, <2>2, WalkChildrenStands
<1>8. CASE ProgressEvent(n)
  <2>1. n \in Events /\ node[n].state = "Running" /\ NextWalk(n)
    BY <1>8 DEF ProgressEvent, ProgressWith, Events
  <2>2. \A m \in Nodes : m # n => node'[m] = node[m]
    BY <1>2, <1>8 DEF ProgressEvent, ProgressWith
  <2>3. \A f \in Siblings(n) : f \in Nodes /\ f # n /\ Parent[f] = Parent[n]
                                /\ node'[f] = node[f]
    BY <2>2 DEF Siblings
  <2>4. ASSUME NEW f \in Siblings(n), node'[f].state = "Running"
        PROVE  Priority[n] = "Parallel" \/ Priority[f] = "Parallel"
    <3>1. n # 1 /\ f # 1
      BY <2>1, <2>3, TreeAssumption DEF Events, Nodes
    <3>2. f \in Events
      BY <2>1, <2>3, <3>1, TreeAssumption DEF Events
    <3> QED BY <1>2, <2>1, <2>3, <2>4, <3>2 DEF Coherent, ExclusiveScope
  <2>5. Coherent'
    BY <1>2, <2>1, <2>2, <2>3, <2>4, EventChange
  <2>6. ParentRuns(n)'
    BY <1>2, <1>3, <2>2 DEF ParentRuns
  <2> QED BY <2>1, <2>5, <2>6, NextWalkStands
<1>9. CASE UpdateTriggeredEvent(n)
  <2>1. n \in Events /\ node[n].state = "Standby" /\ StartEvent(n) /\ NextWalk(n)
    BY <1>9 DEF UpdateTriggeredEvent, Events
  <2>2. /\ Coherent'
        /\ \A m \in Nodes : m # n /\ m \notin Siblings(n) => node'[m] = node[m]
    BY <1>2, <2>1, StartEventChange
  <2>3. n # 1
    BY <2>1, TreeAssumption DEF Events
  <2>4. Parent[n] \notin Siblings(n)
    BY <2>3, ParentNotSibling
  <2>5. ParentRuns(n)'
    BY <1>2, <1>3, <2>2, <2>4 DEF ParentRuns
  <2> QED BY <2>1, <2>2, <2>5, NextWalkStands
<1> QED BY <1>4, <1>5, <1>6, <1>7, <1>8, <1>9 DEF Updating

---------------------------------------------------------------------------
(* The theorems.                                                            *)

LEMMA IInvInit == Init => IInv
<1> SUFFICES ASSUME Init PROVE Coherent /\ Walking
  BY TypeInvInit DEF IInv
<1>1. \A n \in Nodes : node[n].state = "Standby" /\ node[n].executions = 0
  BY DEF Init, Fresh
<1>2. \A n \in Nodes \ {1} : Parent[n] \in Nodes
  BY CursorInTree
<1>3. RunningUnderRunning /\ CompleteBelowComplete /\ ExclusiveScope
  BY <1>1, <1>2 DEF RunningUnderRunning, CompleteBelowComplete, ExclusiveScope, Events
<1>4. StandbySubtree /\ GroupBudget /\ RearmedIsFresh
  BY <1>1, SubtreeInTree DEF StandbySubtree, GroupBudget, RearmedIsFresh, Groups, Init
<1> QED BY <1>3, <1>4 DEF Coherent, Walking, Init

LEMMA IInvNext ==
  ASSUME IInv, [Next]_vars
  PROVE  IInv'
<1>0. TypeInv'
  BY TypeInvNext DEF IInv
<1>1. CASE UNCHANGED vars
  BY <1>1, SameStates DEF vars, IInv, Walking, ParentRuns, StandbyFrom, TypeInv, TypeOK,
     CursorBelowTop
<1>2. CASE Bind \/ Reset \/ BeginStep \/ StepComplete \/ Report
  BY <1>0, <1>2, HostStepKeeps DEF IInv
<1>3. CASE StoryboardStop
  BY <1>0, <1>3, StoryboardStopKeeps DEF IInv
<1>4. ASSUME NEW n \in Nodes, Visit(n)
      PROVE  IInv'
  <2>1. Entering(n) \/ Entered(n) \/ Updating(n) \/ Updated(n)
    BY <1>4 DEF Visit, Entering, Updating
  <2> QED BY <1>0, <2>1, EnteringKeeps, EnteredKeeps, UpdatingKeeps, UpdatedKeeps DEF IInv
<1> QED BY <1>1, <1>2, <1>3, <1>4 DEF Next, Walk

\* In every storyboard the states of parents and children agree between any two
\* visits of the walk: nothing runs under an element that does not, nothing has
\* left standbyState under an element that waits, and what a completed element
\* leaves incomplete is below a group that may not execute.
THEOREM TreeStaysCoherent == Spec => []TreeCoherent
<1>1. IInv => TreeCoherent
  BY CoherentTree DEF IInv
<1> QED BY <1>1, IInvInit, IInvNext, PTL DEF Spec

\* In every storyboard two events that run together in a maneuver include one of
\* priority parallel, whatever the order of triggers, overrides and skips.
THEOREM ScopeStaysExclusive == Spec => []ExclusiveScope
<1>1. IInv => ExclusiveScope
  BY DEF IInv, Coherent
<1> QED BY <1>1, IInvInit, IInvNext, PTL DEF Spec

\* In every storyboard a group that waits to execute again has nothing below it
\* that is not as bind() made it, whatever ended its last execution.
THEOREM RearmedStaysFresh == Spec => []RearmedIsFresh
<1>1. IInv => RearmedIsFresh
  BY DEF IInv, Coherent
<1> QED BY <1>1, IInvInit, IInvNext, PTL DEF Spec

---------------------------------------------------------------------------
(* More about the tree.                                                     *)

\* Below an element that does not run nothing runs.
LEMMA AncestorsRun ==
  ASSUME RunningUnderRunning, NEW a \in Nodes, NEW m \in Subtree(a),
         node[m].state = "Running"
  PROVE  node[a].state = "Running"
<1> SUFFICES ASSUME node[a].state # "Running"
             PROVE  FALSE
  OBVIOUS
<1> DEFINE T == {x \in Subtree(a) : node[x].state = "Running"}
<1>1. \A x \in Subtree(a) : x \in Nodes /\ x \in Nat
  BY SubtreeInTree DEF Nodes
<1>2. PICK x \in T : \A y \in T : x <= y
  <2>1. T \subseteq Nat /\ T # {}
    BY <1>1
  <2> QED BY <2>1, LeastNatural
<1>3. x # a /\ x \in Nodes \ {1}
  BY SubtreeNested
<1>4. Parent[x] \in Subtree(a) /\ node[Parent[x]].state = "Running"
        /\ Parent[x] < x /\ Parent[x] \in Nat
  BY <1>1, <1>3, SubtreeClosed, CursorInTree DEF RunningUnderRunning
<1> QED BY <1>1, <1>2, <1>3, <1>4

\* Nothing runs below an element whose children are complete.
LEMMA NothingRunsBelow ==
  ASSUME RunningUnderRunning, NEW a \in Nodes, AllChildrenComplete(a),
         NEW m \in Subtree(a), m # a
  PROVE  node[m].state # "Running"
<1> SUFFICES ASSUME node[m].state = "Running"
             PROVE  FALSE
  OBVIOUS
<1> DEFINE T == {x \in Subtree(a) \ {a} : node[x].state = "Running"}
<1>1. \A x \in Subtree(a) : x \in Nodes /\ x \in Nat
  BY SubtreeInTree DEF Nodes
<1>2. PICK x \in T : \A y \in T : x <= y
  <2>1. T \subseteq Nat /\ T # {}
    BY <1>1
  <2> QED BY <2>1, LeastNatural
<1>3. x # a /\ x \in Nodes \ {1}
  BY SubtreeNested
<1>4. Parent[x] \in Subtree(a) /\ node[Parent[x]].state = "Running"
        /\ Parent[x] < x /\ Parent[x] \in Nat
  BY <1>1, <1>3, SubtreeClosed, CursorInTree DEF RunningUnderRunning
<1>5. Parent[x] # a
  BY <1>1, <1>3 DEF AllChildrenComplete, Children
<1> QED BY <1>1, <1>2, <1>4, <1>5

\* What is below a group, and below an act.
LEMMA KindsBelow ==
  ASSUME NEW a \in Nodes, NEW m \in Subtree(a), m # a
  PROVE  /\ Kind[a] = "Group" => Kind[m] \in {"Maneuver", "Event"}
         /\ Kind[a] = "Act" => Kind[m] \in {"Group", "Maneuver", "Event"}
<1> SUFFICES ASSUME ~ (/\ Kind[a] = "Group" => Kind[m] \in {"Maneuver", "Event"}
                       /\ Kind[a] = "Act" => Kind[m] \in {"Group", "Maneuver", "Event"})
             PROVE  FALSE
  OBVIOUS
<1> DEFINE Allowed(x) == /\ Kind[a] = "Group" => Kind[x] \in {"Maneuver", "Event"}
                         /\ Kind[a] = "Act" => Kind[x] \in {"Group", "Maneuver", "Event"}
           T == {x \in Subtree(a) \ {a} : ~ Allowed(x)}
<1>1. \A x \in Subtree(a) : x \in Nodes /\ x \in Nat
  BY SubtreeInTree DEF Nodes
<1>2. PICK x \in T : \A y \in T : x <= y
  <2>1. T \subseteq Nat /\ T # {}
    BY <1>1
  <2> QED BY <2>1, LeastNatural
<1>3. x # a /\ x \in Nodes \ {1}
  BY SubtreeNested
<1>4. Parent[x] \in Subtree(a) /\ Parent[x] < x /\ Parent[x] \in Nat
        /\ Kind[x] = ChildKind[Kind[Parent[x]]] /\ Parent[x] \in Nodes
  BY <1>1, <1>3, SubtreeClosed, CursorInTree, TreeAssumption
<1>5. Kind[x] # "none" /\ Kind[Parent[x]] \in Kinds /\ Kind[Parent[x]] # "Event"
  BY <1>3, <1>4, EventsAreLeaves, TreeAssumption DEF Kinds
<1>6. Parent[x] = a \/ Allowed(Parent[x])
  BY <1>1, <1>2, <1>4
<1> HIDE DEF T
<1>7. Allowed(x)
  BY <1>4, <1>5, <1>6 DEF ChildKind, Kinds
<1> QED BY <1>2, <1>7 DEF T

\* The siblings of an event are events.
LEMMA EventSiblings ==
  ASSUME NEW e \in Events, NEW f \in Siblings(e)
  PROVE  f \in Nodes \ {1} /\ Kind[f] = "Event" /\ Parent[f] = Parent[e]
<1>1. f \in Nodes /\ Parent[f] = Parent[e] /\ e \in Nodes /\ e # 1 /\ Kind[e] = "Event"
  BY TreeAssumption DEF Siblings, Events
<1>2. f # 1
  BY <1>1, TreeAssumption DEF Nodes
<1> QED BY <1>1, <1>2, TreeAssumption

---------------------------------------------------------------------------
(* The actions the host holds.                                              *)

\* Neither the element update() started nor one whose children have been
\* visited is an event.
CursorKinds ==
  /\ pc \in {"entered", "walked"} => Kind[cur] # "Event"
  /\ pc \in {"enter", "entered"} => Kind[top] # "Event"

LEMMA CursorKindsNext ==
  ASSUME TypeInv, CursorKinds, [Next]_vars
  PROVE  CursorKinds'
<1> USE DEF TypeInv, CursorBelowTop
<1>0. cur \in Nodes /\ 1 \in Nodes /\ Kind[1] = "Storyboard"
  BY TreeAssumption DEF TypeOK, Nodes
<1>1. ASSUME NEW n \in Nodes, NextWalk(n)
      PROVE  CursorKinds'
  BY <1>1, EventsAreLeaves DEF NextWalk, CursorKinds
<1>2. ASSUME NEW n \in Nodes, WalkChildren(n), Kind[n] # "Event"
      PROVE  CursorKinds'
  BY <1>2 DEF WalkChildren, CursorKinds
<1>3. ASSUME NEW n \in Nodes, NEW s, pc \in {"enter", "entered"}, cur = n, AfterEnter(n, s)
      PROVE  CursorKinds'
  <2>1. top \in Nodes /\ n \in Subtree(top) /\ Kind[top] # "Event"
    BY <1>3 DEF CursorKinds
  <2>2. CASE n # top
    <3>1. n # 1
      BY <2>1, <2>2, SubtreeNested
    <3> QED BY <1>3, <2>1, <2>2, <3>1, EventsAreLeaves DEF AfterEnter, CursorKinds
  <2>3. CASE n = top /\ n = 1
    BY <1>3, <2>3 DEF AfterEnter, CursorKinds
  <2>4. CASE n = top /\ n # 1
    BY <1>1, <1>2, <1>3, <2>1, <2>4 DEF AfterEnter
  <2> QED BY <2>2, <2>3, <2>4
<1>4. CASE UNCHANGED vars
  BY <1>4 DEF vars, CursorKinds
<1>5. CASE Bind \/ Reset \/ StepComplete \/ Report \/ StoryboardStop
  BY <1>5 DEF Bind, Reset, Rebuild, control, StepComplete, Report, StoryboardStop, CursorKinds
<1>6. CASE BeginStep
  BY <1>0, <1>6 DEF BeginStep, CursorKinds
<1>7. ASSUME NEW n \in Nodes, Visit(n)
      PROVE  CursorKinds'
  <2>1. CASE EnterElement(n)
    BY <2>1 DEF EnterElement, CursorKinds
  <2>2. CASE UpdateStart(n)
    BY <2>2 DEF UpdateStart, CursorKinds
  <2>3. CASE UpdateRunning(n)
    BY <1>2, <2>3 DEF UpdateRunning
  <2>4. CASE EnterWaiting(n) \/ EnterExhaustedGroup(n) \/ EnterEventOfManeuver(n) \/ Entered(n)
    BY <1>3, <2>4 DEF EnterWaiting, EnterExhaustedGroup, EnterEventOfManeuver, Entered
  <2>5. CASE \/ UpdateComplete(n) \/ UpdateStop(n) \/ UpdateWait(n) \/ UpdateRunningEvent(n)
             \/ ProgressEvent(n) \/ UpdateWaitingEvent(n) \/ UpdateTriggeredEvent(n)
             \/ Updated(n)
    BY <1>1, <2>5 DEF UpdateComplete, UpdateStop, UpdateWait, UpdateRunningEvent,
       ProgressEvent, ProgressWith, UpdateWaitingEvent, UpdateTriggeredEvent, Updated
  <2> QED BY <1>7, <2>1, <2>2, <2>3, <2>4, <2>5 DEF Visit
<1> QED BY <1>4, <1>5, <1>6, <1>7 DEF Next, Walk

\* What the scheduler knows of the actions of e and what the host does agree.
PolledAt(e, r, h) ==
  /\ h = r.running
  /\ ~ r.ongoing
  /\ r.running # {} => r.state = "Running" /\ Kind[e] = "Event"
Polled == \A e \in Nodes : PolledAt(e, node[e], held[e])

LEMMA MarkPolled ==
  ASSUME NEW r \in NodeRecord, NEW e, NEW h, PolledAt(e, r, h), r.running = {},
         NEW s, NEW t
  PROVE  PolledAt(e, Mark(r, s, t), h)
BY DEF PolledAt, Mark, NodeRecord

LEMMA FreshPolled ==
  ASSUME NEW e
  PROVE  PolledAt(e, Fresh, {})
BY DEF PolledAt, Fresh

LEMMA StoppedPolled ==
  ASSUME NEW e \in Nodes, NEW r \in NodeRecord, NEW h, PolledAt(e, r, h)
  PROVE  PolledAt(e, Stopped(e, r), h \ r.running)
<1>1. Stopped(e, r).running = {} /\ Stopped(e, r).ongoing = FALSE
  BY DEF Stopped, Mark, NodeRecord
<1> QED BY <1>1 DEF PolledAt

LEMMA StandbyPolled ==
  ASSUME NEW e \in Nodes, NEW r \in NodeRecord, NEW h, PolledAt(e, r, h),
         r.state = "Standby"
  PROVE  /\ PolledAt(e, StandbyExhaustion(e, r), h)
         /\ PolledAt(e, Skipped(r), h)
<1>1. r.running = {}
  BY DEF PolledAt
<1>2. \A s, t : PolledAt(e, Mark(r, s, t), h)
  BY <1>1, MarkPolled
<1>3. \A s, t : Mark(r, s, t).running = {} /\ Mark(r, s, t).ongoing = r.ongoing
  BY <1>1 DEF Mark, NodeRecord
<1>4. PolledAt(e, Skipped(r), h)
  <2>1. Skipped(r).running = {} /\ Skipped(r).ongoing = r.ongoing
    BY <1>1, SkippedType DEF Skipped, Mark, NodeRecord
  <2> QED BY <1>1, <2>1 DEF PolledAt
<1> QED BY <1>2, <1>4 DEF StandbyExhaustion

\* The host answers Complete or Running.
HostPolls == Outcomes \subseteq {"Complete", "Running"}

LEMMA FiredPolled ==
  ASSUME HostPolls, NEW e \in Events, NEW r \in NodeRecord,
         NEW out \in [Actions[e] -> Outcomes]
  PROVE  PolledAt(e, Fired(e, r, out), {a \in Actions[e] : out[a] # "Complete"})
<1> DEFINE k == {a \in Actions[e] : out[a] = "Running"}
           b == \E a \in Actions[e] : out[a] = "Ongoing"
           s == [Mark(r, "Running", "Start") EXCEPT
                   !.executions = @ + 1, !.running = k, !.ongoing = b]
<1>1. b = FALSE /\ k = {a \in Actions[e] : out[a] # "Complete"}
  BY DEF HostPolls
<1>2. Mark(r, "Running", "Start") \in NodeRecord
  BY MarkType DEF States, Transitions
<1>3. k \in SUBSET AllActions
  BY DEF AllActions, Events
<1> HIDE DEF k, b
<1>4. s \in NodeRecord
  BY <1>1, <1>2, <1>3, ActionsSetType, Zenon
<1>5. s.running = k /\ s.ongoing = b /\ s.state = "Running"
  BY <1>2 DEF Mark, NodeRecord
<1>6. Fired(e, r, out) = IF s.running = {} /\ ~ s.ongoing THEN EndExecution(e, s) ELSE s
  BY DEF Fired, k, b
<1> HIDE DEF s
<1>7. PolledAt(e, s, k)
  BY <1>1, <1>5 DEF PolledAt, Events
<1>8. s.running = {} => PolledAt(e, EndExecution(e, s), k)
  BY <1>4, <1>7, MarkPolled DEF EndExecution
<1> QED BY <1>1, <1>6, <1>7, <1>8

LEMMA ProgressedPolled ==
  ASSUME HostPolls, NEW e \in Events, NEW r \in NodeRecord, NEW h, PolledAt(e, r, h),
         r.state = "Running", NEW out \in [r.running -> Outcomes]
  PROVE  PolledAt(e, Progressed(e, r, out), h \ {a \in r.running : out[a] = "Complete"})
<1> DEFINE k == {a \in r.running : out[a] = "Running"}
           s == [r EXCEPT !.running = k]
<1>1. k = h \ {a \in r.running : out[a] = "Complete"}
  BY DEF HostPolls, PolledAt
<1>2. s \in NodeRecord /\ s.running = k /\ s.ongoing = r.ongoing /\ s.state = "Running"
  BY DEF NodeRecord
<1>3. Progressed(e, r, out) = IF s.running = {} /\ ~ s.ongoing THEN EndExecution(e, s) ELSE s
  BY DEF Progressed
<1> HIDE DEF s, k
<1>4. PolledAt(e, s, k)
  BY <1>2 DEF PolledAt, Events
<1>5. s.running = {} => PolledAt(e, EndExecution(e, s), k)
  BY <1>2, <1>4, MarkPolled DEF EndExecution
<1> QED BY <1>1, <1>3, <1>4, <1>5

LEMMA StartEventPolled ==
  ASSUME HostPolls, TypeInv, Polled, NEW e \in Events, node[e].state = "Standby",
         StartEvent(e) \/ ExhaustEvent(e)
  PROVE  Polled'
<1>0. e \in Nodes /\ node \in [Nodes -> NodeRecord] /\ held \in [Nodes -> SUBSET AllActions]
        /\ \A m \in Nodes : PolledAt(m, node[m], held[m])
  BY DEF Events, TypeInv, TypeOK, Polled
<1>1. CASE ExhaustEvent(e)
  BY <1>0, <1>1, StandbyPolled DEF ExhaustEvent, Polled
<1>2. CASE SkipEvent(e)
  <2>1. Skipped(node[e]) \in NodeRecord /\ Skipped(node[e]).state = "Standby"
    BY <1>0, SkippedType
  <2>2. PolledAt(e, StandbyExhaustion(e, Skipped(node[e])), held[e])
    BY <1>0, <2>1, StandbyPolled
  <2> QED BY <1>0, <1>2, <2>2 DEF SkipEvent, Polled
<1>3. ASSUME NEW out \in [Actions[e] -> Outcomes], EnterEvent(e, out)
      PROVE  Polled'
  <2> SUFFICES ASSUME NEW m \in Nodes
               PROVE  PolledAt(m, node'[m], held'[m])
    BY DEF Polled
  <2>1. CASE m = e
    BY <1>0, <1>3, <2>1, FiredPolled DEF EnterEvent
  <2>2. CASE m # e
    BY <1>0, <1>3, <2>2, StoppedPolled DEF EnterEvent, Released
  <2> QED BY <2>1, <2>2
<1> QED BY <1>1, <1>2, <1>3 DEF StartEvent

LEMMA StopCascadePolled ==
  ASSUME TypeInv, Polled, NEW S, StopCascade(S)
  PROVE  Polled'
<1>1. node \in [Nodes -> NodeRecord] /\ \A m \in Nodes : PolledAt(m, node[m], held[m])
  BY DEF TypeInv, TypeOK, Polled
<1> QED BY <1>1, StoppedPolled DEF StopCascade, Released, Polled

LEMMA EndGroupPolled ==
  ASSUME TypeInv, Coherent, Polled, NEW n \in Nodes, Kind[n] # "Event",
         AllChildrenComplete(n), EndGroupExecutionOrComplete(n)
  PROVE  Polled'
<1>1. node \in [Nodes -> NodeRecord] /\ \A m \in Nodes : PolledAt(m, node[m], held[m])
  BY DEF TypeInv, TypeOK, Polled
<1>2. \A s, t : PolledAt(n, Mark(node[n], s, t), held[n])
  <2>1. node[n].running = {}
    BY <1>1 DEF PolledAt
  <2> QED BY <1>1, <2>1, MarkPolled
<1>3. \A m \in Subtree(n) : m # n => m \in Nodes /\ held[m] = {}
  BY <1>1, NothingRunsBelow, SubtreeInTree DEF Coherent, PolledAt
<1>4. held' = held
  BY DEF EndGroupExecutionOrComplete
<1> SUFFICES ASSUME NEW m \in Nodes
             PROVE  PolledAt(m, node'[m], held'[m])
  BY DEF Polled
<1>5. CASE m = n
  <2>1. \E s, t : node'[n] = Mark(node[n], s, t)
    BY <1>1 DEF EndGroupExecutionOrComplete
  <2> QED BY <1>2, <1>4, <1>5, <2>1
<1>6. CASE m # n
  <2>1. node'[m] = node[m] \/ (m \in Subtree(n) /\ node'[m] = Fresh)
    BY <1>1, <1>6 DEF EndGroupExecutionOrComplete, ResetDescendant
  <2> QED BY <1>1, <1>3, <1>4, <1>6, <2>1, FreshPolled
<1> QED BY <1>5, <1>6

LEMMA PolledNext ==
  ASSUME HostPolls, IInv, CursorKinds, Polled, [Next]_vars
  PROVE  Polled'
<1>0. /\ TypeInv /\ Coherent /\ node \in [Nodes -> NodeRecord] /\ held \in [Nodes -> SUBSET AllActions]
      /\ \A m \in Nodes : PolledAt(m, node[m], held[m])
  BY DEF IInv, TypeInv, TypeOK, Polled
<1>1. ASSUME node' = node, held' = held
      PROVE  Polled'
  BY <1>1 DEF Polled
<1>2. CASE UNCHANGED vars
  BY <1>1, <1>2 DEF vars
<1>3. CASE Bind \/ Reset
  BY <1>3, FreshPolled DEF Bind, Reset, Rebuild, Polled
<1>4. CASE BeginStep
  <2>1. \A m \in Nodes : PolledAt(m, [node[m] EXCEPT !.stamped = FALSE], held[m])
    BY <1>0 DEF PolledAt, NodeRecord
  <2> QED BY <1>4, <2>1 DEF BeginStep, Polled
<1>5. CASE StepComplete \/ Report
  BY <1>1, <1>5 DEF StepComplete, Report
<1>6. CASE StoryboardStop
  BY <1>0, <1>1, <1>6, StopCascadePolled DEF StoryboardStop
<1>7. ASSUME NEW n \in Nodes, Visit(n)
      PROVE  Polled'
  <2>1. CASE \/ UpdateComplete(n) \/ UpdateWait(n) \/ UpdateStart(n) \/ UpdateRunning(n)
             \/ UpdateRunningEvent(n) \/ UpdateWaitingEvent(n)
    BY <1>1, <2>1 DEF UpdateComplete, UpdateWait, UpdateStart, UpdateRunning,
       UpdateRunningEvent, UpdateWaitingEvent
  <2>2. CASE UpdateStop(n)
    BY <1>0, <2>2, StopCascadePolled DEF UpdateStop
  <2>3. CASE Entered(n) \/ Updated(n)
    <3>1. Kind[n] # "Event"
      BY <2>3 DEF Entered, Updated, CursorKinds
    <3> QED BY <1>0, <1>1, <2>3, <3>1, EndGroupPolled DEF Entered, Updated
  <2>4. CASE UpdateTriggeredEvent(n)
    BY <1>0, <2>4, StartEventPolled DEF UpdateTriggeredEvent, Events
  <2>5. CASE EnterWaiting(n) \/ EnterEventOfManeuver(n)
    <3>1. node[n].state = "Standby"
      BY <2>5, EnterStands DEF EnterWaiting, EnterEventOfManeuver
    <3>2. CASE Kind[n] = "Event"
      BY <1>0, <2>5, <3>1, <3>2, StartEventPolled DEF EnterWaiting, EnterEventOfManeuver, Events
    <3>3. CASE Kind[n] # "Event"
      BY <1>1, <2>5, <3>3 DEF EnterWaiting, EnterEventOfManeuver
    <3> QED BY <3>2, <3>3
  <2>6. CASE EnterExhaustedGroup(n)
    <3>1. node[n].running = {}
      BY <1>0, <2>6 DEF PolledAt, EnterExhaustedGroup
    <3>2. PolledAt(n, Mark(node[n], "Complete", "End"), held[n])
      BY <1>0, <3>1, MarkPolled
    <3> QED BY <1>0, <2>6, <3>2 DEF EnterExhaustedGroup, Polled
  <2>7. CASE EnterElement(n)
    <3>1. node[n].running = {}
      BY <1>0, <2>7 DEF PolledAt, EnterElement
    <3>2. PolledAt(n, Started(n, node[n]), held[n])
      <4>1. Started(n, node[n]).running = {} /\ Started(n, node[n]).ongoing = node[n].ongoing
        BY <1>0, <3>1 DEF Started, Mark, NodeRecord
      <4> QED BY <1>0, <3>1, <4>1 DEF PolledAt
    <3> QED BY <1>0, <2>7, <3>2 DEF EnterElement, Polled
  <2>8. CASE ProgressEvent(n)
    <3>1. PICK out \in [node[n].running -> Outcomes] : ProgressWith(n, out)
      BY <2>8 DEF ProgressEvent
    <3>2. n \in Events /\ node[n].state = "Running"
      BY <3>1 DEF ProgressWith, Events
    <3>3. PolledAt(n, Progressed(n, node[n], out),
                   held[n] \ {a \in node[n].running : out[a] = "Complete"})
      BY <1>0, <3>2, ProgressedPolled
    <3> QED BY <1>0, <3>1, <3>3 DEF ProgressWith, Polled
  <2> QED BY <1>7, <2>1, <2>2, <2>3, <2>4, <2>5, <2>6, <2>7, <2>8 DEF Visit
<1> QED BY <1>2, <1>3, <1>4, <1>5, <1>6, <1>7 DEF Next, Walk

\* With a host that answers every action with Complete or Running, as the engine
\* does, the actions it believes in progress are in every storyboard those the
\* executor polls, and belong to running events: no stop, override, regular end
\* or re-armed group loses one or leaves one behind.
THEOREM HeldStaysPolled ==
  ASSUME HostPolls
  PROVE  Spec => []HeldIsPolled
<1>1. Init => CursorKinds /\ Polled
  BY FreshPolled DEF Init, CursorKinds, Polled
<1>2. Polled => HeldIsPolled
  BY DEF Polled, PolledAt, HeldIsPolled
<1>3. IInv /\ [Next]_vars => IInv'
  BY IInvNext
<1>4. IInv /\ CursorKinds /\ [Next]_vars => CursorKinds'
  BY CursorKindsNext DEF IInv
<1>5. IInv /\ CursorKinds /\ Polled /\ [Next]_vars => Polled'
  BY PolledNext
<1> QED BY <1>1, <1>2, <1>3, <1>4, <1>5, IInvInit, PTL DEF Spec

---------------------------------------------------------------------------
(* Transitions and logs.                                                    *)

NoStart(n) == \A i \in 1 .. Len(log[n]) : log[n][i] # "Start"

\* The last transition of n in this evaluation is the one it shows.
Shown(n) ==
  /\ node[n].stamped /\ node[n].transition # "None"
  /\ log[n] # <<>> /\ log[n][Len(log[n])] = node[n].transition

\* What a step leaves alone of an element, and how it moves its log.
Same(m) ==
  /\ log'[m] = log[m]
  /\ node'[m].state = node[m].state
  /\ node'[m].transition = node[m].transition
  /\ node'[m].stamped = node[m].stamped
Quietly(m) ==
  log'[m] = log[m] \/ \E t \in Transitions \ {"Start"} : log'[m] = Append(log[m], t)
Starting(m) ==
  \/ log'[m] = Append(log[m], "Start")
  \/ log'[m] = Append(Append(log[m], "Start"), "End")

LEMMA CountNone ==
  ASSUME NEW s \in Seq(Transitions)
  PROVE  Count("Start", s) = 0 <=> \A i \in 1 .. Len(s) : s[i] # "Start"
BY DEF Count

LEMMA CountAppend ==
  ASSUME NEW s \in Seq(Transitions), NEW t \in Transitions
  PROVE  /\ t # "Start" => Count("Start", Append(s, t)) = Count("Start", s)
         /\ (\A i \in 1 .. Len(s) : s[i] # "Start") /\ t = "Start" =>
              Count("Start", Append(s, t)) = 1
<1> DEFINE q == Append(s, t)
<1>1. q \in Seq(Transitions) /\ Len(q) = Len(s) + 1 /\ q[Len(s) + 1] = t
        /\ (\A i \in 1 .. Len(s) : q[i] = s[i]) /\ Len(s) \in Nat
  OBVIOUS
<1> HIDE DEF q
<1>2. DOMAIN q = 1 .. Len(s) + 1 /\ DOMAIN s = 1 .. Len(s)
  BY <1>1
<1>3. ASSUME t # "Start"
      PROVE  Count("Start", q) = Count("Start", s)
  <2>1. {i \in DOMAIN q : q[i] = "Start"} = {i \in DOMAIN s : s[i] = "Start"}
    BY <1>1, <1>2, <1>3
  <2> QED BY <2>1 DEF Count
<1>4. ASSUME \A i \in 1 .. Len(s) : s[i] # "Start", t = "Start"
      PROVE  Count("Start", q) = 1
  <2>1. {i \in DOMAIN q : q[i] = "Start"} = {Len(s) + 1}
    BY <1>1, <1>2, <1>4
  <2> QED BY <2>1 DEF Count
<1> QED BY <1>3, <1>4 DEF q

LEMMA QuietLog ==
  ASSUME log \in [Nodes -> Seq(Transitions)], NEW m \in Nodes, Quietly(m)
  PROVE  /\ NoStart(m)' <=> NoStart(m)
         /\ Starts(m)' = Starts(m)
<1>1. Count("Start", log'[m]) = Count("Start", log[m])
  BY CountAppend DEF Quietly
<1>2. log[m] \in Seq(Transitions) /\ log'[m] \in Seq(Transitions)
  <2>1. \A t \in Transitions : Append(log[m], t) \in Seq(Transitions)
    OBVIOUS
  <2> QED BY <2>1 DEF Quietly
<1> QED BY <1>1, <1>2, CountNone DEF NoStart, Starts

LEMMA StartingLog ==
  ASSUME log \in [Nodes -> Seq(Transitions)], NEW m \in Nodes, Starting(m)
  PROVE  /\ ~ NoStart(m)'
         /\ NoStart(m) => Starts(m)' = 1
<1> DEFINE q == Append(log[m], "Start")
<1>1. log[m] \in Seq(Transitions) /\ "Start" \in Transitions /\ "End" \in Transitions
  BY DEF Transitions
<1>2. q \in Seq(Transitions) /\ Len(q) = Len(log[m]) + 1 /\ q[Len(log[m]) + 1] = "Start"
        /\ Len(log[m]) \in Nat
  BY <1>1
<1>3. NoStart(m) => Count("Start", q) = 1
  BY <1>1, CountAppend DEF NoStart
<1>4. Count("Start", Append(q, "End")) = Count("Start", q)
  BY <1>1, <1>2, CountAppend
<1>5. /\ Append(q, "End")[Len(log[m]) + 1] = "Start"
      /\ Len(log[m]) + 1 \in 1 .. Len(Append(q, "End"))
      /\ Len(log[m]) + 1 \in 1 .. Len(q)
  BY <1>1, <1>2
<1> HIDE DEF q
<1>6. log'[m] = q \/ log'[m] = Append(q, "End")
  BY DEF Starting, q
<1> QED BY <1>2, <1>3, <1>4, <1>5, <1>6 DEF NoStart, Starts

\* An act or group that waits to be started in this evaluation.
Waiting(a) ==
  /\ Kind[a] \in {"Act", "Group"} /\ node[a].state = "Standby"
  /\ Kind[a] = "Group" => ~ node[a].stamped

\* What every operation on the tree at element n does to the transitions.
StopMeansComplete == \A m \in Nodes : node[m].transition = "Stop" => node[m].state = "Complete"
Marks(n) ==
  /\ \A m \in Nodes : Same(m) \/ Shown(m)' \/ Rearmed(m)'
  /\ \A m \in Nodes : m # n => Quietly(m)
  /\ \A m \in Nodes : ~ Same(m) =>
       \/ m \in Subtree(n)
       \/ Kind[m] = "Event" /\ node[m].state = "Running" /\ m \in Siblings(n)
  /\ StopMeansComplete'
  /\ \A g \in Groups : node[g].state = "Standby" /\ node[g].stamped /\ ~ Same(g) =>
       \A m \in Subtree(g) : Shown(m)' \/ Rearmed(m)'
  /\ \A a \in Nodes : Waiting(a)' => Waiting(a) /\ \A m \in Subtree(a) : Same(m)
  /\ \A m \in Nodes : node[m].state = "Complete" =>
       \/ node'[m].state = "Complete"
       \/ \E g \in Groups : m \in Subtree(g) \ {g} /\ Rearms(g)

\* No act and no storyboard is stopped.
Unstopped == \A m \in Stoppable : node'[m].transition = "Stop" => Same(m)

\* An element that took t and nothing else.
LEMMA TakesIsShown ==
  ASSUME TypeInv, NEW m \in Nodes, NEW t \in Transitions \ {"None"},
         log'[m] = Append(log[m], t), node'[m].stamped, node'[m].transition = t
  PROVE  Shown(m)'
<1>1. log[m] \in Seq(Transitions)
  BY DEF TypeInv, TypeOK
<1> QED BY <1>1 DEF Shown

LEMMA MarkFields ==
  ASSUME NEW r \in NodeRecord, NEW s, NEW t
  PROVE  Mark(r, s, t).state = s /\ Mark(r, s, t).transition = t /\ Mark(r, s, t).stamped
BY DEF Mark, NodeRecord

LEMMA StoppedFields ==
  ASSUME NEW n \in Nodes, NEW r \in NodeRecord
  PROVE  /\ Stopped(n, r).state = "Complete"
         /\ r.state = "Complete" =>
              Stopped(n, r).transition = r.transition /\ Stopped(n, r).stamped = r.stamped
         /\ r.state # "Complete" =>
              Stopped(n, r).transition = "Stop" /\ Stopped(n, r).stamped
<1> DEFINE q == IF r.state = "Complete" THEN r ELSE Mark(r, "Complete", "Stop")
<1>1. q \in NodeRecord
  BY MarkType DEF States, Transitions
<1>2. /\ Stopped(n, r).state = q.state /\ Stopped(n, r).transition = q.transition
      /\ Stopped(n, r).stamped = q.stamped
  BY <1>1 DEF Stopped, NodeRecord
<1> QED BY <1>2, MarkFields

\* Nothing changes.
LEMMA NothingMarks ==
  ASSUME TypeInv, StopMeansComplete, NEW n \in Nodes, node' = node, log' = log
  PROVE  Marks(n) /\ Quietly(n) /\ Unstopped
<1>1. \A m \in Nodes : Same(m) /\ Quietly(m)
  BY DEF Same, Quietly
<1>2. \A a \in Nodes : Waiting(a)' => Waiting(a)
  BY DEF Waiting
<1>3. \A a \in Nodes : \A m \in Subtree(a) : m \in Nodes
  BY SubtreeInTree
<1> QED BY <1>1, <1>2, <1>3 DEF Marks, StopMeansComplete, Groups, Unstopped, Stoppable

\* stop_cascade() of the subtree of n.
LEMMA StopMarks ==
  ASSUME TypeInv, Coherent, StopMeansComplete, NEW n \in Nodes, ParentRuns(n),
         StopCascade(Subtree(n))
  PROVE  Marks(n) /\ Quietly(n)
<1>1. node \in [Nodes -> NodeRecord] /\ log \in [Nodes -> Seq(Transitions)]
  BY DEF TypeInv, TypeOK
<1>2. \A m \in Nodes : m \notin Subtree(n) => node'[m] = node[m] /\ log'[m] = log[m]
  BY DEF StopCascade
<1>3. \A m \in Nodes : m \in Subtree(n) =>
        /\ node'[m] = Stopped(m, node[m])
        /\ log'[m] = IF node[m].state # "Complete" THEN Append(log[m], "Stop") ELSE log[m]
  BY DEF StopCascade
<1>4. "Stop" \in Transitions \ {"None"} /\ "Stop" \in Transitions \ {"Start"}
  BY DEF Transitions
<1>5. \A m \in Nodes : m \notin Subtree(n) => Same(m)
  BY <1>2 DEF Same
<1>6. \A m \in Nodes : m \in Subtree(n) =>
        /\ node'[m].state = "Complete"
        /\ node[m].state = "Complete" => Same(m)
        /\ node[m].state # "Complete" => Shown(m)'
  <2>1. SUFFICES ASSUME NEW m \in Nodes, m \in Subtree(n)
                 PROVE  /\ node'[m].state = "Complete"
                        /\ node[m].state = "Complete" => Same(m)
                        /\ node[m].state # "Complete" => Shown(m)'
    OBVIOUS
  <2>2. node[m] \in NodeRecord /\ node'[m] = Stopped(m, node[m])
    BY <1>1, <1>3, <2>1
  <2>3. node'[m].state = "Complete"
    BY <2>2, StoppedFields
  <2>4. ASSUME node[m].state = "Complete" PROVE Same(m)
    BY <1>3, <2>1, <2>2, <2>4, StoppedFields DEF Same
  <2>5. ASSUME node[m].state # "Complete" PROVE Shown(m)'
    <3>1. node'[m].transition = "Stop" /\ node'[m].stamped
      BY <2>2, <2>5, StoppedFields
    <3>2. log'[m] = Append(log[m], "Stop")
      BY <1>3, <2>1, <2>5
    <3> QED BY <1>4, <3>1, <3>2, TakesIsShown
  <2> QED BY <2>3, <2>4, <2>5
<1>7. \A m \in Nodes : Quietly(m)
  BY <1>2, <1>3, <1>4 DEF Quietly
<1>8. StopMeansComplete'
  BY <1>2, <1>6 DEF StopMeansComplete
<1>9. ASSUME NEW g \in Groups, node[g].state = "Standby", ~ Same(g), NEW m \in Subtree(g)
      PROVE  Shown(m)'
  <2>1. g \in Nodes /\ g \in Subtree(n) /\ m \in Nodes
    BY <1>5, <1>9, SubtreeInTree DEF Groups
  <2>2. m \in Subtree(n)
    BY <2>1, SubtreeNested
  <2>3. node[m].state = "Standby"
    BY <1>9, <2>1 DEF Coherent, StandbySubtree
  <2> QED BY <1>6, <2>1, <2>2, <2>3
<1>10. ASSUME NEW a \in Nodes, Waiting(a)'
       PROVE  Waiting(a) /\ \A m \in Subtree(a) : Same(m)
  <2>1. a \notin Subtree(n)
    BY <1>6, <1>10 DEF Waiting
  <2>2. Waiting(a) /\ node[a].state = "Standby"
    BY <1>2, <1>10, <2>1 DEF Waiting
  <2>3. ASSUME NEW m \in Subtree(a)
        PROVE  m \in Nodes /\ m \notin Subtree(n)
    <3>1. m \in Subtree(n) => n \in Subtree(a) /\ n # a /\ n # 1
      BY <2>1, SubtreesMeet
    <3>2. m \notin Subtree(n)
      BY <2>2, <3>1, AncestorsLeftStandby DEF ParentRuns, Coherent
    <3> QED BY <3>2, SubtreeInTree
  <2> QED BY <1>5, <2>2, <2>3
<1>11. \A m \in Nodes : node[m].state = "Complete" => node'[m].state = "Complete"
  BY <1>2, <1>6
<1> QED BY <1>5, <1>6, <1>7, <1>8, <1>9, <1>10, <1>11 DEF Marks

\* end_group_execution_or_complete() of n.
LEMMA EndMarks ==
  ASSUME TypeInv, Coherent, StopMeansComplete, NEW n \in Nodes,
         node[n].state = "Running", EndGroupExecutionOrComplete(n)
  PROVE  Marks(n) /\ Quietly(n) /\ Unstopped
<1>1. node \in [Nodes -> NodeRecord] /\ log \in [Nodes -> Seq(Transitions)] /\ n \in Subtree(n)
  BY SubtreeInTree DEF TypeInv, TypeOK
<1>2. /\ \A m \in Nodes : m # n => log'[m] = log[m]
      /\ log'[n] = Append(log[n], "End")
  BY <1>1 DEF EndGroupExecutionOrComplete, TakesTransition
<1>3. "End" \in Transitions \ {"None"} /\ "End" \in Transitions \ {"Start"}
  BY DEF Transitions
<1>4. \A m \in Nodes : m \notin Subtree(n) => node'[m] = node[m] /\ Same(m)
  BY <1>1, <1>2 DEF EndGroupExecutionOrComplete, Same
<1>5. /\ node'[n].stamped /\ node'[n].transition = "End"
      /\ node'[n].state = IF Completes(n) THEN "Complete" ELSE "Standby"
  BY <1>1, MarkFields DEF EndGroupExecutionOrComplete
<1>6. Shown(n)'
  BY <1>2, <1>3, <1>5, TakesIsShown
<1>7. \A m \in Nodes : Quietly(m)
  BY <1>2, <1>3 DEF Quietly
<1>8. \A m \in Nodes : m \in Subtree(n) /\ m # n =>
        \/ Completes(n) /\ node'[m] = node[m]
        \/ ~ Completes(n) /\ node'[m] = Fresh
  BY <1>1 DEF EndGroupExecutionOrComplete, ResetDescendant
<1>9. Completes(n) => \A m \in Nodes : m # n => Same(m)
  BY <1>2, <1>4, <1>8 DEF Same
<1>10. ~ Completes(n) => /\ n \in Groups /\ Rearms(n)
                         /\ \A m \in Nodes : m \in Subtree(n) /\ m # n => Rearmed(m)'
  <2>1. ~ Completes(n) => Kind[n] = "Group" /\ node'[n].state = "Standby"
    BY <1>5 DEF Completes
  <2> QED BY <1>5, <2>1 DEF Groups, Rearms, Rearmed
<1>11. StopMeansComplete'
  BY <1>4, <1>5, <1>8 DEF StopMeansComplete, Fresh
<1>12. ASSUME NEW g \in Groups, node[g].state = "Standby", ~ Same(g), NEW m \in Subtree(g)
       PROVE  Rearmed(m)'
  <2>1. g \in Nodes /\ g \in Subtree(n) /\ g # n /\ m \in Nodes
    BY <1>4, <1>12, SubtreeInTree DEF Groups
  <2>2. m \in Subtree(n) /\ m # n
    <3>1. g \in 1 .. N /\ n \in 1 .. N
      BY <2>1 DEF Nodes
    <3>2. n \notin Subtree(g)
      BY <2>1, <3>1 DEF Subtree
    <3> QED BY <2>1, <3>2, SubtreeNested
  <2> QED BY <1>9, <1>10, <1>12, <2>1, <2>2
<1>13. ASSUME NEW a \in Nodes, Waiting(a)'
       PROVE  Waiting(a) /\ \A m \in Subtree(a) : Same(m)
  <2>1. a # n
    BY <1>5, <1>13 DEF Waiting, Completes
  <2>2. CASE a \in Subtree(n)
    <3>1. Completes(n)
      BY <1>10, <1>13, <2>1, <2>2, KindsBelow DEF Waiting, Groups
    <3>2. Waiting(a) /\ node[a].state = "Standby"
      BY <1>8, <1>13, <2>1, <2>2, <3>1 DEF Waiting
    <3>3. \A m \in Subtree(a) : m \in Nodes /\ m # n
      BY <3>2, SubtreeInTree DEF Coherent, StandbySubtree
    <3> QED BY <1>9, <3>1, <3>2, <3>3
  <2>3. CASE a \notin Subtree(n)
    <3>1. Waiting(a) /\ node[a].state = "Standby"
      BY <1>4, <1>13, <2>3 DEF Waiting
    <3>2. \A m \in Subtree(a) : m \in Nodes /\ m \notin Subtree(n)
      <4>1. SUFFICES ASSUME NEW m \in Subtree(a), m \in Subtree(n) PROVE FALSE
        BY SubtreeInTree
      <4>2. n \in Subtree(a)
        BY <2>3, <4>1, SubtreesMeet
      <4> QED BY <3>1, <4>2 DEF Coherent, StandbySubtree
    <3> QED BY <1>4, <3>1, <3>2
  <2> QED BY <2>2, <2>3
<1>14. ASSUME NEW m \in Nodes, node[m].state = "Complete"
       PROVE  \/ node'[m].state = "Complete"
              \/ \E g \in Groups : m \in Subtree(g) \ {g} /\ Rearms(g)
  <2>1. m # n
    BY <1>14
  <2> QED BY <1>4, <1>8, <1>10, <1>14, <2>1
<1>15. \A m \in Nodes : Same(m) \/ Shown(m)' \/ Rearmed(m)'
  BY <1>4, <1>6, <1>9, <1>10
<1>16. Unstopped
  <2>1. \A m \in Nodes : node'[m].transition = "Stop" => Same(m)
    BY <1>4, <1>5, <1>8, <1>9 DEF Fresh
  <2> QED BY <2>1 DEF Unstopped, Stoppable
<1> QED BY <1>4, <1>7, <1>11, <1>12, <1>13, <1>14, <1>15, <1>16 DEF Marks

\* An event takes transitions, and running siblings of it may be stopped.
LEMMA EventMarks ==
  ASSUME TypeInv, Coherent, StopMeansComplete, NEW e \in Events, ParentRuns(e),
         \A m \in Nodes : m # e /\ m \notin Siblings(e) => node'[m] = node[m] /\ log'[m] = log[m],
         \A f \in Siblings(e) :
            \/ node'[f] = node[f] /\ log'[f] = log[f]
            \/ /\ node[f].state = "Running"
               /\ node'[f] = Stopped(f, node[f]) /\ log'[f] = Append(log[f], "Stop"),
         Same(e) \/ Shown(e)',
         node'[e].transition # "Stop",
         node[e].state # "Complete"
  PROVE  Marks(e) /\ Unstopped
<1>1. node \in [Nodes -> NodeRecord] /\ log \in [Nodes -> Seq(Transitions)]
  BY DEF TypeInv, TypeOK
<1>2. e \in Nodes \ {1} /\ e \in Subtree(e) /\ node[Parent[e]].state = "Running"
  <2>1. e # 1 /\ e \in Nodes
    BY TreeAssumption DEF Events
  <2> QED BY <2>1, SubtreeInTree DEF ParentRuns
<1>3. \A f \in Siblings(e) : f \in Nodes \ {1} /\ Kind[f] = "Event" /\ Parent[f] = Parent[e] /\ f # e
  BY EventSiblings DEF Siblings
<1>4. "Stop" \in Transitions \ {"None"} /\ "Stop" \in Transitions \ {"Start"}
  BY DEF Transitions
<1>5. \A m \in Nodes : m # e /\ m \notin Siblings(e) => Same(m)
  BY DEF Same
<1>6. \A f \in Siblings(e) :
        \/ Same(f)
        \/ node[f].state = "Running" /\ node'[f].state = "Complete" /\ Shown(f)'
  BY <1>1, <1>3, <1>4, StoppedFields, TakesIsShown DEF Same
<1>7. \A m \in Nodes : m # e => Quietly(m)
  BY <1>4 DEF Quietly
<1>8. StopMeansComplete'
  <2>1. \A f \in Siblings(e) : node'[f] = node[f] \/ node'[f].state = "Complete"
    BY <1>1, <1>3, StoppedFields
  <2> QED BY <2>1 DEF StopMeansComplete
<1>9. \A g \in Nodes : Kind[g] # "Event" => Same(g)
  BY <1>3, <1>5 DEF Events
<1>10. ASSUME NEW a \in Nodes, Waiting(a)'
       PROVE  Waiting(a) /\ \A m \in Subtree(a) : Same(m)
  <2>1. Same(a)
    BY <1>9, <1>10 DEF Waiting
  <2>2. Waiting(a) /\ node[a].state = "Standby"
    BY <1>10, <2>1 DEF Waiting, Same
  <2>3. ASSUME NEW m \in Subtree(a)
        PROVE  Same(m)
    <3>1. m \in Nodes
      BY SubtreeInTree
    <3>2. m # a => m # e /\ m \notin Siblings(e)
      BY <1>2, <1>3, <2>2, <3>1, AncestorsLeftStandby DEF Coherent
    <3> QED BY <1>5, <2>1, <3>1, <3>2
  <2> QED BY <2>2, <2>3
<1>11. \A m \in Nodes : node[m].state = "Complete" => node'[m].state = "Complete"
  BY <1>5, <1>6 DEF Same
<1>12. \A m \in Nodes : Same(m) \/ Shown(m)'
  BY <1>5, <1>6
<1>13. \A m \in Nodes : ~ Same(m) => m \in Subtree(e) \/ (Kind[m] = "Event" /\ node[m].state = "Running" /\ m \in Siblings(e))
  BY <1>2, <1>3, <1>5, <1>6
<1> QED BY <1>7, <1>8, <1>9, <1>10, <1>11, <1>12, <1>13 DEF Marks, Groups, Unstopped, Stoppable

\* An element that is no event leaves standbyState on its own.
LEMMA SingleMarks ==
  ASSUME TypeInv, Coherent, StopMeansComplete, NEW n \in Nodes, ParentRuns(n),
         Kind[n] # "Event", node[n].state = "Standby", ~ node[n].stamped,
         \A m \in Nodes : m # n => node'[m] = node[m] /\ log'[m] = log[m],
         node'[n].state # "Standby", node'[n].transition # "Stop", Shown(n)'
  PROVE  Marks(n) /\ Unstopped
<1>1. \A m \in Nodes : m # n => Same(m) /\ Quietly(m)
  BY DEF Same, Quietly
<1>2. n \in Subtree(n)
  BY SubtreeInTree
<1>3. StopMeansComplete'
  BY DEF StopMeansComplete
<1>4. ASSUME NEW a \in Nodes, Waiting(a)'
      PROVE  Waiting(a) /\ \A m \in Subtree(a) : Same(m)
  <2>1. a # n
    BY <1>4 DEF Waiting
  <2>2. Waiting(a) /\ node[a].state = "Standby"
    BY <1>4, <2>1 DEF Waiting
  <2>3. ASSUME NEW m \in Subtree(a)
        PROVE  m \in Nodes /\ m # n
    <3>1. n \in Subtree(a) => n # 1
      BY <2>1, SubtreeNested
    <3> QED BY <2>1, <2>2, <3>1, SubtreeInTree, AncestorsLeftStandby DEF ParentRuns, Coherent
  <2> QED BY <1>1, <2>2, <2>3
<1>5. \A g \in Groups : node[g].stamped => g # n /\ Same(g)
  BY <1>1 DEF Groups
<1>6. Unstopped
  BY <1>1 DEF Unstopped, Stoppable
<1>7. \A m \in Nodes : node[m].state = "Complete" => node'[m].state = "Complete"
  BY <1>1 DEF Same
<1> QED BY <1>1, <1>2, <1>3, <1>4, <1>5, <1>6, <1>7 DEF Marks

\* apply_standby_exhaustion() of e, with or without the skip before it.
LEMMA ExhaustMarks ==
  ASSUME TypeInv, Coherent, StopMeansComplete, NEW e \in Events, ParentRuns(e),
         node[e].state = "Standby", ExhaustEvent(e)
  PROVE  Marks(e) /\ Unstopped /\ Quietly(e)
<1>1. node \in [Nodes -> NodeRecord] /\ log \in [Nodes -> Seq(Transitions)] /\ e \in Nodes
  BY DEF TypeInv, TypeOK, Events
<1>2. "Skip" \in Transitions \ {"None"} /\ "Skip" \in Transitions \ {"Start"}
  BY DEF Transitions
<1>3. CASE Exhausted(e)
  <2>1. /\ \A m \in Nodes : m # e => node'[m] = node[m] /\ log'[m] = log[m]
        /\ log'[e] = Append(log[e], "Skip")
        /\ node'[e] = Mark(node[e], "Complete", "Skip")
    BY <1>1, <1>3 DEF ExhaustEvent, TakesTransition, StandbyExhaustion, Exhausted
  <2>2. node'[e].transition = "Skip" /\ node'[e].stamped
    BY <1>1, <2>1, MarkFields
  <2>3. Shown(e)' /\ Quietly(e)
    BY <1>1, <1>2, <2>1, <2>2, TakesIsShown DEF Quietly
  <2>4. \A f \in Siblings(e) : node'[f] = node[f] /\ log'[f] = log[f]
    BY <2>1 DEF Siblings
  <2> QED BY <2>1, <2>2, <2>3, <2>4, EventMarks
<1>4. CASE ~ Exhausted(e)
  <2>1. node' = node /\ log' = log
    BY <1>1, <1>4 DEF ExhaustEvent, StandbyExhaustion, Exhausted
  <2> QED BY <1>1, <2>1, NothingMarks
<1> QED BY <1>3, <1>4

LEMMA SkipMarks ==
  ASSUME TypeInv, Coherent, StopMeansComplete, NEW e \in Events, ParentRuns(e),
         node[e].state = "Standby", SkipEvent(e)
  PROVE  Marks(e) /\ Unstopped /\ Quietly(e)
<1>1. node \in [Nodes -> NodeRecord] /\ log \in [Nodes -> Seq(Transitions)] /\ e \in Nodes
  BY DEF TypeInv, TypeOK, Events
<1>2. "Skip" \in Transitions \ {"None"} /\ "Skip" \in Transitions \ {"Start"}
  BY DEF Transitions
<1>3. /\ \A m \in Nodes : m # e => node'[m] = node[m] /\ log'[m] = log[m]
      /\ log'[e] = Append(log[e], "Skip")
      /\ node'[e] = StandbyExhaustion(e, Skipped(node[e]))
  BY <1>1 DEF SkipEvent, TakesTransition
<1>4. Skipped(node[e]) \in NodeRecord
  BY <1>1, SkippedType
<1>5. Skipped(node[e]).transition = "Skip" /\ Skipped(node[e]).stamped
  BY <1>1, MarkFields, MarkType, SMTT(30) DEF Skipped, NodeRecord, States, Transitions
<1>6. node'[e].transition = "Skip" /\ node'[e].stamped
  BY <1>3, <1>4, <1>5, MarkFields DEF StandbyExhaustion
<1>7. Shown(e)' /\ Quietly(e)
  BY <1>1, <1>2, <1>3, <1>6, TakesIsShown DEF Quietly
<1>8. \A f \in Siblings(e) : node'[f] = node[f] /\ log'[f] = log[f]
  BY <1>3 DEF Siblings
<1> QED BY <1>3, <1>6, <1>7, <1>8, EventMarks

\* end_execution() of an event.
LEMMA EndExecutionFields ==
  ASSUME NEW e \in Nodes, NEW r \in NodeRecord
  PROVE  /\ EndExecution(e, r).transition = "End" /\ EndExecution(e, r).stamped
         /\ EndExecution(e, r).state # "Running"
BY MarkFields DEF EndExecution

LEMMA FiredFields ==
  ASSUME NEW e \in Nodes, NEW r \in NodeRecord, NEW out \in [Actions[e] -> Outcomes]
  PROVE  LET f == Fired(e, r, out)
         IN  /\ f.stamped
             /\ f.state = "Running" => f.transition = "Start"
             /\ f.state # "Running" => f.transition = "End"
<1> DEFINE s == [Mark(r, "Running", "Start") EXCEPT
                   !.executions = @ + 1,
                   !.running = {a \in Actions[e] : out[a] = "Running"},
                   !.ongoing = \E a \in Actions[e] : out[a] = "Ongoing"]
<1>1. /\ Mark(r, "Running", "Start") \in NodeRecord
      /\ Mark(r, "Running", "Start").state = "Running"
      /\ Mark(r, "Running", "Start").transition = "Start"
      /\ Mark(r, "Running", "Start").stamped
  BY MarkType, MarkFields DEF States, Transitions
<1>2. {a \in Actions[e] : out[a] = "Running"} \in SUBSET AllActions
  BY DEF AllActions
<1>3. (\E a \in Actions[e] : out[a] = "Ongoing") \in BOOLEAN
  OBVIOUS
<1>4. s \in NodeRecord
  BY ONLY <1>1, <1>2, <1>3, ActionsSetType, Zenon
<1>5. s.state = "Running" /\ s.transition = "Start" /\ s.stamped
  BY <1>1 DEF NodeRecord
<1>6. Fired(e, r, out) = IF s.running = {} /\ ~ s.ongoing THEN EndExecution(e, s) ELSE s
  BY DEF Fired
<1> HIDE DEF s
<1> QED BY <1>4, <1>5, <1>6, EndExecutionFields

\* enter_running() of an event.
LEMMA EnterEventMarks ==
  ASSUME TypeInv, Coherent, StopMeansComplete, NEW e \in Events, ParentRuns(e),
         node[e].state = "Standby",
         NEW out \in [Actions[e] -> Outcomes], EnterEvent(e, out)
  PROVE  Marks(e) /\ Unstopped /\ Starting(e)
<1>1. node \in [Nodes -> NodeRecord] /\ log \in [Nodes -> Seq(Transitions)] /\ e \in Nodes
  BY DEF TypeInv, TypeOK, Events
<1> DEFINE fired == Fired(e, node[e], out)
<1>2. /\ node'[e] = fired
      /\ log'[e] = IF fired.state = "Running" THEN Append(log[e], "Start")
                   ELSE Append(Append(log[e], "Start"), "End")
  BY <1>1 DEF EnterEvent
<1>3. /\ fired.stamped
      /\ fired.state = "Running" => fired.transition = "Start"
      /\ fired.state # "Running" => fired.transition = "End"
  BY <1>1, FiredFields
<1> HIDE DEF fired
<1>4. "Start" \in Transitions /\ "End" \in Transitions
  BY DEF Transitions
<1>5. \A t, u \in Transitions :
        /\ Append(log[e], t) # <<>>
        /\ Append(log[e], t)[Len(Append(log[e], t))] = t
        /\ Append(Append(log[e], t), u) # <<>>
        /\ Append(Append(log[e], t), u)[Len(Append(Append(log[e], t), u))] = u
  <2>1. log[e] \in Seq(Transitions)
    BY <1>1
  <2>2. ASSUME NEW s \in Seq(Transitions), NEW t \in Transitions
        PROVE  Append(s, t) \in Seq(Transitions) /\ Append(s, t) # <<>>
                 /\ Append(s, t)[Len(Append(s, t))] = t
    OBVIOUS
  <2> QED BY <2>1, <2>2
<1>6. Shown(e)' /\ Starting(e)
  BY <1>2, <1>3, <1>4, <1>5 DEF Shown, Starting
<1>7. \A m \in Nodes : m # e /\ m \notin Overridden(e) => node'[m] = node[m] /\ log'[m] = log[m]
  BY DEF EnterEvent
<1>8. \A f \in Overridden(e) : f \in Siblings(e) /\ node[f].state = "Running"
  BY DEF Overridden, RunningSiblings
<1>9. \A f \in Siblings(e) :
        \/ node'[f] = node[f] /\ log'[f] = log[f]
        \/ /\ node[f].state = "Running"
           /\ node'[f] = Stopped(f, node[f]) /\ log'[f] = Append(log[f], "Stop")
  <2>1. SUFFICES ASSUME NEW f \in Siblings(e), f \in Overridden(e)
                 PROVE  node'[f] = Stopped(f, node[f]) /\ log'[f] = Append(log[f], "Stop")
    BY <1>7, <1>8 DEF Siblings
  <2>2. f \in Nodes /\ f # e
    BY DEF Siblings
  <2> QED BY <2>1, <2>2 DEF EnterEvent
<1>10. \A m \in Nodes : m # e /\ m \notin Siblings(e) => node'[m] = node[m] /\ log'[m] = log[m]
  BY <1>7, <1>8
<1>11. node'[e].transition # "Stop"
  BY <1>2, <1>3
<1> QED BY <1>6, <1>9, <1>10, <1>11, EventMarks

\* start_event().
LEMMA StartEventMarks ==
  ASSUME TypeInv, Coherent, StopMeansComplete, NEW e \in Events, ParentRuns(e),
         node[e].state = "Standby", StartEvent(e)
  PROVE  Marks(e) /\ Unstopped /\ (Quietly(e) \/ Starting(e))
BY ExhaustMarks, SkipMarks, EnterEventMarks DEF StartEvent

\* progress_event().
LEMMA ProgressMarks ==
  ASSUME TypeInv, Coherent, StopMeansComplete, NEW e \in Events, ParentRuns(e),
         NEW out \in [node[e].running -> Outcomes], ProgressWith(e, out)
  PROVE  Marks(e) /\ Unstopped /\ Quietly(e)
<1>1. node \in [Nodes -> NodeRecord] /\ log \in [Nodes -> Seq(Transitions)] /\ e \in Nodes
        /\ node[e].state = "Running"
  BY DEF TypeInv, TypeOK, Events, ProgressWith
<1>2. "End" \in Transitions \ {"None"} /\ "End" \in Transitions \ {"Start"}
  BY DEF Transitions
<1> DEFINE s == [node[e] EXCEPT !.running = {a \in @ : out[a] = "Running"}]
<1>3. /\ s \in NodeRecord /\ s.state = "Running"
      /\ s.transition = node[e].transition /\ s.stamped = node[e].stamped
  BY <1>1 DEF NodeRecord
<1>4. /\ \A m \in Nodes : m # e => node'[m] = node[m] /\ log'[m] = log[m]
      /\ node'[e] = IF s.running = {} /\ ~ s.ongoing THEN EndExecution(e, s) ELSE s
      /\ log'[e] = IF node'[e].state = "Running" THEN log[e] ELSE Append(log[e], "End")
  BY <1>1 DEF ProgressWith, Progressed, TakesTransition
<1> HIDE DEF s
<1>5. \A f \in Siblings(e) : node'[f] = node[f] /\ log'[f] = log[f]
  BY <1>4 DEF Siblings
<1>6. CASE node'[e].state = "Running"
  <2>1. node'[e] = s
    BY <1>1, <1>3, <1>4, <1>6, EndExecutionFields
  <2>2. Same(e) /\ Quietly(e)
    BY <1>1, <1>3, <1>4, <1>6, <2>1 DEF Same, Quietly
  <2>3. node'[e].transition # "Stop"
    BY <1>1, <2>2 DEF Same, StopMeansComplete
  <2> QED BY <1>1, <1>4, <1>5, <2>2, <2>3, EventMarks
<1>7. CASE node'[e].state # "Running"
  <2>1. node'[e].transition = "End" /\ node'[e].stamped /\ log'[e] = Append(log[e], "End")
    BY <1>1, <1>3, <1>4, <1>7, EndExecutionFields
  <2>2. Shown(e)' /\ Quietly(e)
    BY <1>2, <2>1, <1>1, TakesIsShown DEF Quietly
  <2> QED BY <1>1, <1>4, <1>5, <2>1, <2>2, EventMarks
<1> QED BY <1>6, <1>7

---------------------------------------------------------------------------
(* The evaluation.                                                          *)

Unmarked(m) == log[m] = <<>> /\ ~ node[m].stamped

\* What this evaluation logged last of an element is what it shows, or a group
\* took the element back.
LastStands == \A m \in Nodes : log[m] # <<>> => Shown(m) \/ Rearmed(m)

\* An act or group that may still be started took nothing in this evaluation,
\* nor did anything below it.
WaitingUnmarked == \A a \in Nodes : Waiting(a) => \A m \in Subtree(a) : Unmarked(m)

\* What enter_running() is still to reach took nothing in this evaluation.
EnteringUnmarked ==
  /\ pc = "enter" => \A m \in cur .. Last[top] : Unmarked(m)
  /\ pc = "entered" => \A m \in Last[cur] + 1 .. Last[top] : Unmarked(m)

\* The elements whose own start the walk is still to reach: an event with a
\* trigger, and an act.
EventAhead(e) ==
  \/ pc = "stop"
  \/ pc = "walk" /\ cur <= e
  \/ pc = "walked" /\ Last[cur] < e
  \/ pc \in {"enter", "entered"} /\ top <= e
ActAhead(a) ==
  \/ pc = "stop"
  \/ pc = "walk" /\ cur <= a
  \/ pc = "walked" /\ Last[cur] < a
  \/ pc \in {"enter", "entered"} /\ Last[top] < a

EventsAheadUnstarted ==
  \A e \in Events : e \in StartTriggered /\ EventAhead(e) => NoStart(e)
ActsAheadUnstarted ==
  NoStart(1) =>
    \A a \in Nodes : Kind[a] = "Act" /\ ActAhead(a) => \A m \in Subtree(a) : NoStart(m)

\* The first evaluation is the one that starts the storyboard, before anything
\* else; in another one nothing has started when the stop trigger is read.
FirstStarted ==
  /\ pc \in {"enter", "entered"} /\ top = 1 => (pc = "enter" /\ cur = 1) \/ ~ NoStart(1)
  /\ (pc = "stop" \/ (pc = "walk" /\ cur = 1)) /\ NoStart(1) => \A m \in Nodes : NoStart(m)

\* update() starts acts and groups only; step() starts the storyboard.
TopStarts ==
  pc \in {"enter", "entered"} => top = 1 \/ Kind[top] \in {"Act", "Group"}

StartedOnce == \A m \in Nodes : NoStart(m) \/ Starts(m) = 1
StopsStand ==
  \A a \in Stoppable : node[a].stamped /\ node[a].transition = "Stop" /\ NoStart(1) =>
    \A m \in Subtree(a) : NoStart(m)

\* Between two evaluations the host has heard of every transition that stands.
AllReported ==
  pc = "idle" => \A m \in Nodes : log[m] # <<>> => reports[m] > 0 \/ Rearmed(m)

Logged ==
  /\ StopMeansComplete /\ LastStands /\ WaitingUnmarked /\ StartedOnce /\ StopsStand
Ahead ==
  /\ EnteringUnmarked /\ EventsAheadUnstarted /\ ActsAheadUnstarted
  /\ FirstStarted /\ TopStarts
EInv == CursorKinds /\ Logged /\ Ahead /\ AllReported

---------------------------------------------------------------------------
(* Every visit marks the tree as above, and starts at most its own element.  *)

Steps(n) ==
  /\ Marks(n)
  /\ \/ Quietly(n)
     \/ Starting(n) /\ NoStart(n) /\ node[n].state = "Standby" /\ ParentRuns(n)

\* Where enter_running() stands, nothing has happened in this evaluation.
LEMMA EnterStandsUnmarked ==
  ASSUME IInv, EnteringUnmarked, pc = "enter"
  PROVE  /\ cur \in Nodes /\ ParentRuns(cur) /\ node[cur].state = "Standby"
         /\ Unmarked(cur) /\ NoStart(cur)
<1>1. cur \in Nodes /\ top \in Nodes /\ cur \in Subtree(top)
  BY DEF IInv, TypeInv, TypeOK, CursorBelowTop
<1>2. cur \in 1 .. N /\ Last[top] \in 1 .. N /\ N \in Nat /\ top \in 1 .. N
  BY <1>1, TreeAssumption DEF Nodes
<1>3. cur \in cur .. Last[top]
  BY <1>1, <1>2 DEF Subtree
<1>4. Unmarked(cur)
  BY <1>3 DEF EnteringUnmarked
<1> QED BY <1>1, <1>3, <1>4 DEF IInv, Walking, StandbyFrom, Unmarked, NoStart

LEMMA EnterElementSteps ==
  ASSUME IInv, StopMeansComplete, EnteringUnmarked, NEW n \in Nodes,
         EnterExhaustedGroup(n) \/ EnterElement(n)
  PROVE  /\ Steps(n) /\ Unstopped
         /\ EnterElement(n) => Starting(n)
         /\ EnterElement(n) \/ Quietly(n)
<1>1. /\ ParentRuns(n) /\ node[n].state = "Standby" /\ Unmarked(n) /\ NoStart(n)
      /\ node \in [Nodes -> NodeRecord] /\ log \in [Nodes -> Seq(Transitions)]
      /\ TypeInv /\ Coherent
  BY EnterStandsUnmarked DEF EnterExhaustedGroup, EnterElement, IInv, TypeInv, TypeOK
<1>2. "Start" \in Transitions \ {"None"} /\ "End" \in Transitions \ {"None", "Start"}
  BY DEF Transitions
<1>3. \A m \in Nodes : m # n => node'[m] = node[m] /\ log'[m] = log[m]
  BY <1>1 DEF EnterExhaustedGroup, EnterElement, TakesTransition
<1>4. CASE EnterExhaustedGroup(n)
  <2>1. Kind[n] # "Event" /\ node'[n] = Mark(node[n], "Complete", "End")
          /\ log'[n] = Append(log[n], "End")
    BY <1>1, <1>4 DEF EnterExhaustedGroup, TakesTransition
  <2>2. node'[n].state = "Complete" /\ node'[n].transition = "End" /\ node'[n].stamped
    BY <1>1, <2>1, MarkFields
  <2>3. Shown(n)' /\ Quietly(n)
    BY <1>1, <1>2, <2>1, <2>2, TakesIsShown DEF Quietly
  <2>4. ~ EnterElement(n)
    <3>1. Kind[n] = "Group" /\ node[n].executions >= MaxExecutions[n]
            /\ node[n].executions \in Nat /\ MaxExecutions[n] \in Nat
      BY <1>1, <1>4, ScenarioAssumption DEF EnterExhaustedGroup, NodeRecord
    <3> QED BY <3>1 DEF EnterElement
  <2> QED BY <1>1, <1>3, <2>1, <2>2, <2>3, <2>4, SingleMarks DEF Steps, Unmarked
<1>5. CASE EnterElement(n)
  <2>1. Kind[n] # "Event" /\ node'[n] = Started(n, node[n])
          /\ log'[n] = Append(log[n], "Start")
    BY <1>1, <1>5 DEF EnterElement, TakesTransition
  <2>2. node'[n].state = "Running" /\ node'[n].transition = "Start" /\ node'[n].stamped
    <3>1. Mark(node[n], "Running", "Start") \in NodeRecord
      BY <1>1, MarkType DEF States, Transitions
    <3>2. /\ Mark(node[n], "Running", "Start").state = "Running"
          /\ Mark(node[n], "Running", "Start").transition = "Start"
          /\ Mark(node[n], "Running", "Start").stamped
      BY <1>1, MarkFields
    <3> QED BY <2>1, <3>1, <3>2 DEF Started, NodeRecord
  <2>3. Shown(n)' /\ Starting(n)
    BY <1>1, <1>2, <2>1, <2>2, TakesIsShown DEF Starting
  <2> QED BY <1>1, <1>3, <1>5, <2>1, <2>2, <2>3, SingleMarks DEF Steps, Unmarked
<1> QED BY <1>4, <1>5

LEMMA EnterEventSteps ==
  ASSUME IInv, StopMeansComplete, EnteringUnmarked, NEW n \in Nodes,
         EnterWaiting(n) \/ EnterEventOfManeuver(n)
  PROVE  Steps(n) /\ Unstopped /\ (EnterEventOfManeuver(n) \/ Quietly(n))
<1>1. /\ ParentRuns(n) /\ node[n].state = "Standby" /\ NoStart(n)
      /\ TypeInv /\ Coherent
  BY EnterStandsUnmarked DEF EnterWaiting, EnterEventOfManeuver, IInv
<1>2. CASE Kind[n] # "Event"
  <2>1. node' = node /\ log' = log
    BY <1>2 DEF EnterWaiting, EnterEventOfManeuver
  <2> QED BY <1>1, <2>1, NothingMarks DEF Steps
<1>3. CASE Kind[n] = "Event"
  <2>1. n \in Events
    BY <1>3 DEF Events
  <2>2. ExhaustEvent(n) \/ (EnterEventOfManeuver(n) /\ StartEvent(n))
    BY <1>3 DEF EnterWaiting, EnterEventOfManeuver
  <2> QED BY <1>1, <2>1, <2>2, ExhaustMarks, StartEventMarks DEF Steps
<1> QED BY <1>2, <1>3

\* The end of enter_running() and of update().
LEMMA EndSteps ==
  ASSUME IInv, StopMeansComplete, NEW n \in Nodes, Entered(n) \/ Updated(n)
  PROVE  Marks(n) /\ Quietly(n) /\ Unstopped
<1>1. TypeInv /\ Coherent /\ node[n].state = "Running"
  BY DEF Entered, Updated, IInv, Walking
<1>2. EndGroupExecutionOrComplete(n) \/ (node' = node /\ log' = log)
  BY DEF Entered, Updated
<1> QED BY <1>1, <1>2, EndMarks, NothingMarks

\* update() that stops n.
LEMMA UpdateStopSteps ==
  ASSUME IInv, StopMeansComplete, NEW n \in Nodes, UpdateStop(n)
  PROVE  Marks(n) /\ Quietly(n)
<1>1. TypeInv /\ Coherent /\ ParentRuns(n) /\ StopCascade(Subtree(n))
  BY DEF UpdateStop, IInv, Walking
<1> QED BY <1>1, StopMarks

\* The rest of update().
LEMMA UpdateSteps ==
  ASSUME IInv, StopMeansComplete, EventsAheadUnstarted, NEW n \in Nodes,
         \/ UpdateComplete(n) \/ UpdateWait(n) \/ UpdateStart(n) \/ UpdateRunning(n)
         \/ UpdateRunningEvent(n) \/ ProgressEvent(n) \/ UpdateWaitingEvent(n)
         \/ UpdateTriggeredEvent(n)
  PROVE  Steps(n) /\ Unstopped /\ (UpdateTriggeredEvent(n) \/ Quietly(n))
<1>1. pc = "walk" /\ cur = n
  BY DEF UpdateComplete, UpdateWait, UpdateStart, UpdateRunning, UpdateRunningEvent,
         ProgressEvent, ProgressWith, UpdateWaitingEvent, UpdateTriggeredEvent
<1>2. TypeInv /\ Coherent /\ ParentRuns(n)
  BY <1>1 DEF IInv, Walking
<1>3. CASE ProgressEvent(n)
  <2>1. PICK out \in [node[n].running -> Outcomes] : ProgressWith(n, out)
    BY <1>3 DEF ProgressEvent
  <2>2. n \in Events
    BY <2>1 DEF ProgressWith, Events
  <2> QED BY <1>2, <2>1, <2>2, ProgressMarks DEF Steps
<1>4. CASE UpdateTriggeredEvent(n)
  <2>1. n \in Events /\ node[n].state = "Standby" /\ StartEvent(n) /\ StartHolds(n)
    BY <1>4 DEF UpdateTriggeredEvent, Events
  <2>2. n \in StartTriggered
    BY <2>1 DEF StartHolds, TriggerValues
  <2>3. NoStart(n)
    <3>1. n <= n
      BY DEF Nodes
    <3> QED BY <1>1, <2>1, <2>2, <3>1 DEF EventsAheadUnstarted, EventAhead
  <2> QED BY <1>2, <1>4, <2>1, <2>3, StartEventMarks DEF Steps
<1>5. CASE ~ ProgressEvent(n) /\ ~ UpdateTriggeredEvent(n)
  <2>1. node' = node /\ log' = log
    BY <1>5 DEF UpdateComplete, UpdateWait, UpdateStart, UpdateRunning, UpdateRunningEvent,
                UpdateWaitingEvent
  <2> QED BY <1>2, <2>1, NothingMarks DEF Steps
<1> QED BY <1>3, <1>4, <1>5

LEMMA VisitSteps ==
  ASSUME IInv, EInv, NEW n \in Nodes, Visit(n)
  PROVE  /\ Steps(n)
         /\ Unstopped \/ UpdateStop(n)
         /\ ~ Quietly(n) =>
              EnterElement(n) \/ EnterEventOfManeuver(n) \/ UpdateTriggeredEvent(n)
<1>1. StopMeansComplete /\ EnteringUnmarked /\ EventsAheadUnstarted
  BY DEF EInv, Logged, Ahead
<1> QED
  BY <1>1, EnterElementSteps, EnterEventSteps, EndSteps, UpdateStopSteps, UpdateSteps
  DEF Visit, Steps

\* step() that stops the storyboard.
LEMMA StoryboardStopSteps ==
  ASSUME IInv, StopMeansComplete, StoryboardStop
  PROVE  /\ Marks(1) /\ Quietly(1)
         /\ Unstopped \/ StopCascade(Subtree(1))
<1>1. TypeInv /\ Coherent /\ 1 \in Nodes /\ Subtree(1) = Nodes
  BY TreeAssumption DEF IInv, Subtree, Nodes
<1>2. ParentRuns(1)
  BY DEF ParentRuns
<1> QED BY <1>1, <1>2, StopMarks, NothingMarks DEF StoryboardStop

---------------------------------------------------------------------------
(* What a step leaves of the log.                                           *)

LEMMA LogsKept ==
  ASSUME TypeInv, NEW n \in Nodes, Steps(n), NEW m \in Nodes
  PROVE  /\ m # n \/ Quietly(n) => (NoStart(m)' <=> NoStart(m)) /\ Starts(m)' = Starts(m)
         /\ ~ NoStart(m) => ~ NoStart(m)'
         /\ Starting(n) => ~ NoStart(n)' /\ (NoStart(n) => Starts(n)' = 1)
<1>1. log \in [Nodes -> Seq(Transitions)]
  BY DEF TypeInv, TypeOK
<1>2. m # n \/ Quietly(n) => Quietly(m)
  BY DEF Steps, Marks
<1>3. Starting(n) => ~ NoStart(n)' /\ (NoStart(n) => Starts(n)' = 1)
  BY <1>1, StartingLog
<1>4. Quietly(m) => (NoStart(m)' <=> NoStart(m)) /\ Starts(m)' = Starts(m)
  BY <1>1, QuietLog
<1> QED BY <1>2, <1>3, <1>4 DEF Steps

\* Nothing starts below a completed element.
LEMMA StartsBelowRunning ==
  ASSUME IInv, NEW a \in Nodes, node[a].state = "Complete", NEW n \in Subtree(a)
  PROVE  ~ (node[n].state = "Standby" /\ ParentRuns(n))
<1> SUFFICES ASSUME node[n].state = "Standby", ParentRuns(n)
             PROVE  FALSE
  OBVIOUS
<1>1. n # a /\ n \in Nodes \ {1}
  BY SubtreeNested
<1>2. Parent[n] \in Subtree(a) /\ node[Parent[n]].state = "Running"
  BY <1>1, SubtreeClosed DEF ParentRuns
<1> QED BY <1>2, AncestorsRun DEF IInv, Coherent

LEMMA LoggedKept ==
  ASSUME IInv, Logged, NEW n \in Nodes, Steps(n),
         \/ Unstopped
         \/ Quietly(n) /\ (NoStart(1) => \A m \in Subtree(n) : NoStart(m))
  PROVE  Logged'
<1> USE DEF Logged
<1>0. TypeInv /\ Marks(n) /\ 1 \in Nodes
  BY TreeAssumption DEF IInv, Steps, Nodes
<1>1. StopMeansComplete'
  BY <1>0 DEF Marks
<1>2. LastStands'
  <2>1. SUFFICES ASSUME NEW m \in Nodes, (log[m] # <<>>)', Same(m)
                 PROVE  Shown(m)' \/ Rearmed(m)'
    BY <1>0 DEF LastStands, Marks
  <2>2. CASE Shown(m)
    BY <2>1, <2>2 DEF Shown, Same
  <2>3. CASE Rearmed(m)
    <3>1. PICK g \in Groups : m \in Subtree(g) \ {g} /\ node[g].stamped /\ node[g].state = "Standby"
      BY <2>3 DEF Rearmed
    <3>2. CASE Same(g)
      BY <3>1, <3>2 DEF Rearmed, Same, Groups
    <3>3. CASE ~ Same(g)
      BY <1>0, <3>1, <3>3 DEF Marks
    <3> QED BY <3>2, <3>3
  <2> QED BY <2>1, <2>2, <2>3 DEF LastStands, Same
<1>3. WaitingUnmarked'
  <2>1. SUFFICES ASSUME NEW a \in Nodes, Waiting(a)', NEW m \in Subtree(a)
                 PROVE  Unmarked(m)'
    BY DEF WaitingUnmarked, Subtree
  <2>2. Unmarked(m) /\ Same(m)
    BY <1>0, <2>1 DEF Marks, WaitingUnmarked
  <2> QED BY <2>2 DEF Unmarked, Same
<1>4. StartedOnce'
  <2>1. SUFFICES ASSUME NEW m \in Nodes
                 PROVE  NoStart(m)' \/ Starts(m)' = 1
    BY DEF StartedOnce
  <2>2. NoStart(m) \/ Starts(m) = 1
    BY DEF StartedOnce
  <2> QED BY <1>0, <2>2, LogsKept DEF Steps
<1>5. StopsStand'
  <2>1. SUFFICES ASSUME NEW a \in Stoppable, node'[a].stamped, node'[a].transition = "Stop",
                        NoStart(1)', NEW m \in Subtree(a)
                 PROVE  NoStart(m)'
    BY DEF StopsStand, Subtree, Stoppable
  <2>2. NoStart(1) /\ a \in Nodes /\ m \in Nodes /\ Kind[a] # "Event"
    BY <1>0, <2>1, LogsKept, SubtreeInTree DEF Stoppable
  <2>3. CASE Same(a)
    <3>1. node[a].state = "Complete" /\ NoStart(m)
      BY <2>1, <2>2, <2>3 DEF StopsStand, StopMeansComplete, Same
    <3>2. m # n \/ Quietly(n)
      BY <2>1, <2>2, <3>1, StartsBelowRunning DEF Steps
    <3> QED BY <1>0, <2>2, <3>1, <3>2, LogsKept
  <2>4. CASE ~ Same(a)
    <3>1. Quietly(n) /\ \A x \in Subtree(n) : NoStart(x)
      BY <2>1, <2>2, <2>4 DEF Unstopped
    <3>2. a \in Subtree(n)
      BY <1>0, <2>2, <2>4 DEF Marks
    <3>3. m \in Subtree(n)
      BY <2>1, <3>2, SubtreeNested
    <3> QED BY <1>0, <2>2, <3>1, <3>3, LogsKept
  <2> QED BY <2>3, <2>4
<1> QED BY <1>1, <1>2, <1>3, <1>4, <1>5

---------------------------------------------------------------------------
(* Where the cursor goes.                                                   *)

\* update() of n returned.
LEMMA NextWalkGoes ==
  ASSUME NEW n \in Nodes, NextWalk(n)
  PROVE  /\ pc' \in {"walk", "walked", "report"}
         /\ pc' = "walk" => cur' \in Nodes /\ cur' = Last[n] + 1
         /\ pc' = "walked" => cur' \in Nodes /\ Last[cur'] = Last[n]
<1>1. CASE n = 1
  BY <1>1 DEF NextWalk
<1>2. CASE n # 1 /\ HasSibling(n)
  BY <1>2, CursorInTree DEF NextWalk
<1>3. CASE n # 1 /\ ~ HasSibling(n)
  <2>1. /\ Parent[n] \in Nodes /\ Last[n] <= Last[Parent[n]]
        /\ Last[n] \in 1 .. N /\ Last[Parent[n]] \in 1 .. N
    BY <1>3, CursorInTree, TreeAssumption DEF Nodes
  <2>2. Last[Parent[n]] = Last[n]
    BY <1>3, <2>1 DEF HasSibling
  <2> QED BY <1>3, <2>1, <2>2 DEF NextWalk
<1> QED BY <1>1, <1>2, <1>3

LEMMA WalkChildrenGoes ==
  ASSUME NEW n \in Nodes, WalkChildren(n)
  PROVE  /\ pc' \in {"walk", "walked"}
         /\ pc' = "walk" => cur' \in Nodes /\ cur' = n + 1
         /\ pc' = "walked" => cur' = n
BY CursorInTree DEF WalkChildren

\* enter_running() of n returned.
LEMMA AfterEnterGoes ==
  ASSUME NEW n \in Nodes, NEW s, top \in Nodes, n \in Subtree(top), AfterEnter(n, s)
  PROVE  \/ /\ n # top /\ top' = top /\ pc' \in {"enter", "entered"}
            /\ pc' = "enter" => cur' \in Nodes /\ cur' = Last[n] + 1
            /\ pc' = "entered" => cur' \in Nodes /\ Last[cur'] = Last[n]
         \/ n = top /\ n = 1 /\ pc' = "stop"
         \/ n = top /\ n # 1 /\ (NextWalk(n) \/ WalkChildren(n))
<1>1. CASE n # top
  <2>1. n # 1
    BY <1>1, SubtreeNested
  <2>2. CASE HasSibling(n)
    BY <1>1, <2>1, <2>2, CursorInTree DEF AfterEnter
  <2>3. CASE ~ HasSibling(n)
    <3>1. /\ Parent[n] \in Nodes /\ Last[n] <= Last[Parent[n]]
          /\ Last[n] \in 1 .. N /\ Last[Parent[n]] \in 1 .. N
      BY <2>1, CursorInTree, TreeAssumption DEF Nodes
    <3>2. Last[Parent[n]] = Last[n]
      BY <2>3, <3>1 DEF HasSibling
    <3> QED BY <1>1, <2>3, <3>1, <3>2 DEF AfterEnter
  <2> QED BY <2>2, <2>3
<1>2. CASE n = top
  BY <1>2 DEF AfterEnter
<1> QED BY <1>1, <1>2

---------------------------------------------------------------------------
(* What lies ahead stays untouched.                                         *)

\* Numbers behind an act or a later element.
LEMMA Positions ==
  ASSUME NEW n \in Nodes
  PROVE  /\ n \in Nat /\ Last[n] \in Nat /\ n <= Last[n] /\ n + 1 # 1 /\ Last[n] + 1 # 1
         /\ \A a \in Nodes : Last[n] < a => n \notin Subtree(a) /\ a # n
         /\ \A m \in Nodes : m \in Subtree(n) <=> n <= m /\ m <= Last[n]
         /\ Kind[n] = "Event" => Last[n] = n
BY TreeAssumption DEF Nodes, Subtree

\* An element that is not in the subtree of n keeps its marks when n is visited,
\* unless it runs.
LEMMA UnmarkedKept ==
  ASSUME NEW n \in Nodes, Steps(n), NEW m \in Nodes, m \notin Subtree(n),
         node[m].state = "Standby", Unmarked(m)
  PROVE  Unmarked(m)'
<1>1. Same(m)
  BY DEF Steps, Marks
<1> QED BY <1>1 DEF Same, Unmarked

\* The cursor after a visit to n has passed it: nothing ahead of it is n, nor
\* an act that holds n.
Passed(n) ==
  /\ pc' \in {"walk", "walked", "report"}
  /\ \A e \in Nodes : EventAhead(e)' => n < e
  /\ \A a \in Nodes : ActAhead(a)' => n < a
  /\ pc' = "walk" => cur' # 1

LEMMA NextWalkPasses ==
  ASSUME NEW n \in Nodes, NextWalk(n)
  PROVE  Passed(n) /\ \A a \in Nodes : ActAhead(a)' => Last[n] < a
<1>1. /\ pc' \in {"walk", "walked", "report"}
      /\ pc' = "walk" => cur' = Last[n] + 1
      /\ pc' = "walked" => Last[cur'] = Last[n]
  BY NextWalkGoes
<1>2. n \in Nat /\ Last[n] \in Nat /\ n <= Last[n]
  BY Positions
<1>3. ASSUME NEW e \in Nodes, EventAhead(e)' \/ ActAhead(e)'
      PROVE  Last[n] < e /\ n < e
  <2>1. e \in Nat
    BY Positions
  <2>2. \/ pc' = "walk" /\ cur' <= e
        \/ pc' = "walked" /\ Last[cur'] < e
    BY <1>1, <1>3 DEF EventAhead, ActAhead
  <2> QED BY <1>1, <1>2, <2>1, <2>2
<1>4. pc' = "walk" => cur' # 1
  BY <1>1, Positions
<1> QED BY <1>1, <1>3, <1>4 DEF Passed

LEMMA WalkChildrenPasses ==
  ASSUME NEW n \in Nodes, WalkChildren(n)
  PROVE  Passed(n)
<1>1. /\ pc' \in {"walk", "walked"}
      /\ pc' = "walk" => cur' = n + 1
      /\ pc' = "walked" => cur' = n
  BY WalkChildrenGoes
<1>2. n \in Nat /\ Last[n] \in Nat /\ n <= Last[n]
  BY Positions
<1>3. ASSUME NEW e \in Nodes, EventAhead(e)' \/ ActAhead(e)'
      PROVE  n < e
  <2>1. e \in Nat
    BY Positions
  <2>2. \/ pc' = "walk" /\ cur' <= e
        \/ pc' = "walked" /\ Last[cur'] < e
    BY <1>1, <1>3 DEF EventAhead, ActAhead
  <2> QED BY <1>1, <1>2, <2>1, <2>2
<1>4. pc' = "walk" => cur' # 1
  BY <1>1, Positions
<1> QED BY <1>1, <1>3, <1>4 DEF Passed

\* A visit of update() to n that goes on in update().
LEMMA WalkAhead ==
  ASSUME IInv, EInv, NEW n \in Nodes, cur = n, pc \in {"walk", "walked"}, Steps(n),
         NextWalk(n) \/ (WalkChildren(n) /\ pc = "walk" /\ Quietly(n)),
         Quietly(n) \/ Kind[n] = "Event"
  PROVE  Ahead'
<1>1. TypeInv /\ Passed(n)
  BY NextWalkPasses, WalkChildrenPasses DEF IInv
<1>2. pc' \notin {"stop", "enter", "entered"} /\ (pc' = "walk" => cur' # 1)
  BY <1>1 DEF Passed
<1>3. EnteringUnmarked' /\ FirstStarted' /\ TopStarts'
  BY <1>2 DEF EnteringUnmarked, FirstStarted, TopStarts
<1>4. \A m \in Nodes : m \in Nat /\ Last[m] \in Nat
  BY Positions
<1>5. EventsAheadUnstarted'
  <2>1. SUFFICES ASSUME NEW e \in Events, e \in StartTriggered, EventAhead(e)'
                 PROVE  NoStart(e)'
    BY DEF EventsAheadUnstarted
  <2>2. e \in Nodes /\ n < e
    BY <1>1, <2>1 DEF Passed, Events
  <2>3. EventAhead(e)
    <3>1. CASE pc = "walk"
      BY <1>4, <2>2, <3>1 DEF EventAhead
    <3>2. CASE pc = "walked"
      <4>1. NextWalk(n)
        BY <3>2
      <4>2. ActAhead(e)' => Last[n] < e
        BY <2>2, <4>1, NextWalkPasses
      <4>3. ActAhead(e)'
        BY <2>1, <1>2 DEF EventAhead, ActAhead
      <4> QED BY <3>2, <4>2, <4>3 DEF EventAhead
    <3> QED BY <3>1, <3>2
  <2>4. NoStart(e) /\ e # n
    BY <1>4, <2>1, <2>2, <2>3 DEF EInv, Ahead, EventsAheadUnstarted
  <2> QED BY <1>1, <2>2, <2>4, LogsKept
<1>6. ActsAheadUnstarted'
  <2>1. SUFFICES ASSUME NoStart(1)', NEW a \in Nodes, Kind[a] = "Act", ActAhead(a)',
                        NEW m \in Subtree(a)
                 PROVE  NoStart(m)'
    BY DEF ActsAheadUnstarted, Subtree
  <2>2. n < a /\ (NextWalk(n) => Last[n] < a)
    BY <1>1, <2>1, NextWalkPasses DEF Passed
  <2>3. ActAhead(a)
    BY <1>4, <2>2 DEF ActAhead
  <2>4. NoStart(1) /\ m \in Nodes
    <3>1. 1 \in Nodes
      BY TreeAssumption DEF Nodes
    <3> QED BY <1>1, <2>1, <3>1, LogsKept, SubtreeInTree
  <2>5. NoStart(m)
    BY <2>1, <2>3, <2>4 DEF EInv, Ahead, ActsAheadUnstarted
  <2>6. m # n \/ Quietly(n)
    <3>1. Kind[n] = "Event" => n \notin Subtree(a)
      BY <2>1, <2>2, <1>4, Positions
    <3> QED BY <3>1
  <2> QED BY <1>1, <2>4, <2>5, <2>6, LogsKept
<1> QED BY <1>3, <1>5, <1>6 DEF Ahead

\* A visit of enter_running() to n that returns to the parent's loop.
LEMMA EnterAhead ==
  ASSUME IInv, EInv, NEW n \in Nodes, cur = n, pc \in {"enter", "entered"}, n # top,
         Steps(n), Quietly(n) \/ n \notin StartTriggered \/ Kind[n] # "Event",
         top' = top, pc' \in {"enter", "entered"},
         pc' = "enter" => cur' = Last[n] + 1,
         pc' = "entered" => Last[cur'] = Last[n]
  PROVE  Ahead'
<1> USE DEF EInv, Ahead
<1>1. TypeInv /\ top \in Nodes /\ n \in Subtree(top) /\ 1 \in Nodes
  BY TreeAssumption DEF IInv, TypeInv, CursorBelowTop, Nodes
<1>2. \A m \in Nodes : m \in Nat /\ Last[m] \in Nat /\ m <= Last[m]
  BY Positions
<1>3. top <= n /\ n <= Last[top] /\ n # 1 /\ Last[top] \in Nodes
  BY <1>1, Positions, SubtreeNested, SubtreeInTree
<1>4. ASSUME NEW m \in Last[n] + 1 .. Last[top]
      PROVE  Unmarked(m)'
  <2>1. m \in Nodes /\ Last[n] < m /\ n <= m
    <3>1. m \in Nat /\ Last[n] < m /\ m <= Last[top] /\ Last[top] \in 1 .. N /\ N \in Nat
      BY <1>2, <1>3, TreeAssumption DEF Nodes
    <3> QED BY <1>2, <3>1 DEF Nodes
  <2>2. m \notin Subtree(n)
    BY <1>2, <2>1, Positions
  <2>3. node[m].state = "Standby" /\ Unmarked(m)
    <3>1. m \in n .. Last[top]
      BY <1>2, <1>4, <2>1
    <3> QED BY <1>4, <3>1 DEF IInv, Walking, StandbyFrom, EnteringUnmarked
  <2> QED BY <2>1, <2>2, <2>3, UnmarkedKept
<1>5. EnteringUnmarked'
  BY <1>4 DEF EnteringUnmarked
<1>6. EventsAheadUnstarted'
  <2>1. SUFFICES ASSUME NEW e \in Events, e \in StartTriggered, EventAhead(e)'
                 PROVE  NoStart(e)'
    BY DEF EventsAheadUnstarted
  <2>2. NoStart(e) /\ e \in Nodes /\ (e # n \/ Quietly(n))
    BY <2>1 DEF EventsAheadUnstarted, EventAhead, Events
  <2> QED BY <1>1, <2>2, LogsKept
<1>7. ActsAheadUnstarted'
  <2>1. SUFFICES ASSUME NoStart(1)', NEW a \in Nodes, Kind[a] = "Act", ActAhead(a)',
                        NEW m \in Subtree(a)
                 PROVE  NoStart(m)'
    BY DEF ActsAheadUnstarted, Subtree
  <2>2. ActAhead(a) /\ Last[top] < a
    BY <2>1 DEF ActAhead
  <2>3. NoStart(m) /\ m \in Nodes
    BY <1>1, <2>1, <2>2, LogsKept, SubtreeInTree DEF ActsAheadUnstarted
  <2>4. m # n
    BY <1>2, <1>3, <2>2, Positions
  <2> QED BY <1>1, <2>3, <2>4, LogsKept
<1>8. FirstStarted'
  BY <1>1, <1>3, LogsKept DEF FirstStarted
<1>9. TopStarts'
  BY DEF TopStarts
<1> QED BY <1>5, <1>6, <1>7, <1>8, <1>9

\* A visit of enter_running() to the element update() or step() called it on,
\* which returns there.
LEMMA TopAhead ==
  ASSUME IInv, EInv, NEW n \in Nodes, cur = n, pc \in {"enter", "entered"}, n = top,
         Steps(n),
         \/ n = 1 /\ pc = "entered" /\ pc' = "stop"
         \/ n # 1 /\ (NextWalk(n) \/ WalkChildren(n))
  PROVE  Ahead'
<1> USE DEF EInv, Ahead
<1>1. TypeInv /\ 1 \in Nodes /\ Kind[1] = "Storyboard"
  BY TreeAssumption DEF IInv, Nodes
<1>2. \A m \in Nodes : m \in Nat /\ Last[m] \in Nat /\ m <= Last[m] /\ 1 <= m
  BY Positions DEF Nodes
<1>3. Kind[n] # "Event"
  BY DEF CursorKinds
<1>4. EnteringUnmarked' /\ TopStarts' /\ pc' \notin {"enter", "entered"}
  <2>1. pc' \notin {"enter", "entered"}
    BY NextWalkGoes, WalkChildrenGoes
  <2> QED BY <2>1 DEF EnteringUnmarked, TopStarts
<1>5. CASE n = 1 /\ pc = "entered" /\ pc' = "stop"
  <2>1. ~ NoStart(1)'
    BY <1>1, <1>5, LogsKept DEF FirstStarted
  <2>2. EventsAheadUnstarted'
    <3>1. SUFFICES ASSUME NEW e \in Events, e \in StartTriggered
                   PROVE  NoStart(e)'
      BY DEF EventsAheadUnstarted
    <3>2. e \in Nodes /\ e # n /\ EventAhead(e)
      BY <1>2, <1>3, <1>5 DEF Events, EventAhead
    <3> QED BY <1>1, <3>1, <3>2, LogsKept DEF EventsAheadUnstarted
  <2> QED BY <1>4, <1>5, <2>1, <2>2 DEF ActsAheadUnstarted, FirstStarted
<1>6. CASE n # 1 /\ (NextWalk(n) \/ WalkChildren(n))
  <2>1. Passed(n)
    BY <1>6, NextWalkPasses, WalkChildrenPasses
  <2>2. EventsAheadUnstarted'
    <3>1. SUFFICES ASSUME NEW e \in Events, e \in StartTriggered, EventAhead(e)'
                   PROVE  NoStart(e)'
      BY DEF EventsAheadUnstarted
    <3>2. e \in Nodes /\ n < e /\ n \in Nat /\ e \in Nat
      BY <1>2, <2>1, <3>1 DEF Events, Passed
    <3>3. EventAhead(e) /\ e # n
      BY <3>2 DEF EventAhead
    <3> QED BY <1>1, <3>1, <3>2, <3>3, LogsKept DEF EventsAheadUnstarted
  <2>3. ActsAheadUnstarted'
    <3>1. SUFFICES ASSUME NoStart(1)', NEW a \in Nodes, Kind[a] = "Act", ActAhead(a)',
                          NEW m \in Subtree(a)
                   PROVE  NoStart(m)'
      BY DEF ActsAheadUnstarted, Subtree
    <3>2. n < a
      BY <2>1, <3>1 DEF Passed
    <3>3. Kind[n] \in {"Act", "Group"}
      BY <1>6 DEF TopStarts
    <3>4. a \notin Subtree(n)
      BY <1>2, <3>1, <3>2, <3>3, KindsBelow
    <3>5. Last[n] < a /\ ActAhead(a)
      BY <1>2, <3>2, <3>4, Positions DEF ActAhead
    <3>6. NoStart(m) /\ m \in Nodes /\ m # n
      BY <1>1, <3>1, <3>5, LogsKept, SubtreeInTree, Positions DEF ActsAheadUnstarted
    <3> QED BY <1>1, <3>6, LogsKept
  <2>4. FirstStarted'
    BY <1>4, <2>1 DEF FirstStarted, Passed
  <2> QED BY <1>4, <2>2, <2>3, <2>4
<1> QED BY <1>5, <1>6

\* enter_running() that goes into the children of n.
LEMMA EnterElementAhead ==
  ASSUME IInv, EInv, NEW n \in Nodes, Steps(n), Starting(n), EnterElement(n)
  PROVE  Ahead'
<1> USE DEF EInv, Ahead
<1>0. pc = "enter" /\ cur = n /\ top' = top /\ Kind[n] # "Event"
  BY DEF EnterElement
<1>1. /\ TypeInv /\ top \in Nodes /\ n \in Subtree(top) /\ 1 \in Nodes
      /\ pc = "enter" /\ cur = n /\ top' = top /\ Kind[n] # "Event"
      /\ node \in [Nodes -> NodeRecord] /\ log \in [Nodes -> Seq(Transitions)]
  <2>1. 1 \in Nodes
    BY TreeAssumption DEF Nodes
  <2> QED BY <1>0, <2>1 DEF IInv, TypeInv, TypeOK, CursorBelowTop
<1>2. \A m \in Nodes : m \in Nat /\ Last[m] \in Nat /\ m <= Last[m]
  BY Positions
<1>3. \/ pc' = "enter" /\ cur' = n + 1
      \/ pc' = "entered" /\ cur' = n /\ Last[n] = n
  BY <1>2 DEF EnterElement
<1>4. top <= n /\ n <= Last[top] /\ Last[top] \in Nodes
  BY <1>1, Positions, SubtreeInTree
<1>5. ASSUME NEW m \in n + 1 .. Last[top]
      PROVE  Unmarked(m)'
  <2>1. m \in n .. Last[top] /\ m # n /\ m \in Nodes
    <3>1. m \in Nat /\ n < m /\ m <= Last[top] /\ Last[top] \in 1 .. N /\ N \in Nat
      BY <1>2, <1>4, TreeAssumption DEF Nodes
    <3> QED BY <1>2, <3>1 DEF Nodes
  <2>2. Unmarked(m)
    BY <1>1, <2>1 DEF EnteringUnmarked
  <2>3. node'[m] = node[m] /\ log'[m] = log[m]
    BY <1>1, <2>1 DEF EnterElement, TakesTransition
  <2> QED BY <2>2, <2>3 DEF Unmarked
<1>6. EnteringUnmarked'
  BY <1>1, <1>3, <1>5 DEF EnteringUnmarked
<1>7. EventsAheadUnstarted'
  <2>1. SUFFICES ASSUME NEW e \in Events, e \in StartTriggered, EventAhead(e)'
                 PROVE  NoStart(e)'
    BY DEF EventsAheadUnstarted
  <2>2. NoStart(e) /\ e \in Nodes /\ e # n
    BY <1>1, <1>3, <2>1 DEF EventsAheadUnstarted, EventAhead, Events
  <2> QED BY <1>1, <2>2, LogsKept
<1>8. ActsAheadUnstarted'
  <2>1. SUFFICES ASSUME NoStart(1)', NEW a \in Nodes, Kind[a] = "Act", ActAhead(a)',
                        NEW m \in Subtree(a)
                 PROVE  NoStart(m)'
    BY DEF ActsAheadUnstarted, Subtree
  <2>2. ActAhead(a) /\ Last[top] < a
    BY <1>1, <1>3, <2>1 DEF ActAhead
  <2>3. NoStart(m) /\ m \in Nodes
    BY <1>1, <2>1, <2>2, LogsKept, SubtreeInTree DEF ActsAheadUnstarted
  <2>4. m # n
    BY <1>2, <1>4, <2>2, Positions
  <2> QED BY <1>1, <2>3, <2>4, LogsKept
<1>9. FirstStarted'
  BY <1>1, <1>3, LogsKept DEF FirstStarted
<1>10. TopStarts'
  BY <1>1 DEF TopStarts
<1> QED BY <1>6, <1>7, <1>8, <1>9, <1>10

\* update() that starts n.
LEMMA UpdateStartAhead ==
  ASSUME IInv, EInv, NEW n \in Nodes, UpdateStart(n)
  PROVE  Ahead'
<1> USE DEF EInv, Ahead
<1>1. /\ pc = "walk" /\ cur = n /\ cur' = n /\ pc' = "enter" /\ top' = n
      /\ node' = node /\ log' = log
      /\ Kind[n] # "Event" /\ node[n].state = "Standby"
  BY DEF UpdateStart
<1>2. n # 1 /\ n \in Nat /\ Last[n] \in Nat /\ n <= Last[n]
  BY <1>1, Positions DEF IInv, Walking
<1>3. Waiting(n) /\ Kind[n] \in {"Act", "Group"}
  <2>1. CASE Kind[n] = "Group"
    BY <1>1, <2>1 DEF UpdateStart, InheritedStart, MayStart, Waiting
  <2>2. CASE Kind[n] # "Group"
    <3>1. n \in StartTriggered
      BY <2>2 DEF UpdateStart, InheritedStart, StartHolds, TriggerValues
    <3> QED BY <1>1, <3>1, ScenarioAssumption DEF Waiting
  <2> QED BY <2>1, <2>2
<1>4. \A m \in n .. Last[n] : Unmarked(m)
  BY <1>3 DEF Logged, WaitingUnmarked, Subtree
<1>5. EnteringUnmarked'
  BY <1>1, <1>4 DEF EnteringUnmarked, Unmarked
<1>6. EventsAheadUnstarted'
  BY <1>1 DEF EventsAheadUnstarted, EventAhead, NoStart
<1>7. ActsAheadUnstarted'
  <2>1. \A a \in Nodes : ActAhead(a)' => ActAhead(a)
    <3>1. SUFFICES ASSUME NEW a \in Nodes, ActAhead(a)'
                   PROVE  ActAhead(a)
      OBVIOUS
    <3>2. a \in Nat /\ Last[n] < a
      BY <1>1, <3>1, Positions DEF ActAhead
    <3> QED BY <1>1, <1>2, <3>2 DEF ActAhead
  <2> QED BY <1>1, <2>1 DEF ActsAheadUnstarted, NoStart, Subtree
<1>8. FirstStarted' /\ TopStarts'
  BY <1>1, <1>2, <1>3 DEF FirstStarted, TopStarts
<1> QED BY <1>5, <1>6, <1>7, <1>8

---------------------------------------------------------------------------
(* Every step keeps the invariant.                                          *)

LEMMA VisitKeepsAhead ==
  ASSUME IInv, EInv, NEW n \in Nodes, Visit(n)
  PROVE  Ahead'
<1>1. /\ Steps(n)
      /\ ~ Quietly(n) => EnterElement(n) \/ EnterEventOfManeuver(n) \/ UpdateTriggeredEvent(n)
  BY VisitSteps
<1>2. CASE EnterElement(n)
  <2>1. Starting(n)
    BY <1>2, EnterElementSteps DEF EInv, Logged, Ahead
  <2> QED BY <1>1, <1>2, <2>1, EnterElementAhead
<1>3. CASE UpdateStart(n)
  BY <1>3, UpdateStartAhead
<1>4. ASSUME EnterWaiting(n) \/ EnterExhaustedGroup(n) \/ EnterEventOfManeuver(n) \/ Entered(n)
      PROVE  Ahead'
  <2>1. /\ pc \in {"enter", "entered"} /\ cur = n
        /\ \E s \in States : AfterEnter(n, s)
        /\ n = 1 /\ n = top => pc = "entered"
    <3>1. node'[n].state \in States /\ node[n].state \in States /\ "Complete" \in States
      BY TypeInvNext, <1>4 DEF IInv, TypeInv, TypeOK, NodeRecord, States, Next, Walk, Visit
    <3>2. Kind[1] = "Storyboard"
      BY TreeAssumption
    <3> QED BY <1>4, <3>1, <3>2 DEF EnterWaiting, EnterExhaustedGroup, EnterEventOfManeuver, Entered
  <2>2. top \in Nodes /\ n \in Subtree(top)
    BY <2>1 DEF IInv, TypeInv, CursorBelowTop
  <2>3. \/ /\ n # top /\ top' = top /\ pc' \in {"enter", "entered"}
           /\ pc' = "enter" => cur' \in Nodes /\ cur' = Last[n] + 1
           /\ pc' = "entered" => cur' \in Nodes /\ Last[cur'] = Last[n]
        \/ n = top /\ n = 1 /\ pc' = "stop"
        \/ n = top /\ n # 1 /\ (NextWalk(n) \/ WalkChildren(n))
    BY <2>1, <2>2, AfterEnterGoes
  <2>4. Quietly(n) \/ n \notin StartTriggered \/ Kind[n] # "Event"
    BY <1>1, <2>1 DEF EnterElement, EnterEventOfManeuver, UpdateTriggeredEvent
  <2> QED BY <1>1, <2>1, <2>3, <2>4, EnterAhead, TopAhead
<1>5. ASSUME \/ UpdateComplete(n) \/ UpdateStop(n) \/ UpdateWait(n) \/ UpdateRunning(n)
             \/ UpdateRunningEvent(n) \/ ProgressEvent(n) \/ UpdateWaitingEvent(n)
             \/ UpdateTriggeredEvent(n) \/ Updated(n)
      PROVE  Ahead'
  <2>1. /\ pc \in {"walk", "walked"} /\ cur = n
        /\ NextWalk(n) \/ (WalkChildren(n) /\ UpdateRunning(n))
    BY <1>5 DEF UpdateComplete, UpdateStop, UpdateWait, UpdateRunning, UpdateRunningEvent,
                ProgressEvent, ProgressWith, UpdateWaitingEvent, UpdateTriggeredEvent, Updated
  <2>2. Quietly(n) \/ (Kind[n] = "Event" /\ UpdateTriggeredEvent(n))
    BY <1>1, <2>1 DEF EnterElement, EnterEventOfManeuver, UpdateTriggeredEvent
  <2>3. NextWalk(n) \/ (WalkChildren(n) /\ pc = "walk" /\ Quietly(n))
    <3>1. ~ (UpdateRunning(n) /\ UpdateTriggeredEvent(n))
      BY DEF UpdateRunning, UpdateTriggeredEvent
    <3> QED BY <2>1, <2>2, <3>1 DEF UpdateRunning
  <2> QED BY <1>1, <2>1, <2>2, <2>3, WalkAhead
<1> QED BY <1>2, <1>3, <1>4, <1>5 DEF Visit

LEMMA VisitKeeps ==
  ASSUME IInv, EInv, NEW n \in Nodes, Visit(n)
  PROVE  Logged' /\ Ahead' /\ AllReported'
<1>1. Steps(n) /\ (Unstopped \/ UpdateStop(n))
  BY VisitSteps
<1>2. UpdateStop(n) => Quietly(n) /\ (NoStart(1) => \A m \in Subtree(n) : NoStart(m))
  <2>1. SUFFICES ASSUME UpdateStop(n)
                 PROVE  Quietly(n) /\ (NoStart(1) => \A m \in Subtree(n) : NoStart(m))
    OBVIOUS
  <2>2. Quietly(n) /\ pc = "walk" /\ cur = n /\ n \in StopTriggered
    BY <2>1, UpdateStopSteps DEF UpdateStop, StopHolds, TriggerValues, EInv, Logged
  <2>3. n <= n
    BY DEF Nodes
  <2>4. CASE Kind[n] = "Act"
    BY <2>2, <2>3, <2>4 DEF EInv, Ahead, ActsAheadUnstarted, ActAhead
  <2>5. CASE Kind[n] = "Storyboard"
    <3>1. n = 1
      <4>1. n # 1 => Kind[Parent[n]] \in Kinds /\ Kind[n] = ChildKind[Kind[Parent[n]]]
        BY TreeAssumption
      <4> QED BY <2>5, <4>1 DEF ChildKind, Kinds
    <3> QED BY <2>2, <3>1, SubtreeInTree DEF EInv, Ahead, FirstStarted
  <2> QED BY <2>2, <2>4, <2>5, ScenarioAssumption
<1>3. Logged'
  BY <1>1, <1>2, LoggedKept DEF EInv
<1>4. AllReported'
  <2>1. pc' # "idle"
    BY AfterEnterGoes, NextWalkGoes, WalkChildrenGoes
    DEF Visit, EnterWaiting, EnterExhaustedGroup, EnterElement, EnterEventOfManeuver, Entered,
        UpdateComplete, UpdateStop, UpdateWait, UpdateStart, UpdateRunning, UpdateRunningEvent,
        ProgressEvent, ProgressWith, UpdateWaitingEvent, UpdateTriggeredEvent, Updated,
        AfterEnter
  <2> QED BY <2>1 DEF AllReported
<1> QED BY <1>3, <1>4, VisitKeepsAhead

LEMMA StoryboardStopKeepsAll ==
  ASSUME IInv, EInv, StoryboardStop
  PROVE  Logged' /\ Ahead' /\ AllReported'
<1>1. /\ Marks(1) /\ Quietly(1)
      /\ Unstopped \/ StopCascade(Subtree(1))
  BY StoryboardStopSteps DEF EInv, Logged
<1>2. 1 \in Nodes /\ Subtree(1) = Nodes /\ TypeInv
  BY TreeAssumption DEF IInv, Subtree, Nodes
<1>3. Steps(1)
  BY <1>1 DEF Steps
<1>4. pc = "stop" /\ cur' = cur /\ cur = 1 /\ pc' \in {"report", "walk"} /\ 1 <= 1
  BY DEF StoryboardStop, IInv, Walking
<1>5. NoStart(1) => \A m \in Nodes : NoStart(m)
  BY <1>4 DEF EInv, Ahead, FirstStarted
<1>6. Logged'
  BY <1>1, <1>2, <1>3, <1>5, LoggedKept DEF EInv
<1>7. \A m \in Nodes : NoStart(m)' <=> NoStart(m)
  BY <1>1, <1>2, <1>3, LogsKept
<1>8. EventsAheadUnstarted'
  BY <1>4, <1>7 DEF EInv, Ahead, EventsAheadUnstarted, EventAhead, Events
<1>9. ActsAheadUnstarted' /\ FirstStarted'
  <2>1. \A a \in Nodes : \A m \in Subtree(a) : m \in Nodes
    BY SubtreeInTree
  <2> QED BY <1>2, <1>4, <1>5, <1>7, <2>1 DEF ActsAheadUnstarted, FirstStarted
<1>10. EnteringUnmarked' /\ TopStarts' /\ AllReported'
  BY <1>4 DEF EnteringUnmarked, TopStarts, AllReported
<1> QED BY <1>6, <1>8, <1>9, <1>10 DEF Ahead

\* Nothing is marked.
LEMMA FreshEvaluation ==
  ASSUME \A m \in Nodes : Unmarked(m)
  PROVE  /\ LastStands /\ WaitingUnmarked /\ StartedOnce /\ StopsStand
         /\ EventsAheadUnstarted /\ ActsAheadUnstarted /\ AllReported
         /\ \A m \in Nodes : NoStart(m)
<1>1. \A m \in Nodes : NoStart(m)
  BY DEF Unmarked, NoStart
<1>2. \A a \in Nodes : \A m \in Subtree(a) : m \in Nodes
  BY SubtreeInTree
<1> QED BY <1>1, <1>2 DEF Unmarked, LastStands, WaitingUnmarked, StartedOnce, StopsStand, Stoppable,
                         EventsAheadUnstarted, ActsAheadUnstarted, AllReported, Events

\* The same of the next state.
LEMMA FreshNextEvaluation ==
  ASSUME \A m \in Nodes : Unmarked(m)'
  PROVE  /\ LastStands' /\ WaitingUnmarked' /\ StartedOnce' /\ StopsStand'
         /\ EventsAheadUnstarted' /\ ActsAheadUnstarted' /\ AllReported'
         /\ \A m \in Nodes : NoStart(m)'
<1>1. ASSUME NEW m \in Nodes
      PROVE  NoStart(m)'
  <2>1. log'[m] = <<>>
    BY DEF Unmarked
  <2> QED BY <2>1 DEF NoStart
<1>2. \A a \in Nodes : \A m \in Subtree(a) : m \in Nodes
  BY SubtreeInTree
<1>3. LastStands' /\ WaitingUnmarked' /\ AllReported'
  BY <1>2 DEF Unmarked, LastStands, WaitingUnmarked, AllReported
<1>4. StartedOnce' /\ StopsStand' /\ EventsAheadUnstarted' /\ ActsAheadUnstarted'
  BY <1>1, <1>2 DEF StartedOnce, StopsStand, Stoppable, EventsAheadUnstarted, ActsAheadUnstarted,
                    Events
<1> QED BY <1>1, <1>3, <1>4

LEMMA HostKeeps ==
  ASSUME IInv, EInv, Bind \/ Reset \/ BeginStep \/ StepComplete \/ Report \/ UNCHANGED vars
  PROVE  Logged' /\ Ahead' /\ AllReported'
<1>1. CASE Bind \/ Reset
  <2>1. /\ pc' = "idle"
        /\ \A m \in Nodes : node'[m] = Fresh /\ log'[m] = <<>>
    BY <1>1 DEF Bind, Reset, Rebuild, control
  <2>2. \A m \in Nodes : Unmarked(m)'
    BY <2>1 DEF Unmarked, Fresh
  <2>3. StopMeansComplete' /\ EnteringUnmarked' /\ FirstStarted' /\ TopStarts'
    BY <2>1 DEF StopMeansComplete, EnteringUnmarked, FirstStarted, TopStarts, Fresh
  <2> QED BY <2>2, <2>3, FreshNextEvaluation DEF Logged, Ahead
<1>2. CASE BeginStep
  <2>1. /\ \A m \in Nodes : node'[m] = [node[m] EXCEPT !.stamped = FALSE] /\ log'[m] = <<>>
        /\ cur' = 1 /\ (pc' = "stop" \/ (pc' = "enter" /\ top' = 1))
        /\ node \in [Nodes -> NodeRecord]
    BY <1>2 DEF BeginStep, IInv, TypeInv, TypeOK
  <2>2. \A m \in Nodes : /\ Unmarked(m)'
                         /\ node'[m].state = node[m].state
                         /\ node'[m].transition = node[m].transition
    BY <2>1, ZenonT(40) DEF Unmarked, NodeRecord
  <2>3. StopMeansComplete'
    BY <2>2 DEF EInv, Logged, StopMeansComplete
  <2>4. EnteringUnmarked'
    <3>1. Last[1] = N
      BY TreeAssumption
    <3> QED BY <2>1, <2>2, <3>1 DEF EnteringUnmarked, Nodes
  <2>5. FirstStarted' /\ TopStarts'
    <3>1. \A m \in Nodes : NoStart(m)'
      BY <2>2, FreshNextEvaluation
    <3> QED BY <2>1, <3>1 DEF FirstStarted, TopStarts
  <2> QED BY <2>2, <2>3, <2>4, <2>5, FreshNextEvaluation DEF Logged, Ahead
<1>3. CASE StepComplete \/ Report \/ UNCHANGED vars
  <2>1. node' = node /\ log' = log
    BY <1>3 DEF StepComplete, Report, vars
  <2>2. Logged'
    BY <2>1 DEF EInv, Logged, StopMeansComplete, LastStands, WaitingUnmarked, StartedOnce, StopsStand,
                Shown, Rearmed, Waiting, Unmarked, NoStart, Starts, Groups, Stoppable, Subtree
  <2>3. Ahead'
    <3>1. CASE StepComplete \/ Report
      <4>1. pc' \in {"report", "idle"}
        BY <3>1 DEF StepComplete, Report
      <4> QED BY <4>1 DEF Ahead, EnteringUnmarked, EventsAheadUnstarted, EventAhead,
                          ActsAheadUnstarted, ActAhead, FirstStarted, TopStarts
    <3>2. CASE UNCHANGED vars
      BY <3>2 DEF vars, EInv, Ahead, EnteringUnmarked, EventsAheadUnstarted, EventAhead, Unmarked,
                  ActsAheadUnstarted, ActAhead, FirstStarted, TopStarts, NoStart, Subtree, Events
    <3> QED BY <1>3, <3>1, <3>2
  <2>4. AllReported'
    <3>1. CASE StepComplete
      BY <3>1 DEF StepComplete, AllReported
    <3>2. CASE Report
      <4>1. SUFFICES ASSUME NEW m \in Nodes, log[m] # <<>>
                     PROVE  reports'[m] > 0 \/ Rearmed(m)'
        BY <2>1 DEF AllReported
      <4>2. CASE Rearmed(m)
        BY <2>1, <4>2 DEF Rearmed, Groups, Subtree
      <4>3. CASE Shown(m)
        <5>1. m \in Reported
          BY <4>3 DEF Shown, Reported
        <5>2. reports[m] \in 0 .. 2
          BY DEF IInv, TypeInv, TypeOK
        <5> QED BY <3>2, <5>1, <5>2 DEF Report
      <4> QED BY <4>1, <4>2, <4>3 DEF EInv, Logged, LastStands
    <3>3. CASE UNCHANGED vars
      BY <3>3 DEF vars, EInv, AllReported, Rearmed, Groups, Subtree
    <3> QED BY <1>3, <3>1, <3>2, <3>3
  <2> QED BY <2>2, <2>3, <2>4
<1> QED BY <1>1, <1>2, <1>3

LEMMA EInvNext ==
  ASSUME IInv, EInv, [Next]_vars
  PROVE  EInv'
<1>1. CursorKinds'
  BY CursorKindsNext DEF IInv, EInv
<1>2. Logged' /\ Ahead' /\ AllReported'
  BY HostKeeps, StoryboardStopKeepsAll, VisitKeeps DEF Next, Walk
<1> QED BY <1>1, <1>2 DEF EInv

LEMMA EInvInit == Init => EInv
<1> SUFFICES ASSUME Init PROVE EInv
  OBVIOUS
<1>1. pc = "idle" /\ \A m \in Nodes : node[m] = Fresh /\ log[m] = <<>>
  BY DEF Init
<1>2. \A m \in Nodes : Unmarked(m)
  BY <1>1 DEF Unmarked, Fresh
<1>3. /\ StopMeansComplete /\ EnteringUnmarked /\ FirstStarted /\ TopStarts /\ CursorKinds
  BY <1>1 DEF StopMeansComplete, EnteringUnmarked, FirstStarted, TopStarts, CursorKinds, Fresh
<1> QED BY <1>2, <1>3, FreshEvaluation DEF EInv, Logged, Ahead

\* The invariant of one evaluation holds of every storyboard.
LEMMA EvaluationInvariant == Spec => [](IInv /\ EInv)
<1>1. Init => IInv /\ EInv
  BY IInvInit, EInvInit
<1>2. IInv /\ EInv /\ [Next]_vars => IInv' /\ EInv'
  BY IInvNext, EInvNext
<1> QED BY <1>1, <1>2, PTL DEF Spec

---------------------------------------------------------------------------
(* What one evaluation promises.                                            *)

\* In no storyboard does an element start twice in one evaluation, whichever of
\* enter_running() and update() reaches it, however often groups are re-armed.
THEOREM StartsOnce == Spec => []OneStartPerEvaluation
<1>1. EInv => OneStartPerEvaluation
  <2> SUFFICES ASSUME EInv, NEW m \in Nodes
               PROVE  Starts(m) <= 1
    BY DEF OneStartPerEvaluation
  <2>1. NoStart(m) \/ Starts(m) = 1
    BY DEF EInv, Logged, StartedOnce
  <2>2. NoStart(m) => Starts(m) = 0
    <3>1. SUFFICES ASSUME NoStart(m), NEW i \in DOMAIN log[m], log[m][i] = "Start"
                   PROVE  FALSE
      BY DEF Starts, Count
    <3> QED BY <3>1 DEF NoStart
  <2> QED BY <2>1, <2>2
<1> QED BY <1>1, EvaluationInvariant, PTL

LEMMA NoStartsNone ==
  ASSUME TypeInv, NEW m \in Nodes
  PROVE  NoStart(m) <=> Starts(m) = 0
<1>1. log[m] \in Seq(Transitions)
  BY DEF TypeInv, TypeOK
<1> QED BY <1>1, CountNone DEF NoStart, Starts

\* In no storyboard does an element that its stop trigger, or the one of the
\* storyboard, stops have started anything below it in the same evaluation, but
\* in the evaluation that starts the storyboard.
THEOREM StopsBeforeStarts == Spec => []StopWinsAfterFirst
<1>1. IInv /\ EInv => StopWinsAfterFirst
  <2> SUFFICES ASSUME IInv, EInv, NEW n \in Stoppable,
                      node[n].stamped, node[n].transition = "Stop", ~ FirstEvaluation,
                      NEW m \in Subtree(n)
               PROVE  Starts(m) = 0
    BY DEF StopWinsAfterFirst
  <2>1. 1 \in Nodes /\ n \in Nodes /\ m \in Nodes /\ TypeInv
    <3>1. 1 \in Nodes
      BY TreeAssumption DEF Nodes
    <3> QED BY <3>1, SubtreeInTree DEF Stoppable, IInv
  <2>2. NoStart(1)
    BY <2>1 DEF EInv, Logged, StartedOnce, FirstEvaluation
  <2>3. NoStart(m)
    BY <2>2 DEF EInv, Logged, StopsStand
  <2> QED BY <2>1, <2>3, NoStartsNone
<1> QED BY <1>1, EvaluationInvariant, PTL

\* In every storyboard the report after an evaluation names each element that
\* took a transition in it, but those a group took back.
THEOREM EveryTransitionReported == Spec => []ReportedUnlessRearmed
<1>1. EInv => ReportedUnlessRearmed
  BY DEF EInv, AllReported, ReportedUnlessRearmed
<1> QED BY <1>1, EvaluationInvariant, PTL

\* In every storyboard a trigger that waits for a transition holds when the walk
\* comes to it after that transition, which is still the last, unless a group
\* took the element of the transition back.
THEOREM TransitionSeenWhenLast == Spec => []LastTransitionSeen
<1>1. EInv => LastTransitionSeen
  <2> SUFFICES ASSUME EInv, NEW t \in {"Start", "End", "Stop", "Skip"},
                      Awaits(cur, t), AwaitedLog # <<>>, AwaitedLog[Len(AwaitedLog)] = t,
                      ~ Rearmed(StartCondition[cur].ref)
               PROVE  StartHolds(cur)
    BY DEF LastTransitionSeen
  <2> DEFINE condition == StartCondition[cur]
             r == node[condition.ref]
  <2>1. /\ cur \in StartTriggered /\ condition.ref # 0 /\ cur \in Nodes
        /\ condition.query \in DOMAIN TransitionOf /\ TransitionOf[condition.query] = t
    BY ScenarioAssumption DEF Awaits
  <2>2. condition.ref \in Nodes
    <3>1. condition.ref \in 0 .. N /\ N \in Nat
      BY <2>1, ScenarioAssumption, TreeAssumption DEF Conditions
    <3> QED BY <2>1, <3>1 DEF Nodes
  <2>3. Shown(condition.ref)
    BY <2>2 DEF EInv, Logged, LastStands, AwaitedLog
  <2>4. r.transition = t /\ r.stamped
    BY <2>3 DEF Shown, AwaitedLog
  <2>5. ElementStateHolds(r, condition.query)
    BY <2>1, <2>4 DEF TransitionOf, ElementStateHolds
  <2> QED BY <2>1, <2>5 DEF StartHolds, TriggerValues
<1> QED BY <1>1, EvaluationInvariant, PTL

\* In every storyboard only a group that ends an execution with executions left
\* takes a completed element out of completeState.
THEOREM CompleteStaysFinal == Spec => CompleteIsFinal
<1>1. ASSUME IInv, EInv, [Next]_vars
      PROVE  [\A n \in Nodes :
                node[n].state = "Complete" =>
                  \/ node'[n].state = "Complete"
                  \/ pc = "idle"
                  \/ \E g \in Groups : n \in Subtree(g) \ {g} /\ Rearms(g)]_vars
  <2>1. CASE UNCHANGED node
    BY <2>1
  <2>2. CASE pc = "idle"
    BY <2>2
  <2>3. CASE \E n \in Nodes : Visit(n)
    <3>1. \E n \in Nodes : Marks(n)
      BY <1>1, <2>3, VisitSteps DEF Steps
    <3> QED BY <3>1 DEF Marks
  <2>4. CASE StoryboardStop
    <3>1. Marks(1)
      BY <1>1, <2>4, StoryboardStopSteps DEF EInv, Logged
    <3> QED BY <3>1 DEF Marks
  <2> QED BY <1>1, <2>1, <2>2, <2>3, <2>4
          DEF Next, Walk, Bind, Reset, Rebuild, BeginStep, StepComplete, Report, vars
<1> QED BY <1>1, EvaluationInvariant, PTL DEF Spec, CompleteIsFinal
=============================================================================
