---------------------------- MODULE Scheduler ----------------------------
(***************************************************************************)
(* The storyboard executor of Scena                                        *)
(* (core/src/runtime/scheduler.cpp): the element tree that bind() builds    *)
(* and the walk one step() makes over it.                                   *)
(*                                                                          *)
(* The elements are numbered 1..N in document order (preorder), so that     *)
(* the subtree of n is the interval n..Last[n], the first child of n is     *)
(* n + 1 and the next sibling of n is Last[n] + 1.  The recursion of        *)
(* step() over the tree is a cursor (pc, cur, top) that visits one element  *)
(* at a time; each visit is one action and changes everything the code      *)
(* changes between two recursive calls.                                     *)
(*                                                                          *)
(* Trigger values come either from a query on the state of an element, or,  *)
(* when the condition is not about the storyboard, from a free choice at    *)
(* each evaluation.  What the host answers to a fired action is a free      *)
(* choice among Outcomes.                                                   *)
(***************************************************************************)
EXTENDS Naturals, Sequences

CONSTANTS
  N,               \* number of elements of the bound storyboard
  Kind,            \* [1..N -> Kinds]
  Parent,          \* [1..N -> 0..N], 0 for the storyboard
  Last,            \* [1..N -> 1..N], last element of the subtree
  Priority,        \* [1..N -> Priorities], meaningful on events
  MaxExecutions,   \* [1..N -> Nat], meaningful on groups and events
  StartTriggered,  \* the acts and events that have a start trigger
  StopTriggered,   \* the storyboard and acts that have a stop trigger
  StartCondition,  \* [1..N -> Conditions], what the start trigger reads
  StopCondition,   \* [1..N -> Conditions], what the stop trigger reads
  Actions,         \* [1..N -> set of actions], empty but on events
  Outcomes         \* what firing an action may report

Nodes == 1 .. N
Kinds == {"Storyboard", "Story", "Act", "Group", "Maneuver", "Event"}
Priorities == {"Override", "Skip", "Parallel"}
States == {"Standby", "Running", "Complete"}
Transitions == {"None", "Start", "End", "Stop", "Skip"}
Queries == {"standbyState", "runningState", "completeState", "startTransition",
            "endTransition", "stopTransition", "skipTransition"}
Conditions == [ref : 0 .. N, query : Queries]   \* ref = 0: not about an element

ChildKind == [Storyboard |-> "Story", Story |-> "Act", Act |-> "Group",
              Group |-> "Maneuver", Maneuver |-> "Event", Event |-> "none"]

ASSUME TreeAssumption ==
  /\ N \in Nat \ {0}
  /\ Kind \in [Nodes -> Kinds]
  /\ Parent \in [Nodes -> 0 .. N]
  /\ Last \in [Nodes -> Nodes]
  /\ Parent[1] = 0 /\ Last[1] = N /\ Kind[1] = "Storyboard"
  /\ \A n \in Nodes : n <= Last[n]
  /\ \A n \in Nodes \ {1} :
       /\ Parent[n] \in Nodes /\ Parent[n] < n /\ Last[n] <= Last[Parent[n]]
       /\ Kind[n] = ChildKind[Kind[Parent[n]]]
       /\ Last[n] < Last[Parent[n]] => Parent[Last[n] + 1] = Parent[n]
  /\ \A n \in Nodes : n < Last[n] => Parent[n + 1] = n
  /\ \A n \in Nodes : \A m \in n + 1 .. Last[n] : n <= Parent[m] /\ Last[m] <= Last[n]
  /\ \A n \in Nodes : Kind[n] = "Event" => Last[n] = n

ASSUME ScenarioAssumption ==
  /\ Priority \in [Nodes -> Priorities]
  /\ MaxExecutions \in [Nodes -> Nat]
  /\ \A n \in StartTriggered : n \in Nodes /\ Kind[n] \in {"Act", "Event"}
  /\ \A n \in StopTriggered : n \in Nodes /\ Kind[n] \in {"Storyboard", "Act"}
  /\ StartCondition \in [Nodes -> Conditions]
  /\ StopCondition \in [Nodes -> Conditions]
  /\ DOMAIN Actions = Nodes
  /\ Outcomes \subseteq {"Complete", "Ongoing", "Running"}

VARIABLES
  bound,    \* bound_
  node,     \* the Node records of the tree
  pc,       \* where the walk is: see PCs
  cur,      \* the element the walk is at
  top,      \* the element update() or step() called enter_running on, or 0
  held,     \* host: per event, the actions it believes in progress
  log,      \* history: per element, its transitions in this evaluation
  reports   \* history: how often the last evaluation was reported, per element

code == <<bound, node>>
control == <<pc, cur, top>>
vars == <<bound, node, pc, cur, top, held, log, reports>>

\* "enter"/"entered": before and after the children in enter_running();
\* "walk"/"walked": before and after the children in update();
\* "stop": the check of the storyboard's stop trigger in step();
\* "report": step() returned, the host reads the transitions.
PCs == {"idle", "enter", "entered", "stop", "walk", "walked", "report"}

AllActions == UNION {Actions[n] : n \in Nodes}

NodeRecord ==
  [state : States, transition : Transitions, stamped : BOOLEAN, executions : Nat,
   running : SUBSET AllActions, ongoing : BOOLEAN]

TypeOK ==
  /\ bound \in BOOLEAN
  /\ node \in [Nodes -> NodeRecord]
  /\ pc \in PCs
  /\ cur \in Nodes
  /\ top \in 0 .. N
  /\ held \in [Nodes -> SUBSET AllActions]
  /\ log \in [Nodes -> Seq(Transitions)]
  /\ reports \in [Nodes -> 0 .. 2]

---------------------------------------------------------------------------
(* The tree.                                                               *)

Subtree(n) == n .. Last[n]
Children(n) == {c \in Nodes : Parent[c] = n}
Siblings(e) == {f \in Nodes : Parent[f] = Parent[e] /\ f # e}

\* mutant: one sibling too many.
HasSiblingOffByOne(n) == Last[n] <= Last[Parent[n]]
HasSibling(n) == Last[n] < Last[Parent[n]]

RunningSiblings(e) == {f \in Siblings(e) : node[f].state = "Running"}
AllChildrenComplete(n) == \A c \in Children(n) : node[c].state = "Complete"

---------------------------------------------------------------------------
(* What the code does to one Node.                                         *)

\* Node{}.
Fresh == [state |-> "Standby", transition |-> "None", stamped |-> FALSE,
          executions |-> 0, running |-> {}, ongoing |-> FALSE]

\* reset_subtree() on one descendant; mutant: its tally survives.
ResetKeepsTally(r) == [Fresh EXCEPT !.executions = r.executions]
ResetDescendant(r) == Fresh

\* mark_transition() with the state it goes with.
Mark(r, s, t) == [r EXCEPT !.state = s, !.transition = t, !.stamped = TRUE]

\* enter_running() on an element that is not an event.
Started(n, r) ==
  [Mark(r, "Running", "Start") EXCEPT
     !.executions = IF Kind[n] = "Group" THEN @ + 1 ELSE @]

\* end_execution(); mutant: the transition is not stamped.
EndExecutionUnstamped(e, r) ==
  [r EXCEPT !.transition = "End",
            !.state = IF r.executions >= MaxExecutions[e] THEN "Complete" ELSE "Standby"]
EndExecution(e, r) ==
  Mark(r, IF r.executions >= MaxExecutions[e] THEN "Complete" ELSE "Standby", "End")

\* apply_standby_exhaustion(); mutant: one execution too late.
StandbyExhaustionOffByOne(e, r) ==
  IF r.state = "Standby" /\ r.executions > MaxExecutions[e]
    THEN Mark(r, "Complete", "Skip") ELSE r
StandbyExhaustion(e, r) ==
  IF r.state = "Standby" /\ r.executions >= MaxExecutions[e]
    THEN Mark(r, "Complete", "Skip") ELSE r

\* A skipped start counts as an execution.
Skipped(r) == [Mark(r, "Standby", "Skip") EXCEPT !.executions = @ + 1]

\* stop_cascade() on one element; mutant: only runningState is left.
StoppedIfRunning(n, r) ==
  IF r.state # "Running" THEN r
  ELSE [Mark(r, "Complete", "Stop") EXCEPT
          !.executions = IF Kind[n] = "Event" THEN MaxExecutions[n] ELSE @,
          !.running = {}, !.ongoing = FALSE]
Stopped(n, r) ==
  [(IF r.state = "Complete" THEN r ELSE Mark(r, "Complete", "Stop")) EXCEPT
     !.executions = IF Kind[n] = "Event" THEN MaxExecutions[n] ELSE @,
     !.running = {}, !.ongoing = FALSE]

\* The event after its actions answered out: in runningState with the actions
\* still going, or straight through an endTransition.
Fired(e, r, out) ==
  LET s == [Mark(r, "Running", "Start") EXCEPT
              !.executions = @ + 1,
              !.running = {a \in Actions[e] : out[a] = "Running"},
              !.ongoing = \E a \in Actions[e] : out[a] = "Ongoing"]
  IN  IF s.running = {} /\ ~s.ongoing THEN EndExecution(e, s) ELSE s

\* progress_event(): keep the actions that still report Running.
Progressed(e, r, out) ==
  LET s == [r EXCEPT !.running = {a \in @ : out[a] = "Running"}]
  IN  IF s.running = {} /\ ~s.ongoing THEN EndExecution(e, s) ELSE s

\* element_state_holds().
ElementStateHolds(r, query) ==
  CASE query = "standbyState" -> r.state = "Standby"
    [] query = "runningState" -> r.state = "Running"
    [] query = "completeState" -> r.state = "Complete"
    [] query = "startTransition" -> r.transition = "Start" /\ r.stamped
    [] query = "endTransition" -> r.transition = "End" /\ r.stamped
    [] query = "stopTransition" -> r.transition = "Stop" /\ r.stamped
    [] OTHER -> r.transition = "Skip" /\ r.stamped

\* What evaluating the trigger may answer now.
TriggerValues(triggered, n, condition) ==
  IF n \notin triggered THEN {FALSE}
  ELSE IF condition.ref = 0 THEN BOOLEAN
  ELSE {ElementStateHolds(node[condition.ref], condition.query)}

StartHolds(n) == TRUE \in TriggerValues(StartTriggered, n, StartCondition[n])
StartFails(n) == FALSE \in TriggerValues(StartTriggered, n, StartCondition[n])
StopHolds(n) == TRUE \in TriggerValues(StopTriggered, n, StopCondition[n])
StopFails(n) == FALSE \in TriggerValues(StopTriggered, n, StopCondition[n])

---------------------------------------------------------------------------
(* Moving the cursor.                                                      *)

\* update() of n returned: go on in its parent's loop, or end step().
NextWalk(n) ==
  /\ top' = 0
  /\ IF n = 1 THEN pc' = "report" /\ cur' = 1
     ELSE IF HasSibling(n) THEN pc' = "walk" /\ cur' = Last[n] + 1
     ELSE pc' = "walked" /\ cur' = Parent[n]

\* update() goes into the children of n.
WalkChildren(n) ==
  /\ top' = 0
  /\ IF n < Last[n] THEN pc' = "walk" /\ cur' = n + 1
     ELSE pc' = "walked" /\ cur' = n

\* mutant: update() starts over on the element it has just started.
AfterEnterUpdatesAgain(n, s) ==
  IF n # top
    THEN /\ top' = top
         /\ IF HasSibling(n) THEN pc' = "enter" /\ cur' = Last[n] + 1
            ELSE pc' = "entered" /\ cur' = Parent[n]
  ELSE IF n = 1 THEN pc' = "stop" /\ cur' = 1 /\ top' = 0
  ELSE IF s = "Running" THEN pc' = "walk" /\ cur' = n /\ top' = 0
  ELSE NextWalk(n)

\* enter_running() of n returned and left n in state s: back to the loop of
\* the parent's enter_running(), or to update() or step() that called it.
AfterEnter(n, s) ==
  IF n # top
    THEN /\ top' = top
         /\ IF HasSibling(n) THEN pc' = "enter" /\ cur' = Last[n] + 1
            ELSE pc' = "entered" /\ cur' = Parent[n]
  ELSE IF n = 1 THEN pc' = "stop" /\ cur' = 1 /\ top' = 0
  ELSE IF s = "Running" THEN WalkChildren(n)
  ELSE NextWalk(n)

---------------------------------------------------------------------------
(* What the code does to the tree.                                         *)

\* One element takes transition t.
TakesTransition(n, t) == log' = [log EXCEPT ![n] = Append(@, t)]

\* The actions the host still holds for n after StopCallback named those
\* running; mutant: they were cleared before they were named.
ReleasedNothing(n) == held[n]
Released(n) == held[n] \ node[n].running

\* stop_cascade() on the elements of S (closed under children): the host
\* hears of the running actions of each of them that was not complete.
StopCascade(S) ==
  /\ node' = [n \in Nodes |-> IF n \in S THEN Stopped(n, node[n]) ELSE node[n]]
  /\ held' = [n \in Nodes |-> IF n \in S THEN Released(n) ELSE held[n]]
  /\ log' = [n \in Nodes |-> IF n \in S /\ node[n].state # "Complete"
                              THEN Append(log[n], "Stop") ELSE log[n]]

\* end_group_execution_or_complete() with reset_subtree().
Completes(n) == Kind[n] # "Group" \/ node[n].executions >= MaxExecutions[n]
EndGroupExecutionOrComplete(n) ==
  /\ node' = IF Completes(n) THEN [node EXCEPT ![n] = Mark(@, "Complete", "End")]
             ELSE [m \in Nodes |-> IF m = n THEN Mark(node[n], "Standby", "End")
                                   ELSE IF m \in Subtree(n) THEN ResetDescendant(node[m])
                                   ELSE node[m]]
  /\ TakesTransition(n, "End")
  /\ UNCHANGED held

\* The events stopped by the start of e; mutant: only the siblings before it.
OverriddenBefore(e) == IF Priority[e] = "Override" THEN {f \in RunningSiblings(e) : f < e} ELSE {}
Overridden(e) == IF Priority[e] = "Override" THEN RunningSiblings(e) ELSE {}

\* enter_running() of event e whose actions answer out, after stop_cascade()
\* of the siblings it overrides.
EnterEvent(e, out) ==
  LET fired == Fired(e, node[e], out)
      S == Overridden(e)
  IN  /\ node' = [n \in Nodes |-> IF n = e THEN fired
                                  ELSE IF n \in S THEN Stopped(n, node[n])
                                  ELSE node[n]]
      /\ held' = [n \in Nodes |-> IF n = e THEN {a \in Actions[e] : out[a] # "Complete"}
                                  ELSE IF n \in S THEN Released(n)
                                  ELSE held[n]]
      /\ log' = [n \in Nodes |->
                   IF n = e THEN LET started == Append(log[e], "Start") IN
                                 IF fired.state = "Running" THEN started
                                 ELSE Append(started, "End")
                   ELSE IF n \in S THEN Append(log[n], "Stop")
                   ELSE log[n]]

\* start_event() that does not start e: its executions are exhausted, it is
\* not in standbyState, or it skips because a sibling runs.
Exhausted(e) == node[e].state = "Standby" /\ node[e].executions >= MaxExecutions[e]
Skips(e) == Priority[e] = "Skip" /\ RunningSiblings(e) # {}

ExhaustEvent(e) ==
  /\ node' = [node EXCEPT ![e] = StandbyExhaustion(e, @)]
  /\ IF Exhausted(e) THEN TakesTransition(e, "Skip") ELSE UNCHANGED log
  /\ UNCHANGED held

SkipEvent(e) ==
  /\ node' = [node EXCEPT ![e] = StandbyExhaustion(e, Skipped(@))]
  /\ TakesTransition(e, "Skip")
  /\ UNCHANGED held

StartEvent(e) ==
  IF node[e].state # "Standby" \/ Exhausted(e) THEN ExhaustEvent(e)
  ELSE IF Skips(e) THEN SkipEvent(e)
  ELSE \E out \in [Actions[e] -> Outcomes] : EnterEvent(e, out)

---------------------------------------------------------------------------
(* Operations of the host.                                                 *)

Init ==
  /\ bound = FALSE
  /\ node = [n \in Nodes |-> Fresh]
  /\ pc = "idle" /\ cur = 1 /\ top = 0
  /\ held = [n \in Nodes |-> {}]
  /\ log = [n \in Nodes |-> <<>>]
  /\ reports = [n \in Nodes |-> 0]

\* bind() and reset(): the tree is built anew or dropped.  No StopCallback
\* runs; the host drops its own bookkeeping (Engine::close does).
Rebuild ==
  /\ pc = "idle"
  /\ node' = [n \in Nodes |-> Fresh]
  /\ held' = [n \in Nodes |-> {}]
  /\ log' = [n \in Nodes |-> <<>>]
  /\ reports' = [n \in Nodes |-> 0]
  /\ UNCHANGED control
Bind == Rebuild /\ bound' = TRUE
Reset == Rebuild /\ bound' = FALSE

\* step() up to the storyboard's stop trigger: a new evaluation, in which no
\* transition has been taken, and the storyboard starts if it is the first.
BeginStep ==
  /\ pc = "idle" /\ bound /\ node[1].state # "Complete"
  /\ node' = [n \in Nodes |-> [node[n] EXCEPT !.stamped = FALSE]]
  /\ log' = [n \in Nodes |-> <<>>]
  /\ reports' = [n \in Nodes |-> 0]
  /\ cur' = 1
  /\ IF node[1].state = "Standby" THEN pc' = "enter" /\ top' = 1
     ELSE pc' = "stop" /\ top' = 0
  /\ UNCHANGED <<bound, held>>

\* step() of a completed storyboard: it returns before the evaluation counter
\* moves, and the host reads the transitions as after any step.
StepComplete ==
  /\ pc = "idle" /\ bound /\ node[1].state = "Complete"
  /\ pc' = "report"
  /\ UNCHANGED <<bound, node, cur, top, held, log, reports>>

\* for_each_transition(): the elements stamped with the current evaluation.
Reported == {n \in Nodes : node[n].transition # "None" /\ node[n].stamped}
Report ==
  /\ pc = "report"
  /\ reports' = [n \in Nodes |-> IF n \in Reported /\ reports[n] < 2
                                  THEN reports[n] + 1 ELSE reports[n]]
  /\ pc' = "idle" /\ cur' = 1
  /\ UNCHANGED <<bound, node, top, held, log>>

---------------------------------------------------------------------------
(* The steps of the walk.                                                  *)

StoryboardStop ==
  /\ pc = "stop"
  /\ \/ /\ StopHolds(1)
        /\ StopCascade(Nodes)
        /\ pc' = "report"
     \/ /\ StopFails(1)
        /\ pc' = "walk"
        /\ UNCHANGED <<node, held, log>>
  /\ UNCHANGED <<bound, cur, top, reports>>

\* A child with a start trigger waits for it in standbyState; an event that
\* has no executions left for it completes.
EnterWaiting(n) ==
  /\ pc = "enter" /\ cur = n
  /\ n # top /\ n \in StartTriggered
  /\ IF Kind[n] = "Event" THEN ExhaustEvent(n) ELSE UNCHANGED <<node, held, log>>
  /\ AfterEnter(n, node[n].state)
  /\ UNCHANGED <<bound, reports>>

EnterExhaustedGroup(n) ==
  /\ pc = "enter" /\ cur = n
  /\ Kind[n] = "Group" /\ node[n].executions >= MaxExecutions[n]
  /\ node' = [node EXCEPT ![n] = Mark(@, "Complete", "End")]
  /\ TakesTransition(n, "End")
  /\ AfterEnter(n, "Complete")
  /\ UNCHANGED <<bound, held, reports>>

EnterElement(n) ==
  /\ pc = "enter" /\ cur = n
  /\ Kind[n] # "Event"
  /\ n = top \/ n \notin StartTriggered
  /\ Kind[n] = "Group" => node[n].executions < MaxExecutions[n]
  /\ node' = [node EXCEPT ![n] = Started(n, @)]
  /\ TakesTransition(n, "Start")
  /\ IF n < Last[n] THEN pc' = "enter" /\ cur' = n + 1
     ELSE pc' = "entered" /\ cur' = n
  /\ UNCHANGED <<bound, top, held, reports>>

EnterEventOfManeuver(n) ==
  /\ pc = "enter" /\ cur = n
  /\ Kind[n] = "Event" /\ n \notin StartTriggered
  /\ StartEvent(n)
  /\ AfterEnter(n, node'[n].state)
  /\ UNCHANGED <<bound, reports>>

\* The end of enter_running(): children may already have completed.
Entered(n) ==
  /\ pc = "entered" /\ cur = n
  /\ IF Kind[n] # "Storyboard" /\ AllChildrenComplete(n)
       THEN EndGroupExecutionOrComplete(n) ELSE UNCHANGED <<node, held, log>>
  /\ AfterEnter(n, node'[n].state)
  /\ UNCHANGED <<bound, reports>>

\* update() returns at once from a completed element.
UpdateComplete(n) ==
  /\ pc = "walk" /\ cur = n
  /\ node[n].state = "Complete"
  /\ NextWalk(n)
  /\ UNCHANGED <<bound, node, held, log, reports>>

\* update(): the element's own stop trigger, before anything else of it.
UpdateStop(n) ==
  /\ pc = "walk" /\ cur = n
  /\ Kind[n] # "Event" /\ node[n].state # "Complete"
  /\ StopHolds(n)
  /\ StopCascade(Subtree(n))
  /\ NextWalk(n)
  /\ UNCHANGED <<bound, reports>>

\* A group inherits the act's start trigger, which has fired; it starts unless
\* it took a transition in this evaluation.
InheritedStart(n) == Kind[n] = "Group"

\* mutant: the group starts again in the evaluation that re-armed it.
MayStartAlways(n) == TRUE
MayStart(n) == ~node[n].stamped

UpdateWait(n) ==
  /\ pc = "walk" /\ cur = n
  /\ Kind[n] # "Event" /\ node[n].state = "Standby"
  /\ StopFails(n)
  /\ IF InheritedStart(n) THEN ~MayStart(n) ELSE StartFails(n)
  /\ NextWalk(n)
  /\ UNCHANGED <<bound, node, held, log, reports>>

\* mutant: update() does not return from a completed element.
UpdateStartAgain(n) ==
  /\ pc = "walk" /\ cur = n
  /\ Kind[n] # "Event" /\ node[n].state # "Running"
  /\ StopFails(n)
  /\ IF InheritedStart(n) THEN MayStart(n) ELSE StartHolds(n)
  /\ pc' = "enter" /\ top' = n
  /\ UNCHANGED <<bound, node, cur, held, log, reports>>

UpdateStart(n) ==
  /\ pc = "walk" /\ cur = n
  /\ Kind[n] # "Event" /\ node[n].state = "Standby"
  /\ StopFails(n)
  /\ IF InheritedStart(n) THEN MayStart(n) ELSE StartHolds(n)
  /\ pc' = "enter" /\ top' = n
  /\ UNCHANGED <<bound, node, cur, held, log, reports>>

UpdateRunning(n) ==
  /\ pc = "walk" /\ cur = n
  /\ Kind[n] # "Event" /\ node[n].state = "Running"
  /\ StopFails(n)
  /\ WalkChildren(n)
  /\ UNCHANGED <<bound, node, held, log, reports>>

\* update_maneuver() on a running event: poll its actions, unless the event
\* started in this evaluation or has nothing to poll.
StartedThisStep(e) == node[e].transition = "Start" /\ node[e].stamped
UpdateRunningEvent(e) ==
  /\ pc = "walk" /\ cur = e
  /\ Kind[e] = "Event" /\ node[e].state = "Running"
  /\ StartedThisStep(e) \/ node[e].running = {}
  /\ NextWalk(e)
  /\ UNCHANGED <<bound, node, held, log, reports>>

ProgressWith(e, out) ==
  /\ pc = "walk" /\ cur = e
  /\ Kind[e] = "Event" /\ node[e].state = "Running"
  /\ ~StartedThisStep(e) /\ node[e].running # {}
  /\ node' = [node EXCEPT ![e] = Progressed(e, @, out)]
  /\ held' = [held EXCEPT ![e] = @ \ {a \in node[e].running : out[a] = "Complete"}]
  /\ IF node'[e].state = "Running" THEN UNCHANGED log ELSE TakesTransition(e, "End")
  /\ NextWalk(e)
  /\ UNCHANGED <<bound, reports>>
ProgressEvent(e) == \E out \in [node[e].running -> Outcomes] : ProgressWith(e, out)

\* update_maneuver() on an event that waits for its trigger.
UpdateWaitingEvent(e) ==
  /\ pc = "walk" /\ cur = e
  /\ Kind[e] = "Event" /\ node[e].state = "Standby"
  /\ StartFails(e)
  /\ NextWalk(e)
  /\ UNCHANGED <<bound, node, held, log, reports>>

UpdateTriggeredEvent(e) ==
  /\ pc = "walk" /\ cur = e
  /\ Kind[e] = "Event" /\ node[e].state = "Standby"
  /\ StartHolds(e)
  /\ StartEvent(e)
  /\ NextWalk(e)
  /\ UNCHANGED <<bound, reports>>

\* The end of update(): children may have completed.
Updated(n) ==
  /\ pc = "walked" /\ cur = n
  /\ IF Kind[n] # "Storyboard" /\ AllChildrenComplete(n)
       THEN EndGroupExecutionOrComplete(n) ELSE UNCHANGED <<node, held, log>>
  /\ NextWalk(n)
  /\ UNCHANGED <<bound, reports>>

Visit(n) ==
  \/ EnterWaiting(n) \/ EnterExhaustedGroup(n) \/ EnterElement(n)
  \/ EnterEventOfManeuver(n) \/ Entered(n)
  \/ UpdateComplete(n) \/ UpdateStop(n) \/ UpdateWait(n) \/ UpdateStart(n)
  \/ UpdateRunning(n) \/ UpdateRunningEvent(n) \/ ProgressEvent(n)
  \/ UpdateWaitingEvent(n) \/ UpdateTriggeredEvent(n) \/ Updated(n)

\* What step() does once called, up to its return and the report.
Walk == StoryboardStop \/ Report \/ \E n \in Nodes : Visit(n)

Next == Bind \/ Reset \/ BeginStep \/ StepComplete \/ Walk

Spec == Init /\ [][Next]_vars
=============================================================================
