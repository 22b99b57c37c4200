----------------------- MODULE SchedulerProperties -----------------------
(***************************************************************************)
(* What the storyboard executor promises: the invariants, action           *)
(* properties and liveness properties of Scheduler.                         *)
(***************************************************************************)
EXTENDS Scheduler

Groups == {n \in Nodes : Kind[n] = "Group"}
Events == {n \in Nodes : Kind[n] = "Event"}
Stoppable == {n \in Nodes : Kind[n] \in {"Storyboard", "Act"}}
Count(t, s) == LET hits == {i \in DOMAIN s : s[i] = t}
               IN  IF hits = {} THEN 0 ELSE IF \E i, j \in hits : i # j THEN 2 ELSE 1
Starts(n) == Count("Start", log[n])
FirstEvaluation == Starts(1) = 1

---------------------------------------------------------------------------
(* Parents and children.                                                   *)

\* A running element has a running parent: no stop, regular end or re-arming
\* leaves an element executing below one that is not.
RunningUnderRunning ==
  \A n \in Nodes \ {1} : node[n].state = "Running" => node[Parent[n]].state = "Running"

\* Nothing below an element in standbyState has left standbyState: a group
\* that waits to execute again has taken its whole subtree back with it.
StandbyBelowStandby ==
  \A n \in Nodes \ {1} : node[Parent[n]].state = "Standby" => node[n].state = "Standby"

\* Below a completed element everything is complete, but for a group that may
\* execute zero times: it completes over children that never leave
\* standbyState.
CompleteBelowComplete ==
  \A n \in Nodes \ {1} :
    /\ node[Parent[n]].state = "Complete" /\ node[n].state # "Complete"
    => Kind[Parent[n]] = "Group" /\ MaxExecutions[Parent[n]] = 0

\* The state of the tree is coherent between any two visits of the walk.
TreeCoherent == RunningUnderRunning /\ StandbyBelowStandby /\ CompleteBelowComplete

\* ADR-0026: the executions of a ManeuverGroup are independent.  Every element
\* below a group that waits to execute is as bind() made it, so no tally,
\* running action or pulse of one execution reaches the next.
RearmedIsFresh ==
  \A g \in Groups : node[g].state = "Standby" =>
    \A m \in Subtree(g) \ {g} : node[m] = Fresh

---------------------------------------------------------------------------
(* Events of one maneuver.                                                 *)

\* 8.4.2.2: of two events that run together in a maneuver one has priority
\* parallel; an override or skip event never ends up beside another one.
ExclusiveScope ==
  \A e, f \in Events :
    /\ e # f /\ Parent[e] = Parent[f]
    /\ node[e].state = "Running" /\ node[f].state = "Running"
    => Priority[e] = "Parallel" \/ Priority[f] = "Parallel"

\* With a host that never reports Ongoing (the engine does not), the actions
\* the host believes in progress are those the scheduler polls: none is lost
\* by a stop, an override or a re-armed group, and none outlives its event.
HeldIsPolled ==
  \A e \in Nodes : held[e] = node[e].running /\ (held[e] # {} => node[e].state = "Running")

---------------------------------------------------------------------------
(* One evaluation.                                                         *)

\* No element starts twice in one evaluation, whether the parent's start or the
\* walk reaches it first (the guard on the group's own transition in update()).
OneStartPerEvaluation == \A n \in Nodes : Starts(n) <= 1

\* Stop wins over start: after the first evaluation, an element with a stop
\* trigger that stops has started nothing in its subtree in that evaluation.
StopWinsAfterFirst ==
  \A n \in Stoppable :
    /\ node[n].stamped /\ node[n].transition = "Stop" /\ ~FirstEvaluation
    => \A m \in Subtree(n) : Starts(m) = 0

\* A completed element stays complete until bind() or reset() rebuilds the tree
\* or a group above it ends an execution with executions left.
Rearms(n) == node[n].state = "Running" /\ node'[n].state = "Standby"
CompleteIsFinal ==
  [][\A n \in Nodes :
       node[n].state = "Complete" =>
         \/ node'[n].state = "Complete"
         \/ pc = "idle"
         \/ \E g \in Groups : n \in Subtree(g) \ {g} /\ Rearms(g)]_vars

\* A group above n ended an execution in this evaluation and took n back.
Rearmed(n) ==
  \E g \in Groups : n \in Subtree(g) \ {g} /\ node[g].stamped /\ node[g].state = "Standby"

\* Every transition of the last evaluation is reported to the host, but those
\* of elements that a group re-armed in the same evaluation took back.
ReportedUnlessRearmed ==
  pc = "idle" =>
    \A n \in Nodes : log[n] # <<>> /\ reports[n] = 0 =>
      Rearmed(n)

\* conditions.md: a transition is observable within its evaluation by the
\* elements evaluated after the one that transitions.  Whenever the walk is at
\* an element that waits for a transition another one has taken last in this
\* evaluation, its trigger holds, unless a group took that element back.
TransitionOf == [startTransition |-> "Start", endTransition |-> "End",
                 stopTransition |-> "Stop", skipTransition |-> "Skip"]
Awaits(n, t) ==
  /\ n \in StartTriggered /\ StartCondition[n].ref # 0
  /\ StartCondition[n].query \in DOMAIN TransitionOf
  /\ TransitionOf[StartCondition[n].query] = t
AwaitedLog == log[StartCondition[cur].ref]
LastTransitionSeen ==
  pc = "walk" /\ node[cur].state = "Standby" =>
    \A t \in {"Start", "End", "Stop", "Skip"} :
      Awaits(cur, t) /\ AwaitedLog # <<>> /\ AwaitedLog[Len(AwaitedLog)] = t =>
        StartHolds(cur) \/ Rearmed(StartCondition[cur].ref)

---------------------------------------------------------------------------
(* Liveness.                                                               *)

\* The host keeps stepping and does not unbind, step() returns, and an action
\* with transition dynamics that is polled again and again completes at last.
Completing(e) == ProgressWith(e, [a \in node[e].running |-> "Complete"])
Fairness ==
  /\ WF_vars(BeginStep)
  /\ WF_vars(Walk)
  /\ \A e \in Events : SF_vars(Completing(e))
Stepping == BeginStep \/ StepComplete \/ Walk
BoundInit ==
  /\ bound = TRUE
  /\ node = [n \in Nodes |-> Fresh]
  /\ pc = "idle" /\ cur = 1 /\ top = 0
  /\ held = [n \in Nodes |-> {}]
  /\ log = [n \in Nodes |-> <<>>]
  /\ reports = [n \in Nodes |-> 0]
FairSpec == BoundInit /\ [][Stepping]_vars /\ Fairness

\* In a storyboard where every trigger comes true by itself, every act
\* completes: neither priorities, skips, re-armed groups nor the order of the
\* walk leave an element waiting for ever.
ActsComplete ==
  \A a \in {n \in Nodes : Kind[n] = "Act"} : <>(node[a].state = "Complete")
=============================================================================
