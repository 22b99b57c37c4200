---------------------------- MODULE SchedulerMC ----------------------------
(***************************************************************************)
(* Instances of Scheduler for TLC.  A storyboard is given by the kinds of   *)
(* its elements in document order; each kind has its depth, from which the  *)
(* parents and the subtrees follow.                                         *)
(***************************************************************************)
EXTENDS SchedulerProperties

CONSTANTS a1, a2, a3, a4   \* actions

Depth == [Storyboard |-> 0, Story |-> 1, Act |-> 2, Group |-> 3, Maneuver |-> 4, Event |-> 5]
DepthOf(n) == Depth[Kind[n]]
MCParent ==
  [n \in Nodes |->
     IF n = 1 THEN 0
     ELSE CHOOSE m \in 1 .. n - 1 :
            /\ DepthOf(m) = DepthOf(n) - 1
            /\ \A k \in m + 1 .. n - 1 : DepthOf(k) # DepthOf(m)]
MCLast ==
  [n \in Nodes |->
     CHOOSE m \in n .. N :
       /\ \A k \in n + 1 .. m : DepthOf(k) > DepthOf(n)
       /\ m = N \/ DepthOf(m + 1) <= DepthOf(n)]

Free == [ref |-> 0, query |-> "standbyState"]
AllFree == [n \in Nodes |-> Free]
Numbered(f, default) == [n \in Nodes |-> IF n \in DOMAIN f THEN f[n] ELSE default]

---------------------------------------------------------------------------
(* Two acts: the first starts with the storyboard and holds an empty group,  *)
(* a group that never executes and one that executes twice; the second has   *)
(* both triggers, and in a group executed twice an event of each priority: the *)
(* override waits for the end of an event of the first act.                    *)

ActsKind == <<"Storyboard", "Story",
              "Act", "Group", "Group", "Maneuver", "Event", "Group", "Maneuver", "Event",
              "Act", "Group", "Maneuver", "Event", "Event", "Event">>
ActsPriority == [n \in 1 .. 16 |-> CASE n = 14 -> "Override" [] n = 15 -> "Skip"
                                     [] OTHER -> "Parallel"]
ActsMax == <<0, 0, 0, 1, 0, 0, 1, 2, 0, 1, 0, 2, 0, 1, 2, 1>>
ActsStart == {11, 14, 15}
ActsStop == {1, 3, 11}
ActsCondition ==
  [n \in 1 .. 16 |-> IF n = 14 THEN [ref |-> 10, query |-> "endTransition"] ELSE Free]
ActsActions == [n \in 1 .. 16 |-> CASE n = 7 -> {a3} [] n = 10 -> {a1} [] n = 14 -> {a2}
                                    [] n = 15 -> {a3} [] n = 16 -> {a4} [] OTHER -> {}]

(* A chain on element states, for liveness: the second act waits for the    *)
(* first to complete; in its group, executed twice, a parallel event starts   *)
(* with the maneuver and an override and a skip event find their trigger      *)
(* already holding.                                                            *)

ChainKind == <<"Storyboard", "Story", "Act", "Group", "Maneuver", "Event",
               "Act", "Group", "Maneuver", "Event", "Event", "Event">>
ChainPriority == [n \in 1 .. 12 |-> CASE n = 11 -> "Override" [] n = 12 -> "Skip"
                                      [] OTHER -> "Parallel"]
ChainMax == <<0, 0, 0, 2, 0, 1, 0, 2, 0, 1, 1, 2>>
ChainStart == {7, 11, 12}
ChainCondition ==
  [n \in 1 .. 12 |-> CASE n = 7 -> [ref |-> 3, query |-> "completeState"]
                       [] n \in {11, 12} -> [ref |-> 6, query |-> "completeState"]
                       [] OTHER -> Free]
ChainActions == [n \in 1 .. 12 |-> CASE n = 6 -> {a1} [] n = 10 -> {a2} [] n = 11 -> {a3}
                                     [] n = 12 -> {a4} [] OTHER -> {}]
=============================================================================
