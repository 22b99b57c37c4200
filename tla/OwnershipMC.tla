---------------------------- MODULE OwnershipMC ----------------------------
(***************************************************************************)
(* Instances of Ownership for TLC: two entities and a storyboard of events  *)
(* that compete for them.                                                   *)
(***************************************************************************)
EXTENDS Ownership, TLC

CONSTANTS c1, c2, a1, a2, a3, a4, a5, a6, a7, a8, a9, a10, a11   \* entities, actions

Motion(kind, actor, ref) ==
  [kind |-> kind, actor |-> actor, ref |-> ref, step |-> FALSE,
   lateral |-> "keep", longitudinal |-> "keep"]
Stepped(kind, actor) == [Motion(kind, actor, None) EXCEPT !.step = TRUE]
Switch(actor, lateral, longitudinal) ==
  [Motion("controller", actor, None) EXCEPT !.lateral = lateral, !.longitudinal = longitudinal]

\* TLC evaluates a definition once, but one that replaces a constant at each use:
\* the latter are names for the former.

---------------------------------------------------------------------------
(* A bulk speed, a continuous speed and a timed trajectory compete for the   *)
(* longitudinal domain of c1, the trajectory, a bulk offset and a lane change *)
(* for its lateral one, a speed and an offset of the Step shape come between, *)
(* and a controller action takes both domains from the engine;                *)
(* c2 is controlled by the host, so no integrate phase ever reaches it.        *)

ConflictActions ==
  (a1 :> Motion("speed", c1, None)) @@ (a2 :> Motion("speed", c2, None))
  @@ (a3 :> Motion("continuousSpeed", c1, c2))
  @@ (a4 :> Motion("timedTrajectory", c1, None))
  @@ (a5 :> Motion("continuousOffset", c1, None)) @@ (a6 :> Motion("continuousOffset", c2, None))
  @@ (a7 :> Stepped("speed", c1))
  @@ (a8 :> Motion("lateralDistance", c2, c1)) @@ (a9 :> Motion("laneChange", c1, c2))
  @@ (a10 :> Switch(c1, "off", "off")) @@ (a11 :> Stepped("laneOffset", c1))
ConflictGroups == [a \in {a1, a2, a3, a4, a5, a6, a7, a8, a9, a10, a11} |->
                   CASE a \in {a1, a2} -> 1 [] a \in {a5, a6} -> 2 [] OTHER -> 0]
ConflictEvents == <<<<a1, a2, a7, a11>>, <<a3>>, <<a4>>, <<a5, a6>>, <<a8, a9>>, <<a10>>>>
ConflictDo == ConflictActions
ConflictBulk == ConflictGroups
ConflictScript == ConflictEvents

(* The driven entity and its reference leave the scenario and come back.     *)

LeavingActions ==
  (a1 :> Motion("distance", c1, c2)) @@ (a2 :> Motion("laneOffset", c1, c2))
  @@ (a3 :> Motion("trajectory", c1, None)) @@ (a4 :> Motion("speed", c1, None))
  @@ (a5 :> Motion("delete", c1, None)) @@ (a6 :> Motion("add", c1, None))
  @@ (a7 :> Motion("delete", c2, None)) @@ (a8 :> Switch(c1, "off", "on"))
  @@ (a9 :> Motion("continuousSpeed", c2, c1))
LeavingGroups == [a \in {a1, a2, a3, a4, a5, a6, a7, a8, a9} |-> 0]
LeavingEvents == <<<<a1, a2>>, <<a3>>, <<a4, a9>>, <<a5>>, <<a6, a8>>, <<a7>>>>
LeavingDo == LeavingActions
LeavingBulk == LeavingGroups
LeavingScript == LeavingEvents
=============================================================================
