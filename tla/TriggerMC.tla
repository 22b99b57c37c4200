----------------------------- MODULE TriggerMC -----------------------------
(***************************************************************************)
(* Instances of Trigger for TLC.                                           *)
(***************************************************************************)
EXTENDS Trigger

CONSTANTS rise, level, change, hold   \* conditions

\* An event starts on (rise, delayed, AND level) OR (change), the
\* storyboard stops on a delayed level.
EventGroups == [start |-> {{rise, level}, {change}}, stop |-> {{hold}}]
EventEdge == [c \in Conds |-> CASE c = rise -> "Rising" [] c = change -> "RisingOrFalling"
                                [] OTHER -> "None"]
EventDelay == [c \in Conds |-> CASE c = rise -> 2 [] c = hold -> 1 [] OTHER -> 0]

\* The storyboard stops on a delayed rising edge.
StopGroups == [stop |-> {{rise}}]
StopEdge == [c \in Conds |-> "Rising"]
StopDelay == [c \in Conds |-> 1]
=============================================================================
