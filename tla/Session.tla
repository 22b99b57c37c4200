------------------------------- MODULE Session -------------------------------
(***************************************************************************)
(* What a handle promises the host that authors a scenario and runs it: the  *)
(* scenario that runs is the one that was authored when the run started,     *)
(* whatever is authored, loaded or refused meanwhile; its clock starts at    *)
(* zero and never goes back; and one run ends before the next one starts.     *)
(***************************************************************************)
EXTENDS Integers

VARIABLES
  authored,   \* the scenario under construction
  running,    \* the scenario that runs: a set of one, or of none between two runs
  clock       \* the simulation time

Init == running = {} /\ clock = 0

\* A builder call, or a document that is loaded and not started.
Edit == UNCHANGED <<running, clock>>
\* init, or a document that is loaded and started.
Start == running = {} /\ running' = {authored'} /\ clock' = 0
Tick == running # {} /\ clock' >= clock /\ UNCHANGED <<authored, running>>
Stop == running # {} /\ running' = {} /\ clock' = 0 /\ UNCHANGED authored

Next == Edit \/ Start \/ Tick \/ Stop
Spec == Init /\ [][Next]_<<authored, running, clock>>
=============================================================================
