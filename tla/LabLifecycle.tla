---------------------------- MODULE LabLifecycle ----------------------------
(***************************************************************************)
(* What the toolbar promises its user: one lab at a time.  The scenario    *)
(* shown is the one that is started, the project held by the program only  *)
(* changes while a start is under way, what is shown as running is what is *)
(* held, and only Stop (or quitting) ends a run.                           *)
(***************************************************************************)
CONSTANTS Labs, NoLab

VARIABLES status,  \* idle, starting, running or stopping
          shown,   \* the scenario on the canvas
          lab      \* the project the program holds

Init == status = "idle" /\ shown = NoLab /\ lab = NoLab

\* While idle the user chooses what is shown.  lab may still be a project
\* whose stop has failed.
Choose == /\ status = "idle"
          /\ shown' \in Labs \cup {NoLab}
          /\ UNCHANGED <<status, lab>>

\* Run, or a saved session that is chosen and started at once.
Begin == /\ status = "idle"
         /\ shown' \in Labs
         /\ status' = "starting"
         /\ UNCHANGED lab

Claim == /\ status = "starting"
         /\ lab' \in {shown, NoLab}
         /\ UNCHANGED <<status, shown>>

Ready == /\ status = "starting" /\ lab = shown
         /\ status' = "running"
         /\ UNCHANGED <<shown, lab>>

GiveUp == /\ status = "starting"
          /\ status' = "idle"
          /\ UNCHANGED <<shown, lab>>

AskStop == /\ status = "running"
           /\ status' = "stopping"
           /\ UNCHANGED <<shown, lab>>

Release == /\ status = "stopping"
           /\ lab' = NoLab
           /\ UNCHANGED <<status, shown>>

Stopped == /\ status = "stopping"
           /\ status' = "idle"
           /\ UNCHANGED <<shown, lab>>

Quit == status' = "idle" /\ shown' = NoLab /\ lab' = NoLab

Next == Choose \/ Begin \/ Claim \/ Ready \/ GiveUp \/ AskStop \/ Release \/ Stopped \/ Quit

Spec == Init /\ [][Next]_<<status, shown, lab>>

=============================================================================
