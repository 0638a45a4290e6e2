------------------------------- MODULE MCDesk --------------------------------
(* Instances of Desk for TLC.                                              *)
EXTENDS Desk, MCPackStore, MCScenarioFiles

CONSTANTS l1, k1, k2, k3

\* In the first lab a second attack machine, which is the only one of the other.
McAttackMachines == [l \in Labs |-> IF l = l1 THEN <<k1, k2>> ELSE <<k2>>]
McWorkstations == [l \in Labs |-> IF l = l1 THEN <<k3>> ELSE <<>>]

DeskSymmetry == Symmetry \cup FilesSymmetry
=============================================================================
