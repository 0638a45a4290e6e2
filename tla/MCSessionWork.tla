---------------------------- MODULE MCSessionWork ----------------------------
(* Instances of SessionWork for TLC.                                       *)
EXTENDS SessionWork, TLC

\* For safety runs only.
Symmetry == Permutations(Tasks) \cup Permutations(Projects)

=============================================================================
