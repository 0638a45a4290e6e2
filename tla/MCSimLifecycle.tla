--------------------------- MODULE MCSimLifecycle ---------------------------
(* Instances of SimLifecycle for TLC.                                      *)
EXTENDS SimLifecycle, TLC

\* Slots, projects and services are interchangeable.  For safety runs only.
Symmetry == Permutations(Calls) \cup Permutations(Projects) \cup Permutations(Services)

=============================================================================
