---------------------------- MODULE MCTerminalViews ----------------------------
(* Symmetries of TerminalViews for TLC.                                       *)
EXTENDS TerminalViews, TLC

Symmetry == Permutations(Shells) \cup Permutations(Windows)

=============================================================================
