--------------------------- MODULE MCEpisodeClock ---------------------------
(* Instances of EpisodeClock for TLC.                                      *)
EXTENDS EpisodeClock, TLC

\* For safety runs only.
Symmetry == Permutations(Callers)

=============================================================================
