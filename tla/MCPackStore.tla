----------------------------- MODULE MCPackStore -----------------------------
(* Instances of PackStore for TLC.                                         *)
EXTENDS PackStore, TLC

CONSTANTS v1, v2, json, rules

\* Version 1 has a part that version 2 lacks.
MCContent == (v1 :> {json, rules}) @@ (v2 :> {json})

Symmetry == Permutations(Packs) \cup Permutations(Calls)

=============================================================================
