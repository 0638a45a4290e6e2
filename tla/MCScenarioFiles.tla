--------------------------- MODULE MCScenarioFiles ---------------------------
(* A tutorial on disk, a pack with a scenario, a saved session.            *)
EXTENDS ScenarioFiles, TLC

CONSTANTS tutorial, community, session

Authored(w) == [work |-> w, devices |-> 1, security |-> "full", locked |-> FALSE]
McTutorial == Authored(tutorial)
McCommunity == {Authored(community), [Authored(community) EXCEPT !.devices = 21]}
McSaved == {Authored(session)}
FilesSymmetry == Permutations(Slots) \cup Permutations(Works)
=============================================================================
