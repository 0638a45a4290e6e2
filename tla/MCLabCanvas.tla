------------------------------ MODULE MCLabCanvas ------------------------------
(* A locked scenario with saved positions and an edge, and one of an older     *)
(* format that only lists its devices.                                         *)
EXTENDS LabCanvas

CONSTANTS d1, d2, x1, x2, x3, x4

Dev(kind, zone, host) == [kind |-> kind, zone |-> zone, host |-> host, typed |-> FALSE]

Placed ==
  [nodes |-> x1 :> [kind |-> "plc", zone |-> "ot"] @@ x2 :> [kind |-> "hmi", zone |-> "control"],
   devices |-> x1 :> Dev("plc", "ot", 10) @@ x2 :> Dev("hmi", "control", 10),
   edges |-> 0 :> [src |-> x1, dst |-> x2],
   sites |-> <<>>, locked |-> TRUE]

Listed ==
  [nodes |-> <<>>, devices |-> x3 :> Dev("plc", "ot", 10) @@ x4 :> Dev("attack-machine", "attacker", 10),
   edges |-> <<>>, sites |-> <<>>, locked |-> FALSE]

McTyped == {<<"ot", 10>>}
McPacks == {Placed}
Symmetry == Permutations(Ids)
McLibrary == {Placed, Listed}
================================================================================
