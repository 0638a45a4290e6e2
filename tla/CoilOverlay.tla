---------------------------- MODULE CoilOverlay ----------------------------
(***************************************************************************)
(* The pipes of the canvas: ScadaCanvas polls the coils of every PLC a     *)
(* pipe names, colours the pipe by them, and a click writes one.  The      *)
(* handlers of main reach a PLC through the host port simulation:start     *)
(* wrote down for it, so a command goes to whichever container publishes   *)
(* that port.  A coil is named by its PLC and its index.                   *)
(***************************************************************************)
EXTENDS ComposePlan

CONSTANTS
  LastCoil,     \* the last coil a controller has
  MaxPolls, MaxClicks

ASSUME OverlayAssumption == LastCoil \in Nat

VARIABLES
  coilStates,   \* the values shown, a function over the coils known so far
  polls,        \* polls in flight, by number: the PLCs left to read, what was read
  polled,       \* polls begun so far
  writes,       \* clicks in flight, by number: the coil, its new value, the one to
                \* restore, and where the command is: "sent", "done" or "failed"
  clicks,       \* clicks so far
  onOt,         \* the OT tab is shown
  coils,        \* the coils of each running controller
  landed        \* the last write that reached a controller: the PLC named, the
                \* service reached; None before

coilVars == <<coilStates, polls, polled, writes, clicks, onOt, coils, landed>>

Pipes == IF lab = None THEN {} ELSE {lab.wires[i] : i \in {j \in DOMAIN lab.wires : lab.wires[j].coil # None}}
Sources == {w.coil : w \in Pipes}
plcMaxCoil(plc) ==
  LET of == {w.coilIndex : w \in {x \in Pipes : x.coil = plc}}
  IN  CHOOSE k \in of : \A j \in of : j <= k
CoilsOf(plc) == {<<plc, i>> : i \in 0 .. plcMaxCoil(plc)}
Watched == up /\ onOt

\* The running controller behind the Modbus port noted for a PLC: none for a batch
\* controller, which is given no port.
Behind(plc) ==
  IF plc \notin DOMAIN ports.plcModbus THEN {}
  ELSE {s \in DOMAIN coils : ports.plcModbus[plc] \in services[s].ports}

-----------------------------------------------------------------------------
OverlayInit ==
  /\ coilStates = <<>> /\ polls = <<>> /\ polled = 0 /\ writes = <<>> /\ clicks = 0
  /\ onOt = TRUE /\ coils = <<>> /\ landed = None

\* The controllers come up with every coil on, as their init block sets them.
CoilsUp == coils' = [s \in {t \in DOMAIN services : Category(t) \in Controllers} |->
                       [i \in 0 .. LastCoil |-> TRUE]]

\* Another tab is shown, or this one again: the effect of the poll starts over and,
\* off the OT tab, forgets what it knew.  A poll in flight goes on.
SwitchTab ==
  /\ up /\ onOt' = ~onOt /\ polled < MaxPolls /\ Pipes # {}
  /\ coilStates' = IF onOt THEN <<>> ELSE coilStates
  /\ UNCHANGED <<planVars, polls, polled, writes, clicks, coils, landed>>

\* The lab stops: the display is cleared, connections to the controllers break.
OverlayStops ==
  /\ coilStates' = <<>> /\ coils' = <<>> /\ landed' = None
  /\ writes' = [n \in DOMAIN writes |->
       IF writes[n].at = "sent" THEN [writes[n] EXCEPT !.at = "failed"] ELSE writes[n]]
  /\ UNCHANGED <<polls, polled, clicks, onOt>>

\* Every 2 s, whether the last poll has ended or not.
PollBegins ==
  /\ Watched /\ Sources # {} /\ polled < MaxPolls /\ polled' = polled + 1
  /\ polls' = Merge(polls, [n \in {polled + 1} |-> [left |-> Sources, got |-> <<>>]])
  /\ UNCHANGED <<planVars, coilStates, writes, clicks, onOt, coils, landed>>

\* modbus:readCoils of one PLC: its coils up to the last one a pipe names, if it has
\* all of them, or [] after an error or 2.5 s.
ReadCoils ==
  /\ \E n \in DOMAIN polls : \E plc \in polls[n].left :
       \/ polls' = [polls EXCEPT ![n].left = @ \ {plc}]
       \/ /\ plc \in Sources /\ \A c \in CoilsOf(plc) : c[2] <= LastCoil
          /\ \E s \in Behind(plc) :
               polls' = [polls EXCEPT ![n] =
                 [left |-> @.left \ {plc},
                  got |-> Merge(@.got, [c \in CoilsOf(plc) |-> coils[s][c[2]]])]]
  /\ UNCHANGED <<planVars, coilStates, polled, writes, clicks, onOt, coils, landed>>

\* The poll replaces all that was known, also of PLCs it could not read.
PollEnds ==
  /\ \E n \in DOMAIN polls : polls[n].left = {} /\ coilStates' = polls[n].got
                             /\ polls' = Drop(polls, n)
  /\ UNCHANGED <<planVars, polled, writes, clicks, onOt, coils, landed>>

Shown(coil) == IF coil \in DOMAIN coilStates THEN coilStates[coil] ELSE TRUE

\* A click on a pipe: the colour flips at once, the command follows.
onEdgeClick ==
  /\ Watched /\ clicks < MaxClicks /\ clicks' = clicks + 1
  /\ \E w \in Pipes :
       LET coil == <<w.coil, w.coilIndex>>
       IN  /\ coilStates' = Merge(coilStates, [c \in {coil} |-> ~Shown(coil)])
           /\ writes' = Merge(writes, [n \in {clicks + 1} |->
                [coil |-> coil, value |-> ~Shown(coil), back |-> Shown(coil), at |-> "sent"]])
  /\ UNCHANGED <<planVars, polls, polled, onOt, coils, landed>>

\* modbus:writeCoil reaches a controller; its answer may still be lost.
WriteCoil ==
  /\ \E n \in DOMAIN writes : \E s \in Behind(writes[n].coil[1]) :
       /\ writes[n].at = "sent" /\ writes[n].coil[2] <= LastCoil
       /\ coils' = [coils EXCEPT ![s][writes[n].coil[2]] = writes[n].value]
       /\ landed' = [named |-> writes[n].coil[1], reached |-> s]
       /\ \E at \in {"done", "failed"} : writes' = [writes EXCEPT ![n].at = at]
  /\ UNCHANGED <<planVars, coilStates, polls, polled, clicks, onOt>>

\* It reaches none, or is refused.
WriteFails ==
  /\ \E n \in DOMAIN writes : writes[n].at = "sent"
       /\ writes' = [writes EXCEPT ![n].at = "failed"]
  /\ UNCHANGED <<planVars, coilStates, polls, polled, clicks, onOt, coils, landed>>

\* The answer: a failed write puts back the value the click saw, whatever was polled
\* since.
WriteAnswered ==
  /\ \E n \in DOMAIN writes : writes[n].at # "sent" /\ writes' = Drop(writes, n)
       /\ coilStates' = IF writes[n].at = "done" THEN coilStates
            ELSE Merge(coilStates, [c \in {writes[n].coil} |-> writes[n].back])
  /\ UNCHANGED <<planVars, polls, polled, clicks, onOt, coils, landed>>

OverlayStep == \/ SwitchTab \/ PollBegins \/ ReadCoils \/ PollEnds
               \/ onEdgeClick \/ WriteCoil \/ WriteFails \/ WriteAnswered

-----------------------------------------------------------------------------
(* Properties.                                                             *)

\* Main talks to the container of the device it names: every port it has written down
\* is one that device's own container publishes, and a click on a pipe operates the
\* controller the pipe names and no other.  As long as the service names of the devices
\* are their own and no batch controller, which the loop of simulation:start does not
\* count, precedes the controller.
CommandsReach ==
  /\ PortsReach
  /\ landed # None /\ composed =>
       \/ landed.reached = SafeName[landed.named]
       \/ \E b \in Ids(lab) : IsA(lab, b, {"batch-controller"}) /\ InFileOrder(b, landed.named)
=============================================================================
