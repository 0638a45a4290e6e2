------------------------------- MODULE LabCanvas -------------------------------
(***************************************************************************)
(* Editing a scenario: the canvas with its layer tabs, the connection      *)
(* menu, the palette, the panels and the buttons that replace the scenario *)
(* or switch between Author Mode and Student Mode.                         *)
(*                                                                         *)
(* A scenario keeps two lists that must agree: devices, which the compose  *)
(* generator turns into containers, and nodes, which say where the canvas  *)
(* draws them.  A node without a device is decoration; a scenario without  *)
(* any node is laid out automatically.  Positions, labels, fluids, the     *)
(* protocol and cable an edge keeps, the settings of a device and the      *)
(* selection are left out: they never decide what an operation does to     *)
(* these lists.                                                            *)
(***************************************************************************)
EXTENDS ConnectionRules, Naturals, Functions

CONSTANTS
  Ids,        \* ids given to new devices and site regions: kind-Date.now()
  Kinds,      \* the device categories dropped
  Layers,     \* the layer tabs visited
  Protocols,  \* the protocols picked in the menu
  Cables,     \* the cables picked in the menu
  Library,    \* scenarios that can be opened: files, sessions and packs
  Packs,      \* those that are in a pack
  FirstHost, LastHost,  \* hosts of a zone given to dropped devices: 10 and 240
  Typed,      \* <<zone, host>>: addresses the author types in the properties panel
  MaxEdits,   \* bound: edits of scenarios in a behaviour
  None

ASSUME CanvasAssumption ==
  /\ FirstHost \in Nat /\ LastHost \in Nat /\ FirstHost <= LastHost
  /\ MaxEdits \in Nat
  /\ Packs \subseteq Library
  /\ Typed \subseteq Layers \X Nat

VARIABLES
  scenario,  \* [nodes, devices, edges, sites, locked]: App's scenario
  builder,   \* builderModeActive: Author Mode
  layer,     \* activeLayer
  menu,      \* the connection menu open on a node, or None
  pending,   \* the connection waiting for the click on its target, or None
  form,      \* the metadata form covers the window
  ide,       \* the PLC whose IDE covers the window, or None
  opening,   \* the pack scenario whose file is being read, or None
  given,     \* ids given out so far; Date.now never gives one twice
  edits      \* edits made so far; numbers the edges drawn

vars == <<scenario, builder, layer, menu, pending, form, ide, opening, given, edits>>
views == <<menu, pending, form, ide, opening>>

Kali == "attack-machine"
NoKind == "undefined"

\* Ids that may name a node, a device or an end of an edge.
Present(s) == DOMAIN s.nodes \cup DOMAIN s.devices
Names == Ids \cup UNION {Present(s) : s \in Library}

WellFormed(s) ==
  /\ DOMAIN s = {"nodes", "devices", "edges", "sites", "locked"}
  /\ Present(s) \subseteq Names
  /\ \A n \in DOMAIN s.nodes : DOMAIN s.nodes[n] = {"kind", "zone"}
  /\ \A n \in DOMAIN s.devices : DOMAIN s.devices[n] = {"kind", "zone", "host", "typed"} /\ s.devices[n].host \in Nat
  /\ \A e \in DOMAIN s.edges :
       DOMAIN s.edges[e] = {"src", "dst"} /\ {s.edges[e].src, s.edges[e].dst} \subseteq Names

KaliNodes(s) == {n \in DOMAIN s.nodes : s.nodes[n].kind = Kali}
KaliDevices(s) == {n \in DOMAIN s.devices : s.devices[n].kind = Kali}

OneKali(s) == (\A a, b \in KaliDevices(s) : a = b) /\ KaliNodes(s) \subseteq KaliDevices(s)

AddressesDistinct(s) ==
  \A a, b \in DOMAIN s.devices :
    a # b /\ s.devices[a].zone = s.devices[b].zone /\ s.devices[a].host = s.devices[b].host
    => s.devices[a].typed \/ s.devices[b].typed \/ s.devices[a].host = LastHost

\* Only an attack machine is put in the attackers' zone.
AttackersOnly(s) ==
  \A n \in DOMAIN s.devices : s.devices[n].zone = "attacker" => s.devices[n].typed \/ s.devices[n].kind = Kali

\* Scenarios that are opened were made like this one, at another time.
ASSUME LibraryAssumption ==
  \A s \in Library :
    WellFormed(s) /\ Present(s) \cap Ids = {} /\ OneKali(s) /\ AddressesDistinct(s) /\ AttackersOnly(s)

Blank == [nodes |-> <<>>, devices |-> <<>>, edges |-> <<>>, sites |-> <<>>, locked |-> FALSE]

\* The nodes a tab draws.  Without saved nodes, the devices by their category.
ShownOn(s, z) ==
  IF DOMAIN s.nodes # {}
  THEN {n \in DOMAIN s.nodes : s.nodes[n].zone = z}
  ELSE {n \in DOMAIN s.devices : categoryToZone(s.devices[n].kind) = z}
Shown == ShownOn(scenario, layer)

KindOf(n) == IF n \in DOMAIN scenario.devices THEN scenario.devices[n].kind ELSE scenario.nodes[n].kind

\* The edges a tab draws: those with both ends on it.
EdgesShown == {e \in DOMAIN scenario.edges : {scenario.edges[e].src, scenario.edges[e].dst} \subseteq Shown}

\* No dialog covers the window.
Free == ~form /\ ide = None
Editing == Free /\ builder

Without(f, S) == [x \in DOMAIN f \ S |-> f[x]]
With(f, x, v) == [y \in DOMAIN f \cup {x} |-> IF y = x THEN v ELSE f[y]]
\* The lowest host of a zone no device has; the last one when all are taken.
nextAvailableIp(zone) ==
  LET used == {scenario.devices[d].host : d \in {x \in DOMAIN scenario.devices : scenario.devices[x].zone = zone}}
      free == (FirstHost..LastHost) \ used
  IN IF free = {} THEN LastHost ELSE CHOOSE h \in free : \A g \in free : h <= g

Init ==
  /\ scenario = Blank /\ builder = FALSE /\ form = TRUE
  /\ layer = "ot" /\ menu = None /\ pending = None /\ ide = None /\ opening = None
  /\ given = {} /\ edits = 0

Edit(s) == edits < MaxEdits /\ edits' = edits + 1 /\ scenario' = s

----------------------------------------------------------------------------
(* The connection menu and the two clicks that draw a connection. *)

\* Mutant: a pending connection survives the menu.
onNodeContextMenuKeeps(n) ==
  /\ Editing /\ n \in Shown
  /\ menu' = [node |-> n, cable |-> None]
  /\ UNCHANGED <<scenario, builder, layer, pending, form, ide, opening, given, edits>>

\* Right click on a device of the tab: the menu opens, a pending connection goes.
onNodeContextMenu(n) ==
  /\ Editing /\ n \in Shown
  /\ menu' = [node |-> n, cable |-> None]
  /\ pending' = None
  /\ UNCHANGED <<scenario, builder, layer, form, ide, opening, given, edits>>

\* What the menu offers: the protocols and cables the source can use at all, or
\* everything when the source is not on the tab.
MenuProtocols(n) ==
  IF n \in Shown THEN CONNECTION_OPTIONS \cap getSourceProtocols(KindOf(n)) ELSE CONNECTION_OPTIONS
MenuCables(n) == IF n \in Shown THEN getSourceCables(KindOf(n)) ELSE CableType

\* Clicking a cable again takes it back; the menu stays open.
selectCable(c) ==
  /\ Free /\ menu # None /\ c \in MenuCables(menu.node)
  /\ menu' = [menu EXCEPT !.cable = IF @ = c THEN None ELSE c]
  /\ UNCHANGED <<scenario, builder, layer, pending, form, ide, opening, given, edits>>

startConnection(p) ==
  /\ Free /\ menu # None /\ p \in MenuProtocols(menu.node)
  /\ pending' = [src |-> menu.node, protocol |-> p, cable |-> menu.cable, freehand |-> FALSE]
  /\ menu' = None
  /\ UNCHANGED <<scenario, builder, layer, form, ide, opening, given, edits>>

\* The menu's other page: a cable without a protocol, which nothing checks.
startFreehandConnection ==
  /\ Free /\ menu # None
  /\ pending' = [src |-> menu.node, protocol |-> "none", cable |-> None, freehand |-> TRUE]
  /\ menu' = None
  /\ UNCHANGED <<scenario, builder, layer, form, ide, opening, given, edits>>

\* A click on the empty canvas, Escape, or a click on the source itself.
cancelConnection ==
  /\ menu # None \/ pending # None
  /\ menu' = None /\ pending' = None
  /\ UNCHANGED <<scenario, builder, layer, form, ide, opening, given, edits>>

\* The three checks of a click on a target.  They are made only when the source
\* is a node of the tab.
Accepted(n) ==
  ~pending.freehand /\ pending.src \in Shown =>
    /\ isConnectionValid(KindOf(pending.src), KindOf(n), pending.protocol)
    /\ pending.cable # None => isCableValid(KindOf(pending.src), KindOf(n), pending.cable)
    /\ pending.cable # None => isProtocolCableCompatible(pending.protocol, pending.cable)

AddEdge(src, dst) ==
  Edit([scenario EXCEPT !.edges = With(@, edits + 1, [src |-> src, dst |-> dst])])

\* The second click.  Neither the tab nor the mode is asked for again; a target
\* that is refused leaves the connection pending.
onNodeClick(n) ==
  /\ Free /\ pending # None /\ n \in Shown /\ n # pending.src
  /\ Accepted(n)
  /\ AddEdge(pending.src, n)
  /\ pending' = None
  /\ UNCHANGED <<builder, layer, menu, form, ide, opening, given>>

\* A connection dragged from handle to handle is not checked.
onConnect(src, dst) ==
  /\ Editing /\ src \in Shown /\ dst \in Shown
  /\ AddEdge(src, dst)
  /\ UNCHANGED <<builder, layer, views, given>>

\* One end of an edge is dragged to another node; the rest of it stays.
onReconnect(e, end, n) ==
  /\ Editing /\ e \in EdgesShown /\ n \in Shown
  /\ Edit([scenario EXCEPT !.edges[e][end] = n])
  /\ UNCHANGED <<builder, layer, views, given>>

----------------------------------------------------------------------------
(* Devices. *)

\* Mutant: a dropped attack machine joins the one there is.
onDropJoins(id, kind) ==
  LET zone == IF kind = Kali THEN "attacker" ELSE layer IN
  /\ Editing /\ kind \in PALETTE(layer) /\ id \in Ids \ given
  /\ given' = given \cup {id}
  /\ Edit([scenario EXCEPT
       !.nodes = With(@, id, [kind |-> kind, zone |-> layer]),
       !.devices = With(@, id, [kind |-> kind, zone |-> zone, host |-> nextAvailableIp(zone), typed |-> FALSE])])
  /\ UNCHANGED <<builder, layer, views>>

\* A device dropped on the tab.  Its address is computed from the devices of the
\* last render.  There is one attack machine: a drop replaces it, its edges stay.
onDrop(id, kind) ==
  LET zone == IF kind = Kali THEN "attacker" ELSE layer
      dev == [kind |-> kind, zone |-> zone, host |-> nextAvailableIp(zone), typed |-> FALSE]
      nodes == IF kind = Kali THEN Without(scenario.nodes, KaliNodes(scenario)) ELSE scenario.nodes
      devices == IF kind = Kali THEN Without(scenario.devices, KaliDevices(scenario)) ELSE scenario.devices
  IN /\ Editing /\ kind \in PALETTE(layer) /\ id \in Ids \ given
     /\ given' = given \cup {id}
     /\ Edit([scenario EXCEPT !.nodes = With(nodes, id, [kind |-> kind, zone |-> layer]),
                               !.devices = With(devices, id, dev)])
     /\ UNCHANGED <<builder, layer, views>>

\* The toolbar's attack machine has a fixed address and no place on any tab.
handleAttackMachineAdd(id) ==
  /\ Free /\ KaliDevices(scenario) = {} /\ id \in Ids \ given
  /\ given' = given \cup {id}
  /\ Edit([scenario EXCEPT
       !.nodes = Without(@, KaliNodes(scenario)),
       !.devices = With(Without(@, KaliDevices(scenario)), id,
                        [kind |-> Kali, zone |-> "attacker", host |-> FirstHost, typed |-> FALSE])])
  /\ UNCHANGED <<builder, layer, views>>

Touching(s, S) == {e \in DOMAIN s.edges : {s.edges[e].src, s.edges[e].dst} \cap S # {}}

handleAttackMachineRemove ==
  /\ Free /\ KaliDevices(scenario) # {}
  /\ Edit([scenario EXCEPT !.nodes = Without(@, KaliNodes(scenario)),
                            !.edges = Without(@, Touching(scenario, KaliDevices(scenario))),
                            !.devices = Without(@, KaliDevices(scenario))])
  /\ UNCHANGED <<builder, layer, views, given>>

\* Mutant: the nodes go, their devices stay.
onNodesDeleteDrawn(S) ==
  /\ builder
  /\ S # {} /\ S \subseteq Shown \cup {r \in DOMAIN scenario.sites : scenario.sites[r] = layer}
  /\ Edit([scenario EXCEPT !.nodes = Without(@, S), !.edges = Without(@, Touching(scenario, S)),
                            !.sites = Without(@, S)])
  /\ UNCHANGED <<builder, layer, views, given>>

\* The Delete key takes the selected nodes and their edges.  It is a key of the
\* document: the IDE and the form do not stop it, nor is a pending connection
\* cancelled.
onNodesDelete(S) ==
  /\ builder
  /\ S # {} /\ S \subseteq Shown \cup {r \in DOMAIN scenario.sites : scenario.sites[r] = layer}
  /\ Edit([scenario EXCEPT !.nodes = Without(@, S), !.edges = Without(@, Touching(scenario, S)),
                            !.devices = Without(@, S), !.sites = Without(@, S)])
  /\ UNCHANGED <<builder, layer, views, given>>

onEdgesDelete(e) ==
  /\ builder /\ e \in EdgesShown
  /\ Edit([scenario EXCEPT !.edges = Without(@, {e})])
  /\ UNCHANGED <<builder, layer, views, given>>

handleAddSite(id) ==
  /\ Editing /\ id \in Ids \ given
  /\ given' = given \cup {id}
  /\ Edit([scenario EXCEPT !.sites = With(@, id, layer)])
  /\ UNCHANGED <<builder, layer, views>>

\* The properties panel of an unlocked scenario: an address typed by the author.
handleDeviceChange(n, zone, host) ==
  /\ Free /\ ~scenario.locked /\ n \in Shown \cap DOMAIN scenario.devices
  /\ Edit([scenario EXCEPT !.devices[n].zone = zone, !.devices[n].host = host, !.devices[n].typed = TRUE])
  /\ UNCHANGED <<builder, layer, views, given>>

handleOpenPlcIde(n) ==
  /\ Free /\ n \in Shown /\ KindOf(n) = "plc"
  /\ ide' = n
  /\ UNCHANGED <<scenario, builder, layer, menu, pending, form, opening, given, edits>>

handleClosePlcIde ==
  /\ ide # None /\ ide' = None
  /\ UNCHANGED <<scenario, builder, layer, menu, pending, form, opening, given, edits>>

\* The IDE saves a program into the device it was opened for.  If that is gone,
\* the record written has a program and nothing else.
handleProgramChange ==
  /\ ide # None
  /\ ide \notin DOMAIN scenario.devices
  /\ Edit([scenario EXCEPT
       !.devices = With(@, ide, [kind |-> NoKind, zone |-> None, host |-> 0, typed |-> TRUE])])
  /\ UNCHANGED <<builder, layer, views, given>>

----------------------------------------------------------------------------
(* Tabs, modes, and other scenarios. *)

\* A tab or a cross-layer badge is clicked.  Menu and pending connection stay.
setActiveLayer(z) ==
  /\ Free /\ z # layer /\ layer' = z
  /\ UNCHANGED <<scenario, builder, views, given, edits>>

\* The mode badge, a button only on a scenario that is not locked.
ToggleMode ==
  /\ Free /\ ~scenario.locked /\ builder' = ~builder
  /\ UNCHANGED <<scenario, layer, views, given, edits>>

\* New and Scenario Builder: a blank scenario, and the form for its metadata.
handleNew ==
  /\ Free
  /\ scenario' = Blank /\ builder' = FALSE /\ form' = TRUE
  /\ UNCHANGED <<layer, menu, pending, ide, opening, given, edits>>

handleMetadataOpen ==
  /\ Free /\ builder /\ form' = TRUE
  /\ UNCHANGED <<scenario, builder, layer, menu, pending, ide, opening, given, edits>>

\* Save switches to Author Mode, whatever scenario is there by now.
handleMetadataSave ==
  /\ form /\ form' = FALSE /\ builder' = TRUE
  /\ UNCHANGED <<scenario, layer, menu, pending, ide, opening, given, edits>>

handleMetadataClose ==
  /\ form /\ form' = FALSE
  /\ UNCHANGED <<scenario, builder, layer, menu, pending, ide, opening, given, edits>>

\* A file or a session is opened: always in Student Mode.
handleImport(s) ==
  /\ Free /\ s \in Library
  /\ scenario' = s /\ builder' = FALSE
  /\ UNCHANGED <<layer, views, given, edits>>

\* A scenario of a pack.  The manager is a button of unlocked scenarios and closes
\* before the file is read; the answer replaces the scenario and not the mode.
OpenPackScenario(s) ==
  /\ Free /\ ~scenario.locked /\ opening = None /\ s \in Packs
  /\ opening' = s
  /\ UNCHANGED <<scenario, builder, layer, menu, pending, form, ide, given, edits>>

handlePackOpenScenario ==
  /\ opening # None
  /\ scenario' = opening /\ opening' = None
  /\ UNCHANGED <<builder, layer, menu, pending, form, ide, given, edits>>

\* Delete Scenario clears the canvas and keeps the scenario itself.
handleDelete ==
  /\ Free /\ ~scenario.locked
  /\ scenario' = [Blank EXCEPT !.locked = scenario.locked]
  /\ UNCHANGED <<builder, layer, views, given, edits>>

Next ==
  \/ \E n \in DOMAIN scenario.nodes \cup DOMAIN scenario.devices :
       onNodeContextMenu(n) \/ onNodeClick(n) \/ handleOpenPlcIde(n)
  \/ \E c \in Cables : selectCable(c)
  \/ \E p \in Protocols : startConnection(p)
  \/ startFreehandConnection \/ cancelConnection
  \/ \E src, dst \in Shown : onConnect(src, dst)
  \/ \E e \in EdgesShown, end \in {"src", "dst"}, n \in Shown : onReconnect(e, end, n)
  \/ \E id \in Ids, kind \in Kinds : onDrop(id, kind)
  \/ \E id \in Ids : handleAttackMachineAdd(id) \/ handleAddSite(id)
  \/ handleAttackMachineRemove
  \/ \E S \in SUBSET (Shown \cup DOMAIN scenario.sites) : onNodesDelete(S)
  \/ \E e \in EdgesShown : onEdgesDelete(e)
  \/ \E n \in Shown, a \in Typed : handleDeviceChange(n, a[1], a[2])
  \/ handleClosePlcIde \/ handleProgramChange
  \/ \E z \in Layers : setActiveLayer(z)
  \/ ToggleMode \/ handleNew \/ handleMetadataOpen \/ handleMetadataSave \/ handleMetadataClose
  \/ \E s \in Library : handleImport(s)
  \/ \E s \in Packs : OpenPackScenario(s)
  \/ handlePackOpenScenario \/ handleDelete

Spec == Init /\ [][Next]_vars

----------------------------------------------------------------------------
(* Properties. *)

\* Every variable holds what the code keeps in it: the lists of the scenario by
\* id, the open menu or the pending connection, never both, with its source.
TypeOK ==
  /\ WellFormed(scenario)
  /\ menu \in [node : Names, cable : Cables \cup {None}] \cup {None}
  /\ pending \in [src : Names, protocol : Protocols \cup {"none"}, cable : Cables \cup {None},
                  freehand : BOOLEAN] \cup {None}
  /\ menu = None \/ pending = None
  /\ ide \in Names \cup {None} /\ opening \in Packs \cup {None}
  /\ builder \in BOOLEAN /\ form \in BOOLEAN /\ given \subseteq Ids

\* The scenario has at most one attack machine, whichever of the palette, the
\* toolbar and the Delete key made and removed them, and a node drawn as the
\* attack machine is that device (onDrop and handleAttackMachineAdd/Remove).
\* Two devices of a zone have the same address only when the author typed one of
\* them, or the zone had no address left (nextAvailableIp).
DevicesSound == OneKali(scenario) /\ AddressesDistinct(scenario)

\* Every device the palette offers; the targets a connection can have.
Placeable == UNION {PALETTE(z) : z \in {"ot", "control", "plant-dmz", "enterprise", "internet-dmz"}}

\* <<device, protocol>>: the device can start and finish a connection with the
\* protocol, with some target and over some cable both ends and the protocol accept.
Finishable ==
  {kp \in Placeable \X CONNECTION_OPTIONS : \E t \in Placeable, c \in CableType :
     /\ isConnectionValid(kp[1], t, kp[2])
     /\ isCableValid(kp[1], t, c)
     /\ isProtocolCableCompatible(kp[2], c)}

\* A protocol the menu offers for a device of the tab can be finished: the three
\* tables behind the menu and the second click never contradict each other
\* (VALID_CONNECTIONS, DEVICE_CABLE_TYPES, PROTOCOL_VALID_CABLES).
NoDeadEnd ==
  menu # None /\ menu.node \in Shown /\ KindOf(menu.node) \in Placeable
    => {KindOf(menu.node)} \X MenuProtocols(menu.node) \subseteq Finishable

\* An edge that stays as it is keeps both its ends; only the replacement of the
\* attack machine leaves edges behind (onDrop keeps the edges, onNodesDelete and
\* handleAttackMachineRemove take those of the nodes they remove).
EndsStay ==
  \A e \in DOMAIN scenario.edges :
     LET ends == {scenario.edges[e].src, scenario.edges[e].dst} IN
     /\ e \in DOMAIN scenario'.edges /\ scenario'.edges[e] = scenario.edges[e]
     /\ ends \subseteq Present(scenario)
     => ends \subseteq Present(scenario') \cup KaliNodes(scenario) \cup KaliDevices(scenario)

\* A device that is drawn on a tab stays drawn there as long as it is in the
\* scenario: no edit makes a device invisible that will still be started.  The
\* exception is the first drop on a scenario that was laid out automatically.
ShownUntilDeleted ==
  \A z \in Layers : \A d \in ShownOn(scenario, z) \cap DOMAIN scenario.devices :
     d \in DOMAIN scenario'.devices
     => d \in ShownOn(scenario', z) \/ DOMAIN scenario.nodes = {}

\* An edit keeps what it is not about: the ends of the edges and the sight of the
\* devices.
EditsKeep == [][edits' # edits => EndsStay /\ ShownUntilDeleted]_vars
================================================================================
