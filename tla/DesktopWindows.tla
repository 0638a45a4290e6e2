---------------------------- MODULE DesktopWindows ----------------------------
(***************************************************************************)
(* Desktops in windows of their own: attack:launchWindow and               *)
(* workstation:launchWindow of main/index.ts, with the maps of ports they  *)
(* read and the maps of windows they keep.                                 *)
(*                                                                         *)
(* A lab is started and stopped by one user who waits for each answer; a   *)
(* start may fail, a teardown does not (SimLifecycle models both).  A      *)
(* window shows what answers on its port, whichever lab that belongs to.   *)
(***************************************************************************)
EXTENDS Integers, Sequences

CONSTANTS Labs,
          NoLab,
          AttackMachines, Workstations, \* per lab, the devices in their order
          MaxWindows  \* bound on windows on the screen or asked for

Nodes(machines) == {machines[i] : i \in DOMAIN machines}

\* The ports of the two kinds begin a hundred apart.
ASSUME DesktopAssumption ==
  /\ NoLab \notin Labs /\ MaxWindows \in Nat
  /\ \A l \in Labs : /\ AttackMachines[l] \in Seq(Nodes(AttackMachines[l]))
                     /\ Workstations[l] \in Seq(Nodes(Workstations[l]))
                     /\ Len(Workstations[l]) <= 100

VARIABLES
  simulation,   \* idle, starting, running, stopping
  activeProject, activeAttackPorts, activeWorkstationPorts, \* main's maps
  upLab,        \* the lab whose containers there are
  listening,    \* ports that accept connections
  probes,       \* attack:launchWindow calls that wait for isPortOpen
  shownWindows, \* windows on the screen
  attackWindows, workstationWindows \* main's maps, node to window

hostVars    == <<simulation, activeProject, activeAttackPorts, activeWorkstationPorts, upLab, listening>>
windowVars  == <<probes, shownWindows, attackWindows, workstationWindows>>
desktopVars == <<hostVars, windowVars>>

NoMap == [n \in {} |-> 0]

\* The n-th machine of a kind is published on the n-th port from its base,
\* by the compose generator and by main alike.
Published(machines, base) ==
  [n \in Nodes(machines) |-> base + (CHOOSE i \in DOMAIN machines : machines[i] = n) - 1]
AttackPorts(l)      == Published(AttackMachines[l], 6900)
WorkstationPorts(l) == Published(Workstations[l], 6800)

Ports(l) == {AttackPorts(l)[n] : n \in Nodes(AttackMachines[l])}
            \cup {WorkstationPorts(l)[n] : n \in Nodes(Workstations[l])}

\* What answers on a port: a machine of the lab that is up.
Machine(port) ==
  IF upLab = NoLab THEN {}
  ELSE {<<upLab, n>> : n \in {m \in DOMAIN AttackPorts(upLab) : AttackPorts(upLab)[m] = port}
                            \cup {m \in DOMAIN WorkstationPorts(upLab) : WorkstationPorts(upLab)[m] = port}}

DesktopInit ==
  /\ simulation = "idle" /\ activeProject = NoLab /\ upLab = NoLab
  /\ activeAttackPorts = NoMap /\ activeWorkstationPorts = NoMap
  /\ listening = {} /\ probes = {} /\ shownWindows = {}
  /\ attackWindows = NoMap /\ workstationWindows = NoMap

-----------------------------------------------------------------------------
(* The lab.                                                                *)

StartLab(l) ==
  /\ simulation = "idle"
  /\ simulation' = "starting"
  /\ activeProject' = l
  /\ activeAttackPorts' = AttackPorts(l)
  /\ activeWorkstationPorts' = WorkstationPorts(l)
  /\ probes' = {[p EXCEPT !.stale = TRUE] : p \in probes}
  /\ UNCHANGED <<upLab, listening, shownWindows, attackWindows, workstationWindows>>

LabUp ==
  /\ simulation = "starting" /\ upLab = NoLab /\ upLab' = activeProject
  /\ UNCHANGED <<simulation, activeProject, activeAttackPorts, activeWorkstationPorts, listening, windowVars>>

\* Docker refuses, and the ports stay; or something is thrown, and they go.
LabFails(thrown) ==
  /\ simulation = "starting" /\ upLab = NoLab /\ simulation' = "idle"
  /\ activeProject' = NoLab
  /\ activeAttackPorts' = IF thrown THEN NoMap ELSE activeAttackPorts
  /\ activeWorkstationPorts' = IF thrown THEN NoMap ELSE activeWorkstationPorts
  /\ UNCHANGED <<upLab, listening, windowVars>>

LabSettles ==
  /\ simulation = "starting" /\ upLab # NoLab /\ simulation' = "running"
  /\ UNCHANGED <<activeProject, activeAttackPorts, activeWorkstationPorts, upLab, listening, windowVars>>

\* The desktop behind a port takes connections.
Boots(port) ==
  /\ upLab # NoLab /\ port \in Ports(upLab) \ listening
  /\ listening' = listening \cup {port}
  /\ UNCHANGED <<simulation, activeProject, activeAttackPorts, activeWorkstationPorts, upLab, windowVars>>

StopLab ==
  /\ simulation = "running" /\ simulation' = "stopping"
  /\ UNCHANGED <<activeProject, activeAttackPorts, activeWorkstationPorts, upLab, listening, windowVars>>

LabDown ==
  /\ simulation = "stopping" /\ upLab # NoLab
  /\ upLab' = NoLab /\ listening' = {}
  /\ UNCHANGED <<simulation, activeProject, activeAttackPorts, activeWorkstationPorts, windowVars>>

LabStopped ==
  /\ simulation = "stopping" /\ upLab = NoLab /\ simulation' = "idle"
  /\ activeProject' = NoLab
  /\ activeAttackPorts' = NoMap /\ activeWorkstationPorts' = NoMap
  /\ UNCHANGED <<upLab, listening, windowVars>>

-----------------------------------------------------------------------------
(* The windows.                                                            *)

Put(map, node, w) == [n \in DOMAIN map \cup {node} |-> IF n = node THEN w ELSE map[n]]
Without(map, node) == [n \in DOMAIN map \ {node} |-> map[n]]

\* A window is known by the least number that is free.
Fits(no) ==
  LET taken == {p.no : p \in probes} \cup {w.no : w \in shownWindows}
  IN  no \in 1 .. MaxWindows /\ no \notin taken /\ 1 .. no - 1 \subseteq taken

\* A new window always; an older one of the machine stays on the screen.
Shown(window) ==
  shownWindows' = {[w EXCEPT !.newest = @ /\ (w.kind # window.kind \/ w.node # window.node)] :
                     w \in shownWindows} \cup {window}

\* The button opens the first machine.  The port is read now and asked about for up to two seconds.
launchAttackWindow(no) ==
  /\ simulation = "running" /\ AttackMachines[activeProject] # <<>> /\ Fits(no)
  /\ LET node == AttackMachines[activeProject][1] IN
       /\ node \in DOMAIN activeAttackPorts
       /\ probes' = probes \cup {[no |-> no, node |-> node, port |-> activeAttackPorts[node],
                                  lab |-> activeProject, stale |-> FALSE]}
  /\ UNCHANGED <<hostVars, shownWindows, attackWindows, workstationWindows>>

PortOpen(p) ==
  /\ p.port \in listening
  /\ probes' = probes \ {p}
  /\ Shown([no |-> p.no, kind |-> "attack", node |-> p.node, newest |-> TRUE,
            asked |-> <<p.lab, p.node>>, shows |-> Machine(p.port), stale |-> p.stale])
  /\ attackWindows' = Put(attackWindows, p.node, p.no)
  /\ UNCHANGED <<hostVars, workstationWindows>>

\* Nobody shows the error that is answered.
PortClosed(p) ==
  /\ probes' = probes \ {p}
  /\ UNCHANGED <<hostVars, shownWindows, attackWindows, workstationWindows>>

\* The workstation's port is not asked.
launchWorkstationWindow(no) ==
  /\ simulation = "running" /\ Workstations[activeProject] # <<>> /\ Fits(no)
  /\ LET node == Workstations[activeProject][1] IN
       /\ node \in DOMAIN activeWorkstationPorts
       /\ Shown([no |-> no, kind |-> "workstation", node |-> node, newest |-> TRUE,
                 asked |-> <<activeProject, node>>, shows |-> Machine(activeWorkstationPorts[node]),
                 stale |-> FALSE])
       /\ workstationWindows' = Put(workstationWindows, node, no)
  /\ UNCHANGED <<hostVars, probes, attackWindows>>

\* Mutant of closed: whichever window closes, its machine's entry goes.
closedAnyway(w) ==
  /\ shownWindows' = shownWindows \ {w}
  /\ attackWindows' = IF w.kind = "attack" THEN Without(attackWindows, w.node) ELSE attackWindows
  /\ workstationWindows' = IF w.kind = "workstation" THEN Without(workstationWindows, w.node) ELSE workstationWindows
  /\ UNCHANGED <<hostVars, probes>>

Forget(map, w) == IF w.node \in DOMAIN map /\ map[w.node] = w.no THEN Without(map, w.node) ELSE map

closed(w) ==
  /\ shownWindows' = shownWindows \ {w}
  /\ attackWindows' = IF w.kind = "attack" THEN Forget(attackWindows, w) ELSE attackWindows
  /\ workstationWindows' = IF w.kind = "workstation" THEN Forget(workstationWindows, w) ELSE workstationWindows
  /\ UNCHANGED <<hostVars, probes>>

DesktopNext ==
  \/ \E l \in Labs : StartLab(l)
  \/ LabUp \/ \E thrown \in BOOLEAN : LabFails(thrown)
  \/ LabSettles \/ StopLab \/ LabDown \/ LabStopped
  \/ \E port \in UNION {Ports(l) : l \in Labs} : Boots(port)
  \/ \E no \in 1 .. MaxWindows : launchAttackWindow(no) \/ launchWorkstationWindow(no)
  \/ \E p \in probes : PortOpen(p) \/ PortClosed(p)
  \/ \E w \in shownWindows : closed(w)

DesktopSpec == DesktopInit /\ [][DesktopNext]_desktopVars

-----------------------------------------------------------------------------

Devices == UNION {Nodes(AttackMachines[l]) \cup Nodes(Workstations[l]) : l \in Labs}
Probe == [no : 1 .. MaxWindows, node : Devices, port : Int, lab : Labs, stale : BOOLEAN]
Window ==
  [no : 1 .. MaxWindows, kind : {"attack", "workstation"}, node : Devices, newest : BOOLEAN,
   asked : Labs \X Devices, shows : SUBSET (Labs \X Devices), stale : BOOLEAN]

DesktopTypeOK ==
  /\ simulation \in {"idle", "starting", "running", "stopping"}
  /\ activeProject \in Labs \cup {NoLab} /\ upLab \in Labs \cup {NoLab}
  /\ DOMAIN activeAttackPorts \subseteq Devices /\ DOMAIN activeWorkstationPorts \subseteq Devices
  /\ DOMAIN attackWindows \subseteq Devices /\ DOMAIN workstationWindows \subseteq Devices
  /\ listening \subseteq UNION {Ports(l) : l \in Labs}
  /\ probes \subseteq Probe /\ shownWindows \subseteq Window

Tracked(map, n) == IF n \in DOMAIN map THEN {map[n]} ELSE {}
Latest(kind, n) == {w \in shownWindows : w.kind = kind /\ w.node = n /\ w.newest}
Numbers(windows) == {w.no : w \in windows}

\* Main's maps know, of every machine, the window opened last as long as it is on
\* the screen and none else; and a window opens on the machine that was clicked,
\* unless another lab was started since the click (attack:launchWindow,
\* workstation:launchWindow).
WindowShowsOwn ==
  /\ \A n \in Devices :
       /\ Tracked(attackWindows, n) = Numbers(Latest("attack", n))
       /\ Tracked(workstationWindows, n) = Numbers(Latest("workstation", n))
  /\ \A w \in shownWindows : w.stale \/ w.shows = {w.asked}
=============================================================================
