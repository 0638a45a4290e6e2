------------------------------ MODULE LiveLab ------------------------------
(***************************************************************************)
(* A lab from its scenario to its end: the compose file is planned, the    *)
(* containers come up, and the panels, the pipes of the canvas, the HMI    *)
(* provisioning and the programs of the controllers work on them until it  *)
(* is stopped and another one is started.                                  *)
(***************************************************************************)
EXTENDS SecurityPanels, CoilOverlay, PlcPrograms, HmiProvision

CONSTANTS Courses   \* sequences of starts: a scenario, the zone settings and the
                    \* blocks Docker has in use at that start

ASSUME CoursesAssumption ==
  \A c \in Courses : IsSeq(c) /\ \A i \in DOMAIN c : WellMade(c[i].scenario)

VARIABLES course    \* the starts still to come

vars == <<planVars, panelVars, coilVars, programVars, hmiVars, course>>

Init ==
  /\ PlanInit /\ PanelInit /\ OverlayInit /\ ProgramInit /\ HmiInit
  /\ course \in Courses

Start ==
  /\ course # <<>> /\ course' = Tail(course)
  /\ BeginStart(Head(course).scenario, Head(course).settings, Head(course).inUse)
  /\ UNCHANGED <<panelVars, coilVars, programVars, hmiVars>>

Planning ==
  /\ ComposeDevice \/ ComposeServices \/ StartFails
  /\ UNCHANGED <<panelVars, coilVars, programVars, hmiVars, course>>

\* The end of a start that succeeds.
LabUp ==
  /\ ContainersUp /\ FirewallUp /\ CoilsUp /\ ProvisionBegins(lab)
  /\ UNCHANGED <<policy, rules, applyState, timers, reloads, asked, idsVars, edits,
                 coilStates, polls, polled, writes, clicks, onOt, landed, programVars, course>>

LabDown ==
  /\ StopLab /\ FirewallDown /\ OverlayStops /\ ProvisionLeft /\ ProgramsStop
  /\ UNCHANGED <<policy, rules, applyState, timers, asked, idsVars, edits, course>>

Working ==
  \/ PanelStep   /\ UNCHANGED <<coilVars, programVars, hmiVars, course>>
  \/ OverlayStep /\ UNCHANGED <<panelVars, programVars, hmiVars, course>>
  \/ ProgramStep /\ UNCHANGED <<panelVars, coilVars, hmiVars, course>>
  \/ HmiStep     /\ UNCHANGED <<panelVars, coilVars, programVars, course>>

Next == Start \/ Planning \/ LabUp \/ LabDown \/ Working

Spec == Init /\ [][Next]_vars

-----------------------------------------------------------------------------
\* Every variable has a value of its kind: host octets stay below 255 and the port
\* maps in the range of their base, a coil shown has a value, a shell and a task have
\* something left to do or to answer.
TypeOK ==
  /\ next \in Nat /\ composed \in BOOLEAN /\ up \in BOOLEAN
  /\ \A z \in Zones : used[z] \subseteq 1 .. 254
  /\ \A s \in DOMAIN services : \A z \in DOMAIN services[s].legs : services[s].legs[z][2] \in 1 .. 254
  /\ \A x \in DOMAIN ports.plcWeb : ports.plcWeb[x] \in PLC_WEB_PORT_BASE .. PLC_WEB_PORT_BASE + 99
  /\ \A x \in DOMAIN ports.plcModbus :
       ports.plcModbus[x] \in PLC_MODBUS_PORT_BASE .. PLC_MODBUS_PORT_BASE + 99
  /\ policy \in {"deny", "allow"} /\ rules \in Seq(Forms)
  /\ applyState \in {"idle", "applying", "ok", "error"} /\ timers \in 0 .. MaxReloads
  /\ \A c \in DOMAIN coilStates : coilStates[c] \in BOOLEAN
  /\ \A n \in DOMAIN writes : writes[n].at \in {"sent", "done", "failed"}
  /\ \A n \in DOMAIN tasks : tasks[n].todo # <<>>
  /\ batch.batch_state \in IDLE .. COMPLETE /\ batch.current_phase \in 0 .. 5
  /\ batch.react_ticks \in -IntMax - 1 .. IntMax /\ trip_relay \in BOOLEAN
=============================================================================
