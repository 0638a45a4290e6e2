--------------------------------- MODULE Desk ----------------------------------
(***************************************************************************)
(* What lies on the author's desk beside the lab: scenario packs, scenario *)
(* files, the monitor's log, the network settings and the desktops'        *)
(* windows.  They share no state, so a behaviour is about one of them.     *)
(***************************************************************************)
EXTENDS PackStore, ScenarioFiles, MonitorLogs, ZoneSettings, DesktopWindows

VARIABLE part \* what this behaviour is about

deskVars == <<vars, filesVars, monitorVars, settingsVars, desktopVars, part>>

DeskInit ==
  /\ Init /\ FilesInit /\ MonitorInit /\ SettingsInit /\ DesktopInit
  /\ part \in {"packs", "files", "log", "settings", "windows"}

DeskNext ==
  \/ part = "packs" /\ Next
     /\ UNCHANGED <<filesVars, monitorVars, settingsVars, desktopVars, part>>
  \/ part = "files" /\ FilesNext
     /\ UNCHANGED <<vars, monitorVars, settingsVars, desktopVars, part>>
  \/ part = "log" /\ MonitorNext
     /\ UNCHANGED <<vars, filesVars, settingsVars, desktopVars, part>>
  \/ part = "settings" /\ SettingsNext
     /\ UNCHANGED <<vars, filesVars, monitorVars, desktopVars, part>>
  \/ part = "windows" /\ DesktopNext
     /\ UNCHANGED <<vars, filesVars, monitorVars, settingsVars, part>>

DeskSpec == DeskInit /\ [][DeskNext]_deskVars

\* Files, log, settings and windows hold what the code keeps in them.
DeskTyped == FilesTypeOK /\ MonitorTypeOK /\ SettingsTypeOK /\ DesktopTypeOK
=============================================================================
