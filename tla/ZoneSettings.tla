---------------------------- MODULE ZoneSettings -----------------------------
(***************************************************************************)
(* The network settings: SettingsModal.tsx and settings:get, settings:set  *)
(* and settings:detectSubnets of main/index.ts, over settings.json.        *)
(*                                                                         *)
(* The modal can be closed and opened again while a save is under way.     *)
(* The file is empty from the moment a write begins until it ends, and a   *)
(* file that cannot be parsed reads as auto-detection.                     *)
(***************************************************************************)
EXTENDS FiniteSets

CONSTANTS Grids,    \* subnets for the zones, as typed or detected
          Detected, \* those that detection may come up with
          AutoDetect,     \* settings: detect at every start
          Broken,   \* no settings file, or one that is not JSON; nothing read yet
          Saves     \* slots for saves in flight

ASSUME SettingsAssumption == Grids # {} /\ Detected \subseteq Grids /\ {AutoDetect, Broken} \cap Grids = {}

VARIABLES
  stored,      \* settings.json
  open,        \* showSettings
  autoDetect, zones, detecting, saving, \* the modal's state
  loading,     \* the modal has not got its settings yet
  got,         \* what settings:get read for it, Broken before it has
  saves,       \* per slot [at, settings, mine]: mine while its modal is open
  asked,       \* history: the settings of the last Save
  muddled      \* history: saves overlapped or one failed since one was
               \* clicked with none in flight

dialog       == <<open, autoDetect, zones, detecting, saving, loading, got>>
settingsVars == <<stored, dialog, saves, asked, muddled>>

DEFAULT_ZONES == CHOOSE g \in Grids : TRUE
NoSave == [at |-> "free", settings |-> AutoDetect, mine |-> FALSE]
Unsaved == \A w \in Saves : saves[w].at = "free"

SaveState == [at : {"free", "sent", "writing", "saved", "failed"},
              settings : Grids \cup {AutoDetect}, mine : BOOLEAN]

\* What an unreadable file stands for.
readSettings == IF stored = Broken THEN AutoDetect ELSE stored

SettingsInit ==
  /\ stored = Broken
  /\ open = FALSE /\ autoDetect = TRUE /\ zones = DEFAULT_ZONES
  /\ detecting = FALSE /\ saving = FALSE /\ loading = FALSE /\ got = Broken
  /\ saves = [w \in Saves |-> NoSave]
  /\ asked = AutoDetect /\ muddled = FALSE

\* The modal goes, and the answers it waits for find nobody.
Gone ==
  /\ open' = FALSE /\ autoDetect' = TRUE /\ zones' = DEFAULT_ZONES
  /\ detecting' = FALSE /\ saving' = FALSE /\ loading' = FALSE /\ got' = Broken
Orphaned(s) == [w \in Saves |-> [s[w] EXCEPT !.mine = FALSE]]

handleSettingsOpen ==
  /\ ~open /\ open' = TRUE
  /\ detecting' = TRUE /\ loading' = TRUE
  /\ UNCHANGED <<stored, autoDetect, zones, saving, got, saves, asked, muddled>>

\* Escape, the cross and the backdrop work at any time.
handleSettingsClose ==
  /\ open /\ Gone
  /\ saves' = Orphaned(saves)
  /\ UNCHANGED <<stored, asked, muddled>>

ReadForModal ==
  /\ loading /\ got = Broken /\ got' = readSettings
  /\ UNCHANGED <<stored, open, autoDetect, zones, detecting, saving, loading, saves, asked, muddled>>

\* Mutant of Loaded: what was read is shown, whatever it is.
LoadedPlainly ==
  /\ loading /\ got # Broken
  /\ autoDetect' = (got = AutoDetect) /\ zones' = got
  /\ loading' = FALSE /\ got' = Broken /\ detecting' = FALSE
  /\ UNCHANGED <<stored, open, saving, saves, asked, muddled>>

\* Settings and detection have both been answered.
Loaded ==
  /\ loading /\ got # Broken
  /\ autoDetect' = (got = AutoDetect)
  /\ zones' \in IF got = AutoDetect THEN Detected \cup {zones} ELSE {got}
  /\ loading' = FALSE /\ got' = Broken /\ detecting' = FALSE
  /\ UNCHANGED <<stored, open, saving, saves, asked, muddled>>

\* Mutant of handleToggle: the switch works while detection runs.
handleToggleAnytime ==
  /\ open /\ ~loading
  /\ autoDetect' = ~autoDetect
  /\ detecting' = (detecting \/ autoDetect')
  /\ UNCHANGED <<stored, open, zones, saving, loading, got, saves, asked, muddled>>

\* The switch is disabled while detection runs; to switch it on starts one.
handleToggle ==
  /\ open /\ ~detecting
  /\ autoDetect' = ~autoDetect
  /\ detecting' = autoDetect'
  /\ UNCHANGED <<stored, open, zones, saving, loading, got, saves, asked, muddled>>

handleDetect ==
  /\ open /\ autoDetect /\ ~detecting /\ detecting' = TRUE
  /\ UNCHANGED <<stored, open, autoDetect, zones, saving, loading, got, saves, asked, muddled>>

DetectAnswered ==
  /\ detecting /\ ~loading /\ detecting' = FALSE
  /\ zones' \in Detected \cup {zones}
  /\ UNCHANGED <<stored, open, autoDetect, saving, loading, got, saves, asked, muddled>>

handleZoneChange(g) ==
  /\ open /\ ~autoDetect /\ ~detecting /\ zones' = g
  /\ UNCHANGED <<stored, open, autoDetect, detecting, saving, loading, got, saves, asked, muddled>>

-----------------------------------------------------------------------------
(* Saving.                                                                 *)

handleSave(w) ==
  /\ open /\ ~saving /\ ~detecting /\ saves[w].at = "free"
  /\ saving' = TRUE
  /\ LET settings == IF autoDetect THEN AutoDetect ELSE zones IN
       /\ saves' = [saves EXCEPT ![w] = [at |-> "sent", settings |-> settings, mine |-> TRUE]]
       /\ asked' = settings
  /\ muddled' = ~Unsaved
  /\ UNCHANGED <<stored, open, autoDetect, zones, detecting, loading, got>>

WriteBegins(w) ==
  /\ saves[w].at = "sent"
  /\ stored' = Broken
  /\ saves' = [saves EXCEPT ![w].at = "writing"]
  /\ UNCHANGED <<dialog, asked, muddled>>

WriteEnds(w) ==
  /\ saves[w].at = "writing"
  /\ stored' = saves[w].settings
  /\ saves' = [saves EXCEPT ![w].at = "saved"]
  /\ UNCHANGED <<dialog, asked, muddled>>

\* The file cannot be opened, or not be written to its end.
WriteFailed(w) ==
  /\ saves[w].at \in {"sent", "writing"}
  /\ saves' = [saves EXCEPT ![w].at = "failed"]
  /\ muddled' = TRUE
  /\ UNCHANGED <<stored, dialog, asked>>

\* The modal is closed, be it the one that saved or one opened since.
SaveAnswered(w) ==
  /\ saves[w].at = "saved" /\ Gone
  /\ saves' = [Orphaned(saves) EXCEPT ![w] = NoSave]
  /\ UNCHANGED <<stored, asked, muddled>>

SaveRefused(w) ==
  /\ saves[w].at = "failed"
  /\ saves' = [saves EXCEPT ![w] = NoSave]
  /\ saving' = (saving /\ ~saves[w].mine)
  /\ UNCHANGED <<stored, open, autoDetect, zones, detecting, loading, got, asked, muddled>>

SettingsNext ==
  \/ handleSettingsOpen \/ handleSettingsClose \/ ReadForModal \/ Loaded
  \/ handleToggle \/ handleDetect \/ DetectAnswered
  \/ \E g \in Grids : handleZoneChange(g)
  \/ \E w \in Saves :
       handleSave(w) \/ WriteBegins(w) \/ WriteEnds(w) \/ WriteFailed(w)
       \/ SaveAnswered(w) \/ SaveRefused(w)

SettingsSpec == SettingsInit /\ [][SettingsNext]_settingsVars

-----------------------------------------------------------------------------

SettingsTypeOK ==
  /\ stored \in Grids \cup {AutoDetect, Broken} /\ got \in Grids \cup {AutoDetect, Broken}
  /\ zones \in Grids /\ asked \in Grids \cup {AutoDetect}
  /\ open \in BOOLEAN /\ autoDetect \in BOOLEAN /\ detecting \in BOOLEAN
  /\ saving \in BOOLEAN /\ loading \in BOOLEAN /\ muddled \in BOOLEAN
  /\ saves \in [Saves -> SaveState]

\* With no save in flight, overlapped or failed, the next start goes by what the
\* author last saved; a detection never replaces subnets that are being typed;
\* and a modal waits only for a save that will answer it (SettingsModal.tsx,
\* settings:set).
SettingsSaved ==
  /\ Unsaved /\ ~muddled => readSettings = asked
  /\ detecting /\ ~loading => autoDetect
  /\ saving => \E w \in Saves : saves[w].mine
=============================================================================
