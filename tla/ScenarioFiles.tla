---------------------------- MODULE ScenarioFiles ----------------------------
(***************************************************************************)
(* The .otflab files and the scenario on the canvas: scenario:import,      *)
(* scenario:export, scenario:deleteFile and pack:openScenario of           *)
(* main/index.ts, validateScenario, and the handlers of App.tsx and        *)
(* ExportModal.tsx that ask for them and take their answers.               *)
(*                                                                         *)
(* A scenario is the work it is, how many devices it has, what its         *)
(* security section holds and whether it is locked.  A request runs        *)
(* undisturbed from one await to the next; its answer meets whatever the   *)
(* canvas shows by then.                                                   *)
(***************************************************************************)
EXTENDS Naturals, FiniteSets

CONSTANTS Slots,     \* slots for requests in flight
          Files,     \* paths the file dialogs offer
          Shipped,   \* the file that is there from the start
          Works,     \* identities for scenarios made in the app
          Tutorial,  \* the scenario in Shipped
          Community, \* scenarios of installed packs
          Saved,     \* scenarios of saved sessions
          FreeMb,    \* memory that may be free when a file is opened
          Counts,    \* numbers of devices the author may arrive at
          Nothing,   \* no scenario, no file
          MaxAsks    \* bound on requests

ASSUME ShippedAssumption == Shipped \in Files
ASSUME NothingAssumption == Nothing \notin Files \cup Works
ASSUME SlotsAssumption   == Slots \cap {"closed", "open", "done"} = {}
ASSUME AsksAssumption    == MaxAsks \in Nat

Scenario ==
  [work : Works \cup {d.work : d \in Community \cup Saved \cup {Tutorial}},
   devices : Nat, security : {"full", "stub", "absent"}, locked : BOOLEAN]

\* Only a pack's scenario may come without a security section.
ASSUME ScenarioAssumption ==
  /\ Community \cup Saved \cup {Tutorial} \subseteq Scenario /\ Nothing \notin Scenario
  /\ \A d \in Saved \cup {Tutorial} : d.security # "absent"
  /\ Counts \subseteq Nat

VARIABLES
  files,       \* per path what is in it
  canvas,      \* App's scenario
  builder,     \* builderModeActive: Author Mode
  form,        \* the metadata form covers the window
  modal,       \* ExportModal: closed, open, done, or the request it waits for
  currentFilePath,
  activeScenarioFilePath, \* main's record of it
  activeRecord, \* LevelDB: the active scenario
  sim,         \* idle, starting or running
  lab,         \* the scenario being started
  refused,     \* the last start failed for what its scenario lacks
  request,     \* per slot the request in flight
  asks,        \* requests so far
  strayed      \* history: requests overlapped, or a pack's scenario was
               \* opened, since a new one was begun with nothing in flight

filesRenderer == <<canvas, builder, form, modal, currentFilePath, sim>>
filesMain     == <<files, activeScenarioFilePath, activeRecord, lab, refused>>
filesVars     == <<filesRenderer, filesMain, request, asks, strayed>>

MAX_DEVICES == 20
RAM_DEVICE == 80
FIXED_INFRA_RAM == 150 + 150 + 200 + 150 + 80 + 100 + 20

Free == [kind |-> "free", at |-> "free", doc |-> Nothing, file |-> Nothing]
NewScenario(w) == [work |-> w, devices |-> 0, security |-> "full", locked |-> FALSE]
Torn == [work |-> Nothing, devices |-> 0, security |-> "absent", locked |-> FALSE]

\* Devices are written with the fields the check asks for; of the security
\* section only the presence is checked.
validateScenario(doc) == doc.devices \in 1 .. MAX_DEVICES /\ doc.security # "absent"

\* What scenario:export writes for students: a stub where the rules were.
StudentCopy(doc) == [doc EXCEPT !.locked = TRUE, !.security = "stub"]

\* With the lightest devices.
estimateResources(doc) == doc.devices * RAM_DEVICE + FIXED_INFRA_RAM

\* From 60 % of the free memory on, the user is asked.
MemoryWarning(doc, free) == 100 * estimateResources(doc) >= 60 * free

\* generateCompose reads security.ids.enabledRulesets, which a stub has not.
Composable(doc) == doc.security = "full"

InUse(w) ==
  \/ canvas # Nothing /\ canvas.work = w
  \/ \E f \in Files : files[f] # Nothing /\ files[f].work = w
  \/ \E s \in Slots : request[s].doc # Nothing /\ request[s].doc.work = w
  \/ activeRecord # Nothing /\ activeRecord.work = w
  \/ lab # Nothing /\ lab.work = w

\* A native dialog belongs to the window and takes its input.
DialogOpen == \E s \in Slots : request[s].at \in {"dialog", "notice"}
Busy(s) == request[s] # Free
AllFree == \A s \in Slots : ~Busy(s)

\* The toolbar is in reach.
Toolbar == ~DialogOpen /\ ~form /\ modal = "closed"

FilesInit ==
  /\ files = [f \in Files |-> IF f = Shipped THEN Tutorial ELSE Nothing]
  /\ canvas = Nothing /\ builder = FALSE /\ form = FALSE /\ modal = "closed"
  /\ currentFilePath = Nothing /\ activeScenarioFilePath = Nothing
  /\ activeRecord = Nothing
  /\ sim = "idle" /\ lab = Nothing /\ refused = FALSE
  /\ request = [s \in Slots |-> Free] /\ asks = 0 /\ strayed = FALSE

\* A request is sent, or goes on, or is over.
Begin(s, kind, at, doc, file) ==
  /\ ~Busy(s)
  /\ asks < MaxAsks /\ asks' = asks + 1
  /\ request' = [request EXCEPT ![s] = [kind |-> kind, at |-> at, doc |-> doc, file |-> file]]
  /\ strayed' = (strayed \/ ~AllFree)
At(s, kind, at) == request[s].kind = kind /\ request[s].at = at
Proceed(s, at) == request' = [request EXCEPT ![s].at = at]
End(s) == request' = [request EXCEPT ![s] = Free]

-----------------------------------------------------------------------------
(* Opening a file.                                                         *)

handleImport(s) ==
  /\ Toolbar /\ sim = "idle"
  /\ Begin(s, "import", "dialog", Nothing, Nothing)
  /\ UNCHANGED <<filesRenderer, filesMain>>

PickFile(s) ==
  /\ At(s, "import", "dialog")
  /\ \/ End(s)
     \/ \E f \in Files :
          /\ files[f] # Nothing
          /\ request' = [request EXCEPT ![s].at = "read", ![s].file = f]
  /\ UNCHANGED <<filesRenderer, filesMain, strayed, asks>>

\* The file is read and checked; it may be gone or torn by now.  The user may
\* be asked about the memory it needs.
ReadFile(s) ==
  /\ At(s, "import", "read")
  /\ LET doc == files[request[s].file]
         open == doc # Nothing /\ validateScenario(doc)
     IN \/ ~open /\ End(s)
        \/ /\ open
           /\ \E free \in FreeMb :
                request' = [request EXCEPT ![s].doc = doc, ![s].at =
                              IF MemoryWarning(doc, free) THEN "notice" ELSE "save"]
  /\ UNCHANGED <<filesRenderer, filesMain, strayed, asks>>

AnswerNotice(s) ==
  /\ At(s, "import", "notice")
  /\ End(s) \/ Proceed(s, "save")
  /\ UNCHANGED <<filesRenderer, filesMain, strayed, asks>>

SaveImported(s) ==
  /\ At(s, "import", "save")
  /\ activeScenarioFilePath' = request[s].file
  /\ activeRecord' = request[s].doc
  /\ Proceed(s, "reply")
  /\ UNCHANGED <<filesRenderer, files, lab, refused, strayed, asks>>

\* Always View Mode after a file is opened.
ImportReply(s) ==
  /\ At(s, "import", "reply")
  /\ canvas' = request[s].doc /\ currentFilePath' = request[s].file
  /\ builder' = FALSE
  /\ End(s)
  /\ UNCHANGED <<form, modal, sim, filesMain, strayed, asks>>

-----------------------------------------------------------------------------
(* Exporting.                                                              *)

handleExportOpen ==
  /\ Toolbar /\ sim = "idle" /\ builder /\ canvas # Nothing
  /\ modal' = "open"
  /\ UNCHANGED <<canvas, builder, form, currentFilePath, sim, filesMain, request, strayed, asks>>

\* The copy is made of the scenario at the click.
handleExport(s, locked) ==
  /\ modal = "open" /\ ~DialogOpen
  /\ modal' = s
  /\ Begin(s, "export", "dialog", IF locked THEN StudentCopy(canvas) ELSE canvas, Nothing)
  /\ UNCHANGED <<canvas, builder, form, currentFilePath, sim, filesMain>>

\* Also while the export is under way, whose answer still reaches App.
handleExportClose ==
  /\ modal # "closed" /\ ~DialogOpen
  /\ modal' = "closed"
  /\ UNCHANGED <<canvas, builder, form, currentFilePath, sim, filesMain, request, strayed, asks>>

\* The modal that asked shows the result.
ShowResult(s) == modal' = IF modal = s THEN "done" ELSE modal

PickTarget(s) ==
  /\ At(s, "export", "dialog")
  /\ \/ End(s) /\ ShowResult(s)
     \/ \E f \in Files :
          /\ request' = [request EXCEPT ![s].at = "write", ![s].file = f]
          /\ UNCHANGED modal
  /\ UNCHANGED <<canvas, builder, form, currentFilePath, sim, filesMain, strayed, asks>>

WriteExport(s) ==
  /\ At(s, "export", "write")
  /\ files' = [files EXCEPT ![request[s].file] = request[s].doc]
  /\ activeScenarioFilePath' = request[s].file
  /\ Proceed(s, "reply")
  /\ UNCHANGED <<filesRenderer, activeRecord, lab, refused, strayed, asks>>

\* The file may have been emptied before the write failed.
WriteFails(s) ==
  /\ At(s, "export", "write")
  /\ files' \in {files, [files EXCEPT ![request[s].file] = Torn]}
  /\ End(s) /\ ShowResult(s)
  /\ UNCHANGED <<canvas, builder, form, currentFilePath, sim, activeScenarioFilePath,
                 activeRecord, lab, refused, strayed, asks>>

handleExportSuccess(s) ==
  /\ At(s, "export", "reply")
  /\ currentFilePath' = request[s].file
  /\ End(s) /\ ShowResult(s)
  /\ UNCHANGED <<canvas, builder, form, sim, filesMain, strayed, asks>>

-----------------------------------------------------------------------------
(* Deleting.                                                               *)

Cleared == IF canvas = Nothing THEN Nothing ELSE [canvas EXCEPT !.devices = 0]

\* The button is for authors; the file, if there is one, goes first.
handleDelete(s) ==
  /\ Toolbar /\ sim = "idle" /\ canvas # Nothing /\ ~canvas.locked
  /\ \/ /\ currentFilePath = Nothing
        /\ canvas' = Cleared
        /\ UNCHANGED <<request, asks, strayed>>
     \/ /\ currentFilePath # Nothing
        /\ Begin(s, "delete", "rm", canvas, currentFilePath)
        /\ UNCHANGED canvas
  /\ UNCHANGED <<builder, form, modal, currentFilePath, sim, filesMain>>

DeleteFile(s) ==
  /\ At(s, "delete", "rm")
  /\ \/ /\ files' = [files EXCEPT ![request[s].file] = Nothing]
        /\ activeScenarioFilePath' =
             IF activeScenarioFilePath = request[s].file THEN Nothing ELSE activeScenarioFilePath
     \/ UNCHANGED <<files, activeScenarioFilePath>>
  /\ Proceed(s, "reply")
  /\ UNCHANGED <<filesRenderer, activeRecord, lab, refused, strayed, asks>>

\* Removed or not, the canvas is cleared, whatever is on it by now.
DeleteReply(s) ==
  /\ At(s, "delete", "reply")
  /\ currentFilePath' = Nothing /\ canvas' = Cleared
  /\ End(s)
  /\ UNCHANGED <<builder, form, modal, sim, filesMain, strayed, asks>>

-----------------------------------------------------------------------------
(* Scenarios from elsewhere.                                               *)

\* New, or Scenario Builder: a blank scenario and the form about it.
handleNew(w) ==
  /\ Toolbar /\ sim = "idle" /\ ~InUse(w)
  /\ canvas' = NewScenario(w) /\ builder' = FALSE /\ form' = TRUE
  /\ currentFilePath' = Nothing
  /\ strayed' = ~AllFree
  /\ UNCHANGED <<modal, sim, filesMain, request, asks>>

handleMetadataSave ==
  /\ form /\ ~DialogOpen /\ form' = FALSE /\ builder' = TRUE
  /\ UNCHANGED <<canvas, modal, currentFilePath, sim, filesMain, request, strayed, asks>>

handleMetadataClose ==
  /\ form /\ ~DialogOpen /\ form' = FALSE
  /\ UNCHANGED <<canvas, builder, modal, currentFilePath, sim, filesMain, request, strayed, asks>>

\* The mode badge of an unlocked scenario is a button.
SwitchMode ==
  /\ Toolbar /\ canvas # Nothing /\ ~canvas.locked
  /\ builder' = ~builder
  /\ UNCHANGED <<canvas, form, modal, currentFilePath, sim, filesMain, request, strayed, asks>>

\* Devices are dropped or deleted; the canvas cannot be edited while a lab runs.
handleScenarioChange(n) ==
  /\ Toolbar /\ builder /\ canvas # Nothing /\ sim # "running"
  /\ canvas' = [canvas EXCEPT !.devices = n]
  /\ UNCHANGED <<builder, form, modal, currentFilePath, sim, filesMain, request, strayed, asks>>

\* The manager closes before the scenario is read.
handlePackOpen(s, doc) ==
  /\ Toolbar /\ sim = "idle" /\ canvas # Nothing /\ ~canvas.locked
  /\ Begin(s, "pack", "read", doc, Nothing)
  /\ UNCHANGED <<filesRenderer, filesMain>>

ReadPackScenario(s) ==
  /\ At(s, "pack", "read")
  /\ \/ ~validateScenario(request[s].doc) /\ End(s) /\ UNCHANGED activeRecord
     \/ /\ validateScenario(request[s].doc)
        /\ activeRecord' = request[s].doc
        /\ Proceed(s, "reply")
  /\ UNCHANGED <<filesRenderer, files, activeScenarioFilePath, lab, refused, strayed, asks>>

\* The path stays that of the file before.
PackReply(s) ==
  /\ At(s, "pack", "reply")
  /\ canvas' = request[s].doc
  /\ strayed' = TRUE
  /\ End(s)
  /\ UNCHANGED <<builder, form, modal, currentFilePath, sim, filesMain, asks>>

handleSessionPick(s, doc) ==
  /\ Toolbar /\ sim = "idle"
  /\ Begin(s, "session", "reply", doc, Nothing)
  /\ UNCHANGED <<filesRenderer, filesMain>>

\* Mutant of handleLoadSession: the path of the file before stays.
handleLoadSessionKeepsPath(s) ==
  /\ At(s, "session", "reply")
  /\ canvas' = request[s].doc /\ builder' = FALSE
  /\ sim' = "starting" /\ lab' = request[s].doc
  /\ End(s)
  /\ UNCHANGED <<form, modal, currentFilePath, files, activeScenarioFilePath, activeRecord,
                 refused, strayed, asks>>

\* The loaded scenario starts at once.
handleLoadSession(s) ==
  /\ At(s, "session", "reply")
  /\ canvas' = request[s].doc /\ builder' = FALSE
  /\ currentFilePath' = Nothing
  /\ sim' = "starting" /\ lab' = request[s].doc
  /\ End(s)
  /\ UNCHANGED <<form, modal, files, activeScenarioFilePath, activeRecord, refused, strayed, asks>>

-----------------------------------------------------------------------------
(* The lab.                                                                *)

handleStart ==
  /\ Toolbar /\ sim = "idle" /\ canvas # Nothing /\ canvas.devices > 0
  /\ sim' = "starting" /\ lab' = canvas
  /\ UNCHANGED <<canvas, builder, form, modal, currentFilePath, files,
                 activeScenarioFilePath, activeRecord, refused, request, strayed, asks>>

\* Without Docker nothing is generated; a scenario that cannot be generated
\* never comes up.
StartReply ==
  /\ sim = "starting"
  /\ \/ Composable(lab) /\ sim' \in {"idle", "running"} /\ refused' = FALSE
     \/ ~Composable(lab) /\ sim' = "idle" /\ refused' \in BOOLEAN
  /\ lab' = Nothing
  /\ UNCHANGED <<canvas, builder, form, modal, currentFilePath, files,
                 activeScenarioFilePath, activeRecord, request, strayed, asks>>

handleStop ==
  /\ sim = "running" /\ sim' = "idle"
  /\ activeRecord' = Nothing
  /\ UNCHANGED <<canvas, builder, form, modal, currentFilePath, files,
                 activeScenarioFilePath, lab, refused, request, strayed, asks>>

\* The app ends and is started again: the active record is put on the canvas.
Relaunch ==
  /\ canvas' = activeRecord
  /\ builder' = FALSE /\ form' = FALSE /\ modal' = "closed"
  /\ currentFilePath' = Nothing /\ activeScenarioFilePath' = Nothing
  /\ sim' = "idle" /\ lab' = Nothing /\ refused' = FALSE
  /\ request' = [s \in Slots |-> Free] /\ strayed' = FALSE
  /\ UNCHANGED <<files, activeRecord, asks>>

FilesNext ==
  \/ \E s \in Slots :
       \/ handleImport(s) \/ PickFile(s) \/ ReadFile(s) \/ AnswerNotice(s)
       \/ SaveImported(s) \/ ImportReply(s)
       \/ \E locked \in BOOLEAN : handleExport(s, locked)
       \/ PickTarget(s) \/ WriteExport(s) \/ WriteFails(s) \/ handleExportSuccess(s)
       \/ handleDelete(s) \/ DeleteFile(s) \/ DeleteReply(s)
       \/ \E doc \in Community : handlePackOpen(s, doc)
       \/ ReadPackScenario(s) \/ PackReply(s)
       \/ \E doc \in Saved : handleSessionPick(s, doc)
       \/ handleLoadSession(s)
  \/ handleExportOpen \/ handleExportClose
  \/ \E w \in Works : handleNew(w)
  \/ handleMetadataSave \/ handleMetadataClose \/ SwitchMode
  \/ \E n \in Counts : handleScenarioChange(n)
  \/ handleStart \/ StartReply \/ handleStop \/ Relaunch

FilesSpec == FilesInit /\ [][FilesNext]_filesVars

-----------------------------------------------------------------------------

Document == Scenario \cup {Torn}

FilesTypeOK ==
  /\ files \in [Files -> Document \cup {Nothing}]
  /\ canvas \in Scenario \cup {Nothing} /\ activeRecord \in Scenario \cup {Nothing}
  /\ lab \in Scenario \cup {Nothing} /\ (sim = "starting" => lab # Nothing)
  /\ builder \in BOOLEAN /\ form \in BOOLEAN /\ refused \in BOOLEAN /\ strayed \in BOOLEAN
  /\ modal \in {"closed", "open", "done"} \cup Slots
  /\ {currentFilePath, activeScenarioFilePath} \subseteq Files \cup {Nothing}
  /\ sim \in {"idle", "starting", "running"}
  /\ \A s \in Slots : request[s].file \in Files \cup {Nothing}

\* What was exported with at least one and no more than twenty devices opens
\* again, as an author's copy and as a student's (scenario:export,
\* validateScenario).
CopiesOpen ==
  \A f \in Files :
    files[f] \notin {Nothing, Torn} /\ files[f].devices \in 1 .. MAX_DEVICES =>
      validateScenario(files[f])

\* With requests one at a time and no pack's scenario opened, the file Delete
\* would take is the one the canvas was opened from or last saved to, and main
\* has recorded the same one (App.tsx, scenario:import, scenario:export).
PathIsOurs ==
  currentFilePath # Nothing /\ AllFree /\ ~strayed =>
    /\ (files[currentFilePath] \in {Nothing, Torn} \/ files[currentFilePath].work = canvas.work)
    /\ activeScenarioFilePath = currentFilePath

FilesSound == CopiesOpen /\ PathIsOurs

\* What Delete removes is the file of the scenario it was asked to delete: "Absolute path
\* of the .otflab file currently open in the canvas" (App.tsx:609).
DeleteTakesOwnFile ==
  \A s \in Slots :
    At(s, "delete", "rm") /\ files[request[s].file] \notin {Nothing, Torn} =>
      files[request[s].file].work = request[s].doc.work

\* A student's copy can be started: "Students receive the device list and
\* network config so Docker can spin up the environment" (ExportModal.tsx:14).
StudentCopyStarts == ~refused
=============================================================================
