---------------------------- MODULE SimLifecycle ----------------------------
(***************************************************************************)
(* The life of a simulation: the renderer's status machine (App.tsx), the  *)
(* IPC handlers of the Electron main process (main/index.ts), the Docker   *)
(* Compose commands they await (docker-client.ts) and the one record kept  *)
(* on disk (db.ts).                                                        *)
(*                                                                         *)
(* A handler runs without interruption from one await to the next, so each *)
(* stretch between two awaits is one action.  A request in flight occupies *)
(* a call slot; pc[c] names the stretch that runs next.  Nothing in main   *)
(* orders two requests: their stretches interleave freely.                 *)
(***************************************************************************)
EXTENDS Naturals, FiniteSets

CONSTANTS Projects,     \* Compose project names of the scenarios in play
          Services,     \* services of a generated compose file
          Calls,        \* slots for requests in flight from the renderer
          NoProject,    \* null: no scenario, no active project, no record
          Patient,      \* TRUE: the user waits for the last request to be
                        \* answered before the next click (not enforced by the UI)
          MaxRelaunch   \* bound on quits of the app

ASSUME NoProjectAssumption == NoProject \notin Projects
ASSUME PatientAssumption   == Patient \in BOOLEAN
ASSUME RelaunchAssumption  == MaxRelaunch \in Nat

VARIABLES
  simStatus,    \* App.tsx state: what the toolbar shows
  view,         \* App.tsx state: launch screen or canvas
  canvas,       \* scenario on the canvas; NoProject: none, or without devices
  picker,       \* session picker overlay is open
  pills,        \* project whose container statuses the canvas shows
  pc, proj, left, \* per call: next stretch, its project, services still to create
  activeProject, activeZones, activePorts,  \* main's module variables
  active,       \* LevelDB key active-scenario
  containers,   \* Docker: services of each project that have a container
  leftover,     \* history: projects with a teardown that failed or an app that quit
  relaunches

renderer == <<simStatus, view, canvas, picker, pills>>
calls    == <<pc, proj, left>>
main     == <<activeProject, activeZones, activePorts>>
docker   == <<containers, leftover>>
vars     == <<renderer, calls, main, active, docker, relaunches>>

Maybe == Projects \cup {NoProject}

StartPcs == {"startSent", "claimed", "provisioned", "up", "upDone",
             "rollback", "failed", "startOk", "startErr"}
StopPcs  == {"stopSent", "down", "downDone", "dbCleared", "stopReply"}
PollPcs  == {"pollSent", "pollNamed", "pollReply"}
OpenPcs  == {"listSent", "loadSent", "importSent", "importRead"}
UserPcs  == StartPcs \cup StopPcs \cup OpenPcs

Waiting(pcs) == {c \in Calls : pc[c] \in pcs}

Init ==
  /\ simStatus = "idle" /\ view = "launch" /\ canvas = NoProject
  /\ picker = FALSE /\ pills = NoProject
  /\ pc = [c \in Calls |-> "free"]
  /\ proj = [c \in Calls |-> NoProject]
  /\ left = [c \in Calls |-> {}]
  /\ activeProject = NoProject /\ activeZones = NoProject /\ activePorts = NoProject
  /\ active = NoProject
  /\ containers = [p \in Projects |-> {}]
  /\ leftover = {}
  /\ relaunches = 0

-----------------------------------------------------------------------------
(* The user and the renderer.                                              *)

\* The user may click; while it is open the picker's overlay covers the rest.
MayAsk    == Patient => Waiting(UserPcs) = {}
Clickable == MayAsk /\ ~picker

Send(c, label, p) ==
  /\ pc[c] = "free"
  /\ pc' = [pc EXCEPT ![c] = label]
  /\ proj' = [proj EXCEPT ![c] = p]
  /\ left' = [left EXCEPT ![c] = {}]

\* The answer of a request has been delivered: its slot is free again.
Done(c) ==
  /\ pc' = [pc EXCEPT ![c] = "free"]
  /\ proj' = [proj EXCEPT ![c] = NoProject]
  /\ left' = [left EXCEPT ![c] = {}]

\* handleStart -> startSimulation: the Run button.
ClickRun(c) ==
  /\ Clickable /\ simStatus = "idle" /\ view = "canvas" /\ canvas # NoProject
  /\ Send(c, "startSent", canvas)
  /\ simStatus' = "starting" /\ pills' = NoProject
  /\ UNCHANGED <<view, canvas, picker, main, active, docker, relaunches>>

\* handleStop: the Stop button is shown, and enabled, while starting too.
ClickStop(c) ==
  /\ Clickable /\ simStatus \in {"running", "starting"}
  /\ Send(c, "stopSent", NoProject)
  /\ simStatus' = "stopping"
  /\ UNCHANGED <<view, canvas, picker, pills, main, active, docker, relaunches>>

\* handleOpenSessionPicker
ClickSessions(c) ==
  /\ Clickable /\ simStatus = "idle"
  /\ Send(c, "listSent", NoProject)
  /\ UNCHANGED <<renderer, main, active, docker, relaunches>>

PickerOpens(c) ==
  /\ pc[c] = "listSent"
  /\ Done(c)
  /\ picker' = TRUE
  /\ UNCHANGED <<simStatus, view, canvas, pills, main, active, docker, relaunches>>

PickerCancel ==
  /\ picker /\ MayAsk
  /\ picker' = FALSE
  /\ UNCHANGED <<simStatus, view, canvas, pills, calls, main, active, docker, relaunches>>

\* handleLoadSession: the entry stays clickable until the answer closes the picker.
ClickLoad(c, p) ==
  /\ picker /\ MayAsk
  /\ Send(c, "loadSent", p)
  /\ UNCHANGED <<renderer, main, active, docker, relaunches>>

\* The answer to session:load shows the scenario and starts it, whatever the
\* status has become meanwhile.
LoadReply(c) ==
  /\ pc[c] = "loadSent"
  /\ picker' = FALSE
  /\ \/ /\ pc' = [pc EXCEPT ![c] = "startSent"]
        /\ view' = "canvas" /\ canvas' = proj[c]
        /\ simStatus' = "starting" /\ pills' = NoProject
        /\ UNCHANGED <<proj, left>>
     \/ /\ Done(c)
        /\ UNCHANGED <<view, canvas, simStatus, pills>>
  /\ UNCHANGED <<main, active, docker, relaunches>>

\* handleImport and handlePackOpenScenario; main stores the scenario in LevelDB
\* before it answers.  The file dialog is modal.
ClickImport(c) ==
  /\ Clickable /\ simStatus = "idle"
  /\ Send(c, "importSent", NoProject)
  /\ UNCHANGED <<renderer, main, active, docker, relaunches>>

ImportRead(c, p) ==
  /\ pc[c] = "importSent"
  /\ \/ /\ pc' = [pc EXCEPT ![c] = "importRead"]
        /\ proj' = [proj EXCEPT ![c] = p]
        /\ active' = p
        /\ UNCHANGED left
     \/ /\ Done(c)    \* cancelled, unreadable or invalid
        /\ UNCHANGED active
  /\ UNCHANGED <<renderer, main, docker, relaunches>>

ImportReply(c) ==
  /\ pc[c] = "importRead"
  /\ Done(c)
  /\ view' = "canvas" /\ canvas' = proj[c]
  /\ UNCHANGED <<simStatus, picker, pills, main, active, docker, relaunches>>

\* handleNew, handleScenarioBuilderClick, handleDelete, and edits of the canvas:
\* the scenario gets another name, or loses or gains its devices.
Edit(p) ==
  /\ Clickable /\ simStatus = "idle" /\ p # canvas
  /\ view' = "canvas" /\ canvas' = p
  /\ UNCHANGED <<simStatus, picker, pills, calls, main, active, docker, relaunches>>

\* The effect that polls every 3 s while running.
PollSend(c) ==
  /\ simStatus = "running"
  /\ Send(c, "pollSent", NoProject)
  /\ UNCHANGED <<renderer, main, active, docker, relaunches>>

\* Mutant of PollReply: an empty list is taken for the end of the simulation.
PollReplyStops(c) ==
  /\ pc[c] = "pollReply"
  /\ Done(c)
  /\ pills' = proj[c]
  /\ simStatus' = IF proj[c] = NoProject THEN "idle" ELSE simStatus
  /\ UNCHANGED <<view, canvas, picker, main, active, docker, relaunches>>

PollReply(c) ==
  /\ pc[c] = "pollReply"
  /\ Done(c)
  /\ pills' = proj[c]
  /\ UNCHANGED <<simStatus, view, canvas, picker, main, active, docker, relaunches>>

\* Mutants of StartReply: the answer stored as the status; an error that leaves
\* the status alone; an answer that is not looked at.
StartReplyStored(c) ==
  /\ pc[c] \in {"startOk", "startErr"}
  /\ Done(c)
  /\ simStatus' = pc[c]
  /\ UNCHANGED <<view, canvas, picker, pills, main, active, docker, relaunches>>

StartReplyKeepsStarting(c) ==
  /\ pc[c] \in {"startOk", "startErr"}
  /\ Done(c)
  /\ simStatus' = IF pc[c] = "startOk" THEN "running" ELSE simStatus
  /\ UNCHANGED <<view, canvas, picker, pills, main, active, docker, relaunches>>

StartReplyUnread(c) ==
  /\ pc[c] \in {"startOk", "startErr"}
  /\ Done(c)
  /\ simStatus' = "running"
  /\ UNCHANGED <<view, canvas, picker, pills, main, active, docker, relaunches>>

\* startSimulation after its await.
StartReply(c) ==
  /\ pc[c] \in {"startOk", "startErr"}
  /\ Done(c)
  /\ simStatus' = IF pc[c] = "startOk" THEN "running" ELSE "idle"
  /\ UNCHANGED <<view, canvas, picker, pills, main, active, docker, relaunches>>

\* Mutant of StopReply: a stop that failed leaves the status alone.
StopReplyChecked(c) ==
  /\ pc[c] = "stopReply"
  /\ Done(c)
  /\ simStatus' = IF activeProject = NoProject THEN "idle" ELSE simStatus
  /\ pills' = NoProject
  /\ UNCHANGED <<view, canvas, picker, main, active, docker, relaunches>>

\* handleStop after its await: the result is not looked at.
StopReply(c) ==
  /\ pc[c] = "stopReply"
  /\ Done(c)
  /\ simStatus' = "idle" /\ pills' = NoProject
  /\ UNCHANGED <<view, canvas, picker, main, active, docker, relaunches>>

-----------------------------------------------------------------------------
(* simulation:start.                                                       *)

\* dockerClient.isAvailable() has answered: refuse, or claim the project name
\* and fill the port maps.  A project that is already active is not looked for.
StartClaim(c) ==
  /\ pc[c] = "startSent"
  /\ \/ /\ pc' = [pc EXCEPT ![c] = "claimed"]
        /\ activeProject' = proj[c] /\ activePorts' = proj[c]
     \/ /\ pc' = [pc EXCEPT ![c] = "startErr"]
        /\ UNCHANGED <<activeProject, activePorts>>
  /\ UNCHANGED <<renderer, proj, left, activeZones, active, docker, relaunches>>

\* Mutant of StartProvision: the zones of the last run are kept.
StartProvisionOldZones(c) ==
  /\ pc[c] = "claimed"
  /\ pc' = [pc EXCEPT ![c] = "provisioned"]
  /\ UNCHANGED <<renderer, proj, left, main, active, docker, relaunches>>

\* resolveZones, writeGrafanaProvisioning and generateCompose: the zones are
\* captured, or one of them throws and the catch block resets name and ports.
StartProvision(c) ==
  /\ pc[c] = "claimed"
  /\ \/ /\ pc' = [pc EXCEPT ![c] = "provisioned"]
        /\ activeZones' = proj[c]
        /\ UNCHANGED <<activeProject, activePorts>>
     \/ /\ pc' = [pc EXCEPT ![c] = "startErr"]
        /\ activeProject' = NoProject /\ activePorts' = NoProject
        /\ UNCHANGED activeZones
  /\ UNCHANGED <<renderer, proj, left, active, docker, relaunches>>

\* docker compose down of one project: all of it, or an error part of the way.
Down(p) ==
  \/ /\ containers' = [containers EXCEPT ![p] = {}]
     /\ leftover' = leftover \ {p}
  \/ /\ \E rest \in SUBSET containers[p] : containers' = [containers EXCEPT ![p] = rest]
     /\ leftover' = leftover \cup {p}

\* startScenario: write the compose file, clear what an unclean stop left
\* (best effort), then docker compose up begins.
StartClear(c) ==
  /\ pc[c] = "provisioned"
  /\ \/ /\ Down(proj[c])
        /\ pc' = [pc EXCEPT ![c] = "up"]
        /\ left' = [left EXCEPT ![c] = Services]
     \/ /\ pc' = [pc EXCEPT ![c] = "rollback"]    \* mkdir or writeFile failed
        /\ UNCHANGED <<docker, left>>
  /\ UNCHANGED <<renderer, proj, main, active, relaunches>>

\* _composeUp: one service at a time, until all are there or the command fails.
UpService(c, s) ==
  /\ pc[c] = "up" /\ s \in left[c]
  /\ left' = [left EXCEPT ![c] = @ \ {s}]
  /\ containers' = [containers EXCEPT ![proj[c]] = @ \cup {s}]
  /\ UNCHANGED <<renderer, pc, proj, main, active, leftover, relaunches>>

UpEnds(c) ==
  /\ pc[c] = "up"
  /\ \/ left[c] = {} /\ pc' = [pc EXCEPT ![c] = "upDone"]
     \/ pc' = [pc EXCEPT ![c] = "rollback"]
  /\ UNCHANGED <<renderer, proj, left, main, active, docker, relaunches>>

\* Mutant of StartRollback: no teardown of what did come up.
StartRollbackLeaves(c) ==
  /\ pc[c] = "rollback"
  /\ pc' = [pc EXCEPT ![c] = "failed"]
  /\ UNCHANGED <<renderer, proj, left, main, active, docker, relaunches>>

\* The catch block of startScenario tears down the partial state (best effort).
StartRollback(c) ==
  /\ pc[c] = "rollback"
  /\ Down(proj[c])
  /\ pc' = [pc EXCEPT ![c] = "failed"]
  /\ UNCHANGED <<renderer, proj, left, main, active, relaunches>>

\* startScenario returned { ok: false }: only the name is reset.
StartFailed(c) ==
  /\ pc[c] = "failed"
  /\ pc' = [pc EXCEPT ![c] = "startErr"]
  /\ activeProject' = NoProject
  /\ UNCHANGED <<renderer, proj, left, activeZones, activePorts, active, docker, relaunches>>

\* After startScenario: two seconds, getStatus, and the answer { ok: true }.
StartSettled(c) ==
  /\ pc[c] = "upDone"
  /\ pc' = [pc EXCEPT ![c] = "startOk"]
  /\ UNCHANGED <<renderer, proj, left, main, active, docker, relaunches>>

(* simulation:stop.  The name is read once, before the await.              *)

StopBegin(c) ==
  /\ pc[c] = "stopSent"
  /\ \/ /\ activeProject = NoProject
        /\ pc' = [pc EXCEPT ![c] = "stopReply"]
        /\ UNCHANGED proj
     \/ /\ activeProject # NoProject
        /\ pc' = [pc EXCEPT ![c] = "down"]
        /\ proj' = [proj EXCEPT ![c] = activeProject]
  /\ UNCHANGED <<renderer, left, main, active, docker, relaunches>>

StopDown(c) ==
  /\ pc[c] = "down"
  /\ Down(proj[c])
  /\ pc' = [pc EXCEPT ![c] = IF proj[c] \in leftover' THEN "stopReply" ELSE "downDone"]
  /\ UNCHANGED <<renderer, proj, left, main, active, relaunches>>

\* clearActiveScenario swallows every error.
StopClearDb(c) ==
  /\ pc[c] = "downDone"
  /\ pc' = [pc EXCEPT ![c] = "dbCleared"]
  /\ active' \in {NoProject, active}
  /\ UNCHANGED <<renderer, proj, left, main, docker, relaunches>>

StopReset(c) ==
  /\ pc[c] = "dbCleared"
  /\ pc' = [pc EXCEPT ![c] = "stopReply"]
  /\ activeProject' = NoProject /\ activeZones' = NoProject /\ activePorts' = NoProject
  /\ UNCHANGED <<renderer, proj, left, active, docker, relaunches>>

(* simulation:status.                                                      *)

PollName(c) ==
  /\ pc[c] = "pollSent"
  /\ pc' = [pc EXCEPT ![c] = "pollNamed"]
  /\ proj' = [proj EXCEPT ![c] = activeProject]
  /\ UNCHANGED <<renderer, left, main, active, docker, relaunches>>

\* getStatus: no containers, or docker compose ps fails, is an empty list.
PollPs(c) ==
  /\ pc[c] = "pollNamed"
  /\ pc' = [pc EXCEPT ![c] = "pollReply"]
  /\ \/ /\ proj[c] # NoProject /\ containers[proj[c]] # {}
        /\ UNCHANGED proj
     \/ proj' = [proj EXCEPT ![c] = NoProject]
  /\ UNCHANGED <<renderer, left, main, active, docker, relaunches>>

-----------------------------------------------------------------------------
\* The app quits and is opened again.  Nothing tears the containers down, and
\* a compose command under way goes on by itself.  main then reads the record
\* and sends scenario:restored, which no listener of the renderer receives.
UpUnderWay(p)   == UNION {left[c] : c \in {d \in Waiting({"up"}) : proj[d] = p}}
DownUnderWay(p) == \E c \in Waiting({"provisioned", "rollback", "down"}) : proj[c] = p

Relaunch ==
  /\ relaunches < MaxRelaunch
  /\ relaunches' = relaunches + 1
  /\ \E now \in [Projects -> SUBSET Services] :
       /\ \A p \in Projects :
            /\ now[p] \subseteq containers[p] \cup UpUnderWay(p)
            /\ DownUnderWay(p) \/ containers[p] \subseteq now[p]
       /\ containers' = now
       /\ leftover' = leftover \cup {p \in Projects : now[p] # {}}
  /\ simStatus' = "idle" /\ view' = "launch" /\ canvas' = NoProject
  /\ picker' = FALSE /\ pills' = NoProject
  /\ pc' = [c \in Calls |-> "free"]
  /\ proj' = [c \in Calls |-> NoProject]
  /\ left' = [c \in Calls |-> {}]
  /\ activeProject' = NoProject /\ activeZones' = NoProject /\ activePorts' = NoProject
  /\ UNCHANGED active

User(c) == \/ ClickRun(c) \/ ClickStop(c) \/ ClickSessions(c) \/ ClickImport(c)
           \/ \E p \in Projects : ClickLoad(c, p)

\* What carries a request to its answer.
Serve(c) ==
  \/ PickerOpens(c) \/ LoadReply(c) \/ ImportReply(c)
  \/ \E p \in Projects : ImportRead(c, p)
  \/ StartClaim(c) \/ StartProvision(c) \/ StartClear(c)
  \/ \E s \in Services : UpService(c, s)
  \/ UpEnds(c) \/ StartRollback(c) \/ StartFailed(c) \/ StartSettled(c) \/ StartReply(c)
  \/ StopBegin(c) \/ StopDown(c) \/ StopClearDb(c) \/ StopReset(c) \/ StopReply(c)
  \/ PollName(c) \/ PollPs(c) \/ PollReply(c)

Next ==
  \/ \E c \in Calls : User(c) \/ PollSend(c) \/ Serve(c)
  \/ \E p \in Maybe : Edit(p)
  \/ PickerCancel
  \/ Relaunch

Spec == Init /\ [][Next]_vars

\* Every request is answered: the event loop runs each continuation, and the
\* commands awaited (docker, LevelDB, a timer) end.  Nobody has to click.
Fairness == \A c \in Calls : WF_vars(Serve(c))

FairSpec == Spec /\ Fairness

-----------------------------------------------------------------------------
\* What each variable may hold.
TypeOK ==
  /\ simStatus \in {"idle", "starting", "running", "stopping"}
  /\ view \in {"launch", "canvas"}
  /\ canvas \in Maybe /\ pills \in Maybe /\ active \in Maybe
  /\ picker \in BOOLEAN
  /\ pc \in [Calls -> UserPcs \cup PollPcs \cup {"free"}]
  /\ proj \in [Calls -> Maybe]
  /\ left \in [Calls -> SUBSET Services]
  /\ activeProject \in Maybe /\ activeZones \in Maybe /\ activePorts \in Maybe
  /\ containers \in [Projects -> SUBSET Services]
  /\ leftover \in SUBSET Projects
  /\ relaunches \in 0..MaxRelaunch

\* The toolbar never hangs: while it shows Starting or Stopping, a request is
\* in flight whose answer will move it on (App.tsx startSimulation, handleStop).
NeverStuck ==
  /\ simStatus = "starting" => Waiting(StartPcs) # {}
  /\ simStatus = "stopping" => Waiting(StopPcs) # {}

\* A simulation shown as running is the scenario on the canvas and the project
\* main has claimed, with its zones and ports, so that Stop, the firewall reload
\* and the port maps reach it.
RunningIsNamed ==
  simStatus = "running" =>
    /\ canvas # NoProject
    /\ activeProject = canvas /\ activeZones = canvas /\ activePorts = canvas

\* No containers are forgotten: those that exist belong to the active project,
\* or to a project whose teardown failed or that was up when the app quit.
Accounted ==
  \A p \in Projects : containers[p] # {} => p = activeProject \/ p \in leftover

\* The toolbar is idle over a project main still holds only when docker compose
\* down has failed for it (handleStop does not look at the result).
IdleLetsGo ==
  simStatus = "idle" /\ activeProject # NoProject => activeProject \in leftover

\* A container is created only for the project main has claimed.
UpOnlyNamedStep ==
  \A p \in Projects : \A s \in containers'[p] \ containers[p] :
     p = activeProject \/ relaunches' # relaunches

\* Main's name for a lab is there before its first container and stays until its
\* last answer: what runs is what is on the canvas, and what is created is what
\* main has claimed (simulation:start).
NameHolds == [][RunningIsNamed' /\ UpOnlyNamedStep]_vars

\* Main loses track of no lab: containers without a name in main, and a name in
\* main under an idle toolbar, both come from a teardown that failed or a quit.
NothingForgotten == Accounted /\ IdleLetsGo

\* A running simulation leaves the toolbar's running state only through Stop:
\* no late answer of an earlier request takes it away.
RunningUntilStop ==
  [][simStatus = "running" /\ simStatus' # "running"
       => simStatus' = "stopping" \/ relaunches' # relaunches]_vars

\* Starting comes to an end: every path of simulation:start answers, and
\* startSimulation looks at every answer.
StartingEnds == simStatus = "starting" ~> simStatus # "starting"

\* Stopping comes to an end, whatever docker compose down returned.
StoppingEnds == simStatus = "stopping" ~> simStatus # "stopping"

\* Neither of the two states without controls lasts (startSimulation, handleStop).
TransitionsEnd == StartingEnds /\ StoppingEnds

-----------------------------------------------------------------------------
\* The abstract lifecycle this one implements when the user is patient.
Lab == INSTANCE LabLifecycle WITH Labs <- Projects, NoLab <- NoProject,
                                  status <- simStatus, shown <- canvas, lab <- activeProject
LabSpec == Lab!Spec

=============================================================================
