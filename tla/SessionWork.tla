----------------------------- MODULE SessionWork -----------------------------
(***************************************************************************)
(* The student's saved work: Save Session captures the lab folder of the   *)
(* workstation container, Load Session arms a one-shot restore, and a task *)
(* that outlives simulation:start creates the folder and copies the saved  *)
(* work back (main/index.ts, sessions.ts).                                 *)
(*                                                                         *)
(* The contents of a folder are one version number: 0 is the README alone, *)
(* and each edit of the student takes the next number.  Starting and       *)
(* stopping are one action each (SimLifecycle has their stretches); every  *)
(* scenario has one workstation.                                           *)
(***************************************************************************)
EXTENDS Integers, FiniteSets

CONSTANTS Projects,   \* projects of the labs in play
          Tasks,      \* slots for configureWorkstationSaveFolder under way
          NoProject,
          Absent,     \* no such folder
          MaxVersion, \* bound on edits
          MaxMishaps  \* bound on kinds of mishap

ASSUME NoProjectAssumption == NoProject \notin Projects
ASSUME AbsentAssumption    == Absent \notin Nat
ASSUME BoundAssumption     == MaxVersion \in Nat /\ MaxMishaps \in Nat

VARIABLES
  phase,      \* idle, starting, running
  current,    \* project starting or running, else NoProject
  folder,     \* per project: lab folder in its workstation, if that exists
  pendingSessionRestore,
  tpc, tproj, \* per task: next stretch, its pinned project
  spc, sproj, \* Save Session under way, its project
  session,    \* projects with a session.json
  labWork,    \* per project: sessions/<project>/lab-work on disk
  version,    \* edits so far
  author,     \* history: the project each version was made in
  captured,   \* history: what the last successful capture of a project took
  loaded,     \* history: the version this run was loaded with; Absent: none
  base,       \* history: edits before this run
  restores,   \* history: per project, restores since its session was loaded
  mishaps     \* history: what has gone wrong so far (Mishaps below)

sim   == <<phase, current, folder>>
tasks == <<tpc, tproj>>
saves == <<spc, sproj>>
disk  == <<session, labWork>>
ghost == <<author, captured, loaded, base, restores, mishaps>>
vars  == <<sim, pendingSessionRestore, tasks, saves, disk, version, ghost>>

\* unready: the student edited, saved or stopped while the lab folder was not
\* set up; docker: a docker command failed; start: a start failed; quit: the
\* app quit.
Mishaps == {"unready", "docker", "start", "quit"}

Contents == 0..MaxVersion \cup {Absent}

\* The container of a project exists while the project is up.
Up(p) == phase = "running" /\ current = p

Init ==
  /\ phase = "idle" /\ current = NoProject
  /\ folder = [p \in Projects |-> Absent]
  /\ pendingSessionRestore = NoProject
  /\ tpc = [t \in Tasks |-> "free"] /\ tproj = [t \in Tasks |-> NoProject]
  /\ spc = "free" /\ sproj = NoProject
  /\ session = {}
  /\ labWork = [p \in Projects |-> Absent]
  /\ version = 0
  /\ author = [v \in 1..MaxVersion |-> NoProject]
  /\ captured = [p \in Projects |-> Absent]
  /\ loaded = Absent /\ base = 0
  /\ restores = [p \in Projects |-> 0]
  /\ mishaps = {}

TasksDone == \A t \in Tasks : tpc[t] = "free"
FolderSetUp == Up(current) /\ folder[current] # Absent /\ TasksDone

\* Records m if it is one.
Note(m, happens) ==
  /\ mishaps' = mishaps \cup (IF happens THEN {m} ELSE {})
  /\ Cardinality(mishaps') <= MaxMishaps

-----------------------------------------------------------------------------
(* The life of a run.                                                      *)

\* The Run button: a fresh run.
Run(p) ==
  /\ phase = "idle"
  /\ phase' = "starting" /\ current' = p
  /\ loaded' = Absent
  /\ UNCHANGED <<folder, pendingSessionRestore, tasks, saves, disk, version,
                 author, captured, base, restores, mishaps>>

\* session:load arms the restore, and the renderer starts the lab at once.
Load(p) ==
  /\ phase = "idle" /\ p \in session
  /\ pendingSessionRestore' = p
  /\ phase' = "starting" /\ current' = p
  /\ loaded' = labWork[p]
  /\ restores' = [restores EXCEPT ![p] = 0]
  /\ UNCHANGED <<folder, tasks, saves, disk, version, author, captured, base, mishaps>>

\* Mutant of StartOk: the armed restore is consumed before it is made.
StartOkConsumes(t) ==
  /\ phase = "starting" /\ tpc[t] = "free"
  /\ phase' = "running"
  /\ tpc' = [tpc EXCEPT ![t] = "boot"]
  /\ tproj' = [tproj EXCEPT ![t] = current]
  /\ base' = version
  /\ pendingSessionRestore' = NoProject
  /\ UNCHANGED <<current, folder, saves, disk, version, author, captured, loaded, restores, mishaps>>

\* The end of simulation:start: new containers, and a task of which nobody
\* waits for the end.  It pins the project name before its first await.
StartOk(t) ==
  /\ phase = "starting" /\ tpc[t] = "free"
  /\ phase' = "running"
  /\ tpc' = [tpc EXCEPT ![t] = "boot"]
  /\ tproj' = [tproj EXCEPT ![t] = current]
  /\ base' = version
  /\ UNCHANGED <<current, folder, pendingSessionRestore, saves, disk, version,
                 author, captured, loaded, restores, mishaps>>

\* Mutant of StartFails: the name is not given up.
StartFailsNamed ==
  /\ phase = "starting"
  /\ phase' = "idle"
  /\ UNCHANGED <<current, folder, pendingSessionRestore, tasks, saves, disk, version, ghost>>

\* Every way simulation:start has to fail; the armed restore stays armed.
StartFails ==
  /\ phase = "starting"
  /\ phase' = "idle" /\ current' = NoProject
  /\ Note("start", TRUE)
  /\ UNCHANGED <<folder, pendingSessionRestore, tasks, saves, disk, version,
                 author, captured, loaded, base, restores>>

\* docker compose down: the workstation and its folder are gone.
Stop ==
  /\ phase = "running"
  /\ phase' = "idle" /\ current' = NoProject
  /\ folder' = [folder EXCEPT ![current] = Absent]
  /\ Note("unready", ~TasksDone \/ spc # "free")
  /\ UNCHANGED <<pendingSessionRestore, tasks, saves, disk, version,
                 author, captured, loaded, base, restores>>

\* The app quits: main's state and the tasks are lost, and the containers are
\* cleared by the next start of the project.
Quit ==
  /\ phase' = "idle" /\ current' = NoProject
  /\ folder' = [p \in Projects |-> Absent]
  /\ pendingSessionRestore' = NoProject
  /\ tpc' = [t \in Tasks |-> "free"] /\ tproj' = [t \in Tasks |-> NoProject]
  /\ spc' = "free" /\ sproj' = NoProject
  /\ Note("quit", TRUE)
  /\ UNCHANGED <<disk, version, author, captured, loaded, base, restores>>

\* The student works in the lab folder.
Edit ==
  /\ phase = "running" /\ folder[current] # Absent
  /\ version < MaxVersion
  /\ Note("unready", ~FolderSetUp)
  /\ version' = version + 1
  /\ folder' = [folder EXCEPT ![current] = version + 1]
  /\ author' = [author EXCEPT ![version + 1] = current]
  /\ UNCHANGED <<phase, current, pendingSessionRestore, tasks, saves, disk,
                 captured, loaded, base, restores>>

-----------------------------------------------------------------------------
(* configureWorkstationSaveFolder.                                         *)

\* The noVNC port is open, or 90 s are over; then docker exec mkdir.  What is
\* there is kept.  Without an armed restore the task is over.
TaskMkdir(t) ==
  /\ tpc[t] = "boot"
  /\ \/ /\ Up(tproj[t])
        /\ folder' = [folder EXCEPT ![tproj[t]] = IF @ = Absent THEN 0 ELSE @]
        /\ UNCHANGED mishaps
     \/ /\ Note("docker", Up(tproj[t]))
        /\ UNCHANGED folder
  /\ IF pendingSessionRestore = tproj[t]
       THEN /\ tpc' = [tpc EXCEPT ![t] = "restore"]
            /\ UNCHANGED tproj
       ELSE /\ tpc' = [tpc EXCEPT ![t] = "free"]
            /\ tproj' = [tproj EXCEPT ![t] = NoProject]
  /\ UNCHANGED <<phase, current, pendingSessionRestore, saves, disk, version,
                 author, captured, loaded, base, restores>>

\* docker cp of the saved work over what the folder holds; a README alone
\* changes nothing.
CopyBack(p) ==
  /\ folder' = [folder EXCEPT ![p] = IF labWork[p] = 0 /\ @ # Absent THEN @ ELSE labWork[p]]
  /\ restores' = [restores EXCEPT ![p] = @ + 1]

\* Mutant of TaskRestore: the copy goes to whatever lab is current by then.
TaskRestoreCurrent(t) ==
  /\ tpc[t] = "restore"
  /\ IF phase = "running" /\ labWork[tproj[t]] # Absent
       THEN folder' = [folder EXCEPT ![current] = labWork[tproj[t]]]
       ELSE UNCHANGED folder
  /\ pendingSessionRestore' = NoProject
  /\ tpc' = [tpc EXCEPT ![t] = "free"]
  /\ tproj' = [tproj EXCEPT ![t] = NoProject]
  /\ UNCHANGED <<phase, current, saves, disk, version, ghost>>

\* After the copy, or without one, the one-shot flag is consumed if it is still ours.
TaskRestore(t) ==
  /\ tpc[t] = "restore"
  /\ \/ /\ Up(tproj[t]) /\ labWork[tproj[t]] # Absent
        /\ CopyBack(tproj[t])
        /\ UNCHANGED mishaps
     \/ /\ Note("docker", Up(tproj[t]) /\ labWork[tproj[t]] # Absent)
        /\ UNCHANGED <<folder, restores>>
  /\ pendingSessionRestore' =
       IF pendingSessionRestore = tproj[t] THEN NoProject ELSE pendingSessionRestore
  /\ tpc' = [tpc EXCEPT ![t] = "free"]
  /\ tproj' = [tproj EXCEPT ![t] = NoProject]
  /\ UNCHANGED <<phase, current, saves, disk, version, author, captured, loaded, base>>

-----------------------------------------------------------------------------
(* session:save and captureLabFolder.                                      *)

\* The Save Session button is enabled whatever runs; p is on the canvas.
SaveClick(p) ==
  /\ spc = "free"
  /\ phase = "running" => p = current
  /\ Note("unready", ~FolderSetUp)
  /\ spc' = "json" /\ sproj' = p
  /\ UNCHANGED <<sim, pendingSessionRestore, tasks, disk, version,
                 author, captured, loaded, base, restores>>

\* session.json is written; then the earlier capture is removed.
SaveJson ==
  /\ spc = "json"
  /\ session' = session \cup {sproj}
  /\ spc' = "rm"
  /\ UNCHANGED <<sim, pendingSessionRestore, tasks, sproj, labWork, version, ghost>>

SaveRm ==
  /\ spc = "rm"
  /\ labWork' = [labWork EXCEPT ![sproj] = Absent]
  /\ spc' = "cp"
  /\ UNCHANGED <<sim, pendingSessionRestore, tasks, sproj, session, version, ghost>>

\* Mutant of SaveCp: the capture is removed after the copy and not before.
SaveCpThenRm ==
  /\ spc = "cp"
  /\ Up(sproj) /\ folder[sproj] # Absent
  /\ labWork' = [labWork EXCEPT ![sproj] = Absent]
  /\ captured' = [captured EXCEPT ![sproj] = folder[sproj]]
  /\ spc' = "free" /\ sproj' = NoProject
  /\ UNCHANGED <<sim, pendingSessionRestore, tasks, session, version,
                 author, loaded, base, restores, mishaps>>

\* docker cp out of the workstation; the answer is ok either way.
SaveCp ==
  /\ spc = "cp"
  /\ \/ /\ Up(sproj) /\ folder[sproj] # Absent
        /\ labWork' = [labWork EXCEPT ![sproj] = folder[sproj]]
        /\ captured' = [captured EXCEPT ![sproj] = folder[sproj]]
        /\ UNCHANGED mishaps
     \/ /\ Note("docker", Up(sproj) /\ folder[sproj] # Absent)
        /\ UNCHANGED <<labWork, captured>>
  /\ spc' = "free" /\ sproj' = NoProject
  /\ UNCHANGED <<sim, pendingSessionRestore, tasks, session, version,
                 author, loaded, base, restores>>

TaskStep(t) == TaskMkdir(t) \/ TaskRestore(t)

Next ==
  \/ \E p \in Projects : Run(p) \/ Load(p) \/ SaveClick(p)
  \/ \E t \in Tasks : StartOk(t) \/ TaskStep(t)
  \/ StartFails \/ Stop \/ Quit \/ Edit
  \/ SaveJson \/ SaveRm \/ SaveCp

Spec == Init /\ [][Next]_vars

\* A task goes on by itself: its waits have deadlines, its commands timeouts.
FairSpec == Spec /\ \A t \in Tasks : WF_vars(TaskStep(t))

-----------------------------------------------------------------------------
\* What each variable may hold.
TypeOK ==
  /\ phase \in {"idle", "starting", "running"}
  /\ current \in Projects \cup {NoProject}
  /\ phase # "idle" <=> current # NoProject
  /\ folder \in [Projects -> Contents]
  /\ pendingSessionRestore \in Projects \cup {NoProject}
  /\ tpc \in [Tasks -> {"free", "boot", "restore"}]
  /\ tproj \in [Tasks -> Projects \cup {NoProject}]
  /\ spc \in {"free", "json", "rm", "cp"} /\ sproj \in Projects \cup {NoProject}
  /\ session \in SUBSET Projects
  /\ labWork \in [Projects -> Contents]
  /\ version \in 0..MaxVersion
  /\ author \in [1..MaxVersion -> Projects \cup {NoProject}]
  /\ captured \in [Projects -> Contents]
  /\ loaded \in Contents /\ base \in 0..MaxVersion
  /\ restores \in [Projects -> Nat]
  /\ mishaps \in SUBSET Mishaps

\* Work of one lab never gets into the folder or the session of another: the
\* project name a task works with was pinned before its first await.
OwnWork ==
  \A p \in Projects : \A v \in {folder[p], labWork[p]} \ {0, Absent} : author[v] = p

\* What Save Session has captured stays on disk until a later save has taken
\* something newer, as long as no save is made without a filled lab folder, no
\* docker cp fails and the app does not quit in the middle (captureLabFolder).
CaptureKept ==
  mishaps \subseteq {"start"} =>
    \A p \in Projects : sproj # p => labWork[p] = captured[p]

\* The work a session was loaded with is in the folder or still on disk, under
\* the same conditions: no save made during the run has replaced it by a folder
\* not yet filled (captureLabFolder against configureWorkstationSaveFolder).
LoadedWorkSurvives ==
  mishaps \subseteq {"start"} /\ phase = "running" /\ loaded \notin {0, Absent} /\ sproj # current =>
    \E v \in {folder[current], labWork[current]} \ {Absent} : v >= loaded

\* A session is copied back at most once for each time it is loaded, unless a
\* run was stopped while its task was still at work (pendingSessionRestore).
RestoredOnce ==
  "unready" \notin mishaps => \A p \in Projects : restores[p] <= 1

\* A run started with the Run button shows no earlier work, unless the start
\* after a Load failed or its run was stopped early (pendingSessionRestore).
FreshStaysFresh ==
  mishaps \subseteq {"docker", "quit"} /\ phase = "running" /\ loaded = Absent
      /\ folder[current] \notin {0, Absent}
    => folder[current] > base

\* Save and load lose no work and mix no runs: what is captured stays, what is
\* loaded survives and comes back once, and a fresh run starts without it.
WorkKept == CaptureKept /\ LoadedWorkSurvives /\ RestoredOnce /\ FreshStaysFresh

\* A loaded session's work does come back, unless the run ends before or
\* something has gone wrong (configureWorkstationSaveFolder).
WorkComesBack ==
  phase = "running" /\ loaded \in 1..MaxVersion ~>
    \/ phase # "running" \/ loaded = Absent \/ ~(mishaps \subseteq {"start"})
    \/ folder[current] # Absent /\ folder[current] >= loaded

\* "Everything here is preserved when you click Save Session": a capture stays,
\* whenever Save Session is clicked again (README the task puts in the folder).
EverythingPreserved ==
  mishaps \subseteq {"start", "unready"} =>
    \A p \in Projects : sproj # p => labWork[p] = captured[p]

=============================================================================
