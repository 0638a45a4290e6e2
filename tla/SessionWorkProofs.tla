-------------------------- MODULE SessionWorkProofs --------------------------
(***************************************************************************)
(* Theorems about SessionWork, for every set of projects and tasks, every  *)
(* bound, any student and any failure.                                     *)
(***************************************************************************)
EXTENDS SessionWork, TLAPS

\* A task and a save under way have a real project.
NamedInv ==
  /\ \A t \in Tasks : tpc[t] # "free" => tproj[t] \in Projects
  /\ spc # "free" => sproj \in Projects

TypeInv == TypeOK /\ NamedInv

\* No folder holds a version that has not been made yet.
PastInv ==
  \A p \in Projects : \A v \in {folder[p], labWork[p]} : v = Absent \/ v <= version

-----------------------------------------------------------------------------
\* Every variable keeps to its type.
LEMMA TypeStep == TypeInv /\ [Next]_vars => TypeInv'
<1> SUFFICES ASSUME TypeInv, [Next]_vars PROVE TypeInv'
  OBVIOUS
<1> USE NoProjectAssumption, AbsentAssumption, BoundAssumption
    DEF TypeInv, TypeOK, NamedInv, Contents, Mishaps, Note, sim, tasks, saves, disk, ghost
<1>1. ASSUME NEW p \in Projects, Run(p) PROVE TypeInv'
  BY <1>1 DEF Run
<1>2. ASSUME NEW p \in Projects, Load(p) PROVE TypeInv'
  BY <1>2 DEF Load
<1>3. ASSUME NEW t \in Tasks, StartOk(t) PROVE TypeInv'
  BY <1>3 DEF StartOk
<1>4. CASE StartFails
  BY <1>4 DEF StartFails
<1>5. CASE Stop
  BY <1>5 DEF Stop
<1>6. CASE Quit
  BY <1>6 DEF Quit
<1>7. CASE Edit
  BY <1>7 DEF Edit
<1>8. ASSUME NEW t \in Tasks, TaskMkdir(t) PROVE TypeInv'
  <2>1. tproj[t] \in Projects
    BY <1>8 DEF TaskMkdir
  <2>2. folder' \in [Projects -> Contents]
    <3>1. CASE UNCHANGED folder
      BY <3>1
    <3>2. CASE folder' = [folder EXCEPT ![tproj[t]] = IF @ = Absent THEN 0 ELSE @]
      BY <3>2, <2>1
    <3> QED
      BY <1>8, <3>1, <3>2 DEF TaskMkdir
  <2>3. /\ tpc' \in [Tasks -> {"free", "boot", "restore"}]
        /\ tproj' \in [Tasks -> Projects \cup {NoProject}]
    BY <1>8 DEF TaskMkdir
  <2>4. \A u \in Tasks : tpc'[u] # "free" => tproj'[u] \in Projects
    BY <1>8, <2>1 DEF TaskMkdir
  <2> QED
    BY <1>8, <2>2, <2>3, <2>4 DEF TaskMkdir
<1>9. ASSUME NEW t \in Tasks, TaskRestore(t) PROVE TypeInv'
  <2>1. tproj[t] \in Projects
    BY <1>9 DEF TaskRestore
  <2>2. folder' \in [Projects -> Contents] /\ restores' \in [Projects -> Nat]
    <3>1. CASE UNCHANGED <<folder, restores>>
      BY <3>1
    <3>2. CASE CopyBack(tproj[t])
      BY <3>2, <2>1 DEF CopyBack
    <3> QED
      BY <1>9, <3>1, <3>2 DEF TaskRestore
  <2>3. /\ tpc' \in [Tasks -> {"free", "boot", "restore"}]
        /\ tproj' \in [Tasks -> Projects \cup {NoProject}]
    BY <1>9 DEF TaskRestore
  <2>4. \A u \in Tasks : tpc'[u] # "free" => tproj'[u] \in Projects
    BY <1>9, <2>1 DEF TaskRestore
  <2> QED
    BY <1>9, <2>2, <2>3, <2>4 DEF TaskRestore
<1>10. ASSUME NEW p \in Projects, SaveClick(p) PROVE TypeInv'
  BY <1>10 DEF SaveClick
<1>11. CASE SaveJson
  BY <1>11 DEF SaveJson
<1>12. CASE SaveRm
  BY <1>12 DEF SaveRm
<1>13. CASE SaveCp
  BY <1>13 DEF SaveCp, Up
<1>14. CASE UNCHANGED vars
  BY <1>14 DEF vars
<1> QED
  BY <1>1, <1>2, <1>3, <1>4, <1>5, <1>6, <1>7, <1>8,
     <1>9, <1>10, <1>11, <1>12, <1>13, <1>14
  DEF Next, TaskStep

\* Versions only grow, and are copied between the folder and the disk.
LEMMA PastStep == TypeInv /\ PastInv /\ [Next]_vars => PastInv'
<1> SUFFICES ASSUME TypeInv, PastInv, [Next]_vars PROVE PastInv'
  OBVIOUS
<1> USE NoProjectAssumption, AbsentAssumption, BoundAssumption
    DEF TypeInv, TypeOK, NamedInv, PastInv, Contents, sim, tasks, saves, disk, ghost
<1>1. ASSUME NEW p \in Projects, Run(p) PROVE PastInv'
  BY <1>1 DEF Run
<1>2. ASSUME NEW p \in Projects, Load(p) PROVE PastInv'
  BY <1>2 DEF Load
<1>3. ASSUME NEW t \in Tasks, StartOk(t) PROVE PastInv'
  BY <1>3 DEF StartOk
<1>4. CASE StartFails
  BY <1>4 DEF StartFails
<1>5. CASE Stop
  BY <1>5 DEF Stop
<1>6. CASE Quit
  BY <1>6 DEF Quit
<1>7. CASE Edit
  BY <1>7 DEF Edit
<1>8. ASSUME NEW t \in Tasks, TaskMkdir(t) PROVE PastInv'
  <2>1. tproj[t] \in Projects
    BY <1>8 DEF TaskMkdir
  <2>2. \A p \in Projects : folder'[p] \in {folder[p], 0}
    <3>1. CASE UNCHANGED folder
      BY <3>1
    <3>2. CASE folder' = [folder EXCEPT ![tproj[t]] = IF @ = Absent THEN 0 ELSE @]
      BY <3>2, <2>1
    <3> QED
      BY <1>8, <3>1, <3>2 DEF TaskMkdir
  <2>3. labWork' = labWork /\ version' = version /\ 0 <= version
    BY <1>8 DEF TaskMkdir
  <2> SUFFICES ASSUME NEW p \in Projects, NEW v \in {folder'[p], labWork'[p]}
               PROVE  v = Absent \/ v <= version'
    OBVIOUS
  <2>4. v \in {folder[p], labWork[p], 0}
    BY <2>2, <2>3
  <2>5. CASE v \in {folder[p], labWork[p]}
    BY <2>3, <2>5
  <2> QED
    BY <2>3, <2>4, <2>5
<1>9. ASSUME NEW t \in Tasks, TaskRestore(t) PROVE PastInv'
  BY <1>9 DEF TaskRestore, Up, CopyBack
<1>10. ASSUME NEW p \in Projects, SaveClick(p) PROVE PastInv'
  BY <1>10 DEF SaveClick
<1>11. CASE SaveJson
  BY <1>11 DEF SaveJson
<1>12. CASE SaveRm
  BY <1>12 DEF SaveRm
<1>13. CASE SaveCp
  BY <1>13 DEF SaveCp, Up
<1>14. CASE UNCHANGED vars
  BY <1>14 DEF vars
<1> QED
  BY <1>1, <1>2, <1>3, <1>4, <1>5, <1>6, <1>7, <1>8,
     <1>9, <1>10, <1>11, <1>12, <1>13, <1>14
  DEF Next, TaskStep

\* A copy never leaves the project it was pinned to.
LEMMA OwnStep == TypeInv /\ PastInv /\ OwnWork /\ [Next]_vars => OwnWork'
<1> SUFFICES ASSUME TypeInv, PastInv, OwnWork, [Next]_vars PROVE OwnWork'
  OBVIOUS
<1> USE NoProjectAssumption, AbsentAssumption, BoundAssumption
    DEF TypeInv, TypeOK, NamedInv, PastInv, OwnWork, Contents, sim, tasks, saves, disk, ghost
<1>1. ASSUME NEW p \in Projects, Run(p) PROVE OwnWork'
  BY <1>1 DEF Run
<1>2. ASSUME NEW p \in Projects, Load(p) PROVE OwnWork'
  BY <1>2 DEF Load
<1>3. ASSUME NEW t \in Tasks, StartOk(t) PROVE OwnWork'
  BY <1>3 DEF StartOk
<1>4. CASE StartFails
  BY <1>4 DEF StartFails
<1>5. CASE Stop
  BY <1>5 DEF Stop
<1>6. CASE Quit
  BY <1>6 DEF Quit
<1>7. CASE Edit
  BY <1>7 DEF Edit
<1>8. ASSUME NEW t \in Tasks, TaskMkdir(t) PROVE OwnWork'
  BY <1>8 DEF TaskMkdir, Up
<1>9. ASSUME NEW t \in Tasks, TaskRestore(t) PROVE OwnWork'
  BY <1>9 DEF TaskRestore, Up, CopyBack
<1>10. ASSUME NEW p \in Projects, SaveClick(p) PROVE OwnWork'
  BY <1>10 DEF SaveClick
<1>11. CASE SaveJson
  BY <1>11 DEF SaveJson
<1>12. CASE SaveRm
  BY <1>12 DEF SaveRm
<1>13. CASE SaveCp
  BY <1>13 DEF SaveCp, Up
<1>14. CASE UNCHANGED vars
  BY <1>14 DEF vars
<1> QED
  BY <1>1, <1>2, <1>3, <1>4, <1>5, <1>6, <1>7, <1>8,
     <1>9, <1>10, <1>11, <1>12, <1>13, <1>14
  DEF Next, TaskStep

\* The initial state satisfies the invariants.
LEMMA InitInv == Init => TypeInv /\ PastInv /\ OwnWork
<1> SUFFICES ASSUME Init PROVE TypeInv /\ PastInv /\ OwnWork
  OBVIOUS
<1> USE AbsentAssumption, BoundAssumption
<1>1. TypeOK
  BY DEF Init, TypeOK, Contents
<1>2. NamedInv
  BY DEF Init, NamedInv
<1>3. PastInv /\ OwnWork
  BY DEF Init, PastInv, OwnWork
<1> QED
  BY <1>1, <1>2, <1>3 DEF TypeInv

\* SessionWork keeps every variable to its type.
THEOREM TypeCorrect == Spec => []TypeOK
<1>1. TypeInv => TypeOK
  BY DEF TypeInv
<1> QED
  BY <1>1, InitInv, TypeStep, PTL DEF Spec

\* The work of one lab never reaches the workstation or the session of another,
\* whatever the student clicks while tasks and saves are under way.
THEOREM OwnWorkAlways == Spec => []OwnWork
<1>1. TypeInv /\ PastInv /\ OwnWork /\ [Next]_vars => (TypeInv /\ PastInv /\ OwnWork)'
  BY TypeStep, PastStep, OwnStep
<1> QED
  BY <1>1, InitInv, PTL DEF Spec

-----------------------------------------------------------------------------
(* Why no work is lost: the condition of each part is what has not gone    *)
(* wrong, and mishaps only grow.                                           *)

\* There is a lab folder only in the project that is up; what was loaded and
\* what came before the run are versions that exist.
FolderInv ==
  /\ \A p \in Projects : folder[p] # Absent => Up(p)
  /\ loaded = Absent \/ loaded <= version
  /\ base <= version
  /\ spc = "free" => sproj = NoProject

\* Nobody having acted on a lab folder not set up: one task at most, of the run
\* that is up, and no save at its side.
ReadyInv ==
  "unready" \notin mishaps =>
    /\ \A t \in Tasks : tpc[t] # "free" => Up(tproj[t])
    /\ \A t, u \in Tasks : tpc[t] # "free" /\ tpc[u] # "free" => t = u
    /\ spc # "free" => Up(sproj) /\ TasksDone /\ folder[sproj] # Absent

\* The flag is armed until its one task has used it, and only a load arms it.
ArmedInv ==
  "unready" \notin mishaps =>
    /\ \A t \in Tasks : tpc[t] = "restore" => pendingSessionRestore = tproj[t]
    /\ pendingSessionRestore \in Projects => restores[pendingSessionRestore] = 0
    /\ \A p \in Projects : restores[p] <= 1

\* The lab folder is still to be filled in this run.
Filling == phase = "starting" \/ (phase = "running" /\ ~TasksDone)

\* A loaded session is on disk and armed until the folder holds its work.
LoadedInv ==
  mishaps \subseteq {"start"} /\ loaded # Absent =>
    /\ Filling => pendingSessionRestore = current /\ labWork[current] = loaded
    /\ phase = "running" /\ TasksDone => folder[current] # Absent /\ folder[current] >= loaded

\* No start having failed either, the flag is never armed for an earlier run.
PendingInv ==
  "unready" \notin mishaps /\ "start" \notin mishaps /\ pendingSessionRestore # NoProject =>
    pendingSessionRestore = current /\ Filling /\ labWork[current] = loaded

WorkInv == FolderInv /\ ReadyInv /\ ArmedInv /\ LoadedInv /\ PendingInv
             /\ CaptureKept /\ FreshStaysFresh

-----------------------------------------------------------------------------
\* A folder is made only where the project is up, and ends with it.
LEMMA FolderStep ==
  TypeInv /\ PastInv /\ FolderInv /\ [Next]_vars
    => FolderInv'
<1> SUFFICES ASSUME TypeInv, PastInv, FolderInv, [Next]_vars
             PROVE  FolderInv'
  OBVIOUS
<1> USE NoProjectAssumption, AbsentAssumption, BoundAssumption
    DEF TypeInv, TypeOK, NamedInv, PastInv, Contents, Mishaps, sim, tasks,
        saves, disk, ghost, FolderInv, Up
<1>1. ASSUME NEW p \in Projects, Run(p) PROVE FolderInv'
  BY <1>1 DEF Run
<1>2. ASSUME NEW p \in Projects, Load(p) PROVE FolderInv'
  BY <1>2 DEF Load
<1>3. ASSUME NEW t \in Tasks, StartOk(t) PROVE FolderInv'
  BY <1>3 DEF StartOk
<1>4. CASE StartFails
  BY <1>4 DEF StartFails
<1>5. CASE Stop
  BY <1>5 DEF Stop
<1>6. CASE Quit
  BY <1>6 DEF Quit
<1>7. CASE Edit
  BY <1>7 DEF Edit
<1>8. ASSUME NEW t \in Tasks, TaskMkdir(t) PROVE FolderInv'
  BY <1>8 DEF TaskMkdir
<1>9. ASSUME NEW t \in Tasks, TaskRestore(t) PROVE FolderInv'
  BY <1>9 DEF TaskRestore, CopyBack
<1>10. ASSUME NEW p \in Projects, SaveClick(p) PROVE FolderInv'
  BY <1>10 DEF SaveClick
<1>11. CASE SaveJson
  BY <1>11 DEF SaveJson
<1>12. CASE SaveRm
  BY <1>12 DEF SaveRm
<1>13. CASE SaveCp
  BY <1>13 DEF SaveCp
<1>14. CASE UNCHANGED vars
  BY <1>14 DEF vars
<1> QED
  BY <1>1, <1>2, <1>3, <1>4, <1>5, <1>6, <1>7, <1>8,
     <1>9, <1>10, <1>11, <1>12, <1>13, <1>14
  DEF Next, TaskStep

\* A start, a stop and a save each find no task at work, or are noted.
LEMMA ReadyStep ==
  TypeInv /\ FolderInv /\ ReadyInv /\ [Next]_vars
    => ReadyInv'
<1> SUFFICES ASSUME TypeInv, FolderInv, ReadyInv, [Next]_vars
             PROVE  ReadyInv'
  OBVIOUS
<1> USE NoProjectAssumption, AbsentAssumption, BoundAssumption
    DEF TypeInv, TypeOK, NamedInv, PastInv, Contents, Mishaps, sim, tasks,
        saves, disk, ghost, FolderInv, ReadyInv, Up, Note, TasksDone,
        FolderSetUp
<1>1. ASSUME NEW p \in Projects, Run(p) PROVE ReadyInv'
  BY <1>1 DEF Run
<1>2. ASSUME NEW p \in Projects, Load(p) PROVE ReadyInv'
  BY <1>2 DEF Load
<1>3. ASSUME NEW t \in Tasks, StartOk(t) PROVE ReadyInv'
  BY <1>3 DEF StartOk
<1>4. CASE StartFails
  BY <1>4 DEF StartFails
<1>5. CASE Stop
  BY <1>5 DEF Stop
<1>6. CASE Quit
  BY <1>6 DEF Quit
<1>7. CASE Edit
  BY <1>7 DEF Edit
<1>8. ASSUME NEW t \in Tasks, TaskMkdir(t) PROVE ReadyInv'
  <2>1. mishaps \subseteq mishaps'
    BY <1>8 DEF TaskMkdir
  <2>2. /\ phase' = phase /\ current' = current /\ spc' = spc /\ sproj' = sproj
        /\ \A p \in Projects : folder[p] # Absent => folder'[p] # Absent
    BY <1>8 DEF TaskMkdir
  <2>3. \A u \in Tasks : tpc'[u] # "free" => tpc[u] # "free" /\ tproj'[u] = tproj[u]
    BY <1>8 DEF TaskMkdir
  <2>4. tpc[t] # "free"
    BY <1>8 DEF TaskMkdir
  <2> QED
    BY <2>1, <2>2, <2>3, <2>4
<1>9. ASSUME NEW t \in Tasks, TaskRestore(t) PROVE ReadyInv'
  BY <1>9 DEF TaskRestore, CopyBack
<1>10. ASSUME NEW p \in Projects, SaveClick(p) PROVE ReadyInv'
  BY <1>10 DEF SaveClick
<1>11. CASE SaveJson
  BY <1>11 DEF SaveJson
<1>12. CASE SaveRm
  BY <1>12 DEF SaveRm
<1>13. CASE SaveCp
  BY <1>13 DEF SaveCp
<1>14. CASE UNCHANGED vars
  BY <1>14 DEF vars
<1> QED
  BY <1>1, <1>2, <1>3, <1>4, <1>5, <1>6, <1>7, <1>8,
     <1>9, <1>10, <1>11, <1>12, <1>13, <1>14
  DEF Next, TaskStep

\* The one task of a run uses up the flag.
LEMMA ArmedStep ==
  TypeInv /\ ReadyInv /\ ArmedInv /\ [Next]_vars
    => ArmedInv'
<1> SUFFICES ASSUME TypeInv, ReadyInv, ArmedInv, [Next]_vars
             PROVE  ArmedInv'
  OBVIOUS
<1> USE NoProjectAssumption, AbsentAssumption, BoundAssumption
    DEF TypeInv, TypeOK, NamedInv, PastInv, Contents, Mishaps, sim, tasks,
        saves, disk, ghost, ReadyInv, ArmedInv, Up, Note, TasksDone
<1>1. ASSUME NEW p \in Projects, Run(p) PROVE ArmedInv'
  BY <1>1 DEF Run
<1>2. ASSUME NEW p \in Projects, Load(p) PROVE ArmedInv'
  BY <1>2 DEF Load
<1>3. ASSUME NEW t \in Tasks, StartOk(t) PROVE ArmedInv'
  BY <1>3 DEF StartOk
<1>4. CASE StartFails
  BY <1>4 DEF StartFails
<1>5. CASE Stop
  BY <1>5 DEF Stop
<1>6. CASE Quit
  BY <1>6 DEF Quit
<1>7. CASE Edit
  BY <1>7 DEF Edit
<1>8. ASSUME NEW t \in Tasks, TaskMkdir(t) PROVE ArmedInv'
  BY <1>8 DEF TaskMkdir
<1>9. ASSUME NEW t \in Tasks, TaskRestore(t) PROVE ArmedInv'
  BY <1>9 DEF TaskRestore, CopyBack
<1>10. ASSUME NEW p \in Projects, SaveClick(p) PROVE ArmedInv'
  BY <1>10 DEF SaveClick
<1>11. CASE SaveJson
  BY <1>11 DEF SaveJson
<1>12. CASE SaveRm
  BY <1>12 DEF SaveRm
<1>13. CASE SaveCp
  BY <1>13 DEF SaveCp
<1>14. CASE UNCHANGED vars
  BY <1>14 DEF vars
<1> QED
  BY <1>1, <1>2, <1>3, <1>4, <1>5, <1>6, <1>7, <1>8,
     <1>9, <1>10, <1>11, <1>12, <1>13, <1>14
  DEF Next, TaskStep

\* The task of the run fills the folder before anyone saves it.
LEMMA LoadedStep ==
  TypeInv /\ PastInv /\ FolderInv /\ ReadyInv /\ ArmedInv /\ LoadedInv /\ [Next]_vars
    => LoadedInv'
<1> SUFFICES ASSUME TypeInv, PastInv, FolderInv, ReadyInv, ArmedInv, LoadedInv, [Next]_vars
             PROVE  LoadedInv'
  OBVIOUS
<1> USE NoProjectAssumption, AbsentAssumption, BoundAssumption
    DEF TypeInv, TypeOK, NamedInv, PastInv, Contents, Mishaps, sim, tasks,
        saves, disk, ghost, FolderInv, ReadyInv, ArmedInv, LoadedInv, Filling,
        Up, Note, TasksDone, FolderSetUp
<1>1. ASSUME NEW p \in Projects, Run(p) PROVE LoadedInv'
  BY <1>1 DEF Run
<1>2. ASSUME NEW p \in Projects, Load(p) PROVE LoadedInv'
  BY <1>2 DEF Load
<1>3. ASSUME NEW t \in Tasks, StartOk(t) PROVE LoadedInv'
  BY <1>3 DEF StartOk
<1>4. CASE StartFails
  BY <1>4 DEF StartFails
<1>5. CASE Stop
  BY <1>5 DEF Stop
<1>6. CASE Quit
  BY <1>6 DEF Quit
<1>7. CASE Edit
  BY <1>7 DEF Edit
<1>8. ASSUME NEW t \in Tasks, TaskMkdir(t) PROVE LoadedInv'
  BY <1>8 DEF TaskMkdir
<1>9. ASSUME NEW t \in Tasks, TaskRestore(t) PROVE LoadedInv'
  BY <1>9 DEF TaskRestore, CopyBack
<1>10. ASSUME NEW p \in Projects, SaveClick(p) PROVE LoadedInv'
  BY <1>10 DEF SaveClick
<1>11. CASE SaveJson
  BY <1>11 DEF SaveJson
<1>12. CASE SaveRm
  BY <1>12 DEF SaveRm
<1>13. CASE SaveCp
  BY <1>13 DEF SaveCp
<1>14. CASE UNCHANGED vars
  BY <1>14 DEF vars
<1> QED
  BY <1>1, <1>2, <1>3, <1>4, <1>5, <1>6, <1>7, <1>8,
     <1>9, <1>10, <1>11, <1>12, <1>13, <1>14
  DEF Next, TaskStep

\* The flag a load arms is for the run it starts.
LEMMA PendingStep ==
  TypeInv /\ FolderInv /\ ReadyInv /\ ArmedInv /\ PendingInv /\ [Next]_vars
    => PendingInv'
<1> SUFFICES ASSUME TypeInv, FolderInv, ReadyInv, ArmedInv, PendingInv, [Next]_vars
             PROVE  PendingInv'
  OBVIOUS
<1> USE NoProjectAssumption, AbsentAssumption, BoundAssumption
    DEF TypeInv, TypeOK, NamedInv, PastInv, Contents, Mishaps, sim, tasks,
        saves, disk, ghost, FolderInv, ReadyInv, ArmedInv, PendingInv, Filling,
        Up, Note, TasksDone, FolderSetUp
<1>1. ASSUME NEW p \in Projects, Run(p) PROVE PendingInv'
  BY <1>1 DEF Run
<1>2. ASSUME NEW p \in Projects, Load(p) PROVE PendingInv'
  BY <1>2 DEF Load
<1>3. ASSUME NEW t \in Tasks, StartOk(t) PROVE PendingInv'
  BY <1>3 DEF StartOk
<1>4. CASE StartFails
  BY <1>4 DEF StartFails
<1>5. CASE Stop
  BY <1>5 DEF Stop
<1>6. CASE Quit
  BY <1>6 DEF Quit
<1>7. CASE Edit
  BY <1>7 DEF Edit
<1>8. ASSUME NEW t \in Tasks, TaskMkdir(t) PROVE PendingInv'
  BY <1>8 DEF TaskMkdir
<1>9. ASSUME NEW t \in Tasks, TaskRestore(t) PROVE PendingInv'
  BY <1>9 DEF TaskRestore, CopyBack
<1>10. ASSUME NEW p \in Projects, SaveClick(p) PROVE PendingInv'
  BY <1>10 DEF SaveClick
<1>11. CASE SaveJson
  BY <1>11 DEF SaveJson
<1>12. CASE SaveRm
  BY <1>12 DEF SaveRm
<1>13. CASE SaveCp
  BY <1>13 DEF SaveCp
<1>14. CASE UNCHANGED vars
  BY <1>14 DEF vars
<1> QED
  BY <1>1, <1>2, <1>3, <1>4, <1>5, <1>6, <1>7, <1>8,
     <1>9, <1>10, <1>11, <1>12, <1>13, <1>14
  DEF Next, TaskStep

\* A save that removes a capture finds a folder to put in its place.
LEMMA CaptureStep ==
  TypeInv /\ FolderInv /\ ReadyInv /\ CaptureKept /\ [Next]_vars
    => CaptureKept'
<1> SUFFICES ASSUME TypeInv, FolderInv, ReadyInv, CaptureKept, [Next]_vars
             PROVE  CaptureKept'
  OBVIOUS
<1> USE NoProjectAssumption, AbsentAssumption, BoundAssumption
    DEF TypeInv, TypeOK, NamedInv, PastInv, Contents, Mishaps, sim, tasks,
        saves, disk, ghost, FolderInv, ReadyInv, CaptureKept, Up, Note
<1>1. ASSUME NEW p \in Projects, Run(p) PROVE CaptureKept'
  BY <1>1 DEF Run
<1>2. ASSUME NEW p \in Projects, Load(p) PROVE CaptureKept'
  BY <1>2 DEF Load
<1>3. ASSUME NEW t \in Tasks, StartOk(t) PROVE CaptureKept'
  BY <1>3 DEF StartOk
<1>4. CASE StartFails
  BY <1>4 DEF StartFails
<1>5. CASE Stop
  BY <1>5 DEF Stop
<1>6. CASE Quit
  BY <1>6 DEF Quit
<1>7. CASE Edit
  BY <1>7 DEF Edit
<1>8. ASSUME NEW t \in Tasks, TaskMkdir(t) PROVE CaptureKept'
  BY <1>8 DEF TaskMkdir
<1>9. ASSUME NEW t \in Tasks, TaskRestore(t) PROVE CaptureKept'
  BY <1>9 DEF TaskRestore, CopyBack
<1>10. ASSUME NEW p \in Projects, SaveClick(p) PROVE CaptureKept'
  BY <1>10 DEF SaveClick
<1>11. CASE SaveJson
  BY <1>11 DEF SaveJson
<1>12. CASE SaveRm
  BY <1>12 DEF SaveRm
<1>13. CASE SaveCp
  <2> SUFFICES ASSUME mishaps' \subseteq {"start"}, NEW p \in Projects
               PROVE  labWork'[p] = captured'[p]
    BY <1>13 DEF SaveCp
  <2>1. mishaps \subseteq {"start"} /\ "docker" \notin mishaps'
    BY <1>13 DEF SaveCp
  <2>2. spc = "cp" /\ sproj \in Projects
    BY <1>13 DEF SaveCp
  <2>3. Up(sproj) /\ folder[sproj] # Absent
    BY <2>1, <2>2
  <2>4. /\ labWork' = [labWork EXCEPT ![sproj] = folder[sproj]]
        /\ captured' = [captured EXCEPT ![sproj] = folder[sproj]]
    BY <1>13, <2>1, <2>3 DEF SaveCp
  <2>5. CASE p = sproj
    BY <2>2, <2>4, <2>5
  <2>6. CASE p # sproj
    BY <2>1, <2>4, <2>6
  <2> QED
    BY <2>5, <2>6
<1>14. CASE UNCHANGED vars
  BY <1>14 DEF vars
<1> QED
  BY <1>1, <1>2, <1>3, <1>4, <1>5, <1>6, <1>7, <1>8,
     <1>9, <1>10, <1>11, <1>12, <1>13, <1>14
  DEF Next, TaskStep

\* A fresh run has no flag armed, so its folder holds its own edits.
LEMMA FreshStep ==
  TypeInv /\ FolderInv /\ ReadyInv /\ ArmedInv /\ PendingInv /\ FreshStaysFresh /\ [Next]_vars
    => FreshStaysFresh'
<1> SUFFICES ASSUME TypeInv, FolderInv, ReadyInv, ArmedInv, PendingInv, FreshStaysFresh, [Next]_vars
             PROVE  FreshStaysFresh'
  OBVIOUS
<1> USE NoProjectAssumption, AbsentAssumption, BoundAssumption
    DEF TypeInv, TypeOK, NamedInv, PastInv, Contents, Mishaps, sim, tasks,
        saves, disk, ghost, FolderInv, ReadyInv, ArmedInv, PendingInv,
        FreshStaysFresh, Filling, Up, Note, TasksDone
<1>1. ASSUME NEW p \in Projects, Run(p) PROVE FreshStaysFresh'
  BY <1>1 DEF Run
<1>2. ASSUME NEW p \in Projects, Load(p) PROVE FreshStaysFresh'
  BY <1>2 DEF Load
<1>3. ASSUME NEW t \in Tasks, StartOk(t) PROVE FreshStaysFresh'
  BY <1>3 DEF StartOk
<1>4. CASE StartFails
  BY <1>4 DEF StartFails
<1>5. CASE Stop
  BY <1>5 DEF Stop
<1>6. CASE Quit
  BY <1>6 DEF Quit
<1>7. CASE Edit
  BY <1>7 DEF Edit
<1>8. ASSUME NEW t \in Tasks, TaskMkdir(t) PROVE FreshStaysFresh'
  BY <1>8 DEF TaskMkdir
<1>9. ASSUME NEW t \in Tasks, TaskRestore(t) PROVE FreshStaysFresh'
  BY <1>9 DEF TaskRestore, CopyBack
<1>10. ASSUME NEW p \in Projects, SaveClick(p) PROVE FreshStaysFresh'
  BY <1>10 DEF SaveClick
<1>11. CASE SaveJson
  BY <1>11 DEF SaveJson
<1>12. CASE SaveRm
  BY <1>12 DEF SaveRm
<1>13. CASE SaveCp
  BY <1>13 DEF SaveCp
<1>14. CASE UNCHANGED vars
  BY <1>14 DEF vars
<1> QED
  BY <1>1, <1>2, <1>3, <1>4, <1>5, <1>6, <1>7, <1>8,
     <1>9, <1>10, <1>11, <1>12, <1>13, <1>14
  DEF Next, TaskStep

\* The initial state satisfies the rest of the invariant.
LEMMA InitWork == Init => WorkInv
<1> SUFFICES ASSUME Init PROVE WorkInv
  OBVIOUS
<1> USE NoProjectAssumption, AbsentAssumption, BoundAssumption DEF Init
<1>1. FolderInv /\ PendingInv
  BY DEF FolderInv, PendingInv
<1>2. ReadyInv /\ ArmedInv
  BY DEF ReadyInv, ArmedInv
<1>3. LoadedInv /\ CaptureKept /\ FreshStaysFresh
  BY DEF LoadedInv, CaptureKept, FreshStaysFresh
<1> QED
  BY <1>1, <1>2, <1>3 DEF WorkInv

\* The invariant says what must not be lost: until the folder is filled the
\* loaded work is on disk, and from then on in the folder.
LEMMA WorkFromInv == TypeInv /\ WorkInv => WorkKept
<1> SUFFICES ASSUME TypeInv, WorkInv PROVE WorkKept
  OBVIOUS
<1> USE AbsentAssumption, BoundAssumption DEF WorkInv
<1>1. RestoredOnce
  BY DEF ArmedInv, RestoredOnce
<1>2. LoadedWorkSurvives
  <2> SUFFICES ASSUME mishaps \subseteq {"start"}, phase = "running", loaded \notin {0, Absent}
               PROVE  \E v \in {folder[current], labWork[current]} \ {Absent} : v >= loaded
    BY DEF LoadedWorkSurvives
  <2>1. loaded \in Nat
    BY DEF TypeInv, TypeOK, Contents
  <2>2. CASE TasksDone
    BY <2>2 DEF LoadedInv
  <2>3. CASE ~TasksDone
    <3>1. labWork[current] = loaded
      BY <2>3 DEF LoadedInv, Filling
    <3>2. loaded >= loaded
      BY <2>1
    <3> QED
      BY <3>1, <3>2
  <2> QED
    BY <2>2, <2>3
<1> QED
  BY <1>1, <1>2 DEF WorkKept

\* Save and load lose no work and mix no runs, whatever the student does while a
\* task or a save is under way, each part as long as nothing it rests on went
\* wrong.
THEOREM WorkKeptAlways == Spec => []WorkKept
<1>1. Init => TypeInv /\ PastInv /\ WorkInv
  BY InitInv, InitWork
<1>2. TypeInv /\ PastInv /\ WorkInv /\ [Next]_vars
      => (TypeInv /\ PastInv /\ WorkInv)'
  BY TypeStep, PastStep, FolderStep, ReadyStep, ArmedStep, LoadedStep,
     PendingStep, CaptureStep, FreshStep DEF WorkInv
<1>3. TypeInv /\ PastInv /\ WorkInv => WorkKept
  BY WorkFromInv
<1> QED
  BY <1>1, <1>2, <1>3, PTL DEF Spec

=============================================================================
