------------------------------ MODULE AppProofs ------------------------------
(***************************************************************************)
(* Theorems about UpdateFlow, for every number of instances and releases,  *)
(* any failure and any kill; and about App, which carries over to it what  *)
(* is proved of its two parts.                                             *)
(***************************************************************************)
EXTENDS App, TLAPS

\* Instances that have not overlapped: at most one is not down.
SoloInv ==
  "overlap" \notin mishaps =>
    \A i, j \in Instances : pc[i] # "down" /\ pc[j] # "down" => i = j

\* The sentinel is about to be removed only after the update has been done.
PromiseInv ==
  "overlap" \notin mishaps =>
    /\ resolved >= promised \/ sentinel
    /\ \A i \in Instances : pc[i] = "unlink" => resolved >= promised

\* What npm install has installed stays what the checkout declares up to the
\* launch, and what the running app was built with after it.
DependenciesInv ==
  mishaps \subseteq {"late"} =>
    /\ ~pulling
    /\ \A i \in Instances : Runs(i) => installed = ver[i]
    /\ \A i \in Instances :
         pc[i] \in {"apply", "update", "unlink", "ensure", "launch"} => installed = checkout

\* What an update under way knows about the commit its app was built from.
StaleInv ==
  mishaps = {} =>
    /\ ~pulling
    /\ \A i \in Instances :
         /\ pc[i] \in {"up", "status", "before", "pull"} => ver[i] = checkout
         /\ pc[i] \in {"pull", "after", "schedule", "images", "dialog"} => before[i] = ver[i]
         /\ pc[i] \in {"schedule", "images", "dialog"} => (restart[i] <=> ver[i] # checkout)

-----------------------------------------------------------------------------
\* Every variable keeps to its type.
LEMMA TypeStep == TypeOK /\ [Next]_vars => TypeOK'
<1> SUFFICES ASSUME TypeOK, [Next]_vars PROVE TypeOK'
  OBVIOUS
<1> USE BoundAssumption
    DEF TypeOK, Commits, None, Broken, Mishaps, Starting, Updating, Runs, Goto, Over, Note,
        FailsLate, NpmDone, NpmFails, remote, modules, disk, locals, ghost
<1>1. ASSUME NEW i \in Instances, Start(i) PROVE TypeOK'
  BY <1>1 DEF Start
<1>2. ASSUME NEW i \in Instances, Install(i) PROVE TypeOK'
  BY <1>2 DEF Install
<1>3. ASSUME NEW i \in Instances, Apply(i) PROVE TypeOK'
  BY <1>3 DEF Apply
<1>4. ASSUME NEW i \in Instances, UpdateDone(i) PROVE TypeOK'
  BY <1>4 DEF UpdateDone
<1>5. ASSUME NEW i \in Instances, UpdateFails(i) PROVE TypeOK'
  BY <1>5 DEF UpdateFails
<1>6. ASSUME NEW i \in Instances, Unlink(i) PROVE TypeOK'
  BY <1>6 DEF Unlink
<1>7. ASSUME NEW i \in Instances, UnlinkFails(i) PROVE TypeOK'
  BY <1>7 DEF UnlinkFails
<1>8. ASSUME NEW i \in Instances, Ensure(i) PROVE TypeOK'
  BY <1>8 DEF Ensure
<1>9. ASSUME NEW i \in Instances, Launch(i) PROVE TypeOK'
  BY <1>9 DEF Launch
<1>10. ASSUME NEW i \in Instances, Quit(i) PROVE TypeOK'
  BY <1>10 DEF Quit
<1>11. ASSUME NEW i \in Instances, ClickUpdate(i) PROVE TypeOK'
  BY <1>11 DEF ClickUpdate
<1>12. ASSUME NEW i \in Instances, Status(i) PROVE TypeOK'
  BY <1>12 DEF Status
<1>13. ASSUME NEW i \in Instances, Before(i) PROVE TypeOK'
  BY <1>13 DEF Before
<1>14. ASSUME NEW i \in Instances, Pull(i) PROVE TypeOK'
  <2>1. checkout' \in 0..release /\ release' = release
    BY <1>14 DEF Pull
  <2>2. CASE pc' = [pc EXCEPT ![i] = "after"] /\ UNCHANGED locals
    BY <1>14, <2>1, <2>2 DEF Pull
  <2>3. CASE pc' = [pc EXCEPT ![i] = "up"] /\ Over(i)
    BY <1>14, <2>1, <2>3 DEF Pull
  <2> QED
    BY <1>14, <2>2, <2>3 DEF Pull
<1>15. ASSUME NEW i \in Instances, After(i) PROVE TypeOK'
  BY <1>15 DEF After
<1>16. ASSUME NEW i \in Instances, Schedule(i) PROVE TypeOK'
  <2>1. promised' \in 0..release /\ release' = release
    <3>1. promised' = release \/ promised' = promised
      BY <1>16 DEF Schedule
    <3> QED
      BY <3>1, <1>16 DEF Schedule
  <2>2. CASE pc' = [pc EXCEPT ![i] = "images"] /\ UNCHANGED <<before, restart, mishaps>>
    BY <1>16, <2>1, <2>2 DEF Schedule
  <2>3. CASE FailsLate(i)
    BY <1>16, <2>1, <2>3 DEF Schedule
  <2> QED
    BY <1>16, <2>2, <2>3 DEF Schedule
<1>17. ASSUME NEW i \in Instances, Images(i) PROVE TypeOK'
  BY <1>17 DEF Images
<1>18. ASSUME NEW i \in Instances, Dialog(i) PROVE TypeOK'
  BY <1>18 DEF Dialog
<1>19. CASE Publish
  BY <1>19 DEF Publish
<1>20. CASE PullEnds
  <2>1. checkout' \in 0..release /\ release' = release
    BY <1>20 DEF PullEnds
  <2> QED
    BY <1>20, <2>1 DEF PullEnds
<1>21. CASE UNCHANGED vars
  BY <1>21 DEF vars
<1> QED
  BY <1>1, <1>2, <1>3, <1>4, <1>5, <1>6, <1>7, <1>8, <1>9, <1>10, <1>11,
     <1>12, <1>13, <1>14, <1>15, <1>16, <1>17, <1>18, <1>19, <1>20, <1>21
  DEF Next, StartStep, UpdateStep

\* An instance that starts beside another makes them overlap.
LEMMA SoloStep == TypeOK /\ SoloInv /\ [Next]_vars => SoloInv'
<1> SUFFICES ASSUME TypeOK, SoloInv, [Next]_vars PROVE SoloInv'
  OBVIOUS
<1> USE DEF TypeOK, SoloInv, Goto, Over, Note, FailsLate, remote, modules, disk, locals, ghost
<1>1. ASSUME NEW i \in Instances, Start(i) PROVE SoloInv'
  BY <1>1 DEF Start
<1>2. ASSUME NEW i \in Instances, Install(i) PROVE SoloInv'
  BY <1>2 DEF Install
<1>3. ASSUME NEW i \in Instances, Apply(i) PROVE SoloInv'
  BY <1>3 DEF Apply
<1>4. ASSUME NEW i \in Instances, UpdateDone(i) PROVE SoloInv'
  BY <1>4 DEF UpdateDone
<1>5. ASSUME NEW i \in Instances, UpdateFails(i) PROVE SoloInv'
  BY <1>5 DEF UpdateFails
<1>6. ASSUME NEW i \in Instances, Unlink(i) PROVE SoloInv'
  BY <1>6 DEF Unlink
<1>7. ASSUME NEW i \in Instances, UnlinkFails(i) PROVE SoloInv'
  BY <1>7 DEF UnlinkFails
<1>8. ASSUME NEW i \in Instances, Ensure(i) PROVE SoloInv'
  BY <1>8 DEF Ensure
<1>9. ASSUME NEW i \in Instances, Launch(i) PROVE SoloInv'
  BY <1>9 DEF Launch
<1>10. ASSUME NEW i \in Instances, Quit(i) PROVE SoloInv'
  BY <1>10 DEF Quit
<1>11. ASSUME NEW i \in Instances, ClickUpdate(i) PROVE SoloInv'
  BY <1>11 DEF ClickUpdate
<1>12. ASSUME NEW i \in Instances, Status(i) PROVE SoloInv'
  BY <1>12 DEF Status
<1>13. ASSUME NEW i \in Instances, Before(i) PROVE SoloInv'
  BY <1>13 DEF Before
<1>14. ASSUME NEW i \in Instances, Pull(i) PROVE SoloInv'
  BY <1>14 DEF Pull
<1>15. ASSUME NEW i \in Instances, After(i) PROVE SoloInv'
  BY <1>15 DEF After
<1>16. ASSUME NEW i \in Instances, Schedule(i) PROVE SoloInv'
  BY <1>16 DEF Schedule
<1>17. ASSUME NEW i \in Instances, Images(i) PROVE SoloInv'
  BY <1>17 DEF Images
<1>18. ASSUME NEW i \in Instances, Dialog(i) PROVE SoloInv'
  BY <1>18 DEF Dialog
<1>19. CASE Publish
  BY <1>19 DEF Publish
<1>20. CASE PullEnds
  BY <1>20 DEF PullEnds
<1>21. CASE UNCHANGED vars
  BY <1>21 DEF vars
<1> QED
  BY <1>1, <1>2, <1>3, <1>4, <1>5, <1>6, <1>7, <1>8, <1>9, <1>10, <1>11,
     <1>12, <1>13, <1>14, <1>15, <1>16, <1>17, <1>18, <1>19, <1>20, <1>21
  DEF Next, StartStep, UpdateStep

\* The sentinel goes only when what was promised is installed.
LEMMA PromiseStep == TypeOK /\ SoloInv /\ PromiseInv /\ [Next]_vars => PromiseInv'
<1> SUFFICES ASSUME TypeOK, SoloInv, PromiseInv, [Next]_vars PROVE PromiseInv'
  OBVIOUS
<1> USE DEF TypeOK, SoloInv, PromiseInv, Commits, Starting, Updating, Runs, OtherRuns, Goto, Over, Note, FailsLate,
        None, Broken, NpmDone, NpmFails, remote, modules, disk, locals, ghost
<1>1. ASSUME NEW i \in Instances, Start(i) PROVE PromiseInv'
  BY <1>1 DEF Start
<1>2. ASSUME NEW i \in Instances, Install(i) PROVE PromiseInv'
  BY <1>2, ZenonT(60) DEF Install
<1>3. ASSUME NEW i \in Instances, Apply(i) PROVE PromiseInv'
  BY <1>3 DEF Apply
<1>4. ASSUME NEW i \in Instances, UpdateDone(i) PROVE PromiseInv'
  BY <1>4 DEF UpdateDone
<1>5. ASSUME NEW i \in Instances, UpdateFails(i) PROVE PromiseInv'
  BY <1>5 DEF UpdateFails
<1>6. ASSUME NEW i \in Instances, Unlink(i) PROVE PromiseInv'
  BY <1>6 DEF Unlink
<1>7. ASSUME NEW i \in Instances, UnlinkFails(i) PROVE PromiseInv'
  BY <1>7 DEF UnlinkFails
<1>8. ASSUME NEW i \in Instances, Ensure(i) PROVE PromiseInv'
  BY <1>8 DEF Ensure
<1>9. ASSUME NEW i \in Instances, Launch(i) PROVE PromiseInv'
  BY <1>9 DEF Launch
<1>10. ASSUME NEW i \in Instances, Quit(i) PROVE PromiseInv'
  BY <1>10 DEF Quit
<1>11. ASSUME NEW i \in Instances, ClickUpdate(i) PROVE PromiseInv'
  BY <1>11 DEF ClickUpdate
<1>12. ASSUME NEW i \in Instances, Status(i) PROVE PromiseInv'
  BY <1>12 DEF Status
<1>13. ASSUME NEW i \in Instances, Before(i) PROVE PromiseInv'
  BY <1>13 DEF Before
<1>14. ASSUME NEW i \in Instances, Pull(i) PROVE PromiseInv'
  BY <1>14 DEF Pull
<1>15. ASSUME NEW i \in Instances, After(i) PROVE PromiseInv'
  BY <1>15 DEF After
<1>16. ASSUME NEW i \in Instances, Schedule(i) PROVE PromiseInv'
  BY <1>16 DEF Schedule
<1>17. ASSUME NEW i \in Instances, Images(i) PROVE PromiseInv'
  BY <1>17 DEF Images
<1>18. ASSUME NEW i \in Instances, Dialog(i) PROVE PromiseInv'
  BY <1>18 DEF Dialog
<1>19. CASE Publish
  BY <1>19 DEF Publish
<1>20. CASE PullEnds
  BY <1>20 DEF PullEnds
<1>21. CASE UNCHANGED vars
  BY <1>21 DEF vars
<1> QED
  BY <1>1, <1>2, <1>3, <1>4, <1>5, <1>6, <1>7, <1>8, <1>9, <1>10, <1>11,
     <1>12, <1>13, <1>14, <1>15, <1>16, <1>17, <1>18, <1>19, <1>20, <1>21
  DEF Next, StartStep, UpdateStep

\* Only start scripts take the runtime away, and alone they do so before the launch.
LEMMA ElectronStep == TypeOK /\ SoloInv /\ ElectronStays /\ [Next]_vars => ElectronStays'
<1> SUFFICES ASSUME TypeOK, SoloInv, ElectronStays, [Next]_vars PROVE ElectronStays'
  OBVIOUS
<1> USE DEF TypeOK, SoloInv, ElectronStays, Commits, Starting, Updating, Runs, OtherRuns, Goto, Over, Note, FailsLate,
        None, Broken, NpmDone, NpmFails, remote, modules, disk, locals, ghost
<1>1. ASSUME NEW i \in Instances, Start(i) PROVE ElectronStays'
  BY <1>1 DEF Start
<1>2. ASSUME NEW i \in Instances, Install(i) PROVE ElectronStays'
  <2>1. CASE NpmDone /\ pc' = [pc EXCEPT ![i] = "apply"]
    BY <1>2, <2>1 DEF Install
  <2>2. CASE NpmFails(~OtherRuns(i)) /\ pc' = [pc EXCEPT ![i] = "down"]
    BY <1>2, <2>2 DEF Install
  <2> QED
    BY <1>2, <2>1, <2>2 DEF Install
<1>3. ASSUME NEW i \in Instances, Apply(i) PROVE ElectronStays'
  BY <1>3 DEF Apply
<1>4. ASSUME NEW i \in Instances, UpdateDone(i) PROVE ElectronStays'
  BY <1>4 DEF UpdateDone
<1>5. ASSUME NEW i \in Instances, UpdateFails(i) PROVE ElectronStays'
  BY <1>5 DEF UpdateFails
<1>6. ASSUME NEW i \in Instances, Unlink(i) PROVE ElectronStays'
  BY <1>6 DEF Unlink
<1>7. ASSUME NEW i \in Instances, UnlinkFails(i) PROVE ElectronStays'
  BY <1>7 DEF UnlinkFails
<1>8. ASSUME NEW i \in Instances, Ensure(i) PROVE ElectronStays'
  BY <1>8 DEF Ensure
<1>9. ASSUME NEW i \in Instances, Launch(i) PROVE ElectronStays'
  BY <1>9 DEF Launch
<1>10. ASSUME NEW i \in Instances, Quit(i) PROVE ElectronStays'
  BY <1>10 DEF Quit
<1>11. ASSUME NEW i \in Instances, ClickUpdate(i) PROVE ElectronStays'
  BY <1>11 DEF ClickUpdate
<1>12. ASSUME NEW i \in Instances, Status(i) PROVE ElectronStays'
  BY <1>12 DEF Status
<1>13. ASSUME NEW i \in Instances, Before(i) PROVE ElectronStays'
  BY <1>13 DEF Before
<1>14. ASSUME NEW i \in Instances, Pull(i) PROVE ElectronStays'
  BY <1>14 DEF Pull
<1>15. ASSUME NEW i \in Instances, After(i) PROVE ElectronStays'
  BY <1>15 DEF After
<1>16. ASSUME NEW i \in Instances, Schedule(i) PROVE ElectronStays'
  BY <1>16 DEF Schedule
<1>17. ASSUME NEW i \in Instances, Images(i) PROVE ElectronStays'
  BY <1>17 DEF Images
<1>18. ASSUME NEW i \in Instances, Dialog(i) PROVE ElectronStays'
  BY <1>18 DEF Dialog
<1>19. CASE Publish
  BY <1>19 DEF Publish
<1>20. CASE PullEnds
  BY <1>20 DEF PullEnds
<1>21. CASE UNCHANGED vars
  BY <1>21 DEF vars
<1> QED
  BY <1>1, <1>2, <1>3, <1>4, <1>5, <1>6, <1>7, <1>8, <1>9, <1>10, <1>11,
     <1>12, <1>13, <1>14, <1>15, <1>16, <1>17, <1>18, <1>19, <1>20, <1>21
  DEF Next, StartStep, UpdateStep

\* Nothing changes the checkout between npm install and the launch.
LEMMA DependenciesStep == TypeOK /\ SoloInv /\ DependenciesInv /\ [Next]_vars => DependenciesInv'
<1> SUFFICES ASSUME TypeOK, SoloInv, DependenciesInv, [Next]_vars PROVE DependenciesInv'
  OBVIOUS
<1> USE DEF TypeOK, SoloInv, DependenciesInv, Mishaps, Commits, Starting, Updating, Runs, OtherRuns, Goto, Over, Note, FailsLate,
        None, Broken, NpmDone, NpmFails, remote, modules, disk, locals, ghost
<1>1. ASSUME NEW i \in Instances, Start(i) PROVE DependenciesInv'
  BY <1>1 DEF Start
<1>2. ASSUME NEW i \in Instances, Install(i) PROVE DependenciesInv'
  <2>1. CASE NpmDone /\ pc' = [pc EXCEPT ![i] = "apply"]
    BY <1>2, <2>1 DEF Install
  <2>2. CASE NpmFails(~OtherRuns(i)) /\ pc' = [pc EXCEPT ![i] = "down"]
    BY <1>2, <2>2 DEF Install
  <2> QED
    BY <1>2, <2>1, <2>2 DEF Install
<1>3. ASSUME NEW i \in Instances, Apply(i) PROVE DependenciesInv'
  BY <1>3 DEF Apply
<1>4. ASSUME NEW i \in Instances, UpdateDone(i) PROVE DependenciesInv'
  BY <1>4 DEF UpdateDone
<1>5. ASSUME NEW i \in Instances, UpdateFails(i) PROVE DependenciesInv'
  BY <1>5 DEF UpdateFails
<1>6. ASSUME NEW i \in Instances, Unlink(i) PROVE DependenciesInv'
  BY <1>6 DEF Unlink
<1>7. ASSUME NEW i \in Instances, UnlinkFails(i) PROVE DependenciesInv'
  BY <1>7 DEF UnlinkFails
<1>8. ASSUME NEW i \in Instances, Ensure(i) PROVE DependenciesInv'
  BY <1>8 DEF Ensure
<1>9. ASSUME NEW i \in Instances, Launch(i) PROVE DependenciesInv'
  BY <1>9 DEF Launch
<1>10. ASSUME NEW i \in Instances, Quit(i) PROVE DependenciesInv'
  BY <1>10 DEF Quit
<1>11. ASSUME NEW i \in Instances, ClickUpdate(i) PROVE DependenciesInv'
  BY <1>11 DEF ClickUpdate
<1>12. ASSUME NEW i \in Instances, Status(i) PROVE DependenciesInv'
  BY <1>12 DEF Status
<1>13. ASSUME NEW i \in Instances, Before(i) PROVE DependenciesInv'
  BY <1>13 DEF Before
<1>14. ASSUME NEW i \in Instances, Pull(i) PROVE DependenciesInv'
  BY <1>14 DEF Pull
<1>15. ASSUME NEW i \in Instances, After(i) PROVE DependenciesInv'
  BY <1>15 DEF After
<1>16. ASSUME NEW i \in Instances, Schedule(i) PROVE DependenciesInv'
  BY <1>16, ZenonT(60) DEF Schedule
<1>17. ASSUME NEW i \in Instances, Images(i) PROVE DependenciesInv'
  BY <1>17 DEF Images
<1>18. ASSUME NEW i \in Instances, Dialog(i) PROVE DependenciesInv'
  BY <1>18 DEF Dialog
<1>19. CASE Publish
  BY <1>19 DEF Publish
<1>20. CASE PullEnds
  BY <1>20 DEF PullEnds
<1>21. CASE UNCHANGED vars
  BY <1>21 DEF vars
<1> QED
  BY <1>1, <1>2, <1>3, <1>4, <1>5, <1>6, <1>7, <1>8, <1>9, <1>10, <1>11,
     <1>12, <1>13, <1>14, <1>15, <1>16, <1>17, <1>18, <1>19, <1>20, <1>21
  DEF Next, StartStep, UpdateStep

\* A pull that moves the checkout is answered with a restart, or fails late.
LEMMA StaleStep == TypeOK /\ SoloInv /\ StaleInv /\ [Next]_vars => StaleInv'
<1> SUFFICES ASSUME TypeOK, SoloInv, StaleInv, [Next]_vars PROVE StaleInv'
  OBVIOUS
<1> USE DEF TypeOK, SoloInv, StaleInv, Commits, Starting, Updating, Runs, OtherRuns, Goto, Over, Note, FailsLate,
        None, Broken, NpmDone, NpmFails, remote, modules, disk, locals, ghost
<1>1. ASSUME NEW i \in Instances, Start(i) PROVE StaleInv'
  BY <1>1 DEF Start
<1>2. ASSUME NEW i \in Instances, Install(i) PROVE StaleInv'
  <2>1. UNCHANGED <<checkout, pulling, mishaps, ver, before, restart>>
    BY <1>2 DEF Install
  <2>2. pc' = [pc EXCEPT ![i] = "apply"] \/ pc' = [pc EXCEPT ![i] = "down"]
    BY <1>2 DEF Install
  <2> QED
    BY <2>1, <2>2
<1>3. ASSUME NEW i \in Instances, Apply(i) PROVE StaleInv'
  BY <1>3 DEF Apply
<1>4. ASSUME NEW i \in Instances, UpdateDone(i) PROVE StaleInv'
  BY <1>4 DEF UpdateDone
<1>5. ASSUME NEW i \in Instances, UpdateFails(i) PROVE StaleInv'
  BY <1>5 DEF UpdateFails
<1>6. ASSUME NEW i \in Instances, Unlink(i) PROVE StaleInv'
  BY <1>6 DEF Unlink
<1>7. ASSUME NEW i \in Instances, UnlinkFails(i) PROVE StaleInv'
  BY <1>7 DEF UnlinkFails
<1>8. ASSUME NEW i \in Instances, Ensure(i) PROVE StaleInv'
  BY <1>8 DEF Ensure
<1>9. ASSUME NEW i \in Instances, Launch(i) PROVE StaleInv'
  BY <1>9 DEF Launch
<1>10. ASSUME NEW i \in Instances, Quit(i) PROVE StaleInv'
  BY <1>10 DEF Quit
<1>11. ASSUME NEW i \in Instances, ClickUpdate(i) PROVE StaleInv'
  BY <1>11 DEF ClickUpdate
<1>12. ASSUME NEW i \in Instances, Status(i) PROVE StaleInv'
  BY <1>12 DEF Status
<1>13. ASSUME NEW i \in Instances, Before(i) PROVE StaleInv'
  BY <1>13 DEF Before
<1>14. ASSUME NEW i \in Instances, Pull(i) PROVE StaleInv'
  BY <1>14 DEF Pull
<1>15. ASSUME NEW i \in Instances, After(i) PROVE StaleInv'
  <2>1. CASE pc' = [pc EXCEPT ![i] = "schedule"] /\ restart' = [restart EXCEPT ![i] = before[i] # checkout]
              /\ UNCHANGED <<before, mishaps>>
    BY <1>15, <2>1 DEF After
  <2>2. CASE FailsLate(i)
    BY <1>15, <2>2 DEF After
  <2> QED
    BY <1>15, <2>1, <2>2 DEF After
<1>16. ASSUME NEW i \in Instances, Schedule(i) PROVE StaleInv'
  <2>1. CASE pc' = [pc EXCEPT ![i] = "images"] /\ UNCHANGED <<before, restart, mishaps>>
    BY <1>16, <2>1 DEF Schedule
  <2>2. CASE FailsLate(i)
    BY <1>16, <2>2 DEF Schedule
  <2> QED
    BY <1>16, <2>1, <2>2 DEF Schedule
<1>17. ASSUME NEW i \in Instances, Images(i) PROVE StaleInv'
  BY <1>17 DEF Images
<1>18. ASSUME NEW i \in Instances, Dialog(i) PROVE StaleInv'
  BY <1>18 DEF Dialog
<1>19. CASE Publish
  BY <1>19 DEF Publish
<1>20. CASE PullEnds
  BY <1>20 DEF PullEnds
<1>21. CASE UNCHANGED vars
  BY <1>21 DEF vars
<1> QED
  BY <1>1, <1>2, <1>3, <1>4, <1>5, <1>6, <1>7, <1>8, <1>9, <1>10, <1>11,
     <1>12, <1>13, <1>14, <1>15, <1>16, <1>17, <1>18, <1>19, <1>20, <1>21
  DEF Next, StartStep, UpdateStep

IInv == TypeOK /\ SoloInv /\ PromiseInv /\ ElectronStays /\ DependenciesInv /\ StaleInv

LEMMA IInvAlways == Spec => []IInv
<1>1. ASSUME Init PROVE IInv
  <2>1. TypeOK
    <3>1. restart \in [Instances -> BOOLEAN] /\ pc \in [Instances -> {"down"}]
      BY <1>1 DEF Init
    <3>2. \A i \in Instances : ver[i] = None /\ ~Runs(i)
      BY <1>1 DEF Init, Runs, Updating
    <3>3. ver \in [Instances -> Commits \cup {None}] /\ before \in [Instances -> Commits \cup {None}]
      BY <1>1 DEF Init
    <3>4. /\ release \in Commits /\ checkout \in 0..release /\ installed \in 0..release
          /\ resolved \in 0..release /\ promised \in 0..release
      BY <1>1, BoundAssumption DEF Init, Commits
    <3>5. /\ mishaps \in SUBSET Mishaps
          /\ binary \in BOOLEAN /\ sentinel \in BOOLEAN /\ pulling \in BOOLEAN
      BY <1>1 DEF Init
    <3> QED
      BY <3>1, <3>2, <3>3, <3>4, <3>5 DEF TypeOK
  <2>2. SoloInv /\ PromiseInv
    BY <1>1 DEF Init, SoloInv, PromiseInv
  <2>3. ElectronStays /\ DependenciesInv /\ StaleInv
    BY <1>1 DEF Init, ElectronStays, DependenciesInv, StaleInv, Starting, Updating, Runs
  <2> QED
    BY <2>1, <2>2, <2>3 DEF IInv
<1>2. IInv /\ [Next]_vars => IInv'
  BY TypeStep, SoloStep, PromiseStep, ElectronStep, DependenciesStep, StaleStep DEF IInv
<1> QED
  BY <1>1, <1>2, PTL DEF Spec

-----------------------------------------------------------------------------
\* Releases, commits and program counters keep to their types.
THEOREM TypeCorrect == Spec => []TypeOK
<1>1. IInv => TypeOK
  BY DEF IInv
<1> QED
  BY <1>1, IInvAlways, PTL

\* What an update has promised is installed or still queued, until instances
\* overlap (app:update, apply-pending-update.mjs).
THEOREM PromiseKeptAlways == Spec => []PromiseKept
<1>1. IInv => PromiseKept
  BY DEF IInv, PromiseInv, PromiseKept
<1> QED
  BY <1>1, IInvAlways, PTL

\* The Electron runtime stays under a running app, until instances overlap
\* (app:update never runs npm).
THEOREM ElectronStaysAlways == Spec => []ElectronStays
<1>1. IInv => ElectronStays
  BY DEF IInv
<1> QED
  BY <1>1, IInvAlways, PTL

\* A running app has the dependencies its source declares, until instances
\* overlap or a git pull outlives its app (predev).
THEOREM DependenciesMatchAlways == Spec => []DependenciesMatch
<1>1. IInv => DependenciesMatch
  BY DEF IInv, DependenciesInv, DependenciesMatch
<1> QED
  BY <1>1, IInvAlways, PTL

\* An app with no update under way is built from the source on disk, until one
\* of the mishaps happens (app:update).
THEOREM StaleEndsAlways == Spec => []StaleEnds
<1>1. IInv => StaleEnds
  BY DEF IInv, StaleInv, StaleEnds
<1> QED
  BY <1>1, IInvAlways, PTL


\* A running app keeps its runtime, its dependencies and its source.
THEOREM RunsAsStartedAlways == Spec => []RunsAsStarted
<1>1. ElectronStays /\ DependenciesMatch /\ StaleEnds => RunsAsStarted
  BY DEF RunsAsStarted
<1> QED
  BY <1>1, ElectronStaysAlways, DependenciesMatchAlways, StaleEndsAlways, PTL

-----------------------------------------------------------------------------
(* The two parts of the app.                                               *)

\* SimLifecycle with its theorems, for a user who need not be patient.
Proved == INSTANCE SimLifecycleProofs WITH Patient <- FALSE, pc <- simPc

\* The theorems are about the same initial states and steps.
LEMMA SameSimulation ==
  /\ Sim!Init => Proved!Init
  /\ [Sim!Next]_(Sim!vars) => [Proved!Next]_(Proved!vars)
  /\ Proved!NeverStuck => Sim!NeverStuck
<1>1. Sim!Init => Proved!Init
  BY Zenon DEF Sim!Init, Proved!Init
<1>2. Sim!Next => Proved!Next
  BY Zenon
  DEF Sim!renderer, Proved!renderer, Sim!calls, Proved!calls, Sim!main, Proved!main, Sim!docker,
      Proved!docker, Sim!vars, Proved!vars, Sim!Maybe, Proved!Maybe, Sim!StartPcs, Proved!StartPcs,
      Sim!StopPcs, Proved!StopPcs, Sim!PollPcs, Proved!PollPcs, Sim!OpenPcs, Proved!OpenPcs,
      Sim!UserPcs, Proved!UserPcs, Sim!Waiting, Proved!Waiting, Sim!MayAsk, Proved!MayAsk,
      Sim!Clickable, Proved!Clickable, Sim!Send, Proved!Send, Sim!Done, Proved!Done, Sim!ClickRun,
      Proved!ClickRun, Sim!ClickStop, Proved!ClickStop, Sim!ClickSessions, Proved!ClickSessions,
      Sim!PickerOpens, Proved!PickerOpens, Sim!PickerCancel, Proved!PickerCancel, Sim!ClickLoad,
      Proved!ClickLoad, Sim!LoadReply, Proved!LoadReply, Sim!ClickImport, Proved!ClickImport,
      Sim!ImportRead, Proved!ImportRead, Sim!ImportReply, Proved!ImportReply, Sim!Edit, Proved!Edit,
      Sim!PollSend, Proved!PollSend, Sim!PollReply, Proved!PollReply, Sim!StartReply,
      Proved!StartReply, Sim!StopReply, Proved!StopReply, Sim!StartClaim, Proved!StartClaim,
      Sim!StartProvision, Proved!StartProvision, Sim!Down, Proved!Down, Sim!StartClear,
      Proved!StartClear, Sim!UpService, Proved!UpService, Sim!UpEnds, Proved!UpEnds,
      Sim!StartRollback, Proved!StartRollback, Sim!StartFailed, Proved!StartFailed,
      Sim!StartSettled, Proved!StartSettled, Sim!StopBegin, Proved!StopBegin, Sim!StopDown,
      Proved!StopDown, Sim!StopClearDb, Proved!StopClearDb, Sim!StopReset, Proved!StopReset,
      Sim!PollName, Proved!PollName, Sim!PollPs, Proved!PollPs, Sim!UpUnderWay, Proved!UpUnderWay,
      Sim!DownUnderWay, Proved!DownUnderWay, Sim!Relaunch, Proved!Relaunch, Sim!User, Proved!User,
      Sim!Serve, Proved!Serve, Sim!Next, Proved!Next
<1>3. Sim!vars = Proved!vars /\ Sim!vars' = Proved!vars'
  BY DEF Sim!vars, Proved!vars, Sim!renderer, Proved!renderer, Sim!calls, Proved!calls, Sim!main,
         Proved!main, Sim!docker, Proved!docker
<1>4. Proved!NeverStuck => Sim!NeverStuck
  BY Zenon DEF Sim!NeverStuck, Proved!NeverStuck, Sim!Waiting, Proved!Waiting, Sim!StartPcs,
               Proved!StartPcs, Sim!StopPcs, Proved!StopPcs
<1> QED
  BY <1>1, <1>2, <1>3, <1>4

\* The app does what its two parts do: whichever is used, the steps of the other are
\* none, so what holds of each alone holds of the app.
THEOREM AppImplementsParts == AppSpec => Spec /\ Sim!Spec
<1>1. AppInit => Init /\ Sim!Init
  BY DEF AppInit
<1>2. ASSUME [AppNext]_<<vars, simVars, part>>
      PROVE  [Next]_vars /\ [Sim!Next]_(Sim!vars)
  BY <1>2 DEF AppNext, simVars, Sim!vars, Sim!renderer, Sim!calls, Sim!main, Sim!docker
<1> QED
  BY <1>1, <1>2, PTL DEF AppSpec, Spec, Sim!Spec

\* An update once queued is carried out or still queued, and an app runs with what it was
\* started with, also in the app as a whole (the update handler and the start scripts).
THEOREM AppUpdatesAlways == AppSpec => [](TypeOK /\ PromiseKept /\ RunsAsStarted)
BY AppImplementsParts, TypeCorrect, PromiseKeptAlways, RunsAsStartedAlways, PTL

\* No interleaving of requests, and no failure, leaves the toolbar in Starting or
\* Stopping with nothing in flight to move it on, whatever the user clicks
\* (startSimulation and handleStop of App.tsx).
THEOREM NeverStuckAlways == AppSpec => []NeverStuck
<1>1. Proved!NeverStuck => NeverStuck
  BY SameSimulation DEF NeverStuck
<1>2. Proved!Spec => []Proved!NeverStuck
  BY SimulationAssumption, Proved!NeverStuckAlways
<1>3. Sim!Spec => Proved!Spec
  BY SameSimulation, PTL DEF Sim!Spec, Proved!Spec
<1> QED
  BY <1>1, <1>2, <1>3, AppImplementsParts, PTL
=============================================================================
