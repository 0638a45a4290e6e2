------------------------- MODULE SimLifecycleProofs -------------------------
(***************************************************************************)
(* Theorems about SimLifecycle, for every set of projects, services and    *)
(* call slots and every number of relaunches.                              *)
(***************************************************************************)
EXTENDS SimLifecycle, TLAPS

\* A slot whose project is a real one.
NamedPcs == {"loadSent", "importRead", "down", "downDone", "dbCleared"} \cup StartPcs

NamedInv == \A c \in Calls : pc[c] \in NamedPcs => proj[c] \in Projects

TypeInv == TypeOK /\ NamedInv

\* Requests of the user agree with what the toolbar shows.
RequestInv ==
  /\ \A c, d \in Waiting(UserPcs) : c = d
  /\ \A c \in Calls :
       /\ pc[c] \in StartPcs => simStatus = "starting" /\ canvas = proj[c]
       /\ pc[c] \in StopPcs => simStatus = "stopping"
       /\ pc[c] \in OpenPcs => simStatus = "idle"
  /\ picker => simStatus = "idle"

\* What main holds while a start or a stop is under way.
ClaimInv ==
  \A c \in Calls :
    /\ pc[c] \in {"claimed", "provisioned", "up", "upDone", "startOk"}
         => activeProject = proj[c] /\ activePorts = proj[c]
    /\ pc[c] \in {"provisioned", "up", "upDone", "startOk"} => activeZones = proj[c]
    /\ pc[c] \in {"rollback", "failed", "down", "downDone", "dbCleared"}
         => activeProject = proj[c]

\* Every container belongs to a project on the list of failed teardowns.
AllLeft == \A p \in Projects : containers[p] # {} => p \in leftover

\* When no start is between its clear and its end, and no stop before its
\* down, main may change activeProject without forgetting containers.
SettledInv ==
  /\ simStatus = "idle" => AllLeft
  /\ \A c \in Calls :
       pc[c] \in {"startSent", "claimed", "provisioned", "failed", "startErr",
                  "downDone", "dbCleared", "stopReply"} => AllLeft

IInv == TypeInv /\ NeverStuck /\ RequestInv /\ ClaimInv /\ SettledInv /\ Accounted /\ RunningIsNamed

-----------------------------------------------------------------------------
\* Every variable keeps to its type, and a request that names a project a real one.
LEMMA TypeStep == TypeInv /\ [Next]_vars => TypeInv'
<1> SUFFICES ASSUME TypeInv, [Next]_vars PROVE TypeInv'
  OBVIOUS
<1> USE DEF TypeInv, TypeOK, NamedInv, NamedPcs, Maybe,
            renderer, calls, main, docker,
            UserPcs, StartPcs, StopPcs, OpenPcs, PollPcs
<1>1. ASSUME NEW c \in Calls, ClickRun(c) PROVE TypeInv'
  BY <1>1 DEF ClickRun, Send
<1>2. ASSUME NEW c \in Calls, ClickStop(c) PROVE TypeInv'
  BY <1>2 DEF ClickStop, Send
<1>3. ASSUME NEW c \in Calls, ClickSessions(c) PROVE TypeInv'
  BY <1>3 DEF ClickSessions, Send
<1>4. ASSUME NEW c \in Calls, ClickImport(c) PROVE TypeInv'
  BY <1>4 DEF ClickImport, Send
<1>5. ASSUME NEW c \in Calls, NEW p \in Projects, ClickLoad(c, p) PROVE TypeInv'
  BY <1>5 DEF ClickLoad, Send
<1>6. ASSUME NEW c \in Calls, PollSend(c) PROVE TypeInv'
  BY <1>6 DEF PollSend, Send
<1>7. ASSUME NEW c \in Calls, PickerOpens(c) PROVE TypeInv'
  BY <1>7 DEF PickerOpens, Done
<1>8. ASSUME NEW c \in Calls, LoadReply(c) PROVE TypeInv'
  BY <1>8 DEF LoadReply, Done
<1>9. ASSUME NEW c \in Calls, ImportReply(c) PROVE TypeInv'
  BY <1>9 DEF ImportReply, Done
<1>10. ASSUME NEW c \in Calls, NEW p \in Projects, ImportRead(c, p) PROVE TypeInv'
  BY <1>10 DEF ImportRead, Done
<1>11. ASSUME NEW c \in Calls, StartClaim(c) PROVE TypeInv'
  BY <1>11 DEF StartClaim
<1>12. ASSUME NEW c \in Calls, StartProvision(c) PROVE TypeInv'
  BY <1>12 DEF StartProvision
<1>13. ASSUME NEW c \in Calls, StartClear(c) PROVE TypeInv'
  BY <1>13 DEF StartClear, Down, docker
<1>14. ASSUME NEW c \in Calls, NEW s \in Services, UpService(c, s) PROVE TypeInv'
  BY <1>14 DEF UpService
<1>15. ASSUME NEW c \in Calls, UpEnds(c) PROVE TypeInv'
  BY <1>15 DEF UpEnds, docker
<1>16. ASSUME NEW c \in Calls, StartRollback(c) PROVE TypeInv'
  BY <1>16 DEF StartRollback, Down
<1>17. ASSUME NEW c \in Calls, StartFailed(c) PROVE TypeInv'
  BY <1>17 DEF StartFailed
<1>18. ASSUME NEW c \in Calls, StartSettled(c) PROVE TypeInv'
  BY <1>18 DEF StartSettled
<1>19. ASSUME NEW c \in Calls, StartReply(c) PROVE TypeInv'
  BY <1>19 DEF StartReply, Done
<1>20. ASSUME NEW c \in Calls, StopBegin(c) PROVE TypeInv'
  BY <1>20 DEF StopBegin
<1>21. ASSUME NEW c \in Calls, StopDown(c) PROVE TypeInv'
  BY <1>21 DEF StopDown, Down
<1>22. ASSUME NEW c \in Calls, StopClearDb(c) PROVE TypeInv'
  BY <1>22 DEF StopClearDb
<1>23. ASSUME NEW c \in Calls, StopReset(c) PROVE TypeInv'
  BY <1>23 DEF StopReset
<1>24. ASSUME NEW c \in Calls, StopReply(c) PROVE TypeInv'
  BY <1>24 DEF StopReply, Done
<1>25. ASSUME NEW c \in Calls, PollName(c) PROVE TypeInv'
  BY <1>25 DEF PollName
<1>26. ASSUME NEW c \in Calls, PollPs(c) PROVE TypeInv'
  BY <1>26 DEF PollPs
<1>27. ASSUME NEW c \in Calls, PollReply(c) PROVE TypeInv'
  BY <1>27 DEF PollReply, Done
<1>28. ASSUME NEW p \in Maybe, Edit(p) PROVE TypeInv'
  BY <1>28 DEF Edit
<1>29. CASE PickerCancel
  BY <1>29 DEF PickerCancel
<1>30. CASE Relaunch
  <2>1. relaunches' \in 0..MaxRelaunch
    BY <1>30, RelaunchAssumption DEF Relaunch
  <2>2. PICK now \in [Projects -> SUBSET Services] : containers' = now
    BY <1>30 DEF Relaunch
  <2>3. leftover' \in SUBSET Projects
    BY <1>30 DEF Relaunch
  <2> QED
    BY <1>30, <2>1, <2>2, <2>3 DEF Relaunch
<1>31. CASE UNCHANGED vars
  BY <1>31 DEF vars
<1> QED
  BY <1>1, <1>2, <1>3, <1>4, <1>5, <1>6, <1>7, <1>8, <1>9, <1>10,
     <1>11, <1>12, <1>13, <1>14, <1>15, <1>16, <1>17, <1>18,
     <1>19, <1>20, <1>21, <1>22, <1>23, <1>24, <1>25, <1>26,
     <1>27, <1>28, <1>29, <1>30, <1>31 DEF Next, User, Serve

\* The initial state is of the right types, and no request is in flight.
LEMMA InitTypes == Init => TypeInv /\ \A c \in Calls : pc[c] = "free"
<1> SUFFICES ASSUME Init PROVE TypeInv /\ \A c \in Calls : pc[c] = "free"
  OBVIOUS
<1>1. 0 \in 0..MaxRelaunch
  BY RelaunchAssumption
<1>2. TypeOK
  BY <1>1 DEF Init, TypeOK, Maybe
<1>3. NamedInv
  BY DEF Init, NamedInv, NamedPcs, StartPcs
<1> QED
  BY <1>2, <1>3 DEF Init, TypeInv

\* SimLifecycle keeps every variable to its type, whatever the user clicks.
THEOREM TypeCorrect == Spec => []TypeOK
<1>1. Init => TypeInv
  BY InitTypes
<1>2. TypeInv /\ [Next]_vars => TypeInv'
  BY TypeStep
<1>3. TypeInv => TypeOK
  BY DEF TypeInv
<1> QED
  BY <1>1, <1>2, <1>3, PTL DEF Spec

\* The answer that moves the toolbar on stays in flight until it does.
LEMMA StuckStep == TypeInv /\ NeverStuck /\ [Next]_vars => NeverStuck'
<1> SUFFICES ASSUME TypeInv, NeverStuck, [Next]_vars PROVE NeverStuck'
  OBVIOUS
<1> USE DEF TypeInv, TypeOK, NeverStuck, Waiting,
            renderer, calls, main, docker,
            UserPcs, StartPcs, StopPcs, OpenPcs, PollPcs
<1>1. ASSUME NEW c \in Calls, ClickRun(c) PROVE NeverStuck'
  BY <1>1 DEF ClickRun, Send
<1>2. ASSUME NEW c \in Calls, ClickStop(c) PROVE NeverStuck'
  BY <1>2 DEF ClickStop, Send
<1>3. ASSUME NEW c \in Calls, ClickSessions(c) PROVE NeverStuck'
  BY <1>3 DEF ClickSessions, Send
<1>4. ASSUME NEW c \in Calls, ClickImport(c) PROVE NeverStuck'
  BY <1>4 DEF ClickImport, Send
<1>5. ASSUME NEW c \in Calls, NEW p \in Projects, ClickLoad(c, p) PROVE NeverStuck'
  BY <1>5 DEF ClickLoad, Send
<1>6. ASSUME NEW c \in Calls, PollSend(c) PROVE NeverStuck'
  BY <1>6 DEF PollSend, Send
<1>7. ASSUME NEW c \in Calls, PickerOpens(c) PROVE NeverStuck'
  BY <1>7 DEF PickerOpens, Done
<1>8. ASSUME NEW c \in Calls, LoadReply(c) PROVE NeverStuck'
  BY <1>8 DEF LoadReply, Done
<1>9. ASSUME NEW c \in Calls, ImportReply(c) PROVE NeverStuck'
  BY <1>9 DEF ImportReply, Done
<1>10. ASSUME NEW c \in Calls, NEW p \in Projects, ImportRead(c, p) PROVE NeverStuck'
  BY <1>10 DEF ImportRead, Done
<1>11. ASSUME NEW c \in Calls, StartClaim(c) PROVE NeverStuck'
  BY <1>11 DEF StartClaim
<1>12. ASSUME NEW c \in Calls, StartProvision(c) PROVE NeverStuck'
  BY <1>12 DEF StartProvision
<1>13. ASSUME NEW c \in Calls, StartClear(c) PROVE NeverStuck'
  BY <1>13 DEF StartClear, docker
<1>14. ASSUME NEW c \in Calls, NEW s \in Services, UpService(c, s) PROVE NeverStuck'
  BY <1>14 DEF UpService
<1>15. ASSUME NEW c \in Calls, UpEnds(c) PROVE NeverStuck'
  BY <1>15 DEF UpEnds, docker
<1>16. ASSUME NEW c \in Calls, StartRollback(c) PROVE NeverStuck'
  BY <1>16 DEF StartRollback
<1>17. ASSUME NEW c \in Calls, StartFailed(c) PROVE NeverStuck'
  BY <1>17 DEF StartFailed
<1>18. ASSUME NEW c \in Calls, StartSettled(c) PROVE NeverStuck'
  BY <1>18 DEF StartSettled
<1>19. ASSUME NEW c \in Calls, StartReply(c) PROVE NeverStuck'
  BY <1>19 DEF StartReply, Done
<1>20. ASSUME NEW c \in Calls, StopBegin(c) PROVE NeverStuck'
  BY <1>20 DEF StopBegin
<1>21. ASSUME NEW c \in Calls, StopDown(c) PROVE NeverStuck'
  BY <1>21 DEF StopDown
<1>22. ASSUME NEW c \in Calls, StopClearDb(c) PROVE NeverStuck'
  BY <1>22 DEF StopClearDb
<1>23. ASSUME NEW c \in Calls, StopReset(c) PROVE NeverStuck'
  BY <1>23 DEF StopReset
<1>24. ASSUME NEW c \in Calls, StopReply(c) PROVE NeverStuck'
  BY <1>24 DEF StopReply, Done
<1>25. ASSUME NEW c \in Calls, PollName(c) PROVE NeverStuck'
  BY <1>25 DEF PollName
<1>26. ASSUME NEW c \in Calls, PollPs(c) PROVE NeverStuck'
  BY <1>26 DEF PollPs
<1>27. ASSUME NEW c \in Calls, PollReply(c) PROVE NeverStuck'
  BY <1>27 DEF PollReply, Done
<1>28. ASSUME NEW p \in Maybe, Edit(p) PROVE NeverStuck'
  BY <1>28 DEF Edit
<1>29. CASE PickerCancel
  BY <1>29 DEF PickerCancel
<1>30. CASE Relaunch
  BY <1>30 DEF Relaunch
<1>31. CASE UNCHANGED vars
  BY <1>31 DEF vars
<1> QED
  BY <1>1, <1>2, <1>3, <1>4, <1>5, <1>6, <1>7, <1>8, <1>9, <1>10,
     <1>11, <1>12, <1>13, <1>14, <1>15, <1>16, <1>17, <1>18,
     <1>19, <1>20, <1>21, <1>22, <1>23, <1>24, <1>25, <1>26,
     <1>27, <1>28, <1>29, <1>30, <1>31 DEF Next, User, Serve

\* No interleaving of requests, and no failure, leaves the toolbar in Starting
\* or Stopping with nothing in flight to move it on: also when the user
\* clicks without waiting for answers.
THEOREM NeverStuckAlways == Spec => []NeverStuck
<1>1. Init => TypeInv /\ NeverStuck
  BY InitTypes DEF Init, NeverStuck
<1>2. TypeInv /\ NeverStuck /\ [Next]_vars => NeverStuck'
  BY StuckStep
<1> QED
  BY <1>1, <1>2, TypeStep, PTL DEF Spec

-----------------------------------------------------------------------------
(* From here on the user is patient.                                       *)

\* A request is only made when no other is in flight, so the toolbar's state is
\* the state of the one request there is.
LEMMA RequestStep == Patient /\ TypeInv /\ RequestInv /\ [Next]_vars => RequestInv'
<1> SUFFICES ASSUME Patient, TypeInv, RequestInv, [Next]_vars PROVE RequestInv'
  OBVIOUS
<1> USE DEF TypeInv, TypeOK, NamedInv, NamedPcs, Maybe, RequestInv, Waiting,
            renderer, calls, main, docker,
            UserPcs, StartPcs, StopPcs, OpenPcs, PollPcs
<1>1. ASSUME NEW c \in Calls, ClickRun(c) PROVE RequestInv'
  BY <1>1 DEF ClickRun, Send, Clickable, MayAsk
<1>2. ASSUME NEW c \in Calls, ClickStop(c) PROVE RequestInv'
  BY <1>2 DEF ClickStop, Send, Clickable, MayAsk
<1>3. ASSUME NEW c \in Calls, ClickSessions(c) PROVE RequestInv'
  BY <1>3 DEF ClickSessions, Send, Clickable, MayAsk
<1>4. ASSUME NEW c \in Calls, ClickImport(c) PROVE RequestInv'
  BY <1>4 DEF ClickImport, Send, Clickable, MayAsk
<1>5. ASSUME NEW c \in Calls, NEW p \in Projects, ClickLoad(c, p) PROVE RequestInv'
  BY <1>5 DEF ClickLoad, Send, MayAsk
<1>6. ASSUME NEW c \in Calls, PollSend(c) PROVE RequestInv'
  BY <1>6 DEF PollSend, Send
<1>7. ASSUME NEW c \in Calls, PickerOpens(c) PROVE RequestInv'
  BY <1>7 DEF PickerOpens, Done
<1>8. ASSUME NEW c \in Calls, LoadReply(c) PROVE RequestInv'
  BY <1>8 DEF LoadReply, Done
<1>9. ASSUME NEW c \in Calls, ImportReply(c) PROVE RequestInv'
  BY <1>9 DEF ImportReply, Done
<1>10. ASSUME NEW c \in Calls, NEW p \in Projects, ImportRead(c, p) PROVE RequestInv'
  BY <1>10 DEF ImportRead, Done
<1>11. ASSUME NEW c \in Calls, StartClaim(c) PROVE RequestInv'
  BY <1>11 DEF StartClaim
<1>12. ASSUME NEW c \in Calls, StartProvision(c) PROVE RequestInv'
  BY <1>12 DEF StartProvision
<1>13. ASSUME NEW c \in Calls, StartClear(c) PROVE RequestInv'
  BY <1>13 DEF StartClear, docker
<1>14. ASSUME NEW c \in Calls, NEW s \in Services, UpService(c, s) PROVE RequestInv'
  BY <1>14 DEF UpService
<1>15. ASSUME NEW c \in Calls, UpEnds(c) PROVE RequestInv'
  BY <1>15 DEF UpEnds, docker
<1>16. ASSUME NEW c \in Calls, StartRollback(c) PROVE RequestInv'
  BY <1>16 DEF StartRollback
<1>17. ASSUME NEW c \in Calls, StartFailed(c) PROVE RequestInv'
  BY <1>17 DEF StartFailed
<1>18. ASSUME NEW c \in Calls, StartSettled(c) PROVE RequestInv'
  BY <1>18 DEF StartSettled
<1>19. ASSUME NEW c \in Calls, StartReply(c) PROVE RequestInv'
  BY <1>19 DEF StartReply, Done
<1>20. ASSUME NEW c \in Calls, StopBegin(c) PROVE RequestInv'
  BY <1>20 DEF StopBegin
<1>21. ASSUME NEW c \in Calls, StopDown(c) PROVE RequestInv'
  BY <1>21 DEF StopDown
<1>22. ASSUME NEW c \in Calls, StopClearDb(c) PROVE RequestInv'
  BY <1>22 DEF StopClearDb
<1>23. ASSUME NEW c \in Calls, StopReset(c) PROVE RequestInv'
  BY <1>23 DEF StopReset
<1>24. ASSUME NEW c \in Calls, StopReply(c) PROVE RequestInv'
  BY <1>24 DEF StopReply, Done
<1>25. ASSUME NEW c \in Calls, PollName(c) PROVE RequestInv'
  BY <1>25 DEF PollName
<1>26. ASSUME NEW c \in Calls, PollPs(c) PROVE RequestInv'
  BY <1>26 DEF PollPs
<1>27. ASSUME NEW c \in Calls, PollReply(c) PROVE RequestInv'
  BY <1>27 DEF PollReply, Done
<1>28. ASSUME NEW p \in Maybe, Edit(p) PROVE RequestInv'
  BY <1>28 DEF Edit, Clickable, MayAsk
<1>29. CASE PickerCancel
  BY <1>29 DEF PickerCancel, MayAsk
<1>30. CASE Relaunch
  BY <1>30 DEF Relaunch
<1>31. CASE UNCHANGED vars
  BY <1>31 DEF vars
<1> QED
  BY <1>1, <1>2, <1>3, <1>4, <1>5, <1>6, <1>7, <1>8, <1>9, <1>10,
     <1>11, <1>12, <1>13, <1>14, <1>15, <1>16, <1>17, <1>18,
     <1>19, <1>20, <1>21, <1>22, <1>23, <1>24, <1>25, <1>26,
     <1>27, <1>28, <1>29, <1>30, <1>31 DEF Next, User, Serve

\* Only the request under way changes what main holds.
LEMMA ClaimStep == TypeInv /\ RequestInv /\ ClaimInv /\ [Next]_vars => ClaimInv'
<1> SUFFICES ASSUME TypeInv, RequestInv, ClaimInv, [Next]_vars PROVE ClaimInv'
  OBVIOUS
<1> USE DEF TypeInv, TypeOK, NamedInv, NamedPcs, Maybe, RequestInv, ClaimInv, Waiting,
            renderer, calls, main, docker,
            UserPcs, StartPcs, StopPcs, OpenPcs, PollPcs
<1>1. ASSUME NEW c \in Calls, ClickRun(c) PROVE ClaimInv'
  BY <1>1 DEF ClickRun, Send
<1>2. ASSUME NEW c \in Calls, ClickStop(c) PROVE ClaimInv'
  BY <1>2 DEF ClickStop, Send
<1>3. ASSUME NEW c \in Calls, ClickSessions(c) PROVE ClaimInv'
  BY <1>3 DEF ClickSessions, Send
<1>4. ASSUME NEW c \in Calls, ClickImport(c) PROVE ClaimInv'
  BY <1>4 DEF ClickImport, Send
<1>5. ASSUME NEW c \in Calls, NEW p \in Projects, ClickLoad(c, p) PROVE ClaimInv'
  BY <1>5 DEF ClickLoad, Send
<1>6. ASSUME NEW c \in Calls, PollSend(c) PROVE ClaimInv'
  BY <1>6 DEF PollSend, Send
<1>7. ASSUME NEW c \in Calls, PickerOpens(c) PROVE ClaimInv'
  BY <1>7 DEF PickerOpens, Done
<1>8. ASSUME NEW c \in Calls, LoadReply(c) PROVE ClaimInv'
  BY <1>8 DEF LoadReply, Done
<1>9. ASSUME NEW c \in Calls, ImportReply(c) PROVE ClaimInv'
  BY <1>9 DEF ImportReply, Done
<1>10. ASSUME NEW c \in Calls, NEW p \in Projects, ImportRead(c, p) PROVE ClaimInv'
  BY <1>10 DEF ImportRead, Done
<1>11. ASSUME NEW c \in Calls, StartClaim(c) PROVE ClaimInv'
  BY <1>11 DEF StartClaim
<1>12. ASSUME NEW c \in Calls, StartProvision(c) PROVE ClaimInv'
  BY <1>12 DEF StartProvision
<1>13. ASSUME NEW c \in Calls, StartClear(c) PROVE ClaimInv'
  BY <1>13 DEF StartClear, docker
<1>14. ASSUME NEW c \in Calls, NEW s \in Services, UpService(c, s) PROVE ClaimInv'
  BY <1>14 DEF UpService
<1>15. ASSUME NEW c \in Calls, UpEnds(c) PROVE ClaimInv'
  BY <1>15 DEF UpEnds, docker
<1>16. ASSUME NEW c \in Calls, StartRollback(c) PROVE ClaimInv'
  BY <1>16 DEF StartRollback
<1>17. ASSUME NEW c \in Calls, StartFailed(c) PROVE ClaimInv'
  BY <1>17 DEF StartFailed
<1>18. ASSUME NEW c \in Calls, StartSettled(c) PROVE ClaimInv'
  BY <1>18 DEF StartSettled
<1>19. ASSUME NEW c \in Calls, StartReply(c) PROVE ClaimInv'
  BY <1>19 DEF StartReply, Done
<1>20. ASSUME NEW c \in Calls, StopBegin(c) PROVE ClaimInv'
  BY <1>20 DEF StopBegin
<1>21. ASSUME NEW c \in Calls, StopDown(c) PROVE ClaimInv'
  BY <1>21 DEF StopDown
<1>22. ASSUME NEW c \in Calls, StopClearDb(c) PROVE ClaimInv'
  BY <1>22 DEF StopClearDb
<1>23. ASSUME NEW c \in Calls, StopReset(c) PROVE ClaimInv'
  BY <1>23 DEF StopReset
<1>24. ASSUME NEW c \in Calls, StopReply(c) PROVE ClaimInv'
  BY <1>24 DEF StopReply, Done
<1>25. ASSUME NEW c \in Calls, PollName(c) PROVE ClaimInv'
  BY <1>25 DEF PollName
<1>26. ASSUME NEW c \in Calls, PollPs(c) PROVE ClaimInv'
  BY <1>26 DEF PollPs
<1>27. ASSUME NEW c \in Calls, PollReply(c) PROVE ClaimInv'
  BY <1>27 DEF PollReply, Done
<1>28. ASSUME NEW p \in Maybe, Edit(p) PROVE ClaimInv'
  BY <1>28 DEF Edit
<1>29. CASE PickerCancel
  BY <1>29 DEF PickerCancel
<1>30. CASE Relaunch
  BY <1>30 DEF Relaunch
<1>31. CASE UNCHANGED vars
  BY <1>31 DEF vars
<1> QED
  BY <1>1, <1>2, <1>3, <1>4, <1>5, <1>6, <1>7, <1>8, <1>9, <1>10,
     <1>11, <1>12, <1>13, <1>14, <1>15, <1>16, <1>17, <1>18,
     <1>19, <1>20, <1>21, <1>22, <1>23, <1>24, <1>25, <1>26,
     <1>27, <1>28, <1>29, <1>30, <1>31 DEF Next, User, Serve

\* Whenever main is about to let go of a project, its containers are gone or
\* on the list.
LEMMA SettledStep ==
  TypeInv /\ RequestInv /\ ClaimInv /\ SettledInv /\ Accounted /\ [Next]_vars
    => SettledInv' /\ Accounted'
<1> SUFFICES ASSUME TypeInv, RequestInv, ClaimInv, SettledInv, Accounted, [Next]_vars
             PROVE  SettledInv' /\ Accounted'
  OBVIOUS
<1> USE DEF TypeInv, TypeOK, NamedInv, NamedPcs, Maybe, RequestInv, ClaimInv, Waiting,
            SettledInv, AllLeft, Accounted,
            renderer, calls, main, docker,
            UserPcs, StartPcs, StopPcs, OpenPcs, PollPcs
<1>1. ASSUME NEW c \in Calls, ClickRun(c) PROVE SettledInv' /\ Accounted'
  BY <1>1 DEF ClickRun, Send
<1>2. ASSUME NEW c \in Calls, ClickStop(c) PROVE SettledInv' /\ Accounted'
  BY <1>2 DEF ClickStop, Send
<1>3. ASSUME NEW c \in Calls, ClickSessions(c) PROVE SettledInv' /\ Accounted'
  BY <1>3 DEF ClickSessions, Send
<1>4. ASSUME NEW c \in Calls, ClickImport(c) PROVE SettledInv' /\ Accounted'
  BY <1>4 DEF ClickImport, Send
<1>5. ASSUME NEW c \in Calls, NEW p \in Projects, ClickLoad(c, p) PROVE SettledInv' /\ Accounted'
  BY <1>5 DEF ClickLoad, Send
<1>6. ASSUME NEW c \in Calls, PollSend(c) PROVE SettledInv' /\ Accounted'
  BY <1>6 DEF PollSend, Send
<1>7. ASSUME NEW c \in Calls, PickerOpens(c) PROVE SettledInv' /\ Accounted'
  BY <1>7 DEF PickerOpens, Done
<1>8. ASSUME NEW c \in Calls, LoadReply(c) PROVE SettledInv' /\ Accounted'
  BY <1>8 DEF LoadReply, Done
<1>9. ASSUME NEW c \in Calls, ImportReply(c) PROVE SettledInv' /\ Accounted'
  BY <1>9 DEF ImportReply, Done
<1>10. ASSUME NEW c \in Calls, NEW p \in Projects, ImportRead(c, p) PROVE SettledInv' /\ Accounted'
  BY <1>10 DEF ImportRead, Done
<1>11. ASSUME NEW c \in Calls, StartClaim(c) PROVE SettledInv' /\ Accounted'
  BY <1>11 DEF StartClaim
<1>12. ASSUME NEW c \in Calls, StartProvision(c) PROVE SettledInv' /\ Accounted'
  BY <1>12 DEF StartProvision
<1>13. ASSUME NEW c \in Calls, StartClear(c) PROVE SettledInv' /\ Accounted'
  BY <1>13 DEF StartClear, Down, docker
<1>14. ASSUME NEW c \in Calls, NEW s \in Services, UpService(c, s) PROVE SettledInv' /\ Accounted'
  BY <1>14 DEF UpService
<1>15. ASSUME NEW c \in Calls, UpEnds(c) PROVE SettledInv' /\ Accounted'
  BY <1>15 DEF UpEnds, docker
<1>16. ASSUME NEW c \in Calls, StartRollback(c) PROVE SettledInv' /\ Accounted'
  BY <1>16 DEF StartRollback, Down
<1>17. ASSUME NEW c \in Calls, StartFailed(c) PROVE SettledInv' /\ Accounted'
  BY <1>17 DEF StartFailed
<1>18. ASSUME NEW c \in Calls, StartSettled(c) PROVE SettledInv' /\ Accounted'
  BY <1>18 DEF StartSettled
<1>19. ASSUME NEW c \in Calls, StartReply(c) PROVE SettledInv' /\ Accounted'
  BY <1>19 DEF StartReply, Done
<1>20. ASSUME NEW c \in Calls, StopBegin(c) PROVE SettledInv' /\ Accounted'
  BY <1>20, NoProjectAssumption DEF StopBegin
<1>21. ASSUME NEW c \in Calls, StopDown(c) PROVE SettledInv' /\ Accounted'
  BY <1>21 DEF StopDown, Down
<1>22. ASSUME NEW c \in Calls, StopClearDb(c) PROVE SettledInv' /\ Accounted'
  BY <1>22 DEF StopClearDb
<1>23. ASSUME NEW c \in Calls, StopReset(c) PROVE SettledInv' /\ Accounted'
  BY <1>23 DEF StopReset
<1>24. ASSUME NEW c \in Calls, StopReply(c) PROVE SettledInv' /\ Accounted'
  BY <1>24 DEF StopReply, Done
<1>25. ASSUME NEW c \in Calls, PollName(c) PROVE SettledInv' /\ Accounted'
  BY <1>25 DEF PollName
<1>26. ASSUME NEW c \in Calls, PollPs(c) PROVE SettledInv' /\ Accounted'
  BY <1>26 DEF PollPs
<1>27. ASSUME NEW c \in Calls, PollReply(c) PROVE SettledInv' /\ Accounted'
  BY <1>27 DEF PollReply, Done
<1>28. ASSUME NEW p \in Maybe, Edit(p) PROVE SettledInv' /\ Accounted'
  BY <1>28 DEF Edit
<1>29. CASE PickerCancel
  BY <1>29 DEF PickerCancel
<1>30. CASE Relaunch
  BY <1>30 DEF Relaunch
<1>31. CASE UNCHANGED vars
  BY <1>31 DEF vars
<1> QED
  BY <1>1, <1>2, <1>3, <1>4, <1>5, <1>6, <1>7, <1>8, <1>9, <1>10,
     <1>11, <1>12, <1>13, <1>14, <1>15, <1>16, <1>17, <1>18,
     <1>19, <1>20, <1>21, <1>22, <1>23, <1>24, <1>25, <1>26,
     <1>27, <1>28, <1>29, <1>30, <1>31 DEF Next, User, Serve

\* What is running keeps its name, zones and ports.
LEMMA RunningStep ==
  TypeInv /\ RequestInv /\ ClaimInv /\ RunningIsNamed /\ [Next]_vars => RunningIsNamed'
<1> SUFFICES ASSUME TypeInv, RequestInv, ClaimInv, RunningIsNamed, [Next]_vars
             PROVE  RunningIsNamed'
  OBVIOUS
<1> USE NoProjectAssumption
    DEF TypeInv, TypeOK, NamedInv, NamedPcs, Maybe, RequestInv, ClaimInv, Waiting,
        RunningIsNamed,
        renderer, calls, main, docker,
            UserPcs, StartPcs, StopPcs, OpenPcs, PollPcs
<1>1. ASSUME NEW c \in Calls, ClickRun(c) PROVE RunningIsNamed'
  BY <1>1 DEF ClickRun, Send, Clickable
<1>2. ASSUME NEW c \in Calls, ClickStop(c) PROVE RunningIsNamed'
  BY <1>2 DEF ClickStop, Send, Clickable
<1>3. ASSUME NEW c \in Calls, ClickSessions(c) PROVE RunningIsNamed'
  BY <1>3 DEF ClickSessions, Send, Clickable
<1>4. ASSUME NEW c \in Calls, ClickImport(c) PROVE RunningIsNamed'
  BY <1>4 DEF ClickImport, Send, Clickable
<1>5. ASSUME NEW c \in Calls, NEW p \in Projects, ClickLoad(c, p) PROVE RunningIsNamed'
  BY <1>5 DEF ClickLoad, Send
<1>6. ASSUME NEW c \in Calls, PollSend(c) PROVE RunningIsNamed'
  BY <1>6 DEF PollSend, Send
<1>7. ASSUME NEW c \in Calls, PickerOpens(c) PROVE RunningIsNamed'
  BY <1>7 DEF PickerOpens, Done
<1>8. ASSUME NEW c \in Calls, LoadReply(c) PROVE RunningIsNamed'
  BY <1>8 DEF LoadReply, Done
<1>9. ASSUME NEW c \in Calls, ImportReply(c) PROVE RunningIsNamed'
  BY <1>9 DEF ImportReply, Done
<1>10. ASSUME NEW c \in Calls, NEW p \in Projects, ImportRead(c, p) PROVE RunningIsNamed'
  BY <1>10 DEF ImportRead, Done
<1>11. ASSUME NEW c \in Calls, StartClaim(c) PROVE RunningIsNamed'
  BY <1>11 DEF StartClaim
<1>12. ASSUME NEW c \in Calls, StartProvision(c) PROVE RunningIsNamed'
  BY <1>12 DEF StartProvision
<1>13. ASSUME NEW c \in Calls, StartClear(c) PROVE RunningIsNamed'
  BY <1>13 DEF StartClear, docker
<1>14. ASSUME NEW c \in Calls, NEW s \in Services, UpService(c, s) PROVE RunningIsNamed'
  BY <1>14 DEF UpService
<1>15. ASSUME NEW c \in Calls, UpEnds(c) PROVE RunningIsNamed'
  BY <1>15 DEF UpEnds, docker
<1>16. ASSUME NEW c \in Calls, StartRollback(c) PROVE RunningIsNamed'
  BY <1>16 DEF StartRollback
<1>17. ASSUME NEW c \in Calls, StartFailed(c) PROVE RunningIsNamed'
  BY <1>17 DEF StartFailed
<1>18. ASSUME NEW c \in Calls, StartSettled(c) PROVE RunningIsNamed'
  BY <1>18 DEF StartSettled
<1>19. ASSUME NEW c \in Calls, StartReply(c) PROVE RunningIsNamed'
  BY <1>19 DEF StartReply, Done
<1>20. ASSUME NEW c \in Calls, StopBegin(c) PROVE RunningIsNamed'
  BY <1>20 DEF StopBegin
<1>21. ASSUME NEW c \in Calls, StopDown(c) PROVE RunningIsNamed'
  BY <1>21 DEF StopDown
<1>22. ASSUME NEW c \in Calls, StopClearDb(c) PROVE RunningIsNamed'
  BY <1>22 DEF StopClearDb
<1>23. ASSUME NEW c \in Calls, StopReset(c) PROVE RunningIsNamed'
  BY <1>23 DEF StopReset
<1>24. ASSUME NEW c \in Calls, StopReply(c) PROVE RunningIsNamed'
  BY <1>24 DEF StopReply, Done
<1>25. ASSUME NEW c \in Calls, PollName(c) PROVE RunningIsNamed'
  BY <1>25 DEF PollName
<1>26. ASSUME NEW c \in Calls, PollPs(c) PROVE RunningIsNamed'
  BY <1>26 DEF PollPs
<1>27. ASSUME NEW c \in Calls, PollReply(c) PROVE RunningIsNamed'
  BY <1>27 DEF PollReply, Done
<1>28. ASSUME NEW p \in Maybe, Edit(p) PROVE RunningIsNamed'
  BY <1>28 DEF Edit, Clickable
<1>29. CASE PickerCancel
  BY <1>29 DEF PickerCancel
<1>30. CASE Relaunch
  BY <1>30 DEF Relaunch
<1>31. CASE UNCHANGED vars
  BY <1>31 DEF vars
<1> QED
  BY <1>1, <1>2, <1>3, <1>4, <1>5, <1>6, <1>7, <1>8, <1>9, <1>10,
     <1>11, <1>12, <1>13, <1>14, <1>15, <1>16, <1>17, <1>18,
     <1>19, <1>20, <1>21, <1>22, <1>23, <1>24, <1>25, <1>26,
     <1>27, <1>28, <1>29, <1>30, <1>31 DEF Next, User, Serve

\* IInv holds initially and is kept by every step of a patient user's program.
LEMMA Invariance == ASSUME Patient PROVE Spec => []IInv
<1>1. Init => IInv
  BY InitTypes
  DEF Init, IInv, NeverStuck, RequestInv, ClaimInv, SettledInv, AllLeft, Accounted, RunningIsNamed,
      Waiting, UserPcs, StartPcs, StopPcs, OpenPcs
<1>2. IInv /\ [Next]_vars => IInv'
  BY Patient, TypeStep, StuckStep, RequestStep, ClaimStep, SettledStep, RunningStep DEF IInv
<1> QED
  BY <1>1, <1>2, PTL DEF Spec

\* A simulation shown as running is the scenario on the canvas, and main holds
\* its name, its zones and its ports, whatever fails and whenever the app quits.
THEOREM RunningIsNamedAlways == ASSUME Patient PROVE Spec => []RunningIsNamed
<1>1. IInv => RunningIsNamed
  BY DEF IInv
<1> QED
  BY <1>1, Invariance, PTL

\* No failure of a start or of a stop makes the program forget containers.
THEOREM AccountedAlways == ASSUME Patient PROVE Spec => []Accounted
<1>1. IInv => Accounted
  BY DEF IInv
<1> QED
  BY <1>1, Invariance, PTL

-----------------------------------------------------------------------------
\* When no request holds the project, a teardown of it has failed.
Held == activeProject = NoProject \/ activeProject \in leftover

HeldInv ==
  /\ simStatus = "idle" => Held
  /\ \A c \in Calls : pc[c] \in {"startSent", "startErr", "stopReply"} => Held

\* Every answer leaves main with a project only if its teardown has failed.
LEMMA HeldStep ==
  TypeInv /\ RequestInv /\ ClaimInv /\ HeldInv /\ [Next]_vars => HeldInv'
<1> SUFFICES ASSUME TypeInv, RequestInv, ClaimInv, HeldInv, [Next]_vars
             PROVE  HeldInv'
  OBVIOUS
<1> USE NoProjectAssumption
    DEF TypeInv, TypeOK, NamedInv, NamedPcs, Maybe, RequestInv, ClaimInv, Waiting,
        HeldInv, Held,
        renderer, calls, main, docker,
            UserPcs, StartPcs, StopPcs, OpenPcs, PollPcs
<1>1. ASSUME NEW c \in Calls, ClickRun(c) PROVE HeldInv'
  BY <1>1 DEF ClickRun, Send, Clickable
<1>2. ASSUME NEW c \in Calls, ClickStop(c) PROVE HeldInv'
  BY <1>2 DEF ClickStop, Send, Clickable
<1>3. ASSUME NEW c \in Calls, ClickSessions(c) PROVE HeldInv'
  BY <1>3 DEF ClickSessions, Send, Clickable
<1>4. ASSUME NEW c \in Calls, ClickImport(c) PROVE HeldInv'
  BY <1>4 DEF ClickImport, Send, Clickable
<1>5. ASSUME NEW c \in Calls, NEW p \in Projects, ClickLoad(c, p) PROVE HeldInv'
  BY <1>5 DEF ClickLoad, Send
<1>6. ASSUME NEW c \in Calls, PollSend(c) PROVE HeldInv'
  BY <1>6 DEF PollSend, Send
<1>7. ASSUME NEW c \in Calls, PickerOpens(c) PROVE HeldInv'
  BY <1>7 DEF PickerOpens, Done
<1>8. ASSUME NEW c \in Calls, LoadReply(c) PROVE HeldInv'
  BY <1>8 DEF LoadReply, Done
<1>9. ASSUME NEW c \in Calls, ImportReply(c) PROVE HeldInv'
  BY <1>9 DEF ImportReply, Done
<1>10. ASSUME NEW c \in Calls, NEW p \in Projects, ImportRead(c, p) PROVE HeldInv'
  BY <1>10 DEF ImportRead, Done
<1>11. ASSUME NEW c \in Calls, StartClaim(c) PROVE HeldInv'
  BY <1>11 DEF StartClaim
<1>12. ASSUME NEW c \in Calls, StartProvision(c) PROVE HeldInv'
  BY <1>12 DEF StartProvision
<1>13. ASSUME NEW c \in Calls, StartClear(c) PROVE HeldInv'
  BY <1>13 DEF StartClear, Down, docker
<1>14. ASSUME NEW c \in Calls, NEW s \in Services, UpService(c, s) PROVE HeldInv'
  BY <1>14 DEF UpService
<1>15. ASSUME NEW c \in Calls, UpEnds(c) PROVE HeldInv'
  BY <1>15 DEF UpEnds, docker
<1>16. ASSUME NEW c \in Calls, StartRollback(c) PROVE HeldInv'
  BY <1>16 DEF StartRollback, Down
<1>17. ASSUME NEW c \in Calls, StartFailed(c) PROVE HeldInv'
  BY <1>17 DEF StartFailed
<1>18. ASSUME NEW c \in Calls, StartSettled(c) PROVE HeldInv'
  BY <1>18 DEF StartSettled
<1>19. ASSUME NEW c \in Calls, StartReply(c) PROVE HeldInv'
  BY <1>19 DEF StartReply, Done
<1>20. ASSUME NEW c \in Calls, StopBegin(c) PROVE HeldInv'
  BY <1>20 DEF StopBegin
<1>21. ASSUME NEW c \in Calls, StopDown(c) PROVE HeldInv'
  BY <1>21 DEF StopDown, Down
<1>22. ASSUME NEW c \in Calls, StopClearDb(c) PROVE HeldInv'
  BY <1>22 DEF StopClearDb
<1>23. ASSUME NEW c \in Calls, StopReset(c) PROVE HeldInv'
  BY <1>23 DEF StopReset
<1>24. ASSUME NEW c \in Calls, StopReply(c) PROVE HeldInv'
  BY <1>24 DEF StopReply, Done
<1>25. ASSUME NEW c \in Calls, PollName(c) PROVE HeldInv'
  BY <1>25 DEF PollName
<1>26. ASSUME NEW c \in Calls, PollPs(c) PROVE HeldInv'
  BY <1>26 DEF PollPs
<1>27. ASSUME NEW c \in Calls, PollReply(c) PROVE HeldInv'
  BY <1>27 DEF PollReply, Done
<1>28. ASSUME NEW p \in Maybe, Edit(p) PROVE HeldInv'
  BY <1>28 DEF Edit, Clickable
<1>29. CASE PickerCancel
  BY <1>29 DEF PickerCancel
<1>30. CASE Relaunch
  BY <1>30 DEF Relaunch
<1>31. CASE UNCHANGED vars
  BY <1>31 DEF vars
<1> QED
  BY <1>1, <1>2, <1>3, <1>4, <1>5, <1>6, <1>7, <1>8, <1>9, <1>10,
     <1>11, <1>12, <1>13, <1>14, <1>15, <1>16, <1>17, <1>18,
     <1>19, <1>20, <1>21, <1>22, <1>23, <1>24, <1>25, <1>26,
     <1>27, <1>28, <1>29, <1>30, <1>31 DEF Next, User, Serve

\* The toolbar is idle over a project that main still holds only when its
\* teardown has failed: otherwise every way out of a start or a stop lets go.
THEOREM IdleLetsGoAlways == ASSUME Patient PROVE Spec => []IdleLetsGo
<1>1. Init => HeldInv
  BY DEF Init, HeldInv, Held
<1>2. IInv /\ HeldInv /\ [Next]_vars => HeldInv'
  BY HeldStep DEF IInv
<1>3. HeldInv => IdleLetsGo
  BY DEF HeldInv, Held, IdleLetsGo
<1> QED
  BY <1>1, <1>2, <1>3, Invariance, PTL DEF Spec

-----------------------------------------------------------------------------
\* What a step may do to the containers and to the running state.
LEMMA UpNamedStep == IInv /\ [Next]_vars => [UpOnlyNamedStep]_vars
<1> SUFFICES ASSUME IInv, [Next]_vars PROVE UpOnlyNamedStep
  OBVIOUS
<1> USE DEF IInv, TypeInv, TypeOK, NamedInv, NamedPcs, Maybe, ClaimInv, UpOnlyNamedStep,
            renderer, calls, main, docker,
            UserPcs, StartPcs, StopPcs, OpenPcs, PollPcs
<1>1. ASSUME NEW c \in Calls, ClickRun(c) PROVE UpOnlyNamedStep
  BY <1>1 DEF ClickRun, Send
<1>2. ASSUME NEW c \in Calls, ClickStop(c) PROVE UpOnlyNamedStep
  BY <1>2 DEF ClickStop, Send
<1>3. ASSUME NEW c \in Calls, ClickSessions(c) PROVE UpOnlyNamedStep
  BY <1>3 DEF ClickSessions, Send
<1>4. ASSUME NEW c \in Calls, ClickImport(c) PROVE UpOnlyNamedStep
  BY <1>4 DEF ClickImport, Send
<1>5. ASSUME NEW c \in Calls, NEW p \in Projects, ClickLoad(c, p) PROVE UpOnlyNamedStep
  BY <1>5 DEF ClickLoad, Send
<1>6. ASSUME NEW c \in Calls, PollSend(c) PROVE UpOnlyNamedStep
  BY <1>6 DEF PollSend, Send
<1>7. ASSUME NEW c \in Calls, PickerOpens(c) PROVE UpOnlyNamedStep
  BY <1>7 DEF PickerOpens, Done
<1>8. ASSUME NEW c \in Calls, LoadReply(c) PROVE UpOnlyNamedStep
  BY <1>8 DEF LoadReply, Done
<1>9. ASSUME NEW c \in Calls, ImportReply(c) PROVE UpOnlyNamedStep
  BY <1>9 DEF ImportReply, Done
<1>10. ASSUME NEW c \in Calls, NEW p \in Projects, ImportRead(c, p) PROVE UpOnlyNamedStep
  BY <1>10 DEF ImportRead, Done
<1>11. ASSUME NEW c \in Calls, StartClaim(c) PROVE UpOnlyNamedStep
  BY <1>11 DEF StartClaim
<1>12. ASSUME NEW c \in Calls, StartProvision(c) PROVE UpOnlyNamedStep
  BY <1>12 DEF StartProvision
<1>13. ASSUME NEW c \in Calls, StartClear(c) PROVE UpOnlyNamedStep
  BY <1>13 DEF StartClear, Down, docker
<1>14. ASSUME NEW c \in Calls, NEW s \in Services, UpService(c, s) PROVE UpOnlyNamedStep
  BY <1>14 DEF UpService
<1>15. ASSUME NEW c \in Calls, UpEnds(c) PROVE UpOnlyNamedStep
  BY <1>15 DEF UpEnds, docker
<1>16. ASSUME NEW c \in Calls, StartRollback(c) PROVE UpOnlyNamedStep
  BY <1>16 DEF StartRollback, Down
<1>17. ASSUME NEW c \in Calls, StartFailed(c) PROVE UpOnlyNamedStep
  BY <1>17 DEF StartFailed
<1>18. ASSUME NEW c \in Calls, StartSettled(c) PROVE UpOnlyNamedStep
  BY <1>18 DEF StartSettled
<1>19. ASSUME NEW c \in Calls, StartReply(c) PROVE UpOnlyNamedStep
  BY <1>19 DEF StartReply, Done
<1>20. ASSUME NEW c \in Calls, StopBegin(c) PROVE UpOnlyNamedStep
  BY <1>20 DEF StopBegin
<1>21. ASSUME NEW c \in Calls, StopDown(c) PROVE UpOnlyNamedStep
  BY <1>21 DEF StopDown, Down
<1>22. ASSUME NEW c \in Calls, StopClearDb(c) PROVE UpOnlyNamedStep
  BY <1>22 DEF StopClearDb
<1>23. ASSUME NEW c \in Calls, StopReset(c) PROVE UpOnlyNamedStep
  BY <1>23 DEF StopReset
<1>24. ASSUME NEW c \in Calls, StopReply(c) PROVE UpOnlyNamedStep
  BY <1>24 DEF StopReply, Done
<1>25. ASSUME NEW c \in Calls, PollName(c) PROVE UpOnlyNamedStep
  BY <1>25 DEF PollName
<1>26. ASSUME NEW c \in Calls, PollPs(c) PROVE UpOnlyNamedStep
  BY <1>26 DEF PollPs
<1>27. ASSUME NEW c \in Calls, PollReply(c) PROVE UpOnlyNamedStep
  BY <1>27 DEF PollReply, Done
<1>28. ASSUME NEW p \in Maybe, Edit(p) PROVE UpOnlyNamedStep
  BY <1>28 DEF Edit
<1>29. CASE PickerCancel
  BY <1>29 DEF PickerCancel
<1>30. CASE Relaunch
  BY <1>30, RelaunchAssumption DEF Relaunch
<1>31. CASE UNCHANGED vars
  BY <1>31 DEF vars
<1> QED
  BY <1>1, <1>2, <1>3, <1>4, <1>5, <1>6, <1>7, <1>8, <1>9, <1>10,
     <1>11, <1>12, <1>13, <1>14, <1>15, <1>16, <1>17, <1>18,
     <1>19, <1>20, <1>21, <1>22, <1>23, <1>24, <1>25, <1>26,
     <1>27, <1>28, <1>29, <1>30, <1>31 DEF Next, User, Serve

\* Containers are only created for the project main has claimed.
THEOREM UpOnlyNamedAlways == ASSUME Patient PROVE Spec => [][UpOnlyNamedStep]_vars
<1>1. IInv /\ [Next]_vars => [UpOnlyNamedStep]_vars
  BY UpNamedStep
<1> QED
  BY <1>1, Invariance, PTL DEF Spec

\* What is shown as running has its name in main throughout, and what is created
\* has been claimed.
THEOREM NameHoldsAlways == ASSUME Patient PROVE Spec => NameHolds
BY RunningIsNamedAlways, UpOnlyNamedAlways, PTL DEF NameHolds

\* Main loses track of no containers, and the toolbar of no lab main holds.
THEOREM NothingForgottenAlways == ASSUME Patient PROVE Spec => []NothingForgotten
<1>1. Accounted /\ IdleLetsGo => NothingForgotten
  BY DEF NothingForgotten
<1> QED
  BY <1>1, AccountedAlways, IdleLetsGoAlways, PTL

-----------------------------------------------------------------------------
UntilStopStep ==
  simStatus = "running" /\ simStatus' # "running"
    => simStatus' = "stopping" \/ relaunches' # relaunches

LEMMA UntilStep == IInv /\ [Next]_vars => [UntilStopStep]_vars
<1> SUFFICES ASSUME IInv, [Next]_vars PROVE UntilStopStep
  OBVIOUS
<1> USE DEF IInv, TypeInv, TypeOK, RequestInv, Maybe, UntilStopStep,
            renderer, calls, main, docker,
            UserPcs, StartPcs, StopPcs, OpenPcs, PollPcs
<1>1. ASSUME NEW c \in Calls, ClickRun(c) PROVE UntilStopStep
  BY <1>1 DEF ClickRun, Send
<1>2. ASSUME NEW c \in Calls, ClickStop(c) PROVE UntilStopStep
  BY <1>2 DEF ClickStop, Send
<1>3. ASSUME NEW c \in Calls, ClickSessions(c) PROVE UntilStopStep
  BY <1>3 DEF ClickSessions, Send
<1>4. ASSUME NEW c \in Calls, ClickImport(c) PROVE UntilStopStep
  BY <1>4 DEF ClickImport, Send
<1>5. ASSUME NEW c \in Calls, NEW p \in Projects, ClickLoad(c, p) PROVE UntilStopStep
  BY <1>5 DEF ClickLoad, Send
<1>6. ASSUME NEW c \in Calls, PollSend(c) PROVE UntilStopStep
  BY <1>6 DEF PollSend, Send
<1>7. ASSUME NEW c \in Calls, PickerOpens(c) PROVE UntilStopStep
  BY <1>7 DEF PickerOpens, Done
<1>8. ASSUME NEW c \in Calls, LoadReply(c) PROVE UntilStopStep
  BY <1>8 DEF LoadReply, Done
<1>9. ASSUME NEW c \in Calls, ImportReply(c) PROVE UntilStopStep
  BY <1>9 DEF ImportReply, Done
<1>10. ASSUME NEW c \in Calls, NEW p \in Projects, ImportRead(c, p) PROVE UntilStopStep
  BY <1>10 DEF ImportRead, Done
<1>11. ASSUME NEW c \in Calls, StartClaim(c) PROVE UntilStopStep
  BY <1>11 DEF StartClaim
<1>12. ASSUME NEW c \in Calls, StartProvision(c) PROVE UntilStopStep
  BY <1>12 DEF StartProvision
<1>13. ASSUME NEW c \in Calls, StartClear(c) PROVE UntilStopStep
  BY <1>13 DEF StartClear, docker
<1>14. ASSUME NEW c \in Calls, NEW s \in Services, UpService(c, s) PROVE UntilStopStep
  BY <1>14 DEF UpService
<1>15. ASSUME NEW c \in Calls, UpEnds(c) PROVE UntilStopStep
  BY <1>15 DEF UpEnds, docker
<1>16. ASSUME NEW c \in Calls, StartRollback(c) PROVE UntilStopStep
  BY <1>16 DEF StartRollback
<1>17. ASSUME NEW c \in Calls, StartFailed(c) PROVE UntilStopStep
  BY <1>17 DEF StartFailed
<1>18. ASSUME NEW c \in Calls, StartSettled(c) PROVE UntilStopStep
  BY <1>18 DEF StartSettled
<1>19. ASSUME NEW c \in Calls, StartReply(c) PROVE UntilStopStep
  BY <1>19 DEF StartReply, Done
<1>20. ASSUME NEW c \in Calls, StopBegin(c) PROVE UntilStopStep
  BY <1>20 DEF StopBegin
<1>21. ASSUME NEW c \in Calls, StopDown(c) PROVE UntilStopStep
  BY <1>21 DEF StopDown
<1>22. ASSUME NEW c \in Calls, StopClearDb(c) PROVE UntilStopStep
  BY <1>22 DEF StopClearDb
<1>23. ASSUME NEW c \in Calls, StopReset(c) PROVE UntilStopStep
  BY <1>23 DEF StopReset
<1>24. ASSUME NEW c \in Calls, StopReply(c) PROVE UntilStopStep
  BY <1>24 DEF StopReply, Done
<1>25. ASSUME NEW c \in Calls, PollName(c) PROVE UntilStopStep
  BY <1>25 DEF PollName
<1>26. ASSUME NEW c \in Calls, PollPs(c) PROVE UntilStopStep
  BY <1>26 DEF PollPs
<1>27. ASSUME NEW c \in Calls, PollReply(c) PROVE UntilStopStep
  BY <1>27 DEF PollReply, Done
<1>28. ASSUME NEW p \in Maybe, Edit(p) PROVE UntilStopStep
  BY <1>28 DEF Edit
<1>29. CASE PickerCancel
  BY <1>29 DEF PickerCancel
<1>30. CASE Relaunch
  BY <1>30, RelaunchAssumption DEF Relaunch
<1>31. CASE UNCHANGED vars
  BY <1>31 DEF vars
<1> QED
  BY <1>1, <1>2, <1>3, <1>4, <1>5, <1>6, <1>7, <1>8, <1>9, <1>10,
     <1>11, <1>12, <1>13, <1>14, <1>15, <1>16, <1>17, <1>18,
     <1>19, <1>20, <1>21, <1>22, <1>23, <1>24, <1>25, <1>26,
     <1>27, <1>28, <1>29, <1>30, <1>31 DEF Next, User, Serve

\* No late answer of an earlier request ends the running state.
THEOREM RunningUntilStopAlways == ASSUME Patient PROVE Spec => RunningUntilStop
<1>1. IInv /\ [Next]_vars => [UntilStopStep]_vars
  BY UntilStep
<1> QED
  BY <1>1, Invariance, PTL DEF Spec, RunningUntilStop, UntilStopStep

-----------------------------------------------------------------------------
\* Every step is a step of LabLifecycle, or leaves its variables alone.
LEMMA LabStep ==
  Patient /\ IInv /\ [Next]_vars => [Lab!Next]_<<simStatus, canvas, activeProject>>
<1> DEFINE Goal == [Lab!Next]_<<simStatus, canvas, activeProject>>
<1> SUFFICES ASSUME Patient, IInv, [Next]_vars PROVE Goal
  OBVIOUS
<1> USE DEF IInv, TypeInv, TypeOK, NamedInv, NamedPcs, Maybe, RequestInv, ClaimInv, RunningIsNamed,
            Waiting, renderer, calls, main, docker,
            UserPcs, StartPcs, StopPcs, OpenPcs, PollPcs,
            Lab!Next
<1>1. ASSUME NEW c \in Calls, ClickRun(c) PROVE Goal
  <2>1. canvas' \in Projects
    BY <1>1 DEF ClickRun
  <2>2. simStatus = "idle" /\ simStatus' = "starting" /\ activeProject' = activeProject
    BY <1>1 DEF ClickRun
  <2>3. Lab!Begin
    BY <2>1, <2>2 DEF Lab!Begin
  <2> QED
    BY <2>3
<1>2. ASSUME NEW c \in Calls, ClickStop(c) PROVE Goal
  <2>1. Waiting(UserPcs) = {}
    BY <1>2, Patient DEF ClickStop, Clickable, MayAsk
  <2>2. simStatus # "starting"
    BY <2>1 DEF NeverStuck
  <2> QED
    BY <1>2, <2>2 DEF ClickStop, Lab!AskStop
<1>3. ASSUME NEW c \in Calls, ClickSessions(c) PROVE Goal
  BY <1>3 DEF ClickSessions
<1>4. ASSUME NEW c \in Calls, ClickImport(c) PROVE Goal
  BY <1>4 DEF ClickImport
<1>5. ASSUME NEW c \in Calls, NEW p \in Projects, ClickLoad(c, p) PROVE Goal
  BY <1>5 DEF ClickLoad
<1>6. ASSUME NEW c \in Calls, PollSend(c) PROVE Goal
  BY <1>6 DEF PollSend
<1>7. ASSUME NEW c \in Calls, PickerOpens(c) PROVE Goal
  BY <1>7 DEF PickerOpens, Done
<1>8. ASSUME NEW c \in Calls, LoadReply(c) PROVE Goal
  BY <1>8 DEF LoadReply, Done, Lab!Begin
<1>9. ASSUME NEW c \in Calls, ImportReply(c) PROVE Goal
  BY <1>9 DEF ImportReply, Done, Lab!Choose
<1>10. ASSUME NEW c \in Calls, NEW p \in Projects, ImportRead(c, p) PROVE Goal
  BY <1>10 DEF ImportRead, Done
<1>11. ASSUME NEW c \in Calls, StartClaim(c) PROVE Goal
  BY <1>11 DEF StartClaim, Lab!Claim
<1>12. ASSUME NEW c \in Calls, StartProvision(c) PROVE Goal
  BY <1>12 DEF StartProvision, Lab!Claim
<1>13. ASSUME NEW c \in Calls, StartClear(c) PROVE Goal
  BY <1>13 DEF StartClear, docker
<1>14. ASSUME NEW c \in Calls, NEW s \in Services, UpService(c, s) PROVE Goal
  BY <1>14 DEF UpService
<1>15. ASSUME NEW c \in Calls, UpEnds(c) PROVE Goal
  BY <1>15 DEF UpEnds, docker
<1>16. ASSUME NEW c \in Calls, StartRollback(c) PROVE Goal
  BY <1>16 DEF StartRollback
<1>17. ASSUME NEW c \in Calls, StartFailed(c) PROVE Goal
  BY <1>17 DEF StartFailed, Lab!Claim
<1>18. ASSUME NEW c \in Calls, StartSettled(c) PROVE Goal
  BY <1>18 DEF StartSettled
<1>19. ASSUME NEW c \in Calls, StartReply(c) PROVE Goal
  BY <1>19 DEF StartReply, Done, Lab!Ready, Lab!GiveUp
<1>20. ASSUME NEW c \in Calls, StopBegin(c) PROVE Goal
  BY <1>20 DEF StopBegin
<1>21. ASSUME NEW c \in Calls, StopDown(c) PROVE Goal
  BY <1>21 DEF StopDown
<1>22. ASSUME NEW c \in Calls, StopClearDb(c) PROVE Goal
  BY <1>22 DEF StopClearDb
<1>23. ASSUME NEW c \in Calls, StopReset(c) PROVE Goal
  BY <1>23 DEF StopReset, Lab!Release
<1>24. ASSUME NEW c \in Calls, StopReply(c) PROVE Goal
  BY <1>24 DEF StopReply, Done, Lab!Stopped
<1>25. ASSUME NEW c \in Calls, PollName(c) PROVE Goal
  BY <1>25 DEF PollName
<1>26. ASSUME NEW c \in Calls, PollPs(c) PROVE Goal
  BY <1>26 DEF PollPs
<1>27. ASSUME NEW c \in Calls, PollReply(c) PROVE Goal
  BY <1>27 DEF PollReply, Done
<1>28. ASSUME NEW p \in Maybe, Edit(p) PROVE Goal
  BY <1>28 DEF Edit, Lab!Choose
<1>29. CASE PickerCancel
  BY <1>29 DEF PickerCancel
<1>30. CASE Relaunch
  BY <1>30 DEF Relaunch, Lab!Quit
<1>31. CASE UNCHANGED vars
  BY <1>31 DEF vars
<1> QED
  BY <1>1, <1>2, <1>3, <1>4, <1>5, <1>6, <1>7, <1>8, <1>9, <1>10,
     <1>11, <1>12, <1>13, <1>14, <1>15, <1>16, <1>17, <1>18,
     <1>19, <1>20, <1>21, <1>22, <1>23, <1>24, <1>25, <1>26,
     <1>27, <1>28, <1>29, <1>30, <1>31 DEF Next, User, Serve

\* The simulation's life implements the abstract one: what is shown is what is
\* started, and the program holds what runs.
THEOREM Implements == ASSUME Patient PROVE Spec => LabSpec
<1>1. Init => Lab!Init
  BY DEF Init, Lab!Init
<1>2. IInv /\ [Next]_vars => [Lab!Next]_<<simStatus, canvas, activeProject>>
  BY Patient, LabStep
<1> QED
  BY <1>1, <1>2, Invariance, PTL DEF Spec, LabSpec, Lab!Spec

=============================================================================
