------------------------------ MODULE App --------------------------------
(***************************************************************************)
(* The app under any user, without the bounds on what may meet: either how *)
(* its installations are started and updated, or what its toolbar asks of  *)
(* the simulation.  The two share no state, so a behaviour is about one.   *)
(***************************************************************************)
EXTENDS UpdateFlow

CONSTANTS Projects, Services, Calls, NoProject, MaxRelaunch

\* The assumptions of SimLifecycle.
ASSUME SimulationAssumption == NoProject \notin Projects /\ MaxRelaunch \in Nat

VARIABLES part, simStatus, view, canvas, picker, pills, simPc, proj, left,
          activeProject, activeZones, activePorts, active, containers, leftover, relaunches

Sim == INSTANCE SimLifecycle WITH Patient <- FALSE, pc <- simPc

simVars == <<simStatus, view, canvas, picker, pills, simPc, proj, left,
             activeProject, activeZones, activePorts, active, containers, leftover, relaunches>>

AppInit == Init /\ Sim!Init /\ part \in {"update", "simulation"}
AppNext ==
  \/ part = "update"     /\ Next     /\ UNCHANGED <<simVars, part>>
  \/ part = "simulation" /\ Sim!Next /\ UNCHANGED <<vars, part>>

\* The part left alone has nothing under way that fairness could ask to go on.
AppSpec == AppInit /\ [][AppNext]_<<vars, simVars, part>> /\ Fairness /\ Sim!Fairness

\* A toolbar that is on its way has a request that will bring it further: the
\* startSimulation and handleStop of App.tsx answer in every case.
NeverStuck == Sim!NeverStuck

\* Starting and Stopping end, whatever else is in flight (App.tsx).
TransitionsEnd == Sim!TransitionsEnd
=============================================================================
