------------------------- MODULE EpisodeClockProofs -------------------------
(***************************************************************************)
(* Theorems about EpisodeClock, for every set of callers and every size of *)
(* a grant, with and without the barrier.                                  *)
(***************************************************************************)
EXTENDS EpisodeClock, TLAPS

\* The lock is held by the caller whose ticks are being computed, and a caller
\* on its way has asked for at least one.
LockInv ==
  /\ \A c \in Callers : pc[c] = "granted" <=> lock = c
  /\ \A c \in Callers : pc[c] # "idle" => want[c] > 0

IInv == TypeOK /\ LockInv /\ NothingOwed /\ OwnTicks

-----------------------------------------------------------------------------
\* The part of the type invariant that a request for the clock may disturb.
ClockType ==
  /\ tick \in Nat /\ budget \in 0..MaxGrant
  /\ granted \in BOOLEAN /\ drained \in BOOLEAN
  /\ lock \in Callers \cup {NoCaller} /\ queue \in Seq(Callers)
  /\ pc \in [Callers -> {"idle", "phase1", "phase2", "queued", "granted"}]
  /\ from \in [Callers -> Nat]

LEMMA GrantType ==
  ASSUME TypeOK, NEW c \in Callers, NEW n \in 0..MaxGrant, Grant(c, n)
  PROVE  /\ budget' \in 0..MaxGrant /\ granted' \in BOOLEAN /\ drained' \in BOOLEAN
         /\ lock' \in Callers \cup {NoCaller}
         /\ pc' \in [Callers -> {"idle", "phase1", "phase2", "queued", "granted"}]
         /\ from' \in [Callers -> Nat]
  BY DEF TypeOK, Grant

LEMMA RequestType ==
  ASSUME TypeOK, NEW c \in Callers, NEW n \in 0..MaxGrant, RequestTicks(c, n)
  PROVE  ClockType'
<1>1. CASE lock = NoCaller /\ queue = <<>>
  <2>1. Grant(c, n) /\ UNCHANGED <<tick, queue>>
    BY <1>1 DEF RequestTicks
  <2> QED
    BY <2>1, GrantType DEF TypeOK, ClockType
<1>2. CASE ~(lock = NoCaller /\ queue = <<>>)
  <2>1. /\ queue' = Append(queue, c) /\ pc' = [pc EXCEPT ![c] = "queued"]
        /\ UNCHANGED <<tick, budget, granted, drained, lock, from>>
    BY <1>2 DEF RequestTicks
  <2>2. queue' \in Seq(Callers)
    BY <2>1 DEF TypeOK
  <2> QED
    BY <2>1, <2>2 DEF TypeOK, ClockType
<1> QED
  BY <1>1, <1>2

\* Every variable keeps to its type.
LEMMA TypeStep == TypeOK /\ [Next]_vars => TypeOK'
<1> SUFFICES ASSUME TypeOK, [Next]_vars PROVE TypeOK'
  OBVIOUS
<1> USE BoundAssumption DEF clock, barrier, callers, plcvars
<1>1. ASSUME NEW c \in Callers, NEW n \in 1..MaxGrant, Step(c, n) PROVE TypeOK'
  <2>1. ClockType'
    <3>1. CASE stepBarrier /\ UNCHANGED <<clock, from>> /\ pc' = [pc EXCEPT ![c] = "phase1"]
      BY <3>1 DEF TypeOK, ClockType
    <3>2. CASE RequestTicks(c, n)
      <4>1. n \in 0..MaxGrant
        OBVIOUS
      <4> QED
        BY <3>2, <4>1, RequestType
    <3> QED
      BY <1>1, <3>1, <3>2 DEF Step
  <2>2. asked' \in 0..MaxTick
    BY <1>1 DEF Step, TypeOK
  <2>3. want' \in [Callers -> 0..MaxGrant] /\ satisfied' \in [Callers -> BOOLEAN]
    BY <1>1 DEF Step, TypeOK
  <2>4. /\ sawRead' \in [Callers -> BOOLEAN] /\ disturbed' \in SUBSET Callers
        /\ UNCHANGED <<sawWrite, plcvars, stepBarrier>>
    BY <1>1 DEF Step, TypeOK
  <2> QED
    BY <2>1, <2>2, <2>3, <2>4 DEF TypeOK, ClockType
<1>2. ASSUME NEW c \in Callers, PhaseRead(c) PROVE TypeOK'
  BY <1>2 DEF PhaseRead, TypeOK
<1>3. ASSUME NEW c \in Callers, PhaseWrite(c) PROVE TypeOK'
  <2>1. want[c] \in 0..MaxGrant
    BY DEF TypeOK
  <2>2. ClockType'
    BY <1>3, <2>1, RequestType DEF PhaseWrite
  <2> QED
    BY <1>3, <2>2 DEF PhaseWrite, TypeOK, ClockType
<1>4. ASSUME NEW c \in Callers, BarrierTimeout(c) PROVE TypeOK'
  <2>1. want[c] \in 0..MaxGrant
    BY DEF TypeOK
  <2>2. ClockType'
    BY <1>4, <2>1, RequestType DEF BarrierTimeout
  <2> QED
    BY <1>4, <2>2 DEF BarrierTimeout, TypeOK, ClockType
<1>5. ASSUME NEW c \in Callers, Acquire(c) PROVE TypeOK'
  <2>1. want[c] \in 0..MaxGrant
    BY DEF TypeOK
  <2>2. Grant(c, want[c]) /\ UNCHANGED <<tick, want, barrier, plcvars, asked, stepBarrier, disturbed>>
    BY <1>5 DEF Acquire
  <2>3. queue' \in Seq(Callers)
    BY <1>5 DEF Acquire, TypeOK
  <2> QED
    BY <2>1, <2>2, <2>3, GrantType DEF TypeOK
<1>6. ASSUME NEW c \in Callers, Answer(c) PROVE TypeOK'
  BY <1>6 DEF Answer, TypeOK
<1>7. CASE PhysicsLoop
  <2>1. tick' \in Nat /\ budget' \in 0..MaxGrant
    BY <1>7 DEF PhysicsLoop, TypeOK
  <2> QED
    BY <1>7, <2>1 DEF PhysicsLoop, TypeOK
<1>8. CASE PlcRead
  BY <1>8 DEF PlcRead, CountRead, TypeOK
<1>9. CASE PlcWrite
  BY <1>9 DEF PlcWrite, TypeOK
<1>10. CASE OtherRead
  BY <1>10 DEF OtherRead, CountRead, TypeOK
<1>11. CASE UNCHANGED vars
  BY <1>11 DEF vars, TypeOK
<1> QED
  BY <1>1, <1>2, <1>3, <1>4, <1>5, <1>6, <1>7, <1>8, <1>9, <1>10, <1>11 DEF Next, Handler

\* The lock keeps its holder until the holder answers.
LEMMA LockStep == TypeOK /\ LockInv /\ [Next]_vars => LockInv'
<1> SUFFICES ASSUME TypeOK, LockInv, [Next]_vars PROVE LockInv'
  OBVIOUS
<1> USE NoCallerAssumption, BoundAssumption DEF TypeOK, LockInv, clock, barrier, callers, plcvars
<1>1. ASSUME NEW c \in Callers, NEW n \in 1..MaxGrant, Step(c, n) PROVE LockInv'
  BY <1>1 DEF Step, Grant, RequestTicks
<1>2. ASSUME NEW c \in Callers, PhaseRead(c) PROVE LockInv'
  BY <1>2 DEF PhaseRead
<1>3. ASSUME NEW c \in Callers, PhaseWrite(c) PROVE LockInv'
  BY <1>3 DEF PhaseWrite, Grant, RequestTicks
<1>4. ASSUME NEW c \in Callers, BarrierTimeout(c) PROVE LockInv'
  BY <1>4 DEF BarrierTimeout, Grant, RequestTicks
<1>5. ASSUME NEW c \in Callers, Acquire(c) PROVE LockInv'
  BY <1>5 DEF Acquire, Grant
<1>6. ASSUME NEW c \in Callers, Answer(c) PROVE LockInv'
  BY <1>6 DEF Answer
<1>7. CASE PhysicsLoop
  BY <1>7 DEF PhysicsLoop
<1>8. CASE PlcRead
  BY <1>8 DEF PlcRead, CountRead
<1>9. CASE PlcWrite
  BY <1>9 DEF PlcWrite
<1>10. CASE OtherRead
  BY <1>10 DEF OtherRead, CountRead
<1>11. CASE UNCHANGED vars
  BY <1>11 DEF vars
<1> QED
  BY <1>1, <1>2, <1>3, <1>4, <1>5, <1>6, <1>7, <1>8, <1>9, <1>10, <1>11 DEF Next, Handler

\* What is owed is what the holder of the lock asked for.
LEMMA OwedStep == TypeOK /\ LockInv /\ NothingOwed /\ [Next]_vars => NothingOwed'
<1> SUFFICES ASSUME TypeOK, LockInv, NothingOwed, [Next]_vars PROVE NothingOwed'
  OBVIOUS
<1> USE NoCallerAssumption, BoundAssumption DEF TypeOK, LockInv, NothingOwed, clock, barrier, callers, plcvars
<1>1. ASSUME NEW c \in Callers, NEW n \in 1..MaxGrant, Step(c, n) PROVE NothingOwed'
  BY <1>1 DEF Step, Grant, RequestTicks
<1>2. ASSUME NEW c \in Callers, PhaseRead(c) PROVE NothingOwed'
  BY <1>2 DEF PhaseRead
<1>3. ASSUME NEW c \in Callers, PhaseWrite(c) PROVE NothingOwed'
  BY <1>3 DEF PhaseWrite, Grant, RequestTicks
<1>4. ASSUME NEW c \in Callers, BarrierTimeout(c) PROVE NothingOwed'
  BY <1>4 DEF BarrierTimeout, Grant, RequestTicks
<1>5. ASSUME NEW c \in Callers, Acquire(c) PROVE NothingOwed'
  BY <1>5 DEF Acquire, Grant
<1>6. ASSUME NEW c \in Callers, Answer(c) PROVE NothingOwed'
  BY <1>6 DEF Answer
<1>7. CASE PhysicsLoop
  BY <1>7 DEF PhysicsLoop
<1>8. CASE PlcRead
  BY <1>8 DEF PlcRead, CountRead
<1>9. CASE PlcWrite
  BY <1>9 DEF PlcWrite
<1>10. CASE OtherRead
  BY <1>10 DEF OtherRead, CountRead
<1>11. CASE UNCHANGED vars
  BY <1>11 DEF vars
<1> QED
  BY <1>1, <1>2, <1>3, <1>4, <1>5, <1>6, <1>7, <1>8, <1>9, <1>10, <1>11 DEF Next, Handler

\* A released caller has had its ticks, and no other caller's since.
LEMMA OwnStep == IInv /\ [Next]_vars => OwnTicks'
<1> SUFFICES ASSUME IInv, [Next]_vars PROVE OwnTicks'
  OBVIOUS
<1> USE NoCallerAssumption, BoundAssumption
    DEF IInv, TypeOK, LockInv, NothingOwed, OwnTicks, clock, barrier, callers, plcvars
<1>1. ASSUME NEW c \in Callers, NEW n \in 1..MaxGrant, Step(c, n) PROVE OwnTicks'
  BY <1>1 DEF Step, Grant, RequestTicks
<1>2. ASSUME NEW c \in Callers, PhaseRead(c) PROVE OwnTicks'
  BY <1>2 DEF PhaseRead
<1>3. ASSUME NEW c \in Callers, PhaseWrite(c) PROVE OwnTicks'
  BY <1>3 DEF PhaseWrite, Grant, RequestTicks
<1>4. ASSUME NEW c \in Callers, BarrierTimeout(c) PROVE OwnTicks'
  BY <1>4 DEF BarrierTimeout, Grant, RequestTicks
<1>5. ASSUME NEW c \in Callers, Acquire(c) PROVE OwnTicks'
  BY <1>5 DEF Acquire, Grant
<1>6. ASSUME NEW c \in Callers, Answer(c) PROVE OwnTicks'
  BY <1>6 DEF Answer
<1>7. CASE PhysicsLoop
  BY <1>7 DEF PhysicsLoop
<1>8. CASE PlcRead
  BY <1>8 DEF PlcRead, CountRead
<1>9. CASE PlcWrite
  BY <1>9 DEF PlcWrite
<1>10. CASE OtherRead
  BY <1>10 DEF OtherRead, CountRead
<1>11. CASE UNCHANGED vars
  BY <1>11 DEF vars
<1> QED
  BY <1>1, <1>2, <1>3, <1>4, <1>5, <1>6, <1>7, <1>8, <1>9, <1>10, <1>11 DEF Next, Handler

\* IInv holds initially and is kept by every step.
LEMMA Invariance == Spec => []IInv
<1>1. Init => IInv
  <2> SUFFICES ASSUME Init PROVE IInv
    OBVIOUS
  <2>1. TypeOK
    <3>1. budget \in 0..MaxGrant /\ asked \in 0..MaxTick /\ want \in [Callers -> 0..MaxGrant]
      BY BoundAssumption DEF Init
    <3>2. queue \in Seq(Callers) /\ tick \in Nat /\ coils \in Nat /\ plcSeen \in Nat
      BY DEF Init
    <3> QED
      BY <3>1, <3>2 DEF Init, TypeOK
  <2>2. LockInv
    BY NoCallerAssumption DEF Init, LockInv
  <2>3. NothingOwed /\ OwnTicks
    BY DEF Init, NothingOwed, OwnTicks
  <2> QED
    BY <2>1, <2>2, <2>3 DEF IInv
<1>2. IInv /\ [Next]_vars => IInv'
  BY TypeStep, LockStep, OwedStep, OwnStep DEF IInv
<1> QED
  BY <1>1, <1>2, PTL DEF Spec

\* Every variable keeps to its type, for any number of connections and any bounds.
THEOREM TypeCorrect == Spec => []TypeOK
<1>1. IInv => TypeOK
  BY DEF IInv
<1> QED
  BY <1>1, Invariance, PTL

\* However many harness connections step the simulator at once, each is released
\* exactly when its own ticks have been computed.
THEOREM OwnTicksAlways == Spec => []OwnTicks
<1>1. IInv => OwnTicks
  BY DEF IInv
<1> QED
  BY <1>1, Invariance, PTL

\* The physics loop is awake exactly when the holder of the lock is owed ticks.
THEOREM NothingOwedAlways == Spec => []NothingOwed
<1>1. IInv => NothingOwed
  BY DEF IInv
<1> QED
  BY <1>1, Invariance, PTL

-----------------------------------------------------------------------------
\* An undisturbed caller: what its barrier has seen so far was a read, and then
\* a write, of the state that the process is still in.
Settling ==
  \A c \in Callers : c \notin disturbed =>
    /\ pc[c] = "phase1" /\ sawRead[c] => plcSeen = tick
    /\ pc[c] = "phase2" => plcSeen = tick
    /\ pc[c] = "phase2" /\ sawWrite[c] => coils = tick
    /\ pc[c] = "phase1" => ~satisfied[c]
    /\ pc[c] = "phase2" => ~satisfied[c]
    /\ pc[c] \in {"queued", "granted"} /\ satisfied[c] /\ (pc[c] = "granted" => granted)
         => plcSeen = tick /\ coils = tick

\* A report of success is only about the barrier of the step under way.
LEMMA SettlingStep == IInv /\ Settling /\ [Next]_vars => Settling'
<1> SUFFICES ASSUME IInv, Settling, [Next]_vars PROVE Settling'
  OBVIOUS
<1> USE NoCallerAssumption, BoundAssumption
    DEF IInv, TypeOK, LockInv, NothingOwed, Settling, clock, barrier, callers, plcvars
<1>1. ASSUME NEW c \in Callers, NEW n \in 1..MaxGrant, Step(c, n) PROVE Settling'
  BY <1>1 DEF Step, Grant, RequestTicks
<1>2. ASSUME NEW c \in Callers, PhaseRead(c) PROVE Settling'
  BY <1>2 DEF PhaseRead
<1>3. ASSUME NEW c \in Callers, PhaseWrite(c) PROVE Settling'
  BY <1>3 DEF PhaseWrite, Grant, RequestTicks
<1>4. ASSUME NEW c \in Callers, BarrierTimeout(c) PROVE Settling'
  BY <1>4 DEF BarrierTimeout, Grant, RequestTicks
<1>5. ASSUME NEW c \in Callers, Acquire(c) PROVE Settling'
  BY <1>5 DEF Acquire, Grant
<1>6. ASSUME NEW c \in Callers, Answer(c) PROVE Settling'
  BY <1>6 DEF Answer
<1>7. CASE PhysicsLoop
  BY <1>7 DEF PhysicsLoop
<1>8. CASE PlcRead
  BY <1>8 DEF PlcRead, CountRead
<1>9. CASE PlcWrite
  BY <1>9 DEF PlcWrite
<1>10. CASE OtherRead
  BY <1>10 DEF OtherRead, CountRead
<1>11. CASE UNCHANGED vars
  BY <1>11 DEF vars
<1> QED
  BY <1>1, <1>2, <1>3, <1>4, <1>5, <1>6, <1>7, <1>8, <1>9, <1>10, <1>11 DEF Next, Handler

\* Only the physics loop changes the tick, for the holder of the lock.
LEMMA TickStep == IInv /\ Settling /\ [Next]_vars => [HonestStep]_vars
<1> SUFFICES ASSUME IInv, Settling, [Next]_vars PROVE HonestStep
  OBVIOUS
<1> USE DEF HonestStep, clock, barrier, callers, plcvars
<1>1. ASSUME NEW c \in Callers, NEW n \in 1..MaxGrant, Step(c, n) PROVE tick' = tick
  BY <1>1 DEF Step, Grant, RequestTicks
<1>2. ASSUME NEW c \in Callers, Handler(c) PROVE tick' = tick
  BY <1>2 DEF Handler, PhaseRead, PhaseWrite, BarrierTimeout, Acquire, Answer, Grant, RequestTicks
<1>3. CASE PhysicsLoop
  <2>1. lock \in Callers /\ pc[lock] = "granted" /\ granted
    BY <1>3, NoCallerAssumption DEF PhysicsLoop, IInv, TypeOK, LockInv, NothingOwed
  <2> QED
    BY <2>1 DEF Settling
<1>4. CASE PlcRead \/ PlcWrite \/ OtherRead \/ UNCHANGED vars
  BY <1>4 DEF PlcRead, PlcWrite, OtherRead, vars
<1> QED
  BY <1>1, <1>2, <1>3, <1>4 DEF Next

\* However many harness connections and other clients there are: an undisturbed
\* step whose barrier reports success starts from coils that answer its state.
THEOREM BarrierHonestAlways == Spec => [][HonestStep]_vars
<1>1. Init => Settling
  BY DEF Init, Settling
<1>2. IInv /\ Settling /\ [Next]_vars => [HonestStep]_vars
  BY TickStep
<1> QED
  BY <1>1, <1>2, SettlingStep, Invariance, PTL DEF Spec


\* A step's ticks are its caller's own, and so is what its barrier reports.
THEOREM StepIsOwnAlways == Spec => StepIsOwn
BY OwnTicksAlways, NothingOwedAlways, BarrierHonestAlways, PTL DEF StepIsOwn

=============================================================================
