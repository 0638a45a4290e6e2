---------------------------- MODULE EpisodeClock ----------------------------
(***************************************************************************)
(* Lock-step mode of the process simulator (containers/process-sim/sim.py):*)
(* a harness grants ticks with POST /step, each behind a settle barrier    *)
(* that waits for the controller to answer the state last published.       *)
(*                                                                         *)
(* All of it runs on one asyncio event loop, so the code between two       *)
(* suspension points is one action.  The controller is external: it scans  *)
(* forever, reading the process values and then writing the coils it has   *)
(* computed from them.  The process state is its tick number, and the      *)
(* coils are the tick they answer.                                         *)
(***************************************************************************)
EXTENDS Integers, Sequences

CONSTANTS Callers,   \* connections on which the harness posts /step
          NoCaller,
          MaxGrant,  \* ticks of one request
          MaxTick,   \* bound: ticks asked for in all
          OtherReads \* some other Modbus client reads process values too

ASSUME NoCallerAssumption == NoCaller \notin Callers
ASSUME BoundAssumption    == MaxGrant \in Nat \ {0} /\ MaxTick \in Nat
ASSUME KnobAssumption     == OtherReads \in BOOLEAN

VARIABLES
  stepBarrier, \* SIM_STEP_BARRIER, read once when the container starts
  tick,       \* ticks computed and published
  budget,     \* clock._budget
  granted, drained,  \* clock._granted, clock._drained
  lock,       \* holder of clock._lock
  queue,      \* callers waiting for it, first come first served
  pc,         \* per caller: where its /step handler is suspended
  want,       \* per caller: ticks it asked for
  sawRead,    \* per caller: pv_reads has grown since its phase 1 began
  sawWrite,   \* per caller: coil_writes has grown since its phase 2 began
  satisfied,  \* per caller: what its barrier reported
  coils,      \* the tick the coils answer
  plc, plcSeen,  \* the controller: next Modbus access, state it last read
  asked,      \* ticks asked for so far
  from,       \* history, per caller: the tick at which its grant began
  disturbed   \* history: callers since whose /step another's ticks were computed, or
              \* in whose phase 1 somebody other than the controller has read

clock   == <<tick, budget, granted, drained, lock, queue>>
barrier == <<sawRead, sawWrite, satisfied>>
callers == <<pc, want, from>>
plcvars == <<coils, plc, plcSeen>>
vars    == <<clock, barrier, callers, plcvars, asked, stepBarrier, disturbed>>

Init ==
  /\ stepBarrier \in BOOLEAN /\ disturbed = {}
  /\ tick = 0 /\ budget = 0
  /\ granted = FALSE /\ drained = TRUE
  /\ lock = NoCaller /\ queue = <<>>
  /\ pc = [c \in Callers |-> "idle"]
  /\ want = [c \in Callers |-> 0]
  /\ sawRead = [c \in Callers |-> FALSE]
  /\ sawWrite = [c \in Callers |-> FALSE]
  /\ satisfied = [c \in Callers |-> FALSE]
  /\ coils = 0 /\ plc = "read" /\ plcSeen = 0
  /\ asked = 0
  /\ from = [c \in Callers |-> 0]

-----------------------------------------------------------------------------
\* request(): inside the lock, the budget is set and the physics loop woken.
Grant(c, n) ==
  /\ lock' = c
  /\ budget' = n
  /\ drained' = FALSE /\ granted' = TRUE
  /\ from' = [from EXCEPT ![c] = tick]
  /\ pc' = [pc EXCEPT ![c] = "granted"]

\* The lock is taken on the spot if it is free and nobody queues for it.
RequestTicks(c, n) ==
  \/ /\ lock = NoCaller /\ queue = <<>>
     /\ Grant(c, n)
     /\ UNCHANGED <<tick, queue>>
  \/ /\ lock # NoCaller \/ queue # <<>>
     /\ queue' = Append(queue, c)
     /\ pc' = [pc EXCEPT ![c] = "queued"]
     /\ UNCHANGED <<tick, budget, granted, drained, lock, from>>

\* Mutant of Step: the barrier waits for a write alone.
StepWriteOnly(c, n) ==
  /\ pc[c] = "idle" /\ asked + n <= MaxTick
  /\ asked' = asked + n
  /\ want' = [want EXCEPT ![c] = n]
  /\ satisfied' = [satisfied EXCEPT ![c] = FALSE]
  /\ disturbed' = disturbed \ {c}
  /\ pc' = [pc EXCEPT ![c] = "phase2"]
  /\ sawWrite' = [sawWrite EXCEPT ![c] = FALSE]
  /\ UNCHANGED <<clock, from, sawRead, plcvars, stepBarrier>>

\* POST /step with a positive whole number of ticks: phase 1 of the barrier
\* begins, or there is no barrier.  Anything else is answered at once.
Step(c, n) ==
  /\ pc[c] = "idle" /\ asked + n <= MaxTick
  /\ asked' = asked + n
  /\ want' = [want EXCEPT ![c] = n]
  /\ satisfied' = [satisfied EXCEPT ![c] = FALSE]
  /\ disturbed' = disturbed \ {c}
  /\ \/ /\ stepBarrier
        /\ pc' = [pc EXCEPT ![c] = "phase1"]
        /\ sawRead' = [sawRead EXCEPT ![c] = FALSE]
        /\ UNCHANGED <<clock, from>>
     \/ /\ ~stepBarrier
        /\ RequestTicks(c, n)
        /\ UNCHANGED sawRead
  /\ UNCHANGED <<sawWrite, plcvars, stepBarrier>>

\* Phase 1 sees a read; phase 2 counts writes from here.
PhaseRead(c) ==
  /\ pc[c] = "phase1" /\ sawRead[c]
  /\ pc' = [pc EXCEPT ![c] = "phase2"]
  /\ sawWrite' = [sawWrite EXCEPT ![c] = FALSE]
  /\ UNCHANGED <<clock, sawRead, satisfied, want, from, plcvars, asked, stepBarrier, disturbed>>

PhaseWrite(c) ==
  /\ pc[c] = "phase2" /\ sawWrite[c]
  /\ satisfied' = [satisfied EXCEPT ![c] = TRUE]
  /\ RequestTicks(c, want[c])
  /\ UNCHANGED <<sawRead, sawWrite, want, plcvars, asked, stepBarrier, disturbed>>

\* Mutant of BarrierTimeout: the deadline holds for phase 1 only.
BarrierTimeoutPhase1(c) ==
  /\ pc[c] = "phase1" /\ ~sawRead[c]
  /\ RequestTicks(c, want[c])
  /\ UNCHANGED <<barrier, want, plcvars, asked, stepBarrier, disturbed>>

\* Past the deadline the step goes on, and the report says so.
BarrierTimeout(c) ==
  /\ \/ pc[c] = "phase1" /\ ~sawRead[c]
     \/ pc[c] = "phase2" /\ ~sawWrite[c]
  /\ RequestTicks(c, want[c])
  /\ UNCHANGED <<barrier, want, plcvars, asked, stepBarrier, disturbed>>

\* The lock was released and its first waiter runs.
Acquire(c) ==
  /\ pc[c] = "queued" /\ lock = NoCaller
  /\ queue # <<>> /\ Head(queue) = c
  /\ queue' = Tail(queue)
  /\ Grant(c, want[c])
  /\ UNCHANGED <<tick, want, barrier, plcvars, asked, stepBarrier, disturbed>>

\* Mutant of PhysicsLoop: one tick too many.
PhysicsLoopOverrun ==
  /\ granted
  /\ tick' = tick + budget + 1
  /\ budget' = -1
  /\ drained' = TRUE /\ granted' = FALSE
  /\ UNCHANGED <<lock, queue, barrier, callers, plcvars, asked, stepBarrier, disturbed>>

\* The physics loop, woken by _granted.  await_grant does not suspend while the
\* budget lasts, so every granted tick is computed, published and consumed
\* before anything else runs; then _drained is set and _granted cleared.
PhysicsLoop ==
  /\ granted
  /\ tick' = tick + budget
  /\ budget' = 0
  /\ drained' = TRUE /\ granted' = FALSE
  /\ disturbed' = disturbed \cup {c \in Callers : pc[c] \in {"phase1", "phase2", "queued"}}
  /\ UNCHANGED <<lock, queue, barrier, callers, plcvars, asked, stepBarrier>>

\* request() returns: the lock is released and the snapshot answered.
Answer(c) ==
  /\ pc[c] = "granted" /\ drained
  /\ lock' = NoCaller
  /\ pc' = [pc EXCEPT ![c] = "idle"]
  /\ UNCHANGED <<tick, budget, granted, drained, queue, barrier, want, from, plcvars, asked, stepBarrier, disturbed>>

-----------------------------------------------------------------------------
\* A read of the PV window counts for every barrier that is waiting for one.
CountRead == sawRead' = [c \in Callers |-> sawRead[c] \/ pc[c] = "phase1"]

PlcRead ==
  /\ plc = "read"
  /\ plc' = "write" /\ plcSeen' = tick
  /\ CountRead
  /\ UNCHANGED <<clock, sawWrite, satisfied, callers, coils, asked, stepBarrier, disturbed>>

PlcWrite ==
  /\ plc = "write"
  /\ plc' = "read" /\ coils' = plcSeen
  /\ sawWrite' = [c \in Callers |-> sawWrite[c] \/ pc[c] = "phase2"]
  /\ UNCHANGED <<clock, sawRead, satisfied, callers, plcSeen, asked, stepBarrier, disturbed>>

OtherRead ==
  /\ OtherReads
  /\ CountRead
  /\ disturbed' = disturbed \cup {c \in Callers : pc[c] = "phase1"}
  /\ UNCHANGED <<clock, sawWrite, satisfied, callers, plcvars, asked, stepBarrier>>

Handler(c) == PhaseRead(c) \/ PhaseWrite(c) \/ BarrierTimeout(c) \/ Acquire(c) \/ Answer(c)

Next ==
  \/ \E c \in Callers : Handler(c) \/ \E n \in 1..MaxGrant : Step(c, n)
  \/ PhysicsLoop
  \/ PlcRead \/ PlcWrite \/ OtherRead

Spec == Init /\ [][Next]_vars

\* The event loop runs every continuation that is ready, and the barrier has a
\* deadline.  The controller need not scan.
Fairness == WF_vars(PhysicsLoop) /\ \A c \in Callers : WF_vars(Handler(c))

FairSpec == Spec /\ Fairness

-----------------------------------------------------------------------------
\* What each variable may hold.
TypeOK ==
  /\ stepBarrier \in BOOLEAN /\ disturbed \in SUBSET Callers
  /\ tick \in Nat /\ budget \in 0..MaxGrant /\ asked \in 0..MaxTick
  /\ granted \in BOOLEAN /\ drained \in BOOLEAN
  /\ lock \in Callers \cup {NoCaller}
  /\ queue \in Seq(Callers)
  /\ pc \in [Callers -> {"idle", "phase1", "phase2", "queued", "granted"}]
  /\ want \in [Callers -> 0..MaxGrant]
  /\ sawRead \in [Callers -> BOOLEAN] /\ sawWrite \in [Callers -> BOOLEAN]
  /\ satisfied \in [Callers -> BOOLEAN]
  /\ coils \in Nat /\ plc \in {"read", "write"} /\ plcSeen \in Nat
  /\ from \in [Callers -> Nat]

\* A caller is released exactly when its own ticks have been computed: not
\* before the last, and not with ticks of another caller among them.
OwnTicks ==
  \A c \in Callers : pc[c] = "granted" /\ drained => tick = from[c] + want[c]

\* The clock never owes a tick that nobody waits for, and the physics loop is
\* awake exactly when one is owed.
NothingOwed ==
  /\ budget > 0 <=> granted
  /\ granted <=> ~drained
  /\ budget > 0 => lock # NoCaller /\ budget = want[lock] /\ tick = from[lock]

\* A step whose barrier reports success starts from coils that answer the state
\* the process is in, unless another caller's ticks came in between or a client
\* other than the controller has been counted (_settle_barrier).
HonestStep == tick' # tick /\ satisfied[lock] /\ lock \notin disturbed => coils = tick

\* A caller's step is its own: its ticks and nobody else's, owed to it alone, and
\* from coils that answer what its barrier reported (EpisodeClock, _settle_barrier).
StepIsOwn == [][(OwnTicks /\ NothingOwed)' /\ HonestStep]_vars

\* Every step is answered, whether or not the controller is alive.
StepAnswered == \A c \in Callers : pc[c] # "idle" ~> pc[c] = "idle"

=============================================================================
