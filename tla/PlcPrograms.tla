---------------------------- MODULE PlcPrograms ----------------------------
(***************************************************************************)
(* The program a controller starts with (plc-program-gen.ts): the one its  *)
(* author saved, else a safety vote over the sensors wired to it, else the *)
(* ISA-88 sequencer of the batch reactor wired to it, else one coil per    *)
(* actuator.  The vote and the sequencer are run here, one scan an action, *)
(* beside Modbus clients that write their commands and registers; what the *)
(* sensors read is any value.  A reading is given by which of the          *)
(* program's thresholds it is beyond.                                      *)
(***************************************************************************)
EXTENDS ComposePlan

CONSTANTS
  ReactHold,    \* reactHoldTicks: scans the reaction is held
  IntMax,       \* the largest INT: a further one wraps
  MaxForced     \* registers written by others

ASSUME ProgramAssumption == ReactHold \in Int /\ IntMax \in Nat

VARIABLES
  batch,        \* the sequencer: batch_state, current_phase, react_ticks, the commands
                \* set, its outputs, and, for the properties, what this batch has done
  trip_relay,   \* the vote: TRUE is armed
  forced        \* registers written by others so far

programVars == <<batch, trip_relay, forced>>

Actuators == {"pump", "valve", "vfd", "actuator"}

otherEnd(w, id) == IF w.source = id THEN w.target ELSE IF w.target = id THEN w.source ELSE None
peerKind(id) == IF id \in Ids(lab) /\ Device(lab, id).kind \in Actuators
                  THEN Device(lab, id).kind ELSE None

-----------------------------------------------------------------------------
(* Coils of a generated program.                                           *)

\* The peer a pipe's coil stands for: an actuator of its ends, the far one first; else
\* the far end, else the target.
CoilPeer(w, plc) ==
  LET far == otherEnd(w, plc)
      Is(x) == x # None /\ peerKind(x) # None
  IN  IF Is(far) THEN far ELSE IF Is(w.source) THEN w.source
      ELSE IF Is(w.target) THEN w.target ELSE IF far # None THEN far ELSE w.target

\* A peer that is no actuator never takes the coil of one.
put(b, coil, peer) ==
  IF coil \in DOMAIN b.of /\ peerKind(b.of[coil]) # None /\ peerKind(peer) = None THEN b
  ELSE [of |-> Merge(b.of, [c \in {coil} |-> peer]), peers |-> b.peers \cup {peer}]

FirstUnused(b) == CHOOSE k \in 0 .. Len(lab.wires) + 8 :
                    k \notin DOMAIN b.of /\ \A j \in 0 .. k - 1 : j \in DOMAIN b.of

\* Explicit coils in the order of the edges, then an unused index for each actuator
\* wired to the PLC that has none.
inferPlcCoilBindings(plc) ==
  LET explicit[i \in 0 .. Len(lab.wires)] ==
        IF i = 0 THEN [of |-> <<>>, peers |-> {}]
        ELSE LET w == lab.wires[i]
             IN  IF w.coil = plc THEN put(explicit[i - 1], w.coilIndex, CoilPeer(w, plc))
                                 ELSE explicit[i - 1]
      direct[i \in 0 .. Len(lab.wires)] ==
        IF i = 0 THEN explicit[Len(lab.wires)]
        ELSE LET w == lab.wires[i]
                 peer == otherEnd(w, plc)
                 b == direct[i - 1]
             IN  IF peer = None \/ peerKind(peer) = None \/ peer \in b.peers \/ w.coil = plc
                   THEN b ELSE put(b, FirstUnused(b), peer)
  IN  direct[Len(lab.wires)].of

linkedToProcessUnit(plc) ==
  \E i \in DOMAIN lab.wires :
    LET w == lab.wires[i]
    IN  /\ \E x \in Ends(w) : IsA(lab, x, {"process-unit"})
        /\ plc \in Ends(w) \cup {w.coil}

\* %QX0.i for every coil, a spare one when there is none; for a PLC that drives a unit
\* the first four are copied to the unit's coils %QX100.0-3.
buildAutoPlcProgram(plc) ==
  LET bindings == inferPlcCoilBindings(plc)
      coils == IF bindings = <<>> THEN {0} ELSE DOMAIN bindings
      rank(c) == Cardinality({k \in coils : k < c})
  IN  [coils |-> coils,
       copies |-> IF linkedToProcessUnit(plc)
                    THEN [c \in {k \in coils : rank(k) < 4} |-> rank(c)] ELSE <<>>]

inferBatchReactorNodeId(plc) ==
  {x \in PeersOf(plc, {"process-unit"}) : Device(lab, x).kind = "batch-reactor"}

\* One entry per wire: a sensor wired twice is read, and votes, twice.
inferSisSensorNodeIds(plc) ==
  LET Feeds(w) == IsA(lab, otherEnd(w, plc), {"smart-sensor"})
      wires == Those(lab.wires, Feeds)
  IN  [i \in DOMAIN wires |-> otherEnd(wires[i], plc)]

\* The program of a controller.
ProgramOf(d) ==
  IF d.category \notin Controllers THEN None
  ELSE IF d.authored THEN "authored"
  ELSE IF d.category = "safety-plc" /\ inferSisSensorNodeIds(d.id) # <<>> THEN "voting"
  ELSE IF d.category = "batch-controller" /\ inferBatchReactorNodeId(d.id) # {} THEN "batch"
  ELSE "auto"
Running(program) == {d \in {lab.devices[i] : i \in DOMAIN lab.devices} : ProgramOf(d) = program}

-----------------------------------------------------------------------------
(* The safety vote.                                                        *)

\* parseVotingThreshold: never more votes than sensors, never none.
Needed(d, wired) ==
  LET declared == IF d.votes = None THEN wired ELSE d.votes
      least == IF declared < wired THEN declared ELSE wired
  IN  IF least < 1 THEN 1 ELSE least

ScanVote ==
  /\ up /\ Running("voting") # {}
  /\ \E d \in Running("voting") : \E high \in SUBSET Ids(lab) :
       LET sensors == inferSisSensorNodeIds(d.id)
           votes == Cardinality({i \in DOMAIN sensors : sensors[i] \in high})
       IN  trip_relay' = (votes < Needed(d, Len(sensors)))
  /\ UNCHANGED <<planVars, batch, forced>>

-----------------------------------------------------------------------------
(* The batch sequencer.                                                    *)

CommandCoils == {"start", "hold", "resume", "abort", "reset"}
IDLE == 0
RUNNING == 1
HELD == 2
ABORTED == 3
COMPLETE == 4

NoOutputs == [charge |-> FALSE, heater |-> FALSE, agitator |-> FALSE, cooling |-> FALSE,
              discharge |-> FALSE, esd |-> FALSE]
BatchReset == [batch_state |-> IDLE, current_phase |-> 0, react_ticks |-> 0, cmds |-> {},
               out |-> NoOutputs, done |-> {}, held |-> 0]

Inc(n) == IF n = IntMax THEN -IntMax - 1 ELSE n + 1

\* Mutant of Advance: the hold of the reaction is one scan short.
AdvanceEarly(b, level, temp) ==
  CASE b.current_phase = 1 /\ level = "charged" -> [b EXCEPT !.current_phase = 2]
    [] b.current_phase = 2 /\ temp = "hot" -> [b EXCEPT !.current_phase = 3, !.react_ticks = 0]
    [] b.current_phase = 3 ->
         [b EXCEPT !.react_ticks = Inc(@), !.held = @ + 1,
                   !.current_phase = IF b.react_ticks + 2 >= ReactHold THEN 4 ELSE 3]
    [] b.current_phase = 4 /\ temp = "cold" -> [b EXCEPT !.current_phase = 5]
    [] b.current_phase = 5 /\ level = "empty" -> [b EXCEPT !.batch_state = COMPLETE, !.current_phase = 0]
    [] OTHER -> b

\* RUNNING: the phases CHARGE, HEAT, REACT, COOL, DISCHARGE.
Advance(b, level, temp) ==
  CASE b.current_phase = 1 /\ level = "charged" -> [b EXCEPT !.current_phase = 2]
    [] b.current_phase = 2 /\ temp = "hot" -> [b EXCEPT !.current_phase = 3, !.react_ticks = 0]
    [] b.current_phase = 3 ->
         [b EXCEPT !.react_ticks = Inc(@), !.held = @ + 1,
                   !.current_phase = IF Inc(b.react_ticks) >= ReactHold THEN 4 ELSE 3]
    [] b.current_phase = 4 /\ temp = "cold" -> [b EXCEPT !.current_phase = 5]
    [] b.current_phase = 5 /\ level = "empty" -> [b EXCEPT !.batch_state = COMPLETE, !.current_phase = 0]
    [] OTHER -> b

\* The commands are coils a client sets; the program never clears one.
Sequence(b, level, temp) ==
  LET st == b.batch_state
  IN  CASE "abort" \in b.cmds -> [b EXCEPT !.batch_state = ABORTED, !.current_phase = 0]
        [] "abort" \notin b.cmds /\ st = ABORTED ->
             IF "reset" \in b.cmds
               THEN [b EXCEPT !.batch_state = IDLE, !.current_phase = 0, !.react_ticks = 0] ELSE b
        [] "abort" \notin b.cmds /\ st = IDLE ->
             IF "start" \in b.cmds
               THEN [b EXCEPT !.batch_state = RUNNING, !.current_phase = 1, !.react_ticks = 0,
                              !.done = {}, !.held = 0] ELSE b
        [] "abort" \notin b.cmds /\ st = COMPLETE ->
             IF "reset" \in b.cmds THEN [b EXCEPT !.batch_state = IDLE, !.current_phase = 0] ELSE b
        [] "abort" \notin b.cmds /\ st = RUNNING ->
             IF "hold" \in b.cmds THEN [b EXCEPT !.batch_state = HELD] ELSE Advance(b, level, temp)
        [] "abort" \notin b.cmds /\ st = HELD ->
             IF "resume" \in b.cmds THEN [b EXCEPT !.batch_state = RUNNING] ELSE b
        [] OTHER -> b

Outputs(b) ==
  LET in(phases) == b.batch_state = RUNNING /\ b.current_phase \in phases
  IN  [charge |-> in({1}), heater |-> in({2}), agitator |-> in({2, 3}),
       cooling |-> in({4}) \/ b.batch_state = ABORTED,
       discharge |-> in({5}), esd |-> b.batch_state = ABORTED]

\* One 100 ms scan: commands and readings in, the state moves, outputs out.
ScanBatch ==
  /\ up /\ Running("batch") # {}
  /\ \E level \in {"empty", "part", "charged"}, temp \in {"cold", "warm", "hot"} :
       LET b == Sequence(batch, level, temp)
           left == IF b.current_phase = batch.current_phase + 1 THEN {batch.current_phase} ELSE {}
       IN  batch' = [b EXCEPT !.out = Outputs(b), !.done = @ \cup left]
  /\ UNCHANGED <<planVars, trip_relay, forced>>

\* A client sets or clears one command.
WriteCommand ==
  /\ up /\ Running("batch") # {}
  /\ \E c \in CommandCoils : batch' = [batch EXCEPT !.cmds = IF c \in @ THEN @ \ {c} ELSE @ \cup {c}]
  /\ UNCHANGED <<planVars, trip_relay, forced>>

\* batch_state and current_phase are outputs anyone on the network may write.
ForceRegister ==
  /\ up /\ Running("batch") # {} /\ forced < MaxForced /\ forced' = forced + 1
  /\ \/ \E s \in IDLE .. COMPLETE : batch' = [batch EXCEPT !.batch_state = s]
     \/ \E p \in 0 .. 5 : batch' = [batch EXCEPT !.current_phase = p]
  /\ UNCHANGED <<planVars, trip_relay>>

ProgramInit == batch = BatchReset /\ trip_relay = TRUE /\ forced = 0
ProgramsStop == batch' = BatchReset /\ trip_relay' = TRUE /\ UNCHANGED forced
ProgramStep == ScanVote \/ ScanBatch \/ WriteCommand \/ ForceRegister

-----------------------------------------------------------------------------
(* Properties.                                                             *)

\* The interlocks of the reactor hold after every scan, whoever wrote which register:
\* filling and emptying exclude each other, heating and cooling too, nothing is heated
\* unstirred, and the shutdown leaves only the cooling on.  And a batch is emptied only
\* after it was filled, heated, held for its time and cooled, through every hold,
\* abort, reset and restart, unless somebody wrote the registers.
BatchSafe ==
  LET o == batch.out
  IN  /\ ~(o.charge /\ o.discharge) /\ ~(o.heater /\ o.cooling) /\ (o.heater => o.agitator)
      /\ o.esd => o.cooling /\ ~o.charge /\ ~o.heater /\ ~o.agitator /\ ~o.discharge
      /\ o.discharge /\ forced = 0 => {1, 2, 3, 4} \subseteq batch.done /\ batch.held >= ReactHold

\* Every actuator a PLC drives has a coil of its own: an explicit coil keeps the
\* actuator of its pipe, and one more wired to the PLC takes an index nobody else has.
CoilsBound ==
  composed => \A d \in Running("auto") :
    LET bound == inferPlcCoilBindings(d.id)
    IN  /\ \A i \in DOMAIN lab.wires :
             LET w == lab.wires[i]
             IN  w.coil = d.id /\ peerKind(CoilPeer(w, d.id)) # None =>
                   \E j \in DOMAIN lab.wires :
                     /\ lab.wires[j].coil = d.id /\ lab.wires[j].coilIndex = w.coilIndex
                     /\ bound[w.coilIndex] = CoilPeer(lab.wires[j], d.id)
                     /\ peerKind(bound[w.coilIndex]) # None
        /\ \A x \in Peers(d.id) : peerKind(x) # None =>
             \/ \E c \in DOMAIN bound : bound[c] = x
             \/ \E i \in DOMAIN lab.wires : lab.wires[i].coil = d.id /\ CoilPeer(lab.wires[i], d.id) = x

\* The programs are complete and keep their plant safe.
ProgramsSafe == BatchSafe /\ CoilsBound
=============================================================================
