----------------------------- MODULE LiveLabProofs -----------------------------
(***************************************************************************)
(* Theorems about LiveLab, for any scenarios, zone settings, forms, texts, *)
(* and any sequence of starts and stops of labs.                           *)
(***************************************************************************)
EXTENDS LiveLab, FiniteSetTheorems, TLAPS

-----------------------------------------------------------------------------
(* Sequences whose entries are of any kind, and the entries at some indices. *)

LEMMA SeqIs ==
  ASSUME NEW S, NEW s \in Seq(S)
  PROVE  IsSeq(s) /\ Len(s) \in Nat /\ DOMAIN s = 1 .. Len(s)
BY DEF IsSeq

LEMMA IsSeqIs ==
  ASSUME NEW s, IsSeq(s)
  PROVE  Len(s) \in Nat /\ DOMAIN s = 1 .. Len(s) /\ (s = <<>> <=> Len(s) = 0)
BY DEF IsSeq

LEMMA FunctionIs ==
  ASSUME NEW n \in Nat, NEW f, f = [i \in 1 .. n |-> f[i]]
  PROVE  IsSeq(f) /\ Len(f) = n
BY DEF IsSeq

LEMMA TailIs ==
  ASSUME NEW s, IsSeq(s), s # <<>>
  PROVE  /\ IsSeq(Tail(s)) /\ Len(Tail(s)) = Len(s) - 1 /\ Head(s) = s[1]
         /\ \A i \in 1 .. Len(s) - 1 : Tail(s)[i] = s[i + 1]
<1>1. Tail(s) \in Seq({s[i] : i \in DOMAIN s})
  BY DEF IsSeq
<1>2. IsSeq(Tail(s))
  BY <1>1, SeqIs
<1>3. s \in Seq({s[i] : i \in DOMAIN s})
  BY DEF IsSeq
<1>4. /\ Len(Tail(s)) = Len(s) - 1 /\ Head(s) = s[1]
      /\ \A i \in 1 .. Len(s) - 1 : Tail(s)[i] = s[i + 1]
  BY <1>3
<1> QED
  BY <1>2, <1>4

LEMMA AppendIs ==
  ASSUME NEW s, IsSeq(s), NEW x
  PROVE  /\ IsSeq(Append(s, x)) /\ Len(Append(s, x)) = Len(s) + 1
         /\ Append(s, x)[Len(s) + 1] = x /\ \A i \in 1 .. Len(s) : Append(s, x)[i] = s[i]
<1>1. s \in Seq({s[i] : i \in DOMAIN s} \cup {x})
  BY DEF IsSeq
<1>2. Append(s, x) \in Seq({s[i] : i \in DOMAIN s} \cup {x})
  BY <1>1
<1>3. IsSeq(Append(s, x))
  BY <1>2, SeqIs
<1> QED
  BY <1>1, <1>3

LEMMA ConcatIs ==
  ASSUME NEW s, IsSeq(s), NEW t, IsSeq(t)
  PROVE  /\ IsSeq(s \o t) /\ Len(s \o t) = Len(s) + Len(t)
         /\ \A i \in 1 .. Len(s) : (s \o t)[i] = s[i]
         /\ \A i \in 1 .. Len(t) : (s \o t)[Len(s) + i] = t[i]
<1> DEFINE S == {s[i] : i \in DOMAIN s} \cup {t[i] : i \in DOMAIN t}
<1>1. s \in Seq(S) /\ t \in Seq(S)
  BY DEF IsSeq
<1>2. s \o t \in Seq(S)
  BY <1>1
<1>3. IsSeq(s \o t)
  BY <1>2, SeqIs
<1> HIDE DEF S
<1> QED
  BY <1>1, <1>3

LEMMA SingleIs == \A x : IsSeq(<<x>>) /\ Len(<<x>>) = 1 /\ <<x>>[1] = x
<1> TAKE x
<1>1. <<x>> \in Seq({x})
  OBVIOUS
<1> QED
  BY <1>1, SeqIs

\* The k-th of the indices I is the one that has k of them up to itself.
Rank(i, I) == Cardinality({j \in I : j <= i})

LEMMA RankIs ==
  ASSUME NEW I, I \subseteq Nat, IsFiniteSet(I)
  PROVE  /\ Cardinality(I) \in Nat
         /\ \A i \in I : Rank(i, I) \in 1 .. Cardinality(I)
         /\ \A i, j \in I : i < j => Rank(i, I) < Rank(j, I)
         /\ \A k \in 1 .. Cardinality(I) : \E i \in I : Rank(i, I) = k
<1>1. Cardinality(I) \in Nat
  BY FS_CardinalityType
<1>2. ASSUME NEW i \in I PROVE Rank(i, I) \in 1 .. Cardinality(I)
  <2>1. {j \in I : j <= i} \subseteq I
    OBVIOUS
  <2>2. IsFiniteSet({j \in I : j <= i}) /\ Cardinality({j \in I : j <= i}) <= Cardinality(I)
    BY <2>1, FS_Subset
  <2>3. Cardinality({j \in I : j <= i}) \in Nat
    BY <2>2, FS_CardinalityType
  <2>4. i \in {j \in I : j <= i}
    OBVIOUS
  <2>5. Cardinality({j \in I : j <= i}) # 0
    BY <2>2, <2>4, FS_EmptySet
  <2> QED
    BY <1>1, <2>2, <2>3, <2>5 DEF Rank
<1>3. ASSUME NEW i \in I, NEW j \in I, i < j PROVE Rank(i, I) < Rank(j, I)
  <2> DEFINE A == {k \in I : k <= i}
             B == {k \in I : k <= j}
  <2>0. i \in Nat /\ j \in Nat /\ \A k \in I : k \in Nat
    OBVIOUS
  <2>1. B \subseteq I /\ A \subseteq B /\ j \in B /\ j \notin A
    <3>1. \A k \in I : k <= i => k <= j
      BY <1>3, <2>0
    <3>2. j <= j /\ ~(j <= i)
      BY <1>3, <2>0
    <3> QED
      BY <3>1, <3>2
  <2>2. IsFiniteSet(B)
    BY <2>1, FS_Subset
  <2>3. Cardinality(A) <= Cardinality(B) /\ Cardinality(A) # Cardinality(B)
    <3> HIDE DEF A, B
    <3> QED
      BY <2>1, <2>2, FS_Subset
  <2>4. Rank(i, I) = Cardinality(A) /\ Rank(j, I) = Cardinality(B)
    BY DEF Rank
  <2> HIDE DEF A, B
  <2> QED
    BY <1>2, <2>3, <2>4
<1>4. ASSUME NEW k \in 1 .. Cardinality(I) PROVE \E i \in I : Rank(i, I) = k
  <2> DEFINE f == [i \in I |-> Rank(i, I)]
             K == 1 .. Cardinality(I)
  <2>1. IsFiniteSet(K) /\ Cardinality(K) = Cardinality(I)
    BY <1>1, FS_Interval
  <2>2. f \in [I -> K]
    BY <1>2
  <2>3. \A i, j \in I : f[i] = f[j] => i = j
    <3> SUFFICES ASSUME NEW i \in I, NEW j \in I, i # j PROVE Rank(i, I) # Rank(j, I)
      OBVIOUS
    <3>1. Rank(i, I) \in Nat /\ Rank(j, I) \in Nat /\ (i < j \/ j < i)
      BY <1>1, <1>2
    <3> QED
      BY <1>3, <3>1
  <2>4. f \in Injection(I, K)
    BY <2>2, <2>3 DEF Injection, IsInjective
  <2>5. f \in Surjection(I, K)
    <3> HIDE DEF f, K
    <3> QED
      BY <2>1, <2>4, FS_Injection
  <2>6. \E i \in I : f[i] = k
    BY <2>5 DEF Surjection
  <2> QED
    BY <2>6
<1> QED
  BY <1>1, <1>2, <1>3, <1>4

LEMMA EntriesAre ==
  ASSUME NEW s, IsSeq(s), NEW I, I \subseteq DOMAIN s
  PROVE  /\ IsSeq(Entries(s, I)) /\ Len(Entries(s, I)) = Cardinality(I)
         /\ \A k \in 1 .. Len(Entries(s, I)) : \E i \in I : Rank(i, I) = k /\ Entries(s, I)[k] = s[i]
         /\ \A i \in I : Rank(i, I) \in 1 .. Len(Entries(s, I)) /\ Entries(s, I)[Rank(i, I)] = s[i]
<1>1. I \subseteq Nat /\ IsFiniteSet(I)
  <2>1. DOMAIN s = 1 .. Len(s) /\ Len(s) \in Nat
    BY IsSeqIs
  <2>2. IsFiniteSet(1 .. Len(s))
    BY <2>1, FS_Interval
  <2> QED
    BY <2>1, <2>2, FS_Subset
<1>2. /\ Cardinality(I) \in Nat
      /\ \A i \in I : Rank(i, I) \in 1 .. Cardinality(I)
      /\ \A i, j \in I : i < j => Rank(i, I) < Rank(j, I)
      /\ \A k \in 1 .. Cardinality(I) : \E i \in I : Rank(i, I) = k
  BY <1>1, RankIs
<1>3. Entries(s, I) = [k \in 1 .. Cardinality(I) |-> s[CHOOSE i \in I : Rank(i, I) = k]]
  BY DEF Entries, Rank
<1>4. ASSUME NEW i \in I PROVE Entries(s, I)[Rank(i, I)] = s[i]
  <2>1. (CHOOSE j \in I : Rank(j, I) = Rank(i, I)) = i
    <3>1. \A j \in I : Rank(j, I) = Rank(i, I) => j = i
      <4> SUFFICES ASSUME NEW j \in I, j # i PROVE Rank(j, I) # Rank(i, I)
        OBVIOUS
      <4>1. Rank(i, I) \in Nat /\ Rank(j, I) \in Nat /\ (i < j \/ j < i)
        BY <1>1, <1>2
      <4> QED
        BY <1>2, <4>1
    <3> QED
      BY <3>1
  <2> QED
    BY <1>2, <1>3, <2>1
<1>5. IsSeq(Entries(s, I)) /\ Len(Entries(s, I)) = Cardinality(I)
  <2>1. Entries(s, I) = [k \in 1 .. Cardinality(I) |-> Entries(s, I)[k]]
    BY <1>3
  <2> QED
    BY <1>2, <2>1, FunctionIs
<1> QED
  BY <1>2, <1>4, <1>5

-----------------------------------------------------------------------------
(* The batch sequencer.                                                    *)

\* What Outputs promises of any registers.
Interlocked(o) ==
  /\ ~(o.charge /\ o.discharge) /\ ~(o.heater /\ o.cooling) /\ (o.heater => o.agitator)
  /\ o.esd => o.cooling /\ ~o.charge /\ ~o.heater /\ ~o.agitator /\ ~o.discharge

\* Every register holds a value of its kind.
Registers(b) ==
  /\ DOMAIN b = {"batch_state", "current_phase", "react_ticks", "cmds", "out", "done", "held"}
  /\ b.batch_state \in IDLE .. COMPLETE /\ b.current_phase \in 0 .. 5
  /\ b.react_ticks \in -IntMax - 1 .. IntMax /\ b.held \in Nat

\* A batch under way has done all phases before the one it is in, and counts no more
\* scans of the reaction than there were.
Orderly(b) ==
  /\ b.batch_state \in {IDLE, ABORTED, COMPLETE} => b.current_phase = 0
  /\ \A p \in 1 .. b.current_phase - 1 : p \in b.done
  /\ b.current_phase = 3 => b.react_ticks <= b.held
  /\ b.current_phase >= 4 => b.held >= ReactHold

\* Emptied only when filled, heated, held and cooled.
Earned(b) == b.out.discharge => {1, 2, 3, 4} \subseteq b.done /\ b.held >= ReactHold

BatchInv ==
  /\ Registers(batch) /\ Interlocked(batch.out)
  /\ forced = 0 => Orderly(batch) /\ Earned(batch)

LEMMA OutputsInterlocked ==
  ASSUME NEW b PROVE Interlocked(Outputs(b))
<1>1. /\ Outputs(b).charge <=> b.batch_state = RUNNING /\ b.current_phase = 1
      /\ Outputs(b).heater <=> b.batch_state = RUNNING /\ b.current_phase = 2
      /\ Outputs(b).agitator <=> b.batch_state = RUNNING /\ b.current_phase \in {2, 3}
      /\ Outputs(b).cooling <=> (b.batch_state = RUNNING /\ b.current_phase = 4) \/ b.batch_state = ABORTED
      /\ Outputs(b).discharge <=> b.batch_state = RUNNING /\ b.current_phase = 5
      /\ Outputs(b).esd <=> b.batch_state = ABORTED
  BY DEF Outputs
<1>2. RUNNING # ABORTED
  BY DEF RUNNING, ABORTED
<1> QED
  BY <1>1, <1>2 DEF Interlocked

LEMMA ResetInv == Registers(BatchReset) /\ Interlocked(BatchReset.out) /\ Orderly(BatchReset) /\ Earned(BatchReset)
BY ProgramAssumption DEF BatchReset, NoOutputs, Registers, Interlocked, Orderly, Earned, IDLE, ABORTED, COMPLETE

LEMMA IncBound ==
  ASSUME NEW n \in -IntMax - 1 .. IntMax
  PROVE  Inc(n) \in -IntMax - 1 .. IntMax /\ Inc(n) <= n + 1
BY ProgramAssumption DEF Inc

\* How far one scan takes a running batch: to the same phase, the next, or the end.
Onward(b, c) ==
  /\ c.done = b.done /\ c.out = b.out
  /\ \/ c.batch_state = b.batch_state /\ c.current_phase \in {b.current_phase, b.current_phase + 1}
     \/ c.batch_state = COMPLETE /\ c.current_phase = 0
  /\ c.current_phase = 3 => c.react_ticks <= c.held
  /\ c.current_phase >= 4 => c.held >= ReactHold

LEMMA AdvanceOnward ==
  ASSUME NEW b, Registers(b), NEW level, NEW temp
  PROVE  Registers(Advance(b, level, temp)) /\ (Orderly(b) => Onward(b, Advance(b, level, temp)))
<1> DEFINE c == Advance(b, level, temp)
<1>0. /\ b.current_phase \in 0 .. 5 /\ b.react_ticks \in -IntMax - 1 .. IntMax /\ b.held \in Nat
      /\ b.batch_state \in IDLE .. COMPLETE /\ COMPLETE \in IDLE .. COMPLETE
      /\ 0 \in -IntMax - 1 .. IntMax
  BY ProgramAssumption DEF Registers, IDLE, COMPLETE
<1>1. CASE b.current_phase = 3
  <2>1. c = [b EXCEPT !.react_ticks = Inc(b.react_ticks), !.held = b.held + 1,
                      !.current_phase = IF Inc(b.react_ticks) >= ReactHold THEN 4 ELSE 3]
    BY <1>1 DEF Advance
  <2> HIDE DEF c
  <2>2. Registers(c)
    <3>1. Inc(b.react_ticks) \in -IntMax - 1 .. IntMax /\ b.held + 1 \in Nat
      BY <1>0, IncBound
    <3> QED
      BY <1>0, <2>1, <3>1 DEF Registers
  <2>3. Inc(b.react_ticks) \in Int /\ (Orderly(b) => Inc(b.react_ticks) <= b.held + 1)
    BY <1>0, <1>1, IncBound, ProgramAssumption DEF Orderly
  <2>4. /\ c.react_ticks = Inc(b.react_ticks) /\ c.held = b.held + 1 /\ c.batch_state = b.batch_state
        /\ c.current_phase = IF Inc(b.react_ticks) >= ReactHold THEN 4 ELSE 3
        /\ c.done = b.done /\ c.out = b.out
    BY <2>1 DEF Registers
  <2>5. Orderly(b) => Onward(b, c)
    BY <1>0, <1>1, <2>3, <2>4, ProgramAssumption DEF Onward
  <2> QED
    BY <2>2, <2>5 DEF c
<1>2. CASE b.current_phase = 1 /\ level = "charged"
  <2>1. c = [b EXCEPT !.current_phase = 2]
    BY <1>2 DEF Advance
  <2> HIDE DEF c
  <2>2. Registers(c)
    BY <1>0, <2>1 DEF Registers
  <2>3. Orderly(b) => Onward(b, c)
    BY <1>0, <1>2, <2>1 DEF Onward, Registers
  <2> QED
    BY <2>2, <2>3 DEF c
<1>3. CASE b.current_phase = 2 /\ temp = "hot"
  <2>1. c = [b EXCEPT !.current_phase = 3, !.react_ticks = 0]
    BY <1>3 DEF Advance
  <2> HIDE DEF c
  <2>2. Registers(c)
    BY <1>0, <2>1 DEF Registers
  <2>3. Orderly(b) => Onward(b, c)
    BY <1>0, <1>3, <2>1 DEF Onward, Registers, Orderly
  <2> QED
    BY <2>2, <2>3 DEF c
<1>4. CASE b.current_phase = 4 /\ temp = "cold"
  <2>1. c = [b EXCEPT !.current_phase = 5]
    BY <1>4 DEF Advance
  <2> HIDE DEF c
  <2>2. Registers(c)
    BY <1>0, <2>1 DEF Registers
  <2>3. Orderly(b) => Onward(b, c)
    BY <1>0, <1>4, <2>1 DEF Onward, Registers, Orderly
  <2> QED
    BY <2>2, <2>3 DEF c
<1>5. CASE b.current_phase = 5 /\ level = "empty"
  <2>1. c = [b EXCEPT !.batch_state = COMPLETE, !.current_phase = 0]
    BY <1>5 DEF Advance
  <2> HIDE DEF c
  <2>2. Registers(c)
    BY <1>0, <2>1 DEF Registers
  <2>3. Orderly(b) => Onward(b, c)
    BY <1>0, <1>5, <2>1 DEF Onward, Registers, Orderly
  <2> QED
    BY <2>2, <2>3 DEF c
<1>6. CASE /\ b.current_phase # 3 /\ ~(b.current_phase = 1 /\ level = "charged")
           /\ ~(b.current_phase = 2 /\ temp = "hot") /\ ~(b.current_phase = 4 /\ temp = "cold")
           /\ ~(b.current_phase = 5 /\ level = "empty")
  <2>1. c = b
    BY <1>6 DEF Advance
  <2> QED
    BY <1>0, <1>6, <2>1 DEF Onward, Orderly
<1> QED
  BY <1>1, <1>2, <1>3, <1>4, <1>5, <1>6

LEMMA SequenceCases ==
  ASSUME NEW b, NEW level, NEW temp
  PROVE  LET c == Sequence(b, level, temp)
         IN  \/ c = [b EXCEPT !.batch_state = ABORTED, !.current_phase = 0]
             \/ c = [b EXCEPT !.batch_state = IDLE, !.current_phase = 0, !.react_ticks = 0]
             \/ c = [b EXCEPT !.batch_state = IDLE, !.current_phase = 0]
             \/ c = [b EXCEPT !.batch_state = RUNNING, !.current_phase = 1, !.react_ticks = 0, !.done = {}, !.held = 0]
             \/ b.batch_state = RUNNING /\ c = [b EXCEPT !.batch_state = HELD]
             \/ b.batch_state = HELD /\ c = [b EXCEPT !.batch_state = RUNNING]
             \/ b.batch_state = RUNNING /\ c = Advance(b, level, temp)
             \/ c = b
BY DEF Sequence, IDLE, RUNNING, HELD, ABORTED, COMPLETE

\* What a scan leaves of an orderly batch, its outputs apart.
Scanned(b, c) ==
  /\ c.batch_state \in {IDLE, ABORTED, COMPLETE} => c.current_phase = 0
  /\ c.current_phase > 1 => c.done = b.done /\ c.current_phase \in {b.current_phase, b.current_phase + 1}
  /\ c.current_phase = 3 => c.react_ticks <= c.held
  /\ c.current_phase >= 4 => c.held >= ReactHold

LEMMA SequenceScanned ==
  ASSUME NEW b, Registers(b), NEW level, NEW temp
  PROVE  LET c == Sequence(b, level, temp) IN Registers(c) /\ (Orderly(b) => Scanned(b, c))
<1> DEFINE c == Sequence(b, level, temp)
<1>0. /\ IDLE = 0 /\ RUNNING = 1 /\ HELD = 2 /\ ABORTED = 3 /\ COMPLETE = 4 /\ 0 \in -IntMax - 1 .. IntMax
      /\ b.current_phase \in 0 .. 5 /\ b.held \in Nat
  BY ProgramAssumption DEF IDLE, RUNNING, HELD, ABORTED, COMPLETE, Registers
<1> HIDE DEF c
<1>1. CASE c = [b EXCEPT !.batch_state = ABORTED, !.current_phase = 0]
  BY <1>0, <1>1 DEF Registers, Scanned, c
<1>2. CASE \/ c = [b EXCEPT !.batch_state = IDLE, !.current_phase = 0, !.react_ticks = 0]
           \/ c = [b EXCEPT !.batch_state = IDLE, !.current_phase = 0]
  <2>1. /\ DOMAIN c = DOMAIN b /\ c.batch_state = IDLE /\ c.current_phase = 0 /\ c.held = b.held
        /\ c.react_ticks \in -IntMax - 1 .. IntMax
    BY <1>0, <1>2 DEF Registers
  <2> QED
    BY <1>0, <2>1 DEF Registers, Scanned, c
<1>3. CASE c = [b EXCEPT !.batch_state = RUNNING, !.current_phase = 1, !.react_ticks = 0, !.done = {}, !.held = 0]
  BY <1>0, <1>3 DEF Registers, Scanned, c
<1>4. CASE \/ b.batch_state = RUNNING /\ c = [b EXCEPT !.batch_state = HELD]
           \/ b.batch_state = HELD /\ c = [b EXCEPT !.batch_state = RUNNING]
           \/ c = b
  <2>1. c.batch_state \in {IDLE, ABORTED, COMPLETE} => b.batch_state \in {IDLE, ABORTED, COMPLETE}
    BY <1>0, <1>4 DEF Registers
  <2>2. /\ Registers(c) /\ c.current_phase = b.current_phase /\ c.done = b.done /\ c.held = b.held
        /\ c.react_ticks = b.react_ticks
    BY <1>0, <1>4 DEF Registers
  <2> QED
    BY <2>1, <2>2 DEF Scanned, Orderly, c
<1>5. CASE b.batch_state = RUNNING /\ c = Advance(b, level, temp)
  <2>1. Registers(c) /\ (Orderly(b) => Onward(b, c))
    BY <1>5, AdvanceOnward
  <2> QED
    BY <1>0, <1>5, <2>1 DEF Onward, Scanned, c
<1> QED
  BY <1>1, <1>2, <1>3, <1>4, <1>5, SequenceCases DEF c

LEMMA ScanKeeps ==
  ASSUME NEW b, Registers(b), NEW c, Registers(c), NEW n, Orderly(b) => Scanned(b, c),
         n = [c EXCEPT !.out = Outputs(c),
                       !.done = c.done \cup IF c.current_phase = b.current_phase + 1 THEN {b.current_phase} ELSE {}]
  PROVE  Registers(n) /\ Interlocked(n.out) /\ (Orderly(b) => Orderly(n) /\ Earned(n))
<1>1. /\ DOMAIN n = DOMAIN c /\ n.batch_state = c.batch_state /\ n.current_phase = c.current_phase
      /\ n.react_ticks = c.react_ticks /\ n.held = c.held /\ n.out = Outputs(c)
      /\ n.done = c.done \cup IF c.current_phase = b.current_phase + 1 THEN {b.current_phase} ELSE {}
  BY DEF Registers
<1>2. Registers(n) /\ Interlocked(n.out)
  BY <1>1, OutputsInterlocked DEF Registers
<1>3. ASSUME Orderly(b) PROVE Orderly(n)
  <2>1. Scanned(b, c) /\ b.current_phase \in 0 .. 5 /\ c.current_phase \in 0 .. 5
    BY <1>3 DEF Registers
  <2>2. \A p \in 1 .. c.current_phase - 1 : p \in n.done
    BY <1>1, <1>3, <2>1 DEF Scanned, Orderly
  <2> QED
    BY <1>1, <2>1, <2>2 DEF Scanned, Orderly
<1>4. ASSUME Orderly(n) PROVE Earned(n)
  <2>1. n.out.discharge => n.current_phase = 5
    <3>1. Outputs(c).discharge => c.current_phase \in {5}
      BY DEF Outputs
    <3> QED
      BY <1>1, <3>1
  <2>2. n.current_phase = 5 => {1, 2, 3, 4} \subseteq n.done /\ n.held >= ReactHold
    BY <1>4 DEF Orderly
  <2> QED
    BY <2>1, <2>2 DEF Earned
<1> QED
  BY <1>2, <1>3, <1>4

LEMMA BatchStep ==
  ASSUME BatchInv, ScanVote \/ ScanBatch \/ WriteCommand \/ ForceRegister \/ ProgramsStop \/ UNCHANGED programVars,
         forced \in Nat
  PROVE  BatchInv' /\ forced' \in Nat
<1>1. CASE ScanVote \/ UNCHANGED programVars
  BY <1>1 DEF ScanVote, programVars, BatchInv
<1>2. CASE ScanBatch
  <2>1. PICK level, temp, c : /\ c = Sequence(batch, level, temp) /\ forced' = forced
          /\ batch' = [c EXCEPT !.out = Outputs(c), !.done = c.done \cup
                          IF c.current_phase = batch.current_phase + 1 THEN {batch.current_phase} ELSE {}]
    BY <1>2 DEF ScanBatch
  <2>2. Registers(c) /\ (Orderly(batch) => Scanned(batch, c))
    BY <2>1, SequenceScanned DEF BatchInv
  <2>3. Registers(batch') /\ Interlocked(batch'.out) /\ (Orderly(batch) => Orderly(batch') /\ Earned(batch'))
    BY <2>1, <2>2, ScanKeeps DEF BatchInv
  <2> QED
    BY <2>1, <2>3 DEF BatchInv
<1>3. CASE WriteCommand
  <2>1. PICK cmds : batch' = [batch EXCEPT !.cmds = cmds] /\ forced' = forced
    BY <1>3 DEF WriteCommand
  <2>2. /\ DOMAIN batch' = DOMAIN batch /\ batch'.batch_state = batch.batch_state
        /\ batch'.current_phase = batch.current_phase /\ batch'.react_ticks = batch.react_ticks
        /\ batch'.held = batch.held /\ batch'.out = batch.out /\ batch'.done = batch.done
    BY <2>1
  <2> QED
    BY <2>1, <2>2 DEF BatchInv, Registers, Orderly, Earned
<1>4. CASE ForceRegister
  <2>1. PICK s \in IDLE .. COMPLETE, p \in 0 .. 5 :
          batch' = [batch EXCEPT !.batch_state = s] \/ batch' = [batch EXCEPT !.current_phase = p]
    BY <1>4 DEF ForceRegister, IDLE, COMPLETE
  <2>2. Registers(batch') /\ batch'.out = batch.out
    BY <2>1 DEF BatchInv, Registers
  <2>3. forced' = forced + 1
    BY <1>4 DEF ForceRegister
  <2> QED
    BY <2>2, <2>3 DEF BatchInv
<1>5. CASE ProgramsStop
  BY <1>5, ResetInv DEF ProgramsStop, BatchInv
<1> QED
  BY <1>1, <1>2, <1>3, <1>4, <1>5

-----------------------------------------------------------------------------
(* The rules of a chain.                                                   *)

\* Numbers have a least one.
LEMMA NatMin ==
  ASSUME NEW S, S \subseteq Nat, S # {}
  PROVE  \E h \in S : \A g \in S : h <= g
<1> DEFINE R == OpToRel(<, Nat)
<1>1. IsWellFoundedOn(R, Nat)
  BY NatLessThanWellFounded
<1>2. \A x, y \in Nat : x < y => <<x, y>> \in R
  BY DEF OpToRel
<1> HIDE DEF R
<1>3. PICK h \in S : \A g \in S : ~(<<g, h>> \in R)
  BY <1>1, WFMin
<1>4. ASSUME NEW g \in S PROVE h <= g
  <2>1. g \in Nat /\ h \in Nat
    OBVIOUS
  <2>2. ~(g < h)
    BY <1>2, <1>3, <2>1, Zenon
  <2> QED
    BY <2>1, <2>2
<1> QED
  BY <1>4

LEMMA CommandsAre ==
  ASSUME NEW list, IsSeq(list), NEW action, NEW on
  PROVE  LET C == Commands(list, action, on)
         IN  /\ IsSeq(C)
             /\ \A k \in 1 .. Len(C) : \E i \in DOMAIN list : list[i].action = action /\ C[k] = Command(list[i], on)
             /\ \A i \in DOMAIN list : list[i].action = action => \E k \in 1 .. Len(C) : C[k] = Command(list[i], on)
<1> DEFINE I == {i \in DOMAIN list : list[i].action = action}
           E == Entries(list, I)
           C == Commands(list, action, on)
<1>1. C = [k \in DOMAIN E |-> Command(E[k], on)]
  BY DEF Commands, Those
<1>2. /\ IsSeq(E) /\ \A k \in 1 .. Len(E) : \E i \in I : E[k] = list[i]
      /\ \A i \in I : \E k \in 1 .. Len(E) : E[k] = list[i]
  <2>1. I \subseteq DOMAIN list
    OBVIOUS
  <2> HIDE DEF I
  <2> QED
    BY <2>1, EntriesAre
<1>3. DOMAIN E = 1 .. Len(E) /\ Len(E) \in Nat
  BY <1>2, IsSeqIs
<1> HIDE DEF E, C
<1>4. C = [k \in 1 .. Len(E) |-> C[k]]
  BY <1>1, <1>3
<1>5. IsSeq(C) /\ Len(C) = Len(E)
  BY <1>3, <1>4, FunctionIs
<1>6. \A k \in 1 .. Len(C) : C[k] = Command(E[k], on)
  BY <1>1, <1>3, <1>5
<1> QED
  BY <1>2, <1>5, <1>6 DEF C

Joined(s, t, r) ==
  /\ IsSeq(r) /\ Len(r) = Len(s) + Len(t)
  /\ \A i \in 1 .. Len(s) : r[i] = s[i]
  /\ \A i \in 1 .. Len(t) : r[Len(s) + i] = t[i]

LEMMA ConcatJoins == \A s, t : IsSeq(s) /\ IsSeq(t) => Joined(s, t, s \o t)
<1> SUFFICES ASSUME NEW s, NEW t, IsSeq(s), IsSeq(t) PROVE Joined(s, t, s \o t)
  OBVIOUS
<1>1. IsSeq(s \o t) /\ Len(s \o t) = Len(s) + Len(t)
  BY ConcatIs
<1>2. \A i \in 1 .. Len(s) : (s \o t)[i] = s[i]
  BY ConcatIs
<1>3. \A i \in 1 .. Len(t) : (s \o t)[Len(s) + i] = t[i]
  BY ConcatIs
<1> QED
  BY <1>1, <1>2, <1>3 DEF Joined

\* One entry before two sequences, and one behind them.
Between(b, d, a, e, r) ==
  /\ IsSeq(r) /\ Len(r) = Len(d) + Len(a) + 2 /\ Len(d) \in Nat /\ Len(a) \in Nat
  /\ r[1] = b[1] /\ r[Len(d) + Len(a) + 2] = e[1]
  /\ \A k \in 1 .. Len(d) : r[1 + k] = d[k]
  /\ \A k \in 1 .. Len(a) : r[1 + Len(d) + k] = a[k]

LEMMA JoinIs ==
  \A b, d, a, e : IsSeq(b) /\ IsSeq(d) /\ IsSeq(a) /\ IsSeq(e) /\ Len(b) = 1 /\ Len(e) = 1
                    => Between(b, d, a, e, b \o d \o a \o e)
<1> SUFFICES ASSUME NEW b, NEW d, NEW a, NEW e, IsSeq(b), IsSeq(d), IsSeq(a), IsSeq(e),
                    Len(b) = 1, Len(e) = 1
             PROVE  Between(b, d, a, e, b \o d \o a \o e)
  OBVIOUS
<1>1. PICK x : x = b \o d
  OBVIOUS
<1>2. PICK y : y = x \o a
  OBVIOUS
<1>3. PICK r : r = y \o e
  OBVIOUS
<1>4. Len(d) \in Nat /\ Len(a) \in Nat
  BY IsSeqIs
<1>5. Joined(b, d, x)
  BY <1>1, ConcatJoins
<1>6. Joined(x, a, y)
  <2>1. IsSeq(x)
    BY <1>5 DEF Joined
  <2> QED
    BY <1>2, <2>1, ConcatJoins
<1>7. Joined(y, e, r)
  <2>1. IsSeq(y)
    BY <1>6 DEF Joined
  <2> QED
    BY <1>3, <2>1, ConcatJoins
<1>8. /\ IsSeq(r) /\ Len(r) = Len(d) + Len(a) + 2 /\ Len(x) = 1 + Len(d) /\ Len(y) = 1 + Len(d) + Len(a)
      /\ r[Len(d) + Len(a) + 2] = e[1]
  BY <1>4, <1>5, <1>6, <1>7 DEF Joined
<1>9. \A i \in 1 .. Len(x) : i \in 1 .. Len(y) /\ r[i] = x[i]
  BY <1>4, <1>6, <1>7, <1>8 DEF Joined
<1>10. r[1] = b[1] /\ \A k \in 1 .. Len(d) : r[1 + k] = d[k]
  BY <1>4, <1>5, <1>8, <1>9 DEF Joined
<1>11. \A k \in 1 .. Len(a) : r[1 + Len(d) + k] = a[k]
  BY <1>4, <1>6, <1>7, <1>8 DEF Joined
<1>12. Between(b, d, a, e, r)
  BY <1>4, <1>8, <1>10, <1>11 DEF Between
<1> QED
  BY <1>1, <1>2, <1>3, <1>12

\* The answer of ping first, then the denials, the allowances, and the refusal.
Shape(D, A, R) ==
  /\ IsSeq(D) /\ IsSeq(A) /\ IsSeq(R)
  /\ Len(D) \in Nat /\ Len(A) \in Nat /\ Len(R) = Len(D) + Len(A) + 2
  /\ R[1] = Baseline /\ R[Len(D) + Len(A) + 2] = Everything("reject")
  /\ \A k \in 1 .. Len(D) : R[1 + k] = D[k]
  /\ \A k \in 1 .. Len(A) : R[1 + Len(D) + k] = A[k]

LEMMA RulesetIs ==
  ASSUME NEW list, IsSeq(list), NEW on
  PROVE  Shape(Commands(list, "deny", on), Commands(list, "allow", on), Ruleset(list, on))
<1>1. PICK d : d = Commands(list, "deny", on)
  OBVIOUS
<1>2. PICK a : a = Commands(list, "allow", on)
  OBVIOUS
<1>3. PICK b : b = <<Baseline>>
  OBVIOUS
<1>4. PICK e : e = <<Everything("reject")>>
  OBVIOUS
<1>5. IsSeq(d) /\ IsSeq(a)
  BY <1>1, <1>2, CommandsAre
<1>6. IsSeq(b) /\ Len(b) = 1 /\ b[1] = Baseline /\ IsSeq(e) /\ Len(e) = 1 /\ e[1] = Everything("reject")
  BY <1>3, <1>4, SingleIs
<1>7. Between(b, d, a, e, b \o d \o a \o e)
  BY <1>5, <1>6, JoinIs
<1>8. Ruleset(list, on) = b \o d \o a \o e
  BY <1>1, <1>2, <1>3, <1>4 DEF Ruleset
<1>9. Between(b, d, a, e, Ruleset(list, on))
  BY <1>7, <1>8
<1>10. Shape(d, a, Ruleset(list, on))
  BY <1>5, <1>6, <1>9 DEF Between, Shape
<1> QED
  BY <1>1, <1>2, <1>10

\* The rules so far are the first ones of those that are meant to be there.
Begins(s, t) == IsSeq(s) /\ Len(s) <= Len(t) /\ \A i \in 1 .. Len(s) : s[i] = t[i]

LEMMA VerdictFirst ==
  ASSUME NEW rs, IsSeq(rs), NEW default, NEW p, NEW on
  PROVE  \/ (\A i \in 1 .. Len(rs) : ~Matches(rs[i], p, on)) /\ Verdict(rs, default, p, on) = default
         \/ \E f \in 1 .. Len(rs) : /\ Matches(rs[f], p, on) /\ Verdict(rs, default, p, on) = rs[f].verdict
                                     /\ \A i \in 1 .. Len(rs) : Matches(rs[i], p, on) => f <= i
<1> DEFINE hits == {i \in DOMAIN rs : Matches(rs[i], p, on)}
           f == CHOOSE i \in hits : \A j \in hits : i <= j
<1>1. Len(rs) \in Nat /\ DOMAIN rs = 1 .. Len(rs)
  BY IsSeqIs
<1>2. Verdict(rs, default, p, on) = IF hits = {} THEN default ELSE rs[f].verdict
  BY DEF Verdict
<1>3. CASE hits = {}
  BY <1>1, <1>2, <1>3
<1>4. CASE hits # {}
  <2>1. \E i \in hits : \A j \in hits : i <= j
    <3>1. hits \subseteq Nat
      BY <1>1
    <3> HIDE DEF hits
    <3> QED
      BY <1>4, <3>1, NatMin
  <2>2. f \in hits /\ \A j \in hits : f <= j
    <3> HIDE DEF hits
    <3> QED
      BY <2>1
  <2> HIDE DEF f
  <2> QED
    BY <1>1, <1>2, <1>4, <2>2
<1> QED
  BY <1>3, <1>4

LEMMA BaselineMatches ==
  \A on : \A p \in Packets : Baseline.verdict = "accept" /\ (Matches(Baseline, p, on) <=> p.protocol = "icmp")
<1>1. /\ Baseline.verdict = "accept" /\ Baseline.src = None /\ Baseline.dst = None
      /\ Baseline.port = None /\ Baseline.protocol = "icmp"
  BY DEF Baseline, Everything
<1> HIDE DEF Baseline
<1> QED
  BY <1>1, PanelAssumption DEF Matches

LEMMA RejectMatches ==
  \A on : \A p \in Packets : Everything("reject").verdict = "reject" /\ Matches(Everything("reject"), p, on)
BY DEF Matches, Everything

LEMMA VerdictOfCommand ==
  \A r, on : Command(r, on).verdict = IF r.action = "allow" THEN "accept" ELSE "drop"
BY DEF Command

\* What the commands of one action do with a packet.
LEMMA CommandsHit ==
  ASSUME NEW list, IsSeq(list), NEW action, NEW on, NEW p
  PROVE  LET C == Commands(list, action, on)
         IN  /\ \A k \in 1 .. Len(C) : C[k].verdict = IF action = "allow" THEN "accept" ELSE "drop"
             /\ Listed(list, action, p, on) <=> \E k \in 1 .. Len(C) : Matches(C[k], p, on)
<1>1. PICK C : C = Commands(list, action, on)
  OBVIOUS
<1>2. \A k \in 1 .. Len(C) : \E i \in DOMAIN list : list[i].action = action /\ C[k] = Command(list[i], on)
  BY <1>1, CommandsAre
<1>3. \A i \in DOMAIN list : list[i].action = action => \E k \in 1 .. Len(C) : C[k] = Command(list[i], on)
  BY <1>1, CommandsAre
<1>4. \A k \in 1 .. Len(C) : C[k].verdict = IF action = "allow" THEN "accept" ELSE "drop"
  BY <1>2, VerdictOfCommand
<1>5. Listed(list, action, p, on) <=> \E k \in 1 .. Len(C) : Matches(C[k], p, on)
  BY <1>2, <1>3 DEF Listed, RuleMatches
<1> QED
  BY <1>1, <1>4, <1>5

\* As far as it has been written, a chain decides as the table means or leaves the
\* packet to the policy; a chain that has all its rules decides.
LEMMA BegunDecides ==
  ASSUME NEW list, IsSeq(list), NEW on, NEW rs, Begins(rs, Ruleset(list, on)), NEW p \in Packets, NEW default
  PROVE  \/ Passes(rs, default, p, on) <=> Meant(list, p, on)
         \/ Len(rs) < Len(Ruleset(list, on)) /\ Verdict(rs, default, p, on) = default
<1>1. PICK D : D = Commands(list, "deny", on)
  OBVIOUS
<1>2. PICK A : A = Commands(list, "allow", on)
  OBVIOUS
<1>3. PICK R : R = Ruleset(list, on)
  OBVIOUS
<1>4. /\ Len(D) \in Nat /\ Len(A) \in Nat /\ Len(R) = Len(D) + Len(A) + 2
      /\ R[1] = Baseline /\ R[Len(D) + Len(A) + 2] = Everything("reject")
      /\ \A k \in 1 .. Len(D) : R[1 + k] = D[k]
      /\ \A k \in 1 .. Len(A) : R[1 + Len(D) + k] = A[k]
  <2>1. Shape(D, A, R)
    BY <1>1, <1>2, <1>3, RulesetIs
  <2> QED
    BY <2>1 DEF Shape
<1>5. /\ \A k \in 1 .. Len(D) : D[k].verdict = "drop"
      /\ Listed(list, "deny", p, on) <=> \E k \in 1 .. Len(D) : Matches(D[k], p, on)
  BY <1>1, CommandsHit, SMTT(30)
<1>6. /\ \A k \in 1 .. Len(A) : A[k].verdict = "accept"
      /\ Listed(list, "allow", p, on) <=> \E k \in 1 .. Len(A) : Matches(A[k], p, on)
  BY <1>2, CommandsHit
<1>7. IsSeq(rs) /\ Len(rs) \in Nat /\ Len(rs) <= Len(R) /\ \A i \in 1 .. Len(rs) : rs[i] = R[i]
  BY <1>3, IsSeqIs DEF Begins
<1>8. CASE (\A i \in 1 .. Len(rs) : ~Matches(rs[i], p, on)) /\ Verdict(rs, default, p, on) = default
  <2>1. Len(rs) # Len(R)
    <3> SUFFICES ASSUME Len(rs) = Len(R) PROVE FALSE
      OBVIOUS
    <3>1. Len(R) \in 1 .. Len(rs) /\ rs[Len(R)] = Everything("reject")
      BY <1>4, <1>7
    <3> QED
      BY <1>8, <3>1, RejectMatches
  <2> QED
    BY <1>3, <1>4, <1>7, <1>8, <2>1
<1>9. CASE \E f \in 1 .. Len(rs) : /\ Matches(rs[f], p, on) /\ Verdict(rs, default, p, on) = rs[f].verdict
                                   /\ \A i \in 1 .. Len(rs) : Matches(rs[i], p, on) => f <= i
  <2>1. PICK f \in 1 .. Len(rs) : /\ Matches(R[f], p, on) /\ Verdict(rs, default, p, on) = R[f].verdict
                                  /\ \A i \in 1 .. Len(rs) : Matches(R[i], p, on) => f <= i
    BY <1>7, <1>9
  <2>2. \A i \in 1 .. f - 1 : ~Matches(R[i], p, on)
    BY <1>7, <2>1
  <2>3. f # 1 => p.protocol # "icmp"
    BY <1>4, <1>7, <2>1, <2>2, BaselineMatches
  <2>4. CASE f = 1
    BY <1>4, <2>1, <2>4, BaselineMatches DEF Passes, Meant
  <2>5. CASE f \in 2 .. 1 + Len(D)
    <3>1. f - 1 \in 1 .. Len(D) /\ R[f] = D[f - 1]
      BY <1>4, <2>5
    <3> QED
      BY <1>5, <2>1, <2>3, <2>5, <3>1 DEF Passes, Meant
  <2>6. CASE f \in 2 + Len(D) .. 1 + Len(D) + Len(A)
    <3>1. PICK k \in 1 .. Len(A) : k = f - 1 - Len(D) /\ R[f] = A[k]
      BY <1>4, <2>6
    <3>2. Listed(list, "allow", p, on) /\ Passes(rs, default, p, on)
      BY <1>6, <2>1, <3>1 DEF Passes
    <3>3. \A j \in 1 .. Len(D) : 1 + j \in 1 .. f - 1
      BY <1>4, <2>6
    <3>4. ~Listed(list, "deny", p, on)
      BY <1>4, <1>5, <2>2, <3>3
    <3> QED
      BY <3>2, <3>4 DEF Meant
  <2>7. CASE f = Len(D) + Len(A) + 2
    <3>1. ~Passes(rs, default, p, on)
      BY <1>4, <2>1, <2>7, RejectMatches DEF Passes
    <3>2. \A j \in 1 .. Len(A) : 1 + Len(D) + j \in 1 .. f - 1
      BY <1>4, <2>7
    <3>3. ~Listed(list, "allow", p, on)
      BY <1>4, <1>6, <2>2, <3>2
    <3> QED
      BY <1>4, <2>3, <2>7, <3>1, <3>3 DEF Meant
  <2> QED
    BY <1>4, <1>7, <2>4, <2>5, <2>6, <2>7
<1> QED
  BY <1>7, <1>8, <1>9, VerdictFirst

-----------------------------------------------------------------------------
(* The shells of the container, and its chain.                             *)

\* What is left of a script.
Left(todo, script) ==
  /\ IsSeq(todo) /\ Len(todo) <= Len(script)
  /\ \A i \in 1 .. Len(todo) : todo[i] = script[Len(script) - Len(todo) + i]

ScriptOf(reload, on) == buildNftScript(reload.list, reload.policy, on)

\* The rules written and the commands left make up the whole; after the flush two are
\* left that write no rule.
Awaited(rs, todo, all) ==
  Len(rs) + Len(todo) = Len(all) \/ (Len(rs) = 0 /\ Len(todo) = Len(all) + 1)

ShellInv ==
  /\ asked \in Nat /\ rules \in Seq(Forms) /\ DOMAIN reloads \subseteq 1 .. asked
  /\ \A n \in DOMAIN reloads :
       /\ DOMAIN reloads[n] = {"list", "policy", "todo", "heard", "runs"} /\ IsSeq(reloads[n].list)
       /\ reloads[n].runs => up /\ Left(reloads[n].todo, ScriptOf(reloads[n], zones))

\* A chain that only the reload that flushed it has written into holds the first rules
\* of that one's table.
ChainOk(c, shells, on) ==
  ~c.mixed =>
    /\ Begins(c.rules, Ruleset(c.list, on))
    /\ c.done => Len(c.rules) = Len(Ruleset(c.list, on))
    /\ c.by \in DOMAIN shells /\ shells[c.by].runs =>
         shells[c.by].list = c.list /\ Awaited(c.rules, shells[c.by].todo, Ruleset(c.list, on))

ChainFields == {"policy", "rules", "list", "by", "mixed", "done"}

ChainInv ==
  chain # None =>
    /\ up /\ DOMAIN chain = ChainFields /\ IsSeq(chain.list) /\ IsSeq(chain.rules)
    /\ chain.by \in 0 .. asked /\ ChainOk(chain, reloads, zones)

LEMMA ScriptIs ==
  ASSUME NEW list, IsSeq(list), NEW p, NEW on
  PROVE  LET S == buildNftScript(list, p, on)
             R == Ruleset(list, on)
         IN  /\ IsSeq(R) /\ Len(R) \in Nat /\ IsSeq(S) /\ Len(S) = Len(R) + 2
             /\ S[1].op = "flush" /\ S[2].op = "policy"
             /\ \A i \in 1 .. Len(R) : S[2 + i] = R[i]
<1>1. PICK R : R = Ruleset(list, on)
  OBVIOUS
<1>2. PICK h : h = <<[op |-> "flush"], [op |-> "policy", policy |-> NftPolicy(p)]>>
  OBVIOUS
<1>3. IsSeq(R) /\ Len(R) \in Nat
  <2>1. IsSeq(R)
    BY <1>1, RulesetIs DEF Shape
  <2> QED
    BY <2>1, IsSeqIs
<1>4. IsSeq(h) /\ Len(h) = 2 /\ h[1].op = "flush" /\ h[2].op = "policy"
  <2>1. h \in Seq({h[1], h[2]}) /\ Len(h) = 2 /\ h[1].op = "flush" /\ h[2].op = "policy"
    BY <1>2
  <2> QED
    BY <2>1, SeqIs
<1>5. PICK S : S = h \o R
  OBVIOUS
<1>6. Joined(h, R, S)
  BY <1>3, <1>4, <1>5, ConcatJoins
<1>7. /\ IsSeq(S) /\ Len(S) = Len(R) + 2 /\ S[1] = h[1] /\ S[2] = h[2]
      /\ \A i \in 1 .. Len(R) : S[2 + i] = R[i]
  BY <1>3, <1>4, <1>6 DEF Joined
<1>8. S = buildNftScript(list, p, on)
  BY <1>1, <1>2, <1>5 DEF buildNftScript
<1> QED
  BY <1>1, <1>3, <1>4, <1>7, <1>8

LEMMA WhereOf ==
  \A m, k \in Nat : \A i \in 1 .. m + k + 2 :
    i = 1 \/ i = m + k + 2 \/ i \in 2 .. 1 + m \/ i \in 2 + m .. 1 + m + k
OBVIOUS

LEMMA RuleOps ==
  ASSUME NEW list, IsSeq(list), NEW on, NEW i \in 1 .. Len(Ruleset(list, on))
  PROVE  Ruleset(list, on)[i].op \in {"add", "bad"}
<1>1. PICK D : D = Commands(list, "deny", on)
  OBVIOUS
<1>2. PICK A : A = Commands(list, "allow", on)
  OBVIOUS
<1>3. PICK R : R = Ruleset(list, on)
  OBVIOUS
<1>4. /\ Len(D) \in Nat /\ Len(A) \in Nat /\ Len(R) = Len(D) + Len(A) + 2
      /\ R[1] = Baseline /\ R[Len(D) + Len(A) + 2] = Everything("reject")
      /\ \A k \in 1 .. Len(D) : R[1 + k] = D[k]
      /\ \A k \in 1 .. Len(A) : R[1 + Len(D) + k] = A[k]
  <2>1. Shape(D, A, R)
    BY <1>1, <1>2, <1>3, RulesetIs
  <2> QED
    BY <2>1 DEF Shape
<1>5. \A r : Command(r, on).op \in {"add", "bad"}
  BY DEF Command
<1>6. (\A k \in 1 .. Len(D) : D[k].op \in {"add", "bad"}) /\ (\A k \in 1 .. Len(A) : A[k].op \in {"add", "bad"})
  BY <1>1, <1>2, <1>5, CommandsAre
<1>7. Baseline.op = "add" /\ Everything("reject").op = "add"
  BY DEF Baseline, Everything
<1>8. CASE i = 1 \/ i = Len(D) + Len(A) + 2
  BY <1>3, <1>4, <1>7, <1>8
<1>9. CASE i \in 2 .. 1 + Len(D)
  <2>1. i - 1 \in 1 .. Len(D) /\ R[i] = D[i - 1]
    BY <1>4, <1>9
  <2> QED
    BY <1>3, <1>6, <2>1
<1>10. CASE i \in 2 + Len(D) .. 1 + Len(D) + Len(A)
  <2>1. i - 1 - Len(D) \in 1 .. Len(A) /\ i = 1 + Len(D) + (i - 1 - Len(D))
    BY <1>4, <1>10
  <2>2. R[i] = A[i - 1 - Len(D)]
    BY <1>4, <2>1
  <2> QED
    BY <1>3, <1>6, <2>1, <2>2
<1>11. \/ i = 1 \/ i = Len(D) + Len(A) + 2 \/ i \in 2 .. 1 + Len(D)
       \/ i \in 2 + Len(D) .. 1 + Len(D) + Len(A)
  <2>1. i \in 1 .. Len(D) + Len(A) + 2
    BY <1>3, <1>4
  <2> QED
    BY <1>4, <2>1, WhereOf
<1> QED
  BY <1>8, <1>9, <1>10, <1>11, Zenon

\* Shells g are some of the shells f, as they were or ended.
Fewer(f, g) ==
  DOMAIN g \subseteq DOMAIN f /\ \A n \in DOMAIN g :
    /\ DOMAIN g[n] = DOMAIN f[n] /\ g[n].list = f[n].list /\ g[n].policy = f[n].policy
    /\ g[n].todo = f[n].todo /\ (g[n].runs => f[n].runs)

LEMMA FewerShells ==
  ASSUME ShellInv, ChainInv, Fewer(reloads, reloads'), rules' \in Seq(Forms), asked' = asked,
         up' = up, up => zones' = zones
  PROVE  ShellInv' /\ (chain' = chain => ChainInv')
<1>1. ShellInv'
  <2>1. DOMAIN reloads' \subseteq 1 .. asked'
    BY DEF ShellInv, Fewer
  <2>2. ASSUME NEW n \in DOMAIN reloads'
        PROVE  /\ DOMAIN reloads'[n] = {"list", "policy", "todo", "heard", "runs"} /\ IsSeq(reloads'[n].list)
               /\ reloads'[n].runs => up' /\ Left(reloads'[n].todo, ScriptOf(reloads'[n], zones'))
    <3>1. n \in DOMAIN reloads
      BY <2>2 DEF Fewer
    <3>2. DOMAIN reloads'[n] = {"list", "policy", "todo", "heard", "runs"} /\ IsSeq(reloads'[n].list)
      BY <2>2, <3>1 DEF Fewer, ShellInv
    <3>3. ASSUME reloads'[n].runs
          PROVE  up' /\ Left(reloads'[n].todo, ScriptOf(reloads'[n], zones'))
      <4>1. reloads[n].runs
        BY <2>2, <3>3 DEF Fewer
      <4>2. up /\ Left(reloads[n].todo, ScriptOf(reloads[n], zones))
        BY <3>1, <4>1 DEF ShellInv
      <4>3. reloads'[n].todo = reloads[n].todo /\ ScriptOf(reloads'[n], zones') = ScriptOf(reloads[n], zones)
        BY <2>2, <4>2 DEF Fewer, ScriptOf
      <4> QED
        BY <4>2, <4>3
    <3> QED
      BY <3>2, <3>3
  <2> QED
    BY <2>1, <2>2 DEF ShellInv
<1>2. ASSUME chain' = chain PROVE ChainInv'
  <2> SUFFICES ASSUME chain # None PROVE ChainInv'
    BY <1>2 DEF ChainInv
  <2>1. /\ up /\ DOMAIN chain = ChainFields /\ IsSeq(chain.list) /\ IsSeq(chain.rules)
        /\ chain.by \in 0 .. asked /\ ChainOk(chain, reloads, zones)
    BY DEF ChainInv
  <2>2. zones' = zones
    BY <2>1
  <2>3. chain.by \in DOMAIN reloads' /\ reloads'[chain.by].runs =>
          /\ chain.by \in DOMAIN reloads /\ reloads[chain.by].runs
          /\ reloads'[chain.by].list = reloads[chain.by].list /\ reloads'[chain.by].todo = reloads[chain.by].todo
    BY DEF Fewer
  <2>4. ChainOk(chain, reloads', zones)
    BY <2>1, <2>3 DEF ChainOk
  <2> QED
    BY <1>2, <2>1, <2>2, <2>4 DEF ChainInv
<1> QED
  BY <1>1, <1>2

LEMMA LeftTail ==
  ASSUME NEW todo, NEW script, IsSeq(script), Left(todo, script), todo # <<>>
  PROVE  /\ Left(Tail(todo), script) /\ Len(todo) \in 1 .. Len(script) /\ Len(Tail(todo)) = Len(todo) - 1
         /\ Head(todo) = script[Len(script) - Len(todo) + 1]
<1>1. IsSeq(todo) /\ Len(todo) \in Nat /\ Len(script) \in Nat /\ Len(todo) # 0
  <2>1. IsSeq(todo)
    BY DEF Left
  <2> QED
    BY <2>1, IsSeqIs
<1>2. /\ IsSeq(Tail(todo)) /\ Len(Tail(todo)) = Len(todo) - 1 /\ Head(todo) = todo[1]
      /\ \A i \in 1 .. Len(todo) - 1 : Tail(todo)[i] = todo[i + 1]
  BY <1>1, TailIs
<1>3. PICK m, n, t : m = Len(todo) /\ n = Len(script) /\ t = Tail(todo)
  OBVIOUS
<1>4. m \in 1 .. n /\ \A i \in 1 .. m : todo[i] = script[n - m + i]
  BY <1>1, <1>3 DEF Left
<1>5. \A i \in 1 .. m - 1 : t[i] = script[n - (m - 1) + i]
  <2> SUFFICES ASSUME NEW i \in 1 .. m - 1 PROVE t[i] = script[n - (m - 1) + i]
    OBVIOUS
  <2>1. i + 1 \in 1 .. m /\ n - m + (i + 1) = n - (m - 1) + i
    BY <1>1, <1>3, <1>4
  <2>2. t[i] = todo[i + 1]
    BY <1>2, <1>3
  <2>3. todo[i + 1] = script[n - m + (i + 1)]
    BY <1>4, <2>1
  <2> QED
    BY <2>1, <2>2, <2>3
<1>6. IsSeq(t) /\ Len(t) = m - 1 /\ Len(t) <= n
  BY <1>1, <1>2, <1>3, <1>4
<1>7. Left(t, script)
  BY <1>3, <1>5, <1>6 DEF Left
<1>8. Head(todo) = script[n - m + 1]
  <2>1. 1 \in 1 .. m
    BY <1>4
  <2> QED
    BY <1>2, <1>4, <2>1
<1> QED
  BY <1>2, <1>3, <1>4, <1>7, <1>8

LEMMA BeginsMore ==
  ASSUME NEW rs, NEW all, IsSeq(all), Begins(rs, all), Len(rs) < Len(all)
  PROVE  Begins(Append(rs, all[Len(rs) + 1]), all) /\ Len(Append(rs, all[Len(rs) + 1])) = Len(rs) + 1
<1>1. IsSeq(rs) /\ Len(rs) \in Nat /\ Len(all) \in Nat
  <2>1. IsSeq(rs)
    BY DEF Begins
  <2> QED
    BY <2>1, IsSeqIs
<1>2. PICK more : more = Append(rs, all[Len(rs) + 1])
  OBVIOUS
<1>3. /\ IsSeq(more) /\ Len(more) = Len(rs) + 1 /\ more[Len(rs) + 1] = all[Len(rs) + 1]
      /\ \A i \in 1 .. Len(rs) : more[i] = rs[i]
  BY <1>1, <1>2, AppendIs
<1>4. \A i \in 1 .. Len(rs) : rs[i] = all[i]
  BY DEF Begins
<1>5. \A i \in 1 .. Len(more) : more[i] = all[i]
  <2> SUFFICES ASSUME NEW i \in 1 .. Len(rs) + 1 PROVE more[i] = all[i]
    BY <1>3
  <2>1. i = Len(rs) + 1 \/ i \in 1 .. Len(rs)
    BY <1>1
  <2> QED
    BY <1>3, <1>4, <2>1
<1> QED
  BY <1>1, <1>2, <1>3, <1>5 DEF Begins

LEMMA LastWaits ==
  \A r, t, a \in Nat : (r + t = a \/ (r = 0 /\ t = a + 1)) /\ t = a + 1 => r + (t - 1) = a
OBVIOUS

LEMMA AtRule ==
  \A t, a \in Nat : t \in 1 .. a => a - t + 1 \in 1 .. a /\ a + 2 - t + 1 = 2 + (a - t + 1)
OBVIOUS

\* A chain is in order when, if no other wrote, each part is.
LEMMA ChainOkParts ==
  ASSUME NEW c, NEW shells, NEW on,
         ~c.mixed => Begins(c.rules, Ruleset(c.list, on)),
         ~c.mixed /\ c.done => Len(c.rules) = Len(Ruleset(c.list, on)),
         ~c.mixed /\ c.by \in DOMAIN shells /\ shells[c.by].runs =>
           shells[c.by].list = c.list /\ Awaited(c.rules, shells[c.by].todo, Ruleset(c.list, on))
  PROVE  ChainOk(c, shells, on)
BY Zenon DEF ChainOk

\* What the first of the commands left does to the chain.
LEMMA CommandEffect ==
  ASSUME ShellInv, ChainInv, chain # None, NEW n \in DOMAIN reloads, reloads[n].runs,
         reloads[n].todo # <<>>, Head(reloads[n].todo).op # "bad",
         NEW c, c = Effect(Head(reloads[n].todo), n),
         NEW shells, shells = [reloads EXCEPT ![n].todo = Tail(@)]
  PROVE  DOMAIN c = ChainFields /\ IsSeq(c.list) /\ IsSeq(c.rules) /\ c.by \in 0 .. asked /\ ChainOk(c, shells, zones)
<1>1. PICK todo, cmd, list : todo = reloads[n].todo /\ cmd = Head(todo) /\ list = reloads[n].list
  OBVIOUS
<1>2. PICK S, R : S = ScriptOf(reloads[n], zones) /\ R = Ruleset(list, zones)
  OBVIOUS
<1>3. IsSeq(list) /\ n \in 1 .. asked /\ asked \in Nat /\ Left(todo, S)
      /\ DOMAIN reloads[n] = {"list", "policy", "todo", "heard", "runs"}
  BY <1>1, <1>2 DEF ShellInv
<1>4. /\ IsSeq(R) /\ Len(R) \in Nat /\ IsSeq(S) /\ Len(S) = Len(R) + 2
      /\ S[1].op = "flush" /\ S[2].op = "policy" /\ \A i \in 1 .. Len(R) : S[2 + i] = R[i]
  BY <1>1, <1>2, <1>3, ScriptIs DEF ScriptOf
<1>5. /\ Left(Tail(todo), S) /\ Len(todo) \in 1 .. Len(S) /\ Len(Tail(todo)) = Len(todo) - 1
      /\ cmd = S[Len(S) - Len(todo) + 1]
  BY <1>1, <1>3, <1>4, LeftTail
<1>6. /\ DOMAIN shells = DOMAIN reloads /\ shells[n].list = list /\ shells[n].todo = Tail(todo)
      /\ \A m \in DOMAIN reloads : m # n => shells[m] = reloads[m]
  BY <1>1, <1>3
<1>7. \A i \in 1 .. Len(R) : R[i].op \in {"add", "bad"}
  BY <1>2, <1>3, RuleOps
<1>8. /\ up /\ DOMAIN chain = ChainFields /\ IsSeq(chain.list) /\ IsSeq(chain.rules)
      /\ chain.by \in 0 .. asked /\ ChainOk(chain, reloads, zones)
  BY DEF ChainInv
<1>9. CASE Len(todo) = Len(R) + 2
  <2>1. cmd.op = "flush"
    <3>1. Len(S) - Len(todo) + 1 = 1
      BY <1>4, <1>9
    <3> QED
      BY <1>4, <1>5, <3>1
  <2>2. c = [chain EXCEPT !.rules = <<>>, !.by = n, !.list = list, !.mixed = FALSE, !.done = FALSE]
    BY <1>1, <2>1 DEF Effect
  <2>3. /\ DOMAIN c = ChainFields /\ c.rules = <<>> /\ c.by = n /\ c.list = list /\ c.mixed = FALSE /\ c.done = FALSE
    BY <1>8, <2>2 DEF ChainFields
  <2>4. IsSeq(<<>>) /\ Len(<<>>) = 0
    BY DEF IsSeq
  <2>5. Begins(<<>>, R)
    BY <1>4, <2>4 DEF Begins
  <2>6. Awaited(<<>>, Tail(todo), R)
    BY <1>4, <1>5, <1>9, <2>4 DEF Awaited
  <2>7. ChainOk(c, shells, zones)
    BY <1>2, <1>6, <2>3, <2>5, <2>6 DEF ChainOk
  <2> QED
    BY <1>3, <2>3, <2>4, <2>7
<1>10. CASE Len(todo) = Len(R) + 1
  <2>1. cmd.op = "policy"
    <3>1. Len(S) - Len(todo) + 1 = 2
      BY <1>4, <1>10
    <3> QED
      BY <1>4, <1>5, <3>1
  <2>2. c = [chain EXCEPT !.policy = cmd.policy, !.mixed = chain.mixed \/ chain.by # n]
    BY <1>1, <2>1 DEF Effect
  <2>3. /\ DOMAIN c = ChainFields /\ c.rules = chain.rules /\ c.by = chain.by /\ c.list = chain.list
        /\ c.mixed = (chain.mixed \/ chain.by # n) /\ c.done = chain.done
    BY <1>8, <2>2 DEF ChainFields
  <2>4. ASSUME ~c.mixed PROVE Awaited(chain.rules, Tail(todo), R)
    <3>1. ~chain.mixed /\ chain.by = n
      BY <2>3, <2>4
    <3>2. Awaited(chain.rules, todo, R)
      BY <1>1, <1>2, <1>8, <3>1 DEF ChainOk
    <3>3. Len(chain.rules) \in Nat
      BY <1>8, IsSeqIs
    <3>4. Len(todo) \in Nat
      BY <1>4, <1>10
    <3>5. Len(chain.rules) + (Len(todo) - 1) = Len(R)
      BY <1>4, <1>10, <3>2, <3>3, <3>4, LastWaits DEF Awaited
    <3> QED
      BY <1>5, <3>5 DEF Awaited
  <2>5. ASSUME ~c.mixed
        PROVE  /\ Begins(c.rules, R) /\ c.list = list /\ c.by = n /\ (c.done => Len(c.rules) = Len(R))
               /\ Awaited(c.rules, Tail(todo), R)
    <3>1. ~chain.mixed /\ chain.by = n
      BY <2>3, <2>5
    <3>2. /\ Begins(chain.rules, Ruleset(chain.list, zones)) /\ chain.list = list
          /\ chain.done => Len(chain.rules) = Len(Ruleset(chain.list, zones))
      BY <1>1, <1>8, <3>1 DEF ChainOk
    <3> QED
      BY <1>2, <2>3, <2>4, <2>5, <3>1, <3>2
  <2>6. ChainOk(c, shells, zones)
    <3>1. ~c.mixed => Begins(c.rules, Ruleset(c.list, zones))
      BY <1>2, <2>5
    <3>2. ~c.mixed /\ c.done => Len(c.rules) = Len(Ruleset(c.list, zones))
      BY <1>2, <2>5
    <3>3. ~c.mixed /\ c.by \in DOMAIN shells /\ shells[c.by].runs =>
            shells[c.by].list = c.list /\ Awaited(c.rules, shells[c.by].todo, Ruleset(c.list, zones))
      BY <1>2, <1>6, <2>5
    <3> QED
      BY <3>1, <3>2, <3>3, ChainOkParts
  <2> QED
    BY <1>8, <2>3, <2>6
<1>11. CASE Len(todo) \in 1 .. Len(R)
  <2>1. PICK k : k = Len(R) - Len(todo) + 1
    OBVIOUS
  <2>2. k \in 1 .. Len(R) /\ Len(S) - Len(todo) + 1 = 2 + k
    <3>1. Len(todo) \in Nat
      BY <1>4, <1>11
    <3> QED
      BY <1>4, <1>11, <2>1, <3>1, AtRule
  <2>3. cmd = R[k] /\ cmd.op = "add"
    <3>1. cmd = R[k]
      BY <1>4, <1>5, <2>2
    <3> QED
      BY <1>1, <1>7, <2>2, <3>1
  <2>4. c = [chain EXCEPT !.rules = Append(chain.rules, cmd), !.mixed = chain.mixed \/ chain.by # n]
    BY <1>1, <2>3 DEF Effect
  <2>5. /\ DOMAIN c = ChainFields /\ c.rules = Append(chain.rules, cmd) /\ c.by = chain.by /\ c.list = chain.list
        /\ c.mixed = (chain.mixed \/ chain.by # n) /\ c.done = chain.done
    BY <1>8, <2>4 DEF ChainFields
  <2>6. IsSeq(Append(chain.rules, cmd)) /\ Len(Append(chain.rules, cmd)) = Len(chain.rules) + 1
    BY <1>8, AppendIs
  <2>7. ASSUME ~c.mixed
        PROVE  Begins(c.rules, R) /\ c.list = list /\ c.by = n /\ ~c.done /\ Awaited(c.rules, Tail(todo), R)
    <3>1. ~chain.mixed /\ chain.by = n
      BY <2>5, <2>7
    <3>2. /\ Begins(chain.rules, R) /\ chain.list = list /\ (chain.done => Len(chain.rules) = Len(R))
          /\ Awaited(chain.rules, todo, R)
      BY <1>1, <1>2, <1>8, <3>1 DEF ChainOk
    <3>3. Len(chain.rules) \in Nat /\ Len(todo) \in Nat
      BY <1>4, <1>8, <1>11, IsSeqIs
    <3>4. /\ Len(chain.rules) + 1 = Len(R) - Len(todo) + 1 /\ Len(chain.rules) < Len(R)
          /\ Len(chain.rules) + 1 + (Len(todo) - 1) = Len(R)
      <4>1. Len(chain.rules) + Len(todo) = Len(R) \/ (Len(chain.rules) = 0 /\ Len(todo) = Len(R) + 1)
        BY <3>2 DEF Awaited
      <4> QED
        <5>1. Len(R) \in Nat /\ Len(todo) \in 1 .. Len(R)
          BY <1>4, <1>11
        <5>2. PICK u, t, a : u = Len(chain.rules) /\ t = Len(todo) /\ a = Len(R)
          OBVIOUS
        <5>3. u + 1 = a - t + 1 /\ u < a /\ u + 1 + (t - 1) = a
          BY <3>3, <4>1, <5>1, <5>2, SMTT(30)
        <5> QED
          BY <5>2, <5>3
    <3>5. Begins(Append(chain.rules, R[Len(chain.rules) + 1]), R)
      BY <1>4, <3>2, <3>4, BeginsMore
    <3>6. Begins(c.rules, R)
      BY <2>1, <2>3, <2>5, <3>4, <3>5
    <3>7. Awaited(c.rules, Tail(todo), R)
      BY <1>5, <2>5, <2>6, <3>4 DEF Awaited
    <3>8. ~c.done
      <4>1. Len(chain.rules) # Len(R)
        BY <1>4, <3>3, <3>4
      <4> QED
        BY <2>5, <3>2, <4>1
    <3> QED
      BY <2>5, <3>1, <3>2, <3>6, <3>7, <3>8
  <2>8. ChainOk(c, shells, zones)
    <3>1. ~c.mixed => Begins(c.rules, Ruleset(c.list, zones))
      BY <1>2, <2>7
    <3>2. ~c.mixed /\ c.done => Len(c.rules) = Len(Ruleset(c.list, zones))
      BY <1>2, <2>7
    <3>3. ~c.mixed /\ c.by \in DOMAIN shells /\ shells[c.by].runs =>
            shells[c.by].list = c.list /\ Awaited(c.rules, shells[c.by].todo, Ruleset(c.list, zones))
      BY <1>2, <1>6, <2>7
    <3> QED
      BY <3>1, <3>2, <3>3, ChainOkParts
  <2> QED
    BY <1>8, <2>5, <2>6, <2>8
<1> QED
  <2>1. Len(todo) \in 1 .. Len(R) + 2
    BY <1>4, <1>5
  <2> QED
    BY <1>4, <1>9, <1>10, <1>11, <2>1

LEMMA ReloadStepKeeps ==
  ASSUME ShellInv, ChainInv, ReloadStep
  PROVE  ShellInv' /\ ChainInv'
<1>1. /\ chain # None /\ up' = up /\ zones' = zones /\ rules' = rules /\ asked' = asked
  BY DEF ReloadStep, planVars
<1>2. PICK n \in DOMAIN reloads :
        /\ reloads[n].runs
        /\ \/ /\ reloads[n].todo = <<>> /\ Answered(n, "ok") /\ chain' = [chain EXCEPT !.done = chain.done \/ chain.by = n]
           \/ Answered(n, "error") /\ chain' = chain
           \/ /\ reloads[n].todo # <<>> /\ Head(reloads[n].todo).op # "bad"
              /\ reloads' = [reloads EXCEPT ![n].todo = Tail(@)] /\ chain' = Effect(Head(reloads[n].todo), n)
  BY DEF ReloadStep
<1>3. rules' \in Seq(Forms)
  BY <1>1 DEF ShellInv
<1>4. /\ up /\ DOMAIN chain = ChainFields /\ IsSeq(chain.list) /\ IsSeq(chain.rules)
      /\ chain.by \in 0 .. asked /\ ChainOk(chain, reloads, zones)
  BY <1>1 DEF ChainInv
<1>5. ASSUME reloads' = Drop(reloads, n) PROVE Fewer(reloads, reloads')
  BY <1>5 DEF Drop, Fewer
<1>6. CASE Answered(n, "error") /\ chain' = chain
  BY <1>1, <1>3, <1>5, <1>6, FewerShells DEF Answered
<1>7. CASE /\ reloads[n].todo = <<>> /\ Answered(n, "ok")
           /\ chain' = [chain EXCEPT !.done = chain.done \/ chain.by = n]
  <2>1. reloads' = Drop(reloads, n)
    BY <1>7 DEF Answered
  <2>2. ShellInv'
    BY <1>1, <1>3, <1>5, <2>1, FewerShells
  <2>3. /\ DOMAIN chain' = ChainFields /\ chain'.rules = chain.rules /\ chain'.list = chain.list
        /\ chain'.by = chain.by /\ chain'.mixed = chain.mixed /\ chain'.done = (chain.done \/ chain.by = n)
    BY <1>4, <1>7 DEF ChainFields
  <2>4. ~chain.mixed /\ chain.by = n => Len(chain.rules) = Len(Ruleset(chain.list, zones))
    <3> SUFFICES ASSUME ~chain.mixed, chain.by = n PROVE Len(chain.rules) = Len(Ruleset(chain.list, zones))
      OBVIOUS
    <3>1. Awaited(chain.rules, <<>>, Ruleset(chain.list, zones))
      BY <1>2, <1>4, <1>7 DEF ChainOk
    <3>2. Len(<<>>) = 0 /\ Len(chain.rules) \in Nat /\ Len(Ruleset(chain.list, zones)) \in Nat
      BY <1>4, ScriptIs, IsSeqIs
    <3> QED
      BY <3>1, <3>2 DEF Awaited
  <2>5. \A m \in DOMAIN reloads' : m \in DOMAIN reloads /\ reloads'[m] = reloads[m]
    BY <2>1 DEF Drop
  <2>6. ChainOk(chain', reloads', zones)
    <3>1. ASSUME ~chain.mixed
          PROVE  /\ Begins(chain.rules, Ruleset(chain.list, zones))
                 /\ chain'.done => Len(chain.rules) = Len(Ruleset(chain.list, zones))
      BY <1>4, <2>3, <2>4, <3>1 DEF ChainOk
    <3>2. ASSUME ~chain.mixed, chain.by \in DOMAIN reloads', reloads'[chain.by].runs
          PROVE  /\ reloads'[chain.by].list = chain.list
                 /\ Awaited(chain.rules, reloads'[chain.by].todo, Ruleset(chain.list, zones))
      BY <1>4, <2>5, <3>2 DEF ChainOk
    <3>3. PICK c, shells : c = chain' /\ shells = reloads'
      OBVIOUS
    <3>4. ChainOk(c, shells, zones)
      BY <2>3, <3>1, <3>2, <3>3, ChainOkParts
    <3> QED
      BY <3>3, <3>4
  <2> QED
    BY <1>1, <1>4, <2>2, <2>3, <2>6 DEF ChainInv
<1>8. CASE /\ reloads[n].todo # <<>> /\ Head(reloads[n].todo).op # "bad"
           /\ reloads' = [reloads EXCEPT ![n].todo = Tail(@)] /\ chain' = Effect(Head(reloads[n].todo), n)
  <2>1. /\ DOMAIN chain' = ChainFields /\ IsSeq(chain'.list) /\ IsSeq(chain'.rules)
        /\ chain'.by \in 0 .. asked /\ ChainOk(chain', reloads', zones)
    BY <1>1, <1>2, <1>8, CommandEffect
  <2>2. ChainInv'
    BY <1>1, <1>4, <2>1 DEF ChainInv
  <2>3. /\ DOMAIN reloads' = DOMAIN reloads
        /\ \A m \in DOMAIN reloads : m # n => reloads'[m] = reloads[m]
    BY <1>8
  <2>4. /\ DOMAIN reloads'[n] = {"list", "policy", "todo", "heard", "runs"}
        /\ reloads'[n].list = reloads[n].list /\ reloads'[n].policy = reloads[n].policy
        /\ reloads'[n].todo = Tail(reloads[n].todo)
    BY <1>8 DEF ShellInv
  <2>5. Left(Tail(reloads[n].todo), ScriptOf(reloads[n], zones))
    <3>1. IsSeq(reloads[n].list) /\ Left(reloads[n].todo, ScriptOf(reloads[n], zones))
      BY <1>2 DEF ShellInv
    <3>2. IsSeq(ScriptOf(reloads[n], zones))
      BY <3>1, ScriptIs DEF ScriptOf
    <3> QED
      BY <1>8, <3>1, <3>2, LeftTail
  <2>6. Left(reloads'[n].todo, ScriptOf(reloads'[n], zones))
    BY <2>4, <2>5 DEF ScriptOf
  <2>7. \A m \in DOMAIN reloads' :
          /\ DOMAIN reloads'[m] = {"list", "policy", "todo", "heard", "runs"} /\ IsSeq(reloads'[m].list)
          /\ reloads'[m].runs => up /\ Left(reloads'[m].todo, ScriptOf(reloads'[m], zones))
    BY <1>4, <2>3, <2>4, <2>6 DEF ShellInv
  <2>8. ShellInv'
    BY <1>1, <1>3, <2>3, <2>7 DEF ShellInv
  <2> QED
    BY <2>2, <2>8
<1> QED
  BY <1>2, <1>6, <1>7, <1>8

LEMMA ApplyKeeps ==
  ASSUME ShellInv, ChainInv, applyRules
  PROVE  ShellInv' /\ ChainInv'
<1>1. /\ up /\ up' = up /\ zones' = zones /\ rules' = rules /\ asked' = asked + 1 /\ chain' = chain
      /\ reloads' = Merge(reloads, [n \in {asked + 1} |->
           [list |-> rules, policy |-> policy, todo |-> ScriptOf([list |-> rules, policy |-> policy], zones),
            heard |-> TRUE, runs |-> TRUE]])
  BY DEF applyRules, planVars, ScriptOf
<1>2. PICK m, S : m = asked + 1 /\ S = ScriptOf([list |-> rules, policy |-> policy], zones)
  OBVIOUS
<1>3. /\ DOMAIN reloads' = DOMAIN reloads \cup {m}
      /\ reloads'[m] = [list |-> rules, policy |-> policy, todo |-> S, heard |-> TRUE, runs |-> TRUE]
      /\ \A n \in DOMAIN reloads : n # m => reloads'[n] = reloads[n]
  BY <1>1, <1>2 DEF Merge
<1>4. m \notin DOMAIN reloads /\ asked \in Nat /\ DOMAIN reloads' \subseteq 1 .. asked'
  BY <1>1, <1>2, <1>3 DEF ShellInv
<1>5. IsSeq(rules) /\ IsSeq(S)
  <2>1. IsSeq(rules)
    BY SeqIs DEF ShellInv
  <2> QED
    BY <1>2, <2>1, ScriptIs DEF ScriptOf
<1>6. /\ DOMAIN reloads'[m] = {"list", "policy", "todo", "heard", "runs"} /\ IsSeq(reloads'[m].list)
      /\ Left(reloads'[m].todo, ScriptOf(reloads'[m], zones'))
  <2>1. Len(S) \in Nat
    BY <1>5, IsSeqIs
  <2>2. Left(S, S)
    BY <1>5, <2>1 DEF Left
  <2>3. ScriptOf(reloads'[m], zones') = S
    BY <1>1, <1>2, <1>3 DEF ScriptOf
  <2> QED
    BY <1>3, <1>5, <2>2, <2>3
<1>7. ASSUME NEW n \in DOMAIN reloads'
      PROVE  /\ DOMAIN reloads'[n] = {"list", "policy", "todo", "heard", "runs"} /\ IsSeq(reloads'[n].list)
             /\ reloads'[n].runs => up' /\ Left(reloads'[n].todo, ScriptOf(reloads'[n], zones'))
  <2>1. CASE n = m
    BY <1>1, <1>6, <2>1
  <2>2. CASE n # m
    BY <1>1, <1>3, <2>2 DEF ShellInv
  <2> QED
    BY <2>1, <2>2
<1>8. ShellInv'
  BY <1>1, <1>4, <1>7 DEF ShellInv
<1>9. ASSUME chain # None PROVE ChainOk(chain, reloads', zones)
  <2>1. chain.by # m /\ ChainOk(chain, reloads, zones)
    BY <1>2, <1>4, <1>9 DEF ChainInv
  <2> QED
    BY <1>3, <2>1 DEF ChainOk
<1>10. ChainInv'
  BY <1>1, <1>4, <1>9 DEF ChainInv
<1> QED
  BY <1>8, <1>10

LEMMA SubSeqTyped ==
  ASSUME NEW S, NEW s \in Seq(S), NEW i \in Nat, NEW j \in Nat, i >= 1, j <= Len(s)
  PROVE  SubSeq(s, i, j) \in Seq(S)
OBVIOUS

LEMMA RuleDeleted ==
  ASSUME NEW s \in Seq(Forms), NEW i \in DOMAIN s
  PROVE  SubSeq(s, 1, i - 1) \o SubSeq(s, i + 1, Len(s)) \in Seq(Forms)
<1>1. SubSeq(s, 1, i - 1) \in Seq(Forms)
  BY SubSeqTyped
<1>2. SubSeq(s, i + 1, Len(s)) \in Seq(Forms)
  BY SubSeqTyped
<1> QED
  BY <1>1, <1>2

LEMMA PanelShells ==
  ASSUME ShellInv, ChainInv, PanelStep
  PROVE  ShellInv' /\ ChainInv'
<1>1. CASE applyRules
  BY <1>1, ApplyKeeps
<1>2. CASE ReloadStep
  BY <1>2, ReloadStepKeeps
<1>3. CASE \/ togglePolicy \/ addRule \/ deleteRule \/ ReloadFails \/ ApplyIdle \/ Deselect
           \/ onDraft \/ commitCustomRules \/ CheckAnswered
  <2>1. up' = up /\ zones' = zones /\ chain' = chain /\ asked' = asked
    BY <1>3 DEF togglePolicy, addRule, deleteRule, ReloadFails, ApplyIdle, Deselect,
                onDraft, commitCustomRules, CheckAnswered, planVars, fwVars
  <2>2. rules' \in Seq(Forms)
    <3>1. CASE addRule
      BY <3>1 DEF addRule, ShellInv
    <3>2. CASE deleteRule
      <4>1. PICK i \in DOMAIN rules : rules' = SubSeq(rules, 1, i - 1) \o SubSeq(rules, i + 1, Len(rules))
        BY <3>2 DEF deleteRule
      <4>2. rules \in Seq(Forms)
        BY DEF ShellInv
      <4> QED
        BY <4>1, <4>2, RuleDeleted
    <3>3. CASE ~addRule /\ ~deleteRule
      BY <1>3, <3>3 DEF togglePolicy, ReloadFails, ApplyIdle, Deselect,
                onDraft, commitCustomRules, CheckAnswered, fwVars, ShellInv
    <3> QED
      BY <3>1, <3>2, <3>3
  <2>3. Fewer(reloads, reloads')
    <3>1. CASE reloads' = reloads
      BY <3>1 DEF Fewer
    <3>2. CASE ReloadFails
      <4>1. PICK n \in DOMAIN reloads : reloads' = Drop(reloads, n)
        BY <3>2 DEF ReloadFails, Answered
      <4> QED
        BY <4>1 DEF Fewer, Drop
    <3>3. CASE Deselect
      <4>1. reloads' = [n \in DOMAIN reloads |-> [reloads[n] EXCEPT !.heard = FALSE]]
        BY <3>3 DEF Deselect
      <4> QED
        BY <4>1 DEF Fewer, ShellInv
    <3>4. CASE ~ReloadFails /\ ~Deselect
      <4>1. reloads' = reloads
        BY <1>3, <3>4 DEF togglePolicy, addRule, deleteRule, ApplyIdle,
                onDraft, commitCustomRules, CheckAnswered, fwVars
      <4> QED
        BY <3>1, <4>1
    <3> QED
      BY <3>2, <3>3, <3>4
  <2> QED
    BY <2>1, <2>2, <2>3, FewerShells
<1> QED
  BY <1>1, <1>2, <1>3 DEF PanelStep

LEMMA UpShells ==
  ASSUME ShellInv, ~up, up', zones' = zones, FirewallUp, UNCHANGED <<rules, reloads, asked>>
  PROVE  ShellInv' /\ ChainInv'
<1>1. \A n \in DOMAIN reloads : ~reloads[n].runs
  BY DEF ShellInv
<1>2. ShellInv'
  BY <1>1 DEF ShellInv
<1>3. ASSUME chain' # None PROVE ChainInv'
  <2>1. chain' = [policy |-> NftPolicy(policy), rules |-> Ruleset(rules, zones), list |-> rules,
                  by |-> 0, mixed |-> FALSE, done |-> TRUE]
    BY <1>3 DEF FirewallUp
  <2>2. /\ DOMAIN chain' = ChainFields /\ chain'.rules = Ruleset(rules, zones) /\ chain'.list = rules
        /\ chain'.by = 0
    BY <2>1 DEF ChainFields
  <2>3. IsSeq(rules) /\ IsSeq(Ruleset(rules, zones)) /\ Len(Ruleset(rules, zones)) \in Nat
    <3>1. IsSeq(rules)
      BY SeqIs DEF ShellInv
    <3> QED
      BY <3>1, ScriptIs
  <2>4. 0 \in 0 .. asked /\ 0 \notin DOMAIN reloads
    BY DEF ShellInv
  <2>5. Begins(chain'.rules, Ruleset(chain'.list, zones))
    BY <2>2, <2>3 DEF Begins
  <2>6. ChainOk(chain', reloads, zones)
    BY <2>2, <2>4, <2>5 DEF ChainOk
  <2> QED
    BY <2>2, <2>3, <2>4, <2>6 DEF ChainInv
<1>4. chain' = None => ChainInv'
  BY DEF ChainInv
<1> QED
  BY <1>2, <1>3, <1>4

LEMMA DownShells ==
  ASSUME ShellInv, FirewallDown, UNCHANGED <<rules, asked>>
  PROVE  ShellInv' /\ ChainInv'
<1>1. DOMAIN reloads' = DOMAIN reloads /\ \A n \in DOMAIN reloads : reloads'[n] = [reloads[n] EXCEPT !.runs = FALSE]
  BY DEF FirewallDown
<1>2. \A n \in DOMAIN reloads : /\ DOMAIN reloads'[n] = {"list", "policy", "todo", "heard", "runs"}
                                /\ reloads'[n].list = reloads[n].list /\ ~reloads'[n].runs
  BY <1>1 DEF ShellInv
<1>3. ShellInv'
  BY <1>1, <1>2 DEF ShellInv
<1> QED
  BY <1>3 DEF FirewallDown, ChainInv

\* The chain of the firewall as the properties see it.
LEMMA ReloadSoundFollows == ChainInv => ReloadSound
<1> SUFFICES ASSUME ChainInv, chain # None, ~chain.mixed, NEW p \in Packets
             PROVE  LET passes == Passes(chain.rules, chain.policy, p, zones)
                    IN  /\ chain.done => (passes <=> Meant(chain.list, p, zones))
                        /\ chain.policy = "drop" => (passes => Meant(chain.list, p, zones))
  BY DEF ReloadSound
<1>1. /\ IsSeq(chain.list) /\ Begins(chain.rules, Ruleset(chain.list, zones))
      /\ chain.done => Len(chain.rules) = Len(Ruleset(chain.list, zones))
  BY DEF ChainInv, ChainOk
<1>2. Len(Ruleset(chain.list, zones)) \in Nat
  BY <1>1, ScriptIs
<1>3. \/ Passes(chain.rules, chain.policy, p, zones) <=> Meant(chain.list, p, zones)
      \/ /\ Len(chain.rules) < Len(Ruleset(chain.list, zones))
         /\ Verdict(chain.rules, chain.policy, p, zones) = chain.policy
  BY <1>1, BegunDecides
<1>4. Passes(chain.rules, chain.policy, p, zones) => Verdict(chain.rules, chain.policy, p, zones) = "accept"
  BY DEF Passes
<1> QED
  BY <1>1, <1>2, <1>3, <1>4

-----------------------------------------------------------------------------
(* The Apply button, and the check of custom rules.                        *)

\* A timer is left by a reload that has been answered.
ButtonInv ==
  /\ policy \in {"deny", "allow"} /\ applyState \in {"idle", "applying", "ok", "error"}
  /\ timers \in Nat /\ asked <= MaxReloads /\ timers + Cardinality(DOMAIN reloads) <= asked

IdsInv ==
  /\ draft \in Texts \cup {""} /\ customRules \in Texts \cup {""}
  /\ check # None => check = customRules
  /\ CheckHonest

LEMMA ShellsFinite == ShellInv => IsFiniteSet(DOMAIN reloads) /\ Cardinality(DOMAIN reloads) \in Nat
<1> SUFFICES ASSUME ShellInv PROVE IsFiniteSet(DOMAIN reloads) /\ Cardinality(DOMAIN reloads) \in Nat
  OBVIOUS
<1>1. IsFiniteSet(1 .. asked)
  <2>1. 1 \in Int /\ asked \in Int
    BY DEF ShellInv
  <2> QED
    BY <2>1, FS_Interval
<1>2. IsFiniteSet(DOMAIN reloads)
  BY <1>1, FS_Subset DEF ShellInv
<1> QED
  BY <1>2, FS_CardinalityType

LEMMA AnsweredButton ==
  ASSUME ShellInv, ButtonInv, NEW n \in DOMAIN reloads, NEW answer \in {"ok", "error"}, Answered(n, answer)
  PROVE  /\ applyState' \in {"idle", "applying", "ok", "error"} /\ timers' \in Nat
         /\ timers' + Cardinality(DOMAIN reloads') <= asked
<1>1. DOMAIN reloads' = DOMAIN reloads \ {n}
  BY DEF Answered, Drop
<1>2. IsFiniteSet(DOMAIN reloads) /\ Cardinality(DOMAIN reloads) \in Nat
  BY ShellsFinite
<1>3. Cardinality(DOMAIN reloads') = Cardinality(DOMAIN reloads) - 1
  BY <1>1, <1>2, FS_RemoveElement
<1>4. /\ timers' = timers + 1 \/ timers' = timers
      /\ applyState' \in {"idle", "applying", "ok", "error"}
  BY DEF Answered, ButtonInv
<1>5. asked \in Nat /\ timers \in Nat /\ timers + Cardinality(DOMAIN reloads) <= asked
  BY DEF ShellInv, ButtonInv
<1> QED
  BY <1>2, <1>3, <1>4, <1>5

LEMMA PanelButton ==
  ASSUME ShellInv, ButtonInv, PanelStep
  PROVE  ButtonInv'
<1>0. /\ IsFiniteSet(DOMAIN reloads) /\ Cardinality(DOMAIN reloads) \in Nat
      /\ asked \in Nat /\ timers \in Nat /\ timers + Cardinality(DOMAIN reloads) <= asked /\ asked <= MaxReloads
  BY ShellsFinite DEF ShellInv, ButtonInv
<1>1. CASE applyRules
  <2>1. /\ DOMAIN reloads' = DOMAIN reloads \cup {asked + 1} /\ asked' = asked + 1 /\ timers' = timers
        /\ asked < MaxReloads /\ policy' = policy /\ applyState' = "applying"
    BY <1>1 DEF applyRules, Merge
  <2>2. asked + 1 \notin DOMAIN reloads
    BY DEF ShellInv
  <2>3. Cardinality(DOMAIN reloads') = Cardinality(DOMAIN reloads) + 1
    BY <1>0, <2>1, <2>2, FS_AddElement
  <2> QED
    BY <1>0, <2>1, <2>3, PanelAssumption DEF ButtonInv
<1>2. CASE ReloadStep
  <2>1. asked' = asked /\ policy' = policy
    BY <1>2 DEF ReloadStep
  <2>2. PICK n \in DOMAIN reloads :
          \/ \E answer \in {"ok", "error"} : Answered(n, answer)
          \/ reloads' = [reloads EXCEPT ![n].todo = Tail(@)] /\ UNCHANGED <<applyState, timers>>
    BY <1>2 DEF ReloadStep
  <2>3. CASE \E answer \in {"ok", "error"} : Answered(n, answer)
    <3>1. PICK answer \in {"ok", "error"} : Answered(n, answer)
      BY <2>3
    <3>2. /\ applyState' \in {"idle", "applying", "ok", "error"} /\ timers' \in Nat
          /\ timers' + Cardinality(DOMAIN reloads') <= asked
      BY <3>1, AnsweredButton
    <3> QED
      BY <2>1, <3>2 DEF ButtonInv
  <2>4. CASE reloads' = [reloads EXCEPT ![n].todo = Tail(@)] /\ UNCHANGED <<applyState, timers>>
    <3>1. DOMAIN reloads' = DOMAIN reloads
      BY <2>4
    <3> QED
      BY <2>1, <2>4, <3>1 DEF ButtonInv
  <2> QED
    BY <2>2, <2>3, <2>4
<1>3. CASE ReloadFails
  <2>1. asked' = asked /\ policy' = policy
    BY <1>3 DEF ReloadFails
  <2>2. PICK n \in DOMAIN reloads : Answered(n, "error")
    BY <1>3 DEF ReloadFails
  <2>3. /\ applyState' \in {"idle", "applying", "ok", "error"} /\ timers' \in Nat
        /\ timers' + Cardinality(DOMAIN reloads') <= asked
    BY <2>2, AnsweredButton
  <2> QED
    BY <2>1, <2>3 DEF ButtonInv
<1>4. CASE ApplyIdle
  BY <1>0, <1>4 DEF ApplyIdle, ButtonInv
<1>5. CASE Deselect
  <2>1. DOMAIN reloads' = DOMAIN reloads /\ timers' = 0 /\ asked' = asked /\ policy' = policy /\ applyState' = "idle"
    BY <1>5 DEF Deselect
  <2> QED
    BY <1>0, <2>1 DEF ButtonInv
<1>6. CASE togglePolicy
  BY <1>6 DEF togglePolicy, ButtonInv
<1>7. CASE addRule \/ deleteRule \/ onDraft \/ commitCustomRules \/ CheckAnswered
  <2>1. UNCHANGED <<policy, applyState, timers, reloads, asked>>
    BY <1>7 DEF addRule, deleteRule, onDraft, commitCustomRules, CheckAnswered, fwVars
  <2> QED
    BY <2>1 DEF ButtonInv
<1> QED
  BY <1>1, <1>2, <1>3, <1>4, <1>5, <1>6, <1>7 DEF PanelStep

LEMMA PanelIds ==
  ASSUME IdsInv, PanelStep \/ UNCHANGED idsVars
  PROVE  IdsInv'
<1>1. CASE UNCHANGED idsVars
  BY <1>1 DEF idsVars, IdsInv, CheckHonest
<1>2. CASE onDraft
  BY <1>2 DEF onDraft, IdsInv, CheckHonest
<1>3. CASE commitCustomRules
  BY <1>3, PanelAssumption DEF commitCustomRules, IdsInv, CheckHonest
<1>4. CASE CheckAnswered
  <2>1. PICK status \in interpretRuleTest(check) : ruleCheck' = [text |-> check, status |-> status]
    BY <1>4 DEF CheckAnswered
  <2>2. status = "valid" => check \in Accepted
    BY <2>1 DEF interpretRuleTest
  <2>3. check = customRules /\ customRules' = customRules /\ draft' = draft /\ check' = None
    BY <1>4 DEF CheckAnswered, IdsInv
  <2> QED
    BY <2>1, <2>2, <2>3 DEF IdsInv, CheckHonest
<1>5. CASE Deselect
  BY <1>5 DEF Deselect, IdsInv, CheckHonest
<1>6. CASE togglePolicy \/ addRule \/ deleteRule \/ applyRules \/ ReloadStep \/ ReloadFails \/ ApplyIdle
  <2>1. UNCHANGED idsVars
    BY <1>6 DEF togglePolicy, addRule, deleteRule, applyRules, ReloadStep, ReloadFails, ApplyIdle
  <2> QED
    BY <1>1, <2>1
<1> QED
  BY <1>1, <1>2, <1>3, <1>4, <1>5, <1>6 DEF PanelStep

-----------------------------------------------------------------------------
(* The plan: zones and hosts.                                              *)

\* What the plan of a lab takes from its file does not change under way.
Kinds    == [x \in Ids(lab) |-> Device(lab, x).category]
Resolved == [x \in Ids(lab) |-> resolveDeviceIp(Device(lab, x))]
Unknown  == {x \in Ids(lab) : ZoneOfBlock(Device(lab, x).ip[1]) = None}

LEMMA FileStays ==
  ASSUME lab' = lab, zones' = zones
  PROVE  Kinds' = Kinds /\ Resolved' = Resolved /\ Unknown' = Unknown
<1>1. Kinds' = Kinds
  BY DEF Kinds, Ids, Device
<1>2. Resolved' = Resolved
  BY DEF Resolved, Ids, Device, resolveDeviceIp, ZoneOfBlock, Some, FirstOf
<1>3. Unknown' = Unknown
  BY DEF Unknown, Ids, Device, ZoneOfBlock, Some, FirstOf
<1> QED
  BY <1>1, <1>2, <1>3

LEMMA DeviceAt ==
  ASSUME NEW sc, WellMade(sc), NEW i \in DOMAIN sc.devices
  PROVE  Device(sc, sc.devices[i].id) = sc.devices[i] /\ sc.devices[i].id \in Ids(sc)
<1>1. \A j \in DOMAIN sc.devices : sc.devices[j].id = sc.devices[i].id => j = i
  BY DEF WellMade
<1>2. (CHOOSE j \in DOMAIN sc.devices : sc.devices[j].id = sc.devices[i].id) = i
  BY <1>1
<1> QED
  BY <1>2 DEF Device, Ids

LEMMA DevicesAre ==
  ASSUME NEW sc, WellMade(sc)
  PROVE  DOMAIN sc.devices = 1 .. Len(sc.devices) /\ Len(sc.devices) \in Nat /\ Len(sc.devices) <= 100
<1>1. IsSeq(sc.devices) /\ Len(sc.devices) <= 100
  BY DEF WellMade
<1>2. DOMAIN sc.devices = 1 .. Len(sc.devices) /\ Len(sc.devices) \in Nat
  BY <1>1, IsSeqIs
<1> QED
  BY <1>1, <1>2

LEMMA ZoneOfIs ==
  ASSUME WellMade(lab), NEW block
  PROVE  ZoneOfBlock(block) \in Zones \cup {None}
<1>1. CASE \E i \in DOMAIN lab.segments : lab.segments[i].subnet = block
  <2> DEFINE I == {i \in DOMAIN lab.segments : lab.segments[i].subnet = block}
  <2>1. IsSeq(lab.segments) /\ \A i \in DOMAIN lab.segments : lab.segments[i].zone \in Zones
    BY DEF WellMade
  <2>2. DOMAIN lab.segments = 1 .. Len(lab.segments) /\ Len(lab.segments) \in Nat
    BY <2>1, IsSeqIs
  <2>3. PICK h \in I : \A g \in I : h <= g
    <3>1. I \subseteq Nat /\ I # {}
      BY <1>1, <2>2
    <3> HIDE DEF I
    <3> QED
      BY <3>1, NatMin
  <2>4. h \in DOMAIN lab.segments /\ lab.segments[h].subnet = block
        /\ \A j \in 1 .. h - 1 : lab.segments[j].subnet # block
    <3>1. \A j \in 1 .. h - 1 : j \in DOMAIN lab.segments /\ ~(h <= j)
      BY <2>2, <2>3
    <3> QED
      BY <2>3, <3>1
  <2>5. PICK k : k = CHOOSE i \in DOMAIN lab.segments :
                       lab.segments[i].subnet = block /\ \A j \in 1 .. i - 1 : ~(lab.segments[j].subnet = block)
    OBVIOUS
  <2>6. k \in DOMAIN lab.segments
    BY <2>4, <2>5
  <2>7. ZoneOfBlock(block) = lab.segments[k].zone
    BY <1>1, <2>5 DEF ZoneOfBlock, Some, FirstOf
  <2> QED
    BY <2>1, <2>6, <2>7
<1>2. CASE ~\E i \in DOMAIN lab.segments : lab.segments[i].subnet = block
  BY <1>2 DEF ZoneOfBlock, Some
<1> QED
  BY <1>1, <1>2

LEMMA HomeIs ==
  ASSUME WellMade(lab), NEW d
  PROVE  /\ HomeZone(d) \in Zones
         /\ ZoneOfBlock(d.ip[1]) = None \/ ZoneOfBlock(d.ip[1]) = HomeZone(d)
BY ZoneOfIs DEF HomeZone, Zones

LEMMA ReservedAre ==
  /\ reservedHosts \subseteq 1 .. 254 /\ 250 \in reservedHosts /\ 254 \in reservedHosts
  /\ LastHost < 245 /\ \A k \in 0 .. 4 : LastHost + k \in reservedHosts
BY HostsAssumption DEF reservedHosts

\* A host octet that is claimed was free, unless it is at or above the end of its range.
LEMMA FreeIs ==
  ASSUME NEW from \in 1 .. 254, NEW taken, NEW h, FirstFree(h, from, taken)
  PROVE  h \in 1 .. 254 /\ (h \in taken => h >= LastHost)
BY HostsAssumption DEF FirstFree

LEMMA PreferredIs ==
  ASSUME NEW d, d.ip[2] \in 1 .. 254
  PROVE  Preferred(d) \in 1 .. 254
BY HostsAssumption DEF Preferred

-----------------------------------------------------------------------------
(* The plan: counting devices.                                             *)

Earlier(sc, n, categories) == {j \in DOMAIN sc.devices : j < n /\ sc.devices[j].category \in categories}
Count(sc, n, categories) == Cardinality(Earlier(sc, n, categories))

LEMMA EarlierFinite ==
  ASSUME NEW sc, WellMade(sc), NEW n, NEW categories
  PROVE  /\ IsFiniteSet(Earlier(sc, n, categories)) /\ Count(sc, n, categories) \in Nat
         /\ Count(sc, n, categories) <= Len(sc.devices)
<1>1. DOMAIN sc.devices = 1 .. Len(sc.devices) /\ Len(sc.devices) \in Nat
  BY DevicesAre
<1>2. IsFiniteSet(1 .. Len(sc.devices)) /\ Cardinality(1 .. Len(sc.devices)) = Len(sc.devices)
  BY <1>1, FS_Interval
<1>3. Earlier(sc, n, categories) \subseteq 1 .. Len(sc.devices)
  BY <1>1 DEF Earlier
<1>4. /\ IsFiniteSet(Earlier(sc, n, categories))
      /\ Cardinality(Earlier(sc, n, categories)) <= Cardinality(1 .. Len(sc.devices))
  BY <1>2, <1>3, FS_Subset
<1> QED
  BY <1>2, <1>4, FS_CardinalityType DEF Count

LEMMA CountFirst == \A sc, categories : WellMade(sc) => Count(sc, 1, categories) = 0
<1> SUFFICES ASSUME NEW sc, NEW categories, WellMade(sc) PROVE Count(sc, 1, categories) = 0
  OBVIOUS
<1>1. \A j \in DOMAIN sc.devices : ~(j < 1)
  BY DevicesAre
<1>2. Earlier(sc, 1, categories) = {}
  BY <1>1 DEF Earlier
<1> QED
  BY <1>2, FS_EmptySet DEF Count

LEMMA CountNext ==
  ASSUME NEW sc, WellMade(sc), NEW n \in DOMAIN sc.devices, NEW categories
  PROVE  Count(sc, n + 1, categories) =
           Count(sc, n, categories) + IF sc.devices[n].category \in categories THEN 1 ELSE 0
<1>1. n \in Nat /\ \A j \in DOMAIN sc.devices : j \in Nat
  BY DevicesAre
<1>2. \A j \in DOMAIN sc.devices : j < n + 1 <=> j < n \/ j = n
  BY <1>1
<1>3. IsFiniteSet(Earlier(sc, n, categories)) /\ Count(sc, n, categories) \in Nat
  BY EarlierFinite
<1>4. n \notin Earlier(sc, n, categories)
  BY <1>1 DEF Earlier
<1>5. CASE sc.devices[n].category \in categories
  <2>1. Earlier(sc, n + 1, categories) = Earlier(sc, n, categories) \cup {n}
    BY <1>2, <1>5 DEF Earlier
  <2>2. Cardinality(Earlier(sc, n, categories) \cup {n}) = Cardinality(Earlier(sc, n, categories)) + 1
    BY <1>3, <1>4, FS_AddElement
  <2> QED
    BY <1>5, <2>1, <2>2 DEF Count
<1>6. CASE sc.devices[n].category \notin categories
  <2>1. Earlier(sc, n + 1, categories) = Earlier(sc, n, categories)
    BY <1>2, <1>6 DEF Earlier
  <2> QED
    BY <1>3, <1>6, <2>1 DEF Count
<1> QED
  BY <1>5, <1>6

\* A device is counted by those that come after it.
LEMMA CountLess ==
  ASSUME NEW sc, WellMade(sc), NEW i \in DOMAIN sc.devices, NEW n \in Nat, i < n, NEW categories,
         sc.devices[i].category \in categories
  PROVE  Count(sc, i, categories) < Count(sc, n, categories)
<1>1. i \in Nat /\ \A j \in DOMAIN sc.devices : j \in Nat
  BY DevicesAre
<1>2. PICK A, B : A = Earlier(sc, i, categories) /\ B = Earlier(sc, n, categories)
  OBVIOUS
<1>3. A \subseteq B /\ i \in B /\ i \notin A
  BY <1>1, <1>2 DEF Earlier
<1>4. IsFiniteSet(B) /\ Cardinality(A) \in Nat /\ Cardinality(B) \in Nat
  BY <1>2, EarlierFinite DEF Count
<1>5. Cardinality(A) <= Cardinality(B) /\ Cardinality(A) # Cardinality(B)
  BY <1>3, <1>4, FS_Subset
<1> QED
  BY <1>2, <1>4, <1>5 DEF Count

LEMMA BeforeIs ==
  ASSUME NEW sc, WellMade(sc), NEW i \in DOMAIN sc.devices, NEW categories
  PROVE  Before(sc, sc.devices[i].id, categories) = Count(sc, i, categories)
<1>1. \A j \in DOMAIN sc.devices : sc.devices[j].id = sc.devices[i].id <=> j = i
  BY DEF WellMade
<1>2. i \in Nat /\ \A j \in DOMAIN sc.devices : j \in Nat
  BY DevicesAre
<1>3. \A k \in DOMAIN sc.devices :
        (\E j \in DOMAIN sc.devices : j > k /\ sc.devices[j].id = sc.devices[i].id) <=> k < i
  BY <1>1, <1>2
<1>4. {k \in DOMAIN sc.devices : sc.devices[k].category \in categories
          /\ \E j \in DOMAIN sc.devices : j > k /\ sc.devices[j].id = sc.devices[i].id}
      = Earlier(sc, i, categories)
  BY <1>3 DEF Earlier
<1> QED
  BY <1>4 DEF Before, Count

\* The services counted so far.
Units == {"process-unit"}
Stations == {"engineering-workstation"}
Attackers == {"attack-machine"}

TallyOk(t, sc, n) ==
  /\ DOMAIN t = {"plcs", "units", "stations", "attackers"}
  /\ IsSeq(t.plcs) /\ Len(t.plcs) = Count(sc, n, Controllers)
  /\ IsSeq(t.units) /\ Len(t.units) = Count(sc, n, Units)
  /\ IsSeq(t.stations) /\ Len(t.stations) = Count(sc, n, Stations)
  /\ t.attackers = Count(sc, n, Attackers)

LEMMA TallyNone ==
  ASSUME NEW sc, WellMade(sc)
  PROVE  TallyOk(NoTally, sc, 1)
<1>1. IsSeq(<<>>) /\ Len(<<>>) = 0
  BY DEF IsSeq
<1> QED
  BY <1>1, CountFirst DEF TallyOk, NoTally

LEMMA TallyNext ==
  ASSUME NEW sc, WellMade(sc), NEW n \in DOMAIN sc.devices, TallyOk(tally, sc, n)
  PROVE  TallyOk(Counted(sc.devices[n]), sc, n + 1)
<1>1. PICK d, t : d = sc.devices[n] /\ t = Counted(d)
  OBVIOUS
<1>2. /\ DOMAIN t = {"plcs", "units", "stations", "attackers"}
      /\ t.plcs = IF d.category \in Controllers THEN Append(tally.plcs, SafeName[d.id]) ELSE tally.plcs
      /\ t.units = IF d.category \in Units THEN Append(tally.units, SafeName[d.id]) ELSE tally.units
      /\ t.stations = IF d.category \in Stations THEN Append(tally.stations, SafeName[d.id]) ELSE tally.stations
      /\ t.attackers = IF d.category \in Attackers THEN tally.attackers + 1 ELSE tally.attackers
  BY <1>1 DEF Counted, Units, Stations, Attackers
<1>3. \A categories : Count(sc, n, categories) \in Nat
        /\ Count(sc, n + 1, categories) = Count(sc, n, categories) + IF d.category \in categories THEN 1 ELSE 0
  BY <1>1, CountNext, EarlierFinite
<1>4. IsSeq(t.plcs) /\ Len(t.plcs) = Count(sc, n + 1, Controllers)
  BY <1>2, <1>3, AppendIs DEF TallyOk
<1>5. IsSeq(t.units) /\ Len(t.units) = Count(sc, n + 1, Units)
  BY <1>2, <1>3, AppendIs DEF TallyOk
<1>6. IsSeq(t.stations) /\ Len(t.stations) = Count(sc, n + 1, Stations)
  BY <1>2, <1>3, AppendIs DEF TallyOk
<1>7. t.attackers = Count(sc, n + 1, Attackers)
  BY <1>2, <1>3 DEF TallyOk
<1> QED
  BY <1>1, <1>2, <1>4, <1>5, <1>6, <1>7 DEF TallyOk

-----------------------------------------------------------------------------
(* The plan: one turn of the loop.                                         *)

\* Where the promises about addresses except an attack machine.
Excused(sv, z, kinds) == z = "attacker" /\ sv.of # None /\ kinds[sv.of] = "attack-machine"

LegOk(sv, z, taken, on, kinds, unknown) ==
  /\ sv.legs[z][2] \in 1 .. 254
  /\ sv.legs[z][2] \in taken[z] \/ Excused(sv, z, kinds)
  /\ sv.legs[z][1] = on[z] \/ (sv.of # None /\ (sv.of \in unknown \/ Excused(sv, z, kinds)))

\* No two services have one leg, but for the exceptions.
Apart(a, b, z, kinds) ==
  a.legs[z] = b.legs[z] => a.legs[z][2] >= LastHost \/ Excused(a, z, kinds) \/ Excused(b, z, kinds)

Fresh(sv, z, taken, kinds) ==
  sv.legs[z][2] \notin taken[z] \/ sv.legs[z][2] >= LastHost \/ Excused(sv, z, kinds)

Claiming(d, h) == [used EXCEPT ![HomeZone(d)] = @ \cup {h}]

\* A device d is given host h at home, further legs, and its service sv.
Turn(d, h, auto, sv) ==
  /\ FirstFree(h, Preferred(d), used[HomeZone(d)])
  /\ \A z \in AutoZones(d) : FirstFree(auto[z], AutoFrom(d, z), Claiming(d, h)[z])
  /\ used' = [z \in Zones |-> IF z \in AutoZones(d) THEN Claiming(d, h)[z] \cup {auto[z]} ELSE Claiming(d, h)[z]]
  /\ claimed' = Merge(claimed, [x \in {d.id} |-> <<resolveDeviceIp(d)[1], h>>])
  /\ tally' = Counted(d)
  /\ services' = Merge(services, [s \in {SafeName[d.id]} |-> sv])
  /\ sv = [of |-> d.id,
           legs |-> Merge([z \in FixedZones(d) |-> FixedLeg(d, z, h)],
                          [z \in AutoZones(d) |-> <<zones[z], auto[z]>>]),
           ports |-> Published(d), routes |-> Routes(d), caps |-> CapAdd(d),
           refs |-> {<<t, AddressOf(t, claimed')>> : t \in Targets(d)}]

LEMMA TurnIs ==
  ASSUME ComposeDevice
  PROVE  LET d == lab.devices[next]
         IN  \/ d.category \in CanvasOnly /\ UNCHANGED <<services, claimed, used, tally>>
             \/ d.category \notin CanvasOnly /\ \E h, auto, sv : Turn(d, h, auto, sv)
<1> DEFINE d == lab.devices[next]
<1>2. CASE d.category \in CanvasOnly
  BY <1>2 DEF ComposeDevice
<1>3. CASE d.category \notin CanvasOnly
  <2>1. PICK h \in {k \in Hosts : FirstFree(k, Preferred(d), used[HomeZone(d)])}, auto \in [AutoZones(d) -> AutoHosts] :
          LET taken == [used EXCEPT ![HomeZone(d)] = @ \cup {h}]
              given == Merge(claimed, [x \in {d.id} |-> <<resolveDeviceIp(d)[1], h>>])
              legs  == Merge([z \in FixedZones(d) |-> FixedLeg(d, z, h)],
                             [z \in AutoZones(d) |-> <<zones[z], auto[z]>>])
          IN  /\ \A z \in AutoZones(d) : FirstFree(auto[z], AutoFrom(d, z), taken[z])
              /\ used' = [z \in Zones |-> IF z \in AutoZones(d) THEN taken[z] \cup {auto[z]} ELSE taken[z]]
              /\ claimed' = given /\ tally' = Counted(d)
              /\ services' = Merge(services, [s \in {SafeName[d.id]} |->
                   [of |-> d.id, legs |-> legs, ports |-> Published(d), routes |-> Routes(d),
                    caps |-> CapAdd(d), refs |-> {<<t, AddressOf(t, given)>> : t \in Targets(d)}]])
    BY <1>3, Zenon DEF ComposeDevice
  <2>2. PICK sv : sv = [of |-> d.id,
           legs |-> Merge([z \in FixedZones(d) |-> FixedLeg(d, z, h)],
                          [z \in AutoZones(d) |-> <<zones[z], auto[z]>>]),
           ports |-> Published(d), routes |-> Routes(d), caps |-> CapAdd(d),
           refs |-> {<<t, AddressOf(t, claimed')>> : t \in Targets(d)}]
    OBVIOUS
  <2>3. Turn(d, h, auto, sv)
    <3> HIDE DEF d
    <3> QED
      BY <2>1, <2>2 DEF Turn, Claiming
  <2> QED
    BY <1>3, <2>3
<1> QED
  BY <1>2, <1>3

LEMMA AutoZonesAre ==
  ASSUME WellMade(lab), NEW d, d.extra \subseteq Zones
  PROVE  AutoZones(d) \subseteq Zones
BY DEF AutoZones, OwnLeg, WellMade, Zones

LEMMA AutoFromIs ==
  ASSUME NEW n \in DOMAIN lab.devices, WellMade(lab), TallyOk(tally, lab, n), NEW z
  PROVE  AutoFrom(lab.devices[n], z) \in 1 .. 254
<1>1. AutoHost \in 1 .. 254
  BY HostsAssumption
<1>2. CASE lab.devices[n].category = "engineering-workstation"
  <2>1. PICK total : total = Cardinality({i \in DOMAIN lab.devices : lab.devices[i].category = "engineering-workstation"})
    OBVIOUS
  <2>2. AutoHost + total <= 255
    BY <2>1 DEF WellMade
  <2>3. PICK all : all = Len(lab.devices) + 1
    OBVIOUS
  <2>4. all \in Nat /\ \A i \in DOMAIN lab.devices : i < all
    BY <2>3, DevicesAre
  <2>5. Earlier(lab, all, Stations) = {i \in DOMAIN lab.devices : lab.devices[i].category = "engineering-workstation"}
    BY <2>4 DEF Earlier, Stations
  <2>6. Count(lab, n, Stations) < total
    BY <1>2, <2>1, <2>4, <2>5, CountLess DEF Count, Stations
  <2>7. Count(lab, n, Stations) \in Nat /\ total \in Nat
    BY <2>1, <2>5, EarlierFinite DEF Count
  <2>8. AutoHost + Count(lab, n, Stations) \in 1 .. 254
    BY <1>1, <2>2, <2>6, <2>7, SMTT(30)
  <2>9. Len(tally.stations) = Count(lab, n, Stations)
    BY DEF TallyOk
  <2> QED
    BY <1>1, <2>8, <2>9 DEF AutoFrom
<1>3. CASE lab.devices[n].category # "engineering-workstation"
  BY <1>1, <1>3 DEF AutoFrom
<1> QED
  BY <1>2, <1>3

UsedOk(taken) ==
  taken = [z \in Zones |-> taken[z]] /\ \A z \in Zones : reservedHosts \subseteq taken[z] /\ taken[z] \subseteq 1 .. 254

\* What a turn takes stays taken, and is taken from hosts that were free.
LEMMA TurnTakes ==
  ASSUME WellMade(lab), UsedOk(used), NEW n \in DOMAIN lab.devices, TallyOk(tally, lab, n),
         NEW d, d = lab.devices[n], NEW h, NEW auto, NEW sv, Turn(d, h, auto, sv)
  PROVE  /\ UsedOk(used') /\ \A z \in Zones : used[z] \subseteq used'[z]
         /\ AutoZones(d) \subseteq Zones
         /\ h \in 1 .. 254 /\ h \in used'[HomeZone(d)] /\ (h \notin used[HomeZone(d)] \/ h >= LastHost)
         /\ \A z \in AutoZones(d) : /\ auto[z] \in 1 .. 254 /\ auto[z] \in used'[z]
                                    /\ auto[z] \notin used[z] \/ auto[z] >= LastHost
<1>1. d.extra \subseteq Zones /\ d.ip[2] \in 1 .. 254
  BY DEF WellMade
<1>2. AutoZones(d) \subseteq Zones
  BY <1>1, AutoZonesAre
<1>3. HomeZone(d) \in Zones
  BY HomeIs
<1>4. /\ \A z \in Zones : used[z] \subseteq Claiming(d, h)[z]
      /\ \A z \in Zones : Claiming(d, h)[z] \subseteq used[z] \cup {h}
      /\ h \in Claiming(d, h)[HomeZone(d)]
  BY <1>3 DEF Claiming, UsedOk
<1>5. h \in 1 .. 254 /\ (h \notin used[HomeZone(d)] \/ h >= LastHost)
  <2>1. FirstFree(h, Preferred(d), used[HomeZone(d)])
    BY DEF Turn
  <2> QED
    BY <1>1, <2>1, PreferredIs, FreeIs
<1>6. ASSUME NEW z \in AutoZones(d)
      PROVE  auto[z] \in 1 .. 254 /\ (auto[z] \notin used[z] \/ auto[z] >= LastHost)
  <2>1. FirstFree(auto[z], AutoFrom(d, z), Claiming(d, h)[z])
    BY DEF Turn
  <2>2. AutoFrom(d, z) \in 1 .. 254
    BY AutoFromIs
  <2>3. auto[z] \in 1 .. 254 /\ (auto[z] \in Claiming(d, h)[z] => auto[z] >= LastHost)
    BY <2>1, <2>2, FreeIs
  <2> QED
    BY <1>2, <1>4, <2>3
<1>7. used' = [z \in Zones |-> IF z \in AutoZones(d) THEN Claiming(d, h)[z] \cup {auto[z]} ELSE Claiming(d, h)[z]]
  BY DEF Turn
<1>8. \A z \in Zones : used'[z] = IF z \in AutoZones(d) THEN Claiming(d, h)[z] \cup {auto[z]} ELSE Claiming(d, h)[z]
  BY <1>7
<1>9. ASSUME NEW z \in Zones
      PROVE  used[z] \subseteq used'[z] /\ used'[z] \subseteq 1 .. 254 /\ reservedHosts \subseteq used'[z]
  <2>1. used[z] \subseteq 1 .. 254 /\ reservedHosts \subseteq used[z]
    BY DEF UsedOk
  <2>2. used[z] \subseteq Claiming(d, h)[z] /\ Claiming(d, h)[z] \subseteq 1 .. 254
    BY <1>4, <1>5, <2>1
  <2> QED
    BY <1>6, <1>8, <2>1, <2>2, ZenonT(60)
<1>10. UsedOk(used')
  BY <1>7, <1>9 DEF UsedOk
<1>11. h \in used'[HomeZone(d)] /\ \A z \in AutoZones(d) : auto[z] \in used'[z]
  BY <1>2, <1>3, <1>4, <1>8
<1> QED
  BY <1>2, <1>5, <1>6, <1>9, <1>10, <1>11

LEMMA TurnLegs ==
  ASSUME WellMade(lab), UsedOk(used), NEW n \in DOMAIN lab.devices, TallyOk(tally, lab, n),
         NEW d, d = lab.devices[n], NEW h, NEW auto, NEW sv, Turn(d, h, auto, sv),
         NEW z \in DOMAIN sv.legs
  PROVE  z \in Zones /\ LegOk(sv, z, used', zones, Kinds, Unknown) /\ Fresh(sv, z, used, Kinds)
<1>1. d.id # None /\ d.ip = <<d.ip[1], d.ip[2]>> /\ d.ip[2] \in 1 .. 254
  BY DEF WellMade
<1>2. d.id \in Ids(lab) /\ Device(lab, d.id) = d
  BY DeviceAt
<1>3. Kinds[d.id] = d.category /\ (d.id \in Unknown <=> ZoneOfBlock(d.ip[1]) = None)
  BY <1>2 DEF Kinds, Unknown
<1>4. sv.of = d.id /\ sv.legs = Merge([y \in FixedZones(d) |-> FixedLeg(d, y, h)],
                                       [y \in AutoZones(d) |-> <<zones[y], auto[y]>>])
  BY DEF Turn
<1>5. /\ z \in FixedZones(d) \cup AutoZones(d)
      /\ sv.legs[z] = IF z \in AutoZones(d) THEN <<zones[z], auto[z]>> ELSE FixedLeg(d, z, h)
  BY <1>4 DEF Merge
<1>6. /\ UsedOk(used') /\ AutoZones(d) \subseteq Zones
      /\ h \in 1 .. 254 /\ h \in used'[HomeZone(d)] /\ (h \notin used[HomeZone(d)] \/ h >= LastHost)
      /\ \A y \in AutoZones(d) : /\ auto[y] \in 1 .. 254 /\ auto[y] \in used'[y]
                                 /\ auto[y] \notin used[y] \/ auto[y] >= LastHost
  BY TurnTakes, ZenonT(60)
<1>7. CASE z \in AutoZones(d)
  <2>1. sv.legs[z][1] = zones[z] /\ sv.legs[z][2] = auto[z]
    BY <1>5, <1>7
  <2> QED
    BY <1>6, <1>7, <2>1 DEF LegOk, Fresh
<1>8. CASE z \notin AutoZones(d) /\ z \in FixedZones(d) /\ d.category = "firewall"
  <2>1. z \in Zones /\ sv.legs[z][1] = zones[z] /\ sv.legs[z][2] = 254
    BY <1>5, <1>8 DEF FixedZones, FixedLeg, Zones
  <2>2. 254 \in used'[z] /\ 254 >= LastHost /\ 254 \in 1 .. 254
    BY <1>6, <2>1, ReservedAre, HostsAssumption DEF UsedOk
  <2> QED
    BY <2>1, <2>2 DEF LegOk, Fresh
<1>9. CASE z \notin AutoZones(d) /\ z \in FixedZones(d) /\ d.category = "attack-machine"
  <2>1. CASE z = "attacker"
    <3>1. sv.legs[z][2] = d.ip[2] /\ Excused(sv, z, Kinds) /\ z \in Zones
      BY <1>1, <1>3, <1>4, <1>5, <1>9, <2>1 DEF FixedLeg, Excused, Zones
    <3> QED
      BY <1>1, <1>4, <3>1 DEF LegOk, Fresh
  <2>2. CASE z # "attacker"
    <3>1. z \in Zones /\ sv.legs[z][1] = zones[z] /\ sv.legs[z][2] = 250
      BY <1>5, <1>9, <2>2 DEF FixedZones, FixedLeg, Zones
    <3>2. 250 \in used'[z] /\ 250 >= LastHost /\ 250 \in 1 .. 254
      BY <1>6, <3>1, ReservedAre, HostsAssumption DEF UsedOk
    <3> QED
      BY <3>1, <3>2 DEF LegOk, Fresh
  <2> QED
    BY <2>1, <2>2
<1>10. CASE z \notin AutoZones(d) /\ z \in FixedZones(d) /\ d.category \notin {"firewall", "attack-machine"}
  <2>1. z = HomeZone(d) /\ sv.legs[z] = <<resolveDeviceIp(d)[1], h>>
    BY <1>5, <1>10 DEF FixedZones, FixedLeg
  <2>2. z \in Zones /\ (ZoneOfBlock(d.ip[1]) = None \/ ZoneOfBlock(d.ip[1]) = z)
    BY <2>1, HomeIs
  <2>3. d.id \in Unknown \/ resolveDeviceIp(d)[1] = zones[z]
    BY <1>3, <2>2 DEF resolveDeviceIp
  <2>4. sv.legs[z][1] = resolveDeviceIp(d)[1] /\ sv.legs[z][2] = h
    BY <2>1
  <2> QED
    BY <1>1, <1>4, <1>6, <2>1, <2>2, <2>3, <2>4 DEF LegOk, Fresh
<1> QED
  BY <1>5, <1>7, <1>8, <1>9, <1>10

LegsOk(sv, taken, on, kinds, unknown) ==
  \A z \in DOMAIN sv.legs \cap Zones : LegOk(sv, z, taken, on, kinds, unknown)

AllApart(a, b, kinds) == \A z \in DOMAIN a.legs \cap DOMAIN b.legs \cap Zones : Apart(a, b, z, kinds)

AddressInv ==
  /\ UsedOk(used)
  /\ \A s \in DOMAIN services : LegsOk(services[s], used, zones, Kinds, Unknown)
  /\ \A s, t \in DOMAIN services : s # t => AllApart(services[s], services[t], Kinds)

LEMMA FreshApart ==
  ASSUME NEW sv, NEW old, NEW taken, NEW on, NEW kinds, NEW unknown,
         \A z \in DOMAIN sv.legs \cap Zones : Fresh(sv, z, taken, kinds),
         LegsOk(old, taken, on, kinds, unknown)
  PROVE  AllApart(sv, old, kinds) /\ AllApart(old, sv, kinds)
<1> SUFFICES ASSUME NEW z \in DOMAIN sv.legs \cap DOMAIN old.legs \cap Zones, sv.legs[z] = old.legs[z]
             PROVE  sv.legs[z][2] >= LastHost \/ Excused(sv, z, kinds) \/ Excused(old, z, kinds)
  BY DEF AllApart, Apart
<1>1. Fresh(sv, z, taken, kinds) /\ LegOk(old, z, taken, on, kinds, unknown)
  BY DEF LegsOk
<1> QED
  BY <1>1 DEF Fresh, LegOk

LEMMA AddressTurn ==
  ASSUME WellMade(lab), AddressInv, TallyOk(tally, lab, next), next \in DOMAIN lab.devices,
         lab' = lab, zones' = zones, NEW h, NEW auto, NEW sv, Turn(lab.devices[next], h, auto, sv)
  PROVE  AddressInv'
<1>1. PICK d, name : d = lab.devices[next] /\ name = SafeName[d.id]
  OBVIOUS
<1>2. Kinds' = Kinds /\ Unknown' = Unknown
  BY FileStays
<1>3. Turn(d, h, auto, sv) /\ UsedOk(used)
  BY <1>1 DEF AddressInv
<1>4. /\ DOMAIN services' = DOMAIN services \cup {name} /\ services'[name] = sv
      /\ \A s \in DOMAIN services : s # name => services'[s] = services[s]
  <2>1. services' = Merge(services, [s \in {name} |-> sv])
    BY <1>1, <1>3 DEF Turn
  <2>2. services' = [s \in DOMAIN services \cup {name} |-> IF s = name THEN sv ELSE services[s]]
    BY <2>1 DEF Merge
  <2> QED
    BY <2>2
<1>5. UsedOk(used') /\ \A z \in Zones : used[z] \subseteq used'[z]
  BY <1>1, <1>3, TurnTakes
<1>6. \A z \in DOMAIN sv.legs : LegOk(sv, z, used', zones, Kinds, Unknown) /\ Fresh(sv, z, used, Kinds)
  BY <1>1, <1>3, TurnLegs
<1>7. ASSUME NEW s \in DOMAIN services PROVE LegsOk(services[s], used', zones, Kinds, Unknown)
  <2>1. LegsOk(services[s], used, zones, Kinds, Unknown)
    BY DEF AddressInv
  <2> QED
    BY <1>5, <2>1 DEF LegsOk, LegOk
<1>8. LegsOk(sv, used', zones, Kinds, Unknown)
  BY <1>6 DEF LegsOk
<1>9. \A s \in DOMAIN services' : LegsOk(services'[s], used', zones', Kinds', Unknown')
  BY <1>2, <1>4, <1>7, <1>8
<1>10. ASSUME NEW s \in DOMAIN services', NEW t \in DOMAIN services', s # t
       PROVE  AllApart(services'[s], services'[t], Kinds')
  <2>1. \A r \in DOMAIN services : AllApart(sv, services[r], Kinds) /\ AllApart(services[r], sv, Kinds)
    BY <1>6, FreshApart DEF AddressInv
  <2>2. CASE s # name /\ t # name
    BY <1>2, <1>4, <1>10, <2>2 DEF AddressInv
  <2>3. CASE s = name
    BY <1>2, <1>4, <1>10, <2>1, <2>3
  <2>4. CASE t = name
    BY <1>2, <1>4, <1>10, <2>1, <2>4
  <2> QED
    BY <2>2, <2>3, <2>4
<1> QED
  BY <1>5, <1>9, <1>10 DEF AddressInv

LEMMA FixedLegs ==
  ASSUME NEW s \in FixedNames
  PROVE  /\ FixedServices[s].of = None /\ FixedServices[s].refs = {}
         /\ DOMAIN FixedServices[s].legs \subseteq Zones \cup {"monitoring"}
         /\ \A z \in DOMAIN FixedServices[s].legs \cap Zones :
              /\ FixedServices[s].legs[z][1] = zones[z]
              /\ \E k \in 0 .. 4 : FixedServices[s].legs[z][2] = LastHost + k
         /\ "monitoring" \in DOMAIN FixedServices[s].legs =>
              FixedServices[s].legs["monitoring"][2] \in 1 .. 254
<1>1. \A legs, published : /\ Fixed(legs, published).of = None /\ Fixed(legs, published).refs = {}
                           /\ Fixed(legs, published).legs = legs
  BY DEF Fixed
<1>2. PICK control : control = [k \in 0 .. 4 |-> [z \in {"control"} |-> <<zones["control"], LastHost + k>>]]
  OBVIOUS
<1>3. PICK monitor : monitor = [k \in 1 .. 4 |-> [z \in {"monitoring"} |-> <<MonitorBlock(zones), k>>]]
  OBVIOUS
<1>4. PICK ot : ot = [z \in {"ot"} |-> <<zones["ot"], LastHost + 3>>]
  OBVIOUS
<1>5. "monitoring" \notin Zones
  BY DEF Zones
<1>6. CASE s \in {"suricata", "zeek"}
  <2>1. FixedServices[s] = Fixed(<<>>, {})
    BY <1>6 DEF FixedServices, FixedNames
  <2> QED
    BY <1>1, <2>1
<1>7. CASE s \in {"influxdb", "promtail"}
  <2>1. PICK k \in 0 .. 4 : FixedServices[s] = Fixed(control[k], {})
    <3>1. CASE s = "influxdb"
      <4>1. FixedServices[s] = Fixed(control[0], {})
        BY <1>2, <3>1 DEF FixedServices, FixedNames
      <4> QED
        BY <4>1
    <3>2. CASE s = "promtail"
      <4>1. FixedServices[s] = Fixed(control[4], {})
        BY <1>2, <3>2 DEF FixedServices, FixedNames
      <4> QED
        BY <4>1
    <3> QED
      BY <1>7, <3>1, <3>2
  <2>2. control[k] = [z \in {"control"} |-> <<zones["control"], LastHost + k>>]
    BY <1>2
  <2> QED
    BY <1>1, <1>5, <2>1, <2>2 DEF Zones
<1>8. CASE s \in {"loki", "grafana"}
  <2>1. PICK k \in 0 .. 4, m \in 1 .. 4, p \in {{3000}, {3100}} : FixedServices[s] = Fixed(Merge(control[k], monitor[m]), p)
    <3>1. CASE s = "loki"
      <4>1. FixedServices[s] = Fixed(Merge(control[1], monitor[3]), {3100})
        BY <1>2, <1>3, <3>1 DEF FixedServices, FixedNames
      <4> QED
        BY <4>1
    <3>2. CASE s = "grafana"
      <4>1. FixedServices[s] = Fixed(Merge(control[2], monitor[2]), {3000})
        BY <1>2, <1>3, <3>2 DEF FixedServices, FixedNames
      <4> QED
        BY <4>1
    <3> QED
      BY <1>8, <3>1, <3>2
  <2>2. /\ control[k] = [z \in {"control"} |-> <<zones["control"], LastHost + k>>]
        /\ monitor[m] = [z \in {"monitoring"} |-> <<MonitorBlock(zones), m>>]
    BY <1>2, <1>3
  <2>3. PICK legs : legs = Merge(control[k], monitor[m])
    OBVIOUS
  <2>4. /\ DOMAIN legs = {"control", "monitoring"} /\ legs["control"] = <<zones["control"], LastHost + k>>
        /\ legs["monitoring"] = <<MonitorBlock(zones), m>>
    BY <2>2, <2>3 DEF Merge
  <2>5. legs["monitoring"][2] \in 1 .. 254
    BY <2>4
  <2> QED
    BY <1>1, <1>5, <2>1, <2>3, <2>4, <2>5, SMTT(30) DEF Zones
<1>9. CASE s = "fuxa"
  <2>1. FixedServices[s] = Fixed(Merge(Merge(control[3], ot), monitor[4]), {1881})
    BY <1>2, <1>3, <1>4, <1>9 DEF FixedServices, FixedNames
  <2>2. PICK legs : legs = Merge(Merge(control[3], ot), monitor[4])
    OBVIOUS
  <2>3. /\ control[3] = [z \in {"control"} |-> <<zones["control"], LastHost + 3>>]
        /\ monitor[4] = [z \in {"monitoring"} |-> <<MonitorBlock(zones), 4>>]
    BY <1>2, <1>3
  <2>4. /\ DOMAIN legs = {"control", "ot", "monitoring"}
        /\ legs["control"] = <<zones["control"], LastHost + 3>> /\ legs["ot"] = <<zones["ot"], LastHost + 3>>
        /\ legs["monitoring"] = <<MonitorBlock(zones), 4>>
    BY <1>4, <2>2, <2>3 DEF Merge
  <2>5. legs["monitoring"][2] \in 1 .. 254
    BY <2>4
  <2> QED
    BY <1>1, <1>5, <2>1, <2>2, <2>4, <2>5, SMTT(30) DEF Zones
<1> QED
  BY <1>6, <1>7, <1>8, <1>9 DEF FixedNames

-----------------------------------------------------------------------------
(* The lab and its stages.                                                 *)

LabInv ==
  /\ IsSeq(course) /\ \A i \in DOMAIN course : WellMade(course[i].scenario)
  /\ composed \in BOOLEAN /\ up \in BOOLEAN /\ next \in Nat
  /\ lab = None => services = <<>> /\ used = [z \in Zones |-> reservedHosts] /\ ~composed /\ ~up
  /\ lab # None => WellMade(lab) /\ next >= 1 /\ next <= Len(lab.devices) + 1
  /\ composed => next = Len(lab.devices) + 1
  /\ up => composed

\* What the panels, the pipes, the programs and the HMI do leaves the plan alone.
LEMMA WorkingPlan ==
  ASSUME Working
  PROVE  UNCHANGED planVars /\ course' = course
<1>1. CASE PanelStep /\ UNCHANGED <<coilVars, programVars, hmiVars, course>>
  BY <1>1 DEF PanelStep, togglePolicy, addRule, deleteRule, applyRules, ReloadStep, ReloadFails,
              ApplyIdle, Deselect, onDraft, commitCustomRules, CheckAnswered
<1>2. CASE OverlayStep /\ UNCHANGED <<panelVars, programVars, hmiVars, course>>
  BY <1>2 DEF OverlayStep, SwitchTab, PollBegins, ReadCoils, PollEnds, onEdgeClick, WriteCoil,
              WriteFails, WriteAnswered
<1>3. CASE ProgramStep /\ UNCHANGED <<panelVars, coilVars, hmiVars, course>>
  BY <1>3 DEF ProgramStep, ScanVote, ScanBatch, WriteCommand, ForceRegister
<1>4. CASE HmiStep /\ UNCHANGED <<panelVars, coilVars, programVars, course>>
  BY <1>4 DEF HmiStep, PostProjectData, PostLost, getExistingViewNames, hmiOpenEditor
<1> QED
  BY <1>1, <1>2, <1>3, <1>4 DEF Working

LEMMA LabInit == Init => LabInv
<1> SUFFICES ASSUME Init PROVE LabInv
  OBVIOUS
<1>1. IsSeq(course) /\ \A i \in DOMAIN course : WellMade(course[i].scenario)
  BY CoursesAssumption DEF Init
<1>2. lab = None /\ services = <<>> /\ used = [z \in Zones |-> reservedHosts] /\ composed = FALSE /\ up = FALSE /\ next = 0
  BY DEF Init, PlanInit
<1> QED
  BY <1>1, <1>2 DEF LabInv

LEMMA LabStart ==
  ASSUME LabInv, Start
  PROVE  /\ LabInv' /\ ~up /\ ~up' /\ ~composed' /\ lab = None /\ WellMade(lab') /\ next' = 1
         /\ services' = <<>> /\ claimed' = <<>> /\ used' = [z \in Zones |-> reservedHosts]
         /\ tally' = NoTally /\ ports' = activePorts(lab')
<1>1. /\ IsSeq(course) /\ course # <<>> /\ course' = Tail(course)
      /\ \A i \in DOMAIN course : WellMade(course[i].scenario)
  BY DEF LabInv, Start
<1>2. /\ IsSeq(course') /\ Len(course') = Len(course) - 1 /\ Head(course) = course[1]
      /\ \A i \in 1 .. Len(course) - 1 : course'[i] = course[i + 1]
  BY <1>1, TailIs
<1>3. DOMAIN course = 1 .. Len(course) /\ Len(course) \in Nat /\ Len(course) # 0 /\ DOMAIN course' = 1 .. Len(course')
  BY <1>1, <1>2, IsSeqIs
<1>4. \A i \in DOMAIN course' : WellMade(course'[i].scenario)
  <2> SUFFICES ASSUME NEW i \in DOMAIN course' PROVE WellMade(course'[i].scenario)
    OBVIOUS
  <2>1. i + 1 \in DOMAIN course /\ course'[i] = course[i + 1]
    BY <1>2, <1>3
  <2> QED
    BY <1>1, <2>1
<1>5. PICK sc : sc = Head(course).scenario
  OBVIOUS
<1>6. WellMade(sc)
  <2>1. 1 \in DOMAIN course
    BY <1>3
  <2> QED
    BY <1>1, <1>2, <1>5, <2>1
<1>7. /\ lab = None /\ lab' = sc /\ next' = 1 /\ services' = <<>> /\ claimed' = <<>>
      /\ used' = [z \in Zones |-> reservedHosts] /\ tally' = NoTally /\ ports' = activePorts(sc)
      /\ composed' = composed /\ up' = up
  BY <1>5 DEF Start, BeginStart
<1>8. ~composed /\ ~up
  BY <1>7 DEF LabInv
<1>9. Len(sc.devices) \in Nat /\ sc # None
  <2>1. Len(sc.devices) \in Nat
    BY <1>6, DevicesAre
  <2> QED
    BY <1>6, <2>1 DEF WellMade
<1>10. LabInv'
  BY <1>2, <1>4, <1>6, <1>7, <1>8, <1>9 DEF LabInv
<1> QED
  BY <1>6, <1>7, <1>8, <1>10

LEMMA LabStep ==
  ASSUME LabInv, [Next]_vars
  PROVE  LabInv'
<1>1. CASE Start
  BY <1>1, LabStart
<1>2. CASE ComposeDevice /\ UNCHANGED course
  <2>1. lab' = lab /\ composed' = composed /\ up' = up /\ next' = next + 1 /\ lab # None /\ next \in DOMAIN lab.devices
    BY <1>2 DEF ComposeDevice
  <2>2. PICK n : n = Len(lab.devices)
    OBVIOUS
  <2>3. n \in Nat /\ next \in 1 .. n
    BY <2>1, <2>2, DevicesAre DEF LabInv
  <2>4. ~composed
    BY <2>2, <2>3 DEF LabInv
  <2>5. next' \in Nat /\ next' >= 1 /\ next' <= n + 1
    BY <2>1, <2>3
  <2> QED
    BY <1>2, <2>1, <2>2, <2>4, <2>5 DEF LabInv
<1>3. CASE ComposeServices /\ UNCHANGED course
  BY <1>3 DEF ComposeServices, LabInv
<1>4. CASE StartFails /\ UNCHANGED course
  BY <1>4 DEF StartFails, ForgetFile, LabInv
<1>5. CASE LabUp
  BY <1>5 DEF LabUp, ContainersUp, LabInv
<1>6. CASE LabDown
  BY <1>6 DEF LabDown, StopLab, ForgetFile, LabInv
<1>7. CASE Working
  <2>1. UNCHANGED planVars /\ course' = course
    BY <1>7, WorkingPlan
  <2> QED
    BY <2>1 DEF planVars, LabInv
<1>8. CASE UNCHANGED vars
  BY <1>8 DEF vars, planVars, LabInv
<1> QED
  BY <1>1, <1>2, <1>3, <1>4, <1>5, <1>6, <1>7, <1>8 DEF Next, Planning

-----------------------------------------------------------------------------
(* Panels and programs in the life of a lab.                               *)

PanelInv == ShellInv /\ ChainInv /\ ButtonInv /\ IdsInv /\ BatchInv /\ forced \in Nat

LEMMA PanelsInit == Init => PanelInv
<1> SUFFICES ASSUME Init PROVE PanelInv
  OBVIOUS
<1>1. ShellInv /\ ChainInv
  <2>1. asked = 0 /\ rules = <<>> /\ reloads = <<>> /\ chain = None
    BY DEF Init, PanelInit
  <2> QED
    BY <2>1 DEF ShellInv, ChainInv
<1>2. ButtonInv
  <2>1. policy = "deny" /\ applyState = "idle" /\ timers = 0 /\ asked = 0 /\ reloads = <<>>
    BY DEF Init, PanelInit
  <2>2. Cardinality(DOMAIN reloads) = 0
    <3>1. DOMAIN reloads = {}
      BY <2>1
    <3> QED
      BY <3>1, FS_EmptySet
  <2> QED
    BY <2>1, <2>2, PanelAssumption DEF ButtonInv
<1>3. IdsInv
  BY DEF Init, PanelInit, IdsInv, CheckHonest
<1>4. BatchInv /\ forced \in Nat
  <2>1. batch = BatchReset /\ forced = 0
    BY DEF Init, ProgramInit
  <2> QED
    BY <2>1, ResetInv DEF BatchInv
<1> QED
  BY <1>1, <1>2, <1>3, <1>4 DEF PanelInv

\* Nothing of the panels changes, nor the networks of a running lab.
LEMMA PanelsIdle ==
  ASSUME PanelInv, UNCHANGED panelVars, up' = up, up => zones' = zones
  PROVE  ShellInv' /\ ChainInv' /\ ButtonInv' /\ IdsInv'
<1>1. UNCHANGED <<policy, rules, applyState, timers, reloads, asked, chain, draft, customRules, check, ruleCheck>>
  BY DEF panelVars
<1>2. rules \in Seq(Forms) /\ Fewer(reloads, reloads')
  BY <1>1 DEF PanelInv, ShellInv, Fewer
<1>3. ShellInv' /\ ChainInv'
  BY <1>1, <1>2, FewerShells DEF PanelInv
<1>4. ButtonInv'
  BY <1>1 DEF PanelInv, ButtonInv
<1>5. IdsInv'
  BY <1>1, PanelIds DEF PanelInv, idsVars
<1> QED
  BY <1>3, <1>4, <1>5

LEMMA ProgramsIdle ==
  ASSUME PanelInv, UNCHANGED programVars
  PROVE  BatchInv' /\ forced' \in Nat
BY BatchStep DEF PanelInv

LEMMA PanelsStep ==
  ASSUME LabInv, PanelInv, [Next]_vars
  PROVE  PanelInv'
<1>1. CASE Start
  <2>1. ~up /\ up' = up
    BY <1>1, LabStart DEF Start, BeginStart
  <2>2. UNCHANGED panelVars /\ UNCHANGED programVars
    BY <1>1 DEF Start
  <2>3. ShellInv' /\ ChainInv' /\ ButtonInv' /\ IdsInv'
    BY <2>1, <2>2, PanelsIdle
  <2> QED
    BY <2>2, <2>3, ProgramsIdle DEF PanelInv
<1>2. CASE Planning \/ UNCHANGED vars
  <2>1. UNCHANGED panelVars /\ UNCHANGED programVars
    BY <1>2 DEF Planning, vars
  <2>2. up' = up /\ zones' = zones
    BY <1>2 DEF Planning, vars, planVars, ComposeDevice, ComposeServices, StartFails
  <2> QED
    BY <2>1, <2>2, PanelsIdle, ProgramsIdle DEF PanelInv
<1>3. CASE LabUp
  <2>1. ~up /\ up' /\ zones' = zones /\ FirewallUp /\ UNCHANGED <<rules, reloads, asked>>
    BY <1>3 DEF LabUp, ContainersUp
  <2>2. ShellInv' /\ ChainInv'
    BY <2>1, UpShells DEF PanelInv
  <2>3. UNCHANGED <<policy, applyState, timers, reloads, asked>> /\ UNCHANGED idsVars /\ UNCHANGED programVars
    BY <1>3 DEF LabUp
  <2>4. ButtonInv'
    BY <2>3 DEF PanelInv, ButtonInv
  <2>5. IdsInv'
    BY <2>3, PanelIds DEF PanelInv
  <2> QED
    BY <2>2, <2>3, <2>4, <2>5, ProgramsIdle DEF PanelInv
<1>4. CASE LabDown
  <2>1. FirewallDown /\ UNCHANGED <<rules, asked>> /\ ProgramsStop
    BY <1>4 DEF LabDown
  <2>2. ShellInv' /\ ChainInv'
    BY <2>1, DownShells DEF PanelInv
  <2>3. UNCHANGED <<policy, applyState, timers, asked>> /\ UNCHANGED idsVars /\ DOMAIN reloads' = DOMAIN reloads
    BY <1>4, <2>1 DEF LabDown, FirewallDown
  <2>4. ButtonInv'
    BY <2>3 DEF PanelInv, ButtonInv
  <2>5. IdsInv'
    BY <2>3, PanelIds DEF PanelInv
  <2>6. BatchInv' /\ forced' \in Nat
    BY <2>1, BatchStep DEF PanelInv
  <2> QED
    BY <2>2, <2>4, <2>5, <2>6 DEF PanelInv
<1>5. CASE PanelStep /\ UNCHANGED <<coilVars, programVars, hmiVars, course>>
  <2>1. ShellInv' /\ ChainInv'
    BY <1>5, PanelShells DEF PanelInv
  <2>2. ButtonInv'
    BY <1>5, PanelButton DEF PanelInv
  <2>3. IdsInv'
    BY <1>5, PanelIds DEF PanelInv
  <2>4. BatchInv' /\ forced' \in Nat
    BY <1>5, ProgramsIdle
  <2> QED
    BY <2>1, <2>2, <2>3, <2>4 DEF PanelInv
<1>6. CASE /\ Working /\ UNCHANGED panelVars
           /\ ProgramStep \/ UNCHANGED programVars
  <2>1. up' = up /\ zones' = zones
    BY <1>6, WorkingPlan DEF planVars
  <2>2. ShellInv' /\ ChainInv' /\ ButtonInv' /\ IdsInv'
    BY <1>6, <2>1, PanelsIdle
  <2>3. BatchInv' /\ forced' \in Nat
    BY <1>6, BatchStep DEF PanelInv, ProgramStep
  <2> QED
    BY <2>2, <2>3 DEF PanelInv
<1>7. CASE Working
  BY <1>5, <1>6, <1>7 DEF Working
<1> QED
  BY <1>1, <1>2, <1>3, <1>4, <1>7 DEF Next

LEMMA PanelsAlways == Spec => [](LabInv /\ PanelInv)
<1>1. Init => LabInv /\ PanelInv
  BY LabInit, PanelsInit
<1>2. LabInv /\ PanelInv /\ [Next]_vars => LabInv' /\ PanelInv'
  BY LabStep, PanelsStep
<1> QED
  BY <1>1, <1>2, PTL DEF Spec

\* The firewall does what the table of its last reload means, also while shells write
\* into its chain side by side, fail half-way or die with their container; a reload
\* lets nothing through that its table refuses; and the verdict the detection panel
\* shows is about the rules it has saved (SecurityPanel.tsx, firewall:reload and
\* ids:validateRules of main/index.ts).
THEOREM PanelsHonestAlways == Spec => []PanelsHonest
<1>1. PanelInv => PanelsHonest
  BY ReloadSoundFollows DEF PanelInv, IdsInv, PanelsHonest
<1> QED
  BY <1>1, PanelsAlways, PTL

\* The batch program never drives two outputs that exclude each other, and empties the
\* reactor only after a batch that was filled, heated, held and cooled, unless somebody
\* wrote its registers (the sequencer of plc-program-gen.ts).
THEOREM BatchSafeAlways == Spec => []BatchSafe
<1>1. PanelInv => BatchSafe
  BY DEF PanelInv, BatchInv, Interlocked, Earned, BatchSafe
<1> QED
  BY <1>1, PanelsAlways, PTL

-----------------------------------------------------------------------------
(* The plan: references, ports and names.                                  *)

\* The devices whose turn has come before n.
Given(sc, n) ==
  {sc.devices[i].id : i \in {j \in DOMAIN sc.devices : j < n /\ sc.devices[j].category \notin CanvasOnly}}

\* A container is told the address its peer was given, or the one of the file when the
\* peer's turn comes later than its own.
RefOk(of, ref, given, resolved, sc) ==
  \/ ref[1] \in DOMAIN given /\ ref[2] = given[ref[1]]
  \/ /\ ref[1] \in Ids(sc) => ref[2] = resolved[ref[1]]
     /\ \E i \in DOMAIN sc.devices : sc.devices[i].id = of /\ ref[1] \notin Given(sc, i + 1)

RefInv ==
  /\ DOMAIN claimed = Given(lab, next)
  /\ \A x \in DOMAIN claimed : claimed[x] = <<Resolved[x][1], claimed[x][2]>>
  /\ \A s \in DOMAIN services : \A ref \in services[s].refs :
       RefOk(services[s].of, ref, claimed, Resolved, lab)

LEMMA GivenNext ==
  ASSUME NEW sc, WellMade(sc), NEW n \in DOMAIN sc.devices
  PROVE  /\ sc.devices[n].id \notin Given(sc, n)
         /\ sc.devices[n].category \notin CanvasOnly => Given(sc, n + 1) = Given(sc, n) \cup {sc.devices[n].id}
         /\ sc.devices[n].category \in CanvasOnly => Given(sc, n + 1) = Given(sc, n)
<1>1. n \in Nat /\ \A j \in DOMAIN sc.devices : j \in Nat
  BY DevicesAre
<1>2. \A j \in DOMAIN sc.devices : sc.devices[j].id = sc.devices[n].id => j = n
  BY DEF WellMade
<1>3. sc.devices[n].id \notin Given(sc, n)
  BY <1>1, <1>2 DEF Given
<1>4. \A j \in DOMAIN sc.devices : j < n + 1 <=> j < n \/ j = n
  BY <1>1
<1>5. \A j \in DOMAIN sc.devices : j < n => j # n
  BY <1>1
<1>6. CASE sc.devices[n].category \notin CanvasOnly
  BY <1>3, <1>4, <1>6 DEF Given
<1>7. CASE sc.devices[n].category \in CanvasOnly
  BY <1>3, <1>4, <1>7 DEF Given
<1> QED
  BY <1>3, <1>6, <1>7

LEMMA GivenFirst ==
  ASSUME NEW sc, WellMade(sc)
  PROVE  Given(sc, 1) = {}
<1>1. \A j \in DOMAIN sc.devices : ~(j < 1)
  BY DevicesAre
<1> QED
  BY <1>1 DEF Given

LEMMA RefTurn ==
  ASSUME WellMade(lab), RefInv, next \in DOMAIN lab.devices, next' = next + 1,
         lab.devices[next].category \notin CanvasOnly,
         lab' = lab, zones' = zones, NEW h, NEW auto, NEW sv, Turn(lab.devices[next], h, auto, sv)
  PROVE  RefInv'
<1>1. PICK d, name : d = lab.devices[next] /\ name = SafeName[d.id]
  OBVIOUS
<1>2. Resolved' = Resolved
  BY FileStays
<1>3. d.id \in Ids(lab) /\ Device(lab, d.id) = d
  BY <1>1, DeviceAt
<1>4. Resolved[d.id] = resolveDeviceIp(d)
  BY <1>3 DEF Resolved
<1>5. Given(lab, next + 1) = Given(lab, next) \cup {d.id} /\ d.id \notin Given(lab, next)
  BY <1>1, GivenNext
<1>6. Turn(d, h, auto, sv)
  BY <1>1
<1>7. /\ DOMAIN claimed' = DOMAIN claimed \cup {d.id} /\ claimed'[d.id] = <<resolveDeviceIp(d)[1], h>>
      /\ \A x \in DOMAIN claimed : claimed'[x] = claimed[x]
  <2>1. claimed' = Merge(claimed, [x \in {d.id} |-> <<resolveDeviceIp(d)[1], h>>])
    BY <1>6 DEF Turn
  <2>2. claimed' = [x \in DOMAIN claimed \cup {d.id} |->
                      IF x = d.id THEN <<resolveDeviceIp(d)[1], h>> ELSE claimed[x]]
    BY <2>1 DEF Merge
  <2>3. d.id \notin DOMAIN claimed
    BY <1>5 DEF RefInv
  <2> QED
    BY <2>2, <2>3
<1>8. /\ DOMAIN services' = DOMAIN services \cup {name} /\ services'[name] = sv
      /\ \A s \in DOMAIN services : s # name => services'[s] = services[s]
  <2>1. services' = Merge(services, [s \in {name} |-> sv])
    BY <1>1, <1>6 DEF Turn
  <2>2. services' = [s \in DOMAIN services \cup {name} |-> IF s = name THEN sv ELSE services[s]]
    BY <2>1 DEF Merge
  <2> QED
    BY <2>2
<1>9. ASSUME NEW ref \in sv.refs PROVE RefOk(sv.of, ref, claimed', Resolved, lab)
  <2>1. sv.of = d.id /\ sv.refs = {<<t, AddressOf(t, claimed')>> : t \in Targets(d)}
    <3> DEFINE told == {<<t, AddressOf(t, claimed')>> : t \in Targets(d)}
    <3>1. sv = [of |-> d.id,
                legs |-> Merge([z \in FixedZones(d) |-> FixedLeg(d, z, h)],
                               [z \in AutoZones(d) |-> <<zones[z], auto[z]>>]),
                ports |-> Published(d), routes |-> Routes(d), caps |-> CapAdd(d), refs |-> told]
      BY <1>6, Zenon DEF Turn
    <3> HIDE DEF told
    <3>2. sv.of = d.id /\ sv.refs = told
      BY <3>1
    <3> QED
      BY <3>2 DEF told
  <2>2. PICK t : ref = <<t, AddressOf(t, claimed')>>
    BY <2>1
  <2>3. CASE t \in DOMAIN claimed'
    BY <2>2, <2>3 DEF AddressOf, RefOk
  <2>4. CASE t \notin DOMAIN claimed'
    <3>1. t \notin Given(lab, next + 1)
      BY <1>5, <1>7, <2>4 DEF RefInv
    <3>2. t \in Ids(lab) => AddressOf(t, claimed') = Resolved[t]
      BY <2>4 DEF AddressOf, Resolved
    <3> QED
      BY <1>1, <2>1, <2>2, <3>1, <3>2 DEF RefOk
  <2> QED
    BY <2>3, <2>4
<1>10. ASSUME NEW s \in DOMAIN services, NEW ref \in services[s].refs
       PROVE  RefOk(services[s].of, ref, claimed', Resolved, lab)
  <2>1. RefOk(services[s].of, ref, claimed, Resolved, lab)
    BY DEF RefInv
  <2> QED
    BY <1>7, <2>1 DEF RefOk
<1>11. \A s \in DOMAIN services' : \A ref \in services'[s].refs :
          RefOk(services'[s].of, ref, claimed', Resolved', lab')
  BY <1>2, <1>8, <1>9, <1>10
<1>12. DOMAIN claimed' = Given(lab', next')
  BY <1>5, <1>7 DEF RefInv
<1>13. \A x \in DOMAIN claimed' : claimed'[x] = <<Resolved'[x][1], claimed'[x][2]>>
  BY <1>2, <1>4, <1>7 DEF RefInv
<1> QED
  BY <1>11, <1>12, <1>13 DEF RefInv

\* The host ports of the i-th device.
PortsAt(sc, i) ==
  CASE sc.devices[i].category \in Controllers -> {PLC_WEB_PORT_BASE + Count(sc, i, Controllers),
                                                  PLC_MODBUS_PORT_BASE + Count(sc, i, Controllers)}
    [] sc.devices[i].category = "process-unit" -> {PROC_MODBUS_PORT_BASE + Count(sc, i, Units)}
    [] sc.devices[i].category = "engineering-workstation" ->
         {WORKSTATION_NOVNC_PORT_BASE + Count(sc, i, Stations)}
    [] sc.devices[i].category = "attack-machine" -> {ATTACK_NOVNC_PORT_BASE + Count(sc, i, Attackers)}
    [] OTHER -> {}

LEMMA PublishedAt ==
  ASSUME NEW n \in DOMAIN lab.devices, TallyOk(tally, lab, n)
  PROVE  Published(lab.devices[n]) = PortsAt(lab, n)
<1>1. /\ Len(tally.plcs) = Count(lab, n, Controllers) /\ Len(tally.units) = Count(lab, n, Units)
      /\ Len(tally.stations) = Count(lab, n, Stations) /\ tally.attackers = Count(lab, n, Attackers)
  BY DEF TallyOk
<1>2. lab.devices[n].category \in Controllers =>
        lab.devices[n].category \notin {"process-unit", "engineering-workstation", "attack-machine"}
  BY DEF Controllers
<1> QED
  BY <1>1, <1>2 DEF Published, PortsAt

\* A service is that of a device whose turn has come, or a fixed one.
Made(sv, s, sc, n) ==
  \E i \in DOMAIN sc.devices : /\ i < n /\ sc.devices[i].category \notin CanvasOnly
                               /\ sv.of = sc.devices[i].id /\ s = SafeName[sv.of]
                               /\ sv.ports = PortsAt(sc, i)

ServiceFields == {"of", "legs", "ports", "routes", "caps", "refs"}

ServiceOk(sv, s, sc, n, done) ==
  /\ DOMAIN sv = ServiceFields /\ DOMAIN sv.legs \subseteq Nets
  /\ "monitoring" \in DOMAIN sv.legs => sv.legs["monitoring"][2] \in 1 .. 254
  /\ Made(sv, s, sc, n) \/ (sv.of = None /\ s \in FixedNames /\ done)

\* The service of a name is that of the device with this name.
NamedOk(s, sc, n, svs) ==
  \A i \in DOMAIN sc.devices :
    i < n /\ sc.devices[i].category \notin CanvasOnly /\ SafeName[sc.devices[i].id] = s =>
      s \in DOMAIN svs /\ svs[s].of = sc.devices[i].id

ServiceInv ==
  /\ \A s \in DOMAIN services : ServiceOk(services[s], s, lab, next, composed)
  /\ OneName => \A s : NamedOk(s, lab, next, services)

LEMMA ServiceTurn ==
  ASSUME WellMade(lab), ServiceInv, TallyOk(tally, lab, next), next \in DOMAIN lab.devices, next' = next + 1,
         lab.devices[next].category \notin CanvasOnly, UsedOk(used), composed' = composed,
         lab' = lab, zones' = zones, NEW h, NEW auto, NEW sv, Turn(lab.devices[next], h, auto, sv)
  PROVE  ServiceInv'
<1>1. PICK d, name : d = lab.devices[next] /\ name = SafeName[d.id]
  OBVIOUS
<1>2. Turn(d, h, auto, sv) /\ next \in Nat /\ \A i \in DOMAIN lab.devices : i \in Nat
  BY <1>1, DevicesAre
<1>3. /\ DOMAIN services' = DOMAIN services \cup {name} /\ services'[name] = sv
      /\ \A s \in DOMAIN services : s # name => services'[s] = services[s]
  <2>1. services' = Merge(services, [s \in {name} |-> sv])
    BY <1>1, <1>2 DEF Turn
  <2>2. services' = [s \in DOMAIN services \cup {name} |-> IF s = name THEN sv ELSE services[s]]
    BY <2>1 DEF Merge
  <2> QED
    BY <2>2
<1>4. sv.of = d.id /\ sv.ports = Published(d) /\ DOMAIN sv = ServiceFields
  BY <1>2 DEF Turn, ServiceFields
<1>5. DOMAIN sv.legs \subseteq Zones /\ "monitoring" \notin Zones
  <2>1. \A z \in DOMAIN sv.legs : z \in Zones
    BY <1>1, <1>2, TurnLegs
  <2> QED
    BY <2>1 DEF Zones
<1>6. ServiceOk(sv, name, lab, next + 1, composed)
  <2>1. Published(d) = PortsAt(lab, next)
    BY <1>1, PublishedAt
  <2>2. next < next + 1
    BY <1>2
  <2>3. Made(sv, name, lab, next + 1)
    BY <1>1, <1>4, <2>1, <2>2 DEF Made
  <2> QED
    BY <1>4, <1>5, <2>3 DEF ServiceOk, Nets
<1>7. ASSUME NEW s \in DOMAIN services PROVE ServiceOk(services[s], s, lab, next + 1, composed)
  <2>1. ServiceOk(services[s], s, lab, next, composed)
    BY DEF ServiceInv
  <2>2. \A i \in DOMAIN lab.devices : i < next => i < next + 1
    BY <1>2
  <2>3. Made(services[s], s, lab, next) => Made(services[s], s, lab, next + 1)
    BY <2>2 DEF Made
  <2> QED
    BY <2>1, <2>3 DEF ServiceOk
<1>8. ASSUME OneName, NEW s PROVE NamedOk(s, lab, next + 1, services')
  <2> SUFFICES ASSUME NEW i \in DOMAIN lab.devices, i < next + 1, lab.devices[i].category \notin CanvasOnly,
                      SafeName[lab.devices[i].id] = s
               PROVE  s \in DOMAIN services' /\ services'[s].of = lab.devices[i].id
    BY DEF NamedOk
  <2>1. i < next \/ i = next
    BY <1>2
  <2>2. CASE i = next
    BY <1>1, <1>3, <1>4, <2>2
  <2>3. CASE i < next
    <3>1. NamedOk(s, lab, next, services)
      BY <1>8 DEF ServiceInv
    <3>2. s \in DOMAIN services /\ services[s].of = lab.devices[i].id
      BY <2>3, <3>1 DEF NamedOk
    <3>3. lab.devices[i].id = d.id => i = next
      BY <1>1 DEF WellMade
    <3>4. lab.devices[i].id \in Ids(lab) /\ d.id \in Ids(lab)
      BY <1>1 DEF Ids
    <3>5. s # name
      BY <1>1, <1>2, <1>8, <2>3, <3>3, <3>4 DEF OneName
    <3> QED
      BY <1>3, <3>2, <3>5
  <2> QED
    BY <2>1, <2>2, <2>3
<1>9. \A s \in DOMAIN services' : ServiceOk(services'[s], s, lab', next', composed')
  BY <1>3, <1>6, <1>7
<1>10. OneName' => \A s : NamedOk(s, lab', next', services')
  <2>1. OneName' <=> OneName
    BY DEF OneName
  <2> QED
    BY <1>8, <2>1
<1> QED
  BY <1>9, <1>10 DEF ServiceInv

\* A device that stands for a fixed service is passed over.
LEMMA CanvasTurn ==
  ASSUME WellMade(lab), AddressInv, RefInv, ServiceInv, TallyOk(tally, lab, next), next \in DOMAIN lab.devices,
         next' = next + 1, lab.devices[next].category \in CanvasOnly, composed' = composed,
         lab' = lab, zones' = zones, UNCHANGED <<services, claimed, used, tally>>
  PROVE  AddressInv' /\ RefInv' /\ ServiceInv' /\ TallyOk(tally', lab', next')
<1>1. Kinds' = Kinds /\ Unknown' = Unknown /\ Resolved' = Resolved
  BY FileStays
<1>2. AddressInv'
  BY <1>1 DEF AddressInv
<1>3. Given(lab, next + 1) = Given(lab, next)
  BY GivenNext
<1>4. RefInv'
  BY <1>1, <1>3 DEF RefInv
<1>5. next \in Nat /\ \A i \in DOMAIN lab.devices : i \in Nat
  BY DevicesAre
<1>6. \A i \in DOMAIN lab.devices : i < next => i < next + 1
  BY <1>5
<1>7. \A s \in DOMAIN services : Made(services[s], s, lab, next) => Made(services[s], s, lab, next + 1)
  BY <1>6 DEF Made
<1>8. \A s \in DOMAIN services : ServiceOk(services[s], s, lab, next + 1, composed)
  BY <1>7 DEF ServiceInv, ServiceOk
<1>9. ASSUME OneName, NEW s PROVE NamedOk(s, lab, next + 1, services)
  <2>1. NamedOk(s, lab, next, services)
    BY <1>9 DEF ServiceInv
  <2>2. \A i \in DOMAIN lab.devices : i < next + 1 /\ lab.devices[i].category \notin CanvasOnly => i < next
    BY <1>5
  <2> QED
    BY <2>1, <2>2 DEF NamedOk
<1>10. ServiceInv'
  <2>1. OneName' <=> OneName
    BY DEF OneName
  <2> QED
    BY <1>8, <1>9, <2>1 DEF ServiceInv
<1>11. TallyOk(tally', lab', next')
  <2>1. /\ lab.devices[next].category \notin Controllers /\ lab.devices[next].category \notin Units
        /\ lab.devices[next].category \notin Stations /\ lab.devices[next].category \notin Attackers
    BY DEF CanvasOnly, Controllers, Units, Stations, Attackers
  <2>2. \A categories : Count(lab, next, categories) \in Nat
    BY EarlierFinite
  <2>3. /\ Count(lab, next + 1, Controllers) = Count(lab, next, Controllers)
        /\ Count(lab, next + 1, Units) = Count(lab, next, Units)
        /\ Count(lab, next + 1, Stations) = Count(lab, next, Stations)
        /\ Count(lab, next + 1, Attackers) = Count(lab, next, Attackers)
    BY <2>1, <2>2, CountNext
  <2> QED
    BY <2>3 DEF TallyOk
<1> QED
  BY <1>2, <1>4, <1>10, <1>11

-----------------------------------------------------------------------------
(* The plan: the monitoring legs and the fixed services.                   *)

\* The last entry that is s.
LastAt(list, s) == CHOOSE i \in DOMAIN list : list[i] = s /\ \A j \in i + 1 .. Len(list) : list[j] # s

LEMMA LastIs ==
  ASSUME NEW list, IsSeq(list), NEW s, \E i \in DOMAIN list : list[i] = s
  PROVE  LastAt(list, s) \in DOMAIN list
<1>1. DOMAIN list = 1 .. Len(list) /\ Len(list) \in Nat
  BY IsSeqIs
<1>2. PICK n : n = Len(list)
  OBVIOUS
<1> DEFINE K == {n - i : i \in {j \in DOMAIN list : list[j] = s}}
<1>3. K \subseteq Nat /\ K # {}
  BY <1>1, <1>2
<1>4. PICK h \in K : \A g \in K : h <= g
  <2> HIDE DEF K
  <2> QED
    BY <1>3, NatMin
<1>5. PICK i \in DOMAIN list : list[i] = s /\ h = n - i
  BY <1>4
<1>6. \A j \in i + 1 .. n : list[j] # s
  <2> SUFFICES ASSUME NEW j \in i + 1 .. n, list[j] = s PROVE FALSE
    OBVIOUS
  <2>1. i \in Nat /\ j \in DOMAIN list
    BY <1>1, <1>2
  <2>2. n - j \in K
    BY <2>1
  <2> QED
    BY <1>1, <1>2, <1>4, <1>5, <2>1, <2>2
<1> QED
  BY <1>2, <1>5, <1>6 DEF LastAt

LEMMA MonitorLegIs ==
  ASSUME WellMade(lab), NEW n, TallyOk(tally, lab, n), NEW s
  PROVE  /\ DOMAIN MonitorLeg(s) \subseteq {"monitoring"}
         /\ "monitoring" \in DOMAIN MonitorLeg(s) => MonitorLeg(s)["monitoring"][2] \in 1 .. 254
<1> DEFINE In(list) == \E i \in DOMAIN list : list[i] = s
           leg(list, from) == [z \in {"monitoring"} |-> <<MonitorBlock(zones), from - 1 + LastAt(list, s)>>]
<1>1. ASSUME NEW list, list \in {tally.stations, tally.units, tally.plcs}, In(list)
      PROVE  LastAt(list, s) \in 1 .. 100
  <2>1. /\ IsSeq(tally.stations) /\ Len(tally.stations) = Count(lab, n, Stations)
        /\ IsSeq(tally.units) /\ Len(tally.units) = Count(lab, n, Units)
        /\ IsSeq(tally.plcs) /\ Len(tally.plcs) = Count(lab, n, Controllers)
    BY DEF TallyOk
  <2>2. PICK most : most = Len(lab.devices)
    OBVIOUS
  <2>3. most \in Nat /\ most <= 100
    BY <2>2, DevicesAre
  <2>4. \A categories : Count(lab, n, categories) \in Nat /\ Count(lab, n, categories) <= most
    BY <2>2, EarlierFinite
  <2>5. PICK length : length = Len(list)
    OBVIOUS
  <2>6. IsSeq(list) /\ length \in Nat /\ length <= 100
    BY <1>1, <2>1, <2>3, <2>4, <2>5
  <2>7. DOMAIN list = 1 .. length
    BY <2>5, <2>6, IsSeqIs
  <2>8. LastAt(list, s) \in DOMAIN list
    BY <1>1, <2>6, LastIs
  <2>9. PICK k : k = LastAt(list, s)
    OBVIOUS
  <2>10. k \in 1 .. length
    BY <2>7, <2>8, <2>9
  <2>11. k \in 1 .. 100
    BY <2>6, <2>10
  <2> QED
    BY <2>9, <2>11
<1>2. \/ In(tally.stations) /\ MonitorLeg(s) = leg(tally.stations, 30)
      \/ In(tally.units) /\ MonitorLeg(s) = leg(tally.units, 20)
      \/ In(tally.plcs) /\ MonitorLeg(s) = leg(tally.plcs, 10)
      \/ MonitorLeg(s) = <<>>
  BY Zenon DEF MonitorLeg, LastAt
<1>3. \A list, from : /\ DOMAIN leg(list, from) = {"monitoring"}
                      /\ leg(list, from)["monitoring"][2] = from - 1 + LastAt(list, s)
  OBVIOUS
<1>4. DOMAIN <<>> = {}
  OBVIOUS
<1>5. ASSUME NEW list, list \in {tally.stations, tally.units, tally.plcs}, In(list), NEW from \in {10, 20, 30}
      PROVE  from - 1 + LastAt(list, s) \in 1 .. 254
  <2>1. LastAt(list, s) \in 1 .. 100
    BY <1>1, <1>5
  <2> QED
    BY <2>1
<1> HIDE DEF leg, In
<1>6. CASE \E list \in {tally.stations, tally.units, tally.plcs}, from \in {10, 20, 30} :
             In(list) /\ MonitorLeg(s) = leg(list, from)
  <2>1. PICK list \in {tally.stations, tally.units, tally.plcs}, from \in {10, 20, 30} :
           In(list) /\ MonitorLeg(s) = leg(list, from)
    BY <1>6
  <2> QED
    BY <1>3, <1>5, <2>1
<1>7. CASE MonitorLeg(s) = <<>>
  BY <1>4, <1>7
<1> QED
  BY <1>2, <1>6, <1>7

\* The services of the devices get a monitoring leg and the addresses of the
\* controllers, nothing else.
Extended(old, new, given) ==
  /\ DOMAIN new = DOMAIN old /\ new.of = old.of /\ new.ports = old.ports
  /\ DOMAIN old.legs \subseteq DOMAIN new.legs /\ DOMAIN new.legs \subseteq DOMAIN old.legs \cup {"monitoring"}
  /\ \A z \in DOMAIN old.legs : z # "monitoring" => new.legs[z] = old.legs[z]
  /\ "monitoring" \in DOMAIN new.legs =>
       new.legs["monitoring"][2] \in 1 .. 254
       \/ ("monitoring" \in DOMAIN old.legs /\ new.legs["monitoring"] = old.legs["monitoring"])
  /\ \A ref \in new.refs : ref \in old.refs \/ (ref[1] \in DOMAIN given /\ ref[2] = given[ref[1]])

LEMMA ServicesComposed ==
  ASSUME WellMade(lab), TallyOk(tally, lab, next), ComposeServices, ServiceInv
  PROVE  /\ DOMAIN services' = DOMAIN services \cup FixedNames
         /\ \A s \in FixedNames : services'[s] = FixedServices[s]
         /\ \A s \in DOMAIN services : s \notin FixedNames => Extended(services[s], services'[s], claimed)
<1> DEFINE given == [s \in DOMAIN services |->
                       [services[s] EXCEPT !.legs = Merge(@, MonitorLeg(s)), !.refs = @ \cup WebUis(s)]]
<1>1. services' = Merge(given, FixedServices)
  BY Zenon DEF ComposeServices
<1>2. DOMAIN FixedServices = FixedNames
  BY DEF FixedServices
<1>3. DOMAIN given = DOMAIN services
  OBVIOUS
<1>4. /\ DOMAIN services' = DOMAIN services \cup FixedNames
      /\ \A s \in FixedNames : services'[s] = FixedServices[s]
      /\ \A s \in DOMAIN services : s \notin FixedNames => services'[s] = given[s]
  <2> HIDE DEF given
  <2> QED
    BY <1>1, <1>2, <1>3 DEF Merge
<1>5. ASSUME NEW s \in DOMAIN services PROVE Extended(services[s], given[s], claimed)
  <2>1. PICK old, new, leg, told : /\ old = services[s] /\ new = given[s]
                                   /\ leg = MonitorLeg(s) /\ told = WebUis(s)
    OBVIOUS
  <2>2. new = [old EXCEPT !.legs = Merge(old.legs, leg), !.refs = old.refs \cup told]
    BY <2>1
  <2>3. DOMAIN old = ServiceFields
    BY <2>1 DEF ServiceInv, ServiceOk
  <2>4. /\ DOMAIN new = DOMAIN old /\ new.of = old.of /\ new.ports = old.ports
        /\ new.legs = Merge(old.legs, leg) /\ new.refs = old.refs \cup told
    BY <2>2, <2>3 DEF ServiceFields
  <2>5. DOMAIN leg \subseteq {"monitoring"} /\ ("monitoring" \in DOMAIN leg => leg["monitoring"][2] \in 1 .. 254)
    BY <2>1, MonitorLegIs
  <2>6. /\ DOMAIN new.legs = DOMAIN old.legs \cup DOMAIN leg
        /\ \A z \in DOMAIN new.legs : new.legs[z] = IF z \in DOMAIN leg THEN leg[z] ELSE old.legs[z]
    BY <2>4 DEF Merge
  <2>7. \A ref \in told : ref[1] \in DOMAIN claimed /\ ref[2] = claimed[ref[1]]
    BY <2>1 DEF WebUis
  <2>8. Extended(old, new, claimed)
    BY <2>4, <2>5, <2>6, <2>7 DEF Extended
  <2> QED
    BY <2>1, <2>8
<1> HIDE DEF given
<1> QED
  BY <1>4, <1>5

LEMMA FixedFields ==
  ASSUME NEW s \in FixedNames PROVE DOMAIN FixedServices[s] = ServiceFields
<1>1. \A legs, published : DOMAIN Fixed(legs, published) = ServiceFields
  BY DEF Fixed, ServiceFields
<1>2. \E legs, published : FixedServices[s] = Fixed(legs, published)
  BY DEF FixedServices, FixedNames
<1> QED
  BY <1>1, <1>2

LEMMA ComposedAddresses ==
  ASSUME WellMade(lab), TallyOk(tally, lab, next), ComposeServices, ServiceInv, AddressInv
  PROVE  AddressInv'
<1>1. lab' = lab /\ zones' = zones /\ used' = used
  BY DEF ComposeServices
<1>2. Kinds' = Kinds /\ Unknown' = Unknown
  BY <1>1, FileStays
<1>3. /\ DOMAIN services' = DOMAIN services \cup FixedNames
      /\ \A s \in FixedNames : services'[s] = FixedServices[s]
      /\ \A s \in DOMAIN services : s \notin FixedNames => Extended(services[s], services'[s], claimed)
  BY ServicesComposed
<1>4. "monitoring" \notin Zones
  BY DEF Zones
<1>5. ASSUME NEW s \in FixedNames, NEW z \in DOMAIN services'[s].legs \cap Zones
      PROVE  /\ LegOk(services'[s], z, used, zones, Kinds, Unknown) /\ services'[s].legs[z][2] >= LastHost
  <2>1. services'[s].legs[z][1] = zones[z] /\ \E k \in 0 .. 4 : services'[s].legs[z][2] = LastHost + k
    BY <1>3, FixedLegs, SMTT(30)
  <2>2. PICK k \in 0 .. 4 : services'[s].legs[z][2] = LastHost + k
    BY <2>1
  <2>3. LastHost + k \in reservedHosts /\ LastHost + k >= LastHost
    BY ReservedAre, HostsAssumption
  <2>4. LastHost + k \in used[z] /\ LastHost + k \in 1 .. 254
    BY <2>3, ReservedAre DEF AddressInv, UsedOk
  <2> QED
    BY <2>1, <2>2, <2>3, <2>4 DEF LegOk
<1>6. ASSUME NEW s \in DOMAIN services, s \notin FixedNames, NEW z \in DOMAIN services'[s].legs \cap Zones
      PROVE  z \in DOMAIN services[s].legs /\ services'[s].legs[z] = services[s].legs[z] /\ services'[s].of = services[s].of
  BY <1>3, <1>4, <1>6 DEF Extended
<1>7. ASSUME NEW s \in DOMAIN services' PROVE LegsOk(services'[s], used, zones, Kinds, Unknown)
  <2>1. CASE s \in FixedNames
    BY <1>5, <2>1 DEF LegsOk
  <2>2. CASE s \notin FixedNames
    <3>1. s \in DOMAIN services /\ LegsOk(services[s], used, zones, Kinds, Unknown)
      BY <1>3, <2>2 DEF AddressInv
    <3> SUFFICES ASSUME NEW z \in DOMAIN services'[s].legs \cap Zones
                 PROVE  LegOk(services'[s], z, used, zones, Kinds, Unknown)
      BY DEF LegsOk
    <3>2. z \in DOMAIN services[s].legs /\ services'[s].legs[z] = services[s].legs[z] /\ services'[s].of = services[s].of
      BY <1>6, <2>2, <3>1
    <3>3. LegOk(services[s], z, used, zones, Kinds, Unknown)
      BY <3>1, <3>2 DEF LegsOk
    <3> QED
      BY <3>2, <3>3 DEF LegOk, Excused
  <2> QED
    BY <2>1, <2>2
<1>8. ASSUME NEW s \in DOMAIN services', NEW t \in DOMAIN services', s # t
      PROVE  AllApart(services'[s], services'[t], Kinds)
  <2> SUFFICES ASSUME NEW z \in DOMAIN services'[s].legs \cap DOMAIN services'[t].legs \cap Zones,
                      services'[s].legs[z] = services'[t].legs[z]
               PROVE  \/ services'[s].legs[z][2] >= LastHost
                      \/ Excused(services'[s], z, Kinds) \/ Excused(services'[t], z, Kinds)
    BY DEF AllApart, Apart
  <2>1. CASE s \in FixedNames
    BY <1>5, <2>1
  <2>2. CASE t \in FixedNames
    BY <1>5, <2>2
  <2>3. CASE s \notin FixedNames /\ t \notin FixedNames
    <3>1. s \in DOMAIN services /\ t \in DOMAIN services
      BY <1>3, <2>3
    <3>2. z \in DOMAIN services[s].legs /\ services'[s].legs[z] = services[s].legs[z] /\ services'[s].of = services[s].of
      BY <1>6, <2>3, <3>1
    <3>3. z \in DOMAIN services[t].legs /\ services'[t].legs[z] = services[t].legs[z] /\ services'[t].of = services[t].of
      BY <1>6, <2>3, <3>1
    <3>4. Apart(services[s], services[t], z, Kinds)
      BY <1>8, <3>1, <3>2, <3>3 DEF AddressInv, AllApart
    <3> QED
      BY <3>2, <3>3, <3>4 DEF Apart, Excused
  <2> QED
    BY <2>1, <2>2, <2>3
<1> QED
  BY <1>1, <1>2, <1>7, <1>8 DEF AddressInv

LEMMA ComposedRefs ==
  ASSUME WellMade(lab), TallyOk(tally, lab, next), ComposeServices, ServiceInv, RefInv
  PROVE  RefInv'
<1>1. lab' = lab /\ zones' = zones /\ claimed' = claimed /\ next' = next
  BY DEF ComposeServices
<1>2. Resolved' = Resolved
  BY <1>1, FileStays
<1>3. /\ DOMAIN services' = DOMAIN services \cup FixedNames
      /\ \A s \in FixedNames : services'[s] = FixedServices[s]
      /\ \A s \in DOMAIN services : s \notin FixedNames => Extended(services[s], services'[s], claimed)
  BY ServicesComposed
<1>4. ASSUME NEW s \in DOMAIN services', NEW ref \in services'[s].refs
      PROVE  RefOk(services'[s].of, ref, claimed, Resolved, lab)
  <2>1. CASE s \in FixedNames
    BY <1>3, <2>1, FixedLegs
  <2>2. CASE s \notin FixedNames
    <3>1. s \in DOMAIN services /\ services'[s].of = services[s].of
      BY <1>3, <2>2 DEF Extended
    <3>2. ref \in services[s].refs \/ (ref[1] \in DOMAIN claimed /\ ref[2] = claimed[ref[1]])
      BY <1>3, <2>2, <3>1 DEF Extended
    <3>3. ref \in services[s].refs => RefOk(services[s].of, ref, claimed, Resolved, lab)
      BY <3>1 DEF RefInv
    <3> QED
      BY <3>1, <3>2, <3>3 DEF RefOk
  <2> QED
    BY <2>1, <2>2
<1> QED
  BY <1>1, <1>2, <1>4 DEF RefInv

LEMMA ComposedServices ==
  ASSUME WellMade(lab), TallyOk(tally, lab, next), ComposeServices, ServiceInv
  PROVE  ServiceInv'
<1>1. lab' = lab /\ next' = next /\ composed' = TRUE
  BY DEF ComposeServices
<1>2. /\ DOMAIN services' = DOMAIN services \cup FixedNames
      /\ \A s \in FixedNames : services'[s] = FixedServices[s]
      /\ \A s \in DOMAIN services : s \notin FixedNames => Extended(services[s], services'[s], claimed)
  BY ServicesComposed
<1>3. ASSUME NEW s \in DOMAIN services' PROVE ServiceOk(services'[s], s, lab, next, TRUE)
  <2>1. CASE s \in FixedNames
    <3>1. PICK sv : sv = services'[s]
      OBVIOUS
    <3>2. /\ sv.of = None /\ DOMAIN sv = ServiceFields /\ DOMAIN sv.legs \subseteq Zones \cup {"monitoring"}
          /\ "monitoring" \in DOMAIN sv.legs => sv.legs["monitoring"][2] \in 1 .. 254
      BY <1>2, <2>1, <3>1, FixedLegs, FixedFields
    <3> QED
      BY <2>1, <3>1, <3>2 DEF ServiceOk, Nets
  <2>2. CASE s \notin FixedNames
    <3>1. PICK old, new : old = services[s] /\ new = services'[s]
      OBVIOUS
    <3>2. ServiceOk(old, s, lab, next, composed) /\ Extended(old, new, claimed)
      BY <1>2, <2>2, <3>1 DEF ServiceInv
    <3>3. Made(old, s, lab, next) /\ DOMAIN old = ServiceFields /\ DOMAIN old.legs \subseteq Nets
      BY <2>2, <3>2 DEF ServiceOk
    <3>4. new.of = old.of /\ new.ports = old.ports /\ DOMAIN new = DOMAIN old
          /\ DOMAIN new.legs \subseteq DOMAIN old.legs \cup {"monitoring"}
      BY <3>2 DEF Extended
    <3>5. Made(new, s, lab, next)
      BY <3>3, <3>4 DEF Made
    <3>6. "monitoring" \in DOMAIN new.legs => new.legs["monitoring"][2] \in 1 .. 254
      BY <3>2 DEF Extended, ServiceOk
    <3>7. ServiceOk(new, s, lab, next, TRUE)
      BY <3>3, <3>4, <3>5, <3>6 DEF ServiceOk, Nets
    <3> QED
      BY <3>1, <3>7
  <2> QED
    BY <2>1, <2>2
<1>4. ASSUME OneName, NEW s PROVE NamedOk(s, lab, next, services')
  <2> SUFFICES ASSUME NEW i \in DOMAIN lab.devices, i < next, lab.devices[i].category \notin CanvasOnly,
                      SafeName[lab.devices[i].id] = s
               PROVE  s \in DOMAIN services' /\ services'[s].of = lab.devices[i].id
    BY DEF NamedOk
  <2>1. NamedOk(s, lab, next, services)
    BY <1>4 DEF ServiceInv
  <2>2. s \in DOMAIN services /\ services[s].of = lab.devices[i].id
    BY <2>1 DEF NamedOk
  <2>3. s \notin FixedNames
    BY <1>4 DEF OneName, Ids
  <2> QED
    BY <1>2, <2>2, <2>3 DEF Extended
<1>5. OneName' <=> OneName
  BY <1>1 DEF OneName
<1>6. \A s \in DOMAIN services' : ServiceOk(services'[s], s, lab', next', composed')
  BY <1>1, <1>3
<1>7. OneName' => \A s : NamedOk(s, lab', next', services')
  BY <1>1, <1>4, <1>5
<1> QED
  BY <1>6, <1>7 DEF ServiceInv

-----------------------------------------------------------------------------
(* The plan in the life of a lab.                                          *)

PlanInv ==
  lab # None =>
    /\ AddressInv /\ RefInv /\ ServiceInv /\ TallyOk(tally, lab, next)
    /\ ports = activePorts(lab)

LEMMA PlanStart ==
  ASSUME LabInv, Start
  PROVE  PlanInv'
<1>1. /\ WellMade(lab') /\ next' = 1 /\ services' = <<>> /\ claimed' = <<>>
      /\ used' = [z \in Zones |-> reservedHosts] /\ tally' = NoTally /\ ports' = activePorts(lab')
  BY LabStart
<1>2. DOMAIN services' = {} /\ DOMAIN claimed' = {}
  BY <1>1
<1>3. UsedOk(used')
  BY <1>1, ReservedAre DEF UsedOk
<1>4. AddressInv'
  BY <1>2, <1>3 DEF AddressInv
<1>5. TallyOk(tally', lab', next')
  BY <1>1, TallyNone
<1>6. Given(lab', next') = {}
  BY <1>1, GivenFirst
<1>7. RefInv'
  BY <1>2, <1>6 DEF RefInv
<1>8. \A i \in DOMAIN lab'.devices : ~(i < 1)
  BY <1>1, DevicesAre
<1>9. \A s : NamedOk(s, lab', next', services')
  BY <1>1, <1>8 DEF NamedOk
<1>10. ServiceInv'
  BY <1>2, <1>9 DEF ServiceInv
<1> QED
  BY <1>1, <1>4, <1>5, <1>7, <1>10 DEF PlanInv

LEMMA PlanTurn ==
  ASSUME LabInv, PlanInv, ComposeDevice
  PROVE  PlanInv'
<1>1. /\ lab # None /\ next \in DOMAIN lab.devices /\ next' = next + 1
      /\ lab' = lab /\ zones' = zones /\ ports' = ports /\ composed' = composed /\ up' = up
  BY DEF ComposeDevice
<1>2. /\ WellMade(lab) /\ AddressInv /\ RefInv /\ ServiceInv /\ TallyOk(tally, lab, next)
      /\ ports = activePorts(lab)
  BY <1>1 DEF LabInv, PlanInv
<1>3. CASE lab.devices[next].category \in CanvasOnly
  <2>1. UNCHANGED <<services, claimed, used, tally>>
    BY <1>3 DEF ComposeDevice
  <2>2. AddressInv' /\ RefInv' /\ ServiceInv' /\ TallyOk(tally', lab', next')
    BY <1>1, <1>2, <1>3, <2>1, CanvasTurn
  <2> QED
    BY <1>1, <1>2, <2>2 DEF PlanInv
<1>4. CASE lab.devices[next].category \notin CanvasOnly
  <2>1. PICK h, auto, sv : Turn(lab.devices[next], h, auto, sv)
    BY <1>4, TurnIs
  <2>2. AddressInv'
    BY <1>1, <1>2, <2>1, AddressTurn
  <2>3. RefInv'
    BY <1>1, <1>2, <1>4, <2>1, RefTurn
  <2>4. UsedOk(used)
    BY <1>2 DEF AddressInv
  <2>5. ServiceInv'
    BY <1>1, <1>2, <1>4, <2>1, <2>4, ServiceTurn
  <2>6. tally' = Counted(lab.devices[next])
    BY <2>1 DEF Turn
  <2>7. TallyOk(tally', lab', next')
    BY <1>1, <1>2, <2>6, TallyNext
  <2> QED
    BY <1>1, <1>2, <2>2, <2>3, <2>5, <2>7 DEF PlanInv
<1> QED
  BY <1>3, <1>4

LEMMA PlanComposed ==
  ASSUME LabInv, PlanInv, ComposeServices
  PROVE  PlanInv'
<1>1. /\ lab # None /\ lab' = lab /\ next' = next /\ tally' = tally /\ ports' = ports
  BY DEF ComposeServices
<1>2. /\ WellMade(lab) /\ AddressInv /\ RefInv /\ ServiceInv /\ TallyOk(tally, lab, next)
      /\ ports = activePorts(lab)
  BY <1>1 DEF LabInv, PlanInv
<1>3. AddressInv'
  BY <1>2, ComposedAddresses
<1>4. RefInv'
  BY <1>2, ComposedRefs
<1>5. ServiceInv'
  BY <1>2, ComposedServices
<1> QED
  BY <1>1, <1>2, <1>3, <1>4, <1>5 DEF PlanInv

\* The file stays as it is while its lab runs.
LEMMA PlanIdle ==
  ASSUME PlanInv, UNCHANGED <<lab, zones, next, services, claimed, used, tally, ports, composed>>
  PROVE  PlanInv'
<1>1. Kinds' = Kinds /\ Unknown' = Unknown /\ Resolved' = Resolved
  BY FileStays
<1>2. AddressInv => AddressInv'
  BY <1>1 DEF AddressInv
<1>3. RefInv => RefInv'
  BY <1>1 DEF RefInv
<1>4. ServiceInv => ServiceInv'
  <2>1. OneName' <=> OneName
    BY DEF OneName
  <2> QED
    BY <2>1 DEF ServiceInv
<1> QED
  BY <1>2, <1>3, <1>4 DEF PlanInv

LEMMA PlanKept ==
  ASSUME LabInv, PlanInv, [Next]_vars
  PROVE  PlanInv'
<1>1. CASE Start
  BY <1>1, PlanStart
<1>2. CASE ComposeDevice
  BY <1>2, PlanTurn
<1>3. CASE ComposeServices
  BY <1>3, PlanComposed
<1>4. CASE StartFails \/ LabDown
  BY <1>4 DEF StartFails, LabDown, StopLab, ForgetFile, PlanInv
<1>5. CASE LabUp \/ Working \/ UNCHANGED vars
  <2>1. UNCHANGED <<lab, zones, next, services, claimed, used, tally, ports, composed>>
    BY <1>5, WorkingPlan DEF LabUp, ContainersUp, vars, planVars
  <2> QED
    BY <2>1, PlanIdle
<1> QED
  BY <1>1, <1>2, <1>3, <1>4, <1>5 DEF Next, Planning

LEMMA PlanAlways == Spec => [](LabInv /\ PlanInv)
<1>1. Init => LabInv /\ PlanInv
  <2>1. Init => lab = None
    BY DEF Init, PlanInit
  <2> QED
    BY <2>1, LabInit DEF PlanInv
<1>2. LabInv /\ PlanInv /\ [Next]_vars => LabInv' /\ PlanInv'
  BY LabStep, PlanKept
<1> QED
  BY <1>1, <1>2, PTL DEF Spec

\* The device a service is of.
LEMMA OwnerIs ==
  ASSUME ServiceInv, NEW s \in DOMAIN services, services[s].of # None
  PROVE  /\ services[s].of \in Ids(lab) /\ s = SafeName[services[s].of]
         /\ Made(services[s], s, lab, next)
<1>1. Made(services[s], s, lab, next)
  BY DEF ServiceInv, ServiceOk
<1> QED
  BY <1>1 DEF Made, Ids

LEMMA AddressesFollow ==
  ASSUME AddressInv, ServiceInv
  PROVE  AddressesOnce /\ LegsResolved
<1>1. ASSUME NEW s \in DOMAIN services, NEW z, Excused(services[s], z, Kinds)
      PROVE  z = "attacker" /\ Category(s) = "attack-machine"
  <2>1. services[s].of \in Ids(lab) /\ services[s].of # None
    BY <1>1, OwnerIs DEF Excused
  <2> QED
    BY <1>1, <2>1 DEF Excused, Kinds, Category
<1>2. AddressesOnce
  <2> SUFFICES ASSUME NEW s \in DOMAIN services, NEW t \in DOMAIN services, s # t,
                      NEW z \in DOMAIN services[s].legs \cap DOMAIN services[t].legs \cap Zones,
                      services[s].legs[z] = services[t].legs[z]
               PROVE  \/ services[s].legs[z][2] >= LastHost
                      \/ z = "attacker" /\ "attack-machine" \in {Category(s), Category(t)}
    BY DEF AddressesOnce
  <2>1. Apart(services[s], services[t], z, Kinds)
    BY DEF AddressInv, AllApart
  <2> QED
    BY <1>1, <2>1 DEF Apart
<1>3. LegsResolved
  <2> SUFFICES ASSUME NEW s \in DOMAIN services, NEW z \in DOMAIN services[s].legs \cap Zones,
                      services[s].legs[z][1] # zones[z]
               PROVE  /\ services[s].of # None
                      /\ \/ ZoneOfBlock(Device(lab, services[s].of).ip[1]) = None
                         \/ Device(lab, services[s].of).category = "attack-machine" /\ z = "attacker"
    BY DEF LegsResolved
  <2>1. LegOk(services[s], z, used, zones, Kinds, Unknown)
    BY DEF AddressInv, LegsOk
  <2>2. services[s].of # None /\ (services[s].of \in Unknown \/ Excused(services[s], z, Kinds))
    BY <2>1 DEF LegOk
  <2>3. CASE services[s].of \in Unknown
    BY <2>2, <2>3 DEF Unknown
  <2>4. CASE Excused(services[s], z, Kinds)
    <3>1. z = "attacker" /\ Category(s) = "attack-machine"
      BY <1>1, <2>4
    <3> QED
      BY <2>2, <3>1 DEF Category
  <2> QED
    BY <2>2, <2>3, <2>4
<1> QED
  BY <1>2, <1>3

LEMMA RefsFollow ==
  ASSUME LabInv, WellMade(lab), RefInv
  PROVE  RefsTrue
<1> SUFFICES ASSUME composed, NEW s \in DOMAIN services, NEW ref \in services[s].refs,
                    ref[1] \in DOMAIN claimed, ref[2] # claimed[ref[1]]
             PROVE  /\ InFileOrder(services[s].of, ref[1])
                    /\ Device(lab, ref[1]).ip[2] # claimed[ref[1]][2]
  BY DEF RefsTrue
<1>1. RefOk(services[s].of, ref, claimed, Resolved, lab)
  BY DEF RefInv
<1>2. ref[1] \in Ids(lab) => ref[2] = Resolved[ref[1]]
  BY <1>1 DEF RefOk
<1>3. PICK i \in DOMAIN lab.devices : lab.devices[i].id = services[s].of /\ ref[1] \notin Given(lab, i + 1)
  BY <1>1 DEF RefOk
<1>4. ref[1] \in Given(lab, next)
  BY DEF RefInv
<1>5. PICK j \in DOMAIN lab.devices : /\ lab.devices[j].category \notin CanvasOnly
                                      /\ lab.devices[j].id = ref[1]
  BY <1>4 DEF Given
<1>6. i \in Nat /\ j \in Nat
  BY DevicesAre
<1>7. ~(j < i + 1)
  BY <1>3, <1>5 DEF Given
<1>8. i < j
  BY <1>6, <1>7
<1>9. InFileOrder(services[s].of, ref[1])
  BY <1>3, <1>5, <1>8 DEF InFileOrder
<1>10. ref[1] \in Ids(lab) /\ Device(lab, ref[1]) = lab.devices[j]
  BY <1>5, DeviceAt
<1>11. PICK d : d = Device(lab, ref[1])
  OBVIOUS
<1>12. d.ip = <<d.ip[1], d.ip[2]>>
  BY <1>10, <1>11 DEF WellMade
<1>13. Resolved[ref[1]] = resolveDeviceIp(d)
  BY <1>10, <1>11 DEF Resolved
<1>14. resolveDeviceIp(d) = <<resolveDeviceIp(d)[1], d.ip[2]>>
  BY <1>12 DEF resolveDeviceIp
<1>15. claimed[ref[1]] = <<Resolved[ref[1]][1], claimed[ref[1]][2]>>
  BY DEF RefInv
<1>16. Device(lab, ref[1]).ip[2] # claimed[ref[1]][2]
  BY <1>2, <1>10, <1>11, <1>13, <1>14, <1>15
<1> QED
  BY <1>9, <1>16

\* No two containers are given one address, every leg lies in the network of its zone,
\* and what a container is told of a peer's address is true, or else its peer comes
\* later in the file and was moved to another host (claimIp, resolveDeviceIp and the
\* device loop of generateCompose, compose-generator.ts).
THEOREM PlanSoundAlways == Spec => []PlanSound
<1>1. LabInv /\ PlanInv => PlanSound
  <2> SUFFICES ASSUME LabInv, PlanInv PROVE PlanSound
    OBVIOUS
  <2>1. CASE lab = None
    <3>1. DOMAIN services = {} /\ ~composed
      BY <2>1 DEF LabInv
    <3> QED
      BY <3>1 DEF PlanSound, AddressesSound, AddressesOnce, LegsResolved, RefsTrue
  <2>2. CASE lab # None
    <3>1. WellMade(lab) /\ AddressInv /\ ServiceInv /\ RefInv
      BY <2>2 DEF LabInv, PlanInv
    <3>2. AddressesOnce /\ LegsResolved
      BY <3>1, AddressesFollow
    <3>3. RefsTrue
      BY <3>1, RefsFollow
    <3> QED
      BY <3>2, <3>3 DEF PlanSound, AddressesSound
  <2> QED
    BY <2>1, <2>2
<1> QED
  BY <1>1, PlanAlways, PTL

-----------------------------------------------------------------------------
(* Host ports.                                                             *)

LEMMA PlcPortIs ==
  ASSUME WellMade(lab), ports = activePorts(lab), NEW x \in DOMAIN ports.plcModbus
  PROVE  /\ x \in DOMAIN ports.plcWeb
         /\ \E i \in DOMAIN lab.devices :
              /\ lab.devices[i].id = x /\ lab.devices[i].category \in Plcs
              /\ ports.plcWeb[x] = PLC_WEB_PORT_BASE + Count(lab, i, Plcs)
              /\ ports.plcModbus[x] = PLC_MODBUS_PORT_BASE + Count(lab, i, Plcs)
<1>1. PICK S : S = {y \in Ids(lab) : IsA(lab, y, Plcs)}
  OBVIOUS
<1>2. /\ ports.plcModbus = [y \in S |-> PLC_MODBUS_PORT_BASE + Before(lab, y, Plcs)]
      /\ ports.plcWeb = [y \in S |-> PLC_WEB_PORT_BASE + Before(lab, y, Plcs)]
  BY <1>1 DEF activePorts, Plcs
<1>3. x \in Ids(lab) /\ IsA(lab, x, Plcs)
  BY <1>1, <1>2
<1>4. PICK i \in DOMAIN lab.devices : lab.devices[i].id = x
  BY <1>3 DEF Ids
<1>5. Device(lab, x) = lab.devices[i]
  BY <1>4, DeviceAt
<1>6. Before(lab, x, Plcs) = Count(lab, i, Plcs)
  BY <1>4, BeforeIs
<1> QED
  BY <1>2, <1>3, <1>4, <1>5, <1>6 DEF IsA

LEMMA WebPortIs ==
  ASSUME WellMade(lab), ports = activePorts(lab)
  PROVE  DOMAIN ports.plcWeb = DOMAIN ports.plcModbus
BY DEF activePorts

LEMMA DesktopPortIs ==
  ASSUME WellMade(lab), ports = activePorts(lab), NEW x
  PROVE  /\ x \in DOMAIN ports.attack => \E i \in DOMAIN lab.devices :
              /\ lab.devices[i].id = x /\ lab.devices[i].category = "attack-machine"
              /\ ports.attack[x] = ATTACK_NOVNC_PORT_BASE + Count(lab, i, Attackers)
         /\ x \in DOMAIN ports.station => \E i \in DOMAIN lab.devices :
              /\ lab.devices[i].id = x /\ lab.devices[i].category = "engineering-workstation"
              /\ ports.station[x] = WORKSTATION_NOVNC_PORT_BASE + Count(lab, i, Stations)
<1>1. ASSUME x \in DOMAIN ports.attack
      PROVE  \E i \in DOMAIN lab.devices :
               /\ lab.devices[i].id = x /\ lab.devices[i].category = "attack-machine"
               /\ ports.attack[x] = ATTACK_NOVNC_PORT_BASE + Count(lab, i, Attackers)
  <2>1. PICK S : S = {y \in Ids(lab) : IsA(lab, y, Attackers)}
    OBVIOUS
  <2>2. ports.attack = [y \in S |-> ATTACK_NOVNC_PORT_BASE + Before(lab, y, Attackers)]
    BY <2>1 DEF activePorts, Attackers
  <2>3. x \in Ids(lab) /\ IsA(lab, x, Attackers)
    BY <1>1, <2>1, <2>2
  <2>4. PICK i \in DOMAIN lab.devices : lab.devices[i].id = x
    BY <2>3 DEF Ids
  <2>5. Device(lab, x) = lab.devices[i] /\ Before(lab, x, Attackers) = Count(lab, i, Attackers)
    BY <2>4, DeviceAt, BeforeIs
  <2> QED
    BY <1>1, <2>1, <2>2, <2>3, <2>4, <2>5 DEF IsA, Attackers
<1>2. ASSUME x \in DOMAIN ports.station
      PROVE  \E i \in DOMAIN lab.devices :
               /\ lab.devices[i].id = x /\ lab.devices[i].category = "engineering-workstation"
               /\ ports.station[x] = WORKSTATION_NOVNC_PORT_BASE + Count(lab, i, Stations)
  <2>1. PICK S : S = {y \in Ids(lab) : IsA(lab, y, Stations)}
    OBVIOUS
  <2>2. ports.station = [y \in S |-> WORKSTATION_NOVNC_PORT_BASE + Before(lab, y, Stations)]
    BY <2>1 DEF activePorts, Stations
  <2>3. x \in Ids(lab) /\ IsA(lab, x, Stations)
    BY <1>2, <2>1, <2>2
  <2>4. PICK i \in DOMAIN lab.devices : lab.devices[i].id = x
    BY <2>3 DEF Ids
  <2>5. Device(lab, x) = lab.devices[i] /\ Before(lab, x, Stations) = Count(lab, i, Stations)
    BY <2>4, DeviceAt, BeforeIs
  <2> QED
    BY <1>2, <2>1, <2>2, <2>3, <2>4, <2>5 DEF IsA, Stations
<1> QED
  BY <1>1, <1>2

\* The two loops count alike unless a batch controller comes first.
LEMMA BatchBefore ==
  ASSUME NEW sc, NEW i, Count(sc, i, Plcs) # Count(sc, i, Controllers)
  PROVE  \E j \in DOMAIN sc.devices : j < i /\ sc.devices[j].category = "batch-controller"
<1> SUFFICES ASSUME \A j \in DOMAIN sc.devices : j < i => sc.devices[j].category # "batch-controller"
             PROVE  FALSE
  OBVIOUS
<1>1. Earlier(sc, i, Plcs) = Earlier(sc, i, Controllers)
  BY DEF Earlier, Plcs, Controllers
<1> QED
  BY <1>1 DEF Count

LEMMA BatchPrecedes ==
  ASSUME WellMade(lab), NEW i \in DOMAIN lab.devices, Count(lab, i, Plcs) # Count(lab, i, Controllers)
  PROVE  \E b \in Ids(lab) : IsA(lab, b, {"batch-controller"}) /\ InFileOrder(b, lab.devices[i].id)
<1>1. PICK j \in DOMAIN lab.devices : j < i /\ lab.devices[j].category = "batch-controller"
  BY BatchBefore
<1>2. lab.devices[j].id \in Ids(lab) /\ Device(lab, lab.devices[j].id) = lab.devices[j]
  BY DeviceAt
<1> QED
  BY <1>1, <1>2 DEF IsA, InFileOrder

\* The service of a device publishes the ports of its place in the file.
LEMMA NamedPorts ==
  ASSUME LabInv, WellMade(lab), ServiceInv, OneName, composed, NEW i \in DOMAIN lab.devices,
         lab.devices[i].category \notin CanvasOnly
  PROVE  services[SafeName[lab.devices[i].id]].ports = PortsAt(lab, i)
<1>1. PICK s : s = SafeName[lab.devices[i].id]
  OBVIOUS
<1>2. i < next
  <2>1. DOMAIN lab.devices = 1 .. Len(lab.devices) /\ Len(lab.devices) \in Nat
    BY DevicesAre
  <2>2. next = Len(lab.devices) + 1
    BY DEF LabInv
  <2> QED
    BY <2>1, <2>2
<1>3. s \in DOMAIN services /\ services[s].of = lab.devices[i].id
  <2>1. NamedOk(s, lab, next, services)
    BY DEF ServiceInv
  <2> QED
    BY <1>1, <1>2, <2>1 DEF NamedOk
<1>4. lab.devices[i].id # None
  BY DEF WellMade
<1>5. Made(services[s], s, lab, next)
  BY <1>3, <1>4, OwnerIs
<1>6. PICK j \in DOMAIN lab.devices : services[s].of = lab.devices[j].id /\ services[s].ports = PortsAt(lab, j)
  BY <1>5 DEF Made
<1>7. i = j
  BY <1>3, <1>6 DEF WellMade
<1> QED
  BY <1>1, <1>6, <1>7

LEMMA PortsFollow ==
  ASSUME LabInv, PlanInv
  PROVE  PortsReach
<1> SUFFICES ASSUME composed, OneName
             PROVE  /\ \A x \in DOMAIN ports.plcModbus :
                         \/ Reaches(x, ports.plcModbus[x]) /\ Reaches(x, ports.plcWeb[x])
                         \/ \E b \in Ids(lab) : IsA(lab, b, {"batch-controller"}) /\ InFileOrder(b, x)
                    /\ \A x \in DOMAIN ports.attack : Reaches(x, ports.attack[x])
                    /\ \A x \in DOMAIN ports.station : Reaches(x, ports.station[x])
  BY DEF PortsReach
<1>1. lab # None
  BY DEF LabInv
<1>2. WellMade(lab) /\ ServiceInv /\ ports = activePorts(lab)
  BY <1>1 DEF LabInv, PlanInv
<1>3. ASSUME NEW x \in DOMAIN ports.plcModbus
      PROVE  \/ Reaches(x, ports.plcModbus[x]) /\ Reaches(x, ports.plcWeb[x])
             \/ \E b \in Ids(lab) : IsA(lab, b, {"batch-controller"}) /\ InFileOrder(b, x)
  <2>1. PICK i \in DOMAIN lab.devices :
              /\ lab.devices[i].id = x /\ lab.devices[i].category \in Plcs
              /\ ports.plcWeb[x] = PLC_WEB_PORT_BASE + Count(lab, i, Plcs)
              /\ ports.plcModbus[x] = PLC_MODBUS_PORT_BASE + Count(lab, i, Plcs)
    BY <1>2, PlcPortIs
  <2>2. CASE Count(lab, i, Plcs) # Count(lab, i, Controllers)
    BY <1>2, <2>1, <2>2, BatchPrecedes
  <2>3. CASE Count(lab, i, Plcs) = Count(lab, i, Controllers)
    <3>1. lab.devices[i].category \in Controllers /\ lab.devices[i].category \notin CanvasOnly
      BY <2>1 DEF Plcs, Controllers, CanvasOnly
    <3>2. services[SafeName[x]].ports = PortsAt(lab, i)
      BY <1>2, <2>1, <3>1, NamedPorts
    <3>3. PortsAt(lab, i) = {PLC_WEB_PORT_BASE + Count(lab, i, Controllers),
                             PLC_MODBUS_PORT_BASE + Count(lab, i, Controllers)}
      BY <3>1 DEF PortsAt, Controllers
    <3> QED
      BY <2>1, <2>3, <3>2, <3>3 DEF Reaches
  <2> QED
    BY <2>2, <2>3
<1>4. ASSUME NEW x \in DOMAIN ports.attack PROVE Reaches(x, ports.attack[x])
  <2>1. PICK i \in DOMAIN lab.devices :
              /\ lab.devices[i].id = x /\ lab.devices[i].category = "attack-machine"
              /\ ports.attack[x] = ATTACK_NOVNC_PORT_BASE + Count(lab, i, Attackers)
    BY <1>2, DesktopPortIs
  <2>2. services[SafeName[x]].ports = PortsAt(lab, i)
    BY <1>2, <2>1, NamedPorts DEF CanvasOnly
  <2>3. PortsAt(lab, i) = {ATTACK_NOVNC_PORT_BASE + Count(lab, i, Attackers)}
    BY <2>1 DEF PortsAt, Controllers
  <2> QED
    BY <2>1, <2>2, <2>3 DEF Reaches
<1>5. ASSUME NEW x \in DOMAIN ports.station PROVE Reaches(x, ports.station[x])
  <2>1. PICK i \in DOMAIN lab.devices :
              /\ lab.devices[i].id = x /\ lab.devices[i].category = "engineering-workstation"
              /\ ports.station[x] = WORKSTATION_NOVNC_PORT_BASE + Count(lab, i, Stations)
    BY <1>2, DesktopPortIs
  <2>2. services[SafeName[x]].ports = PortsAt(lab, i)
    BY <1>2, <2>1, NamedPorts DEF CanvasOnly
  <2>3. PortsAt(lab, i) = {WORKSTATION_NOVNC_PORT_BASE + Count(lab, i, Stations)}
    BY <2>1 DEF PortsAt, Controllers
  <2> QED
    BY <2>1, <2>2, <2>3 DEF Reaches
<1> QED
  BY <1>3, <1>4, <1>5

-----------------------------------------------------------------------------
(* The pipes: the controllers that run and the last command that landed.   *)

LandInv ==
  /\ \A s \in DOMAIN coils : up /\ s \in DOMAIN services /\ Category(s) \in Controllers
  /\ landed # None =>
       /\ up /\ landed.named \in DOMAIN ports.plcModbus /\ landed.reached \in DOMAIN services
       /\ Category(landed.reached) \in Controllers
       /\ ports.plcModbus[landed.named] \in services[landed.reached].ports

LEMMA LandIdle ==
  ASSUME LandInv, UNCHANGED planVars, landed' = landed, DOMAIN coils' = DOMAIN coils
  PROVE  LandInv'
<1>1. UNCHANGED <<lab, services, ports, up>>
  BY DEF planVars
<1>2. \A s : Category(s)' = Category(s)
  BY <1>1 DEF Category, Device
<1>3. \A s \in DOMAIN coils' : up' /\ s \in DOMAIN services' /\ Category(s)' \in Controllers
  BY <1>1, <1>2 DEF LandInv
<1>4. ASSUME landed' # None
      PROVE  /\ up' /\ landed'.named \in DOMAIN ports'.plcModbus /\ landed'.reached \in DOMAIN services'
             /\ Category(landed.reached)' \in Controllers
             /\ ports'.plcModbus[landed'.named] \in services'[landed'.reached].ports
  BY <1>1, <1>2, <1>4 DEF LandInv
<1> QED
  BY <1>1, <1>3, <1>4 DEF LandInv, Category, Device

LEMMA LandWrite ==
  ASSUME LandInv, WriteCoil
  PROVE  LandInv'
<1>0. PICK n \in DOMAIN writes : \E t \in Behind(writes[n].coil[1]) :
        /\ DOMAIN coils' = DOMAIN coils
        /\ landed' = [named |-> writes[n].coil[1], reached |-> t]
  BY DEF WriteCoil
<1>1. PICK s \in Behind(writes[n].coil[1]) :
        /\ DOMAIN coils' = DOMAIN coils
        /\ landed' = [named |-> writes[n].coil[1], reached |-> s]
  BY <1>0
<1>2. /\ writes[n].coil[1] \in DOMAIN ports.plcModbus /\ s \in DOMAIN coils
      /\ ports.plcModbus[writes[n].coil[1]] \in services[s].ports
  BY DEF Behind
<1>3. UNCHANGED <<lab, services, ports, up>>
  BY DEF WriteCoil, planVars
<1>4. \A t \in DOMAIN coils : up /\ t \in DOMAIN services /\ Category(t) \in Controllers
  BY DEF LandInv
<1>5. landed'.named = writes[n].coil[1] /\ landed'.reached = s
  BY <1>1
<1> QED
  BY <1>1, <1>2, <1>3, <1>4, <1>5 DEF LandInv, Category, Device

LEMMA LandStep ==
  ASSUME LabInv, LandInv, [Next]_vars
  PROVE  LandInv'
<1>1. CASE Start \/ Planning
  <2>1. ~up /\ up' = up /\ coils' = coils /\ landed' = landed
    <3>1. CASE Start
      BY <3>1, LabStart DEF Start, BeginStart, coilVars
    <3>2. CASE ComposeDevice /\ UNCHANGED coilVars
      <4>1. /\ next \in DOMAIN lab.devices /\ lab # None /\ up' = up
        BY <3>2 DEF ComposeDevice
      <4>2. DOMAIN lab.devices = 1 .. Len(lab.devices) /\ Len(lab.devices) \in Nat
        BY <4>1, DevicesAre DEF LabInv
      <4>3. ~composed
        BY <4>1, <4>2 DEF LabInv
      <4> QED
        BY <3>2, <4>1, <4>3 DEF LabInv, coilVars
    <3>3. CASE (ComposeServices \/ StartFails) /\ UNCHANGED coilVars
      BY <3>3 DEF ComposeServices, StartFails, LabInv, coilVars
    <3> QED
      BY <1>1, <3>1, <3>2, <3>3 DEF Planning
  <2>2. landed = None /\ DOMAIN coils = {}
    BY <2>1 DEF LandInv
  <2> QED
    BY <2>1, <2>2 DEF LandInv
<1>2. CASE LabUp
  <2>1. ~up /\ up' /\ landed' = landed /\ lab' = lab /\ services' = services
    BY <1>2 DEF LabUp, ContainersUp
  <2>2. DOMAIN coils' = {t \in DOMAIN services : Category(t) \in Controllers}
    BY <1>2 DEF LabUp, CoilsUp
  <2>3. landed' = None
    BY <2>1 DEF LandInv
  <2> QED
    BY <2>1, <2>2, <2>3 DEF LandInv, Category, Device
<1>3. CASE LabDown
  <2>1. coils' = <<>> /\ landed' = None
    BY <1>3 DEF LabDown, OverlayStops
  <2>2. DOMAIN coils' = {}
    BY <2>1
  <2> QED
    BY <2>1, <2>2 DEF LandInv
<1>4. CASE OverlayStep
  <2>1. CASE WriteCoil
    BY <2>1, LandWrite
  <2>2. CASE ~WriteCoil
    <3>1. coils' = coils /\ landed' = landed /\ UNCHANGED planVars
      BY <1>4, <2>2 DEF OverlayStep, SwitchTab, PollBegins, ReadCoils, PollEnds, onEdgeClick,
                        WriteFails, WriteAnswered
    <3> QED
      BY <3>1, LandIdle
  <2> QED
    BY <2>1, <2>2
<1>5. CASE (Working \/ UNCHANGED vars) /\ UNCHANGED coilVars
  <2>1. UNCHANGED planVars
    BY <1>5, WorkingPlan DEF vars
  <2> QED
    BY <1>5, <2>1, LandIdle DEF coilVars
<1> QED
  BY <1>1, <1>2, <1>3, <1>4, <1>5 DEF Next, Working, vars

LEMMA LandAlways == Spec => [](LabInv /\ PlanInv /\ LandInv)
<1>1. Init => LandInv
  <2> SUFFICES ASSUME Init PROVE LandInv
    OBVIOUS
  <2>1. coils = <<>> /\ landed = None
    BY DEF Init, OverlayInit
  <2>2. DOMAIN coils = {}
    BY <2>1
  <2> QED
    BY <2>1, <2>2 DEF LandInv
<1>2. LabInv /\ LandInv /\ [Next]_vars => LandInv'
  BY LandStep
<1> QED
  BY <1>1, <1>2, PlanAlways, PTL DEF Spec

\* The Modbus port of a PLC and the ports of a controller have one range of their own,
\* so a command goes astray only where the two loops count apart.
LEMMA LandedFollows ==
  ASSUME LabInv, PlanInv, LandInv, landed # None, composed
  PROVE  \/ landed.reached = SafeName[landed.named]
         \/ \E b \in Ids(lab) : IsA(lab, b, {"batch-controller"}) /\ InFileOrder(b, landed.named)
<1>1. lab # None
  BY DEF LabInv
<1>2. WellMade(lab) /\ ServiceInv /\ ports = activePorts(lab)
  BY <1>1 DEF LabInv, PlanInv
<1>3. PICK s, x : s = landed.reached /\ x = landed.named
  OBVIOUS
<1>4. /\ x \in DOMAIN ports.plcModbus /\ s \in DOMAIN services /\ Category(s) \in Controllers
      /\ ports.plcModbus[x] \in services[s].ports
  BY <1>3 DEF LandInv
<1>5. services[s].of # None
  BY <1>4, CategoryAssumption DEF Category
<1>6. PICK i \in DOMAIN lab.devices :
        /\ services[s].of = lab.devices[i].id /\ s = SafeName[services[s].of]
        /\ services[s].ports = PortsAt(lab, i)
  BY <1>2, <1>4, <1>5, OwnerIs DEF Made
<1>7. lab.devices[i].category \in Controllers
  BY <1>2, <1>4, <1>5, <1>6, DeviceAt DEF Category
<1>8. PICK k \in DOMAIN lab.devices :
        /\ lab.devices[k].id = x /\ lab.devices[k].category \in Plcs
        /\ ports.plcModbus[x] = PLC_MODBUS_PORT_BASE + Count(lab, k, Plcs)
  BY <1>2, <1>4, PlcPortIs
<1>9. PICK mine, theirs, order : /\ mine = Count(lab, k, Plcs) /\ theirs = Count(lab, i, Controllers)
                                 /\ order = Count(lab, k, Controllers)
  OBVIOUS
<1>10. /\ mine \in Nat /\ theirs \in Nat /\ order \in Nat /\ mine <= 100 /\ theirs <= 100
  <2>1. Len(lab.devices) \in Nat /\ Len(lab.devices) <= 100
    BY <1>2, DevicesAre
  <2>2. \A n, categories : Count(lab, n, categories) \in Nat /\ Count(lab, n, categories) <= Len(lab.devices)
    BY <1>2, EarlierFinite
  <2>3. PICK most : most = Len(lab.devices)
    OBVIOUS
  <2> QED
    BY <1>9, <2>1, <2>2, <2>3
<1>11. 18550 + mine \in {18080 + theirs, 18550 + theirs}
  <2>1. services[s].ports = {18080 + theirs, 18550 + theirs}
    <3>1. PortsAt(lab, i) = {PLC_WEB_PORT_BASE + Count(lab, i, Controllers),
                             PLC_MODBUS_PORT_BASE + Count(lab, i, Controllers)}
      BY <1>7 DEF PortsAt, Controllers
    <3> QED
      BY <1>6, <1>9, <3>1 DEF PLC_WEB_PORT_BASE, PLC_MODBUS_PORT_BASE
  <2> QED
    BY <1>4, <1>8, <1>9, <2>1 DEF PLC_MODBUS_PORT_BASE
<1>12. mine = theirs
  BY <1>10, <1>11
<1>13. CASE mine # order
  BY <1>2, <1>3, <1>8, <1>9, <1>13, BatchPrecedes
<1>14. CASE mine = order
  <2>1. i \in Nat /\ k \in Nat
    BY <1>2, DevicesAre
  <2>2. lab.devices[k].category \in Controllers
    BY <1>8 DEF Plcs, Controllers
  <2>3. i < k => theirs < order
    BY <1>2, <1>7, <1>9, <2>1, CountLess
  <2>4. k < i => order < theirs
    BY <1>2, <1>9, <2>1, <2>2, CountLess
  <2>5. i = k
    BY <1>10, <1>12, <1>14, <2>1, <2>3, <2>4
  <2> QED
    BY <1>3, <1>6, <1>8, <2>5
<1> QED
  BY <1>13, <1>14

\* Main reaches a device through the port its own container publishes, and a click on a
\* pipe operates the controller the pipe names, as long as the service names are the
\* devices' own and no batch controller comes first (the port maps of simulation:start,
\* main/index.ts, against the loop of compose-generator.ts).
THEOREM CommandsReachAlways == Spec => []CommandsReach
<1>1. LabInv /\ PlanInv /\ LandInv => CommandsReach
  BY PortsFollow, LandedFollows DEF CommandsReach
<1> QED
  BY <1>1, LandAlways, PTL

-----------------------------------------------------------------------------
(* Types.                                                                  *)

LEMMA GreatestIs ==
  ASSUME NEW K, K \subseteq Nat, IsFiniteSet(K), K # {}
  PROVE  \E m \in K : \A k \in K : k <= m
<1> DEFINE Lacks(L) == L # {} /\ ~\E m \in L : \A k \in L : k <= m
           Sizes == {Cardinality(L) : L \in {J \in SUBSET Nat : IsFiniteSet(J) /\ Lacks(J)}}
<1>1. SUFFICES ASSUME Lacks(K) PROVE FALSE
  OBVIOUS
<1>2. Sizes \subseteq Nat /\ Cardinality(K) \in Sizes
  BY <1>1, FS_CardinalityType
<1>3. PICK n \in Sizes : \A g \in Sizes : n <= g
  <2> HIDE DEF Sizes
  <2> QED
    BY <1>2, NatMin
<1>4. PICK L \in SUBSET Nat : IsFiniteSet(L) /\ Lacks(L) /\ n = Cardinality(L)
  BY <1>3
<1>5. PICK x \in L : TRUE
  BY <1>4
<1>6. PICK J : J = L \ {x}
  OBVIOUS
<1>7. IsFiniteSet(J) /\ Cardinality(J) = n - 1 /\ n \in Nat /\ J \in SUBSET Nat
  BY <1>4, <1>5, <1>6, FS_RemoveElement, FS_CardinalityType
<1>8. ~Lacks(J)
  <2> SUFFICES ASSUME Lacks(J) PROVE FALSE
    OBVIOUS
  <2>1. Cardinality(J) \in Sizes
    BY <1>7
  <2> HIDE DEF Sizes
  <2> QED
    BY <1>3, <1>7, <2>1
<1>9. CASE J = {}
  <2>1. L = {x} /\ x \in Nat
    BY <1>5, <1>6, <1>9
  <2> QED
    BY <1>4, <2>1
<1>10. CASE J # {}
  <2>1. PICK m \in J : \A k \in J : k <= m
    BY <1>8, <1>10
  <2>2. x \in Nat /\ m \in Nat /\ m \in L /\ \A k \in L : k \in Nat /\ (k = x \/ k \in J)
    BY <1>4, <1>5, <1>6, <2>1
  <2>3. (x <= m /\ \A k \in L : k <= m) \/ (m <= x /\ \A k \in L : k <= x)
    BY <2>1, <2>2
  <2> QED
    BY <1>4, <1>5, <2>2, <2>3
<1> QED
  BY <1>9, <1>10

LEMMA LastCoilIs ==
  ASSUME LabInv, NEW plc \in Sources
  PROVE  plcMaxCoil(plc) \in Nat
<1>1. lab # None
  BY DEF Sources, Pipes
<1>2. IsSeq(lab.wires) /\ \A i \in DOMAIN lab.wires : lab.wires[i].coilIndex \in Nat
  BY <1>1 DEF LabInv, WellMade
<1>3. PICK I : I = {j \in DOMAIN lab.wires : lab.wires[j].coil # None /\ lab.wires[j].coil = plc}
  OBVIOUS
<1>4. IsFiniteSet(I)
  <2>1. DOMAIN lab.wires = 1 .. Len(lab.wires) /\ Len(lab.wires) \in Nat
    BY <1>2, IsSeqIs
  <2>2. IsFiniteSet(1 .. Len(lab.wires))
    BY <2>1, FS_Interval
  <2> QED
    BY <1>3, <2>1, <2>2, FS_Subset
<1>5. Pipes = {lab.wires[i] : i \in {j \in DOMAIN lab.wires : lab.wires[j].coil # None}}
  BY <1>1 DEF Pipes
<1>6. PICK of : of = {w.coilIndex : w \in {x \in Pipes : x.coil = plc}}
  OBVIOUS
<1>7. of = {lab.wires[i].coilIndex : i \in I}
  BY <1>3, <1>5, <1>6
<1>8. PICK f : f = [i \in I |-> lab.wires[i].coilIndex]
  OBVIOUS
<1>9. IsFiniteSet(of)
  <2>1. f \in Surjection(I, of)
    BY <1>7, <1>8 DEF Surjection
  <2> QED
    BY <1>4, <2>1, FS_Surjection
<1>10. of \subseteq Nat /\ of # {}
  <2>1. \A w \in Pipes : w.coilIndex \in Nat
    BY <1>2, <1>5
  <2>2. \E w \in Pipes : w.coil = plc
    BY DEF Sources
  <2> QED
    BY <1>6, <2>1, <2>2
<1>11. \E k \in of : \A j \in of : j <= k
  BY <1>9, <1>10, GreatestIs
<1>12. plcMaxCoil(plc) = CHOOSE k \in of : \A j \in of : j <= k
  BY <1>6 DEF plcMaxCoil
<1> QED
  BY <1>10, <1>11, <1>12

Values(f) == \A c \in DOMAIN f : f[c] \in BOOLEAN

\* What is shown, read and written of coils are values.
CoilInv ==
  /\ Values(coilStates)
  /\ \A n \in DOMAIN polls : DOMAIN polls[n] = {"left", "got"} /\ Values(polls[n].got)
  /\ \A n \in DOMAIN writes :
       /\ DOMAIN writes[n] = {"coil", "value", "back", "at"}
       /\ writes[n].value \in BOOLEAN /\ writes[n].back \in BOOLEAN
       /\ writes[n].at \in {"sent", "done", "failed"}
  /\ \A s \in DOMAIN coils : DOMAIN coils[s] = 0 .. LastCoil /\ Values(coils[s])

LEMMA ValuesMerge == \A f, g : Values(f) /\ Values(g) => Values(Merge(f, g))
BY DEF Values, Merge

LEMMA ValuesOne == \A x, v : v \in BOOLEAN => Values([c \in {x} |-> v])
BY DEF Values

LEMMA CoilRead ==
  ASSUME LabInv, CoilInv, ReadCoils
  PROVE  CoilInv'
<1>1. PICK n \in DOMAIN polls : \E plc \in polls[n].left :
        \/ polls' = [polls EXCEPT ![n].left = @ \ {plc}]
        \/ /\ plc \in Sources /\ \A c \in CoilsOf(plc) : c[2] <= LastCoil
           /\ \E s \in Behind(plc) :
                polls' = [polls EXCEPT ![n] =
                  [left |-> @.left \ {plc}, got |-> Merge(@.got, [c \in CoilsOf(plc) |-> coils[s][c[2]]])]]
  BY DEF ReadCoils
<1>2. PICK plc \in polls[n].left :
        \/ polls' = [polls EXCEPT ![n].left = @ \ {plc}]
        \/ /\ plc \in Sources /\ \A c \in CoilsOf(plc) : c[2] <= LastCoil
           /\ \E s \in Behind(plc) :
                polls' = [polls EXCEPT ![n] =
                  [left |-> @.left \ {plc}, got |-> Merge(@.got, [c \in CoilsOf(plc) |-> coils[s][c[2]]])]]
  BY <1>1
<1>3. UNCHANGED <<coilStates, writes, coils>>
  BY DEF ReadCoils
<1>4. \A m \in DOMAIN polls : DOMAIN polls[m] = {"left", "got"} /\ Values(polls[m].got)
  BY DEF CoilInv
<1>5. \A m \in DOMAIN polls' : DOMAIN polls'[m] = {"left", "got"} /\ Values(polls'[m].got)
  <2>1. CASE polls' = [polls EXCEPT ![n].left = @ \ {plc}]
    <3>1. DOMAIN polls' = DOMAIN polls /\ \A m \in DOMAIN polls :
            DOMAIN polls'[m] = DOMAIN polls[m] /\ (DOMAIN polls[m] = {"left", "got"} => polls'[m].got = polls[m].got)
      BY <2>1
    <3> QED
      BY <1>4, <3>1
  <2>2. ASSUME plc \in Sources, \A c \in CoilsOf(plc) : c[2] <= LastCoil, NEW s \in Behind(plc),
               polls' = [polls EXCEPT ![n] =
                  [left |-> @.left \ {plc}, got |-> Merge(@.got, [c \in CoilsOf(plc) |-> coils[s][c[2]]])]]
        PROVE  \A m \in DOMAIN polls' : DOMAIN polls'[m] = {"left", "got"} /\ Values(polls'[m].got)
    <3>1. PICK got : got = [c \in CoilsOf(plc) |-> coils[s][c[2]]]
      OBVIOUS
    <3>2. \A c \in CoilsOf(plc) : c[2] \in 0 .. LastCoil
      <4>1. PICK most : most = plcMaxCoil(plc)
        OBVIOUS
      <4>2. most \in Nat
        BY <2>2, <4>1, LastCoilIs
      <4>3. CoilsOf(plc) = {<<plc, i>> : i \in 0 .. most}
        BY <4>1 DEF CoilsOf
      <4> QED
        BY <2>2, <4>2, <4>3, OverlayAssumption
    <3>3. s \in DOMAIN coils
      BY <2>2 DEF Behind
    <3>4. Values(got)
      BY <3>1, <3>2, <3>3 DEF CoilInv, Values
    <3>5. Values(Merge(polls[n].got, got))
      BY <1>4, <3>4, ValuesMerge
    <3>6. PICK new : new = [left |-> polls[n].left \ {plc}, got |-> Merge(polls[n].got, got)]
      OBVIOUS
    <3>7. polls' = [polls EXCEPT ![n] = new]
      BY <2>2, <3>1, <3>6
    <3>8. DOMAIN new = {"left", "got"} /\ Values(new.got)
      BY <3>5, <3>6
    <3> QED
      BY <1>4, <3>7, <3>8
  <2> QED
    BY <1>2, <2>1, <2>2
<1> QED
  BY <1>3, <1>5 DEF CoilInv

LEMMA CoilWrite ==
  ASSUME CoilInv, WriteCoil
  PROVE  CoilInv'
<1>1. PICK n \in DOMAIN writes : \E s \in Behind(writes[n].coil[1]) :
        /\ coils' = [coils EXCEPT ![s][writes[n].coil[2]] = writes[n].value]
        /\ \E at \in {"done", "failed"} : writes' = [writes EXCEPT ![n].at = at]
  BY DEF WriteCoil
<1>2. PICK s : coils' = [coils EXCEPT ![s][writes[n].coil[2]] = writes[n].value]
  BY <1>1
<1>3. PICK at \in {"done", "failed"} : writes' = [writes EXCEPT ![n].at = at]
  BY <1>1
<1>4. UNCHANGED <<coilStates, polls>>
  BY DEF WriteCoil
<1>5. \A m \in DOMAIN writes' :
       /\ DOMAIN writes'[m] = {"coil", "value", "back", "at"}
       /\ writes'[m].value \in BOOLEAN /\ writes'[m].back \in BOOLEAN
       /\ writes'[m].at \in {"sent", "done", "failed"}
  <2> SUFFICES ASSUME NEW m \in DOMAIN writes'
               PROVE  /\ DOMAIN writes'[m] = {"coil", "value", "back", "at"}
                      /\ writes'[m].value \in BOOLEAN /\ writes'[m].back \in BOOLEAN
                      /\ writes'[m].at \in {"sent", "done", "failed"}
    OBVIOUS
  <2>1. m \in DOMAIN writes
    BY <1>3
  <2>2. /\ DOMAIN writes[m] = {"coil", "value", "back", "at"}
        /\ writes[m].value \in BOOLEAN /\ writes[m].back \in BOOLEAN
        /\ writes[m].at \in {"sent", "done", "failed"}
    BY <2>1 DEF CoilInv
  <2>3. writes'[m] = IF m = n THEN [writes[m] EXCEPT !.at = at] ELSE writes[m]
    BY <1>3, <2>1
  <2> QED
    BY <2>2, <2>3
<1>6. \A t \in DOMAIN coils' : DOMAIN coils'[t] = 0 .. LastCoil /\ Values(coils'[t])
  <2> SUFFICES ASSUME NEW t \in DOMAIN coils' PROVE DOMAIN coils'[t] = 0 .. LastCoil /\ Values(coils'[t])
    OBVIOUS
  <2>1. t \in DOMAIN coils /\ writes[n].value \in BOOLEAN
    BY <1>2 DEF CoilInv
  <2>2. DOMAIN coils[t] = 0 .. LastCoil /\ Values(coils[t])
    BY <2>1 DEF CoilInv
  <2>3. coils'[t] = IF t = s THEN [coils[t] EXCEPT ![writes[n].coil[2]] = writes[n].value] ELSE coils[t]
    BY <1>2, <2>1
  <2> QED
    BY <2>1, <2>2, <2>3 DEF Values
<1> QED
  BY <1>4, <1>5, <1>6 DEF CoilInv

LEMMA CoilClick ==
  ASSUME CoilInv, onEdgeClick
  PROVE  CoilInv'
<1>1. PICK w \in Pipes :
        LET coil == <<w.coil, w.coilIndex>>
        IN  /\ coilStates' = Merge(coilStates, [c \in {coil} |-> ~Shown(coil)])
            /\ writes' = Merge(writes, [n \in {clicks + 1} |->
                 [coil |-> coil, value |-> ~Shown(coil), back |-> Shown(coil), at |-> "sent"]])
  BY DEF onEdgeClick
<1>2. PICK coil : coil = <<w.coil, w.coilIndex>>
  OBVIOUS
<1>3. Shown(coil) \in BOOLEAN /\ (~Shown(coil)) \in BOOLEAN
  <2>1. Shown(coil) \in BOOLEAN
    BY DEF CoilInv, Values, Shown
  <2>2. \A v \in BOOLEAN : (~v) \in BOOLEAN
    OBVIOUS
  <2> QED
    BY <2>1, <2>2
<1>4. PICK new : new = [coil |-> coil, value |-> ~Shown(coil), back |-> Shown(coil), at |-> "sent"]
  OBVIOUS
<1>5. Values(coilStates')
  <2>1. coilStates' = Merge(coilStates, [c \in {coil} |-> ~Shown(coil)])
    BY <1>1, <1>2
  <2>2. Values([c \in {coil} |-> ~Shown(coil)])
    BY <1>3, ValuesOne
  <2> QED
    BY <2>1, <2>2, ValuesMerge DEF CoilInv
<1>6. writes' = Merge(writes, [n \in {clicks + 1} |-> new])
  BY <1>1, <1>2, <1>4
<1>7. /\ DOMAIN new = {"coil", "value", "back", "at"} /\ new.value \in BOOLEAN /\ new.back \in BOOLEAN
      /\ new.at \in {"sent", "done", "failed"}
  BY <1>3, <1>4
<1>8. \A n \in DOMAIN writes' : writes'[n] = new \/ (n \in DOMAIN writes /\ writes'[n] = writes[n])
  BY <1>6 DEF Merge
<1>9. UNCHANGED <<polls, coils>>
  BY DEF onEdgeClick
<1> QED
  BY <1>5, <1>7, <1>8, <1>9 DEF CoilInv

LEMMA CoilOther ==
  ASSUME CoilInv, SwitchTab \/ PollBegins \/ PollEnds \/ WriteFails \/ WriteAnswered
  PROVE  CoilInv'
<1>0. Values(<<>>)
  BY DEF Values
<1>1. CASE SwitchTab
  <2>1. coilStates' \in {<<>>, coilStates} /\ UNCHANGED <<polls, writes, coils>>
    BY <1>1 DEF SwitchTab
  <2> QED
    BY <1>0, <2>1 DEF CoilInv
<1>2. CASE PollBegins
  <2>1. polls' = Merge(polls, [n \in {polled + 1} |-> [left |-> Sources, got |-> <<>>]])
    BY <1>2 DEF PollBegins
  <2>2. PICK new : new = [left |-> Sources, got |-> <<>>]
    OBVIOUS
  <2>3. DOMAIN new = {"left", "got"} /\ Values(new.got)
    BY <1>0, <2>2
  <2>4. \A n \in DOMAIN polls' : polls'[n] = new \/ (n \in DOMAIN polls /\ polls'[n] = polls[n])
    BY <2>1, <2>2 DEF Merge
  <2>5. UNCHANGED <<coilStates, writes, coils>>
    BY <1>2 DEF PollBegins
  <2> QED
    BY <2>3, <2>4, <2>5 DEF CoilInv
<1>3. CASE PollEnds
  <2>1. PICK n \in DOMAIN polls : coilStates' = polls[n].got /\ polls' = Drop(polls, n)
    BY <1>3 DEF PollEnds
  <2>2. UNCHANGED <<writes, coils>>
    BY <1>3 DEF PollEnds
  <2>3. \A m \in DOMAIN polls' : m \in DOMAIN polls /\ polls'[m] = polls[m]
    BY <2>1 DEF Drop
  <2> QED
    BY <2>1, <2>2, <2>3 DEF CoilInv
<1>4. CASE WriteFails
  <2>1. PICK n \in DOMAIN writes : writes' = [writes EXCEPT ![n].at = "failed"]
    BY <1>4 DEF WriteFails
  <2>2. UNCHANGED <<coilStates, polls, coils>>
    BY <1>4 DEF WriteFails
  <2>3. \A m \in DOMAIN writes' : m \in DOMAIN writes /\ writes'[m] \in {writes[m], [writes[m] EXCEPT !.at = "failed"]}
    BY <2>1
  <2> QED
    BY <2>2, <2>3 DEF CoilInv
<1>5. CASE WriteAnswered
  <2>1. PICK n \in DOMAIN writes : /\ writes' = Drop(writes, n)
          /\ coilStates' = IF writes[n].at = "done" THEN coilStates
               ELSE Merge(coilStates, [c \in {writes[n].coil} |-> writes[n].back])
    BY <1>5 DEF WriteAnswered
  <2>2. UNCHANGED <<polls, coils>>
    BY <1>5 DEF WriteAnswered
  <2>3. \A m \in DOMAIN writes' : m \in DOMAIN writes /\ writes'[m] = writes[m]
    BY <2>1 DEF Drop
  <2>4. Values([c \in {writes[n].coil} |-> writes[n].back])
    <3>1. writes[n].back \in BOOLEAN
      BY DEF CoilInv
    <3> QED
      BY <3>1, ValuesOne
  <2>5. Values(coilStates')
    BY <2>1, <2>4, ValuesMerge DEF CoilInv
  <2> QED
    BY <2>2, <2>3, <2>5 DEF CoilInv
<1> QED
  BY <1>1, <1>2, <1>3, <1>4, <1>5

LEMMA CoilStep ==
  ASSUME LabInv, CoilInv, [Next]_vars
  PROVE  CoilInv'
<1>1. CASE UNCHANGED coilVars
  BY <1>1 DEF coilVars, CoilInv
<1>2. CASE LabUp
  <2>1. UNCHANGED <<coilStates, polls, writes>>
    BY <1>2 DEF LabUp
  <2>2. coils' = [s \in {t \in DOMAIN services : Category(t) \in Controllers} |-> [i \in 0 .. LastCoil |-> TRUE]]
    BY <1>2 DEF LabUp, CoilsUp
  <2>3. \A s \in DOMAIN coils' : coils'[s] = [i \in 0 .. LastCoil |-> TRUE]
    BY <2>2
  <2>4. \A s \in DOMAIN coils' : DOMAIN coils'[s] = 0 .. LastCoil /\ Values(coils'[s])
    BY <2>3 DEF Values
  <2> QED
    BY <2>1, <2>4 DEF CoilInv
<1>3. CASE LabDown
  <2>1. /\ coilStates' = <<>> /\ coils' = <<>> /\ polls' = polls
        /\ writes' = [n \in DOMAIN writes |->
             IF writes[n].at = "sent" THEN [writes[n] EXCEPT !.at = "failed"] ELSE writes[n]]
    BY <1>3 DEF LabDown, OverlayStops
  <2>2. \A m \in DOMAIN writes' : m \in DOMAIN writes /\ writes'[m] \in {writes[m], [writes[m] EXCEPT !.at = "failed"]}
    BY <2>1
  <2>3. Values(coilStates') /\ DOMAIN coils' = {}
    BY <2>1 DEF Values
  <2> QED
    BY <2>1, <2>2, <2>3 DEF CoilInv
<1>4. CASE OverlayStep
  BY <1>4, CoilRead, CoilWrite, CoilClick, CoilOther DEF OverlayStep
<1> QED
  BY <1>1, <1>2, <1>3, <1>4 DEF Next, Start, Planning, Working, vars

LEMMA CoilAlways == Spec => [](LabInv /\ CoilInv)
<1>1. Init => CoilInv
  <2> SUFFICES ASSUME Init PROVE CoilInv
    OBVIOUS
  <2>1. coilStates = <<>> /\ polls = <<>> /\ writes = <<>> /\ coils = <<>>
    BY DEF Init, OverlayInit
  <2>2. DOMAIN coilStates = {} /\ DOMAIN polls = {} /\ DOMAIN writes = {} /\ DOMAIN coils = {}
    BY <2>1
  <2> QED
    BY <2>2 DEF CoilInv, Values
<1>2. LabInv /\ CoilInv /\ [Next]_vars => CoilInv'
  BY CoilStep
<1>3. Init => LabInv
  BY LabInit
<1>4. LabInv /\ [Next]_vars => LabInv'
  BY LabStep
<1> QED
  BY <1>1, <1>2, <1>3, <1>4, PTL DEF Spec

-----------------------------------------------------------------------------
(* Port maps and host octets have their range.                             *)

PortsOk ==
  /\ \A x \in DOMAIN ports.plcWeb : ports.plcWeb[x] \in PLC_WEB_PORT_BASE .. PLC_WEB_PORT_BASE + 99
  /\ \A x \in DOMAIN ports.plcModbus :
       ports.plcModbus[x] \in PLC_MODBUS_PORT_BASE .. PLC_MODBUS_PORT_BASE + 99

\* A lab has at most 100 devices, so a PLC has at most 99 before it.
LEMMA PlcPortsRange ==
  ASSUME WellMade(lab), ports = activePorts(lab)
  PROVE  PortsOk
<1>1. ASSUME NEW x \in DOMAIN ports.plcModbus
      PROVE  \E k \in 0 .. 99 : /\ ports.plcWeb[x] = PLC_WEB_PORT_BASE + k
                                /\ ports.plcModbus[x] = PLC_MODBUS_PORT_BASE + k
  <2>1. PICK i \in DOMAIN lab.devices :
          /\ lab.devices[i].category \in Plcs
          /\ ports.plcWeb[x] = PLC_WEB_PORT_BASE + Count(lab, i, Plcs)
          /\ ports.plcModbus[x] = PLC_MODBUS_PORT_BASE + Count(lab, i, Plcs)
    BY PlcPortIs
  <2>2. PICK n : n = Len(lab.devices)
    OBVIOUS
  <2>3. n \in Nat /\ n <= 100 /\ i \in 1 .. n
    BY <2>2, DevicesAre
  <2>4. n + 1 \in Nat /\ i < n + 1
    BY <2>3
  <2>5. Count(lab, i, Plcs) < Count(lab, n + 1, Plcs)
    BY <2>1, <2>4, CountLess
  <2>6. Count(lab, n + 1, Plcs) <= n /\ Count(lab, n + 1, Plcs) \in Nat /\ Count(lab, i, Plcs) \in Nat
    BY <2>2, EarlierFinite
  <2> QED
    BY <2>1, <2>3, <2>5, <2>6
<1>2. DOMAIN ports.plcWeb = DOMAIN ports.plcModbus
  BY WebPortIs
<1> QED
  BY <1>1, <1>2 DEF PortsOk, PLC_WEB_PORT_BASE, PLC_MODBUS_PORT_BASE

\* A start that fails leaves its port maps behind.
PortsInv == lab = None => PortsOk

LEMMA PortsAlways == Spec => [](LabInv /\ PlanInv /\ PortsInv)
<1>1. Init => PortsInv
  BY DEF Init, PlanInit, NoPorts, PortsInv, PortsOk
<1>2. LabInv /\ PlanInv /\ PortsInv /\ [Next]_vars => PortsInv'
  <2> SUFFICES ASSUME LabInv, PlanInv, PortsInv, [Next]_vars PROVE PortsInv'
    OBVIOUS
  <2>1. PortsOk
    <3>1. CASE lab = None
      BY <3>1 DEF PortsInv
    <3>2. CASE lab # None
      BY <3>2, PlcPortsRange DEF LabInv, PlanInv
    <3> QED
      BY <3>1, <3>2
  <2>2. CASE Start
    <3>1. WellMade(lab')
      BY <2>2, LabStart
    <3> QED
      BY <3>1 DEF WellMade, PortsInv
  <2>3. CASE LabDown
    <3>1. ports' = NoPorts
      BY <2>3 DEF LabDown, StopLab
    <3>2. DOMAIN ports'.plcWeb = {} /\ DOMAIN ports'.plcModbus = {}
      BY <3>1 DEF NoPorts
    <3> QED
      BY <3>2 DEF PortsInv, PortsOk
  <2>4. CASE ports' = ports
    BY <2>1, <2>4 DEF PortsInv, PortsOk
  <2>5. Start \/ LabDown \/ ports' = ports
    BY WorkingPlan DEF Next, vars, planVars, Planning, ComposeDevice, ComposeServices, StartFails, LabUp, ContainersUp
  <2> QED
    BY <2>2, <2>3, <2>4, <2>5
<1> QED
  BY <1>1, <1>2, PlanAlways, PTL DEF Spec

LEMMA HostsRange ==
  ASSUME LabInv, PlanInv
  PROVE  /\ \A z \in Zones : used[z] \subseteq 1 .. 254
         /\ \A s \in DOMAIN services : \A z \in DOMAIN services[s].legs : services[s].legs[z][2] \in 1 .. 254
<1>1. CASE lab = None
  <2>1. used = [z \in Zones |-> reservedHosts] /\ DOMAIN services = {}
    BY <1>1 DEF LabInv
  <2> QED
    BY <2>1, ReservedAre
<1>2. CASE lab # None
  <2>1. AddressInv /\ ServiceInv
    BY <1>2 DEF PlanInv
  <2>2. \A z \in Zones : used[z] \subseteq 1 .. 254
    BY <2>1 DEF AddressInv, UsedOk
  <2>3. ASSUME NEW s \in DOMAIN services, NEW z \in DOMAIN services[s].legs
        PROVE  services[s].legs[z][2] \in 1 .. 254
    <3>1. z \in Zones \/ z = "monitoring"
      BY <2>1, <2>3 DEF ServiceInv, ServiceOk, Nets
    <3>2. CASE z \in Zones
      <4>1. LegsOk(services[s], used, zones, Kinds, Unknown)
        BY <2>1 DEF AddressInv
      <4>2. LegOk(services[s], z, used, zones, Kinds, Unknown)
        BY <3>2, <4>1 DEF LegsOk
      <4> QED
        BY <4>2 DEF LegOk
    <3>3. CASE z = "monitoring"
      BY <2>1, <3>3 DEF ServiceInv, ServiceOk
    <3> QED
      BY <3>1, <3>2, <3>3
  <2> QED
    BY <2>2, <2>3
<1> QED
  BY <1>1, <1>2

RelayInv == trip_relay \in BOOLEAN

LEMMA RelayAlways == Spec => []RelayInv
<1>1. Init => RelayInv
  BY DEF Init, ProgramInit, RelayInv
<1>2. RelayInv /\ [Next]_vars => RelayInv'
  <2> USE DEF RelayInv
  <2> SUFFICES ASSUME RelayInv, [Next]_vars PROVE trip_relay' \in BOOLEAN
    OBVIOUS
  <2>1. CASE ScanVote
    <3>1. PICK d, votes, least : trip_relay' = (votes < least)
      BY <2>1 DEF ScanVote
    <3> QED
      BY <3>1
  <2>2. CASE trip_relay' = TRUE \/ trip_relay' = trip_relay
    BY <2>2
  <2>3. ScanVote \/ trip_relay' = TRUE \/ trip_relay' = trip_relay
    BY DEF Next, vars, programVars, Start, Planning, LabUp, LabDown, ProgramsStop, Working, ProgramStep,
           ScanBatch, WriteCommand, ForceRegister
  <2> QED
    BY <2>1, <2>2, <2>3
<1> QED
  BY <1>1, <1>2, PTL DEF Spec

-----------------------------------------------------------------------------
(* The posts of a task.                                                    *)

\* The posts that follow those of the devices A: the tags they name are of A.
Later(p, A) ==
  /\ p.cmd \in {"set-view", "set-placeholder", "set-alarm", "layout", "names"}
  /\ p.cmd \in {"set-view", "set-alarm"} =>
       \A t \in p.binds : \E j \in DOMAIN A : t \in A[j].tags

AllLater(s, A) == IsSeq(s) /\ \A i \in 1 .. Len(s) : Later(s[i], A)

\* First the devices A, then others that name no tag but theirs.
Stage(s, A) ==
  /\ IsSeq(s) /\ Len(A) <= Len(s) /\ \A i \in 1 .. Len(A) : s[i] = A[i]
  /\ \A i \in 1 .. Len(s) : i > Len(A) => Later(s[i], A)

Occurs(s, p) == \E i \in 1 .. Len(s) : s[i] = p

Only(s, cmd) == \A i \in 1 .. Len(s) : s[i].cmd = cmd
EndsWell(s) == Len(s) # 0 => s[Len(s)].cmd # "names"

LEMMA OccursJoined ==
  \A s, t, p : IsSeq(s) /\ IsSeq(t) => (Occurs(s \o t, p) <=> Occurs(s, p) \/ Occurs(t, p))
<1> SUFFICES ASSUME NEW s, NEW t, NEW p, IsSeq(s), IsSeq(t)
             PROVE  Occurs(s \o t, p) <=> Occurs(s, p) \/ Occurs(t, p)
  OBVIOUS
<1>1. PICK r, m, n : r = s \o t /\ m = Len(s) /\ n = Len(t)
  OBVIOUS
<1>2. m \in Nat /\ n \in Nat
  BY <1>1, IsSeqIs
<1>3. Joined(s, t, r)
  BY <1>1, ConcatJoins
<1>4. Len(r) = m + n /\ (\A i \in 1 .. m : r[i] = s[i]) /\ (\A i \in 1 .. n : r[m + i] = t[i])
  BY <1>1, <1>3 DEF Joined
<1>5. ASSUME Occurs(s, p) PROVE Occurs(r, p)
  <2>1. PICK i \in 1 .. m : s[i] = p
    BY <1>1, <1>5 DEF Occurs
  <2>2. i \in 1 .. m + n /\ r[i] = p
    BY <1>2, <1>4, <2>1
  <2> QED
    BY <1>4, <2>2 DEF Occurs
<1>6. ASSUME Occurs(t, p) PROVE Occurs(r, p)
  <2>1. PICK i \in 1 .. n : t[i] = p
    BY <1>1, <1>6 DEF Occurs
  <2>2. m + i \in 1 .. m + n /\ r[m + i] = p
    BY <1>2, <1>4, <2>1
  <2> QED
    BY <1>4, <2>2 DEF Occurs
<1>7. ASSUME Occurs(r, p) PROVE Occurs(s, p) \/ Occurs(t, p)
  <2>1. PICK i \in 1 .. m + n : r[i] = p
    BY <1>4, <1>7 DEF Occurs
  <2>2. CASE i <= m
    BY <1>1, <1>2, <1>4, <2>1, <2>2 DEF Occurs
  <2>3. CASE i > m
    <3>1. i - m \in 1 .. n /\ m + (i - m) = i
      BY <1>2, <2>1, <2>3
    <3>2. t[i - m] = p
      BY <1>4, <2>1, <3>1
    <3> QED
      BY <1>1, <3>1, <3>2 DEF Occurs
  <2> QED
    BY <1>2, <2>1, <2>2, <2>3
<1> QED
  BY <1>1, <1>5, <1>6, <1>7

LEMMA StageJoined ==
  ASSUME NEW s, NEW t, NEW A, IsSeq(A), Stage(s, A), AllLater(t, A)
  PROVE  Stage(s \o t, A)
<1>1. PICK r, m, n, a : r = s \o t /\ m = Len(s) /\ n = Len(t) /\ a = Len(A)
  OBVIOUS
<1>2. m \in Nat /\ n \in Nat /\ a \in Nat /\ IsSeq(s) /\ IsSeq(t)
  BY <1>1, IsSeqIs DEF Stage, AllLater
<1>3. Joined(s, t, r)
  BY <1>1, <1>2, ConcatJoins
<1>4. IsSeq(r) /\ Len(r) = m + n /\ (\A i \in 1 .. m : r[i] = s[i]) /\ (\A i \in 1 .. n : r[m + i] = t[i])
  BY <1>1, <1>3 DEF Joined
<1>5. a <= m /\ (\A i \in 1 .. a : s[i] = A[i]) /\ \A i \in 1 .. m : i > a => Later(s[i], A)
  BY <1>1 DEF Stage
<1>6. \A i \in 1 .. a : i \in 1 .. m /\ r[i] = A[i]
  BY <1>2, <1>4, <1>5
<1>7. ASSUME NEW i \in 1 .. m + n, i > a PROVE Later(r[i], A)
  <2>1. CASE i <= m
    BY <1>2, <1>4, <1>5, <1>7, <2>1
  <2>2. CASE i > m
    <3>1. i - m \in 1 .. n /\ m + (i - m) = i
      BY <1>2, <2>2
    <3>2. r[i] = t[i - m] /\ Later(t[i - m], A)
      BY <1>1, <1>4, <3>1 DEF AllLater
    <3> QED
      BY <3>2
  <2> QED
    BY <1>2, <2>1, <2>2
<1>8. Stage(r, A)
  BY <1>1, <1>2, <1>4, <1>5, <1>6, <1>7 DEF Stage
<1> QED
  BY <1>1, <1>8

LEMMA EndsJoined ==
  ASSUME NEW s, IsSeq(s), NEW t, IsSeq(t), Len(t) # 0, EndsWell(t)
  PROVE  EndsWell(s \o t)
<1>1. PICK r, m, n : r = s \o t /\ m = Len(s) /\ n = Len(t)
  OBVIOUS
<1>2. m \in Nat /\ n \in Nat
  BY <1>1, IsSeqIs
<1>3. Joined(s, t, r)
  BY <1>1, ConcatJoins
<1>4. Len(r) = m + n /\ \A i \in 1 .. n : r[m + i] = t[i]
  BY <1>1, <1>3 DEF Joined
<1>5. n \in 1 .. n /\ t[n].cmd # "names"
  BY <1>1, <1>2 DEF EndsWell
<1>6. r[m + n].cmd # "names"
  BY <1>4, <1>5
<1> QED
  BY <1>1, <1>4, <1>6 DEF EndsWell

\* A post that is made only if something holds.
LEMMA WhenIs ==
  ASSUME NEW holds, NEW p, NEW s, s = IF holds THEN <<p>> ELSE <<>>
  PROVE  /\ IsSeq(s) /\ (holds => Len(s) = 1 /\ s[1] = p) /\ (~holds => Len(s) = 0)
BY SingleIs DEF IsSeq

LEMMA MadeOf ==
  ASSUME NEW list, IsSeq(list), NEW I, I \subseteq DOMAIN list, NEW E, E = Entries(list, I),
         NEW s, s = [k \in DOMAIN E |-> s[k]]
  PROVE  /\ IsSeq(s) /\ Len(s) = Len(E) /\ Len(E) \in Nat
         /\ \A k \in 1 .. Len(s) : \E i \in I : E[k] = list[i]
         /\ \A i \in I : \E k \in 1 .. Len(s) : E[k] = list[i]
         /\ Len(s) # 0 <=> I # {}
<1>1. /\ IsSeq(E) /\ \A k \in 1 .. Len(E) : \E i \in I : E[k] = list[i]
      /\ \A i \in I : \E k \in 1 .. Len(E) : E[k] = list[i]
  BY EntriesAre
<1>2. DOMAIN E = 1 .. Len(E) /\ Len(E) \in Nat
  BY <1>1, IsSeqIs
<1>3. IsSeq(s) /\ Len(s) = Len(E)
  BY <1>2, FunctionIs
<1>4. Len(s) # 0 <=> I # {}
  <2>1. ASSUME Len(E) # 0 PROVE I # {}
    <3>1. 1 \in 1 .. Len(E)
      BY <1>2, <2>1
    <3> QED
      BY <1>1, <3>1
  <2>2. ASSUME NEW i \in I PROVE Len(E) # 0
    <3>1. PICK k \in 1 .. Len(E) : E[k] = list[i]
      BY <1>1
    <3> QED
      BY <1>2, <3>1
  <2> QED
    BY <1>3, <2>1, <2>2
<1> QED
  BY <1>1, <1>2, <1>3, <1>4

\* The indices of the devices with a post of their own, of those drawn on the OT tab,
\* of the alarmed ones among them, and of the HMIs.
ModbusAt(sc) == {i \in DOMAIN sc.devices : sc.devices[i].id \in modbusNodeIds(sc) /\ sc.devices[i].category \notin Plcs}
PlcAt(sc)    == {i \in DOMAIN sc.devices : sc.devices[i].id \in modbusNodeIds(sc) /\ sc.devices[i].category \in Plcs}
OpcuaAt(sc)  == {i \in DOMAIN sc.devices : sc.devices[i].category = "scada-server"}
BacnetAt(sc) == {i \in DOMAIN sc.devices : sc.devices[i].category = "sensor"}
HmiAt(sc)    == {i \in DOMAIN sc.devices : sc.devices[i].category = "hmi"}
OtAt(sc)     == {i \in DOMAIN sc.devices : sc.devices[i].zone = "ot"}
AlarmedAt(t) == {i \in DOMAIN t : Live(t[i]) /\ t[i].kind # "valve"}

DeviceSeq(sc) == Entries(sc.devices, ModbusAt(sc)) \o Entries(sc.devices, PlcAt(sc))
                   \o Entries(sc.devices, OpcuaAt(sc)) \o Entries(sc.devices, BacnetAt(sc))
DevicePosts(sc) == [i \in DOMAIN DeviceSeq(sc) |-> DevicePost(DeviceSeq(sc)[i])]
Hmis(sc) == Entries(sc.devices, HmiAt(sc))
HmiPosts(sc) == [i \in DOMAIN Hmis(sc) |-> [cmd |-> "set-placeholder", binds |-> {},
                                           key |-> buildHmiViewName(Hmis(sc)[i].id)]]
Topology(sc) == Entries(sc.devices, OtAt(sc))
AlarmPosts(sc) == [i \in DOMAIN Entries(Topology(sc), AlarmedAt(Topology(sc))) |->
                     Alarm(Entries(Topology(sc), AlarmedAt(Topology(sc)))[i])]
RtuPost(sc) == IF \E i \in DOMAIN sc.devices : sc.devices[i].category \in Rtus
                 THEN <<buildRtuOverviewView>> ELSE <<>>
ScadaPost(sc) == IF Topology(sc) # <<>> THEN <<buildScadaOverviewView(Topology(sc))>> ELSE <<>>
LayoutPost(sc) == IF AlarmPosts(sc) # <<>> THEN <<[cmd |-> "layout", key |-> "layout"]>> ELSE <<>>
NamesPost(sc) == IF Hmis(sc) # <<>> THEN <<[cmd |-> "names", key |-> "names"]>> ELSE <<>>

LEMMA PostsAreThese ==
  ASSUME NEW sc
  PROVE  Posts(sc) = IF DeviceSeq(sc) = <<>> /\ Hmis(sc) = <<>> THEN <<>>
                     ELSE DevicePosts(sc) \o RtuPost(sc) \o ScadaPost(sc) \o AlarmPosts(sc)
                            \o LayoutPost(sc) \o NamesPost(sc) \o HmiPosts(sc)
<1>1. getOtZoneTopology(sc) = Topology(sc)
  BY DEF getOtZoneTopology, Topology, OtAt, Those
<1>2. buildScadaAlarms(getOtZoneTopology(sc)) = AlarmPosts(sc)
  BY <1>1 DEF buildScadaAlarms, AlarmPosts, AlarmedAt, Those
<1> HIDE DEF Topology
<1>3. PICK topology : topology = Topology(sc)
  OBVIOUS
<1> QED
  BY <1>1, <1>2, Zenon
  DEF Posts, Those, Some, DeviceSeq, DevicePosts, Hmis, HmiPosts, RtuPost, ScadaPost, LayoutPost, NamesPost,
         ModbusAt, PlcAt, OpcuaAt, BacnetAt, HmiAt

LEMMA DeviceSeqIs ==
  ASSUME NEW sc, WellMade(sc)
  PROVE  /\ IsSeq(DeviceSeq(sc))
         /\ \A d : Occurs(DeviceSeq(sc), d) => \E i \in DOMAIN sc.devices : d = sc.devices[i]
         /\ \A i \in ModbusAt(sc) : Occurs(DeviceSeq(sc), sc.devices[i])
<1>1. IsSeq(sc.devices)
  BY DEF WellMade
<1>2. PICK m, p, o, b : /\ m = Entries(sc.devices, ModbusAt(sc)) /\ p = Entries(sc.devices, PlcAt(sc))
                        /\ o = Entries(sc.devices, OpcuaAt(sc)) /\ b = Entries(sc.devices, BacnetAt(sc))
  OBVIOUS
<1>3. /\ ModbusAt(sc) \subseteq DOMAIN sc.devices /\ PlcAt(sc) \subseteq DOMAIN sc.devices
      /\ OpcuaAt(sc) \subseteq DOMAIN sc.devices /\ BacnetAt(sc) \subseteq DOMAIN sc.devices
  BY DEF ModbusAt, PlcAt, OpcuaAt, BacnetAt
<1>4. ASSUME NEW I, I \subseteq DOMAIN sc.devices, NEW s, s = Entries(sc.devices, I)
      PROVE  /\ IsSeq(s) /\ (\A d : Occurs(s, d) => \E i \in DOMAIN sc.devices : d = sc.devices[i])
             /\ \A i \in I : Occurs(s, sc.devices[i])
  <2>1. /\ IsSeq(s) /\ \A k \in 1 .. Len(s) : \E i \in I : s[k] = sc.devices[i]
        /\ \A i \in I : \E k \in 1 .. Len(s) : s[k] = sc.devices[i]
    BY <1>1, <1>4, EntriesAre
  <2> QED
    BY <1>4, <2>1 DEF Occurs
<1>5. /\ IsSeq(m) /\ (\A d : Occurs(m, d) => \E i \in DOMAIN sc.devices : d = sc.devices[i])
      /\ \A i \in ModbusAt(sc) : Occurs(m, sc.devices[i])
  BY <1>2, <1>3, <1>4
<1>6. IsSeq(p) /\ \A d : Occurs(p, d) => \E i \in DOMAIN sc.devices : d = sc.devices[i]
  BY <1>2, <1>3, <1>4
<1>7. IsSeq(o) /\ \A d : Occurs(o, d) => \E i \in DOMAIN sc.devices : d = sc.devices[i]
  BY <1>2, <1>3, <1>4
<1>8. IsSeq(b) /\ \A d : Occurs(b, d) => \E i \in DOMAIN sc.devices : d = sc.devices[i]
  BY <1>2, <1>3, <1>4
<1>9. IsSeq(m \o p) /\ IsSeq(m \o p \o o) /\ IsSeq(m \o p \o o \o b)
  <2>1. IsSeq(m \o p)
    BY <1>5, <1>6, ConcatIs
  <2>2. IsSeq(m \o p \o o)
    BY <1>7, <2>1, ConcatIs
  <2> QED
    BY <1>8, <2>1, <2>2, ConcatIs
<1>10. \A d : Occurs(m \o p \o o \o b, d) <=> Occurs(m, d) \/ Occurs(p, d) \/ Occurs(o, d) \/ Occurs(b, d)
  BY <1>5, <1>6, <1>7, <1>8, <1>9, OccursJoined
<1>11. DeviceSeq(sc) = m \o p \o o \o b
  BY <1>2 DEF DeviceSeq
<1> QED
  BY <1>5, <1>6, <1>7, <1>8, <1>9, <1>10, <1>11

LEMMA DevicePostsAre ==
  ASSUME NEW sc, WellMade(sc)
  PROVE  LET A == DevicePosts(sc)
         IN  /\ IsSeq(A) /\ Only(A, "set-device")
             /\ \A k \in 1 .. Len(A) : \E i \in DOMAIN sc.devices : A[k] = DevicePost(sc.devices[i])
             /\ \A i \in ModbusAt(sc) : \E k \in 1 .. Len(A) : A[k] = DevicePost(sc.devices[i])
<1>1. PICK D : D = DeviceSeq(sc)
  OBVIOUS
<1>2. PICK A : A = DevicePosts(sc)
  OBVIOUS
<1>3. /\ IsSeq(D) /\ \A d : Occurs(D, d) => \E i \in DOMAIN sc.devices : d = sc.devices[i]
      /\ \A i \in ModbusAt(sc) : Occurs(D, sc.devices[i])
  BY <1>1, DeviceSeqIs
<1>4. DOMAIN D = 1 .. Len(D) /\ Len(D) \in Nat
  BY <1>3, IsSeqIs
<1>5. A = [k \in 1 .. Len(D) |-> DevicePost(D[k])]
  BY <1>1, <1>2, <1>4 DEF DevicePosts
<1>6. IsSeq(A) /\ Len(A) = Len(D)
  <2>1. A = [k \in 1 .. Len(D) |-> A[k]]
    BY <1>5
  <2> QED
    BY <1>4, <2>1, FunctionIs
<1>7. \A k \in 1 .. Len(A) : A[k] = DevicePost(D[k]) /\ Occurs(D, D[k])
  BY <1>5, <1>6 DEF Occurs
<1>8. \A k \in 1 .. Len(A) : \E i \in DOMAIN sc.devices : A[k] = DevicePost(sc.devices[i])
  BY <1>3, <1>7
<1>9. \A i \in ModbusAt(sc) : \E k \in 1 .. Len(A) : A[k] = DevicePost(sc.devices[i])
  BY <1>3, <1>6, <1>7 DEF Occurs
<1>10. Only(A, "set-device")
  <2>1. \A d : DevicePost(d).cmd = "set-device"
    BY DEF DevicePost
  <2> QED
    BY <1>7, <2>1 DEF Only
<1> QED
  BY <1>2, <1>6, <1>8, <1>9, <1>10

\* A device whose status the overview or an alarm shows is posted with this tag.
LEMMA LiveTag ==
  ASSUME NEW sc, WellMade(sc), NEW i \in DOMAIN sc.devices, Live(sc.devices[i])
  PROVE  i \in ModbusAt(sc) /\ <<Ns[sc.devices[i].id], "di0">> \in DevicePost(sc.devices[i]).tags
<1>1. PICK d : d = sc.devices[i]
  OBVIOUS
<1>2. d.category = "smart-controller" /\ d.kind \in {"valve", "pump", "vfd", "actuator"}
  BY <1>1 DEF Live
<1>3. Device(sc, d.id) = d /\ d.id \in Ids(sc)
  BY <1>1, DeviceAt
<1>4. d.id \in modbusNodeIds(sc)
  BY <1>2, <1>3 DEF modbusNodeIds, IsA, FieldDevices
<1>5. d.category \notin Plcs /\ d.category # "smart-sensor" /\ d.category \notin Rtus /\ d.kind # "wellhead-controller"
  BY <1>2 DEF Plcs, Rtus
<1>6. Tags(d) = buildControllerModbusTags(d)
  BY <1>2, <1>5 DEF Tags
<1>7. buildControllerModbusTags(d) = {<<Ns[d.id], t>> : t \in {"co0", "di0", "hr0"}}
  BY <1>5 DEF buildControllerModbusTags
<1>8. <<Ns[d.id], "di0">> \in Tags(d)
  BY <1>6, <1>7
<1>9. DevicePost(d).tags = Tags(d)
  BY DEF DevicePost
<1> QED
  BY <1>1, <1>4, <1>5, <1>8, <1>9 DEF ModbusAt

LEMMA LiveBound ==
  ASSUME NEW sc, WellMade(sc), NEW i \in DOMAIN sc.devices, Live(sc.devices[i])
  PROVE  \E k \in DOMAIN DevicePosts(sc) : <<Ns[sc.devices[i].id], "di0">> \in DevicePosts(sc)[k].tags
<1>1. i \in ModbusAt(sc) /\ <<Ns[sc.devices[i].id], "di0">> \in DevicePost(sc.devices[i]).tags
  BY LiveTag
<1>2. PICK A : A = DevicePosts(sc)
  OBVIOUS
<1>3. IsSeq(A) /\ \E k \in 1 .. Len(A) : A[k] = DevicePost(sc.devices[i])
  BY <1>1, <1>2, DevicePostsAre
<1>4. DOMAIN A = 1 .. Len(A)
  BY <1>3, IsSeqIs
<1> QED
  BY <1>1, <1>2, <1>3, <1>4

LEMMA TopologyIs ==
  ASSUME NEW sc, WellMade(sc)
  PROVE  /\ IsSeq(Topology(sc))
         /\ \A k \in DOMAIN Topology(sc) : \E i \in DOMAIN sc.devices : Topology(sc)[k] = sc.devices[i]
<1>1. IsSeq(sc.devices) /\ OtAt(sc) \subseteq DOMAIN sc.devices
  BY DEF WellMade, OtAt
<1>2. PICK t : t = Topology(sc)
  OBVIOUS
<1>3. IsSeq(t) /\ \A k \in 1 .. Len(t) : \E i \in OtAt(sc) : t[k] = sc.devices[i]
  BY <1>1, <1>2, EntriesAre DEF Topology
<1>4. DOMAIN t = 1 .. Len(t)
  BY <1>3, IsSeqIs
<1> QED
  BY <1>1, <1>2, <1>3, <1>4

Commanded == {"set-device", "set-view", "set-placeholder", "set-alarm", "layout", "names"}
LayoutIs == [cmd |-> "layout", key |-> "layout"]

LEMMA ScadaLater ==
  ASSUME NEW sc, WellMade(sc)
  PROVE  /\ AllLater(RtuPost(sc), DevicePosts(sc)) /\ AllLater(ScadaPost(sc), DevicePosts(sc))
         /\ Only(RtuPost(sc), "set-view") /\ Only(ScadaPost(sc), "set-view")
<1>1. PICK A, t : A = DevicePosts(sc) /\ t = Topology(sc)
  OBVIOUS
<1>2. AllLater(RtuPost(sc), A) /\ Only(RtuPost(sc), "set-view")
  <2>1. PICK s : s = RtuPost(sc)
    OBVIOUS
  <2>2. IsSeq(s) /\ (Len(s) = 0 \/ (Len(s) = 1 /\ s[1] = buildRtuOverviewView))
    BY <2>1, WhenIs DEF RtuPost
  <2>3. Later(buildRtuOverviewView, A) /\ buildRtuOverviewView.cmd = "set-view"
    BY DEF Later, buildRtuOverviewView
  <2> QED
    BY <2>1, <2>2, <2>3 DEF AllLater, Only
<1>3. AllLater(ScadaPost(sc), A) /\ Only(ScadaPost(sc), "set-view")
  <2>1. PICK s, p : s = ScadaPost(sc) /\ p = buildScadaOverviewView(t)
    OBVIOUS
  <2>2. IsSeq(s) /\ (Len(s) = 0 \/ (Len(s) = 1 /\ s[1] = p))
    BY <1>1, <2>1, WhenIs DEF ScadaPost
  <2>3. p.cmd = "set-view" /\ p.binds = {<<Ns[t[i].id], "di0">> : i \in {j \in DOMAIN t : Live(t[j])}}
    BY <2>1 DEF buildScadaOverviewView
  <2>4. ASSUME NEW x \in p.binds PROVE \E k \in DOMAIN A : x \in A[k].tags
    <3>1. PICK j \in DOMAIN t : Live(t[j]) /\ x = <<Ns[t[j].id], "di0">>
      BY <2>3, <2>4
    <3>2. PICK i \in DOMAIN sc.devices : t[j] = sc.devices[i]
      BY <1>1, <3>1, TopologyIs
    <3>3. \E k \in DOMAIN A : <<Ns[sc.devices[i].id], "di0">> \in A[k].tags
      BY <1>1, <3>1, <3>2, LiveBound
    <3> QED
      BY <3>1, <3>2, <3>3
  <2>5. Later(p, A)
    BY <2>3, <2>4 DEF Later
  <2> QED
    BY <2>1, <2>2, <2>3, <2>5 DEF AllLater, Only
<1> QED
  BY <1>1, <1>2, <1>3

LEMMA AlarmsLater ==
  ASSUME NEW sc, WellMade(sc)
  PROVE  /\ AllLater(AlarmPosts(sc), DevicePosts(sc)) /\ AllLater(LayoutPost(sc), DevicePosts(sc))
         /\ Only(AlarmPosts(sc), "set-alarm") /\ Only(LayoutPost(sc), "layout")
         /\ Len(AlarmPosts(sc)) # 0 => Len(LayoutPost(sc)) = 1 /\ LayoutPost(sc)[1] = LayoutIs
<1>1. PICK A, t : A = DevicePosts(sc) /\ t = Topology(sc)
  OBVIOUS
<1>2. PICK E, s : E = Entries(t, AlarmedAt(t)) /\ s = AlarmPosts(sc)
  OBVIOUS
<1>3. IsSeq(t) /\ AlarmedAt(t) \subseteq DOMAIN t
  BY <1>1, TopologyIs DEF AlarmedAt
<1>4. s = [k \in DOMAIN E |-> Alarm(E[k])]
  BY <1>1, <1>2 DEF AlarmPosts
<1>5. /\ IsSeq(s) /\ Len(s) = Len(E) /\ Len(E) \in Nat
      /\ \A k \in 1 .. Len(s) : \E j \in AlarmedAt(t) : E[k] = t[j]
  <2>1. s = [k \in DOMAIN E |-> s[k]]
    BY <1>4
  <2>2. PICK I : I = AlarmedAt(t)
    OBVIOUS
  <2>3. I \subseteq DOMAIN t /\ E = Entries(t, I)
    BY <1>2, <1>3, <2>2
  <2> QED
    BY <1>3, <2>1, <2>2, <2>3, MadeOf
<1>6. ASSUME NEW k \in 1 .. Len(s)
      PROVE  s[k].cmd = "set-alarm" /\ \A x \in s[k].binds : \E m \in DOMAIN A : x \in A[m].tags
  <2>1. s[k] = Alarm(E[k])
    <3>1. DOMAIN s = 1 .. Len(s)
      BY <1>5, IsSeqIs
    <3> QED
      BY <1>4, <3>1
  <2>2. PICK j \in DOMAIN t : E[k] = t[j] /\ Live(t[j])
    BY <1>5 DEF AlarmedAt
  <2>3. PICK i \in DOMAIN sc.devices : t[j] = sc.devices[i]
    BY <1>1, TopologyIs
  <2>4. \E m \in DOMAIN A : <<Ns[sc.devices[i].id], "di0">> \in A[m].tags
    BY <1>1, <2>2, <2>3, LiveBound
  <2>5. s[k].cmd = "set-alarm" /\ s[k].binds = {<<Ns[sc.devices[i].id], "di0">>}
    BY <2>1, <2>2, <2>3 DEF Alarm
  <2> QED
    BY <2>4, <2>5
<1>7. AllLater(s, A) /\ Only(s, "set-alarm")
  BY <1>5, <1>6 DEF AllLater, Later, Only
<1>8. PICK l, p : l = LayoutPost(sc) /\ p = LayoutIs
  OBVIOUS
<1>9. /\ IsSeq(l) /\ (Len(l) = 0 \/ (Len(l) = 1 /\ l[1] = p)) /\ (s # <<>> => Len(l) = 1 /\ l[1] = p)
  BY <1>2, <1>8, WhenIs DEF LayoutPost, LayoutIs
<1>10. p.cmd = "layout"
  BY <1>8 DEF LayoutIs
<1>11. AllLater(l, A) /\ Only(l, "layout")
  BY <1>9, <1>10 DEF AllLater, Later, Only
<1>12. Len(s) # 0 => Len(l) = 1 /\ l[1] = LayoutIs
  BY <1>5, <1>8, <1>9, IsSeqIs
<1> QED
  BY <1>1, <1>2, <1>7, <1>8, <1>11, <1>12

LEMMA HmisLater ==
  ASSUME NEW sc, WellMade(sc)
  PROVE  /\ AllLater(NamesPost(sc), DevicePosts(sc)) /\ AllLater(HmiPosts(sc), DevicePosts(sc))
         /\ Only(NamesPost(sc), "names") /\ Only(HmiPosts(sc), "set-placeholder") /\ (Len(HmiPosts(sc)) = 0 => Len(NamesPost(sc)) = 0)
         /\ (Hmis(sc) = <<>> <=> HmiAt(sc) = {})
         /\ \A i \in HmiAt(sc) : \E k \in 1 .. Len(HmiPosts(sc)) :
              /\ HmiPosts(sc)[k].cmd = "set-placeholder"
              /\ HmiPosts(sc)[k].key = buildHmiViewName(sc.devices[i].id)
<1>1. PICK A, E, s : A = DevicePosts(sc) /\ E = Hmis(sc) /\ s = HmiPosts(sc)
  OBVIOUS
<1>2. IsSeq(sc.devices) /\ HmiAt(sc) \subseteq DOMAIN sc.devices
  BY DEF WellMade, HmiAt
<1>3. s = [k \in DOMAIN E |-> [cmd |-> "set-placeholder", binds |-> {}, key |-> buildHmiViewName(E[k].id)]]
  BY <1>1 DEF HmiPosts
<1>4. /\ IsSeq(s) /\ Len(s) = Len(E) /\ Len(E) \in Nat
      /\ \A i \in HmiAt(sc) : \E k \in 1 .. Len(s) : E[k] = sc.devices[i]
      /\ Len(s) # 0 <=> HmiAt(sc) # {}
  <2>1. s = [k \in DOMAIN E |-> s[k]]
    BY <1>3
  <2>2. E = Entries(sc.devices, HmiAt(sc))
    BY <1>1 DEF Hmis
  <2> QED
    BY <1>2, <2>1, <2>2, MadeOf
<1>5. \A k \in 1 .. Len(s) : s[k].cmd = "set-placeholder" /\ s[k].key = buildHmiViewName(E[k].id)
  <2>1. DOMAIN s = 1 .. Len(s)
    BY <1>4, IsSeqIs
  <2> QED
    BY <1>3, <2>1
<1>6. AllLater(s, A) /\ Only(s, "set-placeholder")
  BY <1>4, <1>5 DEF AllLater, Later, Only
<1>7. \A i \in HmiAt(sc) : \E k \in 1 .. Len(s) :
        s[k].cmd = "set-placeholder" /\ s[k].key = buildHmiViewName(sc.devices[i].id)
  <2> SUFFICES ASSUME NEW i \in HmiAt(sc)
               PROVE  \E k \in 1 .. Len(s) : /\ s[k].cmd = "set-placeholder"
                                             /\ s[k].key = buildHmiViewName(sc.devices[i].id)
    OBVIOUS
  <2>1. PICK k \in 1 .. Len(s) : E[k] = sc.devices[i]
    BY <1>4
  <2> QED
    BY <1>5, <2>1
<1>8. E = <<>> <=> Len(E) = 0
  <2>1. IsSeq(E)
    BY <1>1, <1>2, EntriesAre DEF Hmis
  <2> QED
    BY <2>1, IsSeqIs
<1>9. PICK n, p : n = NamesPost(sc) /\ p = [cmd |-> "names", key |-> "names"]
  OBVIOUS
<1>10. /\ IsSeq(n) /\ (Len(n) = 0 \/ (Len(n) = 1 /\ n[1] = p)) /\ (E = <<>> => Len(n) = 0)
  BY <1>1, <1>9, WhenIs DEF NamesPost
<1>11. p.cmd = "names"
  BY <1>9
<1>12. AllLater(n, A) /\ Only(n, "names")
  BY <1>10, <1>11 DEF AllLater, Later, Only
<1> QED
  BY <1>1, <1>4, <1>6, <1>7, <1>8, <1>9, <1>10, <1>12

\* What the posts of a lab provide: devices with their tags before what names them, a
\* layout where there are alarms, a placeholder for every HMI, and the names that are
\* read are used.
Provided(P, sc) ==
  /\ IsSeq(P) /\ EndsWell(P)
  /\ \A k \in 1 .. Len(P) : P[k].cmd \in Commanded
  /\ \A k \in 1 .. Len(P) : P[k].cmd = "set-device" => \E i \in DOMAIN sc.devices : P[k] = DevicePost(sc.devices[i])
  /\ \A k \in 1 .. Len(P) : P[k].cmd \in {"set-view", "set-alarm"} =>
       \A t \in P[k].binds : \E j \in 1 .. k - 1 : P[j].cmd = "set-device" /\ t \in P[j].tags
  /\ (\E k \in 1 .. Len(P) : P[k].cmd = "set-alarm") => \E k \in 1 .. Len(P) : P[k] = LayoutIs
  /\ \A i \in HmiAt(sc) : \E k \in 1 .. Len(P) :
       P[k].cmd = "set-placeholder" /\ P[k].key = buildHmiViewName(sc.devices[i].id)

LEMMA OnlyOccurs == \A s, c, p : Only(s, c) /\ Occurs(s, p) => p.cmd = c
BY DEF Only, Occurs

\* P begins with A, has the entries of all parts, and ends with the last one.
InParts(P, A, r, v, a, l, n, h) ==
  /\ IsSeq(P) /\ Stage(P, A)
  /\ \A p : Occurs(P, p) <=> \/ Occurs(A, p) \/ Occurs(r, p) \/ Occurs(v, p) \/ Occurs(a, p)
                             \/ Occurs(l, p) \/ Occurs(n, p) \/ Occurs(h, p)
  /\ Len(h) # 0 /\ EndsWell(h) => EndsWell(P)

LEMMA PartsJoin ==
  ASSUME NEW A, IsSeq(A), NEW r, AllLater(r, A), NEW v, AllLater(v, A), NEW a, AllLater(a, A),
         NEW l, AllLater(l, A), NEW n, AllLater(n, A), NEW h, AllLater(h, A)
  PROVE  InParts(A \o r \o v \o a \o l \o n \o h, A, r, v, a, l, n, h)
<1>0. PICK P : P = A \o r \o v \o a \o l \o n \o h
  OBVIOUS
<1>1. PICK s1, s2, s3, s4, s5 : /\ s1 = A \o r /\ s2 = s1 \o v /\ s3 = s2 \o a
                                /\ s4 = s3 \o l /\ s5 = s4 \o n
  OBVIOUS
<1>2. P = s5 \o h
  BY <1>0, <1>1
<1>3. IsSeq(r) /\ IsSeq(v) /\ IsSeq(a) /\ IsSeq(l) /\ IsSeq(n) /\ IsSeq(h)
  BY DEF AllLater
<1>4. Stage(A, A)
  <2>1. Len(A) \in Nat
    BY IsSeqIs
  <2> QED
    BY <2>1 DEF Stage
<1>5. Stage(s1, A)
  BY <1>1, <1>4, StageJoined
<1>6. Stage(s2, A)
  BY <1>1, <1>5, StageJoined
<1>7. Stage(s3, A)
  BY <1>1, <1>6, StageJoined
<1>8. Stage(s4, A)
  BY <1>1, <1>7, StageJoined
<1>9. Stage(s5, A)
  BY <1>1, <1>8, StageJoined
<1>10. Stage(P, A)
  BY <1>2, <1>9, StageJoined
<1>11. IsSeq(s1) /\ IsSeq(s2) /\ IsSeq(s3) /\ IsSeq(s4) /\ IsSeq(s5) /\ IsSeq(P)
  BY <1>5, <1>6, <1>7, <1>8, <1>9, <1>10 DEF Stage
<1>12. \A p : Occurs(s2, p) <=> Occurs(A, p) \/ Occurs(r, p) \/ Occurs(v, p)
  BY <1>1, <1>3, <1>11, OccursJoined
<1>13. \A p : Occurs(s4, p) <=> Occurs(s2, p) \/ Occurs(a, p) \/ Occurs(l, p)
  BY <1>1, <1>3, <1>11, OccursJoined
<1>14. \A p : Occurs(P, p) <=> Occurs(s4, p) \/ Occurs(n, p) \/ Occurs(h, p)
  BY <1>1, <1>2, <1>3, <1>11, OccursJoined
<1>15. Len(h) # 0 /\ EndsWell(h) => EndsWell(P)
  BY <1>2, <1>3, <1>11, EndsJoined
<1>16. InParts(P, A, r, v, a, l, n, h)
  BY <1>10, <1>11, <1>12, <1>13, <1>14, <1>15 DEF InParts
<1> QED
  BY <1>0, <1>16

LEMMA StageOrders ==
  ASSUME NEW A, IsSeq(A), Only(A, "set-device"), NEW P, Stage(P, A)
  PROVE  /\ \A k \in 1 .. Len(P) : P[k].cmd \in Commanded
         /\ \A k \in 1 .. Len(P) : P[k].cmd = "set-device" => \E i \in 1 .. Len(A) : P[k] = A[i]
         /\ \A k \in 1 .. Len(P) : P[k].cmd \in {"set-view", "set-alarm"} =>
              \A t \in P[k].binds : \E j \in 1 .. k - 1 : P[j].cmd = "set-device" /\ t \in P[j].tags
<1>1. PICK m, a : m = Len(P) /\ a = Len(A)
  OBVIOUS
<1>2. m \in Nat /\ a \in Nat /\ a <= m /\ DOMAIN A = 1 .. a
  BY <1>1, IsSeqIs DEF Stage
<1>3. \A i \in 1 .. a : P[i] = A[i] /\ P[i].cmd = "set-device"
  BY <1>1 DEF Stage, Only
<1>4. \A k \in 1 .. m : k > a => Later(P[k], A)
  BY <1>1 DEF Stage
<1>5. \A k \in 1 .. m : k > a => P[k].cmd # "set-device" /\ P[k].cmd \in Commanded
  BY <1>4 DEF Later, Commanded
<1>6. ASSUME NEW k \in 1 .. m, P[k].cmd \in {"set-view", "set-alarm"}, NEW t \in P[k].binds
      PROVE  \E j \in 1 .. k - 1 : P[j].cmd = "set-device" /\ t \in P[j].tags
  <2>1. k > a
    BY <1>2, <1>3, <1>6
  <2>2. PICK j \in 1 .. a : t \in A[j].tags
    BY <1>2, <1>4, <1>6, <2>1 DEF Later
  <2>3. j \in 1 .. k - 1
    BY <1>2, <2>1
  <2> QED
    BY <1>3, <2>2, <2>3
<1>7. \A k \in 1 .. m : P[k].cmd \in Commanded
  BY <1>2, <1>3, <1>5 DEF Commanded
<1>8. \A k \in 1 .. m : P[k].cmd = "set-device" => \E i \in 1 .. a : P[k] = A[i]
  BY <1>2, <1>3, <1>5
<1> QED
  BY <1>1, <1>6, <1>7, <1>8

LEMMA PostsProvide ==
  ASSUME NEW sc, WellMade(sc)
  PROVE  Provided(Posts(sc), sc)
<1>1. PICK A, r, v, a, l, n, h :
        /\ A = DevicePosts(sc) /\ r = RtuPost(sc) /\ v = ScadaPost(sc) /\ a = AlarmPosts(sc)
        /\ l = LayoutPost(sc) /\ n = NamesPost(sc) /\ h = HmiPosts(sc)
  OBVIOUS
<1>2. /\ AllLater(r, A) /\ AllLater(v, A) /\ AllLater(a, A) /\ AllLater(l, A) /\ AllLater(n, A) /\ AllLater(h, A)
      /\ IsSeq(A) /\ Only(A, "set-device") /\ Only(r, "set-view") /\ Only(v, "set-view") /\ Only(a, "set-alarm")
      /\ Only(l, "layout") /\ Only(n, "names") /\ Only(h, "set-placeholder")
  BY <1>1, DevicePostsAre, ScadaLater, AlarmsLater, HmisLater
<1>3. /\ \A k \in 1 .. Len(A) : \E i \in DOMAIN sc.devices : A[k] = DevicePost(sc.devices[i])
      /\ Len(a) # 0 => Len(l) = 1 /\ l[1] = LayoutIs
      /\ Len(h) = 0 => Len(n) = 0
      /\ Hmis(sc) = <<>> <=> HmiAt(sc) = {}
      /\ \A i \in HmiAt(sc) : \E k \in 1 .. Len(h) :
           h[k].cmd = "set-placeholder" /\ h[k].key = buildHmiViewName(sc.devices[i].id)
  BY <1>1, DevicePostsAre, AlarmsLater, HmisLater
<1>4. CASE Posts(sc) = <<>> /\ HmiAt(sc) = {}
  <2>1. PICK P : P = Posts(sc)
    OBVIOUS
  <2>2. IsSeq(P) /\ Len(P) = 0
    BY <1>4, <2>1 DEF IsSeq
  <2>3. \A k \in 1 .. Len(P) : FALSE
    BY <2>2
  <2>4. Provided(P, sc)
    BY <1>4, <2>2, <2>3 DEF Provided, EndsWell
  <2> QED
    BY <2>1, <2>4
<1>5. CASE Posts(sc) = A \o r \o v \o a \o l \o n \o h
  <2>1. PICK P : P = A \o r \o v \o a \o l \o n \o h
    OBVIOUS
  <2>2. /\ IsSeq(P) /\ Stage(P, A)
        /\ \A p : Occurs(P, p) <=> \/ Occurs(A, p) \/ Occurs(r, p) \/ Occurs(v, p) \/ Occurs(a, p)
                                   \/ Occurs(l, p) \/ Occurs(n, p) \/ Occurs(h, p)
        /\ Len(h) # 0 /\ EndsWell(h) => EndsWell(P)
    <3>1. InParts(A \o r \o v \o a \o l \o n \o h, A, r, v, a, l, n, h)
      BY <1>2, PartsJoin
    <3>2. InParts(P, A, r, v, a, l, n, h)
      BY <2>1, <3>1
    <3> QED
      BY <3>2 DEF InParts
  <2>3. Len(P) \in Nat /\ Len(h) \in Nat
    BY <1>2, <2>2, IsSeqIs DEF AllLater
  <2>4. EndsWell(P)
    <3>1. CASE Len(h) # 0
      <4>1. Len(h) \in 1 .. Len(h)
        BY <2>3, <3>1
      <4>2. EndsWell(h)
        BY <1>2, <4>1 DEF EndsWell, Only
      <4> QED
        BY <2>2, <3>1, <4>2
    <3>2. CASE Len(h) = 0
      <4>1. \A p : ~Occurs(n, p)
        BY <1>3, <3>2 DEF Occurs
      <4>2. \A p : Occurs(P, p) => p.cmd # "names"
        <5>1. "set-device" # "names" /\ "set-view" # "names" /\ "set-alarm" # "names"
              /\ "layout" # "names" /\ "set-placeholder" # "names"
          OBVIOUS
        <5> QED
          BY <1>2, <2>2, <4>1, <5>1, OnlyOccurs
      <4>3. ASSUME Len(P) # 0 PROVE P[Len(P)].cmd # "names"
        <5>1. Occurs(P, P[Len(P)])
          BY <2>3, <4>3 DEF Occurs
        <5> QED
          BY <4>2, <5>1
      <4> QED
        BY <4>3 DEF EndsWell
    <3> QED
      BY <3>1, <3>2
  <2>5. ASSUME NEW k \in 1 .. Len(P), P[k].cmd = "set-alarm"
        PROVE  \E j \in 1 .. Len(P) : P[j] = LayoutIs
    <3>1. PICK p : p = P[k]
      OBVIOUS
    <3>2. Occurs(P, p) /\ p.cmd = "set-alarm"
      BY <2>5, <3>1 DEF Occurs
    <3>3. Occurs(a, p)
      BY <1>2, <2>2, <3>2, OnlyOccurs
    <3>4. Len(a) # 0
      <4>1. IsSeq(a)
        BY <1>2 DEF AllLater
      <4>2. Len(a) \in Nat
        BY <4>1, IsSeqIs
      <4> QED
        BY <3>3, <4>2 DEF Occurs
    <3>5. Occurs(l, LayoutIs)
      BY <1>3, <3>4 DEF Occurs
    <3>6. Occurs(P, LayoutIs)
      BY <2>2, <3>5
    <3> QED
      BY <3>6 DEF Occurs
  <2>6. ASSUME NEW i \in HmiAt(sc)
        PROVE  \E k \in 1 .. Len(P) : /\ P[k].cmd = "set-placeholder"
                                      /\ P[k].key = buildHmiViewName(sc.devices[i].id)
    <3>1. PICK k \in 1 .. Len(h) : h[k].cmd = "set-placeholder" /\ h[k].key = buildHmiViewName(sc.devices[i].id)
      BY <1>3
    <3>2. Occurs(P, h[k])
      BY <2>2, <3>1 DEF Occurs
    <3> QED
      BY <3>1, <3>2 DEF Occurs
  <2>7. /\ \A k \in 1 .. Len(P) : P[k].cmd \in Commanded
        /\ \A k \in 1 .. Len(P) : P[k].cmd = "set-device" => \E i \in 1 .. Len(A) : P[k] = A[i]
        /\ \A k \in 1 .. Len(P) : P[k].cmd \in {"set-view", "set-alarm"} =>
             \A t \in P[k].binds : \E j \in 1 .. k - 1 : P[j].cmd = "set-device" /\ t \in P[j].tags
    BY <1>2, <2>2, StageOrders
  <2>8. Provided(P, sc)
    BY <1>3, <2>2, <2>4, <2>5, <2>6, <2>7 DEF Provided
  <2> QED
    BY <1>5, <2>1, <2>8
<1> QED
  BY <1>1, <1>3, <1>4, <1>5, PostsAreThese

-----------------------------------------------------------------------------
(* The project of the running FUXA.                                        *)

\* The post was made, or lost.
Done(p, f) ==
  /\ p.cmd = "set-device" => p.key \in DOMAIN f.devices \/ <<p.cmd, p.key>> \in f.lost
  /\ p.cmd = "layout" => f.bell \/ <<p.cmd, p.key>> \in f.lost
  /\ p.cmd = "set-placeholder" => p.key \in DOMAIN f.views \/ <<p.cmd, p.key>> \in f.lost

\* No task of this lab has the i-th post before it; a task whose lab was stopped posts
\* for another lab.
Past(i, ts, P) == \A n \in DOMAIN ts : ts[n].stale \/ i <= Len(P) - Len(ts[n].todo)

\* The tag belongs to a device whose post was made, or lost.
Covered(t, f, P) == \E k \in 1 .. Len(P) : P[k].cmd = "set-device" /\ t \in P[k].tags /\ Done(P[k], f)

TaskOk(t) ==
  /\ DOMAIN t = {"todo", "names", "stale"} /\ t.stale \in BOOLEAN
  /\ IsSeq(t.todo) /\ t.todo # <<>> /\ EndsWell(t.todo)
  /\ \A i \in 1 .. Len(t.todo) : t.todo[i].cmd \in Commanded

\* At most one task is of this lab; it has read no name but those of views there are.
TasksOk(ts, P, V) ==
  /\ \A m, n \in DOMAIN ts : ~ts[m].stale /\ ~ts[n].stale => m = n
  /\ \A n \in DOMAIN ts : ~ts[n].stale => Left(ts[n].todo, P) /\ ts[n].names \subseteq V

ProjectFields == {"devices", "views", "alarms", "bell", "lost", "mixed"}

\* What the project holds is of the posts behind, and those are in it or lost.
ContentOk(f, ts, P) ==
  /\ \A i \in 1 .. Len(P) : Past(i, ts, P) => Done(P[i], f)
  /\ \A x \in DOMAIN f.devices : \E k \in 1 .. Len(P) :
       P[k].cmd = "set-device" /\ P[k].key = x /\ f.devices[x].tags = P[k].tags
  /\ \A v \in DOMAIN f.views : \A t \in f.views[v].binds : Covered(t, f, P)
  /\ \A a \in DOMAIN f.alarms : \A t \in f.alarms[a] : Covered(t, f, P)
  /\ f.alarms # <<>> => \E k \in 1 .. Len(P) : P[k].cmd = "set-alarm"

HmiInv ==
  /\ \A n \in DOMAIN tasks : TaskOk(tasks[n])
  /\ ~up => fuxa = None /\ \A n \in DOMAIN tasks : tasks[n].stale
  /\ fuxa # None => /\ DOMAIN fuxa = ProjectFields /\ fuxa.mixed \in BOOLEAN
                    /\ TasksOk(tasks, Posts(lab), DOMAIN fuxa.views)
                    /\ ~fuxa.mixed => ContentOk(fuxa, tasks, Posts(lab))

\* Nothing that was posted, shown or lost is forgotten.
Grown(f, g) ==
  /\ DOMAIN g = ProjectFields
  /\ DOMAIN f.devices \subseteq DOMAIN g.devices /\ DOMAIN f.views \subseteq DOMAIN g.views
  /\ f.lost \subseteq g.lost /\ (f.bell => g.bell)

\* All that is new is of the post p, but for views that bind nothing.
Wrote(f, g, p) ==
  /\ \A x \in DOMAIN g.devices :
       \/ x \in DOMAIN f.devices /\ g.devices[x] = f.devices[x]
       \/ p.cmd = "set-device" /\ x = p.key /\ g.devices[x].tags = p.tags
  /\ \A v \in DOMAIN g.views :
       \/ g.views[v].binds = {} \/ (v \in DOMAIN f.views /\ g.views[v].binds = f.views[v].binds)
       \/ p.cmd = "set-view" /\ g.views[v].binds = p.binds
  /\ \A a \in DOMAIN g.alarms :
       \/ a \in DOMAIN f.alarms /\ g.alarms[a] = f.alarms[a]
       \/ p.cmd = "set-alarm" /\ g.alarms[a] = p.binds
  /\ g.alarms # <<>> => f.alarms # <<>> \/ p.cmd = "set-alarm"

LEMMA DoneGrown ==
  ASSUME NEW f, NEW g, Grown(f, g), NEW p, Done(p, f)
  PROVE  Done(p, g)
BY DEF Grown, Done

\* A post of the lab that comes when all before it are behind leaves the content right.
LEMMA ContentKept ==
  ASSUME NEW f, NEW g, NEW ts, NEW us, NEW P, NEW sc, NEW p,
         Provided(P, sc), ContentOk(f, ts, P), Grown(f, g), Wrote(f, g, p),
         \A i \in 1 .. Len(P) : Past(i, us, P) => Past(i, ts, P) \/ Done(P[i], g),
         p.cmd \in {"set-device", "set-view", "set-alarm"} =>
           \E i \in 1 .. Len(P) : P[i] = p /\ \A j \in 1 .. i - 1 : Past(j, ts, P)
  PROVE  ContentOk(g, us, P)
<1>1. PICK m : m = Len(P)
  OBVIOUS
<1>2. m \in Nat
  BY <1>1, IsSeqIs DEF Provided
<1>3. \A i \in 1 .. m : Past(i, us, P) => Done(P[i], g)
  <2>1. \A i \in 1 .. m : Past(i, ts, P) => Done(P[i], f)
    BY <1>1 DEF ContentOk
  <2> QED
    BY <1>1, <2>1, DoneGrown
<1>4. \A t : Covered(t, f, P) => Covered(t, g, P)
  BY DoneGrown DEF Covered
<1>5. ASSUME p.cmd \in {"set-view", "set-alarm"}, NEW t \in p.binds
      PROVE  Covered(t, g, P)
  <2>1. PICK i \in 1 .. m : P[i] = p /\ \A j \in 1 .. i - 1 : Past(j, ts, P)
    BY <1>1, <1>5
  <2>2. PICK j \in 1 .. i - 1 : P[j].cmd = "set-device" /\ t \in P[j].tags
    BY <1>1, <1>5, <2>1 DEF Provided
  <2>3. j \in 1 .. m /\ Past(j, ts, P)
    BY <1>2, <2>1
  <2>4. Done(P[j], f)
    BY <1>1, <2>3 DEF ContentOk
  <2>5. Covered(t, f, P)
    BY <1>1, <2>2, <2>3, <2>4 DEF Covered
  <2> QED
    BY <1>4, <2>5
<1>6. \A x \in DOMAIN g.devices : \E k \in 1 .. m :
        P[k].cmd = "set-device" /\ P[k].key = x /\ g.devices[x].tags = P[k].tags
  <2> SUFFICES ASSUME NEW x \in DOMAIN g.devices
               PROVE  \E k \in 1 .. m : P[k].cmd = "set-device" /\ P[k].key = x /\ g.devices[x].tags = P[k].tags
    OBVIOUS
  <2>1. CASE x \in DOMAIN f.devices /\ g.devices[x] = f.devices[x]
    BY <1>1, <2>1 DEF ContentOk
  <2>2. CASE p.cmd = "set-device" /\ x = p.key /\ g.devices[x].tags = p.tags
    <3>1. PICK i \in 1 .. m : P[i] = p
      BY <1>1, <2>2
    <3> QED
      BY <2>2, <3>1
  <2> QED
    BY <2>1, <2>2 DEF Wrote
<1>7. ASSUME NEW v \in DOMAIN g.views, NEW t \in g.views[v].binds PROVE Covered(t, g, P)
  <2>1. CASE v \in DOMAIN f.views /\ g.views[v].binds = f.views[v].binds
    <3>1. Covered(t, f, P)
      BY <1>7, <2>1 DEF ContentOk
    <3> QED
      BY <1>4, <3>1
  <2>2. CASE p.cmd = "set-view" /\ g.views[v].binds = p.binds
    BY <1>5, <1>7, <2>2
  <2> QED
    BY <1>7, <2>1, <2>2 DEF Wrote
<1>8. ASSUME NEW a \in DOMAIN g.alarms, NEW t \in g.alarms[a] PROVE Covered(t, g, P)
  <2>1. CASE a \in DOMAIN f.alarms /\ g.alarms[a] = f.alarms[a]
    <3>1. Covered(t, f, P)
      BY <1>8, <2>1 DEF ContentOk
    <3> QED
      BY <1>4, <3>1
  <2>2. CASE p.cmd = "set-alarm" /\ g.alarms[a] = p.binds
    BY <1>5, <1>8, <2>2
  <2> QED
    BY <2>1, <2>2 DEF Wrote
<1>9. g.alarms # <<>> => \E k \in 1 .. m : P[k].cmd = "set-alarm"
  <2>1. ASSUME p.cmd = "set-alarm" PROVE \E k \in 1 .. m : P[k].cmd = "set-alarm"
    BY <1>1, <2>1
  <2>2. f.alarms # <<>> => \E k \in 1 .. m : P[k].cmd = "set-alarm"
    BY <1>1 DEF ContentOk
  <2>3. g.alarms # <<>> => f.alarms # <<>> \/ p.cmd = "set-alarm"
    BY DEF Wrote
  <2> QED
    BY <2>1, <2>2, <2>3
<1> QED
  BY <1>1, <1>3, <1>6, <1>7, <1>8, <1>9 DEF ContentOk

\* One task goes on to its next post, or ends with its last.
Stepped(ts, us, n, V) ==
  /\ n \in DOMAIN ts /\ DOMAIN ts \ {n} \subseteq DOMAIN us /\ DOMAIN us \subseteq DOMAIN ts
  /\ \A m \in DOMAIN us : m # n => us[m] = ts[m]
  /\ n \in DOMAIN us => /\ us[n].todo = Tail(ts[n].todo) /\ us[n].todo # <<>> /\ DOMAIN us[n] = DOMAIN ts[n]
                        /\ us[n].stale = ts[n].stale /\ us[n].names \subseteq ts[n].names \cup V
  /\ n \notin DOMAIN us => Tail(ts[n].todo) = <<>>

LEMMA TaskTail ==
  ASSUME NEW t, TaskOk(t), NEW u, DOMAIN u = DOMAIN t, u.stale = t.stale, u.todo = Tail(t.todo), u.todo # <<>>
  PROVE  TaskOk(u)
<1>1. PICK s, r, m : s = t.todo /\ r = u.todo /\ m = Len(s)
  OBVIOUS
<1>2. IsSeq(s) /\ s # <<>> /\ EndsWell(s) /\ (\A i \in 1 .. m : s[i].cmd \in Commanded) /\ r = Tail(s)
  BY <1>1 DEF TaskOk
<1>3. m \in Nat /\ m # 0
  BY <1>1, <1>2, IsSeqIs
<1>4. IsSeq(r) /\ Len(r) = m - 1 /\ \A i \in 1 .. m - 1 : r[i] = s[i + 1]
  BY <1>1, <1>2, TailIs
<1>5. m - 1 # 0
  BY <1>1, <1>4, IsSeqIs
<1>6. m - 1 \in 1 .. m - 1 /\ m - 1 + 1 = m
  BY <1>3, <1>5
<1>7. r[m - 1] = s[m]
  BY <1>4, <1>6
<1>8. EndsWell(r)
  BY <1>1, <1>2, <1>3, <1>4, <1>7 DEF EndsWell
<1>9. \A i \in 1 .. m - 1 : r[i].cmd \in Commanded
  <2> SUFFICES ASSUME NEW i \in 1 .. m - 1 PROVE r[i].cmd \in Commanded
    OBVIOUS
  <2>1. i + 1 \in 1 .. m
    BY <1>3
  <2> QED
    BY <1>2, <1>4, <2>1
<1> QED
  BY <1>1, <1>4, <1>8, <1>9 DEF TaskOk

LEMMA TasksStepped ==
  ASSUME NEW ts, NEW us, NEW n, NEW U, NEW V, NEW W, NEW P, IsSeq(P), \A m \in DOMAIN ts : TaskOk(ts[m]),
         TasksOk(ts, P, U), Stepped(ts, us, n, V), U \subseteq W, V \subseteq W
  PROVE  (\A m \in DOMAIN us : TaskOk(us[m])) /\ TasksOk(us, P, W)
<1>1. \A m \in DOMAIN us : m # n => us[m] = ts[m] /\ m \in DOMAIN ts
  BY DEF Stepped
<1>2. n \in DOMAIN ts /\ TaskOk(ts[n])
  BY DEF Stepped
<1>3. ASSUME n \in DOMAIN us
      PROVE  /\ us[n].stale = ts[n].stale /\ TaskOk(us[n])
             /\ ~us[n].stale => Left(us[n].todo, P) /\ us[n].names \subseteq W
  <2>1. /\ us[n].todo = Tail(ts[n].todo) /\ us[n].todo # <<>> /\ DOMAIN us[n] = DOMAIN ts[n]
        /\ us[n].stale = ts[n].stale /\ us[n].names \subseteq ts[n].names \cup V
    BY <1>3 DEF Stepped
  <2>2. TaskOk(us[n])
    BY <1>2, <2>1, TaskTail
  <2>3. ASSUME ~us[n].stale PROVE Left(us[n].todo, P) /\ us[n].names \subseteq W
    <3>1. Left(ts[n].todo, P) /\ ts[n].names \subseteq U
      BY <1>2, <2>1, <2>3 DEF TasksOk
    <3>2. ts[n].todo # <<>>
      BY <1>2 DEF TaskOk
    <3>3. Left(Tail(ts[n].todo), P)
      BY <3>1, <3>2, LeftTail
    <3> QED
      BY <2>1, <3>1, <3>3
  <2> QED
    BY <2>1, <2>2, <2>3
<1>4. \A m \in DOMAIN us : TaskOk(us[m])
  BY <1>1, <1>3
<1>5. \A m \in DOMAIN us : m \in DOMAIN ts /\ us[m].stale = ts[m].stale
  BY <1>1, <1>2, <1>3
<1>6. ASSUME NEW m \in DOMAIN us, ~us[m].stale PROVE Left(us[m].todo, P) /\ us[m].names \subseteq W
  <2>1. CASE m = n
    BY <1>3, <1>6, <2>1
  <2>2. CASE m # n
    BY <1>1, <1>6, <2>2 DEF TasksOk
  <2> QED
    BY <2>1, <2>2
<1> QED
  BY <1>4, <1>5, <1>6 DEF TasksOk

\* What is behind a lab after one of its tasks' posts: the same, and that post.
LEMMA PastStepped ==
  ASSUME NEW ts, NEW us, NEW n, NEW U, NEW V, NEW P, IsSeq(P), \A m \in DOMAIN ts : TaskOk(ts[m]),
         TasksOk(ts, P, U), Stepped(ts, us, n, V)
  PROVE  /\ ts[n].stale => \A i \in 1 .. Len(P) : Past(i, us, P) => Past(i, ts, P)
         /\ ~ts[n].stale => \E k \in 1 .. Len(P) :
              /\ P[k] = Head(ts[n].todo) /\ \A j \in 1 .. k - 1 : Past(j, ts, P)
              /\ \A i \in 1 .. Len(P) : Past(i, us, P) => Past(i, ts, P) \/ i = k
<1>1. PICK s, m, l : s = ts[n].todo /\ m = Len(P) /\ l = Len(s)
  OBVIOUS
<1>2. n \in DOMAIN ts /\ TaskOk(ts[n])
  BY DEF Stepped
<1>3. m \in Nat /\ IsSeq(s) /\ s # <<>>
  BY <1>1, <1>2, IsSeqIs DEF TaskOk
<1>4. l \in Nat /\ l # 0 /\ Len(Tail(s)) = l - 1
  BY <1>1, <1>3, IsSeqIs, TailIs
<1>5. \A q \in DOMAIN ts : q # n => q \in DOMAIN us /\ us[q] = ts[q]
  BY DEF Stepped
<1>6. ASSUME ts[n].stale, NEW i \in 1 .. m, Past(i, us, P) PROVE Past(i, ts, P)
  BY <1>5, <1>6 DEF Past
<1>7. ASSUME ~ts[n].stale
      PROVE  \E k \in 1 .. m :
              /\ P[k] = Head(ts[n].todo) /\ \A j \in 1 .. k - 1 : Past(j, ts, P)
              /\ \A i \in 1 .. m : Past(i, us, P) => Past(i, ts, P) \/ i = k
  <2>1. \A q \in DOMAIN ts : ts[q].stale \/ q = n
    BY <1>2, <1>7 DEF TasksOk
  <2>2. Left(s, P)
    BY <1>1, <1>2, <1>7 DEF TasksOk
  <2>3. l <= m
    BY <1>1, <2>2 DEF Left
  <2>4. Head(s) = P[m - l + 1]
    BY <1>1, <1>3, <2>2, LeftTail
  <2>5. PICK k : k = m - l + 1
    OBVIOUS
  <2>6. k \in 1 .. m
    BY <1>3, <1>4, <2>3, <2>5
  <2>7. ASSUME NEW j \in 1 .. k - 1 PROVE Past(j, ts, P)
    <3>1. j <= m - l
      BY <1>3, <1>4, <2>5
    <3> QED
      BY <1>1, <2>1, <3>1 DEF Past
  <2>8. ASSUME NEW i \in 1 .. m, Past(i, us, P), i # k PROVE Past(i, ts, P)
    <3>1. i <= k
      <4>1. CASE n \in DOMAIN us
        <5>1. us[n].todo = Tail(s) /\ ~us[n].stale
          BY <1>1, <1>7, <4>1 DEF Stepped
        <5>2. i <= m - (l - 1)
          BY <1>1, <1>4, <2>8, <4>1, <5>1 DEF Past
        <5> QED
          BY <1>3, <1>4, <2>5, <5>2
      <4>2. CASE n \notin DOMAIN us
        <5>1. Tail(s) = <<>>
          BY <1>1, <4>2 DEF Stepped
        <5>2. l - 1 = 0
          BY <1>3, <1>4, <5>1
        <5> QED
          BY <1>3, <1>4, <2>5, <5>2
      <4> QED
        BY <4>1, <4>2
    <3>2. i \in 1 .. k - 1
      BY <1>3, <1>4, <2>5, <2>8, <3>1
    <3> QED
      BY <2>7, <3>2
  <2> QED
    BY <1>1, <2>4, <2>5, <2>6, <2>7, <2>8
<1> QED
  BY <1>1, <1>6, <1>7

LEMMA AdvancedSteps ==
  ASSUME NEW n \in DOMAIN tasks, TaskOk(tasks[n]), tasks' = Advanced(n)
  PROVE  Stepped(tasks, tasks', n, {})
<1>1. PICK rest : rest = [tasks[n] EXCEPT !.todo = Tail(@)]
  OBVIOUS
<1>2. rest.todo = Tail(tasks[n].todo) /\ DOMAIN rest = DOMAIN tasks[n] /\ rest.stale = tasks[n].stale
      /\ rest.names = tasks[n].names
  BY <1>1 DEF TaskOk
<1>3. CASE rest.todo = <<>>
  <2>1. tasks' = [m \in DOMAIN tasks \ {n} |-> tasks[m]]
    BY <1>1, <1>3 DEF Advanced
  <2>2. DOMAIN tasks' = DOMAIN tasks \ {n} /\ \A m \in DOMAIN tasks' : tasks'[m] = tasks[m]
    BY <2>1
  <2> QED
    BY <1>2, <1>3, <2>2 DEF Stepped
<1>4. CASE rest.todo # <<>>
  <2>1. tasks' = [tasks EXCEPT ![n] = rest]
    BY <1>1, <1>4 DEF Advanced
  <2>2. DOMAIN tasks' = DOMAIN tasks /\ tasks'[n] = rest /\ \A m \in DOMAIN tasks : m # n => tasks'[m] = tasks[m]
    BY <2>1
  <2> QED
    BY <1>2, <1>4, <2>2 DEF Stepped
<1> QED
  BY <1>3, <1>4

\* A record of the project with one field replaced, and with another mark of mixing.
LEMMA AppliedGrows ==
  ASSUME NEW f, DOMAIN f = ProjectFields, NEW p, p.cmd \in Commanded, p.cmd # "names", NEW mixed \in BOOLEAN,
         NEW g, g = [Applied(f, p) EXCEPT !.mixed = mixed]
  PROVE  Grown(f, g) /\ Wrote(f, g, p) /\ Done(p, g) /\ g.mixed = mixed
<1>0. /\ "devices" # "views" /\ "devices" # "alarms" /\ "views" # "alarms"
      /\ "set-device" # "set-view" /\ "set-device" # "set-placeholder" /\ "set-device" # "set-alarm"
      /\ "set-device" # "layout" /\ "set-view" # "set-placeholder" /\ "set-view" # "set-alarm"
      /\ "set-view" # "layout" /\ "set-placeholder" # "set-alarm" /\ "set-placeholder" # "layout"
      /\ "set-alarm" # "layout"
  OBVIOUS
<1>1. CASE p.cmd = "set-device"
  <2>1. PICK new : new = [tags |-> p.tags, address |-> p.address]
    OBVIOUS
  <2>2. PICK devices : devices = Merge(f.devices, [x \in {p.key} |-> new])
    OBVIOUS
  <2>3. Applied(f, p) = [f EXCEPT !.devices = devices]
    BY <1>1, <2>1, <2>2 DEF Applied
  <2>4. /\ DOMAIN g = ProjectFields /\ g.devices = devices /\ g.views = f.views /\ g.alarms = f.alarms
        /\ g.bell = f.bell /\ g.lost = f.lost /\ g.mixed = mixed
    BY <2>3 DEF ProjectFields
  <2>5. /\ DOMAIN devices = DOMAIN f.devices \cup {p.key} /\ devices[p.key].tags = p.tags
        /\ \A x \in DOMAIN f.devices : x # p.key => devices[x] = f.devices[x]
    BY <2>1, <2>2 DEF Merge
  <2>6. \A x \in DOMAIN g.devices : \/ x \in DOMAIN f.devices /\ g.devices[x] = f.devices[x]
                                    \/ p.cmd = "set-device" /\ x = p.key /\ g.devices[x].tags = p.tags
    BY <1>1, <2>4, <2>5
  <2>7. Grown(f, g)
    BY <2>4, <2>5 DEF Grown
  <2>8. Wrote(f, g, p)
    BY <2>4, <2>6 DEF Wrote
  <2>9. Done(p, g)
    BY <1>0, <1>1, <2>4, <2>5 DEF Done
  <2> QED
    BY <2>4, <2>7, <2>8, <2>9
<1>2. CASE p.cmd \in {"set-view", "set-placeholder"}
  <2>1. PICK binds : binds = IF p.cmd = "set-view" THEN p.binds ELSE {}
    OBVIOUS
  <2>2. PICK new : new = [binds |-> binds, by |-> "task"]
    OBVIOUS
  <2>3. PICK views : views = Merge(f.views, [x \in {p.key} |-> new])
    OBVIOUS
  <2>4. Applied(f, p) = [f EXCEPT !.views = views]
    <3>1. CASE p.cmd = "set-view"
      BY <1>0, <2>1, <2>2, <2>3, <3>1 DEF Applied
    <3>2. CASE p.cmd = "set-placeholder"
      BY <1>0, <2>1, <2>2, <2>3, <3>2 DEF Applied
    <3> QED
      BY <1>2, <3>1, <3>2
  <2>5. /\ DOMAIN g = ProjectFields /\ g.devices = f.devices /\ g.views = views /\ g.alarms = f.alarms
        /\ g.bell = f.bell /\ g.lost = f.lost /\ g.mixed = mixed
    BY <2>4 DEF ProjectFields
  <2>6. /\ DOMAIN views = DOMAIN f.views \cup {p.key} /\ views[p.key].binds = binds
        /\ \A x \in DOMAIN f.views : x # p.key => views[x] = f.views[x]
    BY <2>2, <2>3 DEF Merge
  <2>7. \A v \in DOMAIN g.views :
       \/ g.views[v].binds = {} \/ (v \in DOMAIN f.views /\ g.views[v].binds = f.views[v].binds)
       \/ p.cmd = "set-view" /\ g.views[v].binds = p.binds
    BY <2>1, <2>5, <2>6
  <2>8. Grown(f, g)
    BY <2>5, <2>6 DEF Grown
  <2>9. Wrote(f, g, p)
    BY <2>5, <2>7 DEF Wrote
  <2>10. Done(p, g)
    <3>1. p.cmd # "set-device" /\ p.cmd # "layout" /\ p.key \in DOMAIN g.views
      BY <1>0, <1>2, <2>5, <2>6
    <3> QED
      BY <3>1 DEF Done
  <2> QED
    BY <2>5, <2>8, <2>9, <2>10
<1>3. CASE p.cmd = "set-alarm"
  <2>1. PICK alarms : alarms = Merge(f.alarms, [x \in {p.key} |-> p.binds])
    OBVIOUS
  <2>2. Applied(f, p) = [f EXCEPT !.alarms = alarms]
    BY <1>0, <1>3, <2>1 DEF Applied
  <2>3. /\ DOMAIN g = ProjectFields /\ g.devices = f.devices /\ g.views = f.views /\ g.alarms = alarms
        /\ g.bell = f.bell /\ g.lost = f.lost /\ g.mixed = mixed
    BY <2>2 DEF ProjectFields
  <2>4. /\ DOMAIN alarms = DOMAIN f.alarms \cup {p.key} /\ alarms[p.key] = p.binds
        /\ \A x \in DOMAIN f.alarms : x # p.key => alarms[x] = f.alarms[x]
    BY <2>1 DEF Merge
  <2>5. \A a \in DOMAIN g.alarms : \/ a \in DOMAIN f.alarms /\ g.alarms[a] = f.alarms[a]
                                   \/ p.cmd = "set-alarm" /\ g.alarms[a] = p.binds
    BY <1>3, <2>3, <2>4
  <2>6. Grown(f, g)
    BY <2>3 DEF Grown
  <2>7. Wrote(f, g, p)
    BY <1>3, <2>3, <2>5 DEF Wrote
  <2>8. Done(p, g)
    <3>1. p.cmd # "set-device" /\ p.cmd # "layout" /\ p.cmd # "set-placeholder"
      BY <1>0, <1>3
    <3> QED
      BY <3>1 DEF Done
  <2> QED
    BY <2>3, <2>6, <2>7, <2>8
<1>4. CASE p.cmd = "layout"
  <2>1. Applied(f, p) = [f EXCEPT !.bell = TRUE]
    BY <1>0, <1>4 DEF Applied
  <2>2. /\ DOMAIN g = ProjectFields /\ g.devices = f.devices /\ g.views = f.views /\ g.alarms = f.alarms
        /\ g.bell = TRUE /\ g.lost = f.lost /\ g.mixed = mixed
    BY <2>1 DEF ProjectFields
  <2>3. Grown(f, g) /\ Wrote(f, g, p)
    BY <2>2 DEF Grown, Wrote
  <2>4. Done(p, g)
    <3>1. p.cmd # "set-device" /\ p.cmd # "set-placeholder"
      BY <1>0, <1>4
    <3> QED
      BY <2>2, <3>1 DEF Done
  <2> QED
    BY <2>2, <2>3, <2>4
<1> QED
  BY <1>1, <1>2, <1>3, <1>4 DEF Commanded

\* Posts of tasks that go on, are skipped, lost, or reach the project of another lab.
LEMMA ProjectKept ==
  ASSUME NEW P, NEW sc, Provided(P, sc), NEW ts, NEW us, NEW n, NEW V, NEW f, NEW g, NEW p,
         \A m \in DOMAIN ts : TaskOk(ts[m]), TasksOk(ts, P, DOMAIN f.views),
         ~f.mixed => ContentOk(f, ts, P),
         Stepped(ts, us, n, V), V \subseteq DOMAIN g.views, Grown(f, g), ~g.mixed => ~f.mixed,
         ~g.mixed => Wrote(f, g, p),
         ~ts[n].stale => Done(Head(ts[n].todo), g) /\ (p = Head(ts[n].todo) \/ p.cmd = "layout"),
         ts[n].stale /\ ~g.mixed => p.cmd = "layout"
  PROVE  /\ \A m \in DOMAIN us : TaskOk(us[m])
         /\ TasksOk(us, P, DOMAIN g.views)
         /\ ~g.mixed => ContentOk(g, us, P)
<1>1. IsSeq(P)
  BY DEF Provided
<1>2. (\A m \in DOMAIN us : TaskOk(us[m])) /\ TasksOk(us, P, DOMAIN g.views)
  <2>1. DOMAIN f.views \subseteq DOMAIN g.views
    BY DEF Grown
  <2> QED
    BY <1>1, <2>1, TasksStepped
<1>3. "layout" \notin {"set-device", "set-view", "set-alarm"}
  OBVIOUS
<1>4. ASSUME ~g.mixed, ts[n].stale PROVE ContentOk(g, us, P)
  <2>1. \A i \in 1 .. Len(P) : Past(i, us, P) => Past(i, ts, P)
    BY <1>1, <1>4, PastStepped
  <2>2. \A i \in 1 .. Len(P) : Past(i, us, P) => Past(i, ts, P) \/ Done(P[i], g)
    BY <2>1
  <2>3. p.cmd \notin {"set-device", "set-view", "set-alarm"}
    BY <1>3, <1>4
  <2> QED
    BY <1>4, <2>2, <2>3, ContentKept
<1>5. ASSUME ~g.mixed, ~ts[n].stale PROVE ContentOk(g, us, P)
  <2>1. PICK k \in 1 .. Len(P) :
          /\ P[k] = Head(ts[n].todo) /\ \A j \in 1 .. k - 1 : Past(j, ts, P)
          /\ \A i \in 1 .. Len(P) : Past(i, us, P) => Past(i, ts, P) \/ i = k
    BY <1>1, <1>5, PastStepped
  <2>2. \A i \in 1 .. Len(P) : Past(i, us, P) => Past(i, ts, P) \/ Done(P[i], g)
    BY <1>5, <2>1
  <2>3. p.cmd \in {"set-device", "set-view", "set-alarm"} =>
          \E i \in 1 .. Len(P) : P[i] = p /\ \A j \in 1 .. i - 1 : Past(j, ts, P)
    BY <1>3, <1>5, <2>1
  <2> QED
    BY <1>5, <2>2, <2>3, ContentKept
<1> QED
  BY <1>2, <1>4, <1>5

LEMMA LabPosts ==
  ASSUME LabInv, up
  PROVE  Provided(Posts(lab), lab)
<1>1. WellMade(lab)
  BY DEF LabInv
<1> QED
  BY <1>1, PostsProvide

\* What a step of a task shares with every other.
LEMMA HeadIs ==
  ASSUME HmiInv, NEW n \in DOMAIN tasks
  PROVE  TaskOk(tasks[n]) /\ Head(tasks[n].todo).cmd \in Commanded /\ tasks[n].stale \in BOOLEAN
<1>1. TaskOk(tasks[n])
  BY DEF HmiInv
<1>2. PICK s : s = tasks[n].todo
  OBVIOUS
<1>3. IsSeq(s) /\ s # <<>> /\ \A i \in 1 .. Len(s) : s[i].cmd \in Commanded
  BY <1>1, <1>2 DEF TaskOk
<1>4. Head(s) = s[1] /\ 1 \in 1 .. Len(s)
  BY <1>3, IsSeqIs, TailIs
<1> QED
  BY <1>1, <1>2, <1>3, <1>4 DEF TaskOk

LEMMA AppliedMixed ==
  ASSUME NEW f, DOMAIN f = ProjectFields, NEW p, p.cmd \in Commanded
  PROVE  Applied(f, p).mixed = f.mixed
<1>1. \E d, v, a, b : Applied(f, p) \in {[f EXCEPT !.devices = d], [f EXCEPT !.views = v], [f EXCEPT !.alarms = a],
                                        [f EXCEPT !.bell = b], f}
  BY DEF Applied, Commanded
<1>2. PICK d, v, a, b : Applied(f, p) \in {[f EXCEPT !.devices = d], [f EXCEPT !.views = v], [f EXCEPT !.alarms = a],
                                        [f EXCEPT !.bell = b], f}
  BY <1>1
<1> QED
  BY <1>2 DEF ProjectFields

LEMMA HmiPost ==
  ASSUME LabInv, HmiInv, PostProjectData
  PROVE  HmiInv'
<1>1. fuxa # None /\ lab' = lab /\ up' = up
  BY DEF PostProjectData, planVars
<1>2. PICK n \in DOMAIN tasks :
        LET post == Head(tasks[n].todo)
            skip == post.cmd = "set-placeholder" /\ post.key \in tasks[n].names
        IN  /\ post.cmd # "names"
            /\ tasks' = Advanced(n)
            /\ fuxa' = IF skip THEN fuxa
                       ELSE [Applied(fuxa, post) EXCEPT !.mixed = @ \/ tasks[n].stale]
  BY DEF PostProjectData
<1>3. PICK p, P, f, g : p = Head(tasks[n].todo) /\ P = Posts(lab) /\ f = fuxa /\ g = fuxa'
  OBVIOUS
<1>4. TaskOk(tasks[n]) /\ p.cmd \in Commanded /\ p.cmd # "names" /\ tasks[n].stale \in BOOLEAN
  BY <1>2, <1>3, HeadIs
<1>5. /\ up /\ DOMAIN f = ProjectFields /\ f.mixed \in BOOLEAN
      /\ \A m \in DOMAIN tasks : TaskOk(tasks[m])
      /\ TasksOk(tasks, P, DOMAIN f.views) /\ (~f.mixed => ContentOk(f, tasks, P))
  BY <1>1, <1>3 DEF HmiInv
<1>6. Provided(P, lab)
  BY <1>3, <1>5, LabPosts
<1>7. Stepped(tasks, tasks', n, {})
  BY <1>2, <1>4, AdvancedSteps
<1>8. Grown(f, g) /\ g.mixed \in BOOLEAN /\ (~g.mixed => ~f.mixed) /\ (tasks[n].stale /\ ~g.mixed => g = f)
      /\ (g = f \/ Wrote(f, g, p)) /\ (~tasks[n].stale => Done(p, g))
  <2>1. CASE p.cmd = "set-placeholder" /\ p.key \in tasks[n].names
    <3>1. g = f
      BY <1>2, <1>3, <2>1
    <3>2. Grown(f, f)
      BY <1>5 DEF Grown
    <3>3. ASSUME ~tasks[n].stale PROVE Done(p, f)
      <4>1. p.key \in DOMAIN f.views
        BY <1>5, <2>1, <3>3 DEF TasksOk
      <4>2. p.cmd # "set-device" /\ p.cmd # "layout"
        BY <2>1
      <4> QED
        BY <4>1, <4>2 DEF Done
    <3> QED
      BY <1>1, <1>3, <1>5, <3>1, <3>2, <3>3
  <2>2. CASE ~(p.cmd = "set-placeholder" /\ p.key \in tasks[n].names)
    <3>1. g = [Applied(f, p) EXCEPT !.mixed = Applied(f, p).mixed \/ tasks[n].stale]
      BY <1>2, <1>3, <2>2
    <3>2. PICK mixed : mixed = (f.mixed \/ tasks[n].stale)
      OBVIOUS
    <3>3. mixed \in BOOLEAN
      BY <3>2
    <3>4. Applied(f, p).mixed = f.mixed
      BY <1>4, <1>5, AppliedMixed
    <3>5. g = [Applied(f, p) EXCEPT !.mixed = mixed]
      BY <3>1, <3>2, <3>4
    <3>6. Grown(f, g) /\ Wrote(f, g, p) /\ Done(p, g) /\ g.mixed = mixed
      BY <1>4, <1>5, <3>3, <3>5, AppliedGrows
    <3> QED
      BY <3>2, <3>3, <3>6
  <2> QED
    BY <2>1, <2>2
<1>9. PICK q : (tasks[n].stale /\ ~g.mixed => q.cmd = "layout") /\ (~g.mixed => Wrote(f, g, q)) /\ (q = p \/ q.cmd = "layout")
  <2>1. CASE g = f
    <3>1. Wrote(f, g, LayoutIs) /\ LayoutIs.cmd = "layout"
      BY <2>1 DEF Wrote, LayoutIs
    <3> QED
      BY <3>1
  <2>2. CASE g # f
    BY <1>8, <2>2
  <2> QED
    BY <2>1, <2>2
<1>10. /\ \A m \in DOMAIN tasks' : TaskOk(tasks'[m])
       /\ TasksOk(tasks', P, DOMAIN g.views) /\ (~g.mixed => ContentOk(g, tasks', P))
  <2>1. {} \subseteq DOMAIN g.views
    OBVIOUS
  <2>2. ~tasks[n].stale => Done(Head(tasks[n].todo), g) /\ (q = Head(tasks[n].todo) \/ q.cmd = "layout")
    BY <1>3, <1>8, <1>9
  <2> QED
    BY <1>5, <1>6, <1>7, <1>8, <1>9, <2>1, <2>2, ProjectKept
<1>11. DOMAIN g = ProjectFields
  BY <1>8 DEF Grown
<1> QED
  BY <1>1, <1>3, <1>5, <1>8, <1>10, <1>11 DEF HmiInv

LEMMA HmiLost ==
  ASSUME LabInv, HmiInv, PostLost
  PROVE  HmiInv'
<1>1. lab' = lab /\ up' = up
  BY DEF PostLost, planVars
<1>2. PICK n \in DOMAIN tasks :
        LET post == Head(tasks[n].todo)
        IN  /\ tasks' = Advanced(n)
            /\ fuxa' = IF fuxa = None THEN None ELSE [fuxa EXCEPT !.lost = @ \cup {<<post.cmd, post.key>>}]
  BY DEF PostLost
<1>3. PICK p, P, f, g : p = Head(tasks[n].todo) /\ P = Posts(lab) /\ f = fuxa /\ g = fuxa'
  OBVIOUS
<1>4. TaskOk(tasks[n]) /\ (\A m \in DOMAIN tasks : TaskOk(tasks[m])) /\ tasks[n].stale \in BOOLEAN
  BY HeadIs DEF HmiInv
<1>5. Stepped(tasks, tasks', n, {})
  BY <1>2, <1>4, AdvancedSteps
<1>6. CASE f = None
  <2>1. fuxa' = None
    BY <1>2, <1>3, <1>6
  <2>2. \A m \in DOMAIN tasks' : TaskOk(tasks'[m])
    <3> SUFFICES ASSUME NEW m \in DOMAIN tasks' PROVE TaskOk(tasks'[m])
      OBVIOUS
    <3>1. CASE m = n
      <4>1. /\ DOMAIN tasks'[m] = DOMAIN tasks[n] /\ tasks'[m].stale = tasks[n].stale
            /\ tasks'[m].todo = Tail(tasks[n].todo) /\ tasks'[m].todo # <<>>
        BY <1>5, <3>1 DEF Stepped
      <4> QED
        BY <1>4, <4>1, TaskTail
    <3>2. CASE m # n
      BY <1>4, <1>5, <3>2 DEF Stepped
    <3> QED
      BY <3>1, <3>2
  <2>3. \A m \in DOMAIN tasks' : m \in DOMAIN tasks /\ tasks'[m].stale = tasks[m].stale
    BY <1>5 DEF Stepped
  <2>4. ~up' => \A m \in DOMAIN tasks' : tasks'[m].stale
    BY <1>1, <2>3 DEF HmiInv
  <2> QED
    BY <2>1, <2>2, <2>4 DEF HmiInv
<1>7. CASE f # None
  <2>1. /\ up /\ DOMAIN f = ProjectFields /\ f.mixed \in BOOLEAN
        /\ TasksOk(tasks, P, DOMAIN f.views) /\ (~f.mixed => ContentOk(f, tasks, P))
    BY <1>3, <1>7 DEF HmiInv
  <2>2. Provided(P, lab)
    BY <1>3, <2>1, LabPosts
  <2>3. PICK lost : lost = f.lost \cup {<<p.cmd, p.key>>}
    OBVIOUS
  <2>4. g = [f EXCEPT !.lost = lost]
    BY <1>2, <1>3, <1>7, <2>3
  <2>5. /\ DOMAIN g = ProjectFields /\ g.devices = f.devices /\ g.views = f.views /\ g.alarms = f.alarms
        /\ g.bell = f.bell /\ g.lost = lost /\ g.mixed = f.mixed
    BY <2>1, <2>4 DEF ProjectFields
  <2>6. Grown(f, g) /\ Wrote(f, g, LayoutIs)
    BY <2>3, <2>5 DEF Grown, Wrote
  <2>7. Done(p, g)
    BY <2>3, <2>5 DEF Done
  <2>8. /\ \A m \in DOMAIN tasks' : TaskOk(tasks'[m])
        /\ TasksOk(tasks', P, DOMAIN g.views) /\ (~g.mixed => ContentOk(g, tasks', P))
    <3>1. {} \subseteq DOMAIN g.views /\ LayoutIs.cmd = "layout"
      BY DEF LayoutIs
    <3>2. PICK q : q = LayoutIs
      OBVIOUS
    <3> QED
      BY <1>3, <1>4, <1>5, <2>1, <2>2, <2>5, <2>6, <2>7, <3>1, <3>2, ProjectKept
  <2> QED
    BY <1>1, <1>3, <2>1, <2>5, <2>8 DEF HmiInv
<1> QED
  BY <1>6, <1>7

LEMMA HmiNames ==
  ASSUME LabInv, HmiInv, getExistingViewNames
  PROVE  HmiInv'
<1>1. fuxa # None /\ lab' = lab /\ up' = up /\ fuxa' = fuxa
  BY DEF getExistingViewNames, planVars
<1>2. PICK n \in DOMAIN tasks :
        /\ Head(tasks[n].todo).cmd = "names"
        /\ LET rest == [tasks[n] EXCEPT !.todo = Tail(@), !.names = DOMAIN fuxa.views]
           IN  tasks' = [tasks EXCEPT ![n] = rest]
  BY DEF getExistingViewNames
<1>3. PICK p, P, f, s : p = Head(tasks[n].todo) /\ P = Posts(lab) /\ f = fuxa /\ s = tasks[n].todo
  OBVIOUS
<1>4. PICK rest : rest = [tasks[n] EXCEPT !.todo = Tail(s), !.names = DOMAIN f.views]
  OBVIOUS
<1>5. TaskOk(tasks[n]) /\ (\A m \in DOMAIN tasks : TaskOk(tasks[m])) /\ tasks[n].stale \in BOOLEAN
  BY HeadIs DEF HmiInv
<1>6. Tail(s) # <<>>
  <2>1. IsSeq(s) /\ s # <<>> /\ EndsWell(s)
    BY <1>3, <1>5 DEF TaskOk
  <2>2. Len(s) \in Nat /\ Len(s) # 0 /\ Head(s) = s[1] /\ IsSeq(Tail(s)) /\ Len(Tail(s)) = Len(s) - 1
    BY <2>1, IsSeqIs, TailIs
  <2>3. Len(s) # 1
    BY <1>2, <1>3, <2>1, <2>2 DEF EndsWell
  <2>4. Len(Tail(s)) # 0
    BY <2>2, <2>3
  <2> QED
    BY <2>2, <2>4, IsSeqIs
<1>7. Stepped(tasks, tasks', n, DOMAIN f.views)
  <2>1. tasks' = [tasks EXCEPT ![n] = rest]
    BY <1>2, <1>3, <1>4
  <2>2. DOMAIN tasks' = DOMAIN tasks /\ tasks'[n] = rest /\ \A m \in DOMAIN tasks : m # n => tasks'[m] = tasks[m]
    BY <2>1
  <2>3. /\ rest.todo = Tail(tasks[n].todo) /\ DOMAIN rest = DOMAIN tasks[n] /\ rest.stale = tasks[n].stale
        /\ rest.names = DOMAIN f.views
    BY <1>3, <1>4, <1>5 DEF TaskOk
  <2> QED
    BY <1>3, <1>6, <2>2, <2>3 DEF Stepped
<1>8. /\ up /\ DOMAIN f = ProjectFields /\ f.mixed \in BOOLEAN
      /\ TasksOk(tasks, P, DOMAIN f.views) /\ (~f.mixed => ContentOk(f, tasks, P))
  BY <1>1, <1>3 DEF HmiInv
<1>9. Provided(P, lab)
  BY <1>3, <1>8, LabPosts
<1>10. Grown(f, f) /\ Wrote(f, f, LayoutIs) /\ LayoutIs.cmd = "layout"
  BY <1>8 DEF Grown, Wrote, LayoutIs
<1>11. Done(p, f)
  <2>1. p.cmd # "set-device" /\ p.cmd # "layout" /\ p.cmd # "set-placeholder"
    BY <1>2, <1>3
  <2> QED
    BY <2>1 DEF Done
<1>12. /\ \A m \in DOMAIN tasks' : TaskOk(tasks'[m])
       /\ TasksOk(tasks', P, DOMAIN f.views) /\ (~f.mixed => ContentOk(f, tasks', P))
  <2>1. PICK q : q = LayoutIs
    OBVIOUS
  <2> QED
    BY <1>3, <1>5, <1>7, <1>8, <1>9, <1>10, <1>11, <2>1, ProjectKept
<1> QED
  BY <1>1, <1>3, <1>8, <1>12 DEF HmiInv

LEMMA HmiDrawn ==
  ASSUME LabInv, HmiInv, hmiOpenEditor
  PROVE  HmiInv'
<1>1. fuxa # None /\ lab' = lab /\ up' = up /\ tasks' = tasks /\ up
  BY DEF hmiOpenEditor, planVars
<1>2. PICK d : fuxa' = [fuxa EXCEPT !.views = Merge(@, [x \in {buildHmiViewName(d.id)} |->
                                                 [binds |-> {}, by |-> "author"]])]
  BY DEF hmiOpenEditor
<1>3. PICK P, f, g, k : P = Posts(lab) /\ f = fuxa /\ g = fuxa' /\ k = buildHmiViewName(d.id)
  OBVIOUS
<1>4. PICK new : new = [binds |-> {}, by |-> "author"]
  OBVIOUS
<1>5. PICK views : views = Merge(f.views, [x \in {k} |-> new])
  OBVIOUS
<1>6. g = [f EXCEPT !.views = views]
  BY <1>2, <1>3, <1>4, <1>5
<1>7. /\ DOMAIN f = ProjectFields /\ f.mixed \in BOOLEAN
      /\ \A m \in DOMAIN tasks : TaskOk(tasks[m])
      /\ TasksOk(tasks, P, DOMAIN f.views) /\ (~f.mixed => ContentOk(f, tasks, P))
  BY <1>1, <1>3 DEF HmiInv
<1>8. /\ DOMAIN g = ProjectFields /\ g.devices = f.devices /\ g.views = views /\ g.alarms = f.alarms
      /\ g.bell = f.bell /\ g.lost = f.lost /\ g.mixed = f.mixed
  BY <1>6, <1>7 DEF ProjectFields
<1>9. DOMAIN views = DOMAIN f.views \cup {k} /\ \A v \in DOMAIN views : views[v].binds = {} \/ (v \in DOMAIN f.views /\ views[v] = f.views[v])
  BY <1>4, <1>5 DEF Merge
<1>10. Grown(f, g) /\ Wrote(f, g, LayoutIs)
  BY <1>8, <1>9 DEF Grown, Wrote
<1>11. TasksOk(tasks, P, DOMAIN g.views)
  BY <1>7, <1>8, <1>9 DEF TasksOk
<1>12. Provided(P, lab)
  BY <1>1, <1>3, LabPosts
<1>13. ASSUME ~g.mixed PROVE ContentOk(g, tasks, P)
  <2>1. ContentOk(f, tasks, P)
    BY <1>7, <1>8, <1>13
  <2>2. PICK q : q = LayoutIs
    OBVIOUS
  <2>3. q.cmd \notin {"set-device", "set-view", "set-alarm"}
    BY <2>2 DEF LayoutIs
  <2> QED
    BY <1>10, <1>12, <2>1, <2>2, <2>3, ContentKept
<1> QED
  BY <1>1, <1>3, <1>7, <1>8, <1>11, <1>13 DEF HmiInv

LEMMA HmiUp ==
  ASSUME LabInv, HmiInv, LabUp
  PROVE  HmiInv'
<1>1. /\ ~up /\ composed /\ up' = TRUE /\ lab' = lab /\ fuxa' = EmptyProject
      /\ tasks' = IF Posts(lab) = <<>> THEN tasks
              ELSE Merge(tasks, [n \in {FreshNumber} |->
                     [todo |-> Posts(lab), names |-> {}, stale |-> FALSE]])
  BY DEF LabUp, ContainersUp, ProvisionBegins
<1>2. WellMade(lab)
  BY <1>1 DEF LabInv
<1>3. PICK P, new, q : P = Posts(lab) /\ new = [todo |-> P, names |-> {}, stale |-> FALSE] /\ q = FreshNumber
  OBVIOUS
<1>4. Provided(P, lab)
  BY <1>2, <1>3, PostsProvide
<1>5. IsSeq(P) /\ EndsWell(P) /\ Len(P) \in Nat /\ (\A k \in 1 .. Len(P) : P[k].cmd \in Commanded) /\ (P = <<>> <=> Len(P) = 0)
  <2>1. IsSeq(P) /\ EndsWell(P) /\ \A k \in 1 .. Len(P) : P[k].cmd \in Commanded
    BY <1>4 DEF Provided
  <2> QED
    BY <2>1, IsSeqIs
<1>6. \A n \in DOMAIN tasks : TaskOk(tasks[n]) /\ tasks[n].stale
  BY <1>1 DEF HmiInv
<1>7. /\ DOMAIN EmptyProject = ProjectFields /\ EmptyProject.mixed = FALSE /\ EmptyProject.alarms = <<>>
      /\ DOMAIN EmptyProject.views = {} /\ DOMAIN EmptyProject.devices = {} /\ DOMAIN EmptyProject.alarms = {}
  BY DEF EmptyProject, ProjectFields
<1>8. /\ \A n \in DOMAIN tasks' : TaskOk(tasks'[n])
      /\ TasksOk(tasks', P, {})
      /\ \A i \in 1 .. Len(P) : ~Past(i, tasks', P)
  <2>1. CASE P = <<>>
    <3>1. tasks' = tasks /\ Len(P) = 0
      BY <1>1, <1>3, <1>5, <2>1
    <3>2. \A i \in 1 .. Len(P) : FALSE
      BY <3>1
    <3> QED
      BY <1>6, <3>1, <3>2 DEF TasksOk
  <2>2. CASE P # <<>>
    <3>1. tasks' = Merge(tasks, [n \in {q} |-> new])
      BY <1>1, <1>3, <2>2
    <3>2. q \in DOMAIN tasks' /\ tasks'[q] = new /\ \A n \in DOMAIN tasks' : n # q => n \in DOMAIN tasks /\ tasks'[n] = tasks[n]
      BY <3>1 DEF Merge
    <3>3. DOMAIN new = {"todo", "names", "stale"} /\ new.todo = P /\ new.names = {} /\ new.stale = FALSE
      BY <1>3
    <3>4. TaskOk(new)
      BY <1>5, <2>2, <3>3 DEF TaskOk
    <3>5. Left(P, P)
      BY <1>5 DEF Left
    <3>6. TasksOk(tasks', P, {})
      BY <1>6, <3>2, <3>3, <3>5 DEF TasksOk
    <3>7. ASSUME NEW i \in 1 .. Len(P), Past(i, tasks', P) PROVE FALSE
      <4>1. i <= Len(P) - Len(P)
        BY <3>2, <3>3, <3>7 DEF Past
      <4> QED
        BY <1>5, <4>1
    <3> QED
      BY <1>6, <3>2, <3>4, <3>6, <3>7
  <2> QED
    BY <2>1, <2>2
<1>9. ContentOk(EmptyProject, tasks', P)
  BY <1>7, <1>8 DEF ContentOk
<1> QED
  BY <1>1, <1>3, <1>7, <1>8, <1>9 DEF HmiInv

LEMMA HmiStepKept ==
  ASSUME LabInv, HmiInv, [Next]_vars
  PROVE  HmiInv'
<1>1. CASE UNCHANGED <<fuxa, tasks, lab, up>>
  BY <1>1 DEF HmiInv
<1>2. CASE Start \/ Planning
  <2>1. ~up /\ UNCHANGED <<fuxa, tasks>> /\ up' = up
    <3>1. CASE Start
      <4>1. ~up
        BY <3>1, LabStart
      <4> QED
        BY <3>1, <4>1 DEF Start, BeginStart, hmiVars
    <3>2. CASE Planning
      <4>1. ComposeDevice => next \in DOMAIN lab.devices /\ lab # None
        BY DEF ComposeDevice
      <4>2. ComposeDevice => ~composed
        <5> SUFFICES ASSUME ComposeDevice, composed PROVE FALSE
          OBVIOUS
        <5>1. WellMade(lab) /\ next = Len(lab.devices) + 1
          BY <4>1 DEF LabInv
        <5>2. DOMAIN lab.devices = 1 .. Len(lab.devices) /\ Len(lab.devices) \in Nat
          BY <5>1, DevicesAre
        <5> QED
          BY <4>1, <5>1, <5>2
      <4>3. ~composed \/ ~up
        BY <3>2, <4>2 DEF Planning, ComposeServices, StartFails
      <4>4. UNCHANGED <<fuxa, tasks>> /\ up' = up
        BY <3>2 DEF Planning, hmiVars, ComposeDevice, ComposeServices, StartFails
      <4> QED
        BY <4>3, <4>4 DEF LabInv
    <3> QED
      BY <1>2, <3>1, <3>2
  <2> QED
    BY <2>1 DEF HmiInv
<1>3. CASE LabUp
  BY <1>3, HmiUp
<1>4. CASE LabDown
  <2>1. fuxa' = None /\ tasks' = [n \in DOMAIN tasks |-> [tasks[n] EXCEPT !.stale = TRUE]]
    BY <1>4 DEF LabDown, ProvisionLeft
  <2>2. ASSUME NEW n \in DOMAIN tasks' PROVE TaskOk(tasks'[n]) /\ tasks'[n].stale
    <3>1. n \in DOMAIN tasks /\ tasks'[n] = [tasks[n] EXCEPT !.stale = TRUE]
      BY <2>1, <2>2
    <3>2. TaskOk(tasks[n])
      BY <3>1 DEF HmiInv
    <3>3. /\ DOMAIN tasks'[n] = DOMAIN tasks[n] /\ tasks'[n].todo = tasks[n].todo /\ tasks'[n].stale = TRUE
      BY <3>1, <3>2 DEF TaskOk
    <3> QED
      BY <3>2, <3>3 DEF TaskOk
  <2> QED
    BY <2>1, <2>2 DEF HmiInv
<1>5. CASE HmiStep
  BY <1>5, HmiPost, HmiLost, HmiNames, HmiDrawn DEF HmiStep
<1>6. CASE Working
  <2>1. HmiStep \/ UNCHANGED hmiVars
    BY <1>6 DEF Working
  <2>2. UNCHANGED planVars
    BY <1>6, WorkingPlan
  <2> QED
    BY <1>1, <1>5, <2>1, <2>2 DEF hmiVars, planVars
<1>7. CASE UNCHANGED vars
  BY <1>1, <1>7 DEF vars, hmiVars, planVars
<1> QED
  BY <1>2, <1>3, <1>4, <1>6, <1>7 DEF Next

LEMMA HmiAlways == Spec => [](LabInv /\ HmiInv)
<1>1. Init => HmiInv
  <2> SUFFICES ASSUME Init PROVE HmiInv
    OBVIOUS
  <2>1. fuxa = None /\ tasks = <<>>
    BY DEF Init, HmiInit
  <2>2. DOMAIN tasks = {}
    BY <2>1
  <2> QED
    BY <2>1, <2>2 DEF HmiInv
<1>2. LabInv /\ HmiInv /\ [Next]_vars => HmiInv'
  BY HmiStepKept
<1>3. Init => LabInv
  BY LabInit
<1>4. LabInv /\ [Next]_vars => LabInv'
  BY LabStep
<1> QED
  BY <1>1, <1>2, <1>3, <1>4, PTL DEF Spec

\* The tag of a device whose post was made is there to be read.
LEMMA CoveredRead ==
  ASSUME WellMade(lab), Provided(Posts(lab), lab), ContentOk(fuxa, tasks, Posts(lab)),
         NEW t, Covered(t, fuxa, Posts(lab))
  PROVE  t \in Declared \cup LostTags
<1>1. PICK P : P = Posts(lab)
  OBVIOUS
<1>2. PICK k \in 1 .. Len(P) : P[k].cmd = "set-device" /\ t \in P[k].tags /\ Done(P[k], fuxa)
  BY <1>1 DEF Covered
<1>3. PICK i \in DOMAIN lab.devices : P[k] = DevicePost(lab.devices[i])
  BY <1>1, <1>2 DEF Provided
<1>4. PICK d : d = lab.devices[i]
  OBVIOUS
<1>5. P[k].key = d.id /\ P[k].tags = Tags(d)
  BY <1>3, <1>4 DEF DevicePost
<1>6. CASE d.id \in DOMAIN fuxa.devices
  <2>1. PICK m \in 1 .. Len(P) : P[m].cmd = "set-device" /\ P[m].key = d.id /\ fuxa.devices[d.id].tags = P[m].tags
    BY <1>1, <1>6 DEF ContentOk
  <2>2. PICK j \in DOMAIN lab.devices : P[m] = DevicePost(lab.devices[j])
    BY <1>1, <2>1 DEF Provided
  <2>3. lab.devices[j].id = d.id
    BY <2>1, <2>2 DEF DevicePost
  <2>4. j = i
    BY <1>4, <2>3 DEF WellMade
  <2>5. t \in fuxa.devices[d.id].tags
    BY <1>2, <1>3, <2>1, <2>2, <2>4
  <2> QED
    BY <1>6, <2>5 DEF Declared
<1>7. CASE <<"set-device", d.id>> \in fuxa.lost
  <2>1. d \in {lab.devices[j] : j \in DOMAIN lab.devices}
    BY <1>4
  <2> QED
    BY <1>2, <1>5, <1>7, <2>1 DEF LostTags
<1> QED
  BY <1>2, <1>5, <1>6, <1>7 DEF Done

LEMMA HmiFollows ==
  ASSUME LabInv, HmiInv
  PROVE  HmiComplete
<1> SUFFICES ASSUME fuxa # None, ~fuxa.mixed PROVE
      /\ Bound \subseteq Declared \cup LostTags
      /\ (\A n \in DOMAIN tasks : tasks[n].stale) /\ fuxa.alarms # <<>> => fuxa.bell \/ <<"layout", "layout">> \in fuxa.lost
      /\ (\A n \in DOMAIN tasks : tasks[n].stale) =>
           \A x \in Ids(lab) : IsA(lab, x, {"hmi"}) =>
             \/ buildHmiViewName(x) \in DOMAIN fuxa.views
             \/ <<"set-placeholder", buildHmiViewName(x)>> \in fuxa.lost
  BY DEF HmiComplete
<1>1. PICK P : P = Posts(lab)
  OBVIOUS
<1>2. ContentOk(fuxa, tasks, P) /\ up
  BY <1>1 DEF HmiInv
<1>3. WellMade(lab) /\ Provided(P, lab)
  BY <1>1, <1>2, LabPosts DEF LabInv
<1>4. ASSUME NEW t \in Bound PROVE t \in Declared \cup LostTags
  <2>1. \/ \E v \in DOMAIN fuxa.views : t \in fuxa.views[v].binds
        \/ \E a \in DOMAIN fuxa.alarms : t \in fuxa.alarms[a]
    BY <1>4 DEF Bound
  <2>2. Covered(t, fuxa, P)
    BY <1>2, <2>1 DEF ContentOk
  <2> QED
    BY <1>1, <1>2, <1>3, <2>2, CoveredRead
<1>5. ASSUME \A n \in DOMAIN tasks : tasks[n].stale, NEW k \in 1 .. Len(P) PROVE Done(P[k], fuxa)
  BY <1>2, <1>5 DEF ContentOk, Past
<1>6. ASSUME \A n \in DOMAIN tasks : tasks[n].stale, fuxa.alarms # <<>>
      PROVE  fuxa.bell \/ <<"layout", "layout">> \in fuxa.lost
  <2>1. \E k \in 1 .. Len(P) : P[k].cmd = "set-alarm"
    BY <1>2, <1>6 DEF ContentOk
  <2>2. PICK k \in 1 .. Len(P) : P[k] = LayoutIs
    BY <1>3, <2>1 DEF Provided
  <2>3. Done(LayoutIs, fuxa) /\ LayoutIs.cmd = "layout" /\ LayoutIs.key = "layout"
    BY <1>5, <1>6, <2>2 DEF LayoutIs
  <2> QED
    BY <2>3 DEF Done
<1>7. ASSUME \A n \in DOMAIN tasks : tasks[n].stale, NEW x \in Ids(lab), IsA(lab, x, {"hmi"})
      PROVE  \/ buildHmiViewName(x) \in DOMAIN fuxa.views
             \/ <<"set-placeholder", buildHmiViewName(x)>> \in fuxa.lost
  <2>1. PICK i \in DOMAIN lab.devices : x = lab.devices[i].id
    BY DEF Ids
  <2>2. Device(lab, x) = lab.devices[i]
    BY <1>3, <2>1, DeviceAt
  <2>3. i \in HmiAt(lab)
    BY <1>7, <2>2 DEF IsA, HmiAt
  <2>4. PICK k \in 1 .. Len(P) : P[k].cmd = "set-placeholder" /\ P[k].key = buildHmiViewName(x)
    BY <1>3, <2>1, <2>3 DEF Provided
  <2>5. Done(P[k], fuxa)
    BY <1>5, <1>7
  <2> QED
    BY <2>4, <2>5 DEF Done
<1> QED
  BY <1>4, <1>6, <1>7

\* What the generated HMI names is there to be read, a lab with alarms shows its bell
\* and every HMI has a view, whichever posts are lost and however tasks of earlier labs
\* linger: unless the post of just that was lost or such a task wrote into the project
\* (configureFuxa of main/index.ts and the builders of views and alarms it calls).
THEOREM HmiCompleteAlways == Spec => []HmiComplete
<1>1. LabInv /\ HmiInv => HmiComplete
  BY HmiFollows
<1> QED
  BY <1>1, HmiAlways, PTL

-----------------------------------------------------------------------------
(* Type correctness.                                                       *)

\* Every variable has a value of its kind, in every lab of every course: no host octet
\* leaves its network and no port its range, however often labs are started; a shell or
\* a task always has something left to do; and the registers of the batch program keep
\* their width, whoever writes them.
THEOREM TypeCorrect == Spec => []TypeOK
<1>1. LabInv /\ PlanInv /\ PortsInv /\ PanelInv /\ CoilInv /\ HmiInv /\ RelayInv => TypeOK
  <2> SUFFICES ASSUME LabInv, PlanInv, PortsInv, PanelInv, CoilInv, HmiInv, RelayInv PROVE TypeOK
    OBVIOUS
  <2>1. /\ \A z \in Zones : used[z] \subseteq 1 .. 254
        /\ \A s \in DOMAIN services : \A z \in DOMAIN services[s].legs : services[s].legs[z][2] \in 1 .. 254
    BY HostsRange
  <2>2. PortsOk
    <3>1. CASE lab = None
      BY <3>1 DEF PortsInv
    <3>2. CASE lab # None
      BY <3>2, PlcPortsRange DEF LabInv, PlanInv
    <3> QED
      BY <3>1, <3>2
  <2>3. timers \in 0 .. MaxReloads
    <3>1. PICK n : n = Cardinality(DOMAIN reloads)
      OBVIOUS
    <3>2. n \in Nat
      BY <3>1, ShellsFinite DEF PanelInv
    <3>3. timers \in Nat /\ asked \in Nat /\ asked <= MaxReloads /\ timers + n <= asked
      BY <3>1 DEF PanelInv, ButtonInv, ShellInv
    <3> QED
      BY <3>2, <3>3, PanelAssumption
  <2>4. \A c \in DOMAIN coilStates : coilStates[c] \in BOOLEAN
    BY DEF CoilInv, Values
  <2>5. \A n \in DOMAIN writes : writes[n].at \in {"sent", "done", "failed"}
    BY DEF CoilInv
  <2>6. \A n \in DOMAIN tasks : tasks[n].todo # <<>>
    BY DEF HmiInv, TaskOk
  <2>7. next \in Nat /\ composed \in BOOLEAN /\ up \in BOOLEAN
    BY DEF LabInv
  <2>8. policy \in {"deny", "allow"} /\ rules \in Seq(Forms) /\ applyState \in {"idle", "applying", "ok", "error"}
    BY DEF PanelInv, ButtonInv, ShellInv
  <2>9. /\ batch.batch_state \in IDLE .. COMPLETE /\ batch.current_phase \in 0 .. 5
        /\ batch.react_ticks \in -IntMax - 1 .. IntMax
    BY DEF PanelInv, BatchInv, Registers
  <2>10. trip_relay \in BOOLEAN
    BY DEF RelayInv
  <2> QED
    BY <2>1, <2>2, <2>3, <2>4, <2>5, <2>6, <2>7, <2>8, <2>9, <2>10 DEF TypeOK, PortsOk
<1> QED
  BY <1>1, PortsAlways, PanelsAlways, CoilAlways, HmiAlways, RelayAlways, PTL
-----------------------------------------------------------------------------
(* Coils of a generated program.                                           *)

\* What the loops over the wires do with one of them.
ExplicitOf(b, w, plc) == IF w.coil = plc THEN put(b, w.coilIndex, CoilPeer(w, plc)) ELSE b
DirectOf(b, w, plc) ==
  LET peer == otherEnd(w, plc)
  IN  IF peer = None \/ peerKind(peer) = None \/ peer \in b.peers \/ w.coil = plc
        THEN b ELSE put(b, FirstUnused(b), peer)
Turned(phase, b, w, plc) == IF phase = "explicit" THEN ExplicitOf(b, w, plc) ELSE DirectOf(b, w, plc)

\* The loop so far: what it has after each of the first n wires.
Loops(f, phase, first, plc, n) ==
  f = [i \in 0 .. n |-> IF i = 0 THEN first ELSE Turned(phase, f[i - 1], lab.wires[i], plc)]

LEMMA LoopExists ==
  ASSUME NEW phase, NEW first, NEW plc, NEW n \in Nat
  PROVE  \E f : Loops(f, phase, first, plc, n)
<1> DEFINE Without == {m \in Nat : ~\E f : Loops(f, phase, first, plc, m)}
<1>1. SUFFICES ASSUME Without # {} PROVE FALSE
  OBVIOUS
<1>2. PICK m \in Without : \A g \in Without : m <= g
  BY <1>1, NatMin
<1>3. m # 0
  <2>1. PICK f : f = [i \in 0 .. 0 |-> first]
    OBVIOUS
  <2>2. f = [i \in 0 .. 0 |-> IF i = 0 THEN first ELSE Turned(phase, f[i - 1], lab.wires[i], plc)]
    BY <2>1
  <2> QED
    BY <2>2, <1>2 DEF Loops
<1>4. m - 1 \in Nat /\ ~(m <= m - 1) /\ m \in Nat
  BY <1>3
<1>5. PICK f : Loops(f, phase, first, plc, m - 1)
  BY <1>2, <1>4
<1>6. PICK g : g = [i \in 0 .. m |-> IF i = m THEN Turned(phase, f[m - 1], lab.wires[m], plc) ELSE f[i]]
  OBVIOUS
<1>7. \A i \in 0 .. m - 1 : i \in 0 .. m /\ g[i] = f[i]
  BY <1>4, <1>6
<1>8. ASSUME NEW i \in 0 .. m
      PROVE  g[i] = IF i = 0 THEN first ELSE Turned(phase, g[i - 1], lab.wires[i], plc)
  <2>1. CASE i = m
    <3>1. g[i] = Turned(phase, f[m - 1], lab.wires[m], plc)
      BY <1>6, <2>1
    <3>2. g[m - 1] = f[m - 1]
      BY <1>4, <1>7
    <3> QED
      BY <1>3, <2>1, <3>1, <3>2
  <2>2. CASE i # m
    <3>1. i \in 0 .. m - 1 /\ (i # 0 => i - 1 \in 0 .. m - 1)
      BY <1>4, <2>2
    <3>2. f[i] = IF i = 0 THEN first ELSE Turned(phase, f[i - 1], lab.wires[i], plc)
      BY <1>5, <3>1 DEF Loops
    <3> QED
      BY <1>7, <3>1, <3>2
  <2> QED
    BY <2>1, <2>2
<1>9. Loops(g, phase, first, plc, m)
  <2>1. g = [i \in 0 .. m |-> g[i]]
    BY <1>6
  <2> QED
    BY <1>8, <2>1 DEF Loops
<1> QED
  BY <1>2, <1>9

\* The bindings are what the second loop has in the end, begun with what the first has.
LEMMA BindingsAre ==
  ASSUME NEW plc, Len(lab.wires) \in Nat
  PROVE  \E f, g : /\ Loops(f, "explicit", [of |-> <<>>, peers |-> {}], plc, Len(lab.wires))
                   /\ Loops(g, "direct", f[Len(lab.wires)], plc, Len(lab.wires))
                   /\ inferPlcCoilBindings(plc) = g[Len(lab.wires)].of
<1> DEFINE n == Len(lab.wires)
           none == [of |-> <<>>, peers |-> {}]
           explicit[i \in 0 .. n] ==
             IF i = 0 THEN none
             ELSE LET w == lab.wires[i]
                  IN  IF w.coil = plc THEN put(explicit[i - 1], w.coilIndex, CoilPeer(w, plc))
                                      ELSE explicit[i - 1]
           direct[i \in 0 .. n] ==
             IF i = 0 THEN explicit[n]
             ELSE LET w == lab.wires[i]
                      peer == otherEnd(w, plc)
                      b == direct[i - 1]
                  IN  IF peer = None \/ peerKind(peer) = None \/ peer \in b.peers \/ w.coil = plc
                        THEN b ELSE put(b, FirstUnused(b), peer)
<1>1. inferPlcCoilBindings(plc) = direct[n].of
  BY DEF inferPlcCoilBindings
<1>2. Loops(explicit, "explicit", none, plc, n)
  <2>1. PICK f : Loops(f, "explicit", none, plc, n)
    BY LoopExists
  <2> QED
    BY <2>1, Zenon DEF Loops, Turned, ExplicitOf
<1>3. Loops(direct, "direct", explicit[n], plc, n)
  <2> HIDE DEF explicit
  <2>1. \A b, w : Turned("direct", b, w, plc) = DirectOf(b, w, plc)
    BY DEF Turned
  <2>2. PICK f : Loops(f, "direct", explicit[n], plc, n)
    BY LoopExists
  <2>3. f = [i \in 0 .. n |-> IF i = 0 THEN explicit[n] ELSE DirectOf(f[i - 1], lab.wires[i], plc)]
    BY <2>1, <2>2, Zenon DEF Loops
  <2>4. direct = [i \in 0 .. n |-> IF i = 0 THEN explicit[n] ELSE DirectOf(direct[i - 1], lab.wires[i], plc)]
    BY <2>3, Zenon DEF DirectOf
  <2> HIDE DEF direct
  <2> QED
    BY <2>1, <2>4, Zenon DEF Loops
<1> HIDE DEF explicit, direct
<1> QED
  BY <1>1, <1>2, <1>3, Zenon

\* The wires that carry a coil of the PLC.
Piped(plc) == {j \in 1 .. Len(lab.wires) : lab.wires[j].coil = plc}

\* After n wires of the first loop: each coil asked for is bound to what one of its
\* wires stands for, an actuator if any of them stands for one.
ExplicitInv(b, plc, n) ==
  /\ IsFiniteSet(DOMAIN b.of) /\ Cardinality(DOMAIN b.of) <= Cardinality({j \in Piped(plc) : j <= n})
  /\ \A j \in Piped(plc) : j <= n =>
       /\ lab.wires[j].coilIndex \in DOMAIN b.of
       /\ peerKind(CoilPeer(lab.wires[j], plc)) # None => peerKind(b.of[lab.wires[j].coilIndex]) # None
  /\ \A c \in DOMAIN b.of : \E j \in Piped(plc) :
       lab.wires[j].coilIndex = c /\ b.of[c] = CoilPeer(lab.wires[j], plc)
  /\ \A p \in b.peers : \E j \in Piped(plc) : p = CoilPeer(lab.wires[j], plc)

\* The wires that have had their turn in either loop.
Met(plc, n) == {j \in 1 .. Len(lab.wires) : j <= n \/ j \in Piped(plc)}

\* After n wires of the second, begun with e: nothing of e is lost, and each actuator
\* met that no pipe of the PLC touches is among the peers, each of which has a coil.
DirectInv(b, e, plc, n) ==
  /\ IsFiniteSet(DOMAIN b.of)
  /\ Cardinality(DOMAIN b.of) <= Cardinality(Met(plc, n))
  /\ \A c \in DOMAIN e.of : c \in DOMAIN b.of /\ b.of[c] = e.of[c]
  /\ \A p \in b.peers : p \in e.peers \/ \E c \in DOMAIN b.of : b.of[c] = p
  /\ \A j \in 1 .. Len(lab.wires) :
       j <= n /\ j \notin Piped(plc) /\ peerKind(otherEnd(lab.wires[j], plc)) # None
         => otherEnd(lab.wires[j], plc) \in b.peers

LEMMA PutIs ==
  ASSUME NEW b, NEW c, NEW p
  PROVE  \/ /\ put(b, c, p) = b /\ c \in DOMAIN b.of /\ peerKind(b.of[c]) # None /\ peerKind(p) = None
         \/ /\ DOMAIN put(b, c, p).of = DOMAIN b.of \cup {c} /\ put(b, c, p).of[c] = p
            /\ \A k \in DOMAIN b.of : k # c => put(b, c, p).of[k] = b.of[k]
            /\ put(b, c, p).peers = b.peers \cup {p}
            /\ c \in DOMAIN b.of => peerKind(b.of[c]) = None \/ peerKind(p) # None
<1>1. CASE c \in DOMAIN b.of /\ peerKind(b.of[c]) # None /\ peerKind(p) = None
  BY <1>1 DEF put
<1>2. CASE ~(c \in DOMAIN b.of /\ peerKind(b.of[c]) # None /\ peerKind(p) = None)
  <2>1. PICK o : o = [k \in {c} |-> p]
    OBVIOUS
  <2>2. put(b, c, p) = [of |-> Merge(b.of, o), peers |-> b.peers \cup {p}]
    BY <1>2, <2>1 DEF put
  <2>3. DOMAIN o = {c} /\ o[c] = p
    BY <2>1
  <2>4. /\ DOMAIN Merge(b.of, o) = DOMAIN b.of \cup {c} /\ Merge(b.of, o)[c] = p
        /\ \A k \in DOMAIN b.of : k # c => Merge(b.of, o)[k] = b.of[k]
    BY <2>3 DEF Merge
  <2>5. put(b, c, p).of = Merge(b.of, o) /\ put(b, c, p).peers = b.peers \cup {p}
    BY <2>2
  <2> QED
    BY <1>2, <2>4, <2>5, Zenon
<1> QED
  BY <1>1, <1>2, Zenon

\* Putting one more takes at most one more index.
LEMMA OneMore ==
  ASSUME NEW D, IsFiniteSet(D), NEW S, IsFiniteSet(S), Cardinality(D) <= Cardinality(S),
         NEW c, NEW i, i \notin S, NEW E, E = D \/ E = D \cup {c}
  PROVE  IsFiniteSet(E) /\ Cardinality(E) <= Cardinality(S \cup {i})
<1>1. Cardinality(S \cup {i}) = Cardinality(S) + 1 /\ Cardinality(S) \in Nat /\ Cardinality(D) \in Nat
  BY FS_AddElement, FS_CardinalityType
<1>2. CASE E = D
  BY <1>1, <1>2
<1>3. CASE E = D \cup {c}
  <2>1. IsFiniteSet(E) /\ (Cardinality(E) = Cardinality(D) \/ Cardinality(E) = Cardinality(D) + 1)
    BY <1>3, FS_AddElement
  <2> QED
    BY <1>1, <2>1
<1> QED
  BY <1>2, <1>3

LEMMA ExplicitStep ==
  ASSUME NEW plc, NEW b, NEW n \in 1 .. Len(lab.wires), Len(lab.wires) \in Nat, ExplicitInv(b, plc, n - 1)
  PROVE  ExplicitInv(ExplicitOf(b, lab.wires[n], plc), plc, n)
<1> DEFINE w == lab.wires[n]
           d == ExplicitOf(b, w, plc)
           S == {j \in Piped(plc) : j <= n - 1}
<1>1. /\ n - 1 \in Nat /\ n \in Nat /\ ~(n <= n - 1)
      /\ \A j \in Piped(plc) : j \in Nat /\ (j <= n <=> j <= n - 1 \/ j = n)
  BY DEF Piped
<1>2. CASE n \notin Piped(plc)
  <2>1. d = b /\ {j \in Piped(plc) : j <= n} = S
    BY <1>1, <1>2 DEF ExplicitOf, Piped
  <2>2. \A j \in Piped(plc) : j <= n => j <= n - 1
    BY <1>1, <1>2
  <2> HIDE DEF d, S
  <2>3. d = b => ExplicitInv(d, plc, n)
    BY <2>1, <2>2 DEF ExplicitInv, S
  <2> QED
    BY <2>1, <2>3 DEF d
<1>3. CASE n \in Piped(plc)
  <2>1. PICK c, p : c = w.coilIndex /\ p = CoilPeer(w, plc)
    OBVIOUS
  <2>2. d = put(b, c, p)
    BY <1>3, <2>1 DEF ExplicitOf, Piped
  <2> HIDE DEF d
  <2>3. \/ d = b /\ c \in DOMAIN b.of /\ peerKind(b.of[c]) # None /\ peerKind(p) = None
        \/ /\ DOMAIN d.of = DOMAIN b.of \cup {c} /\ d.of[c] = p
           /\ \A k \in DOMAIN b.of : k # c => d.of[k] = b.of[k]
           /\ d.peers = b.peers \cup {p}
           /\ c \in DOMAIN b.of => peerKind(b.of[c]) = None \/ peerKind(p) # None
    BY <2>2, PutIs
  <2>4. IsFiniteSet(DOMAIN d.of) /\ Cardinality(DOMAIN d.of) <= Cardinality({j \in Piped(plc) : j <= n})
    <3>1. {j \in Piped(plc) : j <= n} = S \cup {n} /\ n \notin S
      BY <1>1, <1>3
    <3>2. IsFiniteSet(S)
      <4>1. IsFiniteSet(1 .. Len(lab.wires))
        BY FS_Interval
      <4>2. S \subseteq 1 .. Len(lab.wires)
        BY DEF Piped
      <4> QED
        BY <4>1, <4>2, FS_Subset
    <3>3. IsFiniteSet(DOMAIN b.of) /\ Cardinality(DOMAIN b.of) <= Cardinality(S)
      BY DEF ExplicitInv
    <3>4. DOMAIN d.of = DOMAIN b.of \/ DOMAIN d.of = DOMAIN b.of \cup {c}
      BY <2>3
    <3> HIDE DEF S
    <3> QED
      BY <3>1, <3>2, <3>3, <3>4, OneMore
  <2>5. ASSUME NEW j \in Piped(plc), j <= n
        PROVE  /\ lab.wires[j].coilIndex \in DOMAIN d.of
               /\ peerKind(CoilPeer(lab.wires[j], plc)) # None => peerKind(d.of[lab.wires[j].coilIndex]) # None
    <3>1. CASE j = n
      BY <2>1, <2>3, <3>1
    <3>2. CASE j # n
      <4>1. j <= n - 1
        BY <1>1, <2>5, <3>2
      <4>2. /\ lab.wires[j].coilIndex \in DOMAIN b.of
            /\ peerKind(CoilPeer(lab.wires[j], plc)) # None => peerKind(b.of[lab.wires[j].coilIndex]) # None
        BY <4>1 DEF ExplicitInv
      <4> QED
        BY <2>3, <4>2
    <3> QED
      BY <3>1, <3>2
  <2>6. ASSUME NEW k \in DOMAIN d.of
        PROVE  \E j \in Piped(plc) : lab.wires[j].coilIndex = k /\ d.of[k] = CoilPeer(lab.wires[j], plc)
    <3>1. CASE k \in DOMAIN b.of /\ d.of[k] = b.of[k]
      BY <3>1 DEF ExplicitInv
    <3>2. CASE k = c /\ d.of[k] = p
      BY <1>3, <2>1, <3>2
    <3> QED
      BY <2>3, <3>1, <3>2
  <2>7. ASSUME NEW q \in d.peers PROVE \E j \in Piped(plc) : q = CoilPeer(lab.wires[j], plc)
    <3>1. CASE q \in b.peers
      BY <3>1 DEF ExplicitInv
    <3>2. CASE q = p
      BY <1>3, <2>1, <3>2
    <3> QED
      BY <2>3, <3>1, <3>2
  <2>8. ExplicitInv(d, plc, n)
    BY <2>4, <2>5, <2>6, <2>7 DEF ExplicitInv
  <2> QED
    BY <2>8 DEF d
<1> QED
  BY <1>2, <1>3

\* Among the indices up to the number of wires one is free.
LEMMA UnusedIs ==
  ASSUME NEW b, Len(lab.wires) \in Nat, IsFiniteSet(DOMAIN b.of), Cardinality(DOMAIN b.of) <= Len(lab.wires)
  PROVE  FirstUnused(b) \notin DOMAIN b.of
<1> DEFINE Free == {k \in 0 .. Len(lab.wires) : k \notin DOMAIN b.of}
<1>1. Free # {}
  <2> SUFFICES ASSUME 0 .. Len(lab.wires) \subseteq DOMAIN b.of PROVE FALSE
    OBVIOUS
  <2>1. Cardinality(0 .. Len(lab.wires)) = Len(lab.wires) + 1
    BY FS_Interval
  <2>2. Cardinality(0 .. Len(lab.wires)) <= Cardinality(DOMAIN b.of)
    BY FS_Subset
  <2>3. Cardinality(DOMAIN b.of) \in Nat
    BY FS_CardinalityType
  <2> QED
    BY <2>1, <2>2, <2>3
<1>2. Free \subseteq Nat
  OBVIOUS
<1>3. PICK k \in Free : \A g \in Free : k <= g
  <2> HIDE DEF Free
  <2> QED
    BY <1>1, <1>2, NatMin
<1>4. /\ k \in 0 .. Len(lab.wires) + 8 /\ k \notin DOMAIN b.of
      /\ \A j \in 0 .. k - 1 : j \in DOMAIN b.of
  <2>1. k \in 0 .. Len(lab.wires) /\ k \notin DOMAIN b.of
    BY <1>3
  <2>2. ASSUME NEW j \in 0 .. k - 1 PROVE j \in DOMAIN b.of
    <3>1. j \in 0 .. Len(lab.wires) /\ ~(k <= j)
      BY <2>1
    <3> QED
      BY <1>3, <3>1
  <2> QED
    BY <2>1, <2>2
<1> QED
  BY <1>4, Zenon DEF FirstUnused

LEMMA MetFinite ==
  ASSUME NEW plc, NEW n, Len(lab.wires) \in Nat
  PROVE  IsFiniteSet(Met(plc, n)) /\ Cardinality(Met(plc, n)) <= Len(lab.wires)
<1>1. IsFiniteSet(1 .. Len(lab.wires)) /\ Cardinality(1 .. Len(lab.wires)) = Len(lab.wires)
  BY FS_Interval
<1>2. Met(plc, n) \subseteq 1 .. Len(lab.wires)
  BY DEF Met
<1> QED
  BY <1>1, <1>2, FS_Subset

LEMMA DirectStep ==
  ASSUME NEW plc, NEW b, NEW e, NEW n \in 1 .. Len(lab.wires), Len(lab.wires) \in Nat, DirectInv(b, e, plc, n - 1),
         peerKind(None) = None
  PROVE  DirectInv(DirectOf(b, lab.wires[n], plc), e, plc, n)
<1> DEFINE d == DirectOf(b, lab.wires[n], plc)
<1>1. PICK p : p = otherEnd(lab.wires[n], plc)
  OBVIOUS
<1>2. /\ n - 1 \in Nat /\ n \in Nat /\ ~(n <= n - 1)
      /\ \A j \in 1 .. Len(lab.wires) : j \in Nat /\ (j <= n <=> j <= n - 1 \/ j = n)
  OBVIOUS
<1>3. n \in Piped(plc) <=> lab.wires[n].coil = plc
  BY DEF Piped
<1>4. IsFiniteSet(DOMAIN b.of) /\ Cardinality(DOMAIN b.of) <= Cardinality(Met(plc, n - 1))
  BY DEF DirectInv
<1>5. CASE n \in Piped(plc) \/ peerKind(p) = None \/ p = None \/ p \in b.peers
  <2>1. d = b
    BY <1>1, <1>3, <1>5 DEF DirectOf
  <2>2. Cardinality(DOMAIN b.of) <= Cardinality(Met(plc, n))
    <3>1. IsFiniteSet(Met(plc, n)) /\ Met(plc, n - 1) \subseteq Met(plc, n)
      BY <1>2, MetFinite DEF Met
    <3>2. Cardinality(Met(plc, n - 1)) <= Cardinality(Met(plc, n))
      BY <3>1, FS_Subset
    <3>3. /\ Cardinality(Met(plc, n)) \in Nat /\ Cardinality(Met(plc, n - 1)) \in Nat
          /\ Cardinality(DOMAIN b.of) \in Nat
      BY <1>4, MetFinite, FS_CardinalityType
    <3> QED
      BY <1>4, <3>2, <3>3
  <2>3. ASSUME NEW j \in 1 .. Len(lab.wires), j <= n, j \notin Piped(plc),
               peerKind(otherEnd(lab.wires[j], plc)) # None
        PROVE  otherEnd(lab.wires[j], plc) \in b.peers
    <3>1. CASE j = n
      BY <1>1, <1>5, <2>3, <3>1
    <3>2. CASE j # n
      BY <1>2, <2>3, <3>2 DEF DirectInv
    <3> QED
      BY <3>1, <3>2
  <2>4. /\ \A c \in DOMAIN e.of : c \in DOMAIN b.of /\ b.of[c] = e.of[c]
        /\ \A q \in b.peers : q \in e.peers \/ \E c \in DOMAIN b.of : b.of[c] = q
    BY DEF DirectInv
  <2>5. DirectInv(b, e, plc, n)
    BY <1>4, <2>2, <2>3, <2>4 DEF DirectInv
  <2> HIDE DEF d
  <2> QED
    BY <2>1, <2>5 DEF d
<1>6. CASE n \notin Piped(plc) /\ peerKind(p) # None /\ p # None /\ p \notin b.peers
  <2>1. PICK c : c = FirstUnused(b)
    OBVIOUS
  <2>2. d = put(b, c, p)
    BY <1>1, <1>3, <1>6, <2>1 DEF DirectOf
  <2> HIDE DEF d
  <2>3. c \notin DOMAIN b.of
    <3>1. /\ Cardinality(Met(plc, n - 1)) \in Nat /\ Cardinality(Met(plc, n - 1)) <= Len(lab.wires)
          /\ Cardinality(DOMAIN b.of) \in Nat
      BY <1>4, MetFinite, FS_CardinalityType
    <3>2. Cardinality(DOMAIN b.of) <= Len(lab.wires)
      BY <1>4, <3>1
    <3> QED
      BY <1>4, <2>1, <3>2, UnusedIs
  <2>4. /\ DOMAIN d.of = DOMAIN b.of \cup {c} /\ d.of[c] = p
        /\ \A k \in DOMAIN b.of : d.of[k] = b.of[k]
        /\ d.peers = b.peers \cup {p}
    <3>1. /\ DOMAIN d.of = DOMAIN b.of \cup {c} /\ d.of[c] = p
          /\ \A k \in DOMAIN b.of : k # c => d.of[k] = b.of[k]
          /\ d.peers = b.peers \cup {p}
      BY <2>2, <2>3, PutIs
    <3> QED
      BY <2>3, <3>1
  <2>5. IsFiniteSet(DOMAIN d.of) /\ Cardinality(DOMAIN d.of) <= Cardinality(Met(plc, n))
    <3>1. Met(plc, n) = Met(plc, n - 1) \cup {n} /\ n \notin Met(plc, n - 1)
      BY <1>2, <1>6 DEF Met
    <3>2. IsFiniteSet(Met(plc, n - 1))
      BY MetFinite
    <3>3. DOMAIN d.of = DOMAIN b.of \/ DOMAIN d.of = DOMAIN b.of \cup {c}
      BY <2>4
    <3>4. PICK S : S = Met(plc, n - 1)
      OBVIOUS
    <3>5. IsFiniteSet(DOMAIN d.of) /\ Cardinality(DOMAIN d.of) <= Cardinality(S \cup {n})
      BY <1>4, <3>1, <3>2, <3>3, <3>4, OneMore
    <3> QED
      BY <3>1, <3>4, <3>5
  <2>6. ASSUME NEW j \in 1 .. Len(lab.wires), j <= n, j \notin Piped(plc),
               peerKind(otherEnd(lab.wires[j], plc)) # None
        PROVE  otherEnd(lab.wires[j], plc) \in d.peers
    <3>1. CASE j = n
      BY <1>1, <2>4, <3>1
    <3>2. CASE j # n
      <4>1. otherEnd(lab.wires[j], plc) \in b.peers
        BY <1>2, <2>6, <3>2 DEF DirectInv
      <4> QED
        BY <2>4, <4>1
    <3> QED
      BY <3>1, <3>2
  <2>7. \A k \in DOMAIN e.of : k \in DOMAIN d.of /\ d.of[k] = e.of[k]
    BY <2>4 DEF DirectInv
  <2>8. ASSUME NEW q \in d.peers PROVE q \in e.peers \/ \E k \in DOMAIN d.of : d.of[k] = q
    <3>1. CASE q = p
      BY <2>4, <3>1
    <3>2. CASE q \in b.peers
      <4>1. q \in e.peers \/ \E k \in DOMAIN b.of : b.of[k] = q
        BY <3>2 DEF DirectInv
      <4> QED
        BY <2>4, <4>1
    <3> QED
      BY <2>4, <3>1, <3>2
  <2> QED
    BY <2>5, <2>6, <2>7, <2>8 DEF DirectInv, d
<1> QED
  BY <1>5, <1>6

\* Both loops to their end.
LEMMA LoopsEnd ==
  ASSUME NEW plc, Len(lab.wires) \in Nat, peerKind(None) = None, NEW f, NEW g,
         Loops(f, "explicit", [of |-> <<>>, peers |-> {}], plc, Len(lab.wires)),
         Loops(g, "direct", f[Len(lab.wires)], plc, Len(lab.wires))
  PROVE  /\ ExplicitInv(f[Len(lab.wires)], plc, Len(lab.wires))
         /\ DirectInv(g[Len(lab.wires)], f[Len(lab.wires)], plc, Len(lab.wires))
<1> DEFINE n == Len(lab.wires)
           Bad == {m \in 0 .. n : ~ExplicitInv(f[m], plc, m)}
           Worse == {m \in 0 .. n : ~DirectInv(g[m], f[n], plc, m)}
<1>1. Bad = {}
  <2> SUFFICES ASSUME Bad # {} PROVE FALSE
    OBVIOUS
  <2>1. PICK m \in Bad : \A k \in Bad : m <= k
    <3>1. Bad \subseteq Nat
      OBVIOUS
    <3> HIDE DEF Bad
    <3> QED
      BY <3>1, NatMin
  <2>2. m # 0
    <3>1. f[0] = [of |-> <<>>, peers |-> {}] /\ DOMAIN <<>> = {}
      BY DEF Loops
    <3>2. DOMAIN f[0].of = {} /\ f[0].peers = {}
      BY <3>1
    <3>3. {j \in Piped(plc) : j <= 0} = {}
      BY DEF Piped
    <3>4. IsFiniteSet({}) /\ Cardinality({}) = 0
      BY FS_EmptySet
    <3>5. IsFiniteSet(DOMAIN f[0].of) /\ Cardinality(DOMAIN f[0].of) <= Cardinality({j \in Piped(plc) : j <= 0})
      <4>1. PICK D, S : D = DOMAIN f[0].of /\ S = {j \in Piped(plc) : j <= 0}
        OBVIOUS
      <4>2. D = {} /\ S = {}
        BY <3>2, <3>3, <4>1
      <4>3. IsFiniteSet(D) /\ Cardinality(D) = 0 /\ Cardinality(S) = 0
        BY <3>4, <4>2
      <4> QED
        BY <4>1, <4>3
    <3>6. \A j \in Piped(plc) : ~(j <= 0)
      BY DEF Piped
    <3>7. ExplicitInv(f[0], plc, 0)
      BY <3>2, <3>5, <3>6 DEF ExplicitInv
    <3> QED
      BY <3>7
  <2>3. m \in 1 .. n /\ m - 1 \in 0 .. n /\ ~(m <= m - 1)
    BY <2>2
  <2>4. f[m] = ExplicitOf(f[m - 1], lab.wires[m], plc)
    <3>1. m \in 0 .. n
      BY <2>3
    <3>2. f[m] = IF m = 0 THEN f[0] ELSE Turned("explicit", f[m - 1], lab.wires[m], plc)
      BY <2>2, <3>1 DEF Loops
    <3>3. Turned("explicit", f[m - 1], lab.wires[m], plc) = ExplicitOf(f[m - 1], lab.wires[m], plc)
      BY DEF Turned
    <3> QED
      BY <2>2, <3>2, <3>3
  <2>5. ExplicitInv(f[m - 1], plc, m - 1)
    BY <2>1, <2>3
  <2>6. ExplicitInv(f[m], plc, m)
    BY <2>3, <2>4, <2>5, ExplicitStep
  <2> QED
    BY <2>6
<1>2. ExplicitInv(f[n], plc, n)
  BY <1>1
<1>3. Worse = {}
  <2> SUFFICES ASSUME Worse # {} PROVE FALSE
    OBVIOUS
  <2>1. PICK m \in Worse : \A k \in Worse : m <= k
    <3>1. Worse \subseteq Nat
      OBVIOUS
    <3> HIDE DEF Worse
    <3> QED
      BY <3>1, NatMin
  <2>2. m # 0
    <3>1. g[0] = f[n]
      BY DEF Loops
    <3>2. Met(plc, 0) = {j \in Piped(plc) : j <= n}
      BY DEF Met, Piped
    <3>3. \A j \in 1 .. n : ~(j <= 0)
      OBVIOUS
    <3>4. DirectInv(f[n], f[n], plc, 0)
      BY <1>2, <3>2, <3>3 DEF DirectInv, ExplicitInv, Met
    <3> QED
      BY <3>1, <3>4
  <2>3. m \in 1 .. n /\ m - 1 \in 0 .. n /\ ~(m <= m - 1)
    BY <2>2
  <2>4. g[m] = DirectOf(g[m - 1], lab.wires[m], plc)
    <3>1. m \in 0 .. n
      BY <2>3
    <3>2. g[m] = IF m = 0 THEN g[0] ELSE Turned("direct", g[m - 1], lab.wires[m], plc)
      BY <2>2, <3>1 DEF Loops
    <3>3. Turned("direct", g[m - 1], lab.wires[m], plc) = DirectOf(g[m - 1], lab.wires[m], plc)
      BY DEF Turned
    <3> QED
      BY <2>2, <3>2, <3>3
  <2>5. DirectInv(g[m - 1], f[n], plc, m - 1)
    BY <2>1, <2>3
  <2>6. DirectInv(g[m], f[n], plc, m)
    BY <2>3, <2>4, <2>5, DirectStep
  <2> QED
    BY <2>6
<1> QED
  BY <1>1, <1>3

\* What is no device is no actuator; an actuator wired to a PLC is the other end of a wire.
LEMMA OtherEndIs ==
  ASSUME WellMade(lab), NEW plc
  PROVE  /\ peerKind(None) = None
         /\ \A x \in Peers(plc) : \E j \in DOMAIN lab.wires : otherEnd(lab.wires[j], plc) = x
<1>1. peerKind(None) = None
  BY DEF WellMade, peerKind, Ids
<1>2. ASSUME NEW x \in Peers(plc) PROVE \E j \in DOMAIN lab.wires : otherEnd(lab.wires[j], plc) = x
  <2>1. PICK j \in DOMAIN lab.wires : {lab.wires[j].source, lab.wires[j].target} = {plc, x}
    BY <1>2 DEF Peers, Ends
  <2>2. otherEnd(lab.wires[j], plc) = x
    BY <2>1 DEF otherEnd
  <2> QED
    BY <2>2
<1> QED
  BY <1>1, <1>2

\* An actuator at the other end of a pipe of the PLC is what the coil stands for.
LEMMA FarFirst ==
  ASSUME NEW w, NEW plc, peerKind(None) = None, peerKind(otherEnd(w, plc)) # None
  PROVE  CoilPeer(w, plc) = otherEnd(w, plc)
BY DEF CoilPeer

LEMMA CoilsFollow ==
  ASSUME WellMade(lab), NEW plc
  PROVE  LET bound == inferPlcCoilBindings(plc)
         IN  /\ \A i \in DOMAIN lab.wires :
                  LET w == lab.wires[i]
                  IN  w.coil = plc /\ peerKind(CoilPeer(w, plc)) # None =>
                        \E j \in DOMAIN lab.wires :
                          /\ lab.wires[j].coil = plc /\ lab.wires[j].coilIndex = w.coilIndex
                          /\ bound[w.coilIndex] = CoilPeer(lab.wires[j], plc)
                          /\ peerKind(bound[w.coilIndex]) # None
             /\ \A x \in Peers(plc) : peerKind(x) # None =>
                  \/ \E c \in DOMAIN bound : bound[c] = x
                  \/ \E i \in DOMAIN lab.wires : lab.wires[i].coil = plc /\ CoilPeer(lab.wires[i], plc) = x
<1>1. Len(lab.wires) \in Nat /\ DOMAIN lab.wires = 1 .. Len(lab.wires)
  BY IsSeqIs DEF WellMade
<1>2. /\ peerKind(None) = None
      /\ \A x \in Peers(plc) : \E j \in DOMAIN lab.wires : otherEnd(lab.wires[j], plc) = x
  BY OtherEndIs
<1>3. PICK f, g : /\ Loops(f, "explicit", [of |-> <<>>, peers |-> {}], plc, Len(lab.wires))
                  /\ Loops(g, "direct", f[Len(lab.wires)], plc, Len(lab.wires))
                  /\ inferPlcCoilBindings(plc) = g[Len(lab.wires)].of
  BY <1>1, BindingsAre
<1>4. PICK e, b, bound : e = f[Len(lab.wires)] /\ b = g[Len(lab.wires)] /\ bound = inferPlcCoilBindings(plc)
  OBVIOUS
<1>5. ExplicitInv(e, plc, Len(lab.wires)) /\ DirectInv(b, e, plc, Len(lab.wires)) /\ bound = b.of
  BY <1>1, <1>2, <1>3, <1>4, LoopsEnd
<1>6. /\ \A j \in Piped(plc) :
           /\ lab.wires[j].coilIndex \in DOMAIN e.of
           /\ peerKind(CoilPeer(lab.wires[j], plc)) # None => peerKind(e.of[lab.wires[j].coilIndex]) # None
      /\ \A c \in DOMAIN e.of : \E j \in Piped(plc) :
           lab.wires[j].coilIndex = c /\ e.of[c] = CoilPeer(lab.wires[j], plc)
      /\ \A p \in e.peers : \E j \in Piped(plc) : p = CoilPeer(lab.wires[j], plc)
  <2>1. \A j \in Piped(plc) : j <= Len(lab.wires)
    BY <1>1 DEF Piped
  <2> QED
    BY <1>5, <2>1 DEF ExplicitInv
<1>7. \A c \in DOMAIN e.of : bound[c] = e.of[c]
  BY <1>5 DEF DirectInv
<1>8. ASSUME NEW i \in DOMAIN lab.wires, lab.wires[i].coil = plc, peerKind(CoilPeer(lab.wires[i], plc)) # None
      PROVE  \E j \in DOMAIN lab.wires :
               /\ lab.wires[j].coil = plc /\ lab.wires[j].coilIndex = lab.wires[i].coilIndex
               /\ bound[lab.wires[i].coilIndex] = CoilPeer(lab.wires[j], plc)
               /\ peerKind(bound[lab.wires[i].coilIndex]) # None
  <2>1. i \in Piped(plc)
    BY <1>1, <1>8 DEF Piped
  <2>2. PICK c : c = lab.wires[i].coilIndex
    OBVIOUS
  <2>3. c \in DOMAIN e.of /\ peerKind(e.of[c]) # None
    BY <1>6, <1>8, <2>1, <2>2
  <2>4. PICK j \in Piped(plc) : lab.wires[j].coilIndex = c /\ e.of[c] = CoilPeer(lab.wires[j], plc)
    BY <1>6, <2>3
  <2>5. j \in DOMAIN lab.wires /\ lab.wires[j].coil = plc
    BY <1>1 DEF Piped
  <2> QED
    BY <1>7, <2>2, <2>3, <2>4, <2>5
<1>9. ASSUME NEW x \in Peers(plc), peerKind(x) # None
      PROVE  \/ \E c \in DOMAIN bound : bound[c] = x
             \/ \E i \in DOMAIN lab.wires : lab.wires[i].coil = plc /\ CoilPeer(lab.wires[i], plc) = x
  <2>1. PICK j \in DOMAIN lab.wires : otherEnd(lab.wires[j], plc) = x
    BY <1>2
  <2>2. CASE j \in Piped(plc)
    <3>1. lab.wires[j].coil = plc /\ CoilPeer(lab.wires[j], plc) = x
      BY <1>2, <1>9, <2>1, <2>2, FarFirst DEF Piped
    <3> QED
      BY <3>1
  <2>3. CASE j \notin Piped(plc)
    <3>1. j <= Len(lab.wires)
      BY <1>1
    <3>2. x \in b.peers
      BY <1>1, <1>5, <1>9, <2>1, <2>3, <3>1 DEF DirectInv
    <3>3. x \in e.peers \/ \E c \in DOMAIN bound : bound[c] = x
      BY <1>5, <3>2 DEF DirectInv
    <3>4. x \in e.peers => \E i \in DOMAIN lab.wires : lab.wires[i].coil = plc /\ CoilPeer(lab.wires[i], plc) = x
      BY <1>1, <1>6 DEF Piped
    <3> QED
      BY <3>3, <3>4
  <2> QED
    BY <2>2, <2>3
<1> QED
  BY <1>4, <1>8, <1>9, Zenon

\* The programs are complete and keep their plant safe: beside what the sequencer does,
\* every actuator a PLC without a program of its own drives has a coil of its own
\* (inferPlcCoilBindings and the batch program of plc-program-gen.ts).
THEOREM ProgramsSafeAlways == Spec => []ProgramsSafe
<1>1. LabInv => CoilsBound
  <2> SUFFICES ASSUME LabInv, composed PROVE CoilsBound
    BY DEF CoilsBound
  <2>1. WellMade(lab)
    BY DEF LabInv
  <2> QED
    BY <2>1, CoilsFollow, Zenon DEF CoilsBound
<1>2. BatchSafe /\ CoilsBound => ProgramsSafe
  BY DEF ProgramsSafe
<1> QED
  BY <1>1, <1>2, BatchSafeAlways, PanelsAlways, PTL

=============================================================================
