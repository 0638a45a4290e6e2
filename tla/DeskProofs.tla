------------------------------ MODULE DeskProofs -------------------------------
(***************************************************************************)
(* Theorems about what lies on the desk: packs, for every set of requests, *)
(* packs, versions and parts, any overlap and any failure; scenario files, *)
(* for any files, scenarios and requests in flight; the monitor's log, for *)
(* any bounds; network settings, for any saves in flight; and desktop      *)
(* windows, for any labs and machines.                                     *)
(***************************************************************************)
EXTENDS Desk, FiniteSetTheorems, SequenceTheorems, TLAPS


-----------------------------------------------------------------------------
(* Packs.                                                                  *)

\* A request that works on a pack has one, and an install also a version.
NamedInv ==
  \A c \in Calls :
    /\ pc[c] \notin {"free", "dialog", "errReply"} => pack[c] \in Packs
    /\ pc[c] \in {"stage", "reject", "clear", "unstage", "extract", "orphan", "undo", "okReply"}
         => version[c] \in Versions

TypeInv == TypeOK /\ NamedInv

-----------------------------------------------------------------------------
\* Removing a pack's directory keeps to the types.
LEMMA RemovedType ==
  ASSUME TypeInv, NEW c \in Calls, pack[c] \in Packs, Removed(c) \/ RemoveFails(c)
  PROVE  /\ dir' \in [Packs -> [Parts -> Versions \cup {Absent}]]
         /\ answered' \in Shelf /\ torn' \in SUBSET Packs /\ mishaps' \in Nat
<1>1. Empty \in [Parts -> Versions \cup {Absent}]
  BY DEF Empty
<1>2. CASE Removed(c)
  BY <1>1, <1>2 DEF Removed, TypeInv, TypeOK, Shelf
<1>3. CASE RemoveFails(c)
  BY <1>3 DEF RemoveFails, Mishap, TypeInv, TypeOK, Shelf
<1> QED
  BY <1>2, <1>3

\* Every variable keeps to its type.
LEMMA TypeStep == TypeInv /\ [Next]_vars => TypeInv'
<1> SUFFICES ASSUME TypeInv, [Next]_vars PROVE TypeInv'
  OBVIOUS
<1> USE NullAssumption, ContentAssumption, BoundAssumption
    DEF disk, listing, ghost, Goto, Disturb, Mishap
<1>0. Bare \in Shelf
  BY DEF Bare, Shelf
<1>1. ASSUME NEW c \in Calls, ClickInstall(c) PROVE TypeInv'
  BY <1>1 DEF ClickInstall, Click, TypeInv, TypeOK, NamedInv
<1>2. ASSUME NEW c \in Calls, NEW p \in Packs, ClickUninstall(c, p) PROVE TypeInv'
  BY <1>2 DEF ClickUninstall, Click, TypeInv, TypeOK, NamedInv
<1>3. CASE Reopen
  BY <1>3 DEF Reopen, TypeInv, TypeOK, NamedInv
<1>4. ASSUME NEW c \in Calls, InstallReply(c) PROVE TypeInv'
  BY <1>0, <1>4 DEF InstallReply, Answer, Over, TypeInv, TypeOK, NamedInv, Shelf
<1>5. ASSUME NEW c \in Calls, UninstallReply(c) PROVE TypeInv'
  BY <1>0, <1>5 DEF UninstallReply, Answer, Over, TypeInv, TypeOK, NamedInv, Shelf
<1>6. ASSUME NEW c \in Calls, ErrorReply(c) PROVE TypeInv'
  BY <1>0, <1>6 DEF ErrorReply, Over, TypeInv, TypeOK, NamedInv
<1>7. ASSUME NEW c \in Calls, Choose(c) PROVE TypeInv'
  <2>1. CASE Goto(c, "errReply") /\ UNCHANGED <<pack, version, staging>>
    BY <1>7, <2>1 DEF Choose, TypeInv, TypeOK, NamedInv
  <2>2. ASSUME NEW p \in Packs, NEW v \in Versions,
               pack' = [pack EXCEPT ![c] = p], version' = [version EXCEPT ![c] = v],
               staging' = staging \cup {c}, Goto(c, "stage")
        PROVE  TypeInv'
    <3>1. /\ pack' \in [Calls -> Packs \cup {Absent}]
          /\ version' \in [Calls -> Versions \cup {Absent}]
          /\ staging' \in SUBSET (Calls \cup {Left})
      BY <2>2 DEF TypeInv, TypeOK
    <3>2. NamedInv'
      BY <2>2 DEF TypeInv, TypeOK, NamedInv
    <3> QED
      BY <1>7, <2>2, <3>1, <3>2 DEF Choose, TypeInv, TypeOK
  <2> QED
    BY <1>7, <2>1, <2>2 DEF Choose
<1>8. ASSUME NEW c \in Calls, Stage(c) PROVE TypeInv'
  BY <1>8 DEF Stage, TypeInv, TypeOK, NamedInv
<1>9. ASSUME NEW c \in Calls, Reject(c) PROVE TypeInv'
  <2>1. staging' \in SUBSET (Calls \cup {Left}) /\ mishaps' \in Nat
    BY <1>9 DEF Reject, TypeInv, TypeOK
  <2>3. disturbed' \in BOOLEAN
    BY <1>9 DEF Reject, TypeInv, TypeOK
  <2>2. NamedInv'
    BY <1>9 DEF Reject, TypeInv, TypeOK, NamedInv
  <2> QED
    BY <1>9, <2>1, <2>2, <2>3 DEF Reject, TypeInv, TypeOK
<1>10. ASSUME NEW c \in Calls, Clear(c) PROVE TypeInv'
  <2>1. pack[c] \in Packs /\ version[c] \in Versions
    BY <1>10 DEF Clear, TypeInv, NamedInv
  <2>2. Removed(c) \/ RemoveFails(c)
    BY <1>10 DEF Clear
  <2> QED
    BY <1>10, <2>1, <2>2, RemovedType DEF Clear, TypeInv, TypeOK, NamedInv
<1>11. ASSUME NEW c \in Calls, Unstage(c) PROVE TypeInv'
  <2>1. Content[version[c]] \subseteq Parts
    BY <1>11 DEF Unstage, TypeInv, NamedInv
  <2> QED
    <3>1. /\ staging' \in SUBSET (Calls \cup {Left})
          /\ mishaps' \in Nat
          /\ todo' \in [Calls -> SUBSET Parts]
      BY <1>11, <2>1 DEF Unstage, TypeInv, TypeOK
    <3>4. disturbed' \in BOOLEAN
      BY <1>11 DEF Unstage, TypeInv, TypeOK
    <3>2. NamedInv'
      BY <1>11 DEF Unstage, TypeInv, TypeOK, NamedInv
    <3>3. pc' \in [Calls -> {"free", "dialog", "stage", "reject", "clear", "unstage",
                            "extract", "orphan", "undo", "okReply", "errReply",
                            "uninstall", "goneReply", "keptReply"}]
      BY <1>11 DEF Unstage, TypeInv, TypeOK
    <3> QED
      BY <1>11, <3>1, <3>2, <3>3, <3>4 DEF Unstage, TypeInv, TypeOK
<1>12. ASSUME NEW c \in Calls, Extract(c) PROVE TypeInv'
  <2>1. pack[c] \in Packs /\ version[c] \in Versions
    BY <1>12 DEF Extract, TypeInv, NamedInv
  <2>2. PICK f \in todo[c] : /\ dir' = [dir EXCEPT ![pack[c]][f] = version[c]]
                             /\ todo' = [todo EXCEPT ![c] = @ \ {f}]
    BY <1>12 DEF Extract
  <2>3. dir' \in [Packs -> [Parts -> Versions \cup {Absent}]] /\ todo' \in [Calls -> SUBSET Parts]
    BY <2>1, <2>2 DEF TypeInv, TypeOK
  <2> QED
    BY <1>12, <2>3 DEF Extract, TypeInv, TypeOK, NamedInv
<1>13. ASSUME NEW c \in Calls, Extracted(c) PROVE TypeInv'
  <2>1. pack[c] \in Packs /\ version[c] \in Versions
    BY <1>13 DEF Extracted, TypeInv, NamedInv
  <2> QED
    <3>1. /\ answered' \in Shelf /\ torn' \in SUBSET Packs
          /\ mishaps' \in Nat
          /\ todo' \in [Calls -> SUBSET Parts]
      BY <1>13, <2>1 DEF Extracted, TypeInv, TypeOK, Shelf
    <3>4. disturbed' \in BOOLEAN
      BY <1>13 DEF Extracted, TypeInv, TypeOK
    <3>2. NamedInv'
      BY <1>13, <2>1 DEF Extracted, TypeInv, TypeOK, NamedInv
    <3>3. pc' \in [Calls -> {"free", "dialog", "stage", "reject", "clear", "unstage",
                            "extract", "orphan", "undo", "okReply", "errReply",
                            "uninstall", "goneReply", "keptReply"}]
      BY <1>13 DEF Extracted, TypeInv, TypeOK
    <3> QED
      BY <1>13, <3>1, <3>2, <3>3, <3>4 DEF Extracted, TypeInv, TypeOK
<1>14. ASSUME NEW c \in Calls, ExtractFails(c) PROVE TypeInv'
  BY <1>14 DEF ExtractFails, TypeInv, TypeOK, NamedInv
<1>15. ASSUME NEW c \in Calls, Undo(c) PROVE TypeInv'
  <2>1. pack[c] \in Packs /\ (Removed(c) \/ RemoveFails(c))
    BY <1>15 DEF Undo, TypeInv, NamedInv
  <2> QED
    BY <1>15, <2>1, RemovedType DEF Undo, TypeInv, TypeOK, NamedInv
<1>16. ASSUME NEW c \in Calls, Uninstall(c) PROVE TypeInv'
  <2>1. pack[c] \in Packs /\ (Removed(c) \/ RemoveFails(c))
    BY <1>16 DEF Uninstall, TypeInv, NamedInv
  <2> QED
    BY <1>16, <2>1, RemovedType DEF Uninstall, TypeInv, TypeOK, NamedInv
<1>17. ASSUME NEW c \in Calls, OrphanEnds(c) PROVE TypeInv'
  BY <1>0, <1>17 DEF OrphanEnds, Over, TypeInv, TypeOK, NamedInv
<1>18. CASE ListScan
  BY <1>18 DEF ListScan, requests, TypeInv, TypeOK, NamedInv
<1>19. ASSUME NEW p \in Packs, ListRead(p) PROVE TypeInv'
  <2>1. Listing(p) \in Versions \cup {Absent}
    BY DescribeAssumption DEF Listing
  <2> QED
    BY <1>19, <2>1 DEF ListRead, requests, TypeInv, TypeOK, NamedInv, Shelf
<1>20. CASE ListReply
  BY <1>0, <1>20 DEF ListReply, requests, TypeInv, TypeOK, NamedInv
<1>21. CASE Quit
  <2>1. dir' \in [Packs -> [Parts -> Versions \cup {Absent}]]
    <3>1. PICK parts \in [Packs -> SUBSET Parts] :
            dir' = [p \in Packs |-> [f \in Parts |->
                      IF f \in parts[p] THEN dir[p][f] ELSE Absent]]
      BY <1>21 DEF Quit
    <3> QED
      BY <3>1 DEF TypeInv, TypeOK
  <2>2. torn' \in SUBSET Packs
    <3>1. \A c \in Calls : pc[c] \in {"clear", "undo", "uninstall", "unstage", "extract"}
            => pack[c] \in Packs
      BY DEF TypeInv, NamedInv
    <3> QED
      BY <1>21, <3>1 DEF Quit, TypeInv, TypeOK
  <2>3. /\ staging' \in SUBSET (Calls \cup {Left}) /\ mishaps' \in Nat
        /\ pc' \in [Calls -> {"free", "orphan"}] /\ todo' \in [Calls -> SUBSET Parts]
        /\ disturbed' \in BOOLEAN /\ entries' \in SUBSET Packs /\ mount' = "sent"
    BY <1>21 DEF Quit, TypeInv, TypeOK
  <2>4. /\ pack' \in [Calls -> Packs \cup {Absent}]
        /\ version' \in [Calls -> Versions \cup {Absent}]
        /\ seen' \in [Calls -> Shelf] /\ shown' \in [Calls -> BOOLEAN]
        /\ listed' \in Shelf /\ found' \in Shelf /\ answered' \in Shelf /\ clicks' \in Nat
    BY <1>0, <1>21 DEF Quit, TypeInv, TypeOK
  <2>5. \A c \in Calls : pc'[c] = "orphan" => pack'[c] \in Packs /\ version'[c] \in Versions
    BY <1>21 DEF Quit, TypeInv, TypeOK, NamedInv
  <2> QED
    BY <2>1, <2>2, <2>3, <2>4, <2>5 DEF TypeInv, TypeOK, NamedInv
<1>22. CASE UNCHANGED vars
  BY <1>22 DEF vars, requests, TypeInv, TypeOK, NamedInv
<1> QED
  BY <1>1, <1>2, <1>3, <1>4, <1>5, <1>6, <1>7, <1>8, <1>9, <1>10, <1>11, <1>12, <1>13,
     <1>14, <1>15, <1>16, <1>17, <1>18, <1>19, <1>20, <1>21, <1>22 DEF Next, Work

\* The first state keeps to the types.
LEMMA TypeInit == Init => TypeInv
<1> SUFFICES ASSUME Init PROVE TypeInv
  OBVIOUS
<1>1. Bare \in Shelf
  BY DEF Bare, Shelf
<1>2. dir \in [Packs -> [Parts -> Versions \cup {Absent}]]
  BY DEF Init, Empty
<1>3. NamedInv
  BY DEF Init, NamedInv
<1> QED
  BY <1>1, <1>2, <1>3 DEF Init, TypeInv, TypeOK

\* Every variable keeps to its type, for any number of requests and packs.
THEOREM TypeCorrect == Spec => []TypeOK
BY TypeInit, TypeStep, PTL DEF Spec, TypeInv

-----------------------------------------------------------------------------
\* What is on disk of a pack with which nothing has gone wrong: at most one
\* request works on it, and what is there is what that one has got to.
Settled(p) ==
  /\ \A c, d \in Calls : Touches(c, p) /\ Touches(d, p) => c = d
  /\ \A c \in Calls : Touches(c, p) =>
       /\ pc[c] # "orphan"
       /\ pc[c] = "unstage" => dir[p] = Empty
       /\ pc[c] = "extract" => /\ todo[c] \subseteq Content[version[c]]
                               /\ dir[p] = Only(Content[version[c]] \ todo[c], version[c])
  /\ (\A c \in Calls : ~Touches(c, p)) => dir[p] = Whole(answered[p])

DirInv == \A p \in Packs \ torn : Settled(p)

\* A step that leaves the pack, and the requests working on it, alone.
LEMMA SettledStays ==
  ASSUME NEW p \in Packs, Settled(p),
         dir'[p] = dir[p], answered'[p] = answered[p],
         \A c \in Calls : Touches(c, p)' <=> Touches(c, p),
         \A c \in Calls : Touches(c, p) =>
           pc'[c] = pc[c] /\ todo'[c] = todo[c] /\ version'[c] = version[c]
  PROVE  Settled(p)'
<1>1. \A c, d \in Calls : Touches(c, p)' /\ Touches(d, p)' => c = d
  BY DEF Settled
<1>2. ASSUME NEW c \in Calls, Touches(c, p)'
      PROVE  /\ pc'[c] # "orphan"
             /\ pc'[c] = "unstage" => dir'[p] = Empty
             /\ pc'[c] = "extract" => /\ todo'[c] \subseteq Content[version'[c]]
                                      /\ dir'[p] = Only(Content[version'[c]] \ todo'[c], version'[c])
  BY <1>2 DEF Settled
<1>3. (\A c \in Calls : ~Touches(c, p)') => dir'[p] = Whole(answered'[p])
  BY DEF Settled
<1> QED
  BY <1>1, <1>2, <1>3 DEF Settled, Empty, Whole, Only

\* A removal, whether it succeeds or fails, settles its pack or marks it.
LEMMA RemovedSettled ==
  ASSUME TypeInv, NEW c \in Calls, pack[c] \in Packs, pack' = pack, version' = version,
         pc[c] \in {"clear", "undo", "uninstall"},
         NEW next \in {"unstage", "errReply", "goneReply"}, Removed(c), Goto(c, next),
         pack[c] \notin torn'
  PROVE  Settled(pack[c])'
<1> DEFINE p == pack[c]
<1>1. Alone(c)
  BY DEF Removed
<1>2. dir'[p] = Empty /\ answered'[p] = Absent
  BY DEF Removed, TypeInv, TypeOK, Shelf
<1>3. \A d \in Calls : Touches(d, p)' => d = c /\ next = "unstage" /\ pc'[d] = "unstage"
  BY <1>1 DEF Alone, Touches, Goto, TypeInv, TypeOK
<1> QED
  BY <1>2, <1>3 DEF Settled, Whole, Empty

\* What a pack has on disk is settled unless the pack is marked.
LEMMA DirStep == TypeInv /\ DirInv /\ [Next]_vars => DirInv'
<1> SUFFICES ASSUME TypeInv, DirInv, [Next]_vars, NEW p \in Packs, p \notin torn' PROVE Settled(p)'
  BY DEF DirInv
<1> USE DEF disk, listing, ghost
<1>0. p \notin torn => Settled(p)
  BY DEF DirInv
\* The requests working on p and what they have got to stay.
<1> DEFINE Same(C) == \A c \in C : pc'[c] = pc[c] /\ pack'[c] = pack[c]
                                   /\ todo'[c] = todo[c] /\ version'[c] = version[c]
<1>a. ASSUME NEW c \in Calls, Same(Calls \ {c}), ~Touches(c, p), ~Touches(c, p)',
             dir'[p] = dir[p], answered'[p] = answered[p], p \notin torn
      PROVE  Settled(p)'
  BY <1>0, <1>a, SettledStays DEF Touches
<1>1. ASSUME NEW c \in Calls, ClickInstall(c) PROVE Settled(p)'
  BY <1>a, <1>1 DEF ClickInstall, Click, Goto, Touches, TypeInv, TypeOK
<1>2. ASSUME NEW c \in Calls, NEW q \in Packs, ClickUninstall(c, q) PROVE Settled(p)'
  BY <1>a, <1>2 DEF ClickUninstall, Click, Goto, Touches, TypeInv, TypeOK
<1>3. CASE Reopen
  BY <1>0, <1>3, SettledStays DEF Reopen, Touches
<1>4. ASSUME NEW c \in Calls, InstallReply(c) PROVE Settled(p)'
  BY <1>a, <1>4 DEF InstallReply, Answer, Over, Touches, TypeInv, TypeOK
<1>5. ASSUME NEW c \in Calls, UninstallReply(c) PROVE Settled(p)'
  BY <1>a, <1>5 DEF UninstallReply, Answer, Over, Touches, TypeInv, TypeOK
<1>6. ASSUME NEW c \in Calls, ErrorReply(c) PROVE Settled(p)'
  BY <1>a, <1>6 DEF ErrorReply, Over, Touches, TypeInv, TypeOK
<1>7. ASSUME NEW c \in Calls, Choose(c) PROVE Settled(p)'
  <2>1. Same(Calls \ {c}) /\ ~Touches(c, p) /\ ~Touches(c, p)'
    BY <1>7 DEF Choose, Goto, Touches, TypeInv, TypeOK
  <2> QED
    BY <1>a, <1>7, <2>1 DEF Choose
<1>8. ASSUME NEW c \in Calls, Stage(c) PROVE Settled(p)'
  BY <1>a, <1>8 DEF Stage, Goto, Touches, TypeInv, TypeOK
<1>9. ASSUME NEW c \in Calls, Reject(c) PROVE Settled(p)'
  BY <1>a, <1>9 DEF Reject, Goto, Touches, TypeInv, TypeOK
<1>10. ASSUME NEW c \in Calls, Clear(c) PROVE Settled(p)'
  <2>1. pack[c] \in Packs
    BY <1>10 DEF Clear, TypeInv, NamedInv
  <2>2. CASE pack[c] = p
    <3>1. Removed(c) /\ Goto(c, "unstage")
      BY <1>10, <2>1, <2>2 DEF Clear, RemoveFails, TypeInv, TypeOK
    <3> QED
      BY <1>10, <2>1, <2>2, <3>1, RemovedSettled DEF Clear
  <2>3. CASE pack[c] # p
    BY <1>a, <1>10, <2>1, <2>3 DEF Clear, Removed, RemoveFails, Goto, Touches, TypeInv, TypeOK, Shelf
  <2> QED
    BY <2>2, <2>3
<1>11. ASSUME NEW c \in Calls, Unstage(c) PROVE Settled(p)'
  <2>1. CASE pack[c] # p
    BY <1>a, <1>11, <2>1 DEF Unstage, Goto, Touches, TypeInv, TypeOK
  <2>2. CASE pack[c] = p
    <3>1. Touches(c, p) /\ Settled(p)
      BY <1>0, <1>11, <2>2 DEF Unstage, Touches
    <3>2. dir'[p] = Empty /\ \A d \in Calls : Touches(d, p)' => d = c
      BY <1>11, <3>1 DEF Unstage, Goto, Touches, Settled, TypeInv, TypeOK, Empty
    <3>3. Touches(c, p)' /\ pc'[c] \in {"extract", "undo"} /\ todo'[c] = Content[version'[c]]
      BY <1>11, <2>2 DEF Unstage, Goto, Touches, TypeInv, TypeOK
    <3>4. Only(Content[version'[c]] \ todo'[c], version'[c]) = Empty
      BY <3>3 DEF Only, Empty
    <3> QED
      BY <3>2, <3>3, <3>4 DEF Settled, Only, Empty
  <2> QED
    BY <2>1, <2>2
<1>12. ASSUME NEW c \in Calls, Extract(c) PROVE Settled(p)'
  <2>1. PICK f \in todo[c] : /\ dir' = [dir EXCEPT ![pack[c]][f] = version[c]]
                             /\ todo' = [todo EXCEPT ![c] = @ \ {f}]
    BY <1>12 DEF Extract
  <2>2. CASE pack[c] # p
    BY <1>a, <1>12, <2>1, <2>2 DEF Extract, Touches, TypeInv, TypeOK
  <2>3. CASE pack[c] = p
    <3>1. Touches(c, p) /\ Settled(p)
      BY <1>0, <1>12, <2>3 DEF Extract, Touches
    <3>2. /\ pc[c] = "extract" /\ todo[c] \subseteq Content[version[c]]
          /\ dir[p] = Only(Content[version[c]] \ todo[c], version[c])
      BY <1>12, <3>1 DEF Extract, Settled
    <3>3. todo'[c] = todo[c] \ {f} /\ version'[c] = version[c] /\ pc'[c] = "extract"
      BY <1>12, <2>1, <3>2 DEF Extract, TypeInv, TypeOK
    <3>4. dir'[p] = Only(Content[version'[c]] \ todo'[c], version'[c])
      <4>1. f \in Content[version[c]] /\ f \in Parts
        BY <3>2 DEF TypeInv, TypeOK
      <4>2. dir'[p] = [dir[p] EXCEPT ![f] = version[c]]
        BY <2>1, <2>3 DEF TypeInv, TypeOK
      <4> QED
        BY <3>2, <3>3, <4>1, <4>2 DEF Only
    <3>5. \A d \in Calls : Touches(d, p)' => d = c
      BY <1>12, <3>1 DEF Extract, Touches, Settled
    <3>6. Touches(c, p)'
      BY <1>12, <3>1 DEF Extract, Touches
    <3> QED
      BY <3>2, <3>3, <3>4, <3>5, <3>6 DEF Settled, Only
  <2> QED
    BY <2>2, <2>3
<1>13. ASSUME NEW c \in Calls, Extracted(c) PROVE Settled(p)'
  <2>1. pack[c] \in Packs /\ version[c] \in Versions
    BY <1>13 DEF Extracted, TypeInv, NamedInv
  <2>2. CASE pack[c] # p
    <3>1. p \notin torn /\ answered'[p] = answered[p]
      BY <1>13, <2>1, <2>2 DEF Extracted, TypeInv, TypeOK, Shelf
    <3> QED
      BY <1>a, <1>13, <2>2, <3>1 DEF Extracted, Goto, Touches, TypeInv, TypeOK
  <2>3. CASE pack[c] = p
    <3>1. todo[c] = {} /\ p \notin torn
      BY <1>13, <2>1, <2>3 DEF Extracted, TypeInv, TypeOK
    <3>2. Touches(c, p) /\ Settled(p)
      BY <1>0, <1>13, <2>3, <3>1 DEF Extracted, Touches
    <3>3. dir[p] = Only(Content[version[c]], version[c])
      BY <1>13, <3>1, <3>2 DEF Extracted, Settled, Only
    <3>4. dir'[p] = dir[p] /\ answered'[p] = version[c]
      BY <1>13, <2>3, <2>1 DEF Extracted, TypeInv, TypeOK, Shelf
    <3>5. \A d \in Calls : ~Touches(d, p)'
      BY <1>13, <3>2 DEF Extracted, Goto, Touches, Settled, TypeInv, TypeOK
    <3> QED
      BY <2>1, <3>3, <3>4, <3>5, NullAssumption DEF Settled, Whole, Only, Empty
  <2> QED
    BY <2>2, <2>3
<1>14. ASSUME NEW c \in Calls, ExtractFails(c) PROVE Settled(p)'
  <2>1. CASE pack[c] # p
    BY <1>a, <1>14, <2>1 DEF ExtractFails, Goto, Touches, TypeInv, TypeOK
  <2>2. CASE pack[c] = p
    <3>1. Touches(c, p) /\ Settled(p)
      BY <1>0, <1>14, <2>2 DEF ExtractFails, Touches
    <3>2. Touches(c, p)' /\ pc'[c] = "undo" /\ \A d \in Calls : Touches(d, p)' => d = c
      BY <1>14, <3>1 DEF ExtractFails, Goto, Touches, Settled, TypeInv, TypeOK
    <3> QED
      BY <3>2 DEF Settled
  <2> QED
    BY <2>1, <2>2
<1>15. ASSUME NEW c \in Calls, Undo(c) PROVE Settled(p)'
  <2>1. pack[c] \in Packs
    BY <1>15 DEF Undo, TypeInv, NamedInv
  <2>2. CASE pack[c] = p
    <3>1. Removed(c) /\ Goto(c, "errReply")
      BY <1>15, <2>1, <2>2 DEF Undo, RemoveFails, TypeInv, TypeOK
    <3> QED
      BY <1>15, <2>1, <2>2, <3>1, RemovedSettled DEF Undo
  <2>3. CASE pack[c] # p
    BY <1>a, <1>15, <2>1, <2>3 DEF Undo, Removed, RemoveFails, Goto, Touches, TypeInv, TypeOK, Shelf
  <2> QED
    BY <2>2, <2>3
<1>16. ASSUME NEW c \in Calls, Uninstall(c) PROVE Settled(p)'
  <2>1. pack[c] \in Packs
    BY <1>16 DEF Uninstall, TypeInv, NamedInv
  <2>2. CASE pack[c] = p
    <3>1. Removed(c) /\ Goto(c, "goneReply")
      BY <1>16, <2>1, <2>2 DEF Uninstall, RemoveFails, TypeInv, TypeOK
    <3> QED
      BY <1>16, <2>1, <2>2, <3>1, RemovedSettled DEF Uninstall
  <2>3. CASE pack[c] # p
    BY <1>a, <1>16, <2>1, <2>3 DEF Uninstall, Removed, RemoveFails, Goto, Touches, TypeInv, TypeOK, Shelf
  <2> QED
    BY <2>2, <2>3
<1>17. ASSUME NEW c \in Calls, OrphanEnds(c) PROVE Settled(p)'
  <2>1. ~Touches(c, p)
    BY <1>0, <1>17 DEF OrphanEnds, Touches, Settled
  <2> QED
    BY <1>a, <1>17, <2>1 DEF OrphanEnds, Over, Touches, TypeInv, TypeOK
<1>18. CASE ListScan
  BY <1>0, <1>18, SettledStays DEF ListScan, requests, Touches
<1>19. ASSUME NEW q \in Packs, ListRead(q) PROVE Settled(p)'
  BY <1>0, <1>19, SettledStays DEF ListRead, requests, Touches
<1>20. CASE ListReply
  BY <1>0, <1>20, SettledStays DEF ListReply, requests, Touches
<1>21. CASE Quit
  <2>1. p \notin torn /\ Settled(p)
    BY <1>0, <1>21 DEF Quit
  <2>2. \A c \in Calls : pc[c] \in {"clear", "undo", "uninstall", "unstage", "extract"} => pack[c] # p
    BY <1>21 DEF Quit
  <2>3. \A c \in Calls : ~Touches(c, p)
    BY <2>1, <2>2 DEF Touches, Settled
  <2>4. \A c \in Calls : ~Touches(c, p)'
    BY <1>21, <2>2, <2>3 DEF Quit, Touches, TypeInv, TypeOK
  <2>5. dir'[p] = dir[p] /\ answered'[p] = answered[p]
    <3>1. PICK parts \in [Packs -> SUBSET Parts] :
            /\ \A q \in Packs :
                 q \notin {pack[c] : c \in {d \in Calls : pc[d] \in {"clear", "undo", "uninstall"}}}
                   => parts[q] = Parts
            /\ dir' = [q \in Packs |-> [f \in Parts |->
                         IF f \in parts[q] THEN dir[q][f] ELSE Absent]]
      BY <1>21 DEF Quit
    <3>2. parts[p] = Parts
      BY <2>2, <3>1
    <3> QED
      BY <1>21, <3>1, <3>2 DEF Quit, TypeInv, TypeOK
  <2> QED
    BY <2>1, <2>3, <2>4, <2>5 DEF Settled, Whole, Only, Empty
<1>22. CASE UNCHANGED vars
  BY <1>0, <1>22, SettledStays DEF vars, requests, Touches
<1> QED
  BY <1>1, <1>2, <1>3, <1>4, <1>5, <1>6, <1>7, <1>8, <1>9, <1>10, <1>11, <1>12, <1>13,
     <1>14, <1>15, <1>16, <1>17, <1>18, <1>19, <1>20, <1>21, <1>22 DEF Next, Work

\* A pack is on disk as main last answered, unless something went wrong with
\* it since it was last removed (pack:install, pack:uninstall).
THEOREM DiskAsAnsweredAlways == Spec => []DiskAsAnswered
<1>1. Init => TypeInv
  BY TypeInit
<1>2. Init => DirInv
  BY NullAssumption DEF Init, DirInv, Settled, Touches, Whole, Bare, Empty
<1>3. DirInv => DiskAsAnswered
  BY DEF DirInv, Settled, DiskAsAnswered
<1> QED
  BY <1>1, <1>2, <1>3, TypeStep, DirStep, PTL DEF Spec

-----------------------------------------------------------------------------
\* Staging directories belong to installs that have not begun to write.
LEMMA StagingStep == TypeInv /\ StagingCleared /\ [Next]_vars => StagingCleared'
<1> SUFFICES ASSUME TypeInv, StagingCleared, [Next]_vars PROVE StagingCleared'
  OBVIOUS
<1> USE NullAssumption DEF disk, listing, ghost, StagingCleared
<1>a. ASSUME NEW c \in Calls, staging' = staging \ {c}, mishaps' = mishaps,
             \A d \in Calls \ {c} : pc'[d] = pc[d]
      PROVE  StagingCleared'
  BY <1>a DEF TypeInv, TypeOK
<1>b. ASSUME NEW c \in Calls, staging' = (staging \ {c}) \cup {Left}, Mishap,
             \A d \in Calls \ {c} : pc'[d] = pc[d]
      PROVE  StagingCleared'
  BY <1>b DEF Mishap, TypeInv, TypeOK
<1>c. ASSUME NEW c \in Calls, staging' = staging, mishaps' = mishaps,
             pc[c] \notin {"stage", "reject", "clear", "unstage"},
             \A d \in Calls \ {c} : pc'[d] = pc[d]
      PROVE  StagingCleared'
  BY <1>c DEF TypeInv, TypeOK
<1>1. ASSUME NEW c \in Calls, ClickInstall(c) PROVE StagingCleared'
  BY <1>c, <1>1 DEF ClickInstall, Click, Goto, TypeInv, TypeOK
<1>2. ASSUME NEW c \in Calls, NEW p \in Packs, ClickUninstall(c, p) PROVE StagingCleared'
  BY <1>c, <1>2 DEF ClickUninstall, Click, Goto, TypeInv, TypeOK
<1>3. CASE Reopen
  BY <1>3 DEF Reopen
<1>4. ASSUME NEW c \in Calls, InstallReply(c) \/ UninstallReply(c) PROVE StagingCleared'
  BY <1>c, <1>4 DEF InstallReply, UninstallReply, Answer, Over, TypeInv, TypeOK
<1>5. ASSUME NEW c \in Calls, ErrorReply(c) \/ OrphanEnds(c) PROVE StagingCleared'
  BY <1>c, <1>5 DEF ErrorReply, OrphanEnds, Over, TypeInv, TypeOK
<1>6. ASSUME NEW c \in Calls, Choose(c) PROVE StagingCleared'
  <2>1. CASE Goto(c, "errReply") /\ UNCHANGED <<pack, version, staging>>
    BY <1>c, <1>6, <2>1 DEF Choose, Goto, TypeInv, TypeOK
  <2>2. CASE staging' = staging \cup {c} /\ Goto(c, "stage")
    BY <1>6, <2>2 DEF Choose, Goto, TypeInv, TypeOK
  <2> QED
    BY <1>6, <2>1, <2>2 DEF Choose
<1>7. ASSUME NEW c \in Calls, Stage(c) PROVE StagingCleared'
  BY <1>7 DEF Stage, Goto, TypeInv, TypeOK
<1>8. ASSUME NEW c \in Calls, Reject(c) PROVE StagingCleared'
  BY <1>a, <1>b, <1>8 DEF Reject, Goto, TypeInv, TypeOK
<1>9. ASSUME NEW c \in Calls, Clear(c) PROVE StagingCleared'
  <2>1. CASE Removed(c) /\ Goto(c, "unstage") /\ UNCHANGED staging
    BY <1>9, <2>1 DEF Clear, Removed, Goto, TypeInv, TypeOK
  <2>2. CASE RemoveFails(c) /\ Goto(c, "undo") /\ staging' = (staging \ {c}) \cup {Left}
    BY <1>b, <2>2 DEF RemoveFails, Goto, TypeInv, TypeOK
  <2> QED
    BY <1>9, <2>1, <2>2 DEF Clear
<1>10. ASSUME NEW c \in Calls, Unstage(c) PROVE StagingCleared'
  BY <1>a, <1>b, <1>10 DEF Unstage, Goto, TypeInv, TypeOK
<1>11. ASSUME NEW c \in Calls, Extract(c) \/ ExtractFails(c) PROVE StagingCleared'
  BY <1>c, <1>11 DEF Extract, ExtractFails, Goto, TypeInv, TypeOK
<1>d. ASSUME NEW c \in Calls, staging' = staging, mishaps' \in {mishaps, mishaps + 1},
             pc[c] \notin {"stage", "reject", "clear", "unstage"},
             \A d \in Calls \ {c} : pc'[d] = pc[d]
      PROVE  StagingCleared'
  BY <1>d DEF TypeInv, TypeOK
<1>12. ASSUME NEW c \in Calls, Extracted(c) PROVE StagingCleared'
  BY <1>d, <1>12 DEF Extracted, Mishap, Goto, TypeInv, TypeOK
<1>13. ASSUME NEW c \in Calls, Undo(c) \/ Uninstall(c) PROVE StagingCleared'
  BY <1>d, <1>13 DEF Undo, Uninstall, Removed, RemoveFails, Mishap, Goto, TypeInv, TypeOK
<1>14. CASE ListScan \/ ListReply \/ \E p \in Packs : ListRead(p)
  BY <1>14 DEF ListScan, ListReply, ListRead, requests
<1>15. CASE Quit
  BY <1>15 DEF Quit, Mishap, TypeInv, TypeOK
<1>16. CASE UNCHANGED vars
  BY <1>16 DEF vars, requests
<1> QED
  BY <1>1, <1>2, <1>3, <1>4, <1>5, <1>6, <1>7, <1>8, <1>9, <1>10, <1>11, <1>12, <1>13,
     <1>14, <1>15, <1>16 DEF Next, Work

\* A staging directory belongs to an install that has not begun to write, or
\* something has failed (pack:install).
THEOREM StagingClearedAlways == Spec => []StagingCleared
<1>1. Init => StagingCleared
  BY DEF Init, StagingCleared
<1> QED
  BY <1>1, TypeInit, TypeStep, StagingStep, PTL DEF Spec

-----------------------------------------------------------------------------
\* What the Pack Manager shows of a pack is what pack:list would find.
Shows(p) == listed[p] = Listing(p)

\* While requests have not overlapped and none has failed half-way: one
\* request at a time, none during the first pack:list, and the list shown is
\* right but for the pack that request has changed.
ListInv ==
  ~disturbed =>
    /\ \A c, d \in Calls : pc[c] # "free" /\ pc[d] # "free" => c = d
    /\ mount # "done" => \A c \in Calls : pc[c] = "free"
    /\ mount = "sent" => found = Bare
    /\ mount = "reading" => \A p \in Packs \ entries : found[p] = Listing(p)
    /\ \A c \in Calls :
         /\ pc[c] \notin {"orphan", "undo", "keptReply"}
         /\ pc[c] # "free" => seen[c] = listed
         /\ pc[c] \in {"unstage", "extract"} => pack[c] \notin torn
         /\ pc[c] = "okReply" => Listing(pack[c]) = version[c]
         /\ pc[c] = "goneReply" => Listing(pack[c]) = Absent
    /\ mount = "done" => \A p \in Packs :
         \/ Shows(p)
         \/ \E c \in Calls : pack[c] = p /\ pc[c] \in {"unstage", "extract", "okReply", "goneReply"}

\* The list invariant is kept, with the help of the invariant of the disk.
LEMMA ListStep == TypeInv /\ DirInv /\ ListInv /\ [Next]_vars => ListInv'
<1> SUFFICES ASSUME TypeInv, DirInv, ListInv, [Next]_vars, ~disturbed' PROVE ListInv'
  BY DEF ListInv
<1> USE NullAssumption, ContentAssumption, DescribeAssumption DEF disk, listing, ghost
<1>d. ~Disturb(TRUE)
  BY DEF Disturb
<1>0. \A p \in Packs : dir[p] = Empty => Listing(p) = Absent
  BY DEF Empty, Listing
<1>3. CASE Reopen
  BY <1>3 DEF Reopen, ListInv, Shows, Listing
<1>1. ASSUME NEW c \in Calls, ClickInstall(c) PROVE ListInv'
  <2>1. Quiet /\ ~disturbed
    BY <1>1 DEF ClickInstall, Click, Disturb, TypeInv, TypeOK
  <2> QED
    BY <1>1, <2>1 DEF ClickInstall, Click, Goto, Quiet, ListInv, Shows, Listing, TypeInv, TypeOK
<1>2. ASSUME NEW c \in Calls, NEW p \in Packs, ClickUninstall(c, p) PROVE ListInv'
  <2>1. Quiet /\ ~disturbed
    BY <1>2 DEF ClickUninstall, Click, Disturb, TypeInv, TypeOK
  <2> QED
    BY <1>2, <2>1 DEF ClickUninstall, Click, Goto, Quiet, ListInv, Shows, Listing, TypeInv, TypeOK
\* An answer puts its own pack right; the others are.
<1>a. ASSUME NEW c \in Calls, NEW v, Answer(c, v), pack[c] \in Packs,
             pc[c] \in {"okReply", "goneReply"}, Listing(pack[c]) = v
      PROVE  ListInv'
  <2>1. ~disturbed /\ mount = "done" /\ \A d \in Calls : pc[d] # "free" => d = c
    BY <1>a DEF Answer, Over, ListInv, TypeInv, TypeOK
  <2>2. seen[c] = listed
    BY <1>a, <2>1 DEF ListInv
  <2>3. \A p \in Packs : Listing(p)' = Listing(p)
    BY <1>a DEF Answer, Listing
  <2>4. \A p \in Packs : Shows(p)'
    <3>1. listed' = [listed EXCEPT ![pack[c]] = v] /\ listed \in [Packs -> Versions \cup {Absent}]
      BY <1>a, <2>2 DEF Answer, TypeInv, TypeOK, Shelf
    <3>2. \A p \in Packs \ {pack[c]} : Shows(p)
      BY <1>a, <2>1 DEF ListInv
    <3> QED
      BY <1>a, <2>3, <3>1, <3>2 DEF Shows
  <2>5. \A d \in Calls : pc'[d] = "free"
    BY <1>a, <2>1 DEF Answer, Over, TypeInv, TypeOK
  <2> QED
    BY <1>a, <2>1, <2>4, <2>5 DEF Answer, ListInv
<1>4. ASSUME NEW c \in Calls, InstallReply(c) PROVE ListInv'
  <2>1. ~disturbed /\ pack[c] \in Packs
    BY <1>4 DEF InstallReply, Answer, TypeInv, NamedInv
  <2> QED
    BY <1>4, <1>a, <2>1 DEF InstallReply, ListInv
<1>5. ASSUME NEW c \in Calls, UninstallReply(c) PROVE ListInv'
  <2>1. ~disturbed /\ pack[c] \in Packs
    BY <1>5 DEF UninstallReply, Answer, TypeInv, NamedInv
  <2> QED
    BY <1>5, <1>a, <2>1 DEF UninstallReply, ListInv
\* A request goes on to a stretch of which nothing is asked.
<1>b. ASSUME NEW c \in Calls, ~disturbed, pc[c] # "free",
             pc[c] \notin {"unstage", "extract", "okReply", "goneReply"},
             pc' = [pc EXCEPT ![c] = pc'[c]],
             pc'[c] \in {"free", "stage", "reject", "clear", "errReply"},
             \A d \in Calls \ {c} : pack'[d] = pack[d] /\ version'[d] = version[d],
             pc'[c] # "free" => seen' = seen,
             UNCHANGED <<dir, listed, mount, entries, found, torn>>
      PROVE  ListInv'
  <2>1. mount = "done" /\ \A d \in Calls : pc[d] # "free" => d = c
    BY <1>b DEF ListInv
  <2>2. \A d \in Calls \ {c} : pc'[d] = "free"
    BY <1>b, <2>1 DEF TypeInv, TypeOK
  <2>3. \A p \in Packs : Shows(p)'
    BY <1>b, <2>1 DEF ListInv, Shows, Listing
  <2> QED
    BY <1>b, <2>1, <2>2, <2>3 DEF ListInv
<1>6. ASSUME NEW c \in Calls, ErrorReply(c) \/ OrphanEnds(c) PROVE ListInv'
  BY <1>b, <1>6 DEF ErrorReply, OrphanEnds, Over, ListInv, TypeInv, TypeOK
<1>7. ASSUME NEW c \in Calls, Choose(c) PROVE ListInv'
  <2>1. \E next \in {"errReply", "stage"} : Goto(c, next)
    BY <1>7 DEF Choose
  <2>2. \A d \in Calls \ {c} : pack'[d] = pack[d] /\ version'[d] = version[d]
    BY <1>7 DEF Choose, TypeInv, TypeOK
  <2> QED
    BY <1>b, <1>7, <2>1, <2>2 DEF Choose, Goto, TypeInv, TypeOK
<1>8. ASSUME NEW c \in Calls, Stage(c) PROVE ListInv'
  BY <1>b, <1>8 DEF Stage, Goto, TypeInv, TypeOK
<1>9. ASSUME NEW c \in Calls, Reject(c) PROVE ListInv'
  <2>1. UNCHANGED disturbed
    BY <1>9 DEF Reject, Disturb
  <2> QED
    BY <1>b, <1>9, <2>1 DEF Reject, Goto, TypeInv, TypeOK
\* The only request changes what is on disk of its own pack.
<1>c. ASSUME NEW c \in Calls, ~disturbed, pack[c] \in Packs, pc[c] # "free",
             UNCHANGED <<pack, version, seen, listed, listing>>,
             pc' = [pc EXCEPT ![c] = pc'[c]],
             pc'[c] \in {"unstage", "extract", "okReply", "goneReply"},
             \A q \in Packs \ {pack[c]} : dir'[q] = dir[q],
             pc'[c] \in {"unstage", "extract"} => pack[c] \notin torn',
             pc'[c] = "okReply" => Listing(pack[c])' = version[c],
             pc'[c] = "goneReply" => Listing(pack[c])' = Absent
      PROVE  ListInv'
  <2>1. mount = "done" /\ \A d \in Calls : pc[d] # "free" => d = c
    BY <1>c DEF ListInv
  <2>2. pc'[c] # "free" /\ \A d \in Calls \ {c} : pc'[d] = "free"
    BY <1>c, <2>1 DEF TypeInv, TypeOK
  <2>3. \A q \in Packs \ {pack[c]} : Shows(q)'
    BY <1>c, <2>1 DEF ListInv, Shows, Listing
  <2>4. seen[c] = listed
    BY <1>c DEF ListInv
  <2> QED
    BY <1>c, <2>1, <2>2, <2>3, <2>4 DEF ListInv
<1>10. ASSUME NEW c \in Calls, Clear(c) PROVE ListInv'
  <2>0. Removed(c) /\ Goto(c, "unstage") /\ disturbed' = disturbed
    BY <1>d, <1>10 DEF Clear
  <2>1. ~disturbed /\ Removed(c) /\ Goto(c, "unstage")
    BY <2>0
  <2>2. Alone(c) /\ pack[c] \in Packs
    BY <1>10, <2>1 DEF Clear, Alone, Touches, ListInv, TypeInv, NamedInv
  <2>3. pack[c] \notin torn' /\ \A q \in Packs \ {pack[c]} : dir'[q] = dir[q]
    BY <2>1, <2>2 DEF Removed, TypeInv, TypeOK
  <2> QED
    BY <1>10, <1>c, <2>1, <2>2, <2>3 DEF Clear, Goto, TypeInv, TypeOK
<1>11. ASSUME NEW c \in Calls, Unstage(c) PROVE ListInv'
  <2>0. Goto(c, "extract") /\ disturbed' = disturbed
    BY <1>d, <1>11 DEF Unstage
  <2>1. ~disturbed /\ Goto(c, "extract") /\ pack[c] \in Packs
    BY <1>11, <2>0 DEF Unstage, TypeInv, NamedInv
  <2>2. pack[c] \notin torn
    BY <1>11, <2>1 DEF Unstage, ListInv
  <2> QED
    BY <1>11, <1>c, <2>1, <2>2 DEF Unstage, Goto, TypeInv, TypeOK
<1>12. ASSUME NEW c \in Calls, Extract(c) PROVE ListInv'
  <2>1. ~disturbed /\ pc[c] = "extract" /\ pack[c] \in Packs
    BY <1>12 DEF Extract, ListInv, TypeInv, NamedInv
  <2>2. pack[c] \notin torn
    BY <2>1 DEF ListInv
  <2>3. \A q \in Packs \ {pack[c]} : dir'[q] = dir[q]
    BY <1>12, <2>1 DEF Extract, TypeInv, TypeOK
  <2> QED
    BY <1>12, <1>c, <2>1, <2>2, <2>3 DEF Extract, TypeInv, TypeOK
<1>13. ASSUME NEW c \in Calls, Extracted(c) PROVE ListInv'
  <2>1. /\ ~disturbed /\ todo[c] = {} /\ version[c] \in Describable /\ Goto(c, "okReply")
        /\ pack[c] \in Packs
    BY <1>13 DEF Extracted, Disturb, TypeInv, NamedInv
  <2>2. pack[c] \notin torn
    BY <1>13, <2>1 DEF Extracted, ListInv
  <2>3. Settled(pack[c]) /\ Touches(c, pack[c])
    BY <1>13, <2>1, <2>2 DEF Extracted, DirInv, Touches
  <2>4. dir[pack[c]] = Only(Content[version[c]], version[c])
    BY <1>13, <2>1, <2>3 DEF Extracted, Settled, Only
  <2>5. Listing(pack[c])' = version[c]
    BY <1>13, <2>1, <2>4 DEF Extracted, Listing, Only
  <2> QED
    BY <1>13, <1>c, <2>1, <2>2, <2>5 DEF Extracted, Goto, TypeInv, TypeOK
<1>14. ASSUME NEW c \in Calls, ExtractFails(c) PROVE ListInv'
  BY <1>14 DEF ExtractFails, Disturb
<1>15. ASSUME NEW c \in Calls, Undo(c) PROVE ListInv'
  BY <1>15 DEF Undo, ListInv
<1>16. ASSUME NEW c \in Calls, Uninstall(c) PROVE ListInv'
  <2>0. Removed(c) /\ Goto(c, "goneReply") /\ disturbed' = disturbed
    BY <1>d, <1>16 DEF Uninstall
  <2>1. ~disturbed /\ Removed(c) /\ Goto(c, "goneReply") /\ pack[c] \in Packs
    BY <1>16, <2>0 DEF Uninstall, TypeInv, NamedInv
  <2>2. dir'[pack[c]] = Empty /\ \A q \in Packs \ {pack[c]} : dir'[q] = dir[q]
    BY <2>1 DEF Removed, TypeInv, TypeOK
  <2>3. Listing(pack[c])' = Absent
    <3>1. pack' = pack
      BY <1>16 DEF Uninstall
    <3> QED
      BY <2>2, <3>1 DEF Listing, Empty
  <2> QED
    BY <1>16, <1>c, <2>1, <2>2, <2>3 DEF Uninstall, Goto, TypeInv, TypeOK
<1>17. CASE ListScan
  BY <1>0, <1>17 DEF ListScan, requests, ListInv, Shows, Listing, Bare
<1>18. ASSUME NEW p \in Packs, ListRead(p) PROVE ListInv'
  BY <1>18 DEF ListRead, requests, ListInv, Shows, Listing, TypeInv, TypeOK, Shelf
<1>19. CASE ListReply
  BY <1>19 DEF ListReply, requests, ListInv, Shows, Listing
<1>20. CASE Quit
  BY <1>20 DEF Quit, ListInv
<1>21. CASE UNCHANGED vars
  BY <1>21 DEF vars, requests, ListInv, Shows, Listing
<1> QED
  BY <1>1, <1>2, <1>3, <1>4, <1>5, <1>6, <1>7, <1>8, <1>9, <1>10, <1>11, <1>12, <1>13,
     <1>14, <1>15, <1>16, <1>17, <1>18, <1>19, <1>20, <1>21 DEF Next, Work

\* With one request at a time and none failing half-way, the Pack Manager
\* shows what is on disk (App, PackManagerModal).
THEOREM ListTrueAlways == Spec => []ListTrue
<1>1. Init => ListInv
  BY DEF Init, ListInv
<1>2. Init => DirInv
  BY NullAssumption DEF Init, DirInv, Settled, Touches, Whole, Bare, Empty
<1>3. ListInv => ListTrue
  BY DEF ListInv, ListTrue, Quiet, Shows
<1> QED
  BY <1>1, <1>2, <1>3, TypeInit, TypeStep, DirStep, ListStep, PTL DEF Spec


\* Packs are on disk as main last answered, with nothing left in staging.
THEOREM DiskSettledAlways == Spec => []DiskSettled
<1>1. DiskAsAnswered /\ StagingCleared => DiskSettled
  BY DEF DiskSettled
<1> QED
  BY <1>1, DiskAsAnsweredAlways, StagingClearedAlways, PTL

-----------------------------------------------------------------------------
(* Scenario files.                                                         *)

\* A scenario the app lets be opened, exported or saved.
Sound == {d \in Scenario : d.security # "absent"}

Request ==
  [kind : {"free", "import", "export", "delete", "pack", "session"},
   at : {"free", "dialog", "read", "notice", "save", "reply", "write", "rm"},
   doc : Scenario \cup {Nothing}, file : Files \cup {Nothing}]

\* What a request has in hand once it is as far as that.
Holds(r) ==
  /\ r.kind = "import" /\ r.at # "dialog" => r.file \in Files
  /\ r.kind = "import" /\ r.at \in {"notice", "save", "reply"} => r.doc \in Sound
  /\ r.kind = "export" => r.doc \in Sound
  /\ r.kind = "export" /\ r.at \in {"write", "reply"} => r.file \in Files
  /\ r.kind = "delete" => r.file \in Files
  /\ r.kind = "pack" => r.doc \in Scenario
  /\ r.kind = "pack" /\ r.at = "reply" => r.doc \in Sound
  /\ r.kind = "session" => r.doc \in Sound

\* A document that cannot be opened is never written, shown or started.
SoundInv ==
  /\ FilesTypeOK
  /\ files \in [Files -> Sound \cup {Torn, Nothing}]
  /\ {canvas, activeRecord, lab} \subseteq Sound \cup {Nothing}
  /\ modal # "closed" => canvas # Nothing
  /\ request \in [Slots -> Request] /\ \A s \in Slots : Holds(request[s])

-----------------------------------------------------------------------------

\* What is made of a scenario is a scenario of the same work.
LEMMA SoundCopies ==
  ASSUME NEW d \in Sound
  PROVE  /\ d # Nothing /\ d \in Scenario
         /\ StudentCopy(d) \in Sound /\ StudentCopy(d).work = d.work
         /\ \A n \in Nat : [d EXCEPT !.devices = n] \in Sound /\ [d EXCEPT !.devices = n].work = d.work
BY ScenarioAssumption DEF Sound, Scenario, StudentCopy

LEMMA SoundSources ==
  /\ Tutorial \in Sound /\ Saved \subseteq Sound /\ Community \subseteq Scenario
  /\ \A w \in Works : NewScenario(w) \in Sound
<1>1. Tutorial \in Sound /\ Saved \subseteq Sound /\ Community \subseteq Scenario
  BY ScenarioAssumption DEF Sound
<1>2. ASSUME NEW w \in Works PROVE NewScenario(w) \in Sound
  BY DEF NewScenario, Sound, Scenario
<1> QED
  BY <1>1, <1>2

LEMMA FreeHolds == Free \in Request /\ Holds(Free) /\ Free.kind = "free" /\ Free.at = "free"
BY DEF Free, Request, Holds

LEMMA SoundInit == FilesInit => SoundInv
<1> SUFFICES ASSUME FilesInit PROVE SoundInv
  OBVIOUS
<1>1. files \in [Files -> Sound \cup {Torn, Nothing}]
  BY SoundSources DEF FilesInit
<1>2. Sound \subseteq Document
  BY DEF Sound, Document
<1>3. FilesTypeOK
  <2>1. \A s \in Slots : request[s].file \in Files \cup {Nothing}
    BY DEF FilesInit, Free
  <2>2. Torn \in Document
    BY DEF Document
  <2> QED
    BY <1>1, <1>2, <2>1, <2>2 DEF FilesInit, FilesTypeOK
<1>4. request \in [Slots -> Request] /\ \A s \in Slots : Holds(request[s])
  BY FreeHolds DEF FilesInit
<1> QED
  BY <1>1, <1>3, <1>4 DEF FilesInit, SoundInv

\* A request that is sent, or goes on, or is over, leaves the others alone.
LEMMA RequestTyped ==
  ASSUME request \in [Slots -> Request], \A t \in Slots : Holds(request[t]),
         NEW s \in Slots, NEW r \in Request, Holds(r), request' = [request EXCEPT ![s] = r]
  PROVE  /\ request' \in [Slots -> Request] /\ \A t \in Slots : Holds(request'[t])
         /\ \A t \in Slots : request'[t].file \in Files \cup {Nothing}
         /\ request'[s] = r /\ \A t \in Slots \ {s} : request'[t] = request[t]
<1>1. request' \in [Slots -> Request] /\ request'[s] = r /\ \A t \in Slots \ {s} : request'[t] = request[t]
  OBVIOUS
<1>2. \A t \in Slots : Holds(request'[t])
  BY <1>1
<1>3. \A t \in Slots : request'[t].file \in Files \cup {Nothing}
  BY <1>1 DEF Request
<1> QED
  BY <1>1, <1>2, <1>3

\* As much of the invariant as a step of a request that leaves the rest alone disturbs.
LEMMA RequestStep ==
  ASSUME SoundInv,
         NEW s \in Slots, NEW r \in Request, Holds(r), request' = [request EXCEPT ![s] = r],
         files' \in [Files -> Sound \cup {Torn, Nothing}],
         {canvas', activeRecord'} \subseteq Sound \cup {Nothing}, lab' = lab,
         modal' \in {"closed", "open", "done"} \cup Slots, modal' # "closed" => canvas' # Nothing,
         {currentFilePath', activeScenarioFilePath'} \subseteq Files \cup {Nothing},
         builder' \in BOOLEAN, strayed' \in BOOLEAN, UNCHANGED <<form, sim, refused>>
  PROVE  SoundInv'
<1>1. /\ request' \in [Slots -> Request] /\ \A t \in Slots : Holds(request'[t])
      /\ \A t \in Slots : request'[t].file \in Files \cup {Nothing}
  BY RequestTyped DEF SoundInv
<1>2. Sound \subseteq Scenario /\ Sound \cup {Torn, Nothing} \subseteq Document \cup {Nothing}
  BY DEF Sound, Document
<1>3. files' \in [Files -> Document \cup {Nothing}]
  BY <1>2
<1>4. FilesTypeOK'
  BY <1>1, <1>2, <1>3 DEF SoundInv, FilesTypeOK
<1>5. {canvas', activeRecord', lab'} \subseteq Sound \cup {Nothing}
  BY DEF SoundInv
<1> QED
  BY <1>1, <1>4, <1>5 DEF SoundInv

LEMMA ImportSound ==
  ASSUME SoundInv, NEW s \in Slots,
         \/ handleImport(s) \/ PickFile(s) \/ ReadFile(s) \/ AnswerNotice(s)
         \/ SaveImported(s) \/ ImportReply(s)
  PROVE  SoundInv'
<1> USE DEF SoundInv, FilesTypeOK
<1>. request[s] \in Request /\ Holds(request[s])
  OBVIOUS
<1>1. CASE handleImport(s)
  <2> DEFINE r == [kind |-> "import", at |-> "dialog", doc |-> Nothing, file |-> Nothing]
  <2>1. r \in Request /\ Holds(r)
    BY DEF Request, Holds
  <2>2. request' = [request EXCEPT ![s] = r] /\ strayed' \in BOOLEAN /\ UNCHANGED <<filesRenderer, filesMain>>
    BY <1>1 DEF handleImport, Begin
  <2> HIDE DEF r
  <2> QED
    BY <2>1, <2>2, RequestStep DEF filesRenderer, filesMain
<1>2. ASSUME \/ PickFile(s) \/ ReadFile(s) \/ AnswerNotice(s)
      PROVE  SoundInv'
  <2>1. UNCHANGED <<filesRenderer, filesMain, strayed>>
    BY <1>2 DEF PickFile, ReadFile, AnswerNotice
  <2>2. CASE request' = [request EXCEPT ![s] = Free]
    BY <2>1, <2>2, FreeHolds, RequestStep DEF filesRenderer, filesMain
  <2>3. ASSUME request' # [request EXCEPT ![s] = Free]
        PROVE \E r \in Request : Holds(r) /\ request' = [request EXCEPT ![s] = r]
    <3>1. ASSUME PickFile(s) PROVE \E r \in Request : Holds(r) /\ request' = [request EXCEPT ![s] = r]
      <4>1. PICK f \in Files : request' = [request EXCEPT ![s].at = "read", ![s].file = f]
        BY <2>3, <3>1 DEF PickFile, End
      <4> DEFINE r == [request[s] EXCEPT !.at = "read", !.file = f]
      <4>2. request' = [request EXCEPT ![s] = r]
        BY <4>1
      <4>3. r \in Request /\ Holds(r)
        BY <3>1 DEF PickFile, At, Request, Holds
      <4> QED
        BY <4>2, <4>3
    <3>2. ASSUME ReadFile(s) PROVE \E r \in Request : Holds(r) /\ request' = [request EXCEPT ![s] = r]
      <4> DEFINE doc == files[request[s].file]
      <4>1. PICK at \in {"notice", "save"} :
              request' = [request EXCEPT ![s].doc = doc, ![s].at = at]
        BY <2>3, <3>2 DEF ReadFile, End
      <4>2. /\ doc # Nothing /\ validateScenario(doc)
            /\ request[s].kind = "import" /\ request[s].file \in Files
        BY <2>3, <3>2 DEF ReadFile, End, At, Holds
      <4>3. doc \in Sound
        BY <4>2 DEF validateScenario, Torn
      <4> DEFINE r == [request[s] EXCEPT !.doc = doc, !.at = at]
      <4>4. request' = [request EXCEPT ![s] = r]
        BY <4>1
      <4> HIDE DEF doc
      <4>5. r \in Request /\ Holds(r)
        BY <4>2, <4>3, SoundCopies DEF Request, Holds
      <4> QED
        BY <4>4, <4>5
    <3>3. ASSUME AnswerNotice(s) PROVE \E r \in Request : Holds(r) /\ request' = [request EXCEPT ![s] = r]
      <4> DEFINE r == [request[s] EXCEPT !.at = "save"]
      <4>1. request' = [request EXCEPT ![s] = r]
        BY <2>3, <3>3 DEF AnswerNotice, End, Proceed
      <4>2. r \in Request /\ Holds(r)
        BY <3>3 DEF AnswerNotice, At, Request, Holds
      <4> QED
        BY <4>1, <4>2
    <3> QED
      BY <1>2, <3>1, <3>2, <3>3
  <2>4. ASSUME NEW r \in Request, Holds(r), request' = [request EXCEPT ![s] = r] PROVE SoundInv'
    BY <2>1, <2>4, RequestStep DEF filesRenderer, filesMain
  <2> QED
    BY <2>2, <2>3, <2>4
<1>3. CASE SaveImported(s)
  <2> DEFINE r == [request[s] EXCEPT !.at = "reply"]
  <2>1. /\ request' = [request EXCEPT ![s] = r]
        /\ activeScenarioFilePath' = request[s].file /\ activeRecord' = request[s].doc
        /\ UNCHANGED <<filesRenderer, files, lab, refused, strayed>>
    BY <1>3 DEF SaveImported, Proceed
  <2>2. /\ request[s].file \in Files /\ request[s].doc \in Sound /\ r \in Request /\ Holds(r)
    BY <1>3 DEF SaveImported, At, Request, Holds
  <2> HIDE DEF r
  <2> QED
    BY <2>1, <2>2, RequestStep DEF filesRenderer
<1>4. CASE ImportReply(s)
  <2>1. /\ request[s].file \in Files /\ request[s].doc \in Sound
    BY <1>4 DEF ImportReply, At, Holds
  <2>2. /\ request' = [request EXCEPT ![s] = Free] /\ builder' = FALSE
        /\ canvas' = request[s].doc /\ currentFilePath' = request[s].file
        /\ UNCHANGED <<form, modal, sim, filesMain, strayed>>
    BY <1>4 DEF ImportReply, End
  <2> QED
    BY <2>1, <2>2, SoundCopies, FreeHolds, RequestStep DEF filesMain
<1> QED
  BY <1>1, <1>2, <1>3, <1>4

LEMMA ExportSound ==
  ASSUME SoundInv, NEW s \in Slots,
         \/ \E locked \in BOOLEAN : handleExport(s, locked)
         \/ PickTarget(s) \/ WriteExport(s) \/ WriteFails(s) \/ handleExportSuccess(s)
  PROVE  SoundInv'
<1> USE DEF SoundInv, FilesTypeOK
<1>. request[s] \in Request /\ Holds(request[s])
  OBVIOUS
<1>0. ShowResult(s) => modal' \in {"closed", "open", "done"} \cup Slots /\ (modal' # "closed" => modal # "closed")
  BY SlotsAssumption DEF ShowResult
<1>1. ASSUME NEW locked \in BOOLEAN, handleExport(s, locked) PROVE SoundInv'
  <2> DEFINE doc == IF locked THEN StudentCopy(canvas) ELSE canvas
             r   == [kind |-> "export", at |-> "dialog", doc |-> doc, file |-> Nothing]
  <2>1. canvas \in Sound
    BY <1>1 DEF handleExport
  <2>2. doc \in Sound
    BY <2>1, SoundCopies
  <2>3. request' = [request EXCEPT ![s] = r] /\ strayed' \in BOOLEAN /\ modal' = s
        /\ UNCHANGED <<canvas, builder, form, currentFilePath, sim, filesMain>>
    BY <1>1 DEF handleExport, Begin
  <2> HIDE DEF doc
  <2>4. r \in Request /\ Holds(r)
    BY <2>2, SoundCopies DEF Request, Holds
  <2> HIDE DEF r
  <2> QED
    BY <2>1, <2>3, <2>4, SoundCopies, RequestStep DEF filesMain
<1>2. CASE PickTarget(s)
  <2>1. UNCHANGED <<canvas, builder, form, currentFilePath, sim, filesMain, strayed>>
    BY <1>2 DEF PickTarget
  <2>2. CASE End(s) /\ ShowResult(s)
    <3>1. request' = [request EXCEPT ![s] = Free]
      BY <2>2 DEF End
    <3> QED
      BY <1>0, <2>1, <2>2, <3>1, FreeHolds, RequestStep DEF filesMain
  <2>3. ASSUME NEW f \in Files, request' = [request EXCEPT ![s].at = "write", ![s].file = f], modal' = modal
        PROVE  SoundInv'
    <3> DEFINE r == [request[s] EXCEPT !.at = "write", !.file = f]
    <3>1. request' = [request EXCEPT ![s] = r]
      BY <2>3
    <3>2. r \in Request /\ Holds(r)
      BY <1>2 DEF PickTarget, At, Request, Holds
    <3> HIDE DEF r
    <3> QED
      BY <2>1, <2>3, <3>1, <3>2, RequestStep DEF filesMain
  <2> QED
    BY <1>2, <2>2, <2>3 DEF PickTarget
<1>3. CASE WriteExport(s)
  <2> DEFINE r == [request[s] EXCEPT !.at = "reply"]
  <2>1. /\ request[s].file \in Files /\ request[s].doc \in Sound /\ r \in Request /\ Holds(r)
    BY <1>3 DEF WriteExport, At, Request, Holds
  <2>2. /\ request' = [request EXCEPT ![s] = r]
        /\ files' = [files EXCEPT ![request[s].file] = request[s].doc]
        /\ activeScenarioFilePath' = request[s].file
        /\ UNCHANGED <<filesRenderer, activeRecord, lab, refused, strayed>>
    BY <1>3 DEF WriteExport, Proceed
  <2>3. files' \in [Files -> Sound \cup {Torn, Nothing}]
    BY <2>1, <2>2
  <2> HIDE DEF r
  <2> QED
    BY <2>1, <2>2, <2>3, RequestStep DEF filesRenderer
<1>4. CASE WriteFails(s)
  <2>1. /\ request' = [request EXCEPT ![s] = Free] /\ ShowResult(s)
        /\ files' \in {files, [files EXCEPT ![request[s].file] = Torn]}
        /\ UNCHANGED <<canvas, builder, form, currentFilePath, sim, activeScenarioFilePath,
                       activeRecord, lab, refused, strayed>>
    BY <1>4 DEF WriteFails, End
  <2>2. files' \in [Files -> Sound \cup {Torn, Nothing}]
    BY <2>1
  <2> QED
    BY <1>0, <2>1, <2>2, FreeHolds, RequestStep
<1>5. CASE handleExportSuccess(s)
  <2>1. request[s].file \in Files
    BY <1>5 DEF handleExportSuccess, At, Holds
  <2>2. /\ request' = [request EXCEPT ![s] = Free] /\ ShowResult(s) /\ currentFilePath' = request[s].file
        /\ UNCHANGED <<canvas, builder, form, sim, filesMain, strayed>>
    BY <1>5 DEF handleExportSuccess, End
  <2> QED
    BY <1>0, <2>1, <2>2, FreeHolds, RequestStep DEF filesMain
<1> QED
  BY <1>1, <1>2, <1>3, <1>4, <1>5

\* What Delete, or a reply to it, leaves on the canvas.
LEMMA ClearedSound ==
  ASSUME canvas \in Sound \cup {Nothing}
  PROVE  /\ Cleared \in Sound \cup {Nothing} /\ (canvas # Nothing => Cleared # Nothing)
         /\ (canvas # Nothing => Cleared.work = canvas.work) /\ (canvas = Nothing => Cleared = Nothing)
<1>1. CASE canvas = Nothing
  BY <1>1 DEF Cleared
<1>2. CASE canvas # Nothing
  BY <1>2, SoundCopies DEF Cleared
<1> QED
  BY <1>1, <1>2

LEMMA DeleteSound ==
  ASSUME SoundInv, NEW s \in Slots, handleDelete(s) \/ DeleteFile(s) \/ DeleteReply(s)
  PROVE  SoundInv'
<1> USE DEF SoundInv, FilesTypeOK
<1>. request[s] \in Request /\ Holds(request[s])
  OBVIOUS
<1>0. canvas \in Sound \cup {Nothing}
  OBVIOUS
<1>1. CASE handleDelete(s)
  <2>1. canvas # Nothing /\ UNCHANGED <<builder, form, modal, currentFilePath, sim, filesMain>>
    BY <1>1 DEF handleDelete
  <2>2. CASE canvas' = Cleared /\ UNCHANGED <<request, asks, strayed>>
    <3>1. request' = [request EXCEPT ![s] = request[s]]
      BY <2>2
    <3> QED
      BY <1>0, <2>1, <2>2, <3>1, ClearedSound, RequestStep DEF filesMain
  <2>3. CASE currentFilePath # Nothing /\ Begin(s, "delete", "rm", canvas, currentFilePath) /\ UNCHANGED canvas
    <3> DEFINE r == [kind |-> "delete", at |-> "rm", doc |-> canvas, file |-> currentFilePath]
    <3>1. r \in Request /\ Holds(r)
      BY <1>0, <2>1, <2>3, SoundCopies DEF Request, Holds
    <3>2. request' = [request EXCEPT ![s] = r] /\ strayed' \in BOOLEAN
      BY <2>3 DEF Begin
    <3> HIDE DEF r
    <3> QED
      BY <2>1, <2>3, <3>1, <3>2, RequestStep DEF filesMain
  <2> QED
    BY <1>1, <2>2, <2>3 DEF handleDelete
<1>2. CASE DeleteFile(s)
  <2> DEFINE r == [request[s] EXCEPT !.at = "reply"]
  <2>1. r \in Request /\ Holds(r)
    BY <1>2 DEF DeleteFile, At, Request, Holds
  <2>2. /\ request' = [request EXCEPT ![s] = r]
        /\ files' \in [Files -> Sound \cup {Torn, Nothing}]
        /\ activeScenarioFilePath' \in Files \cup {Nothing}
        /\ UNCHANGED <<filesRenderer, activeRecord, lab, refused, strayed>>
    BY <1>2 DEF DeleteFile, Proceed
  <2> HIDE DEF r
  <2> QED
    BY <2>1, <2>2, RequestStep DEF filesRenderer
<1>3. CASE DeleteReply(s)
  <2>1. /\ request' = [request EXCEPT ![s] = Free] /\ currentFilePath' = Nothing /\ canvas' = Cleared
        /\ UNCHANGED <<builder, form, modal, sim, filesMain, strayed>>
    BY <1>3 DEF DeleteReply, End
  <2> QED
    BY <1>0, <2>1, ClearedSound, FreeHolds, RequestStep DEF filesMain
<1> QED
  BY <1>1, <1>2, <1>3

LEMMA ElsewhereSound ==
  ASSUME SoundInv, NEW s \in Slots,
         \/ \E doc \in Community : handlePackOpen(s, doc)
         \/ ReadPackScenario(s) \/ PackReply(s)
         \/ \E doc \in Saved : handleSessionPick(s, doc)
         \/ handleLoadSession(s)
  PROVE  SoundInv'
<1> USE DEF SoundInv, FilesTypeOK
<1>. request[s] \in Request /\ Holds(request[s])
  OBVIOUS
<1>1. ASSUME NEW doc \in Scenario, NEW kind \in {"pack", "session"}, NEW at \in {"read", "reply"},
             kind = "pack" => at = "read", kind = "session" => doc \in Sound,
             Begin(s, kind, at, doc, Nothing), UNCHANGED <<filesRenderer, filesMain>>
      PROVE  SoundInv'
  <2> DEFINE r == [kind |-> kind, at |-> at, doc |-> doc, file |-> Nothing]
  <2>1. r \in Request /\ Holds(r)
    BY <1>1 DEF Request, Holds
  <2>2. request' = [request EXCEPT ![s] = r] /\ strayed' \in BOOLEAN
    BY <1>1 DEF Begin
  <2> HIDE DEF r
  <2> QED
    BY <1>1, <2>1, <2>2, RequestStep DEF filesRenderer, filesMain
<1>2. ASSUME NEW doc \in Community, handlePackOpen(s, doc) PROVE SoundInv'
  BY <1>1, <1>2, SoundSources DEF handlePackOpen
<1>3. ASSUME NEW doc \in Saved, handleSessionPick(s, doc) PROVE SoundInv'
  BY <1>1, <1>3, SoundSources, SoundCopies DEF handleSessionPick
<1>4. CASE ReadPackScenario(s)
  <2>1. UNCHANGED <<filesRenderer, files, activeScenarioFilePath, lab, refused, strayed>>
    BY <1>4 DEF ReadPackScenario
  <2>2. CASE End(s) /\ UNCHANGED activeRecord
    <3>1. request' = [request EXCEPT ![s] = Free]
      BY <2>2 DEF End
    <3> QED
      BY <2>1, <2>2, <3>1, FreeHolds, RequestStep DEF filesRenderer
  <2>3. CASE validateScenario(request[s].doc) /\ activeRecord' = request[s].doc /\ Proceed(s, "reply")
    <3> DEFINE r == [request[s] EXCEPT !.at = "reply"]
    <3>1. request[s].doc \in Sound
      BY <1>4, <2>3 DEF ReadPackScenario, At, Holds, Sound, validateScenario
    <3>2. request' = [request EXCEPT ![s] = r]
      BY <2>3 DEF Proceed
    <3>3. r \in Request /\ Holds(r)
      BY <1>4, <3>1 DEF ReadPackScenario, At, Request, Holds
    <3> HIDE DEF r
    <3> QED
      BY <2>1, <2>3, <3>1, <3>2, <3>3, RequestStep DEF filesRenderer
  <2> QED
    BY <1>4, <2>2, <2>3 DEF ReadPackScenario
<1>5. CASE PackReply(s)
  <2>1. request[s].doc \in Sound
    BY <1>5 DEF PackReply, At, Holds
  <2>2. /\ request' = [request EXCEPT ![s] = Free] /\ canvas' = request[s].doc /\ strayed' = TRUE
        /\ UNCHANGED <<builder, form, modal, currentFilePath, sim, filesMain>>
    BY <1>5 DEF PackReply, End
  <2> QED
    BY <2>1, <2>2, SoundCopies, FreeHolds, RequestStep DEF filesMain
<1>6. CASE handleLoadSession(s)
  <2>1. request[s].doc \in Sound
    BY <1>6 DEF handleLoadSession, At, Holds
  <2>2. /\ request' = [request EXCEPT ![s] = Free] /\ canvas' = request[s].doc /\ builder' = FALSE
        /\ currentFilePath' = Nothing /\ sim' = "starting" /\ lab' = request[s].doc
        /\ UNCHANGED <<form, modal, files, activeScenarioFilePath, activeRecord, refused, strayed>>
    BY <1>6 DEF handleLoadSession, End
  <2>3. /\ request' \in [Slots -> Request] /\ \A t \in Slots : Holds(request'[t])
        /\ \A t \in Slots : request'[t].file \in Files \cup {Nothing}
    BY <2>2, FreeHolds, RequestTyped
  <2>4. Sound \subseteq Scenario /\ request[s].doc # Nothing
    BY <2>1, SoundCopies DEF Sound
  <2> QED
    BY <2>1, <2>2, <2>3, <2>4
<1> QED
  BY <1>2, <1>3, <1>4, <1>5, <1>6

\* Steps that leave the requests alone.
LEMMA QuietSound ==
  ASSUME SoundInv,
         \/ handleExportOpen \/ handleExportClose
         \/ \E w \in Works : handleNew(w)
         \/ handleMetadataSave \/ handleMetadataClose \/ SwitchMode
         \/ \E n \in Counts : handleScenarioChange(n)
         \/ handleStart \/ StartReply \/ handleStop \/ Relaunch
  PROVE  SoundInv'
<1> USE DEF SoundInv, FilesTypeOK
<1>0. Sound \subseteq Scenario
  BY DEF Sound
<1>1. CASE \/ handleExportOpen \/ handleExportClose \/ handleMetadataSave \/ handleMetadataClose \/ SwitchMode
  BY <1>1 DEF handleExportOpen, handleExportClose, handleMetadataSave, handleMetadataClose, SwitchMode, filesMain
<1>2. ASSUME NEW w \in Works, handleNew(w) PROVE SoundInv'
  <2>1. NewScenario(w) \in Sound /\ NewScenario(w) # Nothing
    BY SoundSources, SoundCopies
  <2> QED
    BY <1>0, <1>2, <2>1 DEF handleNew, filesMain
<1>3. ASSUME NEW n \in Counts, handleScenarioChange(n) PROVE SoundInv'
  <2>1. n \in Nat /\ canvas \in Sound
    BY <1>3, ScenarioAssumption DEF handleScenarioChange
  <2>2. canvas' \in Sound /\ canvas' # Nothing
    BY <1>3, <2>1, SoundCopies DEF handleScenarioChange
  <2> QED
    BY <1>0, <1>3, <2>2 DEF handleScenarioChange, filesMain
<1>4. CASE handleStart
  BY <1>4 DEF handleStart
<1>5. CASE StartReply
  BY <1>5 DEF StartReply
<1>6. CASE handleStop
  BY <1>6 DEF handleStop
<1>7. CASE Relaunch
  <2>1. request' \in [Slots -> Request] /\ \A t \in Slots : request'[t] = Free
    BY <1>7, FreeHolds DEF Relaunch
  <2>2. \A t \in Slots : Holds(request'[t]) /\ request'[t].file \in Files \cup {Nothing}
    BY <2>1, FreeHolds DEF Free
  <2> QED
    BY <1>0, <1>7, <2>1, <2>2 DEF Relaunch
<1> QED
  BY <1>1, <1>2, <1>3, <1>4, <1>5, <1>6, <1>7

LEMMA SoundStep == SoundInv /\ [FilesNext]_filesVars => SoundInv'
<1> SUFFICES ASSUME SoundInv, [FilesNext]_filesVars PROVE SoundInv'
  OBVIOUS
<1>1. CASE FilesNext
  BY <1>1, ImportSound, ExportSound, DeleteSound, ElsewhereSound, QuietSound DEF FilesNext
<1>2. CASE UNCHANGED filesVars
  BY <1>2 DEF SoundInv, FilesTypeOK, filesVars, filesRenderer, filesMain
<1> QED
  BY <1>1, <1>2

-----------------------------------------------------------------------------

\* What is in a file, if it can be read, is this work.
KeptIn(file, work) == files[file] \in {Nothing, Torn} \/ files[file].work = work

Ours ==
  currentFilePath # Nothing =>
    KeptIn(currentFilePath, canvas.work) /\ activeScenarioFilePath = currentFilePath

\* Main has acted and App has not heard of it.
Unheard(r) == r.kind \in {"import", "export", "delete"} /\ r.at = "reply"

\* What a request has in hand is what it will leave on canvas and disk.
Agrees(r) ==
  /\ r.kind = "import" /\ r.at \in {"notice", "save", "reply"} => KeptIn(r.file, r.doc.work)
  /\ r.kind = "export" => r.doc.work = canvas.work
  /\ r.kind = "export" /\ r.at = "reply" => KeptIn(r.file, canvas.work)
  /\ r.kind \in {"import", "export"} /\ r.at = "reply" => activeScenarioFilePath = r.file

\* While requests come one at a time, the path is that of the canvas, except between
\* main's step and App's.
PathInv ==
  ~strayed =>
    /\ \A s, t \in Slots : Busy(s) /\ Busy(t) => s = t
    /\ \A s \in Slots : Agrees(request[s])
    /\ Ours \/ \E s \in Slots : Unheard(request[s])

FilesInv == SoundInv /\ PathInv

LEMMA FreeAgrees == Agrees(Free) /\ ~Unheard(Free)
BY DEF Agrees, Unheard, Free

\* A request that begins alone, once the others are over.
LEMMA BeginPath ==
  ASSUME FilesInv, NEW s \in Slots, NEW kind, NEW at, NEW doc, NEW file, Begin(s, kind, at, doc, file),
         at \notin {"notice", "save"}, at = "reply" => kind = "session",
         kind = "export" => doc.work = canvas.work,
         UNCHANGED <<files, canvas, currentFilePath, activeScenarioFilePath>>
  PROVE  PathInv'
<1> DEFINE r == [kind |-> kind, at |-> at, doc |-> doc, file |-> file]
<1> SUFFICES ASSUME ~strayed'
             PROVE  /\ \A p, q \in Slots : Busy(p)' /\ Busy(q)' => p = q
                    /\ \A t \in Slots : Agrees(request[t])'
                    /\ Ours'
  BY DEF PathInv
<1>1. ~strayed /\ AllFree /\ request' = [request EXCEPT ![s] = r] /\ request \in [Slots -> Request]
  BY DEF Begin, FilesInv, SoundInv
<1>2. \A t \in Slots : request[t] = Free
  BY <1>1 DEF AllFree, Busy
<1>3. request'[s] = r /\ \A t \in Slots \ {s} : request'[t] = Free
  BY <1>1, <1>2
<1>4. Ours
  BY <1>1, <1>2, FreeAgrees DEF FilesInv, PathInv
<1>5. Ours'
  BY <1>4 DEF Ours, KeptIn
<1>6. \A p, q \in Slots : Busy(p)' /\ Busy(q)' => p = q
  BY <1>3 DEF Busy
<1>7. Agrees(r)'
  BY DEF Agrees
<1>8. Agrees(Free)'
  BY DEF Agrees, Free
<1> QED
  BY <1>3, <1>5, <1>6, <1>7, <1>8

\* A request goes on, or is over, and is the only one.
LEMMA ProceedPath ==
  ASSUME FilesInv, NEW s \in Slots, Busy(s), NEW r, request' = [request EXCEPT ![s] = r],
         strayed => strayed', ~strayed' => Agrees(r)' /\ (Ours' \/ Unheard(r))
  PROVE  PathInv'
<1> SUFFICES ASSUME ~strayed'
             PROVE  /\ \A p, q \in Slots : Busy(p)' /\ Busy(q)' => p = q
                    /\ \A t \in Slots : Agrees(request[t])'
                    /\ Ours' \/ \E t \in Slots : Unheard(request[t])'
  BY DEF PathInv
<1>1. ~strayed /\ request \in [Slots -> Request]
  BY DEF FilesInv, SoundInv
<1>2. request'[s] = r /\ \A t \in Slots \ {s} : request'[t] = Free
  BY <1>1 DEF FilesInv, PathInv, Busy
<1>3. \A p, q \in Slots : Busy(p)' /\ Busy(q)' => p = q
  BY <1>2 DEF Busy
<1>4. Agrees(Free)'
  BY DEF Agrees, Free
<1>5. Unheard(r)' <=> Unheard(r)
  BY DEF Unheard
<1> QED
  BY <1>2, <1>3, <1>4, <1>5

\* The only request agrees, and until main has acted the path is that of the canvas.
LEMMA OnlyRequest ==
  ASSUME FilesInv, NEW s \in Slots, Busy(s), ~strayed
  PROVE  Agrees(request[s]) /\ (Unheard(request[s]) \/ Ours)
<1>1. \A t \in Slots \ {s} : request[t] = Free
  BY DEF FilesInv, PathInv, Busy
<1> QED
  BY <1>1, FreeAgrees DEF FilesInv, PathInv

\* Work done on the canvas is still the same work.
LEMMA QuietPath ==
  ASSUME FilesInv, UNCHANGED <<files, currentFilePath, activeScenarioFilePath, request, strayed>>,
         canvas' = canvas \/ canvas'.work = canvas.work
  PROVE  PathInv'
<1>1. canvas'.work = canvas.work
  OBVIOUS
<1> QED
  BY <1>1 DEF FilesInv, PathInv, Busy, Agrees, Ours, KeptIn, Unheard

LEMMA ImportPath ==
  ASSUME FilesInv, NEW s \in Slots,
         \/ handleImport(s) \/ PickFile(s) \/ ReadFile(s) \/ AnswerNotice(s)
         \/ SaveImported(s) \/ ImportReply(s)
  PROVE  PathInv'
<1>. request[s] \in Request /\ Holds(request[s]) /\ request \in [Slots -> Request]
  BY DEF FilesInv, SoundInv
<1>1. CASE handleImport(s)
  BY <1>1, BeginPath DEF handleImport, filesRenderer, filesMain
<1>2. ASSUME NEW r, request' = [request EXCEPT ![s] = r], r = Free \/ (r.kind = "import" /\ r.at = "read"),
             At(s, "import", "dialog") \/ At(s, "import", "read") \/ At(s, "import", "notice"),
             UNCHANGED <<filesRenderer, filesMain, strayed>>
      PROVE  PathInv'
  <2>1. Busy(s) /\ ~Unheard(request[s])
    BY <1>2 DEF Busy, At, Free, Unheard
  <2>2. Agrees(r)'
    BY <1>2 DEF Agrees, Free
  <2>3. Ours <=> Ours'
    BY <1>2 DEF Ours, KeptIn, filesRenderer, filesMain
  <2> QED
    BY <1>2, <2>1, <2>2, <2>3, OnlyRequest, ProceedPath
<1>3. CASE PickFile(s)
  <2>1. At(s, "import", "dialog") /\ UNCHANGED <<filesRenderer, filesMain, strayed>>
    BY <1>3 DEF PickFile
  <2>2. CASE End(s)
    BY <1>2, <2>1, <2>2 DEF End
  <2>3. ASSUME NEW f \in Files, request' = [request EXCEPT ![s].at = "read", ![s].file = f] PROVE PathInv'
    <3> DEFINE r == [request[s] EXCEPT !.at = "read", !.file = f]
    <3>1. r.kind = "import" /\ r.at = "read" /\ request' = [request EXCEPT ![s] = r]
      BY <2>1, <2>3 DEF At, Request
    <3> QED
      BY <1>2, <2>1, <3>1
  <2> QED
    BY <1>3, <2>2, <2>3 DEF PickFile
<1>4. CASE ReadFile(s)
  <2>1. At(s, "import", "read") /\ UNCHANGED <<filesRenderer, filesMain, strayed>>
    BY <1>4 DEF ReadFile
  <2>2. CASE End(s)
    BY <1>2, <2>1, <2>2 DEF End
  <2>3. ASSUME NEW at \in {"notice", "save"},
               request' = [request EXCEPT ![s].doc = files[request[s].file], ![s].at = at]
        PROVE  PathInv'
    <3>0. PICK r : r = [request[s] EXCEPT !.doc = files[request[s].file], !.at = at]
      OBVIOUS
    <3>1. /\ r.kind = "import" /\ r.at \in {"notice", "save"} /\ r.file = request[s].file
          /\ r.doc = files[request[s].file] /\ request' = [request EXCEPT ![s] = r]
      BY <2>1, <2>3, <3>0 DEF At, Request
    <3>2. Busy(s) /\ ~Unheard(request[s])
      BY <2>1 DEF Busy, At, Free, Unheard
    <3>3. Agrees(r)'
      BY <2>1, <3>1 DEF Agrees, KeptIn, filesMain
    <3>4. Ours <=> Ours'
      BY <2>1 DEF Ours, KeptIn, filesRenderer, filesMain
    <3> QED
      BY <2>1, <3>1, <3>2, <3>3, <3>4, OnlyRequest, ProceedPath
  <2> QED
    BY <1>4, <2>2, <2>3 DEF ReadFile
<1>5. CASE AnswerNotice(s)
  <2>1. At(s, "import", "notice") /\ UNCHANGED <<filesRenderer, filesMain, strayed>>
    BY <1>5 DEF AnswerNotice
  <2>2. CASE End(s)
    BY <1>2, <2>1, <2>2 DEF End
  <2>3. CASE Proceed(s, "save")
    <3>0. PICK r : r = [request[s] EXCEPT !.at = "save"]
      OBVIOUS
    <3>1. /\ r.kind = "import" /\ r.at = "save" /\ r.file = request[s].file
          /\ r.doc = request[s].doc /\ request' = [request EXCEPT ![s] = r]
      BY <2>1, <2>3, <3>0 DEF At, Request, Proceed
    <3>2. Busy(s) /\ ~Unheard(request[s])
      BY <2>1 DEF Busy, At, Free, Unheard
    <3>3. Agrees(request[s]) => Agrees(r)'
      BY <2>1, <3>1 DEF At, Agrees, KeptIn, filesMain
    <3>4. Ours <=> Ours'
      BY <2>1 DEF Ours, KeptIn, filesRenderer, filesMain
    <3> QED
      BY <2>1, <3>1, <3>2, <3>3, <3>4, OnlyRequest, ProceedPath
  <2> QED
    BY <1>5, <2>2, <2>3 DEF AnswerNotice
<1>6. CASE SaveImported(s)
  <2>0. PICK r : r = [request[s] EXCEPT !.at = "reply"]
    OBVIOUS
  <2>1. /\ At(s, "import", "save") /\ request' = [request EXCEPT ![s] = r]
        /\ activeScenarioFilePath' = request[s].file /\ UNCHANGED <<files, canvas, strayed>>
    BY <1>6, <2>0 DEF SaveImported, Proceed, filesRenderer
  <2>2. r.kind = "import" /\ r.at = "reply" /\ r.file = request[s].file /\ r.doc = request[s].doc
    BY <2>0, <2>1 DEF At, Request
  <2>3. Busy(s) /\ Unheard(r)
    BY <2>1, <2>2 DEF Busy, At, Free, Unheard
  <2>4. Agrees(request[s]) => Agrees(r)'
    BY <2>1, <2>2 DEF At, Agrees, KeptIn
  <2> QED
    BY <2>1, <2>3, <2>4, OnlyRequest, ProceedPath
<1>7. CASE ImportReply(s)
  <2>1. /\ At(s, "import", "reply") /\ request' = [request EXCEPT ![s] = Free]
        /\ canvas' = request[s].doc /\ currentFilePath' = request[s].file
        /\ UNCHANGED <<files, activeScenarioFilePath, strayed>>
    BY <1>7 DEF ImportReply, End, filesMain
  <2>2. Busy(s)
    BY <2>1 DEF Busy, At, Free
  <2>3. Agrees(request[s]) => Ours'
    BY <2>1 DEF At, Agrees, Ours, KeptIn
  <2>4. Agrees(Free)'
    BY DEF Agrees, Free
  <2> QED
    BY <2>1, <2>2, <2>3, <2>4, OnlyRequest, ProceedPath
<1> QED
  BY <1>1, <1>3, <1>4, <1>5, <1>6, <1>7

LEMMA ExportPath ==
  ASSUME FilesInv, NEW s \in Slots,
         \/ \E locked \in BOOLEAN : handleExport(s, locked)
         \/ PickTarget(s) \/ WriteExport(s) \/ WriteFails(s) \/ handleExportSuccess(s)
  PROVE  PathInv'
<1>. request[s] \in Request /\ Holds(request[s]) /\ request \in [Slots -> Request] /\ canvas \in Sound \cup {Nothing}
  BY DEF FilesInv, SoundInv
<1>1. ASSUME NEW locked \in BOOLEAN, handleExport(s, locked) PROVE PathInv'
  <2> DEFINE doc == IF locked THEN StudentCopy(canvas) ELSE canvas
  <2>1. canvas \in Sound
    BY <1>1 DEF handleExport, FilesInv, SoundInv
  <2>2. doc.work = canvas.work
    BY <2>1, SoundCopies
  <2>3. /\ Begin(s, "export", "dialog", doc, Nothing)
        /\ UNCHANGED <<canvas, builder, form, currentFilePath, sim, filesMain>>
    BY <1>1 DEF handleExport
  <2> HIDE DEF doc
  <2> QED
    BY <2>2, <2>3, BeginPath DEF filesMain
<1>2. CASE PickTarget(s)
  <2>1. /\ At(s, "export", "dialog")
        /\ UNCHANGED <<canvas, builder, form, currentFilePath, sim, filesMain, strayed>>
    BY <1>2 DEF PickTarget
  <2>2. Busy(s) /\ ~Unheard(request[s])
    BY <2>1 DEF Busy, At, Free, Unheard
  <2>3. Ours <=> Ours'
    BY <2>1 DEF Ours, KeptIn, filesMain
  <2>4. CASE End(s)
    <3>1. Agrees(Free)'
      BY DEF Agrees, Free
    <3> QED
      BY <2>1, <2>2, <2>3, <2>4, <3>1, OnlyRequest, ProceedPath DEF End
  <2>5. ASSUME NEW f \in Files, request' = [request EXCEPT ![s].at = "write", ![s].file = f] PROVE PathInv'
    <3>0. PICK r : r = [request[s] EXCEPT !.at = "write", !.file = f]
      OBVIOUS
    <3>1. /\ r.kind = "export" /\ r.at = "write" /\ r.doc = request[s].doc
          /\ request' = [request EXCEPT ![s] = r]
      BY <2>1, <2>5, <3>0 DEF At, Request
    <3>2. Agrees(request[s]) => Agrees(r)'
      BY <2>1, <3>1 DEF At, Agrees
    <3> QED
      BY <2>1, <2>2, <2>3, <3>1, <3>2, OnlyRequest, ProceedPath
  <2> QED
    BY <1>2, <2>4, <2>5 DEF PickTarget
<1>3. CASE WriteExport(s)
  <2>0. PICK r : r = [request[s] EXCEPT !.at = "reply"]
    OBVIOUS
  <2>1. /\ At(s, "export", "write") /\ request' = [request EXCEPT ![s] = r]
        /\ files' = [files EXCEPT ![request[s].file] = request[s].doc]
        /\ activeScenarioFilePath' = request[s].file /\ UNCHANGED <<canvas, strayed>>
    BY <1>3, <2>0 DEF WriteExport, Proceed, filesRenderer
  <2>2. r.kind = "export" /\ r.at = "reply" /\ r.file = request[s].file /\ r.doc = request[s].doc
    BY <2>0, <2>1 DEF At, Request
  <2>3. Busy(s) /\ Unheard(r)
    BY <2>1, <2>2 DEF Busy, At, Free, Unheard
  <2>4. files'[r.file] = r.doc
    BY <2>1, <2>2 DEF At, Holds, FilesInv, SoundInv
  <2>5. Agrees(request[s]) => Agrees(r)'
    BY <2>1, <2>2, <2>4 DEF At, Agrees, KeptIn
  <2> QED
    BY <2>1, <2>3, <2>5, OnlyRequest, ProceedPath
<1>4. CASE WriteFails(s)
  <2>1. /\ At(s, "export", "write") /\ request' = [request EXCEPT ![s] = Free]
        /\ files' \in {files, [files EXCEPT ![request[s].file] = Torn]}
        /\ UNCHANGED <<canvas, currentFilePath, activeScenarioFilePath, strayed>>
    BY <1>4 DEF WriteFails, End
  <2>2. Busy(s) /\ ~Unheard(request[s])
    BY <2>1 DEF Busy, At, Free, Unheard
  <2>3. \A f \in Files : files'[f] \in {files[f], Torn}
    BY <2>1 DEF FilesInv, SoundInv
  <2>4. currentFilePath \in Files \cup {Nothing}
    BY DEF FilesInv, SoundInv, FilesTypeOK
  <2>5. Ours => Ours'
    BY <2>1, <2>3, <2>4 DEF Ours, KeptIn
  <2>6. Agrees(Free)'
    BY DEF Agrees, Free
  <2> QED
    BY <2>1, <2>2, <2>5, <2>6, OnlyRequest, ProceedPath
<1>5. CASE handleExportSuccess(s)
  <2>1. /\ At(s, "export", "reply") /\ request' = [request EXCEPT ![s] = Free]
        /\ currentFilePath' = request[s].file
        /\ UNCHANGED <<canvas, files, activeScenarioFilePath, strayed>>
    BY <1>5 DEF handleExportSuccess, End, filesMain
  <2>2. Busy(s)
    BY <2>1 DEF Busy, At, Free
  <2>3. Agrees(request[s]) => Ours'
    BY <2>1 DEF At, Agrees, Ours, KeptIn
  <2>4. Agrees(Free)'
    BY DEF Agrees, Free
  <2> QED
    BY <2>1, <2>2, <2>3, <2>4, OnlyRequest, ProceedPath
<1> QED
  BY <1>1, <1>2, <1>3, <1>4, <1>5

LEMMA DeletePath ==
  ASSUME FilesInv, NEW s \in Slots, handleDelete(s) \/ DeleteFile(s) \/ DeleteReply(s)
  PROVE  PathInv'
<1>. request[s] \in Request /\ Holds(request[s]) /\ request \in [Slots -> Request] /\ canvas \in Sound \cup {Nothing}
  BY DEF FilesInv, SoundInv
<1>1. CASE handleDelete(s)
  <2>1. UNCHANGED <<builder, form, modal, currentFilePath, sim, filesMain>>
    BY <1>1 DEF handleDelete
  <2>2. CASE canvas' = Cleared /\ UNCHANGED <<request, asks, strayed>>
    BY <2>1, <2>2, ClearedSound, QuietPath DEF filesMain
  <2>3. CASE Begin(s, "delete", "rm", canvas, currentFilePath) /\ UNCHANGED canvas
    BY <2>1, <2>3, BeginPath DEF filesMain
  <2> QED
    BY <1>1, <2>2, <2>3 DEF handleDelete
<1>2. CASE DeleteFile(s)
  <2>0. PICK r : r = [request[s] EXCEPT !.at = "reply"]
    OBVIOUS
  <2>1. At(s, "delete", "rm") /\ request' = [request EXCEPT ![s] = r] /\ UNCHANGED strayed
    BY <1>2, <2>0 DEF DeleteFile, Proceed
  <2>2. r.kind = "delete" /\ r.at = "reply"
    BY <2>0, <2>1 DEF At, Request
  <2>3. Busy(s) /\ Unheard(r) /\ Agrees(r)'
    BY <2>1, <2>2 DEF Busy, At, Free, Unheard, Agrees
  <2> QED
    BY <2>1, <2>3, ProceedPath
<1>3. CASE DeleteReply(s)
  <2>1. /\ At(s, "delete", "reply") /\ request' = [request EXCEPT ![s] = Free]
        /\ currentFilePath' = Nothing /\ UNCHANGED strayed
    BY <1>3 DEF DeleteReply, End
  <2>2. Busy(s) /\ Ours' /\ Agrees(Free)'
    BY <2>1 DEF Busy, At, Free, Ours, Agrees
  <2> QED
    BY <2>1, <2>2, ProceedPath
<1> QED
  BY <1>1, <1>2, <1>3

LEMMA ElsewherePath ==
  ASSUME FilesInv, NEW s \in Slots,
         \/ \E doc \in Community : handlePackOpen(s, doc)
         \/ ReadPackScenario(s) \/ PackReply(s)
         \/ \E doc \in Saved : handleSessionPick(s, doc)
         \/ handleLoadSession(s)
  PROVE  PathInv'
<1>. request[s] \in Request /\ Holds(request[s]) /\ request \in [Slots -> Request]
  BY DEF FilesInv, SoundInv
<1>1. ASSUME NEW doc \in Community, handlePackOpen(s, doc) PROVE PathInv'
  BY <1>1, BeginPath DEF handlePackOpen, filesRenderer, filesMain
<1>2. ASSUME NEW doc \in Saved, handleSessionPick(s, doc) PROVE PathInv'
  BY <1>2, BeginPath DEF handleSessionPick, filesRenderer, filesMain
<1>3. CASE ReadPackScenario(s)
  <2>1. /\ At(s, "pack", "read")
        /\ UNCHANGED <<filesRenderer, files, activeScenarioFilePath, strayed>>
    BY <1>3 DEF ReadPackScenario
  <2>2. PICK r : r \in {Free, [request[s] EXCEPT !.at = "reply"]} /\ request' = [request EXCEPT ![s] = r]
    BY <1>3 DEF ReadPackScenario, End, Proceed
  <2>3. r.kind \in {"free", "pack"}
    BY <2>1, <2>2 DEF At, Free, Request
  <2>4. Busy(s) /\ ~Unheard(request[s])
    BY <2>1 DEF Busy, At, Free, Unheard
  <2>5. Agrees(r)'
    BY <2>3 DEF Agrees
  <2>6. Ours <=> Ours'
    BY <2>1 DEF Ours, KeptIn, filesRenderer
  <2> QED
    BY <2>1, <2>2, <2>4, <2>5, <2>6, OnlyRequest, ProceedPath
<1>4. CASE PackReply(s)
  BY <1>4 DEF PackReply, PathInv
<1>5. CASE handleLoadSession(s)
  <2>1. /\ At(s, "session", "reply") /\ request' = [request EXCEPT ![s] = Free]
        /\ currentFilePath' = Nothing /\ UNCHANGED strayed
    BY <1>5 DEF handleLoadSession, End
  <2>2. Busy(s) /\ Ours' /\ Agrees(Free)'
    BY <2>1 DEF Busy, At, Free, Ours, Agrees
  <2> QED
    BY <2>1, <2>2, ProceedPath
<1> QED
  BY <1>1, <1>2, <1>3, <1>4, <1>5

LEMMA OtherPath ==
  ASSUME FilesInv,
         \/ handleExportOpen \/ handleExportClose
         \/ \E w \in Works : handleNew(w)
         \/ handleMetadataSave \/ handleMetadataClose \/ SwitchMode
         \/ \E n \in Counts : handleScenarioChange(n)
         \/ handleStart \/ StartReply \/ handleStop \/ Relaunch
  PROVE  PathInv'
<1>1. CASE \/ handleExportOpen \/ handleExportClose \/ handleMetadataSave \/ handleMetadataClose \/ SwitchMode
           \/ handleStart \/ StartReply \/ handleStop
  BY <1>1, QuietPath DEF handleExportOpen, handleExportClose, handleMetadataSave, handleMetadataClose, SwitchMode,
     handleStart, StartReply, handleStop, filesMain
<1>2. ASSUME NEW n \in Counts, handleScenarioChange(n) PROVE PathInv'
  <2>1. n \in Nat /\ canvas \in Sound
    BY <1>2, ScenarioAssumption DEF handleScenarioChange, FilesInv, SoundInv
  <2>2. canvas'.work = canvas.work
    BY <1>2, <2>1, SoundCopies DEF handleScenarioChange
  <2> QED
    BY <1>2, <2>2, QuietPath DEF handleScenarioChange, filesMain
<1>3. ASSUME \/ Relaunch \/ \E w \in Works : handleNew(w) PROVE PathInv'
  <2>1. currentFilePath' = Nothing /\ (~strayed' => \A s \in Slots : request'[s] = Free)
    BY <1>3 DEF Relaunch, handleNew, AllFree, Busy
  <2>2. Ours' /\ Agrees(Free)'
    BY <2>1 DEF Ours, Agrees, Free
  <2> QED
    BY <2>1, <2>2 DEF PathInv, Busy
<1> QED
  BY <1>1, <1>2, <1>3

LEMMA FilesStep == FilesInv /\ [FilesNext]_filesVars => FilesInv'
<1> SUFFICES ASSUME FilesInv, [FilesNext]_filesVars PROVE FilesInv'
  OBVIOUS
<1>1. SoundInv'
  BY SoundStep DEF FilesInv
<1>2. CASE FilesNext
  <2>1. PathInv'
    BY <1>2, ImportPath, ExportPath, DeletePath, ElsewherePath, OtherPath DEF FilesNext
  <2> QED
    BY <1>1, <2>1 DEF FilesInv
<1>3. CASE UNCHANGED filesVars
  <2>1. PathInv'
    BY <1>3, QuietPath DEF filesVars, filesRenderer, filesMain
  <2> QED
    BY <1>1, <2>1 DEF FilesInv
<1> QED
  BY <1>2, <1>3

LEMMA FilesInitHolds == FilesInit => FilesInv
<1> SUFFICES ASSUME FilesInit PROVE FilesInv
  OBVIOUS
<1>1. \A s \in Slots : request[s] = Free
  BY DEF FilesInit
<1>2. Ours
  BY DEF FilesInit, Ours
<1>3. PathInv
  BY <1>1, <1>2, FreeAgrees DEF PathInv, Busy
<1> QED
  BY <1>3, SoundInit DEF FilesInv

LEMMA FilesInvHolds == FilesSpec => []FilesInv
BY FilesInitHolds, FilesStep, PTL DEF FilesSpec

LEMMA FilesSoundFollows == FilesInv => FilesSound
<1> SUFFICES ASSUME FilesInv PROVE FilesSound
  OBVIOUS
<1>1. CopiesOpen
  BY DEF FilesInv, SoundInv, CopiesOpen, validateScenario, Sound
<1>2. PathIsOurs
  <2> SUFFICES ASSUME currentFilePath # Nothing, AllFree, ~strayed PROVE Ours
    BY DEF PathIsOurs, Ours, KeptIn
  <2>1. \A s \in Slots : request[s] = Free
    BY DEF AllFree, Busy
  <2> QED
    BY <2>1, FreeAgrees DEF FilesInv, PathInv
<1> QED
  BY <1>1, <1>2 DEF FilesSound

\* What was exported with one to twenty devices opens again; and with requests one
\* at a time and no pack's scenario opened, Delete would take the file the canvas
\* was opened from or last saved to, which main has recorded too (App.tsx,
\* scenario:import, scenario:export, scenario:deleteFile), for any files and scenarios.
THEOREM FilesSoundAlways == FilesSpec => []FilesSound
BY FilesInvHolds, FilesSoundFollows, PTL

-----------------------------------------------------------------------------
(* The monitor's log.                                                      *)

Once(list) == \A i, j \in DOMAIN list : list[i] = list[j] => i = j

\* Loki has entries of the past only; nobody polls, and nothing is on its way to
\* the screen, for a panel that is closed.
LogInv ==
  /\ MonitorTypeOK
  /\ loki \subseteq 1 .. MaxTime
  /\ ~showMonitor => polls = {} /\ logs = <<>> /\ updates = <<>>
  /\ LogShown

-----------------------------------------------------------------------------
(* Lists of entries.                                                       *)

LEMMA BoundsAreNumbers ==
  /\ MAX_LOG_LINES \in Nat \ {0} /\ LIMIT \in Nat \ {0} /\ MaxPolls \in Nat \ {0}
  /\ MaxTime \in Nat
BY MonitorAssumption

\* Appending twice is appending the two at once.
LEMMA ConcatRegroup ==
  \A s, t, u \in Seq(Nat) : (s \o t) \o u = s \o (t \o u)
BY ConcatAssociative

\* A list that grows by entries it has not got has each of them once.
LEMMA ConcatOnce ==
  ASSUME NEW s \in Seq(Nat), NEW t \in Seq(Nat),
         Once(s), Once(t), Keys(s) \cap Keys(t) = {}
  PROVE  Once(s \o t) /\ Keys(s \o t) = Keys(s) \cup Keys(t)
<1> DEFINE u == s \o t
<1>1. /\ u \in Seq(Nat)
      /\ Len(u) = Len(s) + Len(t)
      /\ \A i \in 1 .. Len(s) + Len(t) : u[i] = IF i <= Len(s) THEN s[i] ELSE t[i - Len(s)]
  BY ConcatProperties
<1>2. /\ Len(s) \in Nat /\ Len(t) \in Nat
      /\ DOMAIN s = 1 .. Len(s) /\ DOMAIN t = 1 .. Len(t) /\ DOMAIN u = 1 .. Len(s) + Len(t)
  BY <1>1, LenProperties
<1> HIDE DEF u
<1>3. Once(u)
  <2> SUFFICES ASSUME NEW i \in DOMAIN u, NEW j \in DOMAIN u, u[i] = u[j], i <= j
               PROVE  i = j
    BY <1>2 DEF Once
  <2>1. CASE j <= Len(s)
    <3>1. i \in DOMAIN s /\ j \in DOMAIN s /\ u[i] = s[i] /\ u[j] = s[j]
      BY <1>1, <1>2, <2>1
    <3> QED
      BY <3>1 DEF Once
  <2>2. CASE i > Len(s)
    <3>1. ASSUME NEW k \in DOMAIN u, k > Len(s) PROVE k - Len(s) \in DOMAIN t /\ u[k] = t[k - Len(s)]
      <4>1. k \in 1 .. Len(s) + Len(t)
        BY <1>2
      <4> QED
        BY <1>1, <1>2, <3>1, <4>1
    <3>2. j > Len(s)
      BY <1>2, <2>2
    <3>3. i - Len(s) = j - Len(s)
      BY <2>2, <3>1, <3>2 DEF Once
    <3> QED
      BY <1>2, <3>3
  <2>3. CASE i <= Len(s) /\ j > Len(s)
    <3>1. i \in DOMAIN s /\ j - Len(s) \in DOMAIN t /\ u[i] = s[i] /\ u[j] = t[j - Len(s)]
      BY <1>1, <1>2, <2>3, SMTT(30)
    <3>2. u[i] \in Keys(s) /\ u[j] \in Keys(t)
      BY <3>1 DEF Keys
    <3> QED
      BY <3>2
  <2> QED
    BY <1>2, <2>1, <2>2, <2>3
<1>4. Keys(u) \subseteq Keys(s) \cup Keys(t)
  <2> SUFFICES ASSUME NEW i \in DOMAIN u PROVE u[i] \in Keys(s) \cup Keys(t)
    BY DEF Keys
  <2>1. CASE i <= Len(s)
    <3>1. i \in DOMAIN s /\ u[i] = s[i]
      BY <1>1, <1>2, <2>1
    <3> QED
      BY <3>1 DEF Keys
  <2>2. CASE i > Len(s)
    <3>1. i - Len(s) \in DOMAIN t /\ u[i] = t[i - Len(s)]
      BY <1>1, <1>2, <2>2
    <3> QED
      BY <3>1 DEF Keys
  <2> QED
    BY <1>2, <2>1, <2>2
<1>5. Keys(s) \subseteq Keys(u)
  <2> SUFFICES ASSUME NEW i \in DOMAIN s PROVE s[i] \in Keys(u)
    BY DEF Keys
  <2>1. i \in DOMAIN u /\ u[i] = s[i]
    BY <1>1, <1>2
  <2> QED
    BY <2>1 DEF Keys
<1>6. Keys(t) \subseteq Keys(u)
  <2> SUFFICES ASSUME NEW i \in DOMAIN t PROVE t[i] \in Keys(u)
    BY DEF Keys
  <2> DEFINE k == Len(s) + i
  <2>1. k \in 1 .. Len(s) + Len(t) /\ ~(k <= Len(s)) /\ k - Len(s) = i
    BY <1>2
  <2> HIDE DEF k
  <2>2. k \in DOMAIN u /\ u[k] = t[i]
    BY <1>1, <1>2, <2>1
  <2> QED
    BY <2>2 DEF Keys
<1> QED
  BY <1>3, <1>4, <1>5, <1>6 DEF u

\* To cut a list at its old end brings nothing into it and keeps it short.
LEMMA CappedKeeps ==
  ASSUME NEW s \in Seq(Nat), Once(s)
  PROVE  /\ Capped(s) \in Seq(Nat) /\ Len(Capped(s)) <= MAX_LOG_LINES
         /\ Once(Capped(s)) /\ Keys(Capped(s)) \subseteq Keys(s)
<1>1. Len(s) \in Nat /\ DOMAIN s = 1 .. Len(s) /\ MAX_LOG_LINES \in Nat \ {0}
  BY LenProperties, BoundsAreNumbers
<1>2. CASE Len(s) <= MAX_LOG_LINES
  BY <1>1, <1>2 DEF Capped
<1>3. CASE Len(s) > MAX_LOG_LINES
  <2> DEFINE m == Len(s) - MAX_LOG_LINES + 1
             c == SubSeq(s, m, Len(s))
  <2>1. Capped(s) = c
    BY <1>3 DEF Capped
  <2>2. m \in Int /\ Len(s) \in Int /\ Len(s) - m + 1 = MAX_LOG_LINES /\ m >= 1 /\ m <= Len(s)
    BY <1>1, <1>3
  <2> HIDE DEF m
  <2>3. \A i \in m .. Len(s) : s[i] \in Nat
    BY <1>1, <2>2, ElementOfSeq
  <2>4. /\ c \in Seq(Nat)
        /\ Len(c) = IF m <= Len(s) THEN Len(s) - m + 1 ELSE 0
        /\ \A i \in 1 .. Len(s) - m + 1 : c[i] = s[m + i - 1]
    BY <2>2, <2>3, SubSeqProperties
  <2>5. Len(c) = MAX_LOG_LINES /\ DOMAIN c = 1 .. MAX_LOG_LINES
    BY <2>2, <2>4, LenProperties
  <2> HIDE DEF c
  <2>6. ASSUME NEW i \in DOMAIN c PROVE m + i - 1 \in DOMAIN s /\ c[i] = s[m + i - 1]
    <3>1. i \in 1 .. Len(s) - m + 1
      BY <2>2, <2>5
    <3>2. c[i] = s[m + i - 1]
      BY <2>4, <3>1
    <3>3. m + i - 1 \in 1 .. Len(s)
      BY <2>2, <3>1
    <3> QED
      BY <1>1, <3>2, <3>3
  <2>7. Once(c)
    <3> SUFFICES ASSUME NEW i \in DOMAIN c, NEW j \in DOMAIN c, c[i] = c[j] PROVE i = j
      BY DEF Once
    <3>1. m + i - 1 = m + j - 1
      BY <2>6 DEF Once
    <3> QED
      BY <1>1, <2>2, <2>5, <3>1
  <2>8. Keys(c) \subseteq Keys(s)
    BY <2>6 DEF Keys
  <2> QED
    BY <1>1, <2>1, <2>4, <2>5, <2>7, <2>8
<1> QED
  BY <1>1, <1>2, <1>3

\* The list of the entries that are still to come, and what an empty update adds.
LEMMA ComingTyped ==
  ASSUME MonitorTypeOK
  PROVE  Coming \in Seq(Nat)
BY ConcatProperties DEF MonitorTypeOK, Coming

-----------------------------------------------------------------------------

LEMMA EmptyShown ==
  ASSUME logs = <<>>, updates = <<>>, seenNs = {}
  PROVE  LogShown
<1>1. Coming = <<>> /\ DOMAIN Coming = {}
  BY DEF Coming
<1>2. Len(logs) = 0 /\ 0 <= MAX_LOG_LINES
  BY BoundsAreNumbers
<1> QED
  BY <1>1, <1>2 DEF LogShown, Keys

LEMMA LogInitHolds == MonitorInit => LogInv
<1> SUFFICES ASSUME MonitorInit PROVE LogInv
  OBVIOUS
<1>1. LogShown
  BY EmptyShown DEF MonitorInit
<1>2. MonitorTypeOK
  BY EmptySeq DEF MonitorInit, MonitorTypeOK
<1> QED
  BY <1>1, <1>2 DEF MonitorInit, LogInv

\* Steps that leave the panel's list alone.
LEMMA OtherStep ==
  ASSUME LogInv,
         \/ Tick \/ \E e \in 1 .. MaxTime : Arrive(e)
         \/ LabStarts \/ Poll \/ \E sent \in polls : PollFails(sent)
         \/ GrafanaAnswers
  PROVE  LogInv'
<1> USE DEF LogInv
<1>1. UNCHANGED <<logs, updates, seenNs, showMonitor>>
  BY DEF Tick, Arrive, LabStarts, Poll, PollFails, GrafanaAnswers, panel
<1>2. LogShown'
  BY <1>1 DEF LogShown, Coming, Keys
<1>3. MonitorTypeOK'
  <2>1. (logs \in Seq(Nat) /\ updates \in Seq(Nat) /\ seenNs \subseteq Nat /\ showMonitor \in BOOLEAN)'
    BY <1>1 DEF MonitorTypeOK
  <2>2. CASE \E e \in 1 .. MaxTime : Arrive(e)
    BY <2>1, <2>2, BoundsAreNumbers DEF MonitorTypeOK, Arrive, panel
  <2>3. CASE Tick
    BY <2>1, <2>3 DEF MonitorTypeOK, Tick, panel
  <2>4. CASE LabStarts \/ Poll \/ GrafanaAnswers \/ \E sent \in polls : PollFails(sent)
    BY <2>1, <2>4 DEF MonitorTypeOK, LabStarts, Poll, PollFails, GrafanaAnswers, panel
  <2> QED
    BY <2>2, <2>3, <2>4
<1>4. (loki \subseteq 1 .. MaxTime)'
  BY DEF Tick, Arrive, LabStarts, Poll, PollFails, GrafanaAnswers, panel
<1>5. (~showMonitor => polls = {} /\ logs = <<>> /\ updates = <<>>)'
  BY <1>1 DEF Tick, Arrive, LabStarts, Poll, PollFails, GrafanaAnswers, panel
<1> QED
  BY <1>2, <1>3, <1>4, <1>5

\* The panel comes or goes.
LEMMA FreshStep ==
  ASSUME LogInv, LabStops \/ handleMonitorToggle
  PROVE  LogInv'
<1> USE DEF LogInv
<1>1. logs' = <<>> /\ updates' = <<>> /\ seenNs' = {}
  BY DEF LabStops, handleMonitorToggle, Fresh
<1>2. LogShown'
  <2>1. Coming' = <<>> /\ DOMAIN Coming' = {} /\ Len(logs') = 0
    BY <1>1 DEF Coming
  <2> QED
    BY <1>1, <2>1, BoundsAreNumbers DEF LogShown, Keys
<1>3. MonitorTypeOK'
  <2>1. <<>> \in Seq(Nat)
    BY EmptySeq
  <2>2. (logs \in Seq(Nat) /\ updates \in Seq(Nat) /\ seenNs \subseteq Nat)'
    BY <1>1, <2>1
  <2> QED
    BY <2>2 DEF MonitorTypeOK, LabStops, handleMonitorToggle, Fresh
<1>4. (loki \subseteq 1 .. MaxTime)' /\ (~showMonitor => polls = {})'
  BY DEF LabStops, handleMonitorToggle, Fresh, MonitorTypeOK
<1> QED
  BY <1>1, <1>2, <1>3, <1>4

\* An answer brings what has not been seen, and notes it at once.
LEMMA AnswerStep ==
  ASSUME LogInv, NEW sent \in polls, PollAnswered(sent)
  PROVE  LogInv'
<1> USE DEF LogInv
<1> DEFINE new == getLogs(sent) \ seenNs
<1>1. /\ seenNs' = seenNs \cup new /\ polls' = polls \ {sent} /\ lokiReady' = TRUE
      /\ UNCHANGED <<now, loki, running, showMonitor, logs, grafanaReady>>
  BY DEF PollAnswered
<1>2. PICK batch \in [1 .. Cardinality(new) -> new] : Sorted(new, batch) /\ updates' = updates \o batch
  BY DEF PollAnswered
<1>3. new \subseteq 1 .. MaxTime
  BY DEF getLogs, Newest
<1>4. Cardinality(new) \in Nat
  <2>1. IsFiniteSet(1 .. MaxTime)
    BY BoundsAreNumbers, FS_Interval
  <2>2. IsFiniteSet(new)
    BY <1>3, <2>1, FS_Subset
  <2> QED
    BY <2>2, FS_CardinalityType
<1>5. new \subseteq Nat
  BY <1>3, BoundsAreNumbers
<1> HIDE DEF new
<1>6. batch \in Seq(Nat) /\ DOMAIN batch = 1 .. Cardinality(new)
  <2>1. batch \in [1 .. Cardinality(new) -> Nat]
    BY <1>2, <1>5
  <2>2. batch \in Seq(Nat)
    BY <1>4, <2>1, SeqDef
  <2> QED
    BY <2>1, <2>2
<1>7. Keys(batch) = new
  BY <1>2 DEF Sorted
<1>8. Once(batch)
  <2> SUFFICES ASSUME NEW i \in DOMAIN batch, NEW j \in DOMAIN batch, batch[i] = batch[j] PROVE i = j
    BY DEF Once
  <2>1. batch[i] \in Nat /\ batch[j] \in Nat
    BY <1>2, <1>5, <1>6
  <2>2. ~(i < j) /\ ~(j < i)
    BY <1>2, <2>1 DEF Sorted
  <2> QED
    BY <1>4, <1>6, <2>2
<1>9. Coming \in Seq(Nat) /\ Once(Coming) /\ Keys(Coming) = seenNs
  BY ComingTyped DEF LogShown, Once
<1>10. Keys(Coming) \cap Keys(batch) = {}
  BY <1>7, <1>9 DEF new
<1>11. updates' \in Seq(Nat) /\ Coming' = Coming \o batch
  <2>1. logs \in Seq(Nat) /\ updates \in Seq(Nat)
    BY DEF MonitorTypeOK
  <2>2. updates \o batch \in Seq(Nat)
    BY <1>6, <2>1, ConcatProperties
  <2>3. (logs \o updates) \o batch = logs \o (updates \o batch)
    BY <1>6, <2>1, ConcatRegroup, Zenon
  <2> QED
    BY <1>1, <1>2, <2>2, <2>3 DEF Coming
<1>12. Once(Coming \o batch) /\ Keys(Coming \o batch) = Keys(Coming) \cup Keys(batch)
  BY <1>6, <1>8, <1>9, <1>10, ConcatOnce
<1>13. showMonitor
  OBVIOUS
<1>14. LogShown'
  <2>1. Once(Coming') /\ Keys(Coming') = seenNs'
    BY <1>1, <1>7, <1>9, <1>11, <1>12
  <2>2. Len(logs') <= MAX_LOG_LINES
    BY <1>1 DEF LogShown
  <2> QED
    BY <1>1, <1>13, <2>1, <2>2 DEF LogShown, Once
<1>15. MonitorTypeOK'
  BY <1>1, <1>5, <1>11 DEF MonitorTypeOK
<1> QED
  BY <1>1, <1>13, <1>14, <1>15

\* The updates are rendered; what they push out is forgotten.
LEMMA RenderStep ==
  ASSUME LogInv, Render
  PROVE  LogInv'
<1> USE DEF LogInv
<1>1. /\ updates' = <<>> /\ logs' = Capped(Coming)
      /\ seenNs' = seenNs \ (Keys(Coming) \ Keys(Capped(Coming)))
      /\ UNCHANGED <<now, loki, running, showMonitor, polls, lokiReady, grafanaReady>>
  BY DEF Render
<1>2. Coming \in Seq(Nat) /\ Once(Coming) /\ Keys(Coming) = seenNs
  BY ComingTyped DEF LogShown, Once
<1> DEFINE cut == Capped(Coming)
<1>3. cut \in Seq(Nat) /\ Len(cut) <= MAX_LOG_LINES /\ Once(cut) /\ Keys(cut) \subseteq seenNs
  BY <1>2, CappedKeeps
<1> HIDE DEF cut
<1>4. Coming' = cut
  <2>1. cut \o <<>> = cut
    BY <1>3, ConcatEmptySeq
  <2> QED
    BY <1>1, <2>1 DEF Coming, cut
<1>5. seenNs' = Keys(cut)
  BY <1>1, <1>2, <1>3 DEF cut
<1>6. showMonitor
  BY DEF Render
<1>7. LogShown'
  BY <1>1, <1>3, <1>4, <1>5, <1>6 DEF LogShown, Once, cut
<1>8. MonitorTypeOK'
  <2>1. <<>> \in Seq(Nat)
    BY EmptySeq
  <2> QED
    BY <1>1, <1>3, <2>1 DEF MonitorTypeOK, cut
<1> QED
  BY <1>1, <1>6, <1>7, <1>8

LEMMA LogStep == LogInv /\ [MonitorNext]_monitorVars => LogInv'
<1> SUFFICES ASSUME LogInv, [MonitorNext]_monitorVars PROVE LogInv'
  OBVIOUS
<1>1. CASE MonitorNext
  BY <1>1, OtherStep, FreshStep, AnswerStep, RenderStep DEF MonitorNext
<1>2. CASE UNCHANGED monitorVars
  BY <1>2 DEF monitorVars, panel, LogInv, MonitorTypeOK, LogShown, Coming, Keys
<1> QED
  BY <1>1, <1>2

\* Whatever the order of polls, answers and renders, the panel shows no entry
\* twice, remembers as seen just what it shows or will, and keeps its list short
\* (MonitorPanel.tsx), for any bounds.
THEOREM LogShownAlways == MonitorSpec => []LogShown
<1>1. LogInv => LogShown
  BY DEF LogInv
<1> QED
  BY <1>1, LogInitHolds, LogStep, PTL DEF MonitorSpec

-----------------------------------------------------------------------------
(* Network settings.                                                       *)

\* Undisturbed, there is one save, and it is for what was asked for: from the
\* end of its write on that is what the file holds.
OneSaveInv ==
  ~muddled =>
    /\ \A v, w \in Saves : saves[v].at # "free" /\ saves[w].at # "free" => v = w
    /\ \A w \in Saves :
         /\ saves[w].at # "free" => saves[w].at # "failed" /\ saves[w].settings = asked
         /\ saves[w].at = "saved" => stored = asked

SettingsInv == SettingsTypeOK /\ OneSaveInv /\ SettingsSaved

-----------------------------------------------------------------------------

\* The empty slot is a slot's state.
LEMMA NoSaveTyped == NoSave \in SaveState
BY DEF NoSave, SaveState

LEMMA SettingsInitHolds == SettingsInit => SettingsInv
<1> SUFFICES ASSUME SettingsInit PROVE SettingsInv
  OBVIOUS
<1>1. DEFAULT_ZONES \in Grids
  BY SettingsAssumption DEF DEFAULT_ZONES
<1>2. SettingsTypeOK
  BY <1>1, NoSaveTyped DEF SettingsInit, SettingsTypeOK
<1>3. OneSaveInv
  BY DEF SettingsInit, OneSaveInv, NoSave
<1>4. SettingsSaved
  BY DEF SettingsInit, SettingsSaved, readSettings
<1> QED
  BY <1>2, <1>3, <1>4 DEF SettingsInv

\* A modal that goes takes no save with it, only its interest in them.
LEMMA OrphanedKeeps ==
  ASSUME SettingsTypeOK
  PROVE  /\ Orphaned(saves) \in [Saves -> SaveState]
         /\ \A w \in Saves : /\ Orphaned(saves)[w].at = saves[w].at
                             /\ Orphaned(saves)[w].settings = saves[w].settings
<1>1. ASSUME NEW w \in Saves
      PROVE  /\ saves[w] \in SaveState
             /\ Orphaned(saves)[w] = [saves[w] EXCEPT !.mine = FALSE]
  BY DEF Orphaned, SettingsTypeOK
<1>2. ASSUME NEW s \in SaveState
      PROVE  /\ [s EXCEPT !.mine = FALSE] \in SaveState
             /\ [s EXCEPT !.mine = FALSE].at = s.at
             /\ [s EXCEPT !.mine = FALSE].settings = s.settings
  BY DEF SaveState
<1>3. Orphaned(saves) \in [Saves -> SaveState]
  BY <1>1, <1>2 DEF Orphaned
<1> QED
  BY <1>1, <1>2, <1>3

\* Steps of the modal that leave file and saves alone.
LEMMA ModalStep ==
  ASSUME SettingsInv,
         \/ handleSettingsOpen \/ ReadForModal \/ Loaded \/ handleToggle \/ handleDetect
         \/ DetectAnswered \/ \E g \in Grids : handleZoneChange(g)
  PROVE  SettingsInv'
<1> USE DEF SettingsInv
<1>0. UNCHANGED <<stored, saves, asked, muddled>> /\ saving' = saving
  BY DEF handleSettingsOpen, ReadForModal, Loaded, handleToggle, handleDetect, DetectAnswered, handleZoneChange
<1>1. OneSaveInv'
  BY <1>0 DEF OneSaveInv
<1>2. (Unsaved /\ ~muddled => readSettings = asked)' /\ (saving => \E w \in Saves : saves[w].mine)'
  BY <1>0 DEF SettingsSaved, Unsaved, readSettings
<1>3. readSettings \in Grids \cup {AutoDetect, Broken}
  BY DEF readSettings, SettingsTypeOK
<1>4. SettingsTypeOK'
  <2>1. CASE Loaded
    BY <1>0, <2>1, SettingsAssumption DEF Loaded, SettingsTypeOK
  <2>2. CASE handleSettingsOpen \/ ReadForModal \/ handleToggle \/ handleDetect
    BY <1>0, <1>3, <2>2 DEF handleSettingsOpen, ReadForModal, handleToggle, handleDetect, SettingsTypeOK
  <2>3. CASE DetectAnswered \/ \E g \in Grids : handleZoneChange(g)
    BY <1>0, <2>3, SettingsAssumption DEF DetectAnswered, handleZoneChange, SettingsTypeOK
  <2> QED
    BY <2>1, <2>2, <2>3
<1>5. (detecting /\ ~loading => autoDetect)'
  BY DEF SettingsSaved, handleSettingsOpen, ReadForModal, Loaded, handleToggle, handleDetect,
     DetectAnswered, handleZoneChange, SettingsTypeOK
<1> QED
  BY <1>1, <1>2, <1>4, <1>5 DEF SettingsSaved

\* The modal goes, by itself or because a save was answered.
LEMMA GoneStep ==
  ASSUME SettingsInv,
         handleSettingsClose \/ \E w \in Saves : SaveAnswered(w)
  PROVE  SettingsInv'
<1> USE DEF SettingsInv
<1>1. DEFAULT_ZONES \in Grids
  BY SettingsAssumption DEF DEFAULT_ZONES
<1>2. Gone /\ UNCHANGED <<stored, asked, muddled>>
  BY DEF handleSettingsClose, SaveAnswered
<1>3. (detecting /\ ~loading => autoDetect)' /\ (saving => \E w \in Saves : saves[w].mine)'
  BY <1>2 DEF Gone
<1>4. CASE handleSettingsClose
  <2>1. saves' = Orphaned(saves)
    BY <1>4 DEF handleSettingsClose
  <2>2. SettingsTypeOK'
    BY <1>1, <1>2, <2>1, OrphanedKeeps DEF Gone, SettingsTypeOK
  <2>3. OneSaveInv'
    BY <1>2, <2>1, OrphanedKeeps DEF OneSaveInv
  <2>4. (Unsaved /\ ~muddled => readSettings = asked)'
    BY <1>2, <2>1, OrphanedKeeps DEF SettingsSaved, Unsaved, readSettings
  <2> QED
    BY <1>3, <2>2, <2>3, <2>4 DEF SettingsSaved
<1>5. ASSUME NEW w \in Saves, SaveAnswered(w) PROVE SettingsInv'
  <2>1. saves' = [Orphaned(saves) EXCEPT ![w] = NoSave] /\ saves[w].at = "saved"
    BY <1>5 DEF SaveAnswered
  <2>2. saves' \in [Saves -> SaveState]
    BY <2>1, OrphanedKeeps, NoSaveTyped
  <2>3. SettingsTypeOK'
    BY <1>1, <1>2, <2>2 DEF Gone, SettingsTypeOK
  <2>4. /\ saves'[w] = NoSave
        /\ \A v \in Saves \ {w} : saves'[v] = Orphaned(saves)[v]
    BY <2>1, OrphanedKeeps
  <2>5. NoSave.at = "free"
    BY DEF NoSave
  <2>6. \A v \in Saves \ {w} : /\ saves'[v].at = saves[v].at
                              /\ saves'[v].settings = saves[v].settings
    BY <2>4, OrphanedKeeps
  <2>8. OneSaveInv'
    BY <1>2, <2>4, <2>5, <2>6 DEF OneSaveInv
  <2>9. ~muddled => stored = asked
    BY <2>1 DEF OneSaveInv
  <2>10. (~muddled => readSettings = asked)'
    <3> SUFFICES ASSUME ~muddled PROVE readSettings' = asked'
      BY <1>2
    <3>1. stored' = asked' /\ asked' \in Grids \cup {AutoDetect}
      BY <1>2, <2>9 DEF SettingsTypeOK
    <3> QED
      BY <3>1, SettingsAssumption DEF readSettings
  <2> QED
    BY <1>3, <2>3, <2>8, <2>10 DEF SettingsSaved
<1> QED
  BY <1>4, <1>5

\* Save is clicked; its write begins, ends or fails; it is refused.
LEMMA SaveStep ==
  ASSUME SettingsInv, NEW w \in Saves,
         handleSave(w) \/ WriteBegins(w) \/ WriteEnds(w) \/ WriteFailed(w) \/ SaveRefused(w)
  PROVE  SettingsInv'
<1> USE DEF SettingsInv
<1>1. CASE handleSave(w)
  <2> DEFINE settings == IF autoDetect THEN AutoDetect ELSE zones
  <2>1. /\ saves' = [saves EXCEPT ![w] = [at |-> "sent", settings |-> settings, mine |-> TRUE]]
        /\ asked' = settings /\ muddled' = ~Unsaved /\ ~detecting
        /\ UNCHANGED <<stored, open, autoDetect, zones, detecting, loading, got>>
    BY <1>1 DEF handleSave
  <2>2. settings \in Grids \cup {AutoDetect}
    BY DEF SettingsTypeOK
  <2> HIDE DEF settings
  <2> DEFINE new == [at |-> "sent", settings |-> settings, mine |-> TRUE]
  <2>. new \in SaveState
    BY <2>2 DEF SaveState
  <2>. saves' \in [Saves -> SaveState]
    BY <2>1 DEF SettingsTypeOK
  <2>3. SettingsTypeOK'
    BY <1>1, <2>1, <2>2 DEF handleSave, SettingsTypeOK
  <2>4. /\ saves'[w].at = "sent" /\ saves'[w].settings = asked' /\ saves'[w].mine
        /\ \A v \in Saves \ {w} : saves'[v] = saves[v]
    BY <2>1 DEF SettingsTypeOK
  <2>. NoSave.at = "free"
    BY DEF NoSave
  <2>6. OneSaveInv'
    <3> SUFFICES ASSUME Unsaved PROVE OneSaveInv'
      BY <2>1 DEF OneSaveInv
    <3>1. \A v \in Saves \ {w} : saves'[v].at = "free"
      BY <2>4 DEF Unsaved
    <3> QED
      BY <2>4, <3>1 DEF OneSaveInv
  <2>7. ~Unsaved'
    BY <2>4 DEF Unsaved
  <2> QED
    BY <2>1, <2>3, <2>4, <2>6, <2>7 DEF SettingsSaved
<1>2. CASE WriteBegins(w) \/ WriteEnds(w) \/ WriteFailed(w)
  <2> DEFINE at == IF WriteBegins(w) THEN "writing" ELSE IF WriteEnds(w) THEN "saved" ELSE "failed"
  <2>1. /\ saves' = [saves EXCEPT ![w].at = at]
        /\ UNCHANGED <<dialog, asked>>
        /\ saves[w].at \in {"sent", "writing"}
    BY <1>2 DEF WriteBegins, WriteEnds, WriteFailed
  <2>. saves[w] \in SaveState /\ saves[w].settings \in Grids \cup {AutoDetect}
    BY DEF SettingsTypeOK, SaveState
  <2>2. stored' \in Grids \cup {AutoDetect, Broken} /\ muddled' \in BOOLEAN
    BY <1>2 DEF WriteBegins, WriteEnds, WriteFailed, SettingsTypeOK
  <2>3. at \in {"writing", "saved", "failed"}
    OBVIOUS
  <2>4. /\ at = "saved" => stored' = saves[w].settings
        /\ at = "failed" => muddled'
        /\ ~muddled' => ~muddled
    BY <1>2 DEF WriteBegins, WriteEnds, WriteFailed, SettingsTypeOK
  <2> HIDE DEF at
  <2>. [saves[w] EXCEPT !.at = at] \in SaveState
    BY <2>3 DEF SaveState
  <2>. saves' \in [Saves -> SaveState]
    BY <2>1 DEF SettingsTypeOK
  <2>5. SettingsTypeOK'
    BY <2>1, <2>2 DEF SettingsTypeOK, dialog
  <2>6. /\ saves'[w].at = at /\ saves'[w].settings = saves[w].settings /\ saves'[w].mine = saves[w].mine
        /\ \A v \in Saves \ {w} : saves'[v] = saves[v]
    BY <2>1 DEF SettingsTypeOK
  <2>8. OneSaveInv'
    BY <2>1, <2>3, <2>4, <2>6 DEF OneSaveInv
  <2>9. ~Unsaved'
    BY <2>3, <2>6 DEF Unsaved
  <2>10. (saving => \E v \in Saves : saves[v].mine)'
    BY <2>1, <2>6 DEF SettingsSaved, dialog
  <2>11. (detecting /\ ~loading => autoDetect)'
    BY <2>1 DEF SettingsSaved, dialog
  <2> QED
    BY <2>5, <2>8, <2>9, <2>10, <2>11 DEF SettingsSaved
<1>3. CASE SaveRefused(w)
  <2>1. /\ saves' = [saves EXCEPT ![w] = NoSave] /\ saves[w].at = "failed"
        /\ saving' = (saving /\ ~saves[w].mine)
        /\ UNCHANGED <<stored, open, autoDetect, zones, detecting, loading, got, asked, muddled>>
    BY <1>3 DEF SaveRefused
  <2>2. saves' \in [Saves -> SaveState]
    BY <2>1, NoSaveTyped DEF SettingsTypeOK
  <2>3. SettingsTypeOK'
    BY <2>1, <2>2 DEF SettingsTypeOK
  <2>4. saves'[w] = NoSave /\ \A v \in Saves \ {w} : saves'[v] = saves[v]
    BY <2>1 DEF SettingsTypeOK
  <2>6. muddled /\ muddled'
    BY <2>1 DEF OneSaveInv
  <2>7. (saving => \E v \in Saves : saves[v].mine)'
    <3> SUFFICES ASSUME saving, ~saves[w].mine PROVE \E v \in Saves : saves'[v].mine
      BY <2>1
    <3>1. PICK v \in Saves : saves[v].mine
      BY DEF SettingsSaved
    <3>2. v # w
      BY <3>1
    <3> QED
      BY <2>4, <3>1, <3>2
  <2>8. (detecting /\ ~loading => autoDetect)'
    BY <2>1 DEF SettingsSaved
  <2> QED
    BY <2>3, <2>6, <2>7, <2>8 DEF SettingsSaved, OneSaveInv
<1> QED
  BY <1>1, <1>2, <1>3

LEMMA SettingsStep == SettingsInv /\ [SettingsNext]_settingsVars => SettingsInv'
<1> SUFFICES ASSUME SettingsInv, [SettingsNext]_settingsVars PROVE SettingsInv'
  OBVIOUS
<1>1. CASE SettingsNext
  BY <1>1, ModalStep, GoneStep, SaveStep DEF SettingsNext
<1>2. CASE UNCHANGED settingsVars
  BY <1>2 DEF settingsVars, dialog, SettingsInv, SettingsTypeOK, OneSaveInv, SettingsSaved,
     Unsaved, readSettings
<1> QED
  BY <1>1, <1>2

LEMMA SettingsInvHolds == SettingsSpec => []SettingsInv
BY SettingsInitHolds, SettingsStep, PTL DEF SettingsSpec

\* With no save in flight, overlapped or failed, the next start goes by what the
\* author last saved; a detection never replaces subnets that are being typed;
\* and a modal waits only for a save that will answer it (SettingsModal.tsx,
\* settings:set), for any subnets and any number of overlapping saves.
THEOREM SettingsSavedAlways == SettingsSpec => []SettingsSaved
<1>1. SettingsInv => SettingsSaved
  BY DEF SettingsInv
<1> QED
  BY <1>1, SettingsInvHolds, PTL

-----------------------------------------------------------------------------
(* Desktop windows.                                                        *)

\* The ports that take connections are those of the lab that is up, which is main's.
HostInv ==
  /\ simulation # "idle" => /\ activeProject \in Labs
                            /\ activeAttackPorts = AttackPorts(activeProject)
                            /\ activeWorkstationPorts = WorkstationPorts(activeProject)
  /\ simulation = "running" => upLab # NoLab
  /\ upLab # NoLab => simulation # "idle" /\ upLab = activeProject /\ listening \subseteq Ports(upLab)
  /\ upLab = NoLab => listening = {}

\* A probe that no start has made stale waits for the port of its machine, in
\* the lab it was sent in: no other can be up.
ProbeInv ==
  \A p \in probes : ~p.stale =>
    /\ p.node \in Nodes(AttackMachines[p.lab])
    /\ p.port = AttackPorts(p.lab)[p.node]
    /\ simulation # "starting" /\ upLab \in {NoLab, p.lab}

\* Windows and probes are told apart by their numbers.
NumberInv ==
  /\ \A p, q \in probes : p.no = q.no => p = q
  /\ \A w, x \in shownWindows : w.no = x.no => w = x
  /\ \A p \in probes, w \in shownWindows : p.no # w.no

\* The windows opened last are those main's maps know.
MapsInv ==
  \A n \in Devices :
    /\ Tracked(attackWindows, n) = Numbers(Latest("attack", n))
    /\ Tracked(workstationWindows, n) = Numbers(Latest("workstation", n))

OwnInv == \A w \in shownWindows : w.stale \/ w.shows = {w.asked}

WindowInv == DesktopTypeOK /\ HostInv /\ ProbeInv /\ NumberInv /\ MapsInv /\ OwnInv

-----------------------------------------------------------------------------

\* Machines of a kind get ports of their own, from the base up.
LEMMA PublishedInjective ==
  ASSUME NEW machines, machines \in Seq(Nodes(machines)), NEW base \in Int,
         NEW size \in Nat, Len(machines) <= size
  PROVE  /\ DOMAIN Published(machines, base) = Nodes(machines)
         /\ \A n \in Nodes(machines) : /\ Published(machines, base)[n] \in Int
                                       /\ Published(machines, base)[n] >= base
                                       /\ Published(machines, base)[n] < base + size
         /\ \A m, n \in Nodes(machines) :
              Published(machines, base)[m] = Published(machines, base)[n] => m = n
<1> DEFINE place(n) == CHOOSE i \in DOMAIN machines : machines[i] = n
<1>1. ASSUME NEW n \in Nodes(machines)
      PROVE  place(n) \in 1 .. Len(machines) /\ machines[place(n)] = n
  <2>1. \E i \in DOMAIN machines : machines[i] = n
    BY DEF Nodes
  <2>2. place(n) \in DOMAIN machines /\ machines[place(n)] = n
    BY <2>1
  <2> QED
    BY <2>2
<1>2. ASSUME NEW n \in Nodes(machines)
      PROVE  Published(machines, base)[n] = base + place(n) - 1
  BY DEF Published
<1>0. Len(machines) \in Nat
  OBVIOUS
<1>. DOMAIN Published(machines, base) = Nodes(machines)
  BY DEF Published
<1> HIDE DEF place
<1>3. ASSUME NEW n \in Nodes(machines)
      PROVE  /\ Published(machines, base)[n] \in Int
             /\ Published(machines, base)[n] >= base
             /\ Published(machines, base)[n] < base + size
  <2>1. place(n) \in 1 .. Len(machines)
    BY <1>1
  <2>2. Published(machines, base)[n] = base + place(n) - 1
    BY <1>2
  <2> QED
    BY <1>0, <2>1, <2>2
<1>4. ASSUME NEW m \in Nodes(machines), NEW n \in Nodes(machines),
             Published(machines, base)[m] = Published(machines, base)[n]
      PROVE  m = n
  <2>1. place(m) = place(n)
    <3>1. place(m) \in Int /\ place(n) \in Int
      BY <1>1
    <3> QED
      BY <1>2, <1>4, <3>1
  <2> QED
    BY <1>1, <2>1
<1> QED
  BY <1>3, <1>4

\* So a port of a lab belongs to one of its machines.
LEMMA PortsTellMachines ==
  ASSUME NEW l \in Labs
  PROVE  /\ DOMAIN AttackPorts(l) = Nodes(AttackMachines[l])
         /\ DOMAIN WorkstationPorts(l) = Nodes(Workstations[l])
         /\ \A n \in Nodes(AttackMachines[l]) : AttackPorts(l)[n] \in Int
         /\ \A n \in Nodes(Workstations[l]) : WorkstationPorts(l)[n] \in Int
         /\ \A m, n \in Nodes(AttackMachines[l]) : AttackPorts(l)[m] = AttackPorts(l)[n] => m = n
         /\ \A m, n \in Nodes(Workstations[l]) :
              WorkstationPorts(l)[m] = WorkstationPorts(l)[n] => m = n
         /\ \A m \in Nodes(AttackMachines[l]), n \in Nodes(Workstations[l]) :
              AttackPorts(l)[m] # WorkstationPorts(l)[n]
<1> DEFINE attack == AttackMachines[l]
           work   == Workstations[l]
<1>1. attack \in Seq(Nodes(attack)) /\ work \in Seq(Nodes(work)) /\ Len(work) <= 100
  BY DesktopAssumption
<1> HIDE DEF attack, work
<1>2. Len(attack) \in Nat /\ Len(attack) <= Len(attack)
  BY <1>1
<1>3. 6900 \in Int /\ 6800 \in Int /\ 100 \in Nat
  OBVIOUS
<1>4. /\ DOMAIN Published(attack, 6900) = Nodes(attack)
      /\ \A n \in Nodes(attack) : Published(attack, 6900)[n] \in Int /\ Published(attack, 6900)[n] >= 6900
      /\ \A m, n \in Nodes(attack) : Published(attack, 6900)[m] = Published(attack, 6900)[n] => m = n
  BY <1>1, <1>2, <1>3, PublishedInjective
<1>5. /\ DOMAIN Published(work, 6800) = Nodes(work)
      /\ \A n \in Nodes(work) : /\ Published(work, 6800)[n] \in Int
                                /\ Published(work, 6800)[n] < 6800 + 100
      /\ \A m, n \in Nodes(work) : Published(work, 6800)[m] = Published(work, 6800)[n] => m = n
  <2>1. ASSUME NEW n \in Nodes(work)
        PROVE  Published(work, 6800)[n] \in Int /\ Published(work, 6800)[n] < 6800 + 100
    BY <1>1, <1>3, PublishedInjective
  <2>2. /\ DOMAIN Published(work, 6800) = Nodes(work)
        /\ \A m, n \in Nodes(work) : Published(work, 6800)[m] = Published(work, 6800)[n] => m = n
    BY <1>1, <1>3, PublishedInjective
  <2> QED
    BY <2>1, <2>2
<1>6. \A n \in Nodes(work) : Published(work, 6800)[n] < 6900
  BY <1>5
<1>7. \A m \in Nodes(attack), n \in Nodes(work) : Published(attack, 6900)[m] # Published(work, 6800)[n]
  BY <1>4, <1>5, <1>6
<1> QED
  BY <1>4, <1>5, <1>7 DEF attack, work, AttackPorts, WorkstationPorts

\* The machine that answers on a port of the lab that is up.
LEMMA OneMachine ==
  ASSUME NEW l \in Labs, upLab = l
  PROVE  /\ \A n \in Nodes(AttackMachines[l]) : Machine(AttackPorts(l)[n]) = {<<l, n>>}
         /\ \A n \in Nodes(Workstations[l]) : Machine(WorkstationPorts(l)[n]) = {<<l, n>>}
<1>1. l # NoLab
  BY DesktopAssumption
<1>2. ASSUME NEW n \in Nodes(AttackMachines[l]) PROVE Machine(AttackPorts(l)[n]) = {<<l, n>>}
  <2>1. {m \in DOMAIN AttackPorts(l) : AttackPorts(l)[m] = AttackPorts(l)[n]} = {n}
    BY PortsTellMachines
  <2>2. {m \in DOMAIN WorkstationPorts(l) : WorkstationPorts(l)[m] = AttackPorts(l)[n]} = {}
    BY PortsTellMachines
  <2> QED
    BY <1>1, <2>1, <2>2 DEF Machine
<1>3. ASSUME NEW n \in Nodes(Workstations[l]) PROVE Machine(WorkstationPorts(l)[n]) = {<<l, n>>}
  <2>1. {m \in DOMAIN WorkstationPorts(l) : WorkstationPorts(l)[m] = WorkstationPorts(l)[n]} = {n}
    BY PortsTellMachines
  <2>2. {m \in DOMAIN AttackPorts(l) : AttackPorts(l)[m] = WorkstationPorts(l)[n]} = {}
    BY PortsTellMachines
  <2> QED
    BY <1>1, <2>1, <2>2 DEF Machine
<1> QED
  BY <1>2, <1>3

\* Machines, and so the domains of main's maps, are devices.
LEMMA MachinesAreDevices ==
  ASSUME NEW l \in Labs
  PROVE  /\ Nodes(AttackMachines[l]) \subseteq Devices /\ Nodes(Workstations[l]) \subseteq Devices
         /\ DOMAIN AttackPorts(l) \subseteq Devices /\ DOMAIN WorkstationPorts(l) \subseteq Devices
<1>1. Nodes(AttackMachines[l]) \subseteq Devices /\ Nodes(Workstations[l]) \subseteq Devices
  BY DEF Devices
<1> QED
  BY <1>1, PortsTellMachines

LEMMA DesktopInitHolds == DesktopInit => WindowInv
<1> SUFFICES ASSUME DesktopInit PROVE WindowInv
  OBVIOUS
<1>1. DOMAIN NoMap = {}
  BY DEF NoMap
<1>2. DesktopTypeOK
  BY <1>1 DEF DesktopInit, DesktopTypeOK
<1>3. HostInv /\ ProbeInv /\ NumberInv /\ OwnInv
  BY DEF DesktopInit, HostInv, ProbeInv, NumberInv, OwnInv
<1>4. MapsInv
  BY <1>1 DEF DesktopInit, MapsInv, Tracked, Latest, Numbers
<1> QED
  BY <1>2, <1>3, <1>4 DEF WindowInv

\* A step of the lab.
LEMMA LabStep ==
  ASSUME WindowInv,
         \/ \E l \in Labs : StartLab(l)
         \/ LabUp \/ \E thrown \in BOOLEAN : LabFails(thrown)
         \/ LabSettles \/ StopLab \/ LabDown \/ LabStopped
         \/ \E port \in UNION {Ports(l) : l \in Labs} : Boots(port)
  PROVE  WindowInv'
<1> USE DEF WindowInv
<1>1. UNCHANGED <<shownWindows, attackWindows, workstationWindows>>
  BY DEF StartLab, LabUp, LabFails, LabSettles, StopLab, LabDown, LabStopped, Boots, windowVars
<1>2. MapsInv' /\ OwnInv'
  BY <1>1 DEF MapsInv, OwnInv, Tracked, Latest
<1>3. ASSUME NEW l \in Labs, StartLab(l) PROVE WindowInv'
  <2>1. /\ simulation = "idle" /\ simulation' = "starting" /\ activeProject' = l
        /\ activeAttackPorts' = AttackPorts(l) /\ activeWorkstationPorts' = WorkstationPorts(l)
        /\ probes' = {[p EXCEPT !.stale = TRUE] : p \in probes}
        /\ UNCHANGED <<upLab, listening>>
    BY <1>3 DEF StartLab
  <2>2. upLab = NoLab
    BY <2>1 DEF HostInv
  <2>3. HostInv'
    BY <2>1, <2>2, DesktopAssumption DEF HostInv
  <2>4. ASSUME NEW p \in Probe
        PROVE  /\ [p EXCEPT !.stale = TRUE] \in Probe /\ [p EXCEPT !.stale = TRUE].stale
               /\ [p EXCEPT !.stale = TRUE].no = p.no
    BY DEF Probe
  <2>5. DesktopTypeOK'
    BY <1>1, <2>1, <2>4, MachinesAreDevices DEF DesktopTypeOK
  <2>6. ProbeInv'
    BY <2>1, <2>4 DEF ProbeInv, DesktopTypeOK
  <2>7. NumberInv'
    <3>1. \A p \in probes' : \E q \in probes : p = [q EXCEPT !.stale = TRUE] /\ p.no = q.no
      BY <2>1, <2>4 DEF DesktopTypeOK
    <3>2. ASSUME NEW p \in probes', NEW q \in probes', p.no = q.no PROVE p = q
      <4>1. PICK r \in probes : p = [r EXCEPT !.stale = TRUE] /\ p.no = r.no
        BY <3>1
      <4>2. PICK t \in probes : q = [t EXCEPT !.stale = TRUE] /\ q.no = t.no
        BY <3>1
      <4>3. r = t
        BY <3>2, <4>1, <4>2 DEF NumberInv
      <4> QED
        BY <4>1, <4>2, <4>3
    <3>3. \A p \in probes', w \in shownWindows' : p.no # w.no
      BY <1>1, <3>1 DEF NumberInv
    <3> QED
      BY <1>1, <3>2, <3>3 DEF NumberInv
  <2> QED
    BY <1>2, <2>3, <2>5, <2>6, <2>7
<1>4. ASSUME \/ LabUp \/ LabSettles \/ StopLab \/ LabDown
             \/ \E port \in UNION {Ports(l) : l \in Labs} : Boots(port)
      PROVE  WindowInv'
  <2>1. UNCHANGED <<activeProject, activeAttackPorts, activeWorkstationPorts, probes>>
    BY <1>4 DEF LabUp, LabSettles, StopLab, LabDown, Boots, windowVars
  <2>2. DesktopTypeOK'
    BY <1>1, <1>4, <2>1 DEF LabUp, LabSettles, StopLab, LabDown, Boots, DesktopTypeOK
  <2>3. HostInv'
    BY <1>4, <2>1, DesktopAssumption DEF LabUp, LabSettles, StopLab, LabDown, Boots, HostInv, DesktopTypeOK
  <2>4. ProbeInv'
    BY <1>4, <2>1 DEF LabUp, LabSettles, StopLab, LabDown, Boots, ProbeInv
  <2>5. NumberInv'
    BY <1>1, <2>1 DEF NumberInv
  <2> QED
    BY <1>2, <2>2, <2>3, <2>4, <2>5
<1>5. ASSUME LabStopped \/ \E thrown \in BOOLEAN : LabFails(thrown) PROVE WindowInv'
  <2>1. /\ simulation' = "idle" /\ activeProject' = NoLab /\ upLab = NoLab
        /\ UNCHANGED <<upLab, listening, probes>>
        /\ activeAttackPorts' \in {NoMap, activeAttackPorts}
        /\ activeWorkstationPorts' \in {NoMap, activeWorkstationPorts}
    BY <1>5 DEF LabStopped, LabFails, windowVars
  <2>2. DOMAIN NoMap = {}
    BY DEF NoMap
  <2>3. DesktopTypeOK'
    BY <1>1, <2>1, <2>2 DEF DesktopTypeOK
  <2>4. HostInv' /\ ProbeInv' /\ NumberInv'
    BY <1>1, <2>1 DEF HostInv, ProbeInv, NumberInv
  <2> QED
    BY <1>2, <2>3, <2>4
<1> QED
  BY <1>3, <1>4, <1>5

\* A window that opens is the newest of its machine.
LEMMA ShownNewest ==
  ASSUME WindowInv, NEW window \in Window, window.newest, Shown(window),
         \A w \in shownWindows : w.no # window.no
  PROVE  /\ shownWindows' \subseteq Window
         /\ \A w, x \in shownWindows' : w.no = x.no => w = x
         /\ \A k \in Int : (\A w \in shownWindows : k # w.no) /\ k # window.no
                            => \A w \in shownWindows' : k # w.no
         /\ \A kind, n :
              Numbers(Latest(kind, n)') =
                IF kind = window.kind /\ n = window.node THEN {window.no} ELSE Numbers(Latest(kind, n))
         /\ OwnInv /\ (window.stale \/ window.shows = {window.asked}) => OwnInv'
<1> DEFINE old(w) == [w EXCEPT !.newest = @ /\ (w.kind # window.kind \/ w.node # window.node)]
<1>1. shownWindows' = {old(w) : w \in shownWindows} \cup {window}
  BY DEF Shown
<1>2. ASSUME NEW w \in Window
      PROVE  /\ old(w) \in Window /\ old(w).no = w.no /\ old(w).kind = w.kind /\ old(w).node = w.node
             /\ old(w).stale = w.stale /\ old(w).shows = w.shows /\ old(w).asked = w.asked
             /\ old(w).newest = (w.newest /\ (w.kind # window.kind \/ w.node # window.node))
  BY DEF Window
<1>3. shownWindows \subseteq Window
  BY DEF WindowInv, DesktopTypeOK
<1> HIDE DEF old
<1>4. shownWindows' \subseteq Window
  BY <1>1, <1>2, <1>3
<1>5. \A w, x \in shownWindows' : w.no = x.no => w = x
  BY <1>1, <1>2, <1>3 DEF WindowInv, NumberInv
<1>6. \A k \in Int : (\A w \in shownWindows : k # w.no) /\ k # window.no
                     => \A w \in shownWindows' : k # w.no
  BY <1>1, <1>2, <1>3
<1>7. ASSUME NEW kind, NEW n
      PROVE  Numbers(Latest(kind, n)') =
               IF kind = window.kind /\ n = window.node THEN {window.no} ELSE Numbers(Latest(kind, n))
  <2>1. Latest(kind, n)' = {w \in shownWindows' : w.kind = kind /\ w.node = n /\ w.newest}
    BY DEF Latest
  <2>2. CASE kind = window.kind /\ n = window.node
    <3>1. window \in Latest(kind, n)'
      BY <1>1, <2>1, <2>2
    <3>2. ASSUME NEW w \in Latest(kind, n)', w # window PROVE FALSE
      <4>1. PICK x \in shownWindows : w = old(x)
        BY <1>1, <2>1, <3>2
      <4>2. x \in Window /\ w.kind = kind /\ w.node = n /\ w.newest
        BY <1>3, <2>1
      <4> QED
        BY <1>2, <2>2, <4>1, <4>2
    <3>3. Numbers(Latest(kind, n)') = {window.no}
      BY <3>1, <3>2 DEF Numbers
    <3> QED
      BY <2>2, <3>3
  <2>3. CASE ~(kind = window.kind /\ n = window.node)
    <3>1. \A w \in Latest(kind, n) : old(w) \in Latest(kind, n)' /\ old(w).no = w.no
      BY <1>1, <1>2, <1>3, <2>1, <2>3 DEF Latest
    <3>2. ASSUME NEW w \in Latest(kind, n)' PROVE \E x \in Latest(kind, n) : w.no = x.no
      <4>1. PICK x \in shownWindows : w = old(x)
        BY <1>1, <2>1, <2>3
      <4>2. x \in Window /\ w.kind = kind /\ w.node = n /\ w.newest
        BY <1>3, <2>1
      <4> QED
        BY <1>2, <4>1, <4>2 DEF Latest
    <3>3. Numbers(Latest(kind, n)') = Numbers(Latest(kind, n))
      BY <3>1, <3>2 DEF Numbers
    <3> QED
      BY <2>3, <3>3
  <2> QED
    BY <2>2, <2>3
<1>8. ASSUME OwnInv, window.stale \/ window.shows = {window.asked} PROVE OwnInv'
  BY <1>1, <1>2, <1>3, <1>8 DEF OwnInv
<1> QED
  BY <1>4, <1>5, <1>6, <1>7, <1>8

\* A window opens: what was asked for is what answers.
LEMMA OpenStep ==
  ASSUME WindowInv,
         \/ \E p \in probes : PortOpen(p)
         \/ \E no \in 1 .. MaxWindows : launchWorkstationWindow(no)
  PROVE  WindowInv'
<1> USE DEF WindowInv
<1>0. UNCHANGED hostVars
  BY DEF PortOpen, launchWorkstationWindow
<1>1. HostInv'
  BY <1>0 DEF HostInv, hostVars
<1>2. ASSUME NEW p \in probes, PortOpen(p) PROVE WindowInv'
  <2> DEFINE window == [no |-> p.no, kind |-> "attack", node |-> p.node, newest |-> TRUE,
                        asked |-> <<p.lab, p.node>>, shows |-> Machine(p.port), stale |-> p.stale]
  <2>1. /\ p.port \in listening /\ probes' = probes \ {p} /\ Shown(window)
        /\ attackWindows' = Put(attackWindows, p.node, p.no)
        /\ UNCHANGED workstationWindows
    BY <1>2 DEF PortOpen
  <2>2. p \in Probe /\ upLab # NoLab /\ upLab \in Labs
    BY <2>1 DEF HostInv, DesktopTypeOK
  <2>3. Machine(p.port) \subseteq Labs \X Devices
    BY <2>2, MachinesAreDevices DEF Machine
  <2>4. window \in Window /\ window.newest /\ window.no = p.no /\ window.kind = "attack" /\ window.node = p.node
    BY <2>2, <2>3 DEF Window, Probe
  <2>5. window.stale \/ window.shows = {window.asked}
    BY <2>2, OneMachine DEF ProbeInv, Probe
  <2>6. \A w \in shownWindows : w.no # window.no
    BY DEF NumberInv
  <2> HIDE DEF window
  <2>7. DesktopTypeOK'
    <3>1. DOMAIN attackWindows' \subseteq Devices
      BY <2>1, <2>2 DEF Put, Probe, DesktopTypeOK
    <3> QED
      BY <1>0, <2>1, <2>4, <2>6, <3>1, ShownNewest DEF DesktopTypeOK, hostVars
  <2>8. ProbeInv'
    BY <1>0, <2>1 DEF ProbeInv, hostVars
  <2>9. NumberInv'
    <3>1. \A q \in probes' : q \in probes /\ q.no \in Int /\ q.no # window.no
      BY <2>1, <2>4 DEF NumberInv, DesktopTypeOK, Probe
    <3> QED
      BY <2>4, <2>6, <3>1, <2>1, ShownNewest DEF NumberInv
  <2>10. MapsInv'
    <3> SUFFICES ASSUME NEW n \in Devices
                 PROVE  /\ Tracked(attackWindows', n) = Numbers(Latest("attack", n)')
                        /\ Tracked(workstationWindows', n) = Numbers(Latest("workstation", n)')
      BY DEF MapsInv, Tracked
    <3>1. Tracked(attackWindows', n) = IF n = p.node THEN {p.no} ELSE Tracked(attackWindows, n)
      BY <2>1 DEF Put, Tracked
    <3>2. \A kind :
            Numbers(Latest(kind, n)') =
              IF kind = window.kind /\ n = window.node THEN {window.no} ELSE Numbers(Latest(kind, n))
      BY <2>1, <2>4, <2>6, ShownNewest
    <3>3. Numbers(Latest("attack", n)') =
            IF n = p.node THEN {p.no} ELSE Numbers(Latest("attack", n))
      BY <2>4, <3>2
    <3>4. Numbers(Latest("workstation", n)') = Numbers(Latest("workstation", n))
      BY <2>4, <3>2
    <3> QED
      BY <2>1, <3>1, <3>3, <3>4 DEF MapsInv
  <2>11. OwnInv'
    BY <2>1, <2>4, <2>5, <2>6, ShownNewest
  <2> QED
    BY <1>1, <2>7, <2>8, <2>9, <2>10, <2>11
<1>3. ASSUME NEW no \in 1 .. MaxWindows, launchWorkstationWindow(no) PROVE WindowInv'
  <2> DEFINE node   == Workstations[activeProject][1]
             window == [no |-> no, kind |-> "workstation", node |-> node, newest |-> TRUE,
                        asked |-> <<activeProject, node>>, shows |-> Machine(activeWorkstationPorts[node]),
                        stale |-> FALSE]
  <2>1. /\ simulation = "running" /\ Fits(no) /\ node \in DOMAIN activeWorkstationPorts /\ Shown(window)
        /\ workstationWindows' = Put(workstationWindows, node, no)
        /\ UNCHANGED <<probes, attackWindows>>
    BY <1>3 DEF launchWorkstationWindow
  <2>2. /\ activeProject \in Labs /\ upLab = activeProject
        /\ activeWorkstationPorts = WorkstationPorts(activeProject)
    BY <2>1 DEF HostInv
  <2>3. node \in Nodes(Workstations[activeProject]) /\ node \in Devices
    BY <2>1, <2>2, PortsTellMachines, MachinesAreDevices
  <2>4. Machine(activeWorkstationPorts[node]) = {<<activeProject, node>>}
    BY <2>2, <2>3, OneMachine
  <2> HIDE DEF node
  <2>5. window \in Window /\ window.newest /\ window.no = no /\ window.kind = "workstation" /\ window.node = node
    BY <2>2, <2>3, <2>4 DEF Window
  <2>6. window.shows = {window.asked}
    BY <2>4
  <2>7. (\A w \in shownWindows : w.no # window.no) /\ \A p \in probes : p.no # no
    BY <2>1 DEF Fits
  <2> HIDE DEF window
  <2>8. DesktopTypeOK'
    <3>1. DOMAIN workstationWindows' \subseteq Devices
      BY <2>1, <2>3 DEF Put, DesktopTypeOK
    <3> QED
      BY <1>0, <2>1, <2>5, <2>7, <3>1, ShownNewest DEF DesktopTypeOK, hostVars
  <2>9. ProbeInv'
    BY <1>0, <2>1 DEF ProbeInv, hostVars
  <2>10. NumberInv'
    <3>1. \A q \in probes : q.no \in Int /\ q.no # window.no
      BY <2>5, <2>7 DEF DesktopTypeOK, Probe
    <3> QED
      BY <2>1, <2>5, <2>7, <3>1, ShownNewest DEF NumberInv
  <2>11. MapsInv'
    <3> SUFFICES ASSUME NEW n \in Devices
                 PROVE  /\ Tracked(attackWindows', n) = Numbers(Latest("attack", n)')
                        /\ Tracked(workstationWindows', n) = Numbers(Latest("workstation", n)')
      BY DEF MapsInv, Tracked
    <3>1. Tracked(workstationWindows', n) = IF n = node THEN {no} ELSE Tracked(workstationWindows, n)
      BY <2>1 DEF Put, Tracked
    <3>2. \A kind :
            Numbers(Latest(kind, n)') =
              IF kind = window.kind /\ n = window.node THEN {window.no} ELSE Numbers(Latest(kind, n))
      BY <2>1, <2>5, <2>7, ShownNewest
    <3>3. Numbers(Latest("workstation", n)') =
            IF n = node THEN {no} ELSE Numbers(Latest("workstation", n))
      BY <2>5, <3>2
    <3>4. Numbers(Latest("attack", n)') = Numbers(Latest("attack", n))
      BY <2>5, <3>2
    <3> QED
      BY <2>1, <3>1, <3>3, <3>4 DEF MapsInv
  <2>12. OwnInv'
    BY <2>1, <2>5, <2>6, <2>7, ShownNewest
  <2> QED
    BY <1>1, <2>8, <2>9, <2>10, <2>11, <2>12
<1> QED
  BY <1>2, <1>3

\* A port is asked for, or found closed.
LEMMA ProbeStep ==
  ASSUME WindowInv,
         \/ \E no \in 1 .. MaxWindows : launchAttackWindow(no)
         \/ \E p \in probes : PortClosed(p)
  PROVE  WindowInv'
<1> USE DEF WindowInv
<1>0. UNCHANGED <<hostVars, shownWindows, attackWindows, workstationWindows>>
  BY DEF launchAttackWindow, PortClosed
<1>1. HostInv' /\ MapsInv' /\ OwnInv'
  BY <1>0 DEF HostInv, MapsInv, OwnInv, Tracked, Latest, hostVars
<1>2. CASE \E p \in probes : PortClosed(p)
  <2>1. probes' \subseteq probes
    BY <1>2 DEF PortClosed
  <2> QED
    BY <1>0, <1>1, <2>1 DEF DesktopTypeOK, ProbeInv, NumberInv, hostVars
<1>3. ASSUME NEW no \in 1 .. MaxWindows, launchAttackWindow(no) PROVE WindowInv'
  <2> DEFINE node  == AttackMachines[activeProject][1]
             probe == [no |-> no, node |-> node, port |-> activeAttackPorts[node],
                       lab |-> activeProject, stale |-> FALSE]
  <2>1. /\ simulation = "running" /\ Fits(no) /\ node \in DOMAIN activeAttackPorts
        /\ probes' = probes \cup {probe}
    BY <1>3 DEF launchAttackWindow
  <2>2. /\ activeProject \in Labs /\ upLab = activeProject
        /\ activeAttackPorts = AttackPorts(activeProject)
    BY <2>1 DEF HostInv
  <2>3. node \in Nodes(AttackMachines[activeProject]) /\ node \in Devices /\ activeAttackPorts[node] \in Int
    BY <2>1, <2>2, PortsTellMachines, MachinesAreDevices
  <2> HIDE DEF node
  <2>4. probe \in Probe
    BY <2>2, <2>3 DEF Probe
  <2>5. DesktopTypeOK'
    BY <1>0, <2>1, <2>4 DEF DesktopTypeOK, hostVars
  <2>6. ProbeInv'
    BY <1>0, <2>1, <2>2, <2>3 DEF ProbeInv, hostVars
  <2>7. (\A w \in shownWindows : w.no # probe.no) /\ \A p \in probes : p.no # probe.no
    BY <2>1 DEF Fits
  <2> HIDE DEF probe
  <2>8. NumberInv'
    BY <1>0, <2>1, <2>7 DEF NumberInv
  <2> QED
    BY <1>1, <2>5, <2>6, <2>8
<1> QED
  BY <1>2, <1>3

\* A window closes, and main forgets it if it is the newest.
LEMMA ClosedStep ==
  ASSUME WindowInv, NEW w \in shownWindows, closed(w)
  PROVE  WindowInv'
<1> USE DEF WindowInv
<1>0. UNCHANGED <<hostVars, probes>> /\ shownWindows' = shownWindows \ {w}
  BY DEF closed
<1>1. HostInv' /\ ProbeInv' /\ NumberInv' /\ OwnInv'
  BY <1>0 DEF HostInv, ProbeInv, NumberInv, OwnInv, hostVars
<1>2. w \in Window
  BY DEF DesktopTypeOK
<1>3. DesktopTypeOK'
  BY <1>0 DEF closed, Forget, Without, DesktopTypeOK, hostVars
<1>4. ASSUME NEW kind \in {"attack", "workstation"}, NEW map,
             \A n \in Devices : Tracked(map, n) = Numbers(Latest(kind, n)),
             NEW n \in Devices
      PROVE  Tracked(IF w.kind = kind THEN Forget(map, w) ELSE map, n) = Numbers(Latest(kind, n)')
  <2>1. Latest(kind, n)' = Latest(kind, n) \ {w}
    BY <1>0 DEF Latest
  <2>2. Tracked(map, n) = Numbers(Latest(kind, n))
    BY <1>4
  <2>3. CASE w \notin Latest(kind, n)
    <3>1. Numbers(Latest(kind, n)') = Tracked(map, n)
      BY <2>1, <2>2, <2>3
    <3>2. w.kind = kind /\ n = w.node => ~(w.node \in DOMAIN map /\ map[w.node] = w.no)
      <4> SUFFICES ASSUME w.kind = kind, n = w.node, n \in DOMAIN map, map[n] = w.no PROVE FALSE
        OBVIOUS
      <4>1. w.no \in Numbers(Latest(kind, n))
        BY <2>2 DEF Tracked
      <4>2. PICK x \in Latest(kind, n) : x.no = w.no
        BY <4>1 DEF Numbers
      <4> QED
        BY <2>3, <4>2 DEF NumberInv, Latest
    <3> QED
      BY <3>1, <3>2 DEF Tracked, Forget, Without
  <2>4. CASE w \in Latest(kind, n)
    <3>1. w.kind = kind /\ w.node = n
      BY <2>4 DEF Latest
    <3>2. n \in DOMAIN map /\ \A x \in Latest(kind, n) : x.no = map[n]
      BY <2>2, <2>4 DEF Tracked, Numbers
    <3>3. Latest(kind, n) = {w}
      BY <2>4, <3>2 DEF NumberInv, Latest
    <3>4. Numbers(Latest(kind, n)') = {}
      BY <2>1, <3>3 DEF Numbers
    <3> QED
      BY <2>4, <3>1, <3>2, <3>4 DEF Tracked, Forget, Without
  <2> QED
    BY <2>3, <2>4
<1>5. MapsInv'
  <2>1. /\ attackWindows' = IF w.kind = "attack" THEN Forget(attackWindows, w) ELSE attackWindows
        /\ workstationWindows' =
             IF w.kind = "workstation" THEN Forget(workstationWindows, w) ELSE workstationWindows
    BY DEF closed
  <2> QED
    BY <1>4, <2>1 DEF MapsInv, Tracked
<1> QED
  BY <1>1, <1>3, <1>5

LEMMA WindowStep == WindowInv /\ [DesktopNext]_desktopVars => WindowInv'
<1> SUFFICES ASSUME WindowInv, [DesktopNext]_desktopVars PROVE WindowInv'
  OBVIOUS
<1>1. CASE DesktopNext
  BY <1>1, LabStep, OpenStep, ProbeStep, ClosedStep DEF DesktopNext
<1>2. CASE UNCHANGED desktopVars
  BY <1>2 DEF desktopVars, hostVars, windowVars, WindowInv, DesktopTypeOK, HostInv, ProbeInv, NumberInv,
     MapsInv, OwnInv, Tracked, Latest
<1> QED
  BY <1>1, <1>2

LEMMA WindowInvHolds == DesktopSpec => []WindowInv
BY DesktopInitHolds, WindowStep, PTL DEF DesktopSpec

\* Main's maps know, of every machine and kind, the window opened last as long as
\* it is on the screen; and a window shows the machine that was clicked unless
\* another lab was started since (attack:launchWindow, workstation:launchWindow),
\* for any labs, any machines and any number of windows.
THEOREM WindowShowsOwnAlways == DesktopSpec => []WindowShowsOwn
<1>1. WindowInv => WindowShowsOwn
  BY DEF WindowInv, MapsInv, OwnInv, WindowShowsOwn
<1> QED
  BY <1>1, WindowInvHolds, PTL

-----------------------------------------------------------------------------
(* The desk.                                                               *)

\* The parts of the desk behave as they do alone.
THEOREM DeskImplementsParts ==
  DeskSpec => FilesSpec /\ MonitorSpec /\ SettingsSpec /\ DesktopSpec
<1>1. DeskInit => FilesInit /\ MonitorInit /\ SettingsInit /\ DesktopInit
  BY DEF DeskInit
<1>2. ASSUME [DeskNext]_deskVars
      PROVE  /\ [FilesNext]_filesVars /\ [MonitorNext]_monitorVars
             /\ [SettingsNext]_settingsVars /\ [DesktopNext]_desktopVars
  BY <1>2 DEF DeskNext, deskVars
<1> QED
  BY <1>1, <1>2, PTL DEF DeskSpec, FilesSpec, MonitorSpec, SettingsSpec, DesktopSpec

\* Files, log, settings and windows hold what the code keeps in them, whichever
\* way they are used.
THEOREM DeskTypedAlways == DeskSpec => []DeskTyped
<1>1. FilesInv /\ LogInv /\ SettingsInv /\ WindowInv => DeskTyped
  BY DEF FilesInv, SoundInv, LogInv, SettingsInv, WindowInv, DeskTyped
<1>2. MonitorSpec => []LogInv
  BY LogInitHolds, LogStep, PTL DEF MonitorSpec
<1> QED
  BY <1>1, <1>2, DeskImplementsParts, FilesInvHolds, SettingsInvHolds, WindowInvHolds, PTL
=============================================================================
