-------------------------- MODULE TerminalViewsProofs --------------------------
(***************************************************************************)
(* Theorems about TerminalViews, for any number of attack machines,        *)
(* terminal windows, processes and messages on their way.                  *)
(***************************************************************************)
EXTENDS TerminalViews, SequenceTheorems, TLAPS

-----------------------------------------------------------------------------
(* Messages.                                                               *)

\* Taking a message leaves a queue, and the others as they were.
LEMMA TakeType ==
  ASSUME TypeOK, NEW r \in Renderers, NEW kind, Take(r, kind)
  PROVE  /\ queue[r] \in Seq(Message) /\ queue[r] # <<>>
         /\ Head(queue[r]) \in Message /\ Head(queue[r]).kind = kind
         /\ queue' \in [Renderers -> Seq(Message)]
         /\ queue'[r] = Tail(queue[r])
         /\ \A q \in Renderers \ {r} : queue'[q] = queue[q]
<1>1. queue[r] \in Seq(Message)
  BY DEF TypeOK
<1>2. Head(queue[r]) \in Message /\ Tail(queue[r]) \in Seq(Message)
  BY <1>1, HeadTailProperties DEF Take
<1> QED
  BY <1>1, <1>2 DEF Take, TypeOK

\* Sending leaves a queue, and the others as they were.
LEMMA SendType ==
  ASSUME TypeOK, NEW r \in Renderers, NEW ms \in Seq(Message), Send(r, ms)
  PROVE  /\ queue[r] \in Seq(Message)
         /\ queue' \in [Renderers -> Seq(Message)]
         /\ queue'[r] = queue[r] \o ms
         /\ \A q \in Renderers \ {r} : queue'[q] = queue[q]
<1>1. queue[r] \in Seq(Message)
  BY DEF TypeOK
<1>2. queue[r] \o ms \in Seq(Message)
  BY <1>1, ConcatProperties
<1> QED
  BY <1>1, <1>2 DEF Send, TypeOK

\* What is sent is messages.
LEMMA Messages ==
  /\ \A n \in Attackers, k \in {"open", "write", "close", "window"} : <<Msg(k, n)>> \in Seq(Message)
  /\ \A n \in Attackers : <<Msg("open", n), Msg("close", n), Msg("open", n)>> \in Seq(Message)
  /\ \A n \in Attackers : <<Msg("stop", None), Msg("close", n)>> \in Seq(Message)
  /\ <<Msg("stop", None)>> \in Seq(Message)
<1>1. \A n \in Attackers, k \in {"open", "write", "close", "window"} : Msg(k, n) \in Message
  BY DEF Msg, Message
<1>2. Msg("stop", None) \in Message
  BY DEF Msg, Message
<1> QED
  BY <1>1, <1>2

-----------------------------------------------------------------------------
(* Processes.                                                              *)

\* Killing keeps every process until its close event, and for whom it runs.
LEMMA KillType ==
  ASSUME TypeOK, NEW ps
  PROVE  /\ Kill(ps) \in [Shells -> Processes \cup {None}]
         /\ \A p \in Shells :
              /\ Kill(ps)[p] = None <=> shell[p] = None
              /\ shell[p] # None =>
                   /\ Kill(ps)[p].node = shell[p].node /\ Kill(ps)[p].caller = shell[p].caller
                   /\ Kill(ps)[p].state = IF p \in ps THEN "dying" ELSE shell[p].state
BY ProcessAssumption DEF Kill, Killed, TypeOK, Processes

\* The new process of terminal:open.
LEMMA NewType ==
  ASSUME TypeOK, NEW r \in Renderers, Take(r, "open")
  PROVE  /\ New(r) \in Processes /\ New(r) # None
         /\ New(r).node = Head(queue[r]).node /\ New(r).caller = r
         /\ New(r).state = IF project THEN "live" ELSE "dying"
BY TakeType, ProcessAssumption DEF New, Process, Processes, Message

LEMMA CallersType == TypeOK => \A ps \in SUBSET Shells : Callers(ps) \subseteq Renderers
BY ProcessAssumption DEF TypeOK, Callers, Live, Processes

-----------------------------------------------------------------------------
\* Every variable keeps to its type.
LEMMA TypeStep == TypeOK /\ [Next]_vars => TypeOK'
<1> SUFFICES ASSUME TypeOK, [Next]_vars PROVE TypeOK'
  OBVIOUS
<1> USE AttackerAssumption, RendererAssumption, ProcessAssumption
    DEF lab, views, terminals, ghost, NoteShared, Mishaps, NoteOpened
<1>t. App \in Renderers /\ Windows \subseteq Renderers
  BY DEF Renderers
<1>s. \A r \in Renderers : Shown(r) \in Attackers \cup {None}
  BY DEF TypeOK, Shown, Renderers
<1>1. ASSUME NEW n \in Attackers, OpenModal(n) PROVE TypeOK'
  BY <1>1, <1>t, SendType, Messages DEF OpenModal, TypeOK
<1>2. ASSUME CloseModal PROVE TypeOK'
  BY <1>2, <1>t, SendType, Messages DEF CloseModal, TypeOK
<1>3. ASSUME ClickTerminal PROVE TypeOK'
  BY <1>3, <1>t, SendType, Messages DEF ClickTerminal, TypeOK
<1>4. ASSUME OpenTerminalWindow PROVE TypeOK'
  BY <1>4, <1>t, TakeType DEF OpenTerminalWindow, TypeOK
<1>5. ASSUME NEW w \in Windows, WindowLoads(w) PROVE TypeOK'
  BY <1>5, <1>t, SendType, Messages DEF WindowLoads, TypeOK
<1>6. ASSUME NEW w \in Windows, CloseWindow(w) PROVE TypeOK'
  <2>1. queue' \in [Renderers -> Seq(Message)]
    <3>1. CASE Send(w, <<Msg("close", FirstAttacker)>>)
      BY <3>1, <1>t, SendType, Messages
    <3>2. CASE queue' = [queue EXCEPT ![w] = <<>>]
      BY <3>2, <1>t DEF TypeOK
    <3> QED
      BY <1>6, <3>1, <3>2 DEF CloseWindow
  <2> QED
    BY <1>6, <1>t, <2>1 DEF CloseWindow, TypeOK
<1>7. ASSUME NEW r \in Renderers, Type(r) PROVE TypeOK'
  BY <1>7, <1>s, SendType, Messages DEF Type, TypeOK
<1>8. ASSUME NEW r \in Renderers, Paste(r) PROVE TypeOK'
  BY <1>8, <1>s DEF Paste, TypeOK
<1>9. ASSUME NEW r \in Renderers, PasteRead(r) PROVE TypeOK'
  <2>1. pasting[r] \in Attackers
    BY <1>9 DEF PasteRead, TypeOK
  <2>2. queue' \in [Renderers -> Seq(Message)]
    BY <1>9, <2>1, SendType, Messages DEF PasteRead
  <2> QED
    BY <1>9, <2>2 DEF PasteRead, TypeOK
<1>10. ASSUME NEW r \in Renderers, TerminalOpen(r) PROVE TypeOK'
  <2>1. PICK p \in Shells : /\ shell[p] = None
                            /\ shell' = [Kill({activeTerminalProcess}) EXCEPT ![p] = New(r)]
                            /\ activeTerminalProcess' = p
    BY <1>10 DEF TerminalOpen
  <2>2. Take(r, "open")
    BY <1>10 DEF TerminalOpen
  <2> QED
    BY <1>10, <2>1, <2>2, TakeType, NewType, KillType DEF TerminalOpen, TypeOK
<1>11. ASSUME NEW r \in Renderers, TerminalWrite(r) PROVE TypeOK'
  BY <1>11, TakeType DEF TerminalWrite, TypeOK
<1>12. ASSUME NEW r \in Renderers, TerminalClose(r) PROVE TypeOK'
  BY <1>12, TakeType, KillType DEF TerminalClose, TypeOK
<1>13. ASSUME NEW p \in Shells, ShellEnds(p) PROVE TypeOK'
  BY <1>13, KillType, CallersType DEF ShellEnds, TypeOK
<1>14. ASSUME NEW p \in Shells, ShellClosed(p) PROVE TypeOK'
  BY <1>14 DEF ShellClosed, TypeOK
<1>15. ASSUME StartLab PROVE TypeOK'
  BY <1>15, KillType, CallersType DEF StartLab, TypeOK
<1>16. ASSUME ClickStop PROVE TypeOK'
  BY <1>16, <1>t, SendType, Messages DEF ClickStop, TypeOK
<1>17. ASSUME StopBegins PROVE TypeOK'
  <2>1. queue' \in [Renderers -> Seq(Message)]
    BY <1>17, <1>t, TakeType DEF StopBegins
  <2>2. CASE project
    BY <1>17, <2>1, <2>2, KillType, CallersType DEF StopBegins, TypeOK
  <2>3. CASE ~project
    BY <1>17, <2>1, <2>3 DEF StopBegins, TypeOK
  <2> QED
    BY <2>2, <2>3
<1>18. ASSUME StopEnds PROVE TypeOK'
  <2>1. CASE shell' = Kill(Shells) /\ project' = FALSE /\ ended' = ended \cup Callers(Shells)
    BY <1>18, <2>1, KillType, CallersType DEF StopEnds, TypeOK
  <2>2. CASE UNCHANGED <<project, shell, ended>>
    BY <1>18, <2>2 DEF StopEnds, TypeOK
  <2> QED
    BY <1>18, <2>1, <2>2 DEF StopEnds
<1>19. CASE UNCHANGED vars
  BY <1>19 DEF vars, TypeOK
<1> QED
  BY <1>1, <1>2, <1>3, <1>4, <1>5, <1>6, <1>7, <1>8, <1>9, <1>10, <1>11, <1>12, <1>13, <1>14,
     <1>15, <1>16, <1>17, <1>18, <1>19 DEF Next, ViewStep, ShellStep, LabStep

-----------------------------------------------------------------------------
(* One shell.                                                              *)

LEMMA KillLive ==
  ASSUME TypeOK, NEW ps, NEW p \in Shells, Kill(ps)[p] # None, Kill(ps)[p].state = "live"
  PROVE  Live(p) /\ p \notin ps
BY KillType DEF Live

\* A process comes to life only as the active one, and whatever takes its handle
\* from main kills it.
LEMMA OneShellStep == TypeOK /\ OneShell /\ [Next]_vars => OneShell'
<1> SUFFICES ASSUME TypeOK, OneShell, [Next]_vars PROVE OneShell'
  OBVIOUS
<1> USE DEF lab, views, terminals, ghost
<1>1. CASE UNCHANGED terminals
  BY <1>1 DEF OneShell, Live
<1>2. ASSUME NEW r \in Renderers, TerminalOpen(r) PROVE OneShell'
  <2>1. PICK p \in Shells : /\ shell[p] = None
                            /\ shell' = [Kill({activeTerminalProcess}) EXCEPT ![p] = New(r)]
                            /\ activeTerminalProcess' = p
    BY <1>2 DEF TerminalOpen
  <2>2. \A q \in Shells \ {p} : shell'[q] = Kill({activeTerminalProcess})[q]
    BY <2>1, KillType
  <2> QED
    BY <2>1, <2>2, KillLive DEF OneShell, Live
<1>3. ASSUME NEW r \in Renderers, TerminalClose(r) PROVE OneShell'
  BY <1>3, KillLive DEF TerminalClose, OneShell, Live
<1>4. ASSUME NEW p \in Shells, ShellEnds(p) PROVE OneShell'
  BY <1>4, KillLive DEF ShellEnds, OneShell, Live
<1>5. ASSUME NEW p \in Shells, ShellClosed(p) PROVE OneShell'
  BY <1>5 DEF ShellClosed, OneShell, Live, TypeOK
<1>6. ASSUME StartLab PROVE OneShell'
  BY <1>6, KillLive DEF StartLab, OneShell, Live
<1>7. ASSUME StopBegins PROVE OneShell'
  <2>1. CASE project
    BY <1>7, <2>1, KillLive DEF StopBegins, OneShell, Live
  <2> QED
    BY <1>1, <1>7, <2>1 DEF StopBegins
<1>8. ASSUME StopEnds PROVE OneShell'
  <2>1. CASE shell' = Kill(Shells)
    BY <1>8, <2>1, KillLive DEF StopEnds, OneShell, Live
  <2> QED
    BY <1>1, <1>8, <2>1 DEF StopEnds
<1>9. ASSUME ViewStep \/ ClickStop \/ (\E r \in Renderers : TerminalWrite(r)) \/ UNCHANGED vars
      PROVE  UNCHANGED terminals
  BY <1>9 DEF ViewStep, OpenModal, CloseModal, ClickTerminal, OpenTerminalWindow, WindowLoads,
     CloseWindow, Type, Paste, PasteRead, ClickStop, TerminalWrite, vars
<1> QED
  BY <1>1, <1>2, <1>3, <1>4, <1>5, <1>6, <1>7, <1>8, <1>9 DEF Next, ShellStep, LabStep

-----------------------------------------------------------------------------
(* What a queue does to the active process.                                *)

\* Of the first k - 1 messages, number j is the last that opens or closes a
\* shell; or none does.
Control(m) == m.kind \in {"open", "close"}
LastAt(s, j, k) == j \in 1..(k - 1) /\ Control(s[j]) /\ \A i \in (j + 1)..(k - 1) : ~Control(s[i])
NoneBefore(s, k) == \A i \in 1..(k - 1) : ~Control(s[i])

LEMMA TailKeeps ==
  ASSUME NEW s \in Seq(Message), s # <<>>, NEW k \in 2..(Len(s) + 1)
  PROVE  /\ k \in 2..Len(s) => Tail(s)[k - 1] = s[k]
         /\ Head(s) = s[1] /\ Len(Tail(s)) = Len(s) - 1
         /\ NoneBefore(s, k) => NoneBefore(Tail(s), k - 1) /\ ~Control(Head(s))
         /\ \A j : LastAt(s, j, k) /\ j # 1 => LastAt(Tail(s), j - 1, k - 1) /\ Tail(s)[j - 1] = s[j]
         /\ LastAt(s, 1, k) => NoneBefore(Tail(s), k - 1) /\ Control(Head(s))
<1>1. Len(s) \in Nat /\ Len(Tail(s)) = Len(s) - 1
  BY HeadTailProperties, LenProperties
<1>2. \A i \in 2..Len(s) : Tail(s)[i - 1] = s[i]
  <2> TAKE i \in 2..Len(s)
  <2>1. i - 1 \in 1..Len(Tail(s))
    BY <1>1
  <2>2. \A l \in 1..Len(Tail(s)) : Tail(s)[l] = s[l + 1]
    BY HeadTailProperties
  <2> QED
    BY <2>1, <2>2
<1>3. Head(s) = s[1]
  <2>1. 1 \in 1..Len(s) /\ Len(s) \in 1..Len(s) /\ SubSeq(s, 1, Len(s)) = s
    BY <1>1, EmptySeq, SubSeqFull
  <2> QED
    BY <2>1, HeadTailOfSubSeq
<1>4. NoneBefore(s, k) => NoneBefore(Tail(s), k - 1) /\ ~Control(Head(s))
  <2> HAVE NoneBefore(s, k)
  <2>1. ASSUME NEW i \in 1..(k - 2) PROVE ~Control(Tail(s)[i])
    <3>1. i + 1 \in 2..Len(s) /\ i + 1 \in 1..(k - 1) /\ (i + 1) - 1 = i
      BY <1>1
    <3> QED
      BY <1>2, <3>1 DEF NoneBefore
  <2> QED
    BY <1>3, <2>1 DEF NoneBefore
<1>5. ASSUME NEW j, LastAt(s, j, k), j # 1
      PROVE  LastAt(Tail(s), j - 1, k - 1) /\ Tail(s)[j - 1] = s[j]
  <2>1. j \in 2..Len(s) /\ j - 1 \in 1..(k - 2)
    BY <1>1, <1>5 DEF LastAt
  <2>2. ASSUME NEW i \in j..(k - 2) PROVE ~Control(Tail(s)[i])
    <3>1. i + 1 \in 2..Len(s) /\ i + 1 \in (j + 1)..(k - 1) /\ (i + 1) - 1 = i
      BY <1>1, <2>1
    <3> QED
      BY <1>2, <1>5, <3>1 DEF LastAt
  <2> QED
    BY <1>2, <1>5, <2>1, <2>2 DEF LastAt
<1>6. LastAt(s, 1, k) => NoneBefore(Tail(s), k - 1) /\ Control(Head(s))
  <2> HAVE LastAt(s, 1, k)
  <2>1. ASSUME NEW i \in 1..(k - 2) PROVE ~Control(Tail(s)[i])
    <3>1. i + 1 \in 2..Len(s) /\ i + 1 \in 2..(k - 1) /\ (i + 1) - 1 = i
      BY <1>1
    <3> QED
      BY <1>2, <3>1 DEF LastAt
  <2> QED
    BY <1>3, <2>1 DEF NoneBefore, LastAt
<1> QED
  BY <1>1, <1>2, <1>3, <1>4, <1>5, <1>6

LEMMA ConcatKeeps ==
  ASSUME NEW s \in Seq(Message), NEW m \in Seq(Message), NEW k \in 1..(Len(s) + 1)
  PROVE  /\ \A i \in 1..Len(s) : (s \o m)[i] = s[i]
         /\ NoneBefore(s, k) => NoneBefore(s \o m, k)
         /\ \A j : LastAt(s, j, k) => LastAt(s \o m, j, k) /\ (s \o m)[j] = s[j]
<1>1. Len(s) \in Nat /\ Len(m) \in Nat
  BY LenProperties
<1>2. \A i \in 1..Len(s) : (s \o m)[i] = s[i]
  BY <1>1, ConcatProperties
<1> QED
  BY <1>1, <1>2 DEF NoneBefore, LastAt

\* A queue that ends with a message that opens or closes.
LEMMA ConcatControl ==
  ASSUME NEW s \in Seq(Message), NEW m \in Seq(Message), m # <<>>, Control(m[Len(m)])
  PROVE  LET t == s \o m IN LastAt(t, Len(t), Len(t) + 1) /\ t[Len(t)] = m[Len(m)]
<1>1. Len(s) \in Nat /\ Len(m) \in Nat \ {0}
  BY LenProperties, EmptySeq
<1>2. Len(s \o m) = Len(s) + Len(m) /\ (s \o m)[Len(s) + Len(m)] = m[Len(m)]
  BY <1>1, ConcatProperties
<1> QED
  BY <1>1, <1>2 DEF LastAt

\* A queue that ends with another message.
LEMMA ConcatOther ==
  ASSUME NEW s \in Seq(Message), NEW x \in Message, ~Control(x)
  PROVE  /\ Len(s \o <<x>>) = Len(s) + 1 /\ (s \o <<x>>)[Len(s) + 1] = x
         /\ NoneBefore(s, Len(s) + 1) => NoneBefore(s \o <<x>>, Len(s) + 2)
         /\ \A j : LastAt(s, j, Len(s) + 1) =>
                LastAt(s \o <<x>>, j, Len(s) + 2) /\ (s \o <<x>>)[j] = s[j]
<1>1. Len(s) \in Nat /\ <<x>> \in Seq(Message) /\ Len(<<x>>) = 1
  BY LenProperties
<1>2. Len(s \o <<x>>) = Len(s) + 1 /\ (s \o <<x>>)[Len(s) + 1] = x
  BY <1>1, ConcatProperties
<1>3. \A i \in 1..Len(s) : (s \o <<x>>)[i] = s[i]
  BY <1>1, ConcatProperties
<1> QED
  BY <1>1, <1>2, <1>3 DEF NoneBefore, LastAt

\* What is typed for device n of renderer r reaches its shell now, or none.
Reaches(r, n) ==
  activeTerminalProcess # None =>
    shell[activeTerminalProcess].caller = r /\ shell[activeTerminalProcess].node = n

\* A key for n as message k of r would reach its shell: the last message before
\* it that opens or closes, if any, opens that of n, or closes.
Fits(r, n, k) ==
  \/ \E j \in 1..(k - 1) : LastAt(queue[r], j, k) /\ (queue[r][j].kind = "close" \/ queue[r][j].node = n)
  \/ NoneBefore(queue[r], k) /\ Reaches(r, n)

\* The keys on their way from r, and the next one, reach the right shell.
RightQueue(r) ==
  /\ \A k \in 1..Len(queue[r]) : queue[r][k].kind = "write" => Fits(r, queue[r][k].node, k)
  /\ Shown(r) # None => Fits(r, Shown(r), Len(queue[r]) + 1)
  /\ pasting[r] # None /\ Shown(r) \in {None, pasting[r]} => Fits(r, pasting[r], Len(queue[r]) + 1)

\* Main takes a message, and does with the shell what it says.
LEMMA FitsTake ==
  ASSUME TypeOK, NEW r \in Renderers, NEW kind, Take(r, kind), NEW n,
         kind \notin {"open", "close"} /\ Reaches(r, n) => Reaches(r, n)',
         kind = "close" => Reaches(r, n)',
         kind = "open" /\ Head(queue[r]).node = n => Reaches(r, n)',
         NEW k \in 2..(Len(queue[r]) + 1), Fits(r, n, k)
  PROVE  Fits(r, n, k - 1)'
<1> DEFINE s == queue[r]
<1>1. s \in Seq(Message) /\ s # <<>> /\ Head(s).kind = kind /\ queue'[r] = Tail(s)
  BY TakeType
<1>2. Head(s) = s[1] /\ Len(s) \in Nat
  BY <1>1, TailKeeps, LenProperties
<1>3. CASE NoneBefore(s, k) /\ Reaches(r, n)
  <2>1. NoneBefore(Tail(s), k - 1) /\ kind \notin {"open", "close"}
    BY <1>1, <1>3, TailKeeps DEF Control
  <2> QED
    BY <1>1, <1>3, <2>1 DEF Fits
<1>4. ASSUME NEW j \in 1..(k - 1), LastAt(s, j, k), s[j].kind = "close" \/ s[j].node = n
      PROVE  Fits(r, n, k - 1)'
  <2>1. CASE j = 1
    <3>1. NoneBefore(Tail(s), k - 1) /\ kind \in {"open", "close"}
      BY <1>1, <1>4, <2>1, TailKeeps DEF Control
    <3>2. Reaches(r, n)'
      BY <1>1, <1>2, <1>4, <2>1, <3>1
    <3> QED
      BY <1>1, <3>1, <3>2 DEF Fits
  <2>2. CASE j # 1
    <3>1. LastAt(Tail(s), j - 1, k - 1) /\ Tail(s)[j - 1] = s[j]
      BY <1>1, <1>4, <2>2, TailKeeps
    <3>2. j - 1 \in 1..((k - 1) - 1)
      BY <3>1 DEF LastAt
    <3> QED
      BY <1>1, <1>4, <3>1, <3>2 DEF Fits
  <2> QED
    BY <2>1, <2>2
<1> QED
  BY <1>3, <1>4 DEF Fits

LEMMA RightTake ==
  ASSUME TypeOK, NEW r \in Renderers, NEW kind, Take(r, kind), RightQueue(r),
         Shown(r)' = Shown(r), pasting'[r] = pasting[r],
         \A n : kind \notin {"open", "close"} /\ Reaches(r, n) => Reaches(r, n)',
         kind = "close" => \A n : Reaches(r, n)',
         kind = "open" => \A n : Head(queue[r]).node = n => Reaches(r, n)'
  PROVE  RightQueue(r)'
<1> DEFINE s == queue[r]
<1>1. s \in Seq(Message) /\ s # <<>> /\ queue'[r] = Tail(s)
  BY TakeType
<1>2. PICK len \in Nat \ {0} : Len(s) = len /\ Len(queue'[r]) = len - 1
  BY <1>1, HeadTailProperties, EmptySeq
<1>3. ASSUME NEW n, NEW k \in 2..(len + 1), Fits(r, n, k) PROVE Fits(r, n, k - 1)'
  <2>1. kind \notin {"open", "close"} /\ Reaches(r, n) => Reaches(r, n)'
    OBVIOUS
  <2>2. kind = "close" => Reaches(r, n)'
    OBVIOUS
  <2>3. kind = "open" /\ Head(queue[r]).node = n => Reaches(r, n)'
    OBVIOUS
  <2>4. k \in 2..(Len(queue[r]) + 1)
    BY <1>2
  <2> QED
    BY <1>3, <2>1, <2>2, <2>3, <2>4, FitsTake
<1>4. ASSUME NEW k \in 1..(len - 1), NEW n, queue'[r][k].kind = "write", queue'[r][k].node = n
      PROVE  Fits(r, n, k)'
  <2>1. k + 1 \in 2..(len + 1) /\ k + 1 \in 2..len /\ (k + 1) - 1 = k
    OBVIOUS
  <2>2. queue'[r][k] = s[k + 1]
    BY <1>1, <1>2, <2>1, TailKeeps
  <2>3. Fits(r, n, k + 1)
    BY <1>2, <1>4, <2>1, <2>2 DEF RightQueue
  <2> QED
    BY <1>3, <2>1, <2>3
<1>5. ASSUME NEW n, Fits(r, n, len + 1) PROVE Fits(r, n, (len - 1) + 1)'
  <2>1. len + 1 \in 2..(len + 1) /\ (len + 1) - 1 = (len - 1) + 1
    OBVIOUS
  <2> QED
    BY <1>3, <1>5, <2>1
<1> QED
  <2>1. \A k \in 1..Len(queue'[r]) :
          queue'[r][k].kind = "write" => \A n : n = queue'[r][k].node => Fits(r, n, k)'
    BY <1>2, <1>4
  <2> QED
    BY <1>2, <1>5, <2>1 DEF RightQueue

\* Nothing happens to the queue or the views of r.
LEMMA RightKeep ==
  ASSUME NEW r \in Renderers, RightQueue(r),
         queue'[r] = queue[r], Shown(r)' = Shown(r), pasting'[r] \in {pasting[r], Shown(r), None},
         \A n : Reaches(r, n) => Reaches(r, n)'
  PROVE  RightQueue(r)'
<1>1. ASSUME NEW n, NEW k, Fits(r, n, k) PROVE Fits(r, n, k)'
  BY <1>1 DEF Fits
<1>2. PICK len : len = Len(queue[r]) /\ len = Len(queue'[r])
  OBVIOUS
<1>3. \A k \in 1..len : queue'[r][k].kind = "write" =>
        \A n : n = queue'[r][k].node => Fits(r, n, k)'
  BY <1>1, <1>2 DEF RightQueue
<1> QED
  BY <1>1, <1>2, <1>3 DEF RightQueue

\* Something is sent after message k.
LEMMA FitsKeep ==
  ASSUME NEW r \in Renderers, queue[r] \in Seq(Message), NEW m \in Seq(Message), queue'[r] = queue[r] \o m,
         NEW n, Reaches(r, n) => Reaches(r, n)', NEW k \in 1..(Len(queue[r]) + 1), Fits(r, n, k)
  PROVE  Fits(r, n, k)'
<1>1. CASE NoneBefore(queue[r], k) /\ Reaches(r, n)
  BY <1>1, ConcatKeeps DEF Fits
<1>2. ASSUME NEW j \in 1..(k - 1), LastAt(queue[r], j, k),
             queue[r][j].kind = "close" \/ queue[r][j].node = n
      PROVE  Fits(r, n, k)'
  <2>1. LastAt(queue'[r], j, k) /\ queue'[r][j] = queue[r][j]
    <3>1. \A i : LastAt(queue[r], i, k) =>
            LastAt(queue[r] \o m, i, k) /\ (queue[r] \o m)[i] = queue[r][i]
      BY ConcatKeeps
    <3> QED
      BY <1>2, <3>1
  <2> QED
    BY <1>2, <2>1 DEF Fits
<1> QED
  BY <1>1, <1>2 DEF Fits

\* What was on its way before something is sent is not changed by it.
LEMMA RightSendOld ==
  ASSUME TypeOK, NEW r \in Renderers, NEW m \in Seq(Message), Send(r, m), RightQueue(r),
         \A n : Reaches(r, n) => Reaches(r, n)'
  PROVE  \A k \in 1..Len(queue[r]) : queue'[r][k].kind = "write" =>
           \A n : n = queue'[r][k].node => Fits(r, n, k)'
<1>1. queue[r] \in Seq(Message) /\ queue'[r] = queue[r] \o m /\ Len(queue[r]) \in Nat
  BY SendType, LenProperties
<1>2. ASSUME NEW k \in 1..Len(queue[r]), NEW n, Fits(r, n, k) PROVE Fits(r, n, k)'
  <2>1. k \in 1..(Len(queue[r]) + 1)
    BY <1>1
  <2> QED
    BY <1>1, <1>2, <2>1, FitsKeep
<1> QED
  BY <1>1, <1>2, ConcatKeeps DEF RightQueue

\* A key, or a message that neither types, opens nor closes, is sent.
LEMMA RightOther ==
  ASSUME TypeOK, NEW r \in Renderers, NEW x \in Message, Send(r, <<x>>), RightQueue(r),
         ~Control(x), x.kind = "write" => Fits(r, x.node, Len(queue[r]) + 1),
         Shown(r)' = Shown(r), pasting'[r] \in {pasting[r], None},
         \A n : Reaches(r, n) => Reaches(r, n)'
  PROVE  RightQueue(r)'
<1>1. PICK len \in Nat : len = Len(queue[r])
  BY LenProperties DEF TypeOK
<1>2. <<x>> \in Seq(Message)
  OBVIOUS
<1>3. queue[r] \in Seq(Message) /\ queue'[r] = queue[r] \o <<x>>
  BY <1>2, SendType
<1>4. Len(queue'[r]) = len + 1 /\ queue'[r][len + 1] = x
  BY <1>1, <1>3, ConcatOther
<1>5. ASSUME NEW n, Fits(r, n, len + 1) PROVE Fits(r, n, len + 1)' /\ Fits(r, n, (len + 1) + 1)'
  <2>1. len + 1 \in 1..(Len(queue[r]) + 1) /\ (len + 1) + 1 = Len(queue[r]) + 2
    BY <1>1
  <2>2. Fits(r, n, len + 1)'
    BY <1>2, <1>3, <1>5, <2>1, FitsKeep
  <2>3. CASE NoneBefore(queue[r], len + 1) /\ Reaches(r, n)
    BY <1>1, <1>3, <2>1, <2>2, <2>3, ConcatOther DEF Fits
  <2>4. ASSUME NEW j \in 1..len, LastAt(queue[r], j, len + 1),
               queue[r][j].kind = "close" \/ queue[r][j].node = n
        PROVE  Fits(r, n, (len + 1) + 1)'
    <3>1. LastAt(queue'[r], j, (len + 1) + 1) /\ queue'[r][j] = queue[r][j]
      <4>1. \A i : LastAt(queue[r], i, Len(queue[r]) + 1) =>
              /\ LastAt(queue[r] \o <<x>>, i, Len(queue[r]) + 2)
              /\ (queue[r] \o <<x>>)[i] = queue[r][i]
        BY <1>3, ConcatOther
      <4>2. (len + 1) + 1 = Len(queue[r]) + 2 /\ len + 1 = Len(queue[r]) + 1
        BY <1>1
      <4> QED
        BY <1>3, <2>4, <4>1, <4>2
    <3>2. j \in 1..(((len + 1) + 1) - 1)
      OBVIOUS
    <3> QED
      BY <2>4, <3>1, <3>2 DEF Fits
  <2>5. (len + 1) - 1 = len
    OBVIOUS
  <2> QED
    BY <1>5, <2>2, <2>3, <2>4, <2>5 DEF Fits
<1>6. \A k \in 1..(len + 1) : queue'[r][k].kind = "write" =>
        \A n : n = queue'[r][k].node => Fits(r, n, k)'
  <2>1. \A k \in 1..len : queue'[r][k].kind = "write" =>
          \A n : n = queue'[r][k].node => Fits(r, n, k)'
    BY <1>1, <1>2, RightSendOld
  <2>2. x.kind = "write" => \A n : n = x.node => Fits(r, n, len + 1)'
    BY <1>1, <1>5
  <2> QED
    BY <1>4, <2>1, <2>2
<1>7. \A k \in 1..Len(queue'[r]) : queue'[r][k].kind = "write" =>
        \A n : n = queue'[r][k].node => Fits(r, n, k)'
  BY <1>4, <1>6
<1> QED
  BY <1>1, <1>4, <1>5, <1>7 DEF RightQueue

\* Messages are sent of which the last opens a shell for what the view shows, or
\* closes.
LEMMA RightControl ==
  ASSUME TypeOK, NEW r \in Renderers, NEW m \in Seq(Message), Send(r, m), RightQueue(r),
         m # <<>>, \A k \in 1..Len(m) : m[k].kind # "write",
         Control(m[Len(m)]), m[Len(m)].kind = "close" \/ m[Len(m)].node = Shown(r)',
         m[Len(m)].kind # "close" => Shown(r)' # None,
         \A n : Reaches(r, n) => Reaches(r, n)'
  PROVE  RightQueue(r)'
<1>1. PICK len \in Nat : len = Len(queue[r])
  BY LenProperties DEF TypeOK
<1>2. queue[r] \in Seq(Message) /\ queue'[r] = queue[r] \o m
  BY SendType
<1>3. PICK new \in Nat : new = Len(queue'[r])
  BY <1>2, ConcatProperties, LenProperties
<1>4. LastAt(queue'[r], new, new + 1) /\ queue'[r][new] = m[Len(m)]
  BY <1>2, <1>3, ConcatControl
<1>5. new \in 1..((new + 1) - 1)
  BY <1>4 DEF LastAt
<1>6. \A k \in 1..new : queue'[r][k].kind = "write" => \A n : n = queue'[r][k].node => Fits(r, n, k)'
  <2>1. \A k \in 1..len : queue'[r][k].kind = "write" =>
          \A n : n = queue'[r][k].node => Fits(r, n, k)'
    BY <1>1, RightSendOld
  <2>2. \A k \in (len + 1)..new : queue'[r][k].kind # "write"
    <3> TAKE k \in (len + 1)..new
    <3>1. new = len + Len(m) /\ Len(m) \in Nat
      BY <1>1, <1>2, <1>3, ConcatProperties, LenProperties
    <3>2. k - len \in 1..Len(m) /\ queue'[r][k] = m[k - len]
      BY <1>1, <1>2, <3>1, ConcatProperties
    <3> QED
      BY <3>2
  <2>3. \A k \in 1..new : k \in 1..len \/ k \in (len + 1)..new
    OBVIOUS
  <2> QED
    BY <2>1, <2>2, <2>3
<1>7. m[Len(m)].kind = "close" => \A n : Fits(r, n, new + 1)'
  BY <1>4, <1>5 DEF Fits
<1>8. \A n : n = m[Len(m)].node => Fits(r, n, new + 1)'
  BY <1>4, <1>5 DEF Fits
<1> QED
  BY <1>3, <1>6, <1>7, <1>8 DEF RightQueue

-----------------------------------------------------------------------------
(* One view at a time.                                                     *)

AloneInv == "shared" \notin mishaps => \A r, q \in Renderers : Busy(r) /\ Busy(q) => r = q

\* A message of r that types, opens or closes is on its way.
OnItsWay(r) == \E k \in DOMAIN queue[r] : queue[r][k].kind \in {"open", "write", "close"}

LEMMA TakeOnItsWay ==
  ASSUME TypeOK, NEW r \in Renderers, NEW kind, Take(r, kind)
  PROVE  /\ \A q \in Renderers : OnItsWay(q)' => OnItsWay(q)
         /\ kind \in {"open", "write", "close"} => OnItsWay(r)
<1> DEFINE s == queue[r]
<1>1. s \in Seq(Message) /\ s # <<>> /\ queue'[r] = Tail(s) /\ Head(s).kind = kind
  BY TakeType
<1>2. /\ Len(s) \in Nat \ {0} /\ DOMAIN s = 1..Len(s) /\ Head(s) = s[1]
      /\ Tail(s) \in Seq(Message) /\ Len(Tail(s)) = Len(s) - 1 /\ DOMAIN Tail(s) = 1..Len(Tail(s))
  <2>1. s \in Seq(Message) /\ Tail(s) \in Seq(Message)
    BY <1>1, HeadTailProperties
  <2>2. 2 \in 2..(Len(s) + 1)
    BY <1>1, EmptySeq
  <2> QED
    BY <1>1, <2>1, <2>2, TailKeeps, LenProperties, EmptySeq
<1>3. ASSUME NEW k \in DOMAIN queue'[r], queue'[r][k].kind \in {"open", "write", "close"}
      PROVE  OnItsWay(r)
  <2>1. k + 1 \in DOMAIN s
    BY <1>1, <1>2
  <2>2. Tail(s)[k] = s[k + 1]
    BY <1>1, <1>2, HeadTailProperties
  <2> QED
    BY <1>1, <1>3, <2>1, <2>2 DEF OnItsWay
<1>4. OnItsWay(r)' => OnItsWay(r)
  BY <1>3 DEF OnItsWay
<1>5. ASSUME NEW q \in Renderers \ {r} PROVE OnItsWay(q)' => OnItsWay(q)
  BY TakeType DEF OnItsWay
<1>6. kind \in {"open", "write", "close"} => OnItsWay(r)
  BY <1>1, <1>2 DEF OnItsWay
<1> QED
  BY <1>4, <1>5, <1>6

LEMMA SendOnItsWay ==
  ASSUME TypeOK, NEW r \in Renderers, NEW m \in Seq(Message), Send(r, m)
  PROVE  /\ \A q \in Renderers \ {r} : OnItsWay(q)' => OnItsWay(q)
         /\ (\A k \in 1..Len(m) : m[k].kind \notin {"open", "write", "close"}) =>
              (OnItsWay(r)' => OnItsWay(r))
<1> DEFINE s == queue[r]
<1>1. s \in Seq(Message) /\ queue'[r] = s \o m /\ \A q \in Renderers \ {r} : queue'[q] = queue[q]
  BY SendType
<1>2. \A q \in Renderers \ {r} : OnItsWay(q)' => OnItsWay(q)
  BY <1>1 DEF OnItsWay
<1>3. ASSUME \A k \in 1..Len(m) : m[k].kind \notin {"open", "write", "close"},
             NEW k \in DOMAIN queue'[r], queue'[r][k].kind \in {"open", "write", "close"}
      PROVE  OnItsWay(r)
  <2>1. /\ Len(s) \in Nat /\ Len(m) \in Nat /\ DOMAIN s = 1..Len(s)
        /\ DOMAIN (s \o m) = 1..(Len(s) + Len(m))
    BY <1>1, ConcatProperties, LenProperties
  <2>2. CASE k <= Len(s)
    <3>1. k \in 1..Len(s) /\ (s \o m)[k] = s[k]
      BY <1>1, <1>3, <2>1, <2>2, ConcatProperties
    <3> QED
      BY <1>1, <1>3, <2>1, <3>1 DEF OnItsWay
  <2>3. CASE ~(k <= Len(s))
    <3>1. k - Len(s) \in 1..Len(m) /\ (s \o m)[k] = m[k - Len(s)]
      BY <1>1, <1>3, <2>1, <2>3, ConcatProperties
    <3> QED
      BY <1>1, <1>3, <3>1
  <2> QED
    BY <2>2, <2>3
<1> QED
  BY <1>2, <1>3 DEF OnItsWay

\* A view that is not there is not shown, not pasted into, and sends nothing.
LEMMA BusyDef ==
  \A r \in Renderers :
    Busy(r) <=> Shown(r) # None \/ pasting[r] # None \/ (r # App /\ window[r] = "loading") \/ OnItsWay(r)
BY DEF Busy, OnItsWay

LEMMA AloneStep == TypeOK /\ AloneInv /\ [Next]_vars => AloneInv'
<1> SUFFICES ASSUME TypeOK, AloneInv, [Next]_vars PROVE AloneInv'
  OBVIOUS
<1> DEFINE Fewer == (\A r \in Renderers : Busy(r)' => Busy(r)) /\ mishaps \subseteq mishaps'
<1> USE AttackerAssumption, RendererAssumption
    DEF lab, views, terminals, ghost
<1>t. App \in Renderers /\ Windows \subseteq Renderers /\ \A w \in Windows : w # App
  BY DEF Renderers
<1>f. Fewer => AloneInv'
  BY DEF AloneInv
<1>b. \A r \in Renderers :
        Busy(r)' <=> \/ Shown(r)' # None \/ pasting'[r] # None
                     \/ r # App /\ window'[r] = "loading"
                     \/ OnItsWay(r)'
  BY DEF Busy, OnItsWay
<1>n. ASSUME NEW r \in Renderers, NoteShared(r), \A q \in Renderers \ {r} : Busy(q)' => Busy(q)
      PROVE  AloneInv'
  <2>1. CASE \E q \in Renderers \ {r} : Busy(q)
    BY <1>n, <2>1 DEF NoteShared, AloneInv
  <2>2. CASE ~\E q \in Renderers \ {r} : Busy(q)
    BY <1>n, <2>2 DEF AloneInv
  <2> QED
    BY <2>1, <2>2
<1>1. ASSUME NEW n \in Attackers, OpenModal(n) PROVE AloneInv'
  <2>1. \A q \in Renderers \ {App} : OnItsWay(q)' => OnItsWay(q)
    BY <1>1, <1>t, SendOnItsWay, Messages DEF OpenModal
  <2>2. \A q \in Renderers \ {App} : Busy(q)' => Busy(q)
    BY <1>1, <1>b, <2>1, BusyDef DEF OpenModal, Shown
  <2> QED
    BY <1>1, <1>t, <1>n, <2>2 DEF OpenModal
<1>2. ASSUME CloseModal PROVE Fewer
  <2>1. modal \in Attackers
    BY <1>2 DEF CloseModal, TypeOK
  <2>2. \A q \in Renderers \ {App} : OnItsWay(q)' => OnItsWay(q)
    BY <1>2, <1>t, <2>1, SendOnItsWay, Messages DEF CloseModal
  <2>3. Busy(App)
    BY <1>2, <1>t, BusyDef DEF CloseModal, Shown
  <2> QED
    BY <1>2, <1>b, <2>2, <2>3, BusyDef DEF CloseModal, Shown
<1>3. ASSUME ClickTerminal PROVE Fewer
  <2> DEFINE m == <<Msg("window", FirstAttacker)>>
  <2>1. m \in Seq(Message) /\ Send(App, m)
    BY <1>3, Messages DEF ClickTerminal
  <2>3. \A k \in 1..Len(m) : m[k].kind \notin {"open", "write", "close"}
    BY DEF Msg
  <2>2. \A q \in Renderers : OnItsWay(q)' => OnItsWay(q)
    <3> HIDE DEF m
    <3> QED
      BY <1>t, <2>1, <2>3, SendOnItsWay
  <2> QED
    BY <1>3, <1>b, <2>2, BusyDef DEF ClickTerminal, Shown
<1>4. ASSUME OpenTerminalWindow PROVE AloneInv'
  <2>1. \A q \in Renderers : OnItsWay(q)' => OnItsWay(q)
    BY <1>4, <1>t, TakeOnItsWay DEF OpenTerminalWindow
  <2>2. CASE UNCHANGED <<window, terminalWindow, mishaps>>
    BY <1>4, <1>b, <1>f, <2>1, <2>2, BusyDef DEF OpenTerminalWindow, Shown
  <2>3. ASSUME NEW w \in Windows, window[w] = "closed", window' = [window EXCEPT ![w] = "loading"], NoteShared(w)
        PROVE  AloneInv'
    <3>1. \A q \in Renderers \ {w} : q # App => window'[q] = window[q]
      BY <2>3, <1>t DEF TypeOK, Renderers
    <3>2. \A q \in Renderers \ {w} : Busy(q)' => Busy(q)
      BY <1>4, <1>b, <2>1, <3>1, BusyDef DEF OpenTerminalWindow, Shown
    <3> QED
      BY <1>t, <1>n, <2>3, <3>2
  <2> QED
    BY <1>4, <2>2, <2>3 DEF OpenTerminalWindow
<1>5. ASSUME NEW w \in Windows, WindowLoads(w) PROVE Fewer
  <2>1. \A q \in Renderers \ {w} : OnItsWay(q)' => OnItsWay(q)
    BY <1>5, <1>t, SendOnItsWay, Messages DEF WindowLoads
  <2>2. Busy(w)
    BY <1>5, <1>t, BusyDef DEF WindowLoads
  <2>3. \A q \in Renderers \ {w} : q # App => window'[q] = window[q]
    BY <1>5, <1>t DEF WindowLoads, TypeOK, Renderers
  <2> QED
    BY <1>5, <1>b, <2>1, <2>2, <2>3, BusyDef DEF WindowLoads, Shown
<1>6. ASSUME NEW w \in Windows, CloseWindow(w) PROVE Fewer
  <2>1. \A q \in Renderers \ {w} : OnItsWay(q)' => OnItsWay(q)
    <3>1. CASE Send(w, <<Msg("close", FirstAttacker)>>)
      BY <3>1, <1>t, SendOnItsWay, Messages
    <3>2. CASE queue' = [queue EXCEPT ![w] = <<>>]
      BY <3>2, <1>t DEF OnItsWay, TypeOK
    <3> QED
      BY <1>6, <3>1, <3>2 DEF CloseWindow
  <2>2. \A q \in Renderers \ {w} : (q # App => window'[q] = window[q]) /\ pasting'[q] = pasting[q]
    BY <1>6, <1>t DEF CloseWindow, TypeOK, Renderers
  <2>3. Busy(w)' => Busy(w)
    <3>1. CASE window[w] = "loaded"
      BY <3>1, <1>t, BusyDef DEF Shown
    <3>2. CASE window[w] = "loading"
      BY <3>2, <1>t, BusyDef
    <3> QED
      BY <1>6, <3>1, <3>2 DEF CloseWindow, TypeOK
  <2> QED
    BY <1>6, <1>b, <2>1, <2>2, <2>3, BusyDef DEF CloseWindow, Shown
<1>7. ASSUME NEW r \in Renderers, Type(r) PROVE Fewer
  <2>1. Shown(r) \in Attackers
    BY <1>7 DEF Type, Shown, TypeOK, Renderers
  <2>2. \A q \in Renderers \ {r} : OnItsWay(q)' => OnItsWay(q)
    BY <1>7, <2>1, SendOnItsWay, Messages DEF Type
  <2>3. Busy(r)
    BY <1>7, BusyDef DEF Type
  <2> QED
    BY <1>7, <1>b, <2>2, <2>3, BusyDef DEF Type, Shown
<1>8. ASSUME NEW r \in Renderers, Paste(r) PROVE Fewer
  <2>1. Busy(r) /\ \A q \in Renderers \ {r} : pasting'[q] = pasting[q]
    BY <1>8, BusyDef DEF Paste, TypeOK
  <2>2. \A q \in Renderers : OnItsWay(q)' => OnItsWay(q)
    BY <1>8 DEF Paste, OnItsWay
  <2> QED
    BY <1>8, <1>b, <2>1, <2>2, BusyDef DEF Paste, Shown
<1>9. ASSUME NEW r \in Renderers, PasteRead(r) PROVE Fewer
  <2>1. pasting[r] \in Attackers
    BY <1>9 DEF PasteRead, TypeOK
  <2>2. \A q \in Renderers \ {r} : OnItsWay(q)' => OnItsWay(q)
    BY <1>9, <2>1, SendOnItsWay, Messages DEF PasteRead
  <2>3. Busy(r) /\ \A q \in Renderers \ {r} : pasting'[q] = pasting[q]
    BY <1>9, BusyDef DEF PasteRead, TypeOK
  <2> QED
    BY <1>9, <1>b, <2>2, <2>3, BusyDef DEF PasteRead, Shown
<1>10. ASSUME NEW r \in Renderers, TerminalOpen(r) \/ TerminalWrite(r) \/ TerminalClose(r) PROVE Fewer
  <2>1. \A q \in Renderers : OnItsWay(q)' => OnItsWay(q)
    BY <1>10, TakeOnItsWay DEF TerminalOpen, TerminalWrite, TerminalClose
  <2> QED
    BY <1>10, <1>b, <2>1, BusyDef DEF TerminalOpen, TerminalWrite, TerminalClose, Shown
<1>11. ASSUME ClickStop PROVE Fewer
  <2>1. CASE modal = None
    <3> DEFINE m == <<Msg("stop", None)>>
    <3>1. m \in Seq(Message) /\ Send(App, m)
      BY <1>11, <2>1, Messages DEF ClickStop
    <3>3. \A k \in 1..Len(m) : m[k].kind \notin {"open", "write", "close"}
      BY DEF Msg
    <3>2. \A q \in Renderers : OnItsWay(q)' => OnItsWay(q)
      <4> HIDE DEF m
      <4> QED
        BY <1>t, <3>1, <3>3, SendOnItsWay
    <3> QED
      BY <1>11, <1>b, <2>1, <3>2, BusyDef DEF ClickStop, Shown
  <2>2. CASE modal # None
    <3>1. \A q \in Renderers \ {App} : OnItsWay(q)' => OnItsWay(q)
      BY <1>11, <1>t, <2>2, SendOnItsWay, Messages DEF ClickStop, TypeOK
    <3>2. Busy(App)
      BY <1>t, <2>2, BusyDef DEF Shown
    <3> QED
      BY <1>11, <1>b, <3>1, <3>2, BusyDef DEF ClickStop, Shown
  <2> QED
    BY <2>1, <2>2
<1>12. ASSUME StopBegins PROVE Fewer
  <2>1. \A q \in Renderers : OnItsWay(q)' => OnItsWay(q)
    BY <1>12, <1>t, TakeOnItsWay DEF StopBegins
  <2> QED
    BY <1>12, <1>b, <2>1, BusyDef DEF StopBegins, Shown
<1>13. ASSUME StartLab \/ StopEnds \/ (\E p \in Shells : ShellEnds(p) \/ ShellClosed(p)) \/ UNCHANGED vars
       PROVE  Fewer
  <2>1. UNCHANGED <<views, queue, pasting, mishaps>>
    BY <1>13 DEF StartLab, StopEnds, ShellEnds, ShellClosed, vars
  <2> QED
    BY <1>b, <2>1, BusyDef DEF OnItsWay, Shown
<1> QED
  BY <1>f, <1>1, <1>2, <1>3, <1>4, <1>5, <1>6, <1>7, <1>8, <1>9, <1>10, <1>11, <1>12, <1>13
     DEF Next, ViewStep, ShellStep, LabStep

-----------------------------------------------------------------------------
(* Every key reaches the shell it was typed for.                           *)

KeyInv == mishaps = {} => \A r \in Renderers : RightQueue(r)

\* A process that is killed still runs for the view that opened it.
LEMMA KillReaches ==
  ASSUME TypeOK, NEW ps, shell' = Kill(ps), activeTerminalProcess' \in {activeTerminalProcess, None},
         NEW r, NEW n, Reaches(r, n)
  PROVE  Reaches(r, n)'
BY RendererAssumption, KillType DEF Reaches, TypeOK

\* A renderer without a view, none of whose messages types, opens or closes.
LEMMA RightIdle ==
  ASSUME NEW r \in Renderers, queue'[r] \in Seq(Message), ~OnItsWay(r)',
         Shown(r)' = None, pasting'[r] = None
  PROVE  RightQueue(r)'
<1>1. DOMAIN queue'[r] = 1..Len(queue'[r])
  BY LenProperties
<1>2. \A k \in 1..Len(queue'[r]) : queue'[r][k].kind # "write"
  BY <1>1 DEF OnItsWay
<1> QED
  BY <1>2 DEF RightQueue

LEMMA RightStep == TypeOK /\ TypeOK' /\ AloneInv /\ KeyInv /\ [Next]_vars => KeyInv'
<1> SUFFICES ASSUME TypeOK, TypeOK', AloneInv, KeyInv, [Next]_vars, mishaps' = {}
             PROVE  \A r \in Renderers : RightQueue(r)'
  BY DEF KeyInv
<1> USE AttackerAssumption, RendererAssumption DEF lab, views, terminals, ghost
<1>t. App \in Renderers /\ Windows \subseteq Renderers /\ \A w \in Windows : w # App
  BY DEF Renderers
<1>m. mishaps = {}
  BY DEF Next, ViewStep, ShellStep, LabStep, OpenModal, CloseModal, ClickTerminal,
     OpenTerminalWindow, WindowLoads, CloseWindow, Type, Paste, PasteRead, TerminalOpen,
     TerminalWrite, TerminalClose, ShellEnds, ShellClosed, StartLab, ClickStop, StopBegins,
     StopEnds, NoteShared, vars
<1>r. \A r \in Renderers : RightQueue(r) /\ queue[r] \in Seq(Message)
  BY <1>m DEF KeyInv, TypeOK
<1>s. \A r \in Renderers : Shown(r) \in Attackers \cup {None}
  BY DEF TypeOK, Shown, Renderers
<1>k. ASSUME NEW r \in Renderers, queue'[r] = queue[r], Shown(r)' = Shown(r),
             pasting'[r] \in {pasting[r], Shown(r), None},
             \A n : Reaches(r, n) => Reaches(r, n)'
      PROVE  RightQueue(r)'
  BY <1>k, <1>r, RightKeep
<1>u. UNCHANGED terminals => \A r, n : Reaches(r, n) => Reaches(r, n)'
  BY DEF Reaches
<1>1. ASSUME NEW n \in Attackers, OpenModal(n), NEW r \in Renderers PROVE RightQueue(r)'
  <2> DEFINE m == IF doubleMount THEN <<Msg("open", n), Msg("close", n), Msg("open", n)>>
                                 ELSE <<Msg("open", n)>>
  <2>1. m \in Seq(Message) /\ Send(App, m)
    BY <1>1, Messages DEF OpenModal
  <2>2. m # <<>> /\ (\A k \in 1..Len(m) : m[k].kind # "write") /\ m[Len(m)] = Msg("open", n)
    BY DEF Msg
  <2>3. Control(m[Len(m)]) /\ m[Len(m)].node = n
    BY <2>2 DEF Control, Msg
  <2>4. Shown(App)' = n /\ n # None
    BY <1>1 DEF OpenModal, Shown
  <2>5. UNCHANGED <<terminals, pasting, window>>
    BY <1>1 DEF OpenModal
  <2> HIDE DEF m
  <2>6. CASE r = App
    BY <1>t, <1>r, <1>u, <2>1, <2>2, <2>3, <2>4, <2>5, <2>6, RightControl
  <2>7. CASE r # App
    <3>1. queue'[r] = queue[r]
      BY <1>t, <2>1, <2>7, SendType
    <3> QED
      BY <1>k, <1>u, <2>5, <2>7, <3>1 DEF Shown
  <2> QED
    BY <2>6, <2>7
<1>2. ASSUME CloseModal, NEW r \in Renderers PROVE RightQueue(r)'
  <2> DEFINE m == <<Msg("close", modal)>>
  <2>1. m \in Seq(Message) /\ Send(App, m)
    BY <1>2, Messages DEF CloseModal, TypeOK
  <2>2. m # <<>> /\ (\A k \in 1..Len(m) : m[k].kind # "write") /\ m[Len(m)].kind = "close"
    BY DEF Msg
  <2>3. Control(m[Len(m)])
    BY <2>2 DEF Control
  <2>5. UNCHANGED <<terminals, pasting, window>>
    BY <1>2 DEF CloseModal
  <2> HIDE DEF m
  <2>6. CASE r = App
    BY <1>t, <1>r, <1>u, <2>1, <2>2, <2>3, <2>5, <2>6, RightControl
  <2>7. CASE r # App
    <3>1. queue'[r] = queue[r]
      BY <1>t, <2>1, <2>7, SendType
    <3> QED
      BY <1>k, <1>u, <2>5, <2>7, <3>1 DEF Shown
  <2> QED
    BY <2>6, <2>7
<1>3. ASSUME ClickTerminal, NEW r \in Renderers PROVE RightQueue(r)'
  <2> DEFINE x == Msg("window", FirstAttacker)
  <2>1. x \in Message /\ Send(App, <<x>>) /\ ~Control(x) /\ x.kind # "write"
    BY <1>3 DEF ClickTerminal, Msg, Message, Control
  <2>2. UNCHANGED <<terminals, pasting, views>>
    BY <1>3 DEF ClickTerminal
  <2> HIDE DEF x
  <2>3. Shown(r)' = Shown(r)
    BY <2>2 DEF Shown
  <2>4. CASE r = App
    BY <1>t, <1>r, <1>u, <2>1, <2>2, <2>3, <2>4, RightOther
  <2>5. CASE r # App
    <3>2. <<x>> \in Seq(Message)
      BY <2>1
    <3>1. queue'[r] = queue[r]
      BY <1>t, <2>1, <2>5, <3>2, SendType
    <3> QED
      BY <1>k, <1>u, <2>2, <2>3, <3>1
  <2> QED
    BY <2>4, <2>5
<1>4. ASSUME OpenTerminalWindow, NEW r \in Renderers PROVE RightQueue(r)'
  <2>1. Take(App, "window") /\ UNCHANGED <<terminals, pasting, modal>>
    BY <1>4 DEF OpenTerminalWindow
  <2>2. Shown(r)' = Shown(r)
    BY <1>4 DEF OpenTerminalWindow, Shown, TypeOK, Renderers
  <2>3. CASE r = App
    BY <1>t, <1>r, <1>u, <2>1, <2>2, <2>3, RightTake
  <2>4. CASE r # App
    <3>1. queue'[r] = queue[r]
      BY <1>t, <2>1, <2>4, TakeType
    <3> QED
      BY <1>k, <1>u, <2>1, <2>2, <3>1
  <2> QED
    BY <2>3, <2>4
<1>5. ASSUME NEW w \in Windows, WindowLoads(w), NEW r \in Renderers PROVE RightQueue(r)'
  <2> DEFINE m == <<Msg("open", FirstAttacker)>>
  <2>1. m \in Seq(Message) /\ Send(w, m)
    BY <1>5, Messages DEF WindowLoads
  <2>2. m # <<>> /\ (\A k \in 1..Len(m) : m[k].kind # "write") /\ m[Len(m)].node = FirstAttacker
    BY DEF Msg
  <2>3. Control(m[Len(m)])
    BY DEF Control, Msg
  <2>4. Shown(w)' = FirstAttacker /\ FirstAttacker # None
    BY <1>5, <1>t DEF WindowLoads, Shown, TypeOK
  <2>5. UNCHANGED <<terminals, pasting, modal>>
    BY <1>5 DEF WindowLoads
  <2> HIDE DEF m
  <2>6. CASE r = w
    BY <1>t, <1>r, <1>u, <2>1, <2>2, <2>3, <2>4, <2>5, <2>6, RightControl
  <2>7. CASE r # w
    <3>1. queue'[r] = queue[r]
      BY <1>t, <2>1, <2>7, SendType
    <3>2. Shown(r)' = Shown(r)
      BY <1>5, <2>7 DEF WindowLoads, Shown, TypeOK, Renderers
    <3> QED
      BY <1>k, <1>u, <2>5, <3>1, <3>2
  <2> QED
    BY <2>6, <2>7
<1>6. ASSUME NEW w \in Windows, CloseWindow(w), NEW r \in Renderers PROVE RightQueue(r)'
  <2>1. UNCHANGED <<terminals, modal>> /\ Shown(w)' = None /\ pasting'[w] = None
    BY <1>6, <1>t DEF CloseWindow, Shown, TypeOK
  <2>2. ASSUME r # w, queue'[r] = queue[r] PROVE RightQueue(r)'
    <3>1. Shown(r)' = Shown(r) /\ pasting'[r] = pasting[r]
      BY <1>6, <2>2 DEF CloseWindow, Shown, TypeOK, Renderers
    <3> QED
      BY <1>k, <1>u, <2>1, <2>2, <3>1
  <2>3. CASE Send(w, <<Msg("close", FirstAttacker)>>)
    <3> DEFINE m == <<Msg("close", FirstAttacker)>>
    <3>1. m \in Seq(Message) /\ Send(w, m)
      BY <2>3, Messages
    <3>2. m # <<>> /\ (\A k \in 1..Len(m) : m[k].kind # "write") /\ m[Len(m)].kind = "close"
      BY DEF Msg
    <3>3. Control(m[Len(m)])
      BY <3>2 DEF Control
    <3> HIDE DEF m
    <3>4. CASE r = w
      BY <1>t, <1>r, <1>u, <2>1, <3>1, <3>2, <3>3, <3>4, RightControl
    <3>5. CASE r # w
      BY <1>t, <2>2, <3>1, <3>5, SendType
    <3> QED
      BY <3>4, <3>5
  <2>4. CASE queue' = [queue EXCEPT ![w] = <<>>]
    <3>1. CASE r = w
      <4>1. queue'[r] = <<>>
        BY <1>t, <2>4, <3>1 DEF TypeOK
      <4>2. ~OnItsWay(r)' /\ queue'[r] \in Seq(Message)
        BY <4>1 DEF OnItsWay
      <4> QED
        BY <2>1, <3>1, <4>2, RightIdle
    <3>2. CASE r # w
      BY <2>2, <2>4, <3>2 DEF TypeOK
    <3> QED
      BY <3>1, <3>2
  <2> QED
    BY <1>6, <2>3, <2>4 DEF CloseWindow
<1>7. ASSUME NEW q \in Renderers, Type(q), NEW r \in Renderers PROVE RightQueue(r)'
  <2> DEFINE x == Msg("write", Shown(q))
  <2>1. x \in Message /\ Send(q, <<x>>) /\ ~Control(x) /\ x.node = Shown(q)
    BY <1>7, <1>s DEF Type, Msg, Message, Control
  <2>2. UNCHANGED <<terminals, pasting, views>> /\ Fits(q, Shown(q), Len(queue[q]) + 1)
    BY <1>7, <1>r DEF Type, RightQueue
  <2> HIDE DEF x
  <2>3. Shown(r)' = Shown(r)
    BY <2>2 DEF Shown
  <2>4. CASE r = q
    BY <1>r, <1>u, <2>1, <2>2, <2>3, <2>4, RightOther
  <2>5. CASE r # q
    <3>1. <<x>> \in Seq(Message)
      BY <2>1
    <3>2. queue'[r] = queue[r]
      BY <2>1, <2>5, <3>1, SendType
    <3> QED
      BY <1>k, <1>u, <2>2, <2>3, <3>2
  <2> QED
    BY <2>4, <2>5
<1>8. ASSUME NEW q \in Renderers, Paste(q), NEW r \in Renderers PROVE RightQueue(r)'
  <2>1. UNCHANGED <<terminals, queue, views>> /\ pasting'[r] \in {pasting[r], Shown(r)}
    BY <1>8 DEF Paste, TypeOK
  <2>2. Shown(r)' = Shown(r)
    BY <2>1 DEF Shown
  <2> QED
    BY <1>k, <1>u, <2>1, <2>2
<1>9. ASSUME NEW q \in Renderers, PasteRead(q), NEW r \in Renderers PROVE RightQueue(r)'
  <2> DEFINE x == Msg("write", pasting[q])
  <2>0. pasting[q] \in Attackers /\ Shown(q) \in {None, pasting[q]}
    BY <1>9 DEF PasteRead, TypeOK
  <2>1. x \in Message /\ Send(q, <<x>>) /\ ~Control(x) /\ x.node = pasting[q]
    BY <1>9, <2>0 DEF PasteRead, Msg, Message, Control
  <2>2. UNCHANGED <<terminals, views>> /\ Fits(q, pasting[q], Len(queue[q]) + 1)
    BY <1>9, <1>r, <2>0 DEF PasteRead, RightQueue
  <2>p. pasting'[r] \in {pasting[r], None}
    BY <1>9 DEF PasteRead, TypeOK
  <2> HIDE DEF x
  <2>3. Shown(r)' = Shown(r)
    BY <2>2 DEF Shown
  <2>4. CASE r = q
    BY <1>r, <1>u, <2>1, <2>2, <2>3, <2>4, <2>p, RightOther
  <2>5. CASE r # q
    <3>1. <<x>> \in Seq(Message)
      BY <2>1
    <3>2. queue'[r] = queue[r]
      BY <2>1, <2>5, <3>1, SendType
    <3> QED
      BY <1>k, <1>u, <2>2, <2>3, <2>p, <3>2
  <2> QED
    BY <2>4, <2>5
<1>v. ASSUME NEW q \in Renderers, NEW kind, Take(q, kind), NEW r \in Renderers,
             UNCHANGED <<views, pasting>>,
             \A n : kind \notin {"open", "close"} /\ Reaches(r, n) => Reaches(r, n)',
             kind = "close" => \A n : Reaches(r, n)',
             kind = "open" => r = q /\ \A n : Head(queue[q]).node = n => Reaches(r, n)'
      PROVE  RightQueue(r)'
  <2>1. Shown(r)' = Shown(r)
    BY <1>v DEF Shown
  <2>2. CASE r = q
    <3>1. \A n : kind \notin {"open", "close"} /\ Reaches(r, n) => Reaches(r, n)'
      BY <1>v
    <3>2. kind = "close" => \A n : Reaches(r, n)'
      BY <1>v
    <3>3. kind = "open" => \A n : Head(queue[r]).node = n => Reaches(r, n)'
      BY <1>v, <2>2
    <3> QED
      BY <1>r, <1>v, <2>1, <2>2, <3>1, <3>2, <3>3, RightTake
  <2>3. CASE r # q
    <3>1. queue'[r] = queue[r]
      BY <1>v, <2>3, TakeType
    <3>2. \A n : Reaches(r, n) => Reaches(r, n)'
      BY <1>v, <2>3
    <3> QED
      BY <1>k, <1>v, <2>1, <3>1, <3>2
  <2> QED
    BY <2>2, <2>3
<1>10. ASSUME NEW q \in Renderers, TerminalOpen(q), NEW r \in Renderers PROVE RightQueue(r)'
  <2>1. Take(q, "open") /\ UNCHANGED <<views, pasting>>
    BY <1>10 DEF TerminalOpen
  <2>2. CASE r = q
    <3>1. PICK p \in Shells : /\ shell' = [Kill({activeTerminalProcess}) EXCEPT ![p] = New(q)]
                              /\ activeTerminalProcess' = p
      BY <1>10 DEF TerminalOpen
    <3>2. shell'[p] = New(q)
      BY <3>1, KillType
    <3>3. \A n : Head(queue[q]).node = n => Reaches(r, n)'
      BY <2>1, <2>2, <3>1, <3>2, NewType DEF Reaches
    <3> QED
      BY <1>v, <2>1, <2>2, <3>3
  <2>3. CASE r # q
    <3>1. Busy(q)
      BY <2>1, TakeOnItsWay, BusyDef
    <3>2. ~Busy(r)
      BY <1>m, <2>3, <3>1 DEF AloneInv
    <3>3. ~OnItsWay(r)' /\ queue'[r] \in Seq(Message)
      BY <2>1, <3>2, TakeOnItsWay, BusyDef DEF TypeOK
    <3>4. Shown(r)' = None /\ pasting'[r] = None
      BY <2>1, <3>2, BusyDef DEF Shown
    <3> QED
      BY <3>3, <3>4, RightIdle
  <2> QED
    BY <2>2, <2>3
<1>11. ASSUME NEW q \in Renderers, TerminalWrite(q), NEW r \in Renderers PROVE RightQueue(r)'
  BY <1>11, <1>u, <1>v DEF TerminalWrite
<1>12. ASSUME NEW q \in Renderers, TerminalClose(q), NEW r \in Renderers PROVE RightQueue(r)'
  <2>1. \A n : Reaches(r, n)'
    BY <1>12 DEF TerminalClose, Reaches
  <2> QED
    BY <1>12, <1>v, <2>1 DEF TerminalClose
<1>13. ASSUME StartLab \/ StopEnds \/ (\E p \in Shells : ShellEnds(p) \/ ShellClosed(p)) \/ UNCHANGED vars,
              NEW r \in Renderers
       PROVE  RightQueue(r)'
  <2>1. UNCHANGED <<views, queue, pasting>>
    BY <1>13 DEF StartLab, StopEnds, ShellEnds, ShellClosed, vars
  <2>2. \A n : Reaches(r, n) => Reaches(r, n)'
    <3>1. CASE UNCHANGED terminals
      BY <1>u, <3>1
    <3>2. CASE (\E ps : shell' = Kill(ps)) /\ UNCHANGED activeTerminalProcess
      BY <3>2, KillReaches
    <3>3. ASSUME NEW p \in Shells, ShellClosed(p) PROVE \A n : Reaches(r, n) => Reaches(r, n)'
      BY <3>3 DEF ShellClosed, Reaches, TypeOK
    <3> QED
      BY <1>13, <3>1, <3>2, <3>3 DEF StartLab, StopEnds, ShellEnds, vars
  <2> QED
    BY <1>k, <2>1, <2>2 DEF Shown
<1>14. ASSUME ClickStop, NEW r \in Renderers PROVE RightQueue(r)'
  <2>0. UNCHANGED <<terminals, pasting, window>> /\ modal' = None
    BY <1>14 DEF ClickStop
  <2>1. ASSUME r # App, queue'[r] = queue[r] PROVE RightQueue(r)'
    BY <1>k, <1>u, <2>0, <2>1 DEF Shown
  <2>2. CASE modal = None
    <3> DEFINE x == Msg("stop", None)
    <3>1. x \in Message /\ Send(App, <<x>>) /\ ~Control(x) /\ x.kind # "write"
      BY <1>14, <2>2 DEF ClickStop, Msg, Message, Control
    <3>2. Shown(App)' = Shown(App)
      BY <2>0, <2>2 DEF Shown
    <3> HIDE DEF x
    <3>3. CASE r = App
      BY <1>t, <1>r, <1>u, <2>0, <3>1, <3>2, <3>3, RightOther
    <3>4. CASE r # App
      <4>1. <<x>> \in Seq(Message)
        BY <3>1
      <4> QED
        BY <1>t, <2>1, <3>1, <3>4, <4>1, SendType
    <3> QED
      BY <3>3, <3>4
  <2>3. CASE modal # None
    <3> DEFINE m == <<Msg("stop", None), Msg("close", modal)>>
    <3>1. m \in Seq(Message) /\ Send(App, m)
      BY <1>14, <2>3, Messages DEF ClickStop, TypeOK
    <3>2. m # <<>> /\ (\A k \in 1..Len(m) : m[k].kind # "write") /\ m[Len(m)].kind = "close"
      BY DEF Msg
    <3>3. Control(m[Len(m)])
      BY <3>2 DEF Control
    <3> HIDE DEF m
    <3>4. CASE r = App
      BY <1>t, <1>r, <1>u, <2>0, <3>1, <3>2, <3>3, <3>4, RightControl
    <3>5. CASE r # App
      BY <1>t, <2>1, <3>1, <3>5, SendType
    <3> QED
      BY <3>4, <3>5
  <2> QED
    BY <2>2, <2>3
<1>15. ASSUME StopBegins, NEW r \in Renderers PROVE RightQueue(r)'
  <2>1. Take(App, "stop") /\ UNCHANGED <<views, pasting>>
    BY <1>15 DEF StopBegins
  <2>2. \A n : Reaches(r, n) => Reaches(r, n)'
    BY <1>15 DEF StopBegins, Reaches
  <2> QED
    BY <1>t, <1>v, <2>1, <2>2
<1> QED
  BY <1>1, <1>2, <1>3, <1>4, <1>5, <1>6, <1>7, <1>8, <1>9, <1>10, <1>11, <1>12, <1>13, <1>14, <1>15
     DEF Next, ViewStep, ShellStep, LabStep

\* A key main takes next is the first message, so nothing opens or closes before it.
LEMMA KeyInvOwn == TypeOK /\ KeyInv => OwnKeystrokes
<1> SUFFICES ASSUME TypeOK, KeyInv, mishaps = {}, NEW r \in Renderers, queue[r] # <<>>,
                    Head(queue[r]).kind = "write", activeTerminalProcess # None
             PROVE  /\ shell[activeTerminalProcess].caller = r
                    /\ shell[activeTerminalProcess].node = Head(queue[r]).node
  BY DEF OwnKeystrokes
<1>1. queue[r] \in Seq(Message) /\ RightQueue(r)
  BY DEF TypeOK, KeyInv
<1>2. Len(queue[r]) \in Nat \ {0}
  BY <1>1, EmptySeq, LenProperties
<1>3. Head(queue[r]) = queue[r][1]
  <2>1. 2 \in 2..(Len(queue[r]) + 1)
    BY <1>2
  <2> QED
    BY <1>1, <2>1, TailKeeps
<1>4. Fits(r, Head(queue[r]).node, 1)
  BY <1>1, <1>2, <1>3 DEF RightQueue
<1> QED
  BY <1>4 DEF Fits, Reaches

-----------------------------------------------------------------------------
(* A view has its shell.                                                   *)

\* Renderer r has a live shell for n, or its last one has ended.
HasShell(r, n) ==
  r \in ended \/ (activeTerminalProcess # None /\ shell[activeTerminalProcess] = Process(n, r, "live"))

\* It will have one when main has taken all its messages.
WillHave(r, n) ==
  \/ \E j \in 1..Len(queue[r]) :
       LastAt(queue[r], j, Len(queue[r]) + 1) /\ queue[r][j].kind = "open" /\ queue[r][j].node = n
  \/ NoneBefore(queue[r], Len(queue[r]) + 1) /\ HasShell(r, n)

ViewInv ==
  "shared" \notin mishaps => \A r \in Renderers : Shown(r) # None => WillHave(r, Shown(r))

LEMMA WillTake ==
  ASSUME TypeOK, NEW r \in Renderers, NEW kind, Take(r, kind), NEW n, WillHave(r, n),
         kind \notin {"open", "close"} /\ HasShell(r, n) => HasShell(r, n)',
         kind = "open" /\ Head(queue[r]).node = n => HasShell(r, n)'
  PROVE  WillHave(r, n)'
<1> DEFINE s == queue[r]
<1>1. s \in Seq(Message) /\ s # <<>> /\ Head(s).kind = kind /\ queue'[r] = Tail(s)
  BY TakeType
<1>2. PICK len \in Nat \ {0} : Len(s) = len
  BY <1>1, EmptySeq
<1>3. len + 1 \in 2..(Len(s) + 1) /\ (len + 1) - 1 = len /\ (len - 1) + 1 = len
  BY <1>2
<1>4. Head(s) = s[1] /\ Len(Tail(s)) = len - 1
  BY <1>1, <1>2, <1>3, TailKeeps
<1>5. CASE NoneBefore(s, len + 1) /\ HasShell(r, n)
  <2>1. NoneBefore(Tail(s), len) /\ kind \notin {"open", "close"}
    BY <1>1, <1>3, <1>5, TailKeeps DEF Control
  <2> QED
    BY <1>1, <1>3, <1>4, <1>5, <2>1 DEF WillHave
<1>6. ASSUME NEW j \in 1..len, LastAt(s, j, len + 1), s[j].kind = "open", s[j].node = n
      PROVE  WillHave(r, n)'
  <2>1. CASE j = 1
    <3>1. NoneBefore(Tail(s), len)
      BY <1>1, <1>3, <1>6, <2>1, TailKeeps
    <3>2. HasShell(r, n)'
      BY <1>1, <1>4, <1>6, <2>1
    <3> QED
      BY <1>1, <1>3, <1>4, <3>1, <3>2 DEF WillHave
  <2>2. CASE j # 1
    <3>1. LastAt(Tail(s), j - 1, len) /\ Tail(s)[j - 1] = s[j]
      BY <1>1, <1>3, <1>6, <2>2, TailKeeps
    <3>2. j - 1 \in 1..(len - 1)
      BY <2>2
    <3> QED
      BY <1>1, <1>3, <1>4, <1>6, <3>1, <3>2 DEF WillHave
  <2> QED
    BY <2>1, <2>2
<1> QED
  BY <1>2, <1>5, <1>6 DEF WillHave

LEMMA WillKeep ==
  ASSUME NEW r, NEW n, WillHave(r, n), queue'[r] = queue[r], HasShell(r, n) => HasShell(r, n)'
  PROVE  WillHave(r, n)'
BY DEF WillHave

\* Something that neither opens nor closes a shell is sent.
LEMMA WillOther ==
  ASSUME TypeOK, NEW r \in Renderers, NEW x \in Message, Send(r, <<x>>), ~Control(x),
         NEW n, WillHave(r, n), HasShell(r, n) => HasShell(r, n)'
  PROVE  WillHave(r, n)'
<1> DEFINE s == queue[r]
<1>1. <<x>> \in Seq(Message)
  OBVIOUS
<1>2. s \in Seq(Message) /\ queue'[r] = s \o <<x>>
  BY <1>1, SendType
<1>3. PICK len \in Nat : Len(s) = len
  BY <1>2, LenProperties
<1>4. Len(queue'[r]) = len + 1 /\ (len + 1) + 1 = Len(s) + 2
  BY <1>2, <1>3, ConcatOther
<1>5. CASE NoneBefore(s, len + 1) /\ HasShell(r, n)
  <2>1. NoneBefore(queue'[r], (len + 1) + 1)
    BY <1>2, <1>3, <1>4, <1>5, ConcatOther
  <2> QED
    BY <1>4, <1>5, <2>1 DEF WillHave
<1>6. ASSUME NEW j \in 1..len, LastAt(s, j, len + 1), s[j].kind = "open", s[j].node = n
      PROVE  WillHave(r, n)'
  <2>1. \A i : LastAt(s, i, Len(s) + 1) =>
          LastAt(s \o <<x>>, i, Len(s) + 2) /\ (s \o <<x>>)[i] = s[i]
    BY <1>2, ConcatOther
  <2>2. LastAt(queue'[r], j, (len + 1) + 1) /\ queue'[r][j] = s[j]
    BY <1>2, <1>3, <1>4, <1>6, <2>1
  <2>3. j \in 1..(len + 1)
    OBVIOUS
  <2> QED
    BY <1>4, <1>6, <2>2, <2>3 DEF WillHave
<1> QED
  BY <1>3, <1>5, <1>6 DEF WillHave

\* Messages are sent of which the last opens a shell for n.
LEMMA WillOpen ==
  ASSUME TypeOK, NEW r \in Renderers, NEW m \in Seq(Message), Send(r, m), m # <<>>,
         m[Len(m)].kind = "open", NEW n, m[Len(m)].node = n
  PROVE  WillHave(r, n)'
<1>1. queue[r] \in Seq(Message) /\ queue'[r] = queue[r] \o m
  BY SendType
<1>2. PICK new \in Nat : new = Len(queue'[r])
  BY <1>1, ConcatProperties, LenProperties
<1>3. LastAt(queue'[r], new, new + 1) /\ queue'[r][new] = m[Len(m)]
  BY <1>1, <1>2, ConcatControl DEF Control
<1>4. new \in 1..new
  BY <1>3 DEF LastAt
<1> QED
  BY <1>2, <1>3, <1>4 DEF WillHave

\* Killing a shell is noted as the end of its view's last one.
LEMMA KillHas ==
  ASSUME TypeOK, NEW ps \in SUBSET Shells, shell' = Kill(ps), NEW r, NEW n, HasShell(r, n),
         ended' = ended \cup Callers(ps), activeTerminalProcess \notin ps => UNCHANGED activeTerminalProcess
  PROVE  HasShell(r, n)'
<1>1. CASE r \in ended
  BY <1>1 DEF HasShell
<1>2. CASE activeTerminalProcess # None /\ shell[activeTerminalProcess] = Process(n, r, "live")
  <2>1. activeTerminalProcess \in Shells /\ shell[activeTerminalProcess] # None
    BY <1>2 DEF TypeOK
  <2>2. CASE activeTerminalProcess \in ps
    <3>1. Live(activeTerminalProcess) /\ shell[activeTerminalProcess].caller = r
      BY <1>2, <2>1 DEF Live, Process
    <3> QED
      BY <2>2, <3>1 DEF Callers, HasShell
  <2>3. CASE activeTerminalProcess \notin ps
    BY <1>2, <2>1, <2>3 DEF Kill, HasShell
  <2> QED
    BY <2>2, <2>3
<1> QED
  BY <1>1, <1>2 DEF HasShell

LEMMA ViewStepInv == TypeOK /\ AloneInv /\ ViewInv /\ [Next]_vars => ViewInv'
<1> SUFFICES ASSUME TypeOK, AloneInv, ViewInv, [Next]_vars, "shared" \notin mishaps',
                    NEW r \in Renderers, Shown(r)' # None
             PROVE  WillHave(r, Shown(r))'
  BY DEF ViewInv
<1> USE AttackerAssumption, RendererAssumption DEF lab, views, terminals, ghost
<1>t. App \in Renderers /\ Windows \subseteq Renderers /\ \A w \in Windows : w # App
  BY DEF Renderers
<1>m. "shared" \notin mishaps
  BY DEF Next, ViewStep, ShellStep, LabStep, OpenModal, CloseModal, ClickTerminal,
     OpenTerminalWindow, WindowLoads, CloseWindow, Type, Paste, PasteRead, TerminalOpen,
     TerminalWrite, TerminalClose, ShellEnds, ShellClosed, StartLab, ClickStop, StopBegins,
     StopEnds, NoteShared, vars
<1>p. PICK shown : shown = Shown(r)'
  OBVIOUS
<1>h. UNCHANGED <<terminals, ended>> => (HasShell(r, shown) => HasShell(r, shown)')
  BY DEF HasShell
<1>w. WillHave(r, shown)' => WillHave(r, Shown(r))'
  BY <1>p DEF WillHave, HasShell
<1>i. Shown(r) = shown => WillHave(r, shown)
  BY <1>m, <1>p DEF ViewInv
<1>k. Shown(r) = shown /\ queue'[r] = queue[r] /\ (HasShell(r, shown) => HasShell(r, shown)')
        => WillHave(r, shown)'
  BY <1>i, WillKeep
<1>a. \A q \in Renderers : OnItsWay(q) /\ Shown(r) # None => r = q
  BY <1>m, BusyDef DEF AloneInv
<1>1. ASSUME NEW n \in Attackers, OpenModal(n) PROVE WillHave(r, shown)'
  <2> DEFINE m == IF doubleMount THEN <<Msg("open", n), Msg("close", n), Msg("open", n)>>
                                 ELSE <<Msg("open", n)>>
  <2>1. m \in Seq(Message) /\ Send(App, m)
    BY <1>1, Messages DEF OpenModal
  <2>2. m # <<>> /\ m[Len(m)] = Msg("open", n)
    OBVIOUS
  <2>3. m[Len(m)].kind = "open" /\ m[Len(m)].node = n
    BY <2>2 DEF Msg
  <2>4. Shown(App)' = n /\ UNCHANGED <<terminals, ended, window>>
    BY <1>1 DEF OpenModal, Shown
  <2> HIDE DEF m
  <2>5. CASE r = App
    BY <1>t, <1>p, <2>1, <2>2, <2>3, <2>4, <2>5, WillOpen
  <2>6. CASE r # App
    <3>1. queue'[r] = queue[r] /\ Shown(r) = shown
      BY <1>t, <1>p, <2>1, <2>4, <2>6, SendType DEF Shown
    <3> QED
      BY <1>h, <1>k, <2>4, <3>1
  <2> QED
    BY <2>5, <2>6
<1>2. ASSUME CloseModal \/ ClickStop PROVE WillHave(r, shown)'
  <2>1. modal' = None /\ UNCHANGED <<terminals, ended, window>> /\ \E m : Send(App, m)
    BY <1>2 DEF CloseModal, ClickStop
  <2>2. r # App /\ Shown(r) = shown /\ queue'[r] = queue[r]
    BY <1>p, <1>t, <2>1 DEF Shown, Send, TypeOK
  <2> QED
    BY <1>h, <1>k, <2>1, <2>2
<1>3. ASSUME ClickTerminal PROVE WillHave(r, shown)'
  <2> DEFINE x == Msg("window", FirstAttacker)
  <2>1. x \in Message /\ Send(App, <<x>>) /\ ~Control(x)
    BY <1>3 DEF ClickTerminal, Msg, Message, Control
  <2>2. UNCHANGED <<terminals, ended, views>> /\ <<x>> \in Seq(Message)
    BY <1>3, <2>1 DEF ClickTerminal
  <2> HIDE DEF x
  <2>3. Shown(r) = shown
    BY <1>p, <2>2 DEF Shown
  <2>4. CASE r = App
    BY <1>t, <1>h, <1>i, <2>1, <2>2, <2>3, <2>4, WillOther
  <2>5. CASE r # App
    BY <1>t, <1>h, <1>k, <2>1, <2>2, <2>3, <2>5, SendType
  <2> QED
    BY <2>4, <2>5
<1>v. ASSUME NEW q \in Renderers, NEW kind, Take(q, kind), Shown(r) = shown,
             kind \notin {"open", "close"} => (HasShell(r, shown) => HasShell(r, shown)'),
             kind \in {"open", "close"} => r = q,
             kind = "open" => (Head(queue[q]).node = shown => HasShell(r, shown)')
      PROVE  WillHave(r, shown)'
  <2>1. CASE r = q
    <3>1. kind \notin {"open", "close"} /\ HasShell(r, shown) => HasShell(r, shown)'
      BY <1>v
    <3>2. kind = "open" /\ Head(queue[r]).node = shown => HasShell(r, shown)'
      BY <1>v, <2>1
    <3> QED
      BY <1>i, <1>v, <2>1, <3>1, <3>2, WillTake
  <2>2. CASE r # q
    BY <1>k, <1>v, <2>2, TakeType
  <2> QED
    BY <2>1, <2>2
<1>4. ASSUME OpenTerminalWindow PROVE WillHave(r, shown)'
  <2>1. Take(App, "window") /\ UNCHANGED <<terminals, ended, modal>>
    BY <1>4 DEF OpenTerminalWindow
  <2>2. Shown(r) = shown
    BY <1>4, <1>p DEF OpenTerminalWindow, Shown, TypeOK, Renderers
  <2> QED
    BY <1>t, <1>h, <1>v, <2>1, <2>2
<1>5. ASSUME NEW w \in Windows, WindowLoads(w) PROVE WillHave(r, shown)'
  <2> DEFINE m == <<Msg("open", FirstAttacker)>>
  <2>1. m \in Seq(Message) /\ Send(w, m)
    BY <1>5, Messages DEF WindowLoads
  <2>2. m # <<>> /\ m[Len(m)].kind = "open" /\ m[Len(m)].node = FirstAttacker
    BY DEF Msg
  <2>3. UNCHANGED <<terminals, ended, modal>>
    BY <1>5 DEF WindowLoads
  <2> HIDE DEF m
  <2>4. CASE r = w
    <3>1. shown = FirstAttacker
      BY <1>5, <1>p, <1>t, <2>4 DEF WindowLoads, Shown, TypeOK
    <3> QED
      BY <1>t, <2>1, <2>2, <2>4, <3>1, WillOpen
  <2>5. CASE r # w
    <3>1. queue'[r] = queue[r]
      BY <1>t, <2>1, <2>5, SendType
    <3>2. Shown(r) = shown
      BY <1>5, <1>p, <2>5 DEF WindowLoads, Shown, TypeOK, Renderers
    <3> QED
      BY <1>h, <1>k, <2>3, <3>1, <3>2
  <2> QED
    BY <2>4, <2>5
<1>6. ASSUME NEW w \in Windows, CloseWindow(w) PROVE WillHave(r, shown)'
  <2>1. r # w /\ Shown(r) = shown
    BY <1>6, <1>p, <1>t DEF CloseWindow, Shown, TypeOK, Renderers
  <2>2. queue'[r] = queue[r] /\ UNCHANGED <<terminals, ended>>
    BY <1>6, <2>1 DEF CloseWindow, Send, TypeOK
  <2> QED
    BY <1>h, <1>k, <2>1, <2>2
<1>7. ASSUME NEW q \in Renderers, Type(q) \/ PasteRead(q) PROVE WillHave(r, shown)'
  <2>1. PICK x \in Message : Send(q, <<x>>) /\ ~Control(x)
    <3>1. CASE Type(q)
      <4>1. Shown(q) \in Attackers
        BY <3>1 DEF Type, Shown, TypeOK, Renderers
      <4>2. Msg("write", Shown(q)) \in Message /\ ~Control(Msg("write", Shown(q)))
        BY <4>1 DEF Msg, Message, Control
      <4> QED
        BY <3>1, <4>2 DEF Type
    <3>2. CASE PasteRead(q)
      <4>1. pasting[q] \in Attackers
        BY <3>2 DEF PasteRead, TypeOK
      <4>2. Msg("write", pasting[q]) \in Message /\ ~Control(Msg("write", pasting[q]))
        BY <4>1 DEF Msg, Message, Control
      <4> QED
        BY <3>2, <4>2 DEF PasteRead
    <3> QED
      BY <1>7, <3>1, <3>2
  <2>2. UNCHANGED <<terminals, ended, views>> /\ <<x>> \in Seq(Message)
    BY <1>7, <2>1 DEF Type, PasteRead
  <2>3. Shown(r) = shown
    BY <1>p, <2>2 DEF Shown
  <2>4. CASE r = q
    BY <1>h, <1>i, <2>1, <2>2, <2>3, <2>4, WillOther
  <2>5. CASE r # q
    BY <1>h, <1>k, <2>1, <2>2, <2>3, <2>5, SendType
  <2> QED
    BY <2>4, <2>5
<1>8. ASSUME (\E q \in Renderers : Paste(q)) \/ UNCHANGED vars PROVE WillHave(r, shown)'
  <2>1. UNCHANGED <<terminals, ended, views, queue>>
    BY <1>8 DEF Paste, vars
  <2> QED
    BY <1>h, <1>k, <1>p, <2>1 DEF Shown
<1>9. ASSUME NEW q \in Renderers, TerminalOpen(q) PROVE WillHave(r, shown)'
  <2>1. Take(q, "open") /\ UNCHANGED views /\ NoteOpened(q)
    BY <1>9 DEF TerminalOpen
  <2>2. Shown(r) = shown
    BY <1>p, <2>1 DEF Shown
  <2>3. r = q
    BY <1>a, <1>p, <2>1, <2>2, TakeOnItsWay
  <2>4. Head(queue[q]).node = shown => HasShell(r, shown)'
    <3>1. CASE project
      <4>1. PICK p \in Shells : /\ shell' = [Kill({activeTerminalProcess}) EXCEPT ![p] = New(q)]
                                /\ activeTerminalProcess' = p
        BY <1>9 DEF TerminalOpen
      <4>2. shell'[p] = New(q)
        BY <4>1, KillType
      <4> QED
        BY <2>3, <3>1, <4>1, <4>2 DEF HasShell, New
    <3>2. CASE ~project
      BY <2>1, <2>3, <3>2 DEF NoteOpened, HasShell
    <3> QED
      BY <3>1, <3>2
  <2> QED
    BY <1>v, <2>1, <2>2, <2>3, <2>4
<1>10. ASSUME NEW q \in Renderers, TerminalWrite(q) PROVE WillHave(r, shown)'
  <2>1. Take(q, "write") /\ UNCHANGED <<terminals, ended, views>>
    BY <1>10 DEF TerminalWrite
  <2> QED
    BY <1>h, <1>p, <1>v, <2>1 DEF Shown
<1>11. ASSUME NEW q \in Renderers, TerminalClose(q) PROVE WillHave(r, shown)'
  <2>1. Take(q, "close") /\ UNCHANGED views
    BY <1>11 DEF TerminalClose
  <2>2. Shown(r) = shown
    BY <1>p, <2>1 DEF Shown
  <2>3. r = q
    BY <1>a, <1>p, <2>1, <2>2, TakeOnItsWay
  <2> QED
    BY <1>v, <2>1, <2>2, <2>3
<1>12. ASSUME StartLab \/ StopEnds \/ (\E p \in Shells : ShellEnds(p) \/ ShellClosed(p))
       PROVE  WillHave(r, shown)'
  <2>1. UNCHANGED <<views, queue>>
    BY <1>12 DEF StartLab, StopEnds, ShellEnds, ShellClosed
  <2>2. HasShell(r, shown) => HasShell(r, shown)'
    <3>1. CASE UNCHANGED <<terminals, ended>>
      BY <1>h, <3>1
    <3>2. ASSUME NEW ps \in SUBSET Shells, shell' = Kill(ps), ended' = ended \cup Callers(ps),
                 UNCHANGED activeTerminalProcess
          PROVE  HasShell(r, shown) => HasShell(r, shown)'
      BY <3>2, KillHas
    <3>3. ASSUME NEW p \in Shells, ShellClosed(p)
          PROVE  HasShell(r, shown) => HasShell(r, shown)'
      BY <3>3, ProcessAssumption DEF ShellClosed, HasShell, Live, Process, TypeOK
    <3> QED
      BY <1>12, <3>1, <3>2, <3>3 DEF StartLab, StopEnds, ShellEnds
  <2> QED
    BY <1>k, <1>p, <2>1, <2>2 DEF Shown
<1>13. ASSUME StopBegins PROVE WillHave(r, shown)'
  <2>1. Take(App, "stop") /\ UNCHANGED views
    BY <1>13 DEF StopBegins
  <2>2. HasShell(r, shown) => HasShell(r, shown)'
    <3>1. CASE project
      <4> DEFINE ps == {activeTerminalProcess} \cap Shells
      <4>1. shell' = Kill(ps) /\ ended' = ended \cup Callers(ps)
        BY <1>13, <3>1 DEF StopBegins, Kill
      <4>2. activeTerminalProcess \notin ps => UNCHANGED activeTerminalProcess
        BY <1>13, <3>1 DEF StopBegins, TypeOK
      <4> HIDE DEF ps
      <4>3. ps \in SUBSET Shells
        BY DEF ps
      <4> QED
        BY <4>1, <4>2, <4>3, KillHas
    <3>2. CASE ~project
      BY <1>13, <1>h, <3>2 DEF StopBegins
    <3> QED
      BY <3>1, <3>2
  <2>3. Shown(r) = shown
    BY <1>p, <2>1 DEF Shown
  <2> QED
    BY <1>t, <1>v, <2>1, <2>2, <2>3
<1> QED
  BY <1>w, <1>1, <1>2, <1>3, <1>4, <1>5, <1>6, <1>7, <1>8, <1>9, <1>10, <1>11, <1>12, <1>13
     DEF Next, ViewStep, ShellStep, LabStep

LEMMA ViewInvHas == TypeOK /\ ViewInv => ViewHasShell
<1> SUFFICES ASSUME TypeOK, ViewInv, "shared" \notin mishaps, NEW r \in Renderers,
                    Shown(r) # None, queue[r] = <<>>, r \notin ended
             PROVE  /\ activeTerminalProcess # None
                    /\ shell[activeTerminalProcess] = Process(Shown(r), r, "live")
  BY DEF ViewHasShell
<1>1. WillHave(r, Shown(r)) /\ Len(queue[r]) = 0
  BY DEF ViewInv
<1>2. ~\E j \in 1..Len(queue[r]) : TRUE
  BY <1>1
<1> QED
  BY <1>1, <1>2 DEF WillHave, HasShell

-----------------------------------------------------------------------------
(* The invariant.                                                          *)

IInv == TypeOK /\ OneShell /\ AloneInv /\ KeyInv /\ ViewInv

LEMMA IInvAlways == Spec => []IInv
<1> USE AttackerAssumption, RendererAssumption
<1>1. Init => IInv
  <2> SUFFICES ASSUME Init PROVE IInv
    OBVIOUS
  <2>1. TypeOK
    <3>1. queue \in [Renderers -> Seq(Message)]
      BY DEF Init
    <3>2. ended \subseteq Renderers /\ mishaps \subseteq Mishaps
      BY DEF Init
    <3> QED
      BY <3>1, <3>2 DEF Init, TypeOK
  <2>o. OneShell
    BY DEF Init, OneShell, Live
  <2>2. \A r \in Renderers : Shown(r) = None /\ pasting[r] = None /\ queue[r] = <<>>
    BY DEF Init, Shown, Renderers
  <2>3. \A r \in Renderers : ~Busy(r)
    BY <2>2 DEF Busy, Init, Renderers
  <2>4. \A r \in Renderers : RightQueue(r)
    BY <2>2 DEF RightQueue
  <2> QED
    BY <2>1, <2>o, <2>2, <2>3, <2>4 DEF IInv, AloneInv, KeyInv, ViewInv
<1>2. IInv /\ [Next]_vars => IInv'
  BY TypeStep, OneShellStep, AloneStep, RightStep, ViewStepInv DEF IInv
<1> QED
  BY <1>1, <1>2, PTL DEF Spec

-----------------------------------------------------------------------------
\* Every variable keeps to its type, and the process main has the handle of is
\* there.
THEOREM TypeCorrect == Spec => []TypeOK
<1>1. IInv => TypeOK
  BY DEF IInv
<1> QED
  BY <1>1, IInvAlways, PTL

\* No shell is alive without a handle in main (terminal:open kills the one
\* before, and its close event does not clear the handle of the next).
THEOREM OneShellAlways == Spec => []OneShell
<1>1. IInv => OneShell
  BY DEF IInv
<1> QED
  BY <1>1, IInvAlways, PTL

\* With one view at a time, a key reaches the shell of the view and device it
\* was typed for, or none (terminal:write).
THEOREM OwnKeystrokesAlways == Spec => []OwnKeystrokes
<1>1. IInv => OwnKeystrokes
  BY KeyInvOwn DEF IInv
<1> QED
  BY <1>1, IInvAlways, PTL

\* With one view at a time, a view main has caught up with has the shell of its
\* device, unless that has ended (terminal:open, terminal:close).
THEOREM ViewHasShellAlways == Spec => []ViewHasShell
<1>1. IInv => ViewHasShell
  BY ViewInvHas DEF IInv
<1> QED
  BY <1>1, IInvAlways, PTL

=============================================================================
