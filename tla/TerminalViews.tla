----------------------------- MODULE TerminalViews -----------------------------
(***************************************************************************)
(* The shell in an attack machine: terminal:open, write and close of       *)
(* main/index.ts, and its two views, the modal of the main window          *)
(* (AttackTerminalModal.tsx) and a terminal window of its own              *)
(* (attack:openTerminalWindow, attack-terminal.ts).  There is one shell at *)
(* a time for both.                                                        *)
(*                                                                         *)
(* A renderer's messages reach main in the order they were sent; nothing   *)
(* orders those of two renderers.  Start and stop of the lab are short     *)
(* here: SimLifecycle has their stretches.                                 *)
(***************************************************************************)
EXTENDS Naturals, Sequences

CONSTANTS Attackers,      \* attack machines of the lab
          FirstAttacker,  \* the one the toolbar's button opens
          Shells,         \* bound: docker exec processes not yet closed
          Windows,        \* bound: terminal windows, and closed ones with messages on their way
          MaxQueue,       \* bound: messages on their way from a renderer
          App,            \* renderer of the main window
          None

ASSUME AttackerAssumption == FirstAttacker \in Attackers /\ None \notin Attackers
ASSUME RendererAssumption == App \notin Windows /\ None \notin Windows \cup Shells
ASSUME BoundAssumption == MaxQueue \in Nat

VARIABLES
  doubleMount,     \* React.StrictMode mounts twice: a development build
  status,          \* simStatus of the renderer: idle, running or stopping
  project,         \* activeProjectName is set
  down,            \* simulation:stop awaits stopScenario
  modal,           \* attackTerminalDevice
  window,          \* page of each terminal window: closed, loading or loaded
  terminalWindow,
  queue,           \* per renderer: its messages on their way to main
  pasting,         \* per renderer: device of the view whose paste awaits the clipboard
  shell,           \* each process of terminal:open that has not closed, or None
  activeTerminalProcess,
  ended,           \* history: renderers whose last shell has ended by itself or with the lab
  mishaps          \* history: what has gone wrong so far (Mishaps below)

lab       == <<doubleMount, status, project, down>>
views     == <<modal, window, terminalWindow>>
terminals == <<shell, activeTerminalProcess>>
ghost     == <<ended, mishaps>>
vars      == <<lab, views, queue, pasting, terminals, ghost>>

Renderers == {App} \cup Windows

\* shared: a view was opened beside another, or before the other's last
\* messages had reached main;
\* latePaste: the clipboard was read for a view that shows another device by now.
Mishaps == {"shared", "latePaste"}

Message == [kind : {"open", "write", "close", "window"}, node : Attackers] \cup
           [kind : {"stop"}, node : {None}]
Msg(kind, n) == [kind |-> kind, node |-> n]

Shown(r) ==
  IF r = App THEN modal ELSE IF window[r] = "loaded" THEN FirstAttacker ELSE None

\* Renderer r has a view, or had one whose messages have not reached main.
Busy(r) ==
  \/ Shown(r) # None \/ pasting[r] # None
  \/ r # App /\ window[r] = "loading"
  \/ \E k \in DOMAIN queue[r] : queue[r][k].kind \in {"open", "write", "close"}
NoteShared(r) ==
  mishaps' = mishaps \cup (IF \E q \in Renderers \ {r} : Busy(q) THEN {"shared"} ELSE {})

Init ==
  /\ doubleMount \in BOOLEAN
  /\ status = "idle" /\ project = FALSE /\ down = FALSE
  /\ modal = None /\ window = [w \in Windows |-> "closed"] /\ terminalWindow = None
  /\ queue = [r \in Renderers |-> <<>>] /\ pasting = [r \in Renderers |-> None]
  /\ shell = [p \in Shells |-> None] /\ activeTerminalProcess = None
  /\ ended = {} /\ mishaps = {}

Send(r, messages) == queue' = [queue EXCEPT ![r] = @ \o messages]
Room(r, n) == Len(queue[r]) + n <= MaxQueue
\* Main takes the next message of r.
Take(r, kind) ==
  /\ queue[r] # <<>> /\ Head(queue[r]).kind = kind
  /\ queue' = [queue EXCEPT ![r] = Tail(@)]

Process(n, r, state) == [node |-> n, caller |-> r, state |-> state]
Processes == [node : Attackers, caller : Renderers, state : {"live", "dying"}]
ASSUME ProcessAssumption == None \notin Processes

Live(p) == shell[p] # None /\ shell[p].state = "live"
Killed(p) == IF shell[p] = None THEN None ELSE [shell[p] EXCEPT !.state = "dying"]
\* The processes of ps end; their close events come later.
Kill(ps) == [p \in Shells |-> IF p \in ps THEN Killed(p) ELSE shell[p]]
Callers(ps) == {shell[p].caller : p \in {q \in ps : Live(q)}}

-----------------------------------------------------------------------------
(* Views.                                                                  *)

\* Mutant of OpenModal: the cleanup of the first mount runs after the second.
OpenModalLate(n) ==
  /\ status = "running" /\ modal = None /\ Room(App, 3)
  /\ modal' = n
  /\ Send(App, IF doubleMount THEN <<Msg("open", n), Msg("open", n), Msg("close", n)>>
                              ELSE <<Msg("open", n)>>)
  /\ NoteShared(App)
  /\ UNCHANGED <<lab, window, terminalWindow, pasting, terminals, ended>>

\* Open Attack Terminal, in the properties of an attack machine.
OpenModal(n) ==
  /\ status = "running" /\ modal = None /\ Room(App, 3)
  /\ modal' = n
  /\ Send(App, IF doubleMount THEN <<Msg("open", n), Msg("close", n), Msg("open", n)>>
                              ELSE <<Msg("open", n)>>)
  /\ NoteShared(App)
  /\ UNCHANGED <<lab, window, terminalWindow, pasting, terminals, ended>>

\* Closed by the user: the effect's cleanup.
CloseModal ==
  /\ modal # None /\ Room(App, 1)
  /\ modal' = None /\ Send(App, <<Msg("close", modal)>>)
  /\ UNCHANGED <<lab, window, terminalWindow, pasting, terminals, ghost>>

\* Kali Terminal, in the toolbar.
ClickTerminal ==
  /\ status = "running" /\ Room(App, 1)
  /\ Send(App, <<Msg("window", FirstAttacker)>>)
  /\ UNCHANGED <<lab, views, pasting, terminals, ghost>>

\* An open window is only brought to the front.
OpenTerminalWindow ==
  /\ Take(App, "window")
  /\ IF project /\ terminalWindow = None
       THEN \E w \in Windows :
              /\ window[w] = "closed" /\ queue[w] = <<>>
              /\ window' = [window EXCEPT ![w] = "loading"] /\ terminalWindow' = w
              /\ NoteShared(w)
       ELSE UNCHANGED <<window, terminalWindow, mishaps>>
  /\ UNCHANGED <<lab, modal, pasting, terminals, ended>>

\* The page of a terminal window runs.
WindowLoads(w) ==
  /\ window[w] = "loading"
  /\ window' = [window EXCEPT ![w] = "loaded"]
  /\ Send(w, <<Msg("open", FirstAttacker)>>)
  /\ UNCHANGED <<lab, modal, terminalWindow, pasting, terminals, ghost>>

\* beforeunload, whose message may be lost with the page, and the closed event.
CloseWindow(w) ==
  /\ window[w] # "closed"
  /\ window' = [window EXCEPT ![w] = "closed"] /\ terminalWindow' = None
  /\ \/ window[w] = "loaded" /\ Send(w, <<Msg("close", FirstAttacker)>>)
     \/ queue' = [queue EXCEPT ![w] = <<>>]
  /\ pasting' = [pasting EXCEPT ![w] = None]
  /\ UNCHANGED <<lab, modal, terminals, ghost>>

\* A key is typed into the view of r.
Type(r) ==
  /\ Shown(r) # None /\ Room(r, 1)
  /\ Send(r, <<Msg("write", Shown(r))>>)
  /\ UNCHANGED <<lab, views, pasting, terminals, ghost>>

\* Ctrl+V asks main for the clipboard.
Paste(r) ==
  /\ Shown(r) # None /\ pasting[r] = None
  /\ pasting' = [pasting EXCEPT ![r] = Shown(r)]
  /\ UNCHANGED <<lab, views, queue, terminals, ghost>>

\* The answer: its text is written, whatever has become of the view.
PasteRead(r) ==
  /\ pasting[r] # None /\ Room(r, 1)
  /\ Send(r, <<Msg("write", pasting[r])>>)
  /\ pasting' = [pasting EXCEPT ![r] = None]
  /\ mishaps' = mishaps \cup (IF Shown(r) \in {None, pasting[r]} THEN {} ELSE {"latePaste"})
  /\ UNCHANGED <<lab, views, terminals, ended>>

-----------------------------------------------------------------------------
(* The one shell.                                                          *)

\* Without a lab, docker exec finds no container.
New(r) == Process(Head(queue[r]).node, r, IF project THEN "live" ELSE "dying")
NoteOpened(r) == ended' = IF project THEN ended \ {r} ELSE ended \cup {r}

\* Mutant of TerminalOpen: a shell that is still there is used again.
TerminalOpenReuses(r) ==
  /\ Take(r, "open")
  /\ IF activeTerminalProcess # None
       THEN UNCHANGED terminals
       ELSE \E p \in Shells : /\ shell[p] = None /\ shell' = [shell EXCEPT ![p] = New(r)]
                              /\ activeTerminalProcess' = p
  /\ NoteOpened(r)
  /\ UNCHANGED <<lab, views, pasting, mishaps>>

\* The one before is killed.
TerminalOpen(r) ==
  /\ Take(r, "open")
  /\ \E p \in Shells :
       /\ shell[p] = None
       /\ shell' = [Kill({activeTerminalProcess}) EXCEPT ![p] = New(r)]
       /\ activeTerminalProcess' = p
  /\ NoteOpened(r)
  /\ UNCHANGED <<lab, views, pasting, mishaps>>

\* To whichever process is the active one, if any.
TerminalWrite(r) ==
  /\ Take(r, "write")
  /\ UNCHANGED <<lab, views, pasting, terminals, ghost>>

TerminalClose(r) ==
  /\ Take(r, "close")
  /\ shell' = Kill({activeTerminalProcess}) /\ activeTerminalProcess' = None
  /\ UNCHANGED <<lab, views, pasting, ghost>>

\* exit, or the container is not ready or gone.
ShellEnds(p) ==
  /\ Live(p)
  /\ shell' = Kill({p}) /\ ended' = ended \cup Callers({p})
  /\ UNCHANGED <<lab, views, queue, pasting, activeTerminalProcess, mishaps>>

\* Mutant of ShellClosed: the handler does not ask whose event it is.
ShellClosedAny(p) ==
  /\ shell[p] # None /\ ~Live(p)
  /\ shell' = [shell EXCEPT ![p] = None]
  /\ activeTerminalProcess' = None
  /\ UNCHANGED <<lab, views, queue, pasting, ghost>>

\* Mutant of ShellClosed: main keeps the handle.
ShellClosedKeeps(p) ==
  /\ shell[p] # None /\ ~Live(p)
  /\ shell' = [shell EXCEPT ![p] = None]
  /\ UNCHANGED <<lab, views, queue, pasting, activeTerminalProcess, ghost>>

\* The close event of a process.
ShellClosed(p) ==
  /\ shell[p] # None /\ ~Live(p)
  /\ shell' = [shell EXCEPT ![p] = None]
  /\ activeTerminalProcess' = IF activeTerminalProcess = p THEN None ELSE activeTerminalProcess
  /\ UNCHANGED <<lab, views, queue, pasting, ghost>>

-----------------------------------------------------------------------------
(* The lab.                                                                *)

\* A start that succeeds; it first clears down what a failed stop has left.
StartLab ==
  /\ status = "idle"
  /\ status' = "running" /\ project' = TRUE
  /\ shell' = Kill(Shells) /\ ended' = ended \cup Callers(Shells)
  /\ UNCHANGED <<doubleMount, down, views, queue, pasting, activeTerminalProcess, mishaps>>

\* Stop, and the effect that closes the modal.
ClickStop ==
  /\ status = "running" /\ Room(App, 2)
  /\ status' = "stopping" /\ modal' = None
  /\ Send(App, IF modal = None THEN <<Msg("stop", None)>>
                               ELSE <<Msg("stop", None), Msg("close", modal)>>)
  /\ UNCHANGED <<doubleMount, project, down, window, terminalWindow, pasting, terminals, ghost>>

\* The shell is killed before the containers are removed.
StopBegins ==
  /\ Take(App, "stop")
  /\ IF project
       THEN /\ shell' = Kill({activeTerminalProcess}) /\ activeTerminalProcess' = None
            /\ ended' = ended \cup Callers({activeTerminalProcess} \cap Shells)
            /\ down' = TRUE /\ UNCHANGED status
       ELSE status' = "idle" /\ UNCHANGED <<terminals, ended, down>>
  /\ UNCHANGED <<doubleMount, project, views, pasting, mishaps>>

\* stopScenario and the answer: every container is gone, or it has failed.
StopEnds ==
  /\ down /\ down' = FALSE /\ status' = "idle"
  /\ \/ /\ project' = FALSE /\ shell' = Kill(Shells)
        /\ ended' = ended \cup Callers(Shells)
     \/ UNCHANGED <<project, shell, ended>>
  /\ UNCHANGED <<doubleMount, views, queue, pasting, activeTerminalProcess, mishaps>>

-----------------------------------------------------------------------------
ViewStep ==
  \/ \E n \in Attackers : OpenModal(n)
  \/ CloseModal \/ ClickTerminal \/ OpenTerminalWindow
  \/ \E w \in Windows : WindowLoads(w) \/ CloseWindow(w)
  \/ \E r \in Renderers : Type(r) \/ Paste(r) \/ PasteRead(r)

ShellStep ==
  \/ \E r \in Renderers : TerminalOpen(r) \/ TerminalWrite(r) \/ TerminalClose(r)
  \/ \E p \in Shells : ShellEnds(p) \/ ShellClosed(p)

LabStep == StartLab \/ ClickStop \/ StopBegins \/ StopEnds

Next == ViewStep \/ ShellStep \/ LabStep

Spec == Init /\ [][Next]_vars

-----------------------------------------------------------------------------
\* What each variable may hold; the process main has the handle of is there.
TypeOK ==
  /\ doubleMount \in BOOLEAN /\ project \in BOOLEAN /\ down \in BOOLEAN
  /\ status \in {"idle", "running", "stopping"}
  /\ modal \in Attackers \cup {None}
  /\ window \in [Windows -> {"closed", "loading", "loaded"}]
  /\ terminalWindow \in Windows \cup {None}
  /\ queue \in [Renderers -> Seq(Message)]
  /\ pasting \in [Renderers -> Attackers \cup {None}]
  /\ shell \in [Shells -> Processes \cup {None}]
  /\ activeTerminalProcess \in {p \in Shells : shell[p] # None} \cup {None}
  /\ ended \subseteq Renderers /\ mishaps \subseteq Mishaps

\* There is never a shell alive that main has no handle of, whatever views meet
\* and however late the close events of killed ones come (terminal:open).
OneShell == \A p \in Shells : Live(p) => p = activeTerminalProcess

\* What is typed into one view at a time reaches the shell opened for that view
\* and device, or none, however views are closed and opened again.
OwnKeystrokes ==
  mishaps = {} =>
    \A r \in Renderers :
      queue[r] # <<>> /\ Head(queue[r]).kind = "write" /\ activeTerminalProcess # None =>
        /\ shell[activeTerminalProcess].caller = r
        /\ shell[activeTerminalProcess].node = Head(queue[r]).node

\* A view, one at a time, all of whose messages have reached main has the shell
\* of its device, unless that shell has ended by itself or with the lab.
ViewHasShell ==
  "shared" \notin mishaps =>
    \A r \in Renderers :
      Shown(r) # None /\ queue[r] = <<>> /\ r \notin ended =>
        /\ activeTerminalProcess # None
        /\ shell[activeTerminalProcess] = Process(Shown(r), r, "live")

=============================================================================
