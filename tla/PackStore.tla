------------------------------ MODULE PackStore ------------------------------
(***************************************************************************)
(* Scenario packs: pack:install, pack:list and pack:uninstall of           *)
(* main/index.ts over the directories <userData>/packs/<id>/, and the list *)
(* the Pack Manager shows (PackManagerModal.tsx, App.tsx).                 *)
(*                                                                         *)
(* A handler runs undisturbed from one await to the next; pc[c] names the  *)
(* stretch of request c that runs next.  A directory is represented by the *)
(* version each of its parts comes from; ids are of the form that         *)
(* pack:uninstall accepts.                                                 *)
(***************************************************************************)
EXTENDS Naturals

CONSTANTS Calls,       \* slots for requests in flight
          Packs,       \* pack ids
          Versions,
          Absent,      \* no such file, no such pack
          Left,        \* a staging directory nobody will remove
          Manifest,    \* pack.json
          Parts,       \* the files of a pack
          Content,     \* per version, the parts its archive has
          Describable, \* versions whose manifest lists its scenarios
          MaxClicks,   \* bound on requests
          MaxMishaps   \* bound on mishaps

ASSUME NullAssumption     == Absent \notin Versions \cup Packs /\ Left \notin Calls
ASSUME ContentAssumption  == /\ Manifest \in Parts
                             /\ Content \in [Versions -> SUBSET Parts]
                             /\ \A v \in Versions : Manifest \in Content[v]
ASSUME DescribeAssumption == Describable \subseteq Versions
ASSUME BoundAssumption    == MaxClicks \in Nat /\ MaxMishaps \in Nat

VARIABLES
  dir,       \* packs/<id>/: per part the version it comes from
  staging,   \* packs/_tmp_<time>/ directories, by the request that made them
  pc, pack, version, \* per request: next stretch, and what it is about
  todo,      \* per request: parts not extracted yet
  seen,      \* per request: the list its click handler was rendered with
  shown,     \* per request: its modal is still mounted
  listed,    \* installedPacks of App: per pack the version shown
  mount, entries, found, \* pack:list of the first render: stretch, directories
                         \* still to read, result so far
  answered,  \* history: the version main's last answer about a pack left there
  torn,      \* history: packs where something went wrong since the last
             \* undisturbed removal
  disturbed, \* history: requests of this session overlapped, or one failed
             \* after it had begun to change the disk
  clicks,    \* requests so far
  mishaps    \* failures of rm, killed commands and quits so far

disk     == <<dir, staging>>
requests == <<pc, pack, version, todo, seen, shown, clicks>>
listing  == <<mount, entries, found>>
ghost    == <<answered, torn, disturbed, mishaps>>
vars     == <<disk, requests, listed, listing, ghost>>

Shelf == [Packs -> Versions \cup {Absent}]
Bare == [p \in Packs |-> Absent]
Empty == [f \in Parts |-> Absent]
Only(parts, v) == [f \in Parts |-> IF f \in parts THEN v ELSE Absent]
Whole(v) == IF v = Absent THEN Empty ELSE Only(Content[v], v)

\* What pack:list makes of a directory: packs it cannot describe are skipped.
Listing(p) == IF dir[p][Manifest] \in Describable THEN dir[p][Manifest] ELSE Absent

Init ==
  /\ dir = [p \in Packs |-> Empty] /\ staging = {}
  /\ pc = [c \in Calls |-> "free"]
  /\ pack = [c \in Calls |-> Absent] /\ version = [c \in Calls |-> Absent]
  /\ todo = [c \in Calls |-> {}]
  /\ seen = [c \in Calls |-> Bare] /\ shown = [c \in Calls |-> FALSE]
  /\ listed = Bare
  /\ mount = "sent" /\ entries = {} /\ found = Bare
  /\ answered = Bare
  /\ torn = {} /\ disturbed = FALSE /\ clicks = 0 /\ mishaps = 0

\* The request is over, and its locals with it.
Over(c) ==
  /\ pc' = [pc EXCEPT ![c] = "free"]
  /\ pack' = [pack EXCEPT ![c] = Absent] /\ version' = [version EXCEPT ![c] = Absent]
  /\ seen' = [seen EXCEPT ![c] = Bare] /\ shown' = [shown EXCEPT ![c] = FALSE]
  /\ UNCHANGED <<todo, clicks>>

Goto(c, stretch) == pc' = [pc EXCEPT ![c] = stretch]
Mishap == mishaps < MaxMishaps /\ mishaps' = mishaps + 1
Disturb(b) == disturbed' = (disturbed \/ b)

Quiet == mount = "done" /\ \A c \in Calls : pc[c] = "free"

\* Requests between the removal of a pack's directory and their end.
Touches(c, p) == pack[c] = p /\ pc[c] \in {"unstage", "extract", "orphan", "undo"}
Alone(c) == \A d \in Calls \ {c} : ~Touches(d, pack[c])

-----------------------------------------------------------------------------
(* The Pack Manager.                                                       *)

\* The file picker is modal: no click while it is open.
Clickable == \A d \in Calls : pc[d] # "dialog"

Click(c) ==
  /\ Clickable /\ pc[c] = "free"
  /\ clicks < MaxClicks /\ clicks' = clicks + 1
  /\ seen' = [seen EXCEPT ![c] = listed]
  /\ shown' = [shown EXCEPT ![c] = TRUE]
  /\ Disturb(~Quiet)

\* The Install button is disabled while an install of this modal is under way.
ClickInstall(c) ==
  /\ Click(c)
  /\ \A d \in Calls : shown[d] => pc[d] \in {"free", "uninstall", "goneReply", "keptReply"}
  /\ Goto(c, "dialog")
  /\ UNCHANGED <<disk, pack, version, todo, listed, listing, answered, torn, mishaps>>

\* Each card's button is disabled while its uninstall is under way.
ClickUninstall(c, p) ==
  /\ Click(c)
  /\ listed[p] # Absent
  /\ \A d \in Calls : shown[d] /\ pack[d] = p => pc[d] \notin {"uninstall", "goneReply", "keptReply"}
  /\ Goto(c, "uninstall")
  /\ pack' = [pack EXCEPT ![c] = p]
  /\ UNCHANGED <<disk, version, todo, listed, listing, answered, torn, mishaps>>

\* The modal is closed and opened again: a new one, with both buttons enabled.
Reopen ==
  /\ Clickable
  /\ shown' = [c \in Calls |-> FALSE]
  /\ UNCHANGED <<disk, pc, pack, version, todo, seen, clicks, listed, listing, ghost>>

\* The list of the click, with the new pack or without the old one, replaces
\* what App shows, even when the modal is gone.
Answer(c, v) ==
  /\ listed' = [seen[c] EXCEPT ![pack[c]] = v]
  /\ Over(c)
  /\ UNCHANGED <<disk, listing, ghost>>

\* Mutant of InstallReply: only a pack that was listed is shown.
InstallReplyUpgrades(c) ==
  /\ pc[c] = "okReply"
  /\ Answer(c, IF seen[c][pack[c]] = Absent THEN Absent ELSE version[c])

\* Mutant of InstallReply: the pack's id where its version belongs.
InstallReplyNamed(c) == pc[c] = "okReply" /\ Answer(c, pack[c])

InstallReply(c)   == pc[c] = "okReply" /\ Answer(c, version[c])
UninstallReply(c) == pc[c] = "goneReply" /\ Answer(c, Absent)

\* An error, a refusal or a cancelled file picker: the list stays.
ErrorReply(c) ==
  /\ pc[c] \in {"errReply", "keptReply"}
  /\ Over(c)
  /\ UNCHANGED <<disk, listed, listing, ghost>>

-----------------------------------------------------------------------------
(* pack:install and pack:uninstall.                                        *)

\* The user cancels, or picks an archive; what is in it is found out later.
Choose(c) ==
  /\ pc[c] = "dialog"
  /\ \/ /\ Goto(c, "errReply")
        /\ UNCHANGED <<pack, version, staging>>
     \/ \E p \in Packs, v \in Versions :
          /\ pack' = [pack EXCEPT ![c] = p] /\ version' = [version EXCEPT ![c] = v]
          /\ staging' = staging \cup {c}
          /\ Goto(c, "stage")
  /\ UNCHANGED <<dir, todo, seen, shown, clicks, listed, listing, ghost>>

\* Extraction into the staging directory and the check of its pack.json.  A
\* corrupt archive or manifest ends here.
Stage(c) ==
  /\ pc[c] = "stage"
  /\ \E next \in {"clear", "reject"} : Goto(c, next)
  /\ UNCHANGED <<disk, pack, version, todo, seen, shown, clicks, listed, listing, ghost>>

\* rm of the staging directory, best effort.
Reject(c) ==
  /\ pc[c] = "reject"
  /\ Goto(c, "errReply")
  /\ \/ staging' = staging \ {c} /\ UNCHANGED <<mishaps, disturbed>>
     \/ Mishap /\ staging' = (staging \ {c}) \cup {Left} /\ Disturb(TRUE)
  /\ UNCHANGED <<dir, pack, version, todo, seen, shown, clicks, listed, listing, answered, torn>>

\* rm of the pack's directory.
Removed(c) ==
  /\ dir' = [dir EXCEPT ![pack[c]] = Empty]
  /\ answered' = [answered EXCEPT ![pack[c]] = Absent]
  /\ torn' = IF Alone(c) THEN torn \ {pack[c]} ELSE torn \cup {pack[c]}
  /\ UNCHANGED mishaps

RemoveFails(c) ==
  /\ Mishap
  /\ \E parts \in SUBSET Parts : dir' = [dir EXCEPT ![pack[c]] =
       [f \in Parts |-> IF f \in parts THEN @[f] ELSE Absent]]
  /\ torn' = torn \cup {pack[c]}
  /\ UNCHANGED answered

\* Mutant of Clear: the new version is extracted over the old one.
ClearNothing(c) ==
  /\ pc[c] = "clear"
  /\ Goto(c, "unstage")
  /\ UNCHANGED <<disk, pack, version, todo, seen, shown, clicks, listed, listing, ghost>>

\* The version installed makes way.  If it cannot, the staging directory is
\* not removed either.
Clear(c) ==
  /\ pc[c] = "clear"
  /\ \/ Removed(c) /\ Goto(c, "unstage") /\ UNCHANGED <<staging, disturbed>>
     \/ /\ RemoveFails(c) /\ Goto(c, "undo")
        /\ staging' = (staging \ {c}) \cup {Left}
        /\ Disturb(TRUE)
  /\ UNCHANGED <<pack, version, todo, seen, shown, clicks, listed, listing>>

\* rm of the staging directory, mkdir of the pack's, unzip starts again.
Unstage(c) ==
  /\ pc[c] = "unstage"
  /\ todo' = [todo EXCEPT ![c] = Content[version[c]]]
  /\ \/ staging' = staging \ {c} /\ Goto(c, "extract") /\ UNCHANGED <<mishaps, disturbed>>
     \/ /\ Mishap /\ staging' = (staging \ {c}) \cup {Left}
        /\ Goto(c, "undo") /\ Disturb(TRUE)
  /\ UNCHANGED <<dir, pack, version, seen, shown, clicks, listed, listing, answered, torn>>

\* unzip writes one more part, over what is there; it outlives the app.
Extract(c) ==
  /\ pc[c] \in {"extract", "orphan"}
  /\ \E f \in todo[c] :
       /\ dir' = [dir EXCEPT ![pack[c]][f] = version[c]]
       /\ todo' = [todo EXCEPT ![c] = @ \ {f}]
  /\ UNCHANGED <<staging, pc, pack, version, seen, shown, clicks, listed, listing, ghost>>

\* The end of unzip, or of its being killed, which has no exit code and counts
\* as success.  A manifest that lists no scenarios makes the handler throw.
Extracted(c) ==
  /\ pc[c] = "extract"
  /\ \/ todo[c] = {} /\ UNCHANGED <<torn, mishaps>> /\ Disturb(version[c] \notin Describable)
     \/ todo[c] # {} /\ Mishap /\ torn' = torn \cup {pack[c]} /\ Disturb(TRUE)
  /\ answered' = [answered EXCEPT ![pack[c]] = version[c]]
  /\ todo' = [todo EXCEPT ![c] = {}]
  /\ Goto(c, IF version[c] \in Describable THEN "okReply" ELSE "errReply")
  /\ UNCHANGED <<disk, pack, version, seen, shown, clicks, listed, listing>>

\* mkdir or unzip fails.
ExtractFails(c) ==
  /\ pc[c] = "extract"
  /\ Goto(c, "undo")
  /\ Disturb(TRUE)
  /\ UNCHANGED <<disk, pack, version, todo, seen, shown, clicks, listed, listing, answered, torn, mishaps>>

\* What there is of the new version is removed, best effort.
Undo(c) ==
  /\ pc[c] = "undo"
  /\ Goto(c, "errReply")
  /\ todo' = [todo EXCEPT ![c] = {}]
  /\ \/ Removed(c) \/ RemoveFails(c)
  /\ UNCHANGED <<staging, pack, version, seen, shown, clicks, listed, listing, disturbed>>

Uninstall(c) ==
  /\ pc[c] = "uninstall"
  /\ \/ Removed(c) /\ Goto(c, "goneReply") /\ UNCHANGED disturbed
     \/ RemoveFails(c) /\ Goto(c, "keptReply") /\ Disturb(TRUE)
  /\ UNCHANGED <<staging, pack, version, todo, seen, shown, clicks, listed, listing>>

\* The unzip of an app that has quit ends.
OrphanEnds(c) ==
  /\ pc[c] = "orphan" /\ todo[c] = {}
  /\ Over(c)
  /\ UNCHANGED <<disk, listed, listing, ghost>>

-----------------------------------------------------------------------------
(* pack:list, asked for once, when App is mounted.                         *)

\* readdir: directories being staged do not count.
ListScan ==
  /\ mount = "sent"
  /\ mount' = "reading"
  /\ entries' = {p \in Packs : dir[p] # Empty}
  /\ UNCHANGED <<disk, requests, listed, found, ghost>>

ListRead(p) ==
  /\ mount = "reading" /\ p \in entries
  /\ entries' = entries \ {p}
  /\ found' = [found EXCEPT ![p] = Listing(p)]
  /\ UNCHANGED <<disk, requests, listed, mount, ghost>>

\* The answer waits for two others, and replaces what App shows by then.
ListReply ==
  /\ mount = "reading" /\ entries = {}
  /\ mount' = "done"
  /\ listed' = found /\ found' = Bare
  /\ UNCHANGED <<disk, requests, entries, ghost>>

\* A removal under way may have got anywhere; an unzip goes on by itself.
Quit ==
  /\ Mishap
  /\ pc' = [c \in Calls |-> IF pc[c] \in {"extract", "orphan"} THEN "orphan" ELSE "free"]
  /\ todo' = [c \in Calls |-> IF pc'[c] = "orphan" THEN todo[c] ELSE {}]
  /\ pack' = [c \in Calls |-> IF pc'[c] = "orphan" THEN pack[c] ELSE Absent]
  /\ version' = [c \in Calls |-> IF pc'[c] = "orphan" THEN version[c] ELSE Absent]
  /\ seen' = [c \in Calls |-> Bare]
  /\ LET cut   == {c \in Calls : pc[c] \in {"clear", "undo", "uninstall"}}
         hurt  == {pack[c] : c \in {d \in Calls : d \in cut \/ pc[d] \in {"unstage", "extract"}}}
     IN /\ \E parts \in [Packs -> SUBSET Parts] :
             /\ \A p \in Packs : p \notin {pack[c] : c \in cut} => parts[p] = Parts
             /\ dir' = [p \in Packs |-> [f \in Parts |->
                          IF f \in parts[p] THEN dir[p][f] ELSE Absent]]
        /\ torn' = torn \cup hurt
  /\ staging' = IF staging = {} THEN {} ELSE {Left}
  /\ shown' = [c \in Calls |-> FALSE]
  /\ listed' = Bare
  /\ mount' = "sent" /\ entries' = {} /\ found' = Bare
  /\ disturbed' = \E c \in Calls : pc'[c] = "orphan"
  /\ UNCHANGED <<answered, clicks>>

Work(c) ==
  \/ Choose(c) \/ Stage(c) \/ Reject(c) \/ Clear(c) \/ Unstage(c) \/ Extract(c)
  \/ Extracted(c) \/ ExtractFails(c) \/ Undo(c) \/ Uninstall(c) \/ OrphanEnds(c)
  \/ InstallReply(c) \/ UninstallReply(c) \/ ErrorReply(c)

Next ==
  \/ \E c \in Calls : Work(c) \/ ClickInstall(c) \/ \E p \in Packs : ClickUninstall(c, p)
  \/ ListScan \/ ListReply \/ \E p \in Packs : ListRead(p)
  \/ Reopen \/ Quit

Spec == Init /\ [][Next]_vars


-----------------------------------------------------------------------------

TypeOK ==
  /\ dir \in [Packs -> [Parts -> Versions \cup {Absent}]]
  /\ staging \in SUBSET (Calls \cup {Left})
  /\ pc \in [Calls -> {"free", "dialog", "stage", "reject", "clear", "unstage",
                       "extract", "orphan", "undo", "okReply", "errReply",
                       "uninstall", "goneReply", "keptReply"}]
  /\ pack \in [Calls -> Packs \cup {Absent}]
  /\ version \in [Calls -> Versions \cup {Absent}]
  /\ todo \in [Calls -> SUBSET Parts]
  /\ seen \in [Calls -> Shelf] /\ shown \in [Calls -> BOOLEAN]
  /\ listed \in Shelf /\ found \in Shelf
  /\ mount \in {"sent", "reading", "done"} /\ entries \in SUBSET Packs
  /\ answered \in Shelf /\ torn \in SUBSET Packs
  /\ disturbed \in BOOLEAN /\ clicks \in Nat /\ mishaps \in Nat

\* A pack is on disk as main last answered: whole, in the version installed,
\* or gone.  Excepted are packs being installed, and those where a removal
\* failed, an unzip was killed, the app quit or two requests met, until they
\* are next removed without disturbance (pack:install, pack:uninstall).
DiskAsAnswered ==
  \A p \in Packs \ torn :
    (\A c \in Calls : ~Touches(c, p)) => dir[p] = Whole(answered[p])

\* A staging directory belongs to an install that has not begun to write, or
\* is left over from a removal that failed or from a quit (pack:install).
StagingCleared ==
  /\ \A c \in staging \ {Left} : pc[c] \in {"stage", "reject", "clear", "unstage"}
  /\ mishaps = 0 => Left \notin staging

\* What main answers about packs is what is on disk, with nothing left in staging
\* beside it (pack:install, pack:uninstall).
DiskSettled == DiskAsAnswered /\ StagingCleared

\* When nothing is in flight the Pack Manager shows what is on disk, as long
\* as requests have not overlapped and none has failed half-way (App,
\* PackManagerModal).
ListTrue ==
  Quiet /\ ~disturbed => \A p \in Packs : listed[p] = Listing(p)

=============================================================================
