------------------------------ MODULE UpdateFlow ------------------------------
(***************************************************************************)
(* Update OTForge: app:update of main/index.ts pulls the source and queues *)
(* a dependency update in a sentinel file; the start scripts of            *)
(* package.json (npm install, apply-pending-update.mjs,                    *)
(* ensure-electron.mjs) carry it out the next time the app is started.     *)
(*                                                                         *)
(* An instance is one `npm run dev`, from its start scripts to the end of  *)
(* the app.  They all work on one checkout.  Its commit, the commit whose  *)
(* declared dependencies are installed and the registry state they were    *)
(* last brought up to are release numbers.                                 *)
(***************************************************************************)
EXTENDS Integers

CONSTANTS Instances,
          MaxRelease  \* bound on releases

ASSUME BoundAssumption == MaxRelease \in Nat

VARIABLES
  release,    \* newest release upstream and in the registry
  checkout,   \* commit of the working tree
  installed,  \* commit whose declared dependencies node_modules has; Broken: none
  resolved,   \* release npm update last brought node_modules up to
  binary,     \* the Electron runtime is in node_modules
  sentinel,   \* .otforge-pending-dep-update exists
  pulling,    \* a git pull goes on whose app has quit
  pc,         \* per instance: next stretch of its start or of its update
  ver,        \* per instance: commit its running app was built from; None: not running
  before,     \* per instance: beforeHead of its update
  restart,    \* per instance: restartRequired of its update
  promised,   \* history: release at the time an update was last queued
  mishaps     \* history: what has gone wrong so far (Mishaps below)

remote  == release
modules == <<installed, resolved, binary>>
disk    == <<checkout, modules, sentinel, pulling>>
locals  == <<before, restart>>
ghost   == <<promised, mishaps>>
vars    == <<remote, disk, pc, ver, locals, ghost>>

None == -1
Broken == -2
Commits == 0..MaxRelease

\* overlap: started while another instance was on its way, or running;
\* orphan: the app quit during its git pull;
\* late: an update failed after its git pull had moved the checkout.
Mishaps == {"overlap", "orphan", "late"}

Starting == {"install", "apply", "update", "unlink", "ensure", "launch"}
Updating == {"status", "before", "pull", "after", "schedule", "images", "dialog"}

\* Electron of instance i runs.
Runs(i) == pc[i] = "up" \/ pc[i] \in Updating
OtherRuns(i) == \E j \in Instances \ {i} : Runs(j)

Init ==
  /\ release = 0 /\ checkout = 0
  /\ installed = 0 /\ resolved = 0 /\ binary = TRUE
  /\ sentinel = FALSE /\ pulling = FALSE
  /\ pc = [i \in Instances |-> "down"]
  /\ ver = [i \in Instances |-> None]
  /\ before = [i \in Instances |-> None] /\ restart = [i \in Instances |-> FALSE]
  /\ promised = 0 /\ mishaps = {}

Goto(i, stretch) == pc' = [pc EXCEPT ![i] = stretch]
\* The handler's locals are gone.
Over(i) == before' = [before EXCEPT ![i] = None] /\ restart' = [restart EXCEPT ![i] = FALSE]
Note(m, happens) == mishaps' = mishaps \cup (IF happens THEN {m} ELSE {})

Publish ==
  /\ release < MaxRelease /\ release' = release + 1
  /\ UNCHANGED <<disk, pc, ver, locals, ghost>>

-----------------------------------------------------------------------------
(* npm: packages are replaced by renaming them, which the Electron that    *)
(* holds them open can prevent half-way.                                   *)

\* Replacing the electron package may drop its runtime, with or without
\* downloading it again.
NpmDone ==
  /\ installed' = checkout
  /\ binary' \in BOOLEAN

\* A command that fails is rolled back, except for what another app holds
\* open; one that is killed is not.
NpmFails(clean) ==
  /\ installed' \in {installed} \cup (IF clean THEN {} ELSE {Broken})
  /\ binary' \in {binary, FALSE}
  /\ UNCHANGED resolved

-----------------------------------------------------------------------------
(* npm run dev: predev's commands, joined by &&, then build and launch.    *)

Start(i) ==
  /\ pc[i] = "down"
  /\ Goto(i, "install")
  /\ Note("overlap", \E j \in Instances : pc[j] # "down")
  /\ UNCHANGED <<remote, disk, ver, locals, promised>>

\* npm install
Install(i) ==
  /\ pc[i] = "install"
  /\ \/ NpmDone /\ UNCHANGED resolved /\ Goto(i, "apply")
     \/ NpmFails(~OtherRuns(i)) /\ Goto(i, "down")
  /\ UNCHANGED <<remote, checkout, sentinel, pulling, ver, locals, ghost>>

\* existsSync(SENTINEL)
Apply(i) ==
  /\ pc[i] = "apply"
  /\ Goto(i, IF sentinel THEN "update" ELSE "ensure")
  /\ UNCHANGED <<remote, disk, ver, locals, ghost>>

\* npm update
UpdateDone(i) ==
  /\ pc[i] = "update"
  /\ NpmDone /\ resolved' = release
  /\ Goto(i, "unlink")
  /\ UNCHANGED <<remote, checkout, sentinel, pulling, ver, locals, ghost>>

\* Mutant of UpdateFails: the update that failed is taken off the queue.
UpdateFailsSkips(i) ==
  /\ pc[i] = "update"
  /\ NpmFails(~OtherRuns(i))
  /\ Goto(i, "unlink")
  /\ UNCHANGED <<remote, checkout, sentinel, pulling, ver, locals, ghost>>

\* The request stays queued, and the start goes on.
UpdateFails(i) ==
  /\ pc[i] = "update"
  /\ NpmFails(~OtherRuns(i))
  /\ Goto(i, "ensure")
  /\ UNCHANGED <<remote, checkout, sentinel, pulling, ver, locals, ghost>>

\* Mutant of Unlink: the sentinel stays.
UnlinkNot(i) ==
  /\ pc[i] = "unlink"
  /\ Goto(i, "ensure")
  /\ UNCHANGED <<remote, disk, ver, locals, ghost>>

\* unlinkSync
Unlink(i) ==
  /\ pc[i] = "unlink" /\ sentinel
  /\ sentinel' = FALSE
  /\ Goto(i, "ensure")
  /\ UNCHANGED <<remote, checkout, modules, pulling, ver, locals, ghost>>

\* It throws: the file cannot be removed, or is gone.
UnlinkFails(i) ==
  /\ pc[i] = "unlink"
  /\ Goto(i, "down")
  /\ UNCHANGED <<remote, disk, ver, locals, ghost>>

\* The runtime is there, or is downloaded, or cannot be.
Ensure(i) ==
  /\ pc[i] = "ensure"
  /\ \/ Goto(i, "launch") /\ binary' = TRUE
     \/ ~binary /\ Goto(i, "down") /\ UNCHANGED binary
  /\ UNCHANGED <<remote, checkout, installed, resolved, sentinel, pulling, ver, locals, ghost>>

\* The packages and the app are built from the working tree, and Electron
\* starts; or the build fails.
Launch(i) ==
  /\ pc[i] = "launch"
  /\ \/ binary /\ Goto(i, "up") /\ ver' = [ver EXCEPT ![i] = checkout]
     \/ Goto(i, "down") /\ UNCHANGED ver
  /\ UNCHANGED <<remote, disk, locals, ghost>>

-----------------------------------------------------------------------------
(* app:update: one stretch per await.                                      *)

\* The button is disabled while an update of this window is under way.
ClickUpdate(i) ==
  /\ pc[i] = "up"
  /\ Goto(i, "status")
  /\ UNCHANGED <<remote, disk, ver, locals, ghost>>

\* git status finds local changes, or fails; or all is clean.
Status(i) ==
  /\ pc[i] = "status"
  /\ \E next \in {"before", "up"} : Goto(i, next)
  /\ UNCHANGED <<remote, disk, ver, locals, ghost>>

\* git rev-parse HEAD
Before(i) ==
  /\ pc[i] = "before"
  /\ \/ Goto(i, "pull") /\ before' = [before EXCEPT ![i] = checkout]
     \/ Goto(i, "up") /\ UNCHANGED before
  /\ UNCHANGED <<remote, disk, ver, restart, ghost>>

\* git pull
Pull(i) ==
  /\ pc[i] = "pull"
  /\ \/ Goto(i, "after") /\ checkout' = release /\ UNCHANGED locals
     \/ Goto(i, "up") /\ Over(i) /\ UNCHANGED checkout
  /\ UNCHANGED <<remote, modules, sentinel, pulling, ver, ghost>>

\* An error after git pull: the answer says that the update failed.
FailsLate(i) == Goto(i, "up") /\ Over(i) /\ Note("late", checkout # before[i])

\* git rev-parse HEAD again, and the comparison.
After(i) ==
  /\ pc[i] = "after"
  /\ \/ /\ Goto(i, "schedule") /\ restart' = [restart EXCEPT ![i] = before[i] # checkout]
        /\ UNCHANGED <<before, mishaps>>
     \/ FailsLate(i)
  /\ UNCHANGED <<remote, disk, ver, promised>>

\* Mutant of Schedule: npm update runs here, under the running app.
ScheduleNow(i) ==
  /\ pc[i] = "schedule"
  /\ NpmDone /\ resolved' = release
  /\ Goto(i, "images")
  /\ UNCHANGED <<remote, checkout, sentinel, pulling, ver, locals, ghost>>

\* The sentinel is written.
Schedule(i) ==
  /\ pc[i] = "schedule"
  /\ \/ /\ sentinel' = TRUE /\ promised' = release
        /\ Goto(i, "images") /\ UNCHANGED <<locals, mishaps>>
     \/ FailsLate(i) /\ sentinel' \in {sentinel, TRUE} /\ UNCHANGED promised
  /\ UNCHANGED <<remote, checkout, modules, pulling, ver>>

\* Images of the open scenario are pulled, or not, and the answer says which;
\* or finding out what to pull throws.
Images(i) ==
  /\ pc[i] = "images"
  /\ \/ Goto(i, "dialog") /\ UNCHANGED <<locals, mishaps>>
     \/ FailsLate(i)
  /\ UNCHANGED <<remote, disk, ver, promised>>

\* Mutant of Dialog: the app ends, and is taken to run on.
DialogForgets(i) ==
  /\ pc[i] = "dialog"
  /\ Goto(i, IF restart[i] THEN "down" ELSE "up") /\ Over(i)
  /\ UNCHANGED <<remote, disk, ver, ghost>>

\* OK is clicked in the message box; app.exit if a restart is required.
Dialog(i) ==
  /\ pc[i] = "dialog"
  /\ IF restart[i] THEN Goto(i, "down") /\ ver' = [ver EXCEPT ![i] = None]
                   ELSE Goto(i, "up") /\ UNCHANGED ver
  /\ Over(i)
  /\ UNCHANGED <<remote, disk, ghost>>

-----------------------------------------------------------------------------
\* Ctrl+C, or the window is closed.  An npm command is killed, a git pull goes
\* on by itself.
Quit(i) ==
  /\ pc[i] # "down"
  /\ Goto(i, "down") /\ Over(i) /\ ver' = [ver EXCEPT ![i] = None]
  /\ IF pc[i] \in {"install", "update"} THEN NpmFails(FALSE) ELSE UNCHANGED modules
  /\ pulling' = (pulling \/ pc[i] = "pull")
  /\ Note("orphan", pc[i] = "pull")
  /\ UNCHANGED <<remote, checkout, sentinel, promised>>

PullEnds ==
  /\ pulling /\ pulling' = FALSE
  /\ checkout' \in {checkout, release}
  /\ UNCHANGED <<remote, modules, sentinel, pc, ver, locals, ghost>>

StartStep(i) ==
  \/ Install(i) \/ Apply(i) \/ UpdateDone(i) \/ UpdateFails(i) \/ Unlink(i)
  \/ UnlinkFails(i) \/ Ensure(i) \/ Launch(i)

UpdateStep(i) ==
  Status(i) \/ Before(i) \/ Pull(i) \/ After(i) \/ Schedule(i) \/ Images(i)

Next ==
  \/ \E i \in Instances : \/ Start(i) \/ StartStep(i) \/ Quit(i)
                          \/ ClickUpdate(i) \/ UpdateStep(i) \/ Dialog(i)
  \/ Publish \/ PullEnds

Spec == Init /\ [][Next]_vars

\* An npm update tried again and again succeeds at some time, and so does the
\* removal of the sentinel: the network and the file system are not down for good.
Fairness == \A i \in Instances : SF_vars(UpdateDone(i)) /\ SF_vars(Unlink(i))

FairSpec == Spec /\ Fairness

-----------------------------------------------------------------------------
\* What each variable may hold; an instance has a commit while its app runs.
TypeOK ==
  /\ release \in Commits /\ checkout \in 0..release
  /\ installed \in 0..release \cup {Broken} /\ resolved \in 0..release
  /\ binary \in BOOLEAN /\ sentinel \in BOOLEAN /\ pulling \in BOOLEAN
  /\ pc \in [Instances -> {"down", "up"} \cup Starting \cup Updating]
  /\ ver \in [Instances -> Commits \cup {None}]
  /\ \A i \in Instances : ver[i] # None <=> Runs(i)
  /\ before \in [Instances -> Commits \cup {None}]
  /\ restart \in [Instances -> BOOLEAN]
  /\ promised \in 0..release /\ mishaps \in SUBSET Mishaps

\* What an update has promised is installed or still queued, through failures,
\* kills and restarts, as long as no two instances meet (the sentinel is removed
\* only after npm update has succeeded).
PromiseKept == "overlap" \in mishaps \/ resolved >= promised \/ sentinel

\* No npm command takes the Electron runtime away from a running app, as long
\* as there is one instance: app:update only queues.
ElectronStays ==
  "overlap" \in mishaps \/ \A i \in Instances : Runs(i) => binary

\* A running app has the dependencies its own source declares, unless two
\* instances have met or a git pull has outlived its app (predev).
DependenciesMatch ==
  mishaps \subseteq {"late"} => \A i \in Instances : Runs(i) => installed = ver[i]

\* An app with no update under way is built from the source on disk: the pull
\* that made it stale has also ended it.  Excepted are an update that failed
\* after its pull, and instances or pulls that have met (restartRequired).
StaleEnds ==
  mishaps = {} => \A i \in Instances : pc[i] = "up" => ver[i] = checkout

\* A running app keeps the runtime, the dependencies and the source it was
\* started with, each under its own conditions (app:update, predev).
RunsAsStarted == ElectronStays /\ DependenciesMatch /\ StaleEnds

\* A queued update is carried out, whatever fails in between, if starts get as
\* far as npm update again and again (apply-pending-update.mjs).
QueuedIsApplied ==
  []<>(\E i \in Instances : pc[i] = "update") => (sentinel ~> ~sentinel)

=============================================================================
