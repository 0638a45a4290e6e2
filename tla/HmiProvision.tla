---------------------------- MODULE HmiProvision ----------------------------
(***************************************************************************)
(* configureFuxa (main/index.ts): after every successful start a task of   *)
(* its own fills the empty project of the lab's FUXA container, one post   *)
(* after the other, devices first, then the views and alarms that name     *)
(* their tags.  Nobody awaits the task and nothing ends it: a post that    *)
(* fails is swallowed, and a task that outlives its lab posts into the     *)
(* FUXA of the next one, which listens on the same host port.              *)
(***************************************************************************)
EXTENDS ComposePlan

CONSTANTS Ns    \* the tag namespace made of a device id: other signs become "-"

VARIABLES
  fuxa,         \* the project of the running FUXA, None without one: devices, views,
                \* alarms, whether the alarm bell is shown; and, for the properties,
                \* the posts that were lost, whether a task of another lab wrote too
  tasks         \* tasks in flight, by number: posts to do, the view names it has
                \* read, whether its lab has been stopped

hmiVars == <<fuxa, tasks>>

Rtus == {"rtu", "iec104-rtu"}
Plcs == {"plc", "safety-plc"}

-----------------------------------------------------------------------------
(* Devices and their tags.  A tag is a namespace and a name.               *)

\* Points of Modbus by themselves, and PLCs drawn on a modbus-tcp edge.
modbusNodeIds(sc) ==
  {x \in Ids(sc) : IsA(sc, x, Rtus \cup FieldDevices)}
  \cup {x \in Ids(sc) : IsA(sc, x, Plcs)
          /\ \E i \in DOMAIN sc.wires : sc.wires[i].protocol = "modbus-tcp" /\ x \in Ends(sc.wires[i])}

buildSensorModbusTag(d) == {<<Ns[d.id], "value">>}
buildRtuModbusTags(d) ==
  {<<Ns[d.id], table, i>> : table \in {"di", "do", "ir", "hr"}, i \in 0 .. 3}
buildControllerModbusTags(d) ==
  {<<Ns[d.id], t>> : t \in IF d.kind = "wellhead-controller" THEN {"hr0", "hr1"}
                                                             ELSE {"co0", "di0", "hr0"}}
Tags(d) ==
  CASE d.category = "smart-sensor" -> buildSensorModbusTag(d)
    [] d.category \in Rtus -> buildRtuModbusTags(d)
    [] d.category = "smart-controller" -> buildControllerModbusTags(d)
    [] OTHER -> {}

\* Registered under the address of the file, not the one the plan has resolved.
DevicePost(d) == [cmd |-> "set-device", key |-> d.id, tags |-> Tags(d), address |-> d.ip]

-----------------------------------------------------------------------------
(* Views and alarms.                                                       *)

getOtZoneTopology(sc) ==
  LET InOt(d) == d.zone = "ot" IN Those(sc.devices, InOt)

Live(d) == d.category = "smart-controller" /\ d.kind \in {"valve", "pump", "vfd", "actuator"}

\* The cards of the RTUs bind nothing.
buildRtuOverviewView == [cmd |-> "set-view", key |-> "RTU Overview", binds |-> {}]
\* Shapes coloured by the status a pump, valve, drive or actuator reports.
buildScadaOverviewView(topology) ==
  [cmd |-> "set-view", key |-> "SCADA Overview",
   binds |-> {<<Ns[topology[i].id], "di0">> : i \in {j \in DOMAIN topology : Live(topology[j])}}]

Alarm(d) == [cmd |-> "set-alarm", key |-> Ns[d.id], binds |-> {<<Ns[d.id], "di0">>}]

\* Mutant of buildScadaAlarms: an alarm for every controller of a field device.
buildScadaAlarmsAll(topology) ==
  LET Alarmed(d) == d.category = "smart-controller"
      chosen == Those(topology, Alarmed)
  IN  [i \in DOMAIN chosen |-> Alarm(chosen[i])]

\* One for each that is expected to run: not for a valve, nor for a wellhead.
buildScadaAlarms(topology) ==
  LET Alarmed(d) == Live(d) /\ d.kind # "valve"
      chosen == Those(topology, Alarmed)
  IN  [i \in DOMAIN chosen |-> Alarm(chosen[i])]

buildHmiViewName(id) == Ns[id]

\* The posts of a task, in order; "names" reads the views there are.
Posts(sc) ==
  LET Modbus(d) == d.id \in modbusNodeIds(sc) /\ d.category \notin Plcs
      Plc(d)    == d.id \in modbusNodeIds(sc) /\ d.category \in Plcs
      Opcua(d)  == d.category = "scada-server"
      Bacnet(d) == d.category = "sensor"
      Rtu(d)    == d.category \in Rtus
      Hmi(d)    == d.category = "hmi"
      devices == Those(sc.devices, Modbus) \o Those(sc.devices, Plc)
                   \o Those(sc.devices, Opcua) \o Those(sc.devices, Bacnet)
      topology == getOtZoneTopology(sc)
      alarms == buildScadaAlarms(topology)
      hmis == Those(sc.devices, Hmi)
      When(holds, post) == IF holds THEN <<post>> ELSE <<>>
  IN  IF devices = <<>> /\ hmis = <<>> THEN <<>>
      ELSE [i \in DOMAIN devices |-> DevicePost(devices[i])]
           \o When(Some(sc.devices, Rtu), buildRtuOverviewView)
           \o When(topology # <<>>, buildScadaOverviewView(topology))
           \o alarms
           \o When(alarms # <<>>, [cmd |-> "layout", key |-> "layout"])
           \o When(hmis # <<>>, [cmd |-> "names", key |-> "names"])
           \o [i \in DOMAIN hmis |-> [cmd |-> "set-placeholder", binds |-> {},
                                      key |-> buildHmiViewName(hmis[i].id)]]

-----------------------------------------------------------------------------
EmptyProject == [devices |-> <<>>, views |-> <<>>, alarms |-> <<>>, bell |-> FALSE,
                 lost |-> {}, mixed |-> FALSE]

HmiInit == fuxa = None /\ tasks = <<>>

FreshNumber == CHOOSE n \in 1 .. Cardinality(DOMAIN tasks) + 1 : n \notin DOMAIN tasks

\* The end of simulation:start: an empty project, and a task for it.
ProvisionBegins(sc) ==
  /\ fuxa' = EmptyProject
  /\ tasks' = IF Posts(sc) = <<>> THEN tasks
              ELSE Merge(tasks, [n \in {FreshNumber} |->
                     [todo |-> Posts(sc), names |-> {}, stale |-> FALSE]])

\* simulation:stop removes the container and its volume; the tasks go on.
ProvisionLeft ==
  /\ fuxa' = None
  /\ tasks' = [n \in DOMAIN tasks |-> [tasks[n] EXCEPT !.stale = TRUE]]

Applied(project, post) ==
  CASE post.cmd = "set-device" ->
         [project EXCEPT !.devices = Merge(@, [x \in {post.key} |->
                                             [tags |-> post.tags, address |-> post.address]])]
    [] post.cmd = "set-view" ->
         [project EXCEPT !.views = Merge(@, [x \in {post.key} |-> [binds |-> post.binds, by |-> "task"]])]
    [] post.cmd = "set-placeholder" ->
         [project EXCEPT !.views = Merge(@, [x \in {post.key} |-> [binds |-> {}, by |-> "task"]])]
    [] post.cmd = "set-alarm" ->
         [project EXCEPT !.alarms = Merge(@, [x \in {post.key} |-> post.binds])]
    [] post.cmd = "layout" -> [project EXCEPT !.bell = TRUE]
    [] post.cmd = "names" -> project

Advanced(n) ==
  LET rest == [tasks[n] EXCEPT !.todo = Tail(@)]
  IN  IF rest.todo = <<>> THEN [m \in DOMAIN tasks \ {n} |-> tasks[m]]
                          ELSE [tasks EXCEPT ![n] = rest]

\* A post reaches whichever FUXA listens.  A placeholder is left out when the name
\* was read before.
PostProjectData ==
  /\ fuxa # None
  /\ \E n \in DOMAIN tasks :
       LET post == Head(tasks[n].todo)
           skip == post.cmd = "set-placeholder" /\ post.key \in tasks[n].names
       IN  /\ post.cmd # "names"
           /\ tasks' = Advanced(n)
           /\ fuxa' = IF skip THEN fuxa
                      ELSE [Applied(fuxa, post) EXCEPT !.mixed = @ \/ tasks[n].stale]
  /\ UNCHANGED planVars

\* Nobody listens, or not in time: the task goes on without it.
PostLost ==
  /\ \E n \in DOMAIN tasks :
       LET post == Head(tasks[n].todo)
       IN  /\ tasks' = Advanced(n)
           /\ fuxa' = IF fuxa = None THEN None ELSE [fuxa EXCEPT !.lost = @ \cup {<<post.cmd, post.key>>}]
  /\ UNCHANGED planVars

getExistingViewNames ==
  /\ fuxa # None
  /\ \E n \in DOMAIN tasks :
       /\ Head(tasks[n].todo).cmd = "names"
       /\ LET rest == [tasks[n] EXCEPT !.todo = Tail(@), !.names = DOMAIN fuxa.views]
          IN  tasks' = [tasks EXCEPT ![n] = rest]
  /\ UNCHANGED <<planVars, fuxa>>

\* openFuxaWindow, for the editor, a device's view or the overview: the author draws
\* an HMI view there.
hmiOpenEditor ==
  /\ up /\ fuxa # None
  /\ \E d \in {lab.devices[i] : i \in DOMAIN lab.devices} :
       /\ d.category = "hmi"
       /\ fuxa' = [fuxa EXCEPT !.views = Merge(@, [x \in {buildHmiViewName(d.id)} |->
                                                 [binds |-> {}, by |-> "author"]])]
  /\ UNCHANGED <<planVars, tasks>>

HmiStep == PostProjectData \/ PostLost \/ getExistingViewNames \/ hmiOpenEditor

-----------------------------------------------------------------------------
(* Properties.                                                             *)

\* What a view or an alarm of the generated HMI names is there to be read: its tag
\* belongs to a device FUXA was given before it.  Once the task has ended, a lab with
\* alarms shows its bell, and every HMI has a view.  Unless the post of just that
\* was lost, or a task of an earlier lab wrote into the project as well.
Declared == UNION {fuxa.devices[x].tags : x \in DOMAIN fuxa.devices}
LostTags == UNION {Tags(d) : d \in {x \in {lab.devices[i] : i \in DOMAIN lab.devices} : <<"set-device", x.id>> \in fuxa.lost}}
Bound == UNION ({fuxa.views[v].binds : v \in DOMAIN fuxa.views}
                \cup {fuxa.alarms[a] : a \in DOMAIN fuxa.alarms})
HmiComplete ==
  fuxa # None /\ ~fuxa.mixed =>
    /\ Bound \subseteq Declared \cup LostTags
    /\ (\A n \in DOMAIN tasks : tasks[n].stale) /\ fuxa.alarms # <<>> => fuxa.bell \/ <<"layout", "layout">> \in fuxa.lost
    /\ (\A n \in DOMAIN tasks : tasks[n].stale) =>
         \A x \in Ids(lab) : IsA(lab, x, {"hmi"}) =>
           \/ buildHmiViewName(x) \in DOMAIN fuxa.views
           \/ <<"set-placeholder", buildHmiViewName(x)>> \in fuxa.lost
=============================================================================
