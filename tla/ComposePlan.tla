---------------------------- MODULE ComposePlan -----------------------------
(***************************************************************************)
(* generateCompose (compose-generator.ts): one pass over the devices of a  *)
(* scenario, in the order of the file, gives each its container, addresses,*)
(* published ports and references to other devices; the fixed services     *)
(* follow.  main/index.ts keeps port maps of its own for the handlers that *)
(* reach a container through the host: simulation:start fills them before  *)
(* the pass, with a loop that is meant to count in the same order.         *)
(*                                                                         *)
(* A scenario is a record: devices (a sequence of records), wires (the     *)
(* canvas edges, in order), segments (declared networks, in order), drop   *)
(* (the zone of the tab an attack machine was dropped on) and security.    *)
(***************************************************************************)
EXTENDS ZoneNetworks, Sequences

CONSTANTS
  UserHost,     \* 10: the first host octet of a device
  AutoHost,     \* 200: the first one of an extra network leg
  LastHost,     \* 240: where both ranges end
  SafeName      \* sanitizeServiceName: the service name of each device id

ASSUME HostsAssumption ==
  /\ UserHost \in Nat /\ AutoHost \in Nat /\ LastHost \in Nat
  /\ UserHost < AutoHost /\ AutoHost < LastHost /\ LastHost < 245

IsSeq(s) == s \in Seq({s[i] : i \in DOMAIN s})

\* Scenarios that are started.  The devices of the file are keyed by their ids; an
\* address names a host.  The published ports of 100 PLCs stay out of each other's
\* range, and the OT legs of the workstations within their network.
WellMade(sc) ==
  /\ sc # None /\ IsSeq(sc.devices) /\ IsSeq(sc.wires) /\ IsSeq(sc.segments)
  /\ Len(sc.devices) <= 100
  /\ \A i, j \in DOMAIN sc.devices : sc.devices[i].id = sc.devices[j].id => i = j
  /\ \A i \in DOMAIN sc.devices :
       LET d == sc.devices[i]
       IN  /\ d.id # None /\ d.extra \subseteq Zones
           /\ d.ip = <<d.ip[1], d.ip[2]>> /\ d.ip[2] \in 1 .. 254
  /\ AutoHost + Cardinality({i \in DOMAIN sc.devices :
                              sc.devices[i].category = "engineering-workstation"}) <= 255
  /\ \A i \in DOMAIN sc.segments : sc.segments[i].zone \in Zones
  /\ sc.drop \in Zones \cup {None}
  /\ \A i \in DOMAIN sc.wires : sc.wires[i].coilIndex \in Nat

VARIABLES
  lab,        \* the scenario being started; None before the start
  zones,      \* effectiveZones: the network each zone gets
  next,       \* the device the loop is at
  services,   \* service name -> its legs, ports, references and routes
  claimed,    \* claimedDeviceIps
  used,       \* usedIpsPerNet: host octets taken in each zone
  tally,      \* plcServiceNames, processUnitServiceNames, workstationServiceNames
              \* (as sequences) and attackPortIndex
  ports,      \* main: activePlcPorts, activePlcModbusPorts, activeAttackPorts and
              \* activeWorkstationPorts, device id -> host port
  composed,   \* the compose file is written
  up          \* its containers run, and the renderer shows the lab as running

planVars == <<lab, zones, next, services, claimed, used, tally, ports, composed, up>>

Controllers  == {"plc", "safety-plc", "batch-controller"}
FieldDevices == {"smart-controller", "smart-sensor"}
CanvasOnly   == {"hmi", "historian"}      \* the fixed FUXA and InfluxDB stand for them
Nets         == Zones \cup {"monitoring"}

\* What is absent is no category.
ASSUME CategoryAssumption == None \notin Controllers

Merge(f, g) == [x \in DOMAIN f \cup DOMAIN g |-> IF x \in DOMAIN g THEN g[x] ELSE f[x]]

Drop(f, x) == [y \in DOMAIN f \ {x} |-> f[y]]

Ids(sc) == {sc.devices[i].id : i \in DOMAIN sc.devices}
Device(sc, id) ==
  sc.devices[CHOOSE i \in DOMAIN sc.devices : sc.devices[i].id = id]
IsA(sc, id, categories) == id \in Ids(sc) /\ Device(sc, id).category \in categories

FirstOf(seq, Holds(_)) ==
  seq[CHOOSE i \in DOMAIN seq : Holds(seq[i]) /\ \A j \in 1 .. i - 1 : ~Holds(seq[j])]
LastOf(seq, Holds(_)) ==
  seq[CHOOSE i \in DOMAIN seq : Holds(seq[i]) /\ \A j \in i + 1 .. Len(seq) : ~Holds(seq[j])]
Some(seq, Holds(_)) == \E i \in DOMAIN seq : Holds(seq[i])

\* The entries of seq at the indices I, in their order; those that hold.
Entries(seq, I) ==
  [k \in 1 .. Cardinality(I) |-> seq[CHOOSE i \in I : Cardinality({j \in I : j <= i}) = k]]
Those(seq, Holds(_)) == Entries(seq, {i \in DOMAIN seq : Holds(seq[i])})

-----------------------------------------------------------------------------
(* Networks and addresses.                                                 *)

\* A declared segment keeps the subnet of the file, the last one of a zone
\* counts; every other zone has its effective network.
Network(net) ==
  LET Of(seg) == seg.zone = net
  IN  IF net = "monitoring" THEN MonitorBlock(zones)
      ELSE IF Some(lab.segments, Of) THEN LastOf(lab.segments, Of).subnet
      ELSE zones[net]

\* findZoneForIp, then findZoneForIpInDefaults.
ZoneOfBlock(block) ==
  LET Has(seg) == seg.subnet = block
  IN  IF Some(lab.segments, Has) THEN FirstOf(lab.segments, Has).zone
      ELSE IF \E z \in Zones : ZONE_DEFAULTS[z] = block
        THEN CHOOSE z \in Zones : ZONE_DEFAULTS[z] = block
      ELSE None

HomeZone(d) == LET z == ZoneOfBlock(d.ip[1]) IN IF z = None THEN "ot" ELSE z

\* Same host octet in the effective network of the zone; an address outside
\* every known network passes unchanged.
resolveDeviceIp(d) ==
  LET z == ZoneOfBlock(d.ip[1]) IN IF z = None THEN d.ip ELSE <<zones[z], d.ip[2]>>

\* Never given to a device unless its range is exhausted.
reservedHosts == {1, 250, 252, 253, 254} \cup LastHost .. LastHost + 4

\* claimIp counts up from the preferred host octet to a free one and stops at the
\* end of the range, taken or not.
FirstFree(h, from, taken) ==
  IF from >= LastHost THEN h = from
  ELSE /\ h \in from .. LastHost
       /\ \A k \in from .. h - 1 : k \in taken
       /\ h \in taken => h = LastHost

\* Where a device has a leg whatever is taken: the firewall and the attack machine
\* replace the leg of their home zone.
FixedZones(d) ==
  CASE d.category = "firewall" -> {"ot", "control", "plant-dmz", "attacker"}
    [] d.category = "attack-machine" -> {"attacker", "internet-dmz"}
    [] OTHER -> {HomeZone(d)}

\* Where it gets one more, in the upper range: the OT leg of a workstation, the tab
\* an attack machine was dropped on, extraNetworks.
OwnLeg(d) ==
  CASE d.category = "engineering-workstation" -> {"ot"}
    [] d.category = "attack-machine" -> {lab.drop} \ {None, "attacker", "internet-dmz"}
    [] OTHER -> {}
AutoZones(d) == OwnLeg(d) \cup (d.extra \ FixedZones(d))

AutoFrom(d, z) ==
  IF z \in OwnLeg(d) /\ d.category = "engineering-workstation"
    THEN AutoHost + Len(tally.stations) ELSE AutoHost

FixedLeg(d, z, host) ==
  CASE d.category = "firewall" -> <<zones[z], 254>>
    [] d.category = "attack-machine" /\ z = "attacker" -> d.ip
    [] d.category = "attack-machine" /\ z # "attacker" -> <<zones[z], 250>>
    [] OTHER -> <<resolveDeviceIp(d)[1], host>>

-----------------------------------------------------------------------------
(* References: what a container is told of other devices.                  *)

Ends(w) == {w.source, w.target}
Peers(id) == {x \in UNION {Ends(lab.wires[i]) : i \in DOMAIN lab.wires} :
                \E i \in DOMAIN lab.wires : Ends(lab.wires[i]) = {id, x}}
PeersOf(id, categories) == {x \in Peers(id) : IsA(lab, x, categories)}

\* The unit an edge binds a controller to.  A pipe names the controller in
\* coilSource and one of its ends is the unit, the target first; any other edge
\* joins the two directly.
Binds(w, plc) ==
  LET unit(x) == IsA(lab, x, {"process-unit"})
  IN  IF w.coil # None
        THEN IF w.coil # plc \/ ~IsA(lab, plc, Controllers) THEN None
             ELSE IF unit(w.target) THEN w.target
             ELSE IF unit(w.source) THEN w.source ELSE None
        ELSE IF w.source = plc /\ unit(w.target) THEN w.target
             ELSE IF w.target = plc /\ unit(w.source) THEN w.source ELSE None

\* A later edge overrides an earlier one.
plcToProcessUnitNodeId(plc) ==
  LET Bound(w) == Binds(w, plc) # None
  IN  IF Some(lab.wires, Bound) THEN {Binds(LastOf(lab.wires, Bound), plc)} ELSE {}

\* pmuToGeneratorNodeId and iiotSensorToGatewayNodeId: the last direct edge to one.
LastPeer(id, fits) ==
  LET other(w) == IF w.source = id THEN w.target ELSE w.source
      Joins(w) == id \in Ends(w) /\ other(w) \in fits
  IN  IF Some(lab.wires, Joins) THEN {other(LastOf(lab.wires, Joins))} ELSE {}

FirstDevice(category) ==
  LET Is(d) == d.category = category
  IN  IF Some(lab.devices, Is) THEN {FirstOf(lab.devices, Is).id} ELSE {}

\* The devices each category is told the address of.
Targets(d) ==
  CASE d.category \in Controllers ->
         plcToProcessUnitNodeId(d.id)                           \* PROCESS_SIM_IP
         \cup IF d.category = "safety-plc"
                THEN PeersOf(d.id, {"smart-sensor"}) ELSE {}    \* SIS_MBCONFIG_B64
    [] d.category = "pmu" ->                                    \* GENERATOR_IP
         LastPeer(d.id, {u \in Ids(lab) : IsA(lab, u, {"process-unit"})
                                           /\ Device(lab, u).kind = "generator"})
    [] d.category = "iiot-sensor" ->                            \* MQTT_BROKER_IP
         LastPeer(d.id, {g \in Ids(lab) : IsA(lab, g, {"iot-gateway"})})
    [] d.category \in {"dcs-controller", "iot-gateway"} ->      \* ..._FIELD_DEVICES
         PeersOf(d.id, FieldDevices)
    [] d.category = "attack-machine" ->                         \* PLC_IP, dns
         FirstDevice("plc") \cup FirstDevice("dns-server")
    [] d.category = "dns-server" -> FirstDevice("email-server") \* MAIL_SERVER_IP
    [] OTHER -> {}

\* Mutant of AddressOf: the address of the file, whatever the peer was given.
AddressOfFile(id, given) == resolveDeviceIp(Device(lab, id))

\* The address of a target: the one it has been given, or, when its turn has not
\* come yet, the one it would have without renumbering.
AddressOf(id, given) ==
  IF id \in DOMAIN given THEN given[id] ELSE resolveDeviceIp(Device(lab, id))

\* Routes that go through the firewall: of an attack machine into the plant, except
\* into the zone it sits in, and of a camera out of each of its extra networks.
Routes(d) ==
  CASE d.category = "attack-machine" ->
         {<<z, <<zones["attacker"], 254>>>> : z \in {"ot", "control", "plant-dmz"} \ {lab.drop}}
    [] d.category = "ip-camera" ->
         {<<z, <<zones[x], 254>>>> : x \in d.extra,
             z \in Zones \ (d.extra \cup {"attacker", ZoneOfBlock(d.ip[1])})}
    [] OTHER -> {}

\* Extra capabilities: raw sockets and routing.
CapAdd(d) == d.category \in {"switch", "router", "profinet-device", "firewall", "attack-machine"}
             \/ Routes(d) # {}

-----------------------------------------------------------------------------
(* Host ports.                                                             *)

PLC_WEB_PORT_BASE == 18080
PLC_MODBUS_PORT_BASE == 18550
PROC_MODBUS_PORT_BASE == 18700
ATTACK_NOVNC_PORT_BASE == 6900
WORKSTATION_NOVNC_PORT_BASE == 6800

Published(d) ==
  CASE d.category \in Controllers -> {PLC_WEB_PORT_BASE + Len(tally.plcs),
                                      PLC_MODBUS_PORT_BASE + Len(tally.plcs)}
    [] d.category = "process-unit" -> {PROC_MODBUS_PORT_BASE + Len(tally.units)}
    [] d.category = "engineering-workstation" ->
         {WORKSTATION_NOVNC_PORT_BASE + Len(tally.stations)}
    [] d.category = "attack-machine" -> {ATTACK_NOVNC_PORT_BASE + tally.attackers}
    [] OTHER -> {}

Counted(d) ==
  [plcs |-> IF d.category \in Controllers
              THEN Append(tally.plcs, SafeName[d.id]) ELSE tally.plcs,
   units |-> IF d.category = "process-unit"
              THEN Append(tally.units, SafeName[d.id]) ELSE tally.units,
   stations |-> IF d.category = "engineering-workstation"
              THEN Append(tally.stations, SafeName[d.id]) ELSE tally.stations,
   attackers |-> IF d.category = "attack-machine"
              THEN tally.attackers + 1 ELSE tally.attackers]

Before(sc, id, categories) ==
  Cardinality({i \in DOMAIN sc.devices : sc.devices[i].category \in categories
                 /\ \E j \in DOMAIN sc.devices : j > i /\ sc.devices[j].id = id})

\* Mutant of activePorts: the Modbus ports count from the base of the web ports.
activePortsOneBase(sc) ==
  LET of(categories, base) ==
        [x \in {y \in Ids(sc) : IsA(sc, y, categories)} |-> base + Before(sc, x, categories)]
  IN  [plcWeb    |-> of({"plc", "safety-plc"}, PLC_WEB_PORT_BASE),
       plcModbus |-> of({"plc", "safety-plc"}, PLC_WEB_PORT_BASE),
       attack    |-> of({"attack-machine"}, ATTACK_NOVNC_PORT_BASE),
       station   |-> of({"engineering-workstation"}, WORKSTATION_NOVNC_PORT_BASE)]

\* Mutant of activePorts: attack machines and workstations share one counter.
activePortsShared(sc) ==
  LET desktops == {"attack-machine", "engineering-workstation"}
      of(categories, counted, base) ==
        [x \in {y \in Ids(sc) : IsA(sc, y, categories)} |-> base + Before(sc, x, counted)]
      plcs == {"plc", "safety-plc"}
  IN  [plcWeb    |-> of(plcs, plcs, PLC_WEB_PORT_BASE),
       plcModbus |-> of(plcs, plcs, PLC_MODBUS_PORT_BASE),
       attack    |-> of({"attack-machine"}, desktops, ATTACK_NOVNC_PORT_BASE),
       station   |-> of({"engineering-workstation"}, desktops, WORKSTATION_NOVNC_PORT_BASE)]

\* The loop of simulation:start.  It does not count batch controllers.
activePorts(sc) ==
  LET of(categories, base) ==
        [x \in {y \in Ids(sc) : IsA(sc, y, categories)} |-> base + Before(sc, x, categories)]
  IN  [plcWeb    |-> of({"plc", "safety-plc"}, PLC_WEB_PORT_BASE),
       plcModbus |-> of({"plc", "safety-plc"}, PLC_MODBUS_PORT_BASE),
       attack    |-> of({"attack-machine"}, ATTACK_NOVNC_PORT_BASE),
       station   |-> of({"engineering-workstation"}, WORKSTATION_NOVNC_PORT_BASE)]

NoPorts == [plcWeb |-> <<>>, plcModbus |-> <<>>, attack |-> <<>>, station |-> <<>>]
NoTally == [plcs |-> <<>>, units |-> <<>>, stations |-> <<>>, attackers |-> 0]
NoZones == [z \in Zones |-> None]

-----------------------------------------------------------------------------
(* The pass.                                                               *)

PlanInit ==
  /\ lab = None /\ zones = NoZones /\ ports = NoPorts
  /\ next = 0 /\ services = <<>> /\ claimed = <<>>
  /\ used = [z \in Zones |-> reservedHosts] /\ tally = NoTally
  /\ composed = FALSE /\ up = FALSE

\* simulation:start up to generateCompose: the port maps, the networks, an empty file.
BeginStart(sc, settings, inUse) ==
  /\ lab = None
  /\ lab' = sc /\ ports' = activePorts(sc) /\ zones' = resolveZones(settings, inUse)
  /\ next' = 1 /\ services' = <<>> /\ claimed' = <<>>
  /\ used' = [z \in Zones |-> reservedHosts] /\ tally' = NoTally
  /\ UNCHANGED <<composed, up>>

Hosts == UserHost .. 254

AutoHosts == AutoHost .. LastHost + Len(lab.devices)

\* A host octet below 10 is moved up to the first one for devices.
Preferred(d) == IF d.ip[2] < UserHost THEN UserHost ELSE d.ip[2]

\* One turn of the device loop.  The address in the home zone is claimed for every
\* device, also for those whose leg there is then replaced.
ComposeDevice ==
  /\ lab # None /\ next \in DOMAIN lab.devices
  /\ next' = next + 1
  /\ UNCHANGED <<lab, zones, ports, composed, up>>
  /\ LET d == lab.devices[next]
     IN  IF d.category \in CanvasOnly THEN UNCHANGED <<services, claimed, used, tally>>
         ELSE \E h \in {k \in Hosts : FirstFree(k, Preferred(d), used[HomeZone(d)])},
                 auto \in [AutoZones(d) -> AutoHosts] :
           LET taken == [used EXCEPT ![HomeZone(d)] = @ \cup {h}]
               given == Merge(claimed, [x \in {d.id} |-> <<resolveDeviceIp(d)[1], h>>])
               legs  == Merge([z \in FixedZones(d) |-> FixedLeg(d, z, h)],
                              [z \in AutoZones(d) |-> <<zones[z], auto[z]>>])
           IN  /\ \A z \in AutoZones(d) : FirstFree(auto[z], AutoFrom(d, z), taken[z])
               /\ used' = [z \in Zones |-> IF z \in AutoZones(d)
                             THEN taken[z] \cup {auto[z]} ELSE taken[z]]
               /\ claimed' = given /\ tally' = Counted(d)
               /\ services' = Merge(services, [s \in {SafeName[d.id]} |->
                    [of |-> d.id, legs |-> legs, ports |-> Published(d), routes |-> Routes(d),
                     caps |-> CapAdd(d),
                     refs |-> {<<t, AddressOf(t, given)>> : t \in Targets(d)}]])

\* The fixed services: Suricata and Zeek share the host's network, the others sit in
\* control and those with a host port on the monitoring network too.
Fixed(legs, published) ==
  [of |-> None, legs |-> legs, ports |-> published, routes |-> {}, caps |-> FALSE, refs |-> {}]
FixedNames == {"suricata", "zeek", "influxdb", "loki", "grafana", "promtail", "fuxa"}
FixedServices ==
  LET control(k) == [z \in {"control"} |-> <<zones["control"], LastHost + k>>]
      monitor(k) == [z \in {"monitoring"} |-> <<MonitorBlock(zones), k>>]
      ot(k)      == [z \in {"ot"} |-> <<zones["ot"], LastHost + k>>]
  IN  [s \in FixedNames |->
        CASE s \in {"suricata", "zeek"} -> Fixed(<<>>, {})
          [] s = "influxdb" -> Fixed(control(0), {})
          [] s = "loki"     -> Fixed(Merge(control(1), monitor(3)), {3100})
          [] s = "grafana"  -> Fixed(Merge(control(2), monitor(2)), {3000})
          [] s = "promtail" -> Fixed(control(4), {})
          [] s = "fuxa"     -> Fixed(Merge(Merge(control(3), ot(3)), monitor(4)), {1881})]

\* Monitoring legs: PLCs from .10, process units from .20, workstations from .30; a
\* later list overrides an earlier one, a later position an earlier one.
MonitorLeg(s) ==
  LET leg(list, from) == [z \in {"monitoring"} |-> <<MonitorBlock(zones),
        from - 1 + CHOOSE i \in DOMAIN list : list[i] = s /\ \A j \in i + 1 .. Len(list) : list[j] # s>>]
      In(list) == \E i \in DOMAIN list : list[i] = s
  IN  IF In(tally.stations) THEN leg(tally.stations, 30)
      ELSE IF In(tally.units) THEN leg(tally.units, 20)
      ELSE IF In(tally.plcs) THEN leg(tally.plcs, 10)
      ELSE <<>>

\* WS_PLC_WEBUIS: every workstation is told every controller's address.
WebUis(s) ==
  IF \E i \in DOMAIN tally.stations : tally.stations[i] = s
    THEN {<<x, claimed[x]>> : x \in {y \in DOMAIN claimed : IsA(lab, y, Controllers)}}
    ELSE {}

ComposeServices ==
  /\ lab # None /\ ~composed /\ next = Len(lab.devices) + 1
  /\ services' = Merge([s \in DOMAIN services |->
       [services[s] EXCEPT !.legs = Merge(@, MonitorLeg(s)), !.refs = @ \cup WebUis(s)]],
       FixedServices)
  /\ composed' = TRUE
  /\ UNCHANGED <<lab, zones, next, claimed, used, tally, ports, up>>

LegsFit == \A s \in DOMAIN services : \A z \in DOMAIN services[s].legs :
  services[s].legs[z][1] = Network(z)

ForgetFile ==
  /\ lab' = None /\ next' = 0 /\ services' = <<>> /\ claimed' = <<>>
  /\ used' = [z \in Zones |-> reservedHosts] /\ tally' = NoTally /\ composed' = FALSE

\* docker compose up: it refuses a container whose address is outside its network.
ContainersUp ==
  /\ composed /\ ~up /\ LegsFit
  /\ up' = TRUE
  /\ UNCHANGED <<lab, zones, next, services, claimed, used, tally, ports, composed>>

\* It fails, for that or for any other reason: the port maps and the zones stay.
StartFails ==
  /\ composed /\ ~up
  /\ ForgetFile /\ UNCHANGED <<zones, ports, up>>

\* simulation:stop.
StopLab ==
  /\ up /\ up' = FALSE
  /\ ForgetFile /\ zones' = NoZones /\ ports' = NoPorts

PlanStep == ComposeDevice \/ ComposeServices \/ ContainersUp \/ StartFails \/ StopLab

-----------------------------------------------------------------------------
(* Properties of the file.                                                 *)

Category(s) == IF services[s].of = None THEN None ELSE Device(lab, services[s].of).category
InFileOrder(a, b) ==
  \E i, j \in DOMAIN lab.devices : i < j /\ lab.devices[i].id = a /\ lab.devices[j].id = b

\* No two containers get one address on one network: whatever the addresses of the
\* file, claimIp and the reserved host octets see to it.  Outside the promise are
\* the host octets at and above the end of the range, which are given as asked, and
\* the attacker network, where an attack machine keeps the address of the file.
AddressesOnce ==
  \A s, t \in DOMAIN services : s # t =>
    \A z \in DOMAIN services[s].legs \cap DOMAIN services[t].legs \cap Zones :
      services[s].legs[z] = services[t].legs[z] =>
        \/ services[s].legs[z][2] >= LastHost
        \/ z = "attacker" /\ "attack-machine" \in {Category(s), Category(t)}

\* Every leg lies in the network its zone gets at this start, whatever networks the
\* file was written with; only a device of an unknown network, and an attack machine
\* on the attacker network, keep what the file says.
LegsResolved ==
  \A s \in DOMAIN services : \A z \in DOMAIN services[s].legs \cap Zones :
    \/ services[s].legs[z][1] = zones[z]
    \/ services[s].of # None /\ LET d == Device(lab, services[s].of)
                              IN  \/ ZoneOfBlock(d.ip[1]) = None
                                  \/ d.category = "attack-machine" /\ z = "attacker"

\* A container is told the address its peer really has.  When the peer comes later in
\* the file it is told the one the peer asks for, which the peer may not get.
RefsTrue ==
  composed => \A s \in DOMAIN services : \A ref \in services[s].refs :
    ref[1] \in DOMAIN claimed =>
      \/ ref[2] = claimed[ref[1]]
      \/ /\ InFileOrder(services[s].of, ref[1])
         /\ Device(lab, ref[1]).ip[2] # claimed[ref[1]][2]

\* Addresses are sound: given once, and in the networks of this start.
AddressesSound == AddressesOnce /\ LegsResolved

\* And what containers are told of each other's addresses is true.
PlanSound == AddressesSound /\ RefsTrue

\* "overrides ZONE_DEFAULTS so every Docker network and infrastructure container IP
\* uses the conflict-free subnets" (compose-generator.ts 321-325).  Not so: a declared
\* segment keeps the subnet of the file, and then the legs do not fit it.
LegsInNetwork == composed => LegsFit

\* The port main talks to for a device is one its container publishes: "same iteration
\* order and base ports as compose-generator.ts" (index.ts 1121-1123).
Reaches(id, port) == port \in services[SafeName[id]].ports
PortMapsAgree ==
  composed =>
    /\ \A id \in DOMAIN ports.plcWeb : Reaches(id, ports.plcWeb[id])
    /\ \A id \in DOMAIN ports.plcModbus : Reaches(id, ports.plcModbus[id])
    /\ \A id \in DOMAIN ports.attack : Reaches(id, ports.attack[id])
    /\ \A id \in DOMAIN ports.station : Reaches(id, ports.station[id])

\* As long as no batch controller precedes a PLC, and the service names of the devices
\* are their own and of no fixed service, the two loops agree.
OneName == /\ \A a, b \in Ids(lab) : SafeName[a] = SafeName[b] => a = b
           /\ \A a \in Ids(lab) : SafeName[a] \notin FixedNames
PortsReach ==
  composed /\ OneName =>
    /\ \A id \in DOMAIN ports.plcModbus :
         \/ Reaches(id, ports.plcModbus[id]) /\ Reaches(id, ports.plcWeb[id])
         \/ \E b \in Ids(lab) : IsA(lab, b, {"batch-controller"}) /\ InFileOrder(b, id)
    /\ \A id \in DOMAIN ports.attack : Reaches(id, ports.attack[id])
    /\ \A id \in DOMAIN ports.station : Reaches(id, ports.station[id])
=============================================================================
