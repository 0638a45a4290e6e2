---------------------------- MODULE ConnectionRules ----------------------------
(***************************************************************************)
(* Which devices of a plant may be wired to which, with what protocol and  *)
(* over what cable: the tables of connectionRules.ts, the menus of the     *)
(* canvas and the palette that offers the devices.  Device categories,     *)
(* protocols and cables are the strings the code uses.  The order of the   *)
(* protocols in a list (first is recommended) and every text shown are     *)
(* left out.                                                               *)
(***************************************************************************)
EXTENDS FiniteSets, TLC

Infrastructure == {"switch", "router", "firewall", "ids-ips"}
Untagged == {"none"}

\* A rule <<S, T, P>>: a device of a category in S may be wired to one of a
\* category in T with any protocol in P.

\* Controllers of the process level and the outstations they poll.
ControllerRules ==
  { <<{"ethernetip-adapter", "iec61850-ied", "ied", "plc", "profinet-device", "rtu"}, Infrastructure,
       Untagged>>,
    <<{"ied"}, {"historian", "hmi", "ied", "rtu", "scada-server", "smart-sensor"}, {"dnp3", "iec61850"}>>,
    <<{"ied"}, {"iec104-rtu"}, {"dnp3", "iec-104"}>>,
    <<{"ied"}, {"legacy-plc"}, {"s7comm"}>>,
    <<{"ied"}, {"plc"}, {"iec61850", "modbus-tcp"}>>,
    <<{"plc"}, {"ethernetip-adapter"}, {"ethernet-ip"}>>,
    <<{"plc"}, {"historian", "hmi"}, {"modbus-tcp", "opc-ua"}>>,
    <<{"plc"}, {"iec104-rtu", "process-unit"}, {"modbus-rtu", "modbus-tcp"}>>,
    <<{"plc"}, {"ied"}, {"iec61850", "modbus-tcp"}>>,
    <<{"plc"}, {"plc", "safety-plc"}, {"ethernet-ip", "modbus-tcp"}>>,
    <<{"plc"}, {"profinet-device"}, {"profinet"}>>,
    <<{"plc"}, {"rtu"}, {"dnp3", "modbus-rtu", "modbus-tcp"}>>,
    <<{"plc"}, {"sensor", "smart-controller"}, {"ethernet-ip", "modbus-ascii", "modbus-rtu",
       "modbus-tcp"}>>,
    <<{"plc"}, {"smart-sensor"}, {"modbus-ascii", "modbus-rtu", "modbus-tcp", "opc-ua"}>>,
    <<{"plc", "rtu"}, {"iec61850-ied"}, {"iec61850"}>>,
    <<{"plc", "rtu"}, {"legacy-plc"}, {"modbus-tcp", "s7comm"}>>,
    <<{"rtu"}, {"historian"}, {"dnp3"}>>,
    <<{"rtu"}, {"hmi", "scada-server"}, {"dnp3", "modbus-tcp"}>>,
    <<{"rtu"}, {"iec104-rtu"}, {"iec-104", "modbus-tcp"}>>,
    <<{"rtu"}, {"ied"}, {"dnp3", "iec61850"}>>,
    <<{"rtu"}, {"plc", "sensor", "smart-controller", "smart-sensor"}, {"dnp3", "modbus-rtu",
       "modbus-tcp"}>>,
    <<{"rtu"}, {"process-unit"}, {"modbus-rtu", "modbus-tcp"}>> }

\* Cameras, safety, distributed and batch controllers, phasor units.
ProcessRules ==
  { <<{"batch-controller"}, {"historian", "hmi", "scada-server"}, {"modbus-tcp", "opc-ua"}>>,
    <<{"batch-controller", "dcs-controller", "pmu", "safety-plc"}, Infrastructure \cup
       {"engineering-workstation"}, Untagged>>,
    <<{"batch-controller", "pmu"}, {"process-unit"}, {"modbus-tcp"}>>,
    <<{"dcs-controller"}, {"historian", "hmi", "plc", "scada-server"}, {"modbus-tcp", "opc-ua"}>>,
    <<{"dcs-controller"}, {"rtu"}, {"modbus-tcp"}>>,
    <<{"dcs-controller"}, {"sensor", "smart-sensor"}, {"modbus-rtu", "modbus-tcp", "opc-ua"}>>,
    <<{"dcs-controller"}, {"smart-controller"}, {"ethernet-ip", "modbus-rtu", "modbus-tcp"}>>,
    <<{"ip-camera"}, Infrastructure, Untagged>>,
    <<{"pmu"}, {"historian", "hmi", "scada-server"}, {"c37118"}>>,
    <<{"safety-plc"}, {"historian"}, {"opc-ua"}>>,
    <<{"safety-plc"}, {"hmi"}, {"modbus-tcp", "opc-ua"}>>,
    <<{"safety-plc"}, {"plc"}, {"ethernet-ip", "modbus-tcp"}>>,
    <<{"safety-plc"}, {"sensor", "smart-controller"}, {"ethernet-ip", "modbus-rtu", "modbus-tcp"}>>,
    <<{"safety-plc"}, {"smart-sensor"}, {"modbus-rtu", "modbus-tcp"}>> }

\* Operator stations, archives, masters, and simulated process units.
SupervisoryRules ==
  { <<{"historian"}, {"batch-controller", "dcs-controller", "plc"}, {"modbus-tcp", "opc-ua"}>>,
    <<{"historian"}, {"hmi"}, {"none", "opc-ua"}>>,
    <<{"historian"}, {"rtu"}, {"dnp3"}>>,
    <<{"historian"}, {"safety-plc"}, {"opc-ua"}>>,
    <<{"historian"}, {"smart-sensor"}, {"dnp3", "modbus-tcp", "opc-ua"}>>,
    <<{"historian", "hmi"}, {"process-unit"}, {"modbus-tcp"}>>,
    <<{"historian", "hmi", "process-unit", "scada-server"}, Infrastructure, Untagged>>,
    <<{"historian", "hmi", "scada-server"}, {"iec104-rtu"}, {"iec-104"}>>,
    <<{"historian", "hmi", "scada-server"}, {"iec61850-ied"}, {"iec61850"}>>,
    <<{"historian", "hmi", "scada-server"}, {"ied"}, {"dnp3", "iec61850"}>>,
    <<{"historian", "hmi", "scada-server"}, {"legacy-plc"}, {"opc-ua", "s7comm"}>>,
    <<{"historian", "hmi", "scada-server"}, {"pmu"}, {"c37118"}>>,
    <<{"historian", "hmi", "scada-server"}, {"sensor"}, {"bacnet"}>>,
    <<{"historian", "scada-server"}, {"iot-gateway"}, {"mqtt", "opc-ua"}>>,
    <<{"hmi"}, {"batch-controller", "dcs-controller", "plc", "safety-plc"}, {"modbus-tcp", "opc-ua"}>>,
    <<{"hmi"}, {"historian", "scada-server"}, {"none", "opc-ua"}>>,
    <<{"hmi", "scada-server"}, {"rtu"}, {"dnp3", "modbus-tcp"}>>,
    <<{"process-unit"}, {"process-unit", "sensor", "smart-controller", "smart-sensor"}, {"modbus-tcp",
       "none"}>>,
    <<{"scada-server"}, {"batch-controller", "dcs-controller", "safety-plc"}, {"modbus-tcp", "opc-ua"}>>,
    <<{"scada-server"}, {"historian", "hmi"}, {"none", "opc-ua"}>>,
    <<{"scada-server"}, {"plc"}, {"dnp3", "modbus-tcp", "opc-ua"}>>,
    <<{"scada-server"}, {"smart-sensor"}, {"dnp3", "opc-ua"}>> }

\* Legacy controllers, field instruments and wireless gear.
FieldRules ==
  { <<{"iec104-rtu"}, {"historian", "hmi", "iec104-rtu", "legacy-plc", "rtu"}, {"iec-104"}>>,
    <<{"iec104-rtu"}, {"ied"}, {"dnp3", "iec-104"}>>,
    <<{"iec104-rtu"}, {"plc"}, {"iec-104", "modbus-tcp"}>>,
    <<{"iec104-rtu"}, {"sensor", "smart-controller", "smart-sensor"}, {"modbus-rtu", "modbus-tcp"}>>,
    <<{"iec104-rtu", "legacy-plc"}, Infrastructure, Untagged>>,
    <<{"iiot-sensor"}, {"iot-gateway"}, {"mqtt"}>>,
    <<{"iiot-sensor"}, {"wap"}, Untagged>>,
    <<{"iot-gateway"}, {"firewall", "router", "switch"}, Untagged>>,
    <<{"iot-gateway"}, {"historian", "scada-server"}, {"mqtt", "opc-ua"}>>,
    <<{"iot-gateway"}, {"iiot-sensor"}, {"mqtt"}>>,
    <<{"iot-gateway"}, {"sensor"}, {"modbus-rtu", "modbus-tcp"}>>,
    <<{"iot-gateway"}, {"smart-sensor"}, {"modbus-tcp", "mqtt"}>>,
    <<{"legacy-plc"}, {"historian", "hmi"}, {"modbus-tcp", "opc-ua", "s7comm"}>>,
    <<{"legacy-plc"}, {"iec104-rtu"}, {"modbus-tcp"}>>,
    <<{"legacy-plc"}, {"ied", "legacy-plc"}, {"s7comm"}>>,
    <<{"legacy-plc"}, {"plc", "rtu"}, {"modbus-tcp", "s7comm"}>>,
    <<{"legacy-plc"}, {"sensor", "smart-controller", "smart-sensor"}, {"modbus-rtu", "modbus-tcp",
       "s7comm"}>>,
    <<{"sensor"}, {"engineering-workstation"}, {"bacnet", "none"}>>,
    <<{"sensor"}, {"historian", "hmi", "scada-server"}, {"bacnet"}>>,
    <<{"sensor"}, {"iec104-rtu"}, {"modbus-rtu", "modbus-tcp"}>>,
    <<{"sensor"}, {"router", "switch"}, Untagged>>,
    <<{"sensor"}, {"safety-plc"}, {"ethernet-ip", "modbus-rtu", "modbus-tcp"}>>,
    <<{"sensor", "smart-controller"}, {"ied"}, {"dnp3"}>>,
    <<{"sensor", "smart-controller"}, {"plc"}, {"ethernet-ip", "modbus-ascii", "modbus-rtu",
       "modbus-tcp"}>>,
    <<{"sensor", "smart-controller", "smart-sensor"}, {"legacy-plc"}, {"modbus-rtu", "modbus-tcp",
       "s7comm"}>>,
    <<{"sensor", "smart-sensor"}, {"dcs-controller"}, {"modbus-rtu", "modbus-tcp", "opc-ua"}>>,
    <<{"sensor", "smart-sensor"}, {"iot-gateway"}, {"modbus-tcp", "mqtt"}>>,
    <<{"sensor", "smart-sensor"}, {"process-unit", "smart-controller"}, {"modbus-tcp", "none"}>>,
    <<{"sensor", "smart-sensor"}, {"rtu"}, {"dnp3", "modbus-rtu", "modbus-tcp"}>>,
    <<{"smart-controller"}, {"dcs-controller", "safety-plc"}, {"ethernet-ip", "modbus-rtu", "modbus-tcp"}>>,
    <<{"smart-controller"}, {"iec104-rtu", "rtu"}, {"modbus-rtu", "modbus-tcp"}>>,
    <<{"smart-controller"}, {"process-unit", "sensor", "smart-controller", "smart-sensor"}, {"modbus-tcp",
       "none"}>>,
    <<{"smart-sensor"}, {"historian"}, {"dnp3", "modbus-tcp", "opc-ua"}>>,
    <<{"smart-sensor"}, {"iec104-rtu", "safety-plc"}, {"modbus-rtu", "modbus-tcp"}>>,
    <<{"smart-sensor"}, {"ied"}, {"dnp3", "iec61850"}>>,
    <<{"smart-sensor"}, {"plc"}, {"modbus-ascii", "modbus-rtu", "modbus-tcp", "opc-ua"}>>,
    <<{"smart-sensor"}, {"scada-server"}, {"dnp3", "opc-ua"}>> }

\* Name service, gateways between zones, engineering and middleware.
AccessRules ==
  { <<{"application-server"}, Infrastructure \cup {"database-server", "domain-controller",
       "engineering-workstation", "hmi"}, Untagged>>,
    <<{"application-server", "engineering-workstation"}, {"historian"}, {"none", "opc-ua"}>>,
    <<{"data-diode"}, {"application-server", "firewall", "historian", "router", "switch"}, Untagged>>,
    <<{"database-server"}, Infrastructure \cup {"application-server", "domain-controller", "historian"},
       Untagged>>,
    <<{"dns-server"}, Infrastructure, Untagged>>,
    <<{"engineering-workstation"}, Infrastructure \cup {"application-server", "batch-controller",
       "dcs-controller", "hmi", "iec104-rtu", "ied", "iot-gateway", "legacy-plc", "plc", "rtu", "safety-plc"},
       Untagged>>,
    <<{"engineering-workstation"}, {"ethernetip-adapter"}, {"ethernet-ip", "none"}>>,
    <<{"engineering-workstation"}, {"iec61850-ied"}, {"iec61850", "none"}>>,
    <<{"engineering-workstation"}, {"pmu"}, {"c37118", "none"}>>,
    <<{"engineering-workstation"}, {"profinet-device"}, {"none", "profinet"}>>,
    <<{"engineering-workstation"}, {"sensor"}, {"bacnet", "none"}>>,
    <<{"jump-server"}, Infrastructure \cup {"engineering-workstation", "hmi", "ied", "plc", "rtu",
       "scada-server"}, Untagged>>,
    <<{"wap"}, {"engineering-workstation", "enterprise-desktop", "firewall", "hmi", "iiot-sensor", "router",
       "switch"}, Untagged>> }

\* Office servers, and the devices at a zone's border.
EnterpriseRules ==
  { <<{"business-server"}, {"database-server", "domain-controller", "firewall", "router", "switch"},
       Untagged>>,
    <<{"domain-controller"}, {"application-server", "business-server", "database-server",
       "engineering-workstation", "enterprise-desktop", "firewall", "router", "switch"}, Untagged>>,
    <<{"email-server", "internet-server", "web-server"}, Infrastructure, Untagged>>,
    <<{"enterprise-desktop"}, {"application-server", "business-server", "domain-controller", "firewall",
       "router", "switch"}, Untagged>>,
    <<{"firewall", "ids-ips"}, Infrastructure \cup {"application-server", "attack-machine",
       "batch-controller", "business-server", "data-diode", "database-server", "dcs-controller", "dns-server",
       "domain-controller", "email-server", "engineering-workstation", "enterprise-desktop",
       "ethernetip-adapter", "historian", "hmi", "iec104-rtu", "iec61850-ied", "ied", "iiot-sensor",
       "internet-server", "iot-gateway", "ip-camera", "jump-server", "legacy-plc", "plc", "pmu",
       "process-unit", "profinet-device", "rtu", "safety-plc", "scada-server", "sensor", "smart-controller",
       "smart-sensor", "wap", "web-server"}, Untagged>> }

\* Switches and routers pass anything through.
SwitchingRules ==
  { <<{"router", "switch"}, Infrastructure \cup {"application-server", "attack-machine", "batch-controller",
       "business-server", "data-diode", "database-server", "dcs-controller", "dns-server", "domain-controller",
       "email-server", "engineering-workstation", "enterprise-desktop", "ethernetip-adapter", "historian",
       "hmi", "iec104-rtu", "iec61850-ied", "ied", "iiot-sensor", "internet-server", "iot-gateway",
       "ip-camera", "jump-server", "legacy-plc", "plc", "pmu", "process-unit", "profinet-device", "rtu",
       "safety-plc", "scada-server", "sensor", "smart-controller", "smart-sensor", "wap", "web-server"},
       Untagged>> }

\* The attack machine may attempt any protocol.
AttackRules ==
  { <<{"attack-machine"}, Infrastructure \cup {"application-server", "business-server", "data-diode",
       "database-server", "dns-server", "email-server", "engineering-workstation", "enterprise-desktop",
       "internet-server", "ip-camera", "jump-server", "wap", "web-server"}, Untagged>>,
    <<{"attack-machine"}, {"batch-controller"}, {"modbus-tcp", "none"}>>,
    <<{"attack-machine"}, {"dcs-controller"}, {"modbus-rtu", "modbus-tcp", "none", "opc-ua"}>>,
    <<{"attack-machine"}, {"domain-controller"}, {"kerberos", "ldap", "none", "smb"}>>,
    <<{"attack-machine"}, {"ethernetip-adapter"}, {"ethernet-ip", "none"}>>,
    <<{"attack-machine"}, {"historian", "hmi", "ied", "plc", "process-unit", "rtu", "sensor",
       "smart-controller", "smart-sensor"}, {"bacnet", "dnp3", "ethernet-ip", "iec61850", "modbus-rtu",
       "modbus-tcp", "none", "opc-ua"}>>,
    <<{"attack-machine"}, {"iec104-rtu"}, {"bacnet", "dnp3", "ethernet-ip", "iec-104", "iec61850",
       "modbus-rtu", "modbus-tcp", "none", "opc-ua"}>>,
    <<{"attack-machine"}, {"iec61850-ied"}, {"iec61850", "none"}>>,
    <<{"attack-machine"}, {"iiot-sensor"}, {"mqtt", "none"}>>,
    <<{"attack-machine"}, {"iot-gateway"}, {"modbus-tcp", "mqtt", "none", "opc-ua"}>>,
    <<{"attack-machine"}, {"legacy-plc"}, {"bacnet", "dnp3", "ethernet-ip", "iec61850", "modbus-rtu",
       "modbus-tcp", "none", "opc-ua", "s7comm"}>>,
    <<{"attack-machine"}, {"pmu"}, {"c37118", "none"}>>,
    <<{"attack-machine"}, {"profinet-device"}, {"none", "profinet"}>>,
    <<{"attack-machine"}, {"safety-plc"}, {"ethernet-ip", "modbus-rtu", "modbus-tcp", "none", "opc-ua"}>>,
    <<{"attack-machine"}, {"scada-server"}, {"dnp3", "iec61850", "modbus-rtu", "modbus-tcp", "none",
       "opc-ua"}>> }

\* The whole matrix: each section of the table holds the rows of its own
\* categories.
VALID_CONNECTIONS == ControllerRules \cup ProcessRules \cup SupervisoryRules \cup FieldRules
                       \cup AccessRules \cup EnterpriseRules \cup SwitchingRules \cup AttackRules

\* <<S, C>>: what a device of the process level can terminate.
PlantCables ==
  { <<{"batch-controller", "iec104-rtu", "legacy-plc", "plc", "rtu", "safety-plc"}, {"ac", "cat5e", "cat6",
       "rs232", "rs485"}>>,
    <<{"iec61850-ied", "ied"}, {"ac", "cat5e", "cat6", "mmf", "smf"}>>,
    <<{"ethernetip-adapter", "profinet-device"}, {"ac", "cat5e", "cat6", "cat6a", "mmf", "smf"}>>,
    <<{"dcs-controller"}, {"ac", "cat5e", "cat6", "mmf", "rs232", "rs485", "smf"}>>,
    <<{"pmu", "process-unit"}, {"ac", "cat5e", "cat6"}>>,
    <<{"sensor", "smart-sensor"}, {"cat5e", "dc", "rs485", "wifi"}>>,
    <<{"iiot-sensor"}, {"dc", "wifi"}>>,
    <<{"iot-gateway"}, {"ac", "cat5e", "cat6", "rs485", "wifi"}>>,
    <<{"smart-controller"}, {"ac", "cat5e", "dc", "rs485", "wifi"}>> }

\* The same for the levels above and the attack machine.
OfficeCables ==
  { <<{"hmi", "ip-camera", "wap"}, {"ac", "cat5e", "cat6", "wifi"}>>,
    <<{"historian"}, {"ac", "cat5e", "cat6", "cat6a", "sata"}>>,
    <<{"jump-server", "scada-server"}, {"ac", "cat5e", "cat6", "cat6a", "mmf", "sata", "smf"}>>,
    <<{"application-server", "database-server", "domain-controller", "web-server"}, {"ac", "cat6", "cat6a",
       "mmf", "sata", "smf"}>>,
    <<{"engineering-workstation"}, {"ac", "cat5e", "cat6", "rs232", "wifi"}>>,
    <<{"firewall", "ids-ips"}, {"ac", "cat5e", "cat6", "cat6a", "mmf", "smf"}>>,
    <<{"router", "switch"}, {"ac", "cat5e", "cat6", "cat6a", "mmf", "smf", "wifi"}>>,
    <<{"data-diode"}, {"ac", "cat5e", "cat6", "mmf", "smf"}>>,
    <<{"business-server"}, {"ac", "cat6", "cat6a", "sata"}>>,
    <<{"enterprise-desktop"}, {"ac", "cat6", "cat6a", "wifi"}>>,
    <<{"dns-server", "email-server", "internet-server"}, {"ac", "cat6", "cat6a", "sata", "smf"}>>,
    <<{"attack-machine"}, {"ac", "cat5e", "cat6", "cat6a", "dc", "mmf", "rs232", "rs485", "sata", "smf",
       "wifi"}>> }

\* <<P, C>>: the media a protocol runs over; one that has no entry runs over any.
PROTOCOL_VALID_CABLES ==
  { <<{"bacnet", "iec-104", "modbus-tcp", "mqtt", "opc-ua"}, {"cat5e", "cat6", "cat6a", "mmf", "smf",
       "wifi"}>>,
    <<{"modbus-ascii", "modbus-rtu"}, {"rs232", "rs485"}>>,
    <<{"dnp3"}, {"cat5e", "cat6", "cat6a", "mmf", "rs232", "rs485", "smf", "wifi"}>>,
    <<{"ethernet-ip", "iec61850", "s7comm"}, {"cat5e", "cat6", "cat6a", "mmf", "smf"}>> }

CableType == {"cat5e", "cat6", "cat6a", "smf", "mmf", "rs232", "rs485", "wifi", "sata", "ac", "dc"}

\* The protocols the connection menu can show at all.
CONNECTION_OPTIONS ==
  {"modbus-tcp", "modbus-rtu", "modbus-ascii", "dnp3", "opc-ua", "bacnet", "ethernet-ip",
   "iec61850", "mqtt", "ldap", "kerberos", "smb", "none"}

getValidProtocols(source, target) ==
  UNION {r[3] : r \in {q \in VALID_CONNECTIONS : source \in q[1] /\ target \in q[2]}}

isConnectionValid(source, target, protocol) == protocol \in getValidProtocols(source, target)

\* Mutant: the protocols of rows the device is the target of, too.
getSourceProtocolsEither(source) ==
  UNION {r[3] : r \in {q \in VALID_CONNECTIONS : source \in q[1] \cup q[2]}}

getSourceProtocols(source) == UNION {r[3] : r \in {q \in VALID_CONNECTIONS : source \in q[1]}}

getSourceCables(source) == UNION {r[2] : r \in {q \in PlantCables \cup OfficeCables : source \in q[1]}}

isCableValid(source, target, cable) == cable \in getSourceCables(source) \cap getSourceCables(target)

isProtocolCableCompatible(protocol, cable) ==
  \A r \in PROTOCOL_VALID_CABLES : protocol \in r[1] => cable \in r[2]

\* The zone a device belongs to when the scenario does not say where it stands.
categoryToZone(category) ==
  CASE category = "attack-machine" -> "attacker"
    [] category \in {"domain-controller", "web-server", "business-server", "enterprise-desktop"} -> "enterprise"
    [] category \in {"email-server", "internet-server", "dns-server"} -> "internet-dmz"
    [] category \in {"firewall", "ids-ips", "jump-server", "data-diode", "wap"} -> "plant-dmz"
    [] category \in {"hmi", "historian", "scada-server", "application-server", "database-server",
                     "engineering-workstation"} -> "control"
    [] OTHER -> "ot"

\* What the palette offers on a layer; the attack machine stands on every layer,
\* in a scenario about an insider.
PALETTE(layer) ==
  {"attack-machine"} \cup
  (CASE layer = "ot" ->
          {"plc", "safety-plc", "dcs-controller", "batch-controller", "rtu", "ied", "iec61850-ied",
           "ethernetip-adapter", "profinet-device", "pmu", "sensor", "smart-sensor", "smart-controller",
           "iiot-sensor", "iot-gateway", "legacy-plc", "iec104-rtu", "process-unit"}
     [] layer = "control" ->
          {"hmi", "historian", "scada-server", "engineering-workstation", "application-server", "database-server"}
     [] layer = "plant-dmz" ->
          {"jump-server", "data-diode", "firewall", "ids-ips", "switch", "router", "wap"}
     [] layer = "enterprise" ->
          {"domain-controller", "web-server", "business-server", "enterprise-desktop", "switch", "router"}
     [] layer = "internet-dmz" ->
          {"email-server", "internet-server", "dns-server", "ip-camera", "firewall"}
     [] OTHER -> {})
================================================================================
