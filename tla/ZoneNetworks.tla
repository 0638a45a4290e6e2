---------------------------- MODULE ZoneNetworks ----------------------------
(***************************************************************************)
(* The six zones of the lab and the /24 network each of them gets.         *)
(* network-config.ts picks them and settings.json may pin them.  A network *)
(* is named by the second and third octet of its 10.x.y.0/24 address and   *)
(* an address by its network and its host octet: that is what the string   *)
(* conversions of the code keep.  A CIDR the host uses stands as the set   *)
(* of /24 networks it touches.                                             *)
(***************************************************************************)
EXTENDS Integers, FiniteSets

CONSTANTS
  FirstSecond,    \* 200: the first second octet findFreeSubnets tries
  LastSecond,     \* 210: the last one
  None            \* an absent zone, network, device or setting

ASSUME OctetsAssumption ==
  FirstSecond \in Nat /\ LastSecond \in Nat /\ FirstSecond <= LastSecond

Zones == {"ot", "control", "plant-dmz", "enterprise", "internet-dmz", "attacker"}

\* The third octet is the zone's own, whatever the second one is.
THIRD_OCTET == [z \in Zones |->
  CASE z = "ot" -> 10 [] z = "control" -> 20 [] z = "plant-dmz" -> 30
    [] z = "enterprise" -> 40 [] z = "internet-dmz" -> 50 [] z = "attacker" -> 60]

Seconds == FirstSecond .. LastSecond
Block(s, z) == <<s, THIRD_OCTET[z]>>
Blocks == {Block(s, z) : s \in Seconds, z \in Zones}
ZONE_DEFAULTS == [z \in Zones |-> Block(FirstSecond, z)]

\* cidrsOverlap, over every network in use.
Overlaps(block, used) == block \in used

\* The first candidate of each zone that overlaps nothing; when all of them do,
\* the default stays although it overlaps too.
findFreeSubnets(used) == [z \in Zones |->
  LET free == {s \in Seconds : ~Overlaps(Block(s, z), used)}
  IN  IF free = {} THEN ZONE_DEFAULTS[z]
      ELSE Block(CHOOSE s \in free : \A t \in free : s <= t, z)]

\* settings.json: auto-detection, or a network for each of some zones.  A pinned
\* network is used as entered, a zone without one gets its default.
resolveZones(settings, used) ==
  IF ~settings.autoDetect /\ settings.pins # None
    THEN [z \in Zones |-> IF settings.pins[z] = None THEN ZONE_DEFAULTS[z]
                                                     ELSE settings.pins[z]]
    ELSE findFreeSubnets(used)

\* monitoring-net takes control's second octet and 70: it is never among the
\* networks that are tried against those in use.
MonitorBlock(zones) == <<zones["control"][1], 70>>
=============================================================================
