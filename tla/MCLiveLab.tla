----------------------------- MODULE MCLiveLab -----------------------------
(* Small labs for LiveLab, one for each way its parts can get into trouble. *)
EXTENDS LiveLab

Names == {"plc1", "plc2", "bc", "ws", "kali", "fw", "ids", "dns", "mail", "cam", "pump",
          "valve", "unit", "gw", "pmu", "iiot", "sis", "s1", "s2", "rtu", "well", "hmi",
          "plc-1", "plc_1"}
MCSafeName == [x \in Names |-> IF x = "plc_1" THEN "plc-1" ELSE x]
MCNs == MCSafeName

At(z, host) == <<ZONE_DEFAULTS[z], host>>
D(id, category, ip) ==
  [id |-> id, category |-> category, ip |-> ip, extra |-> {}, kind |-> None,
   zone |-> "ot", authored |-> FALSE, votes |-> None]
K(id, category, ip, kind) == [D(id, category, ip) EXCEPT !.kind = kind]
W(a, b) == [source |-> a, target |-> b, coil |-> None, coilIndex |-> 0, protocol |-> "modbus-tcp"]
Pipe(a, b, plc, i) == [W(a, b) EXCEPT !.coil = plc, !.coilIndex = i, !.protocol = "pipe"]
Lab(devices, wires) == [devices |-> devices, wires |-> wires, segments |-> <<>>, drop |-> None]

\* Addresses asked for twice or below the range, and peers that come later.
Crowd == Lab(<<D("plc1", "plc", At("ot", 5)), D("bc", "batch-controller", At("ot", 10)),
  D("plc2", "plc", At("ot", 10)), D("hmi", "hmi", At("control", 10)),
  [D("cam", "ip-camera", At("internet-dmz", 10)) EXCEPT !.extra = {"control"}],
  D("ws", "engineering-workstation", At("control", 11)), D("pmu", "pmu", At("ot", 14)),
  D("iiot", "iiot-sensor", At("ot", 14)), D("gw", "iot-gateway", At("control", 12)),
  D("kali", "attack-machine", At("attacker", 10)),
  K("unit", "process-unit", At("ot", 11), "generator")>>,
  <<W("plc1", "unit"), W("unit", "bc"), W("pmu", "unit"), W("iiot", "gw")>>)

\* Everything with fixed legs, a declared segment, an unknown network.
Fenced == [Lab(<<D("kali", "attack-machine", At("attacker", 10)), D("fw", "firewall", At("plant-dmz", 254)),
    D("dns", "dns-server", At("internet-dmz", 5)), D("mail", "email-server", At("internet-dmz", 10)),
    D("plc1", "plc", <<<<99, 9>>, 10>>)>>, <<>>)
  EXCEPT !.segments = <<[zone |-> "ot", subnet |-> ZONE_DEFAULTS["ot"]]>>, !.drop = "ot"]

\* Two ids with one service name.
Twins == Lab(<<D("plc-1", "plc", At("ot", 10)), D("plc_1", "plc", At("ot", 10))>>, <<>>)

Guarded == Lab(<<D("fw", "firewall", At("plant-dmz", 10))>>, <<>>)
Sensed  == Lab(<<D("ids", "ids-ips", At("control", 10))>>, <<>>)

\* A batch controller that drives a pipe after, and before, the PLC that drives another.
Piped(first, second) == Lab(<<D(first, IF first = "bc" THEN "batch-controller" ELSE "plc", At("ot", 10)),
    D(second, IF second = "bc" THEN "batch-controller" ELSE "plc", At("ot", 11)),
    K("valve", "smart-controller", At("ot", 12), "valve")>>,
  <<Pipe("valve", first, first, 0), Pipe("valve", second, second, 1)>>)

Batch == Lab(<<D("bc", "batch-controller", At("ot", 10)), K("unit", "process-unit", At("ot", 11), "batch-reactor")>>,
             <<W("bc", "unit")>>)
\* Two sensors, one of them wired twice, of which two must agree.
Voting == Lab(<<[D("sis", "safety-plc", At("ot", 10)) EXCEPT !.votes = 2],
                D("s1", "smart-sensor", At("ot", 11)), D("s2", "smart-sensor", At("ot", 12))>>,
              <<W("s1", "sis"), W("sis", "s2"), W("s1", "sis")>>)

Operated == Lab(<<K("pump", "smart-controller", At("ot", 10), "pump"),
    K("well", "smart-controller", At("ot", 11), "wellhead-controller"), D("hmi", "hmi", At("control", 10))>>, <<>>)
Handed == Lab(<<K("valve", "smart-controller", At("ot", 10), "valve"), D("rtu", "rtu", At("ot", 12)),
    D("plc1", "plc", At("ot", 13))>>, <<W("plc1", "valve")>>)

\* Every way to draw up to three pipes between a PLC, a pump, a valve and a unit.  The
\* declared segment no longer fits, so these labs are planned and never run.
Drawn == {Pipe("pump", "unit", "plc1", i) : i \in {0, 1}} \cup {Pipe("unit", "valve", "plc1", i) : i \in {0, 1}}
         \cup {Pipe("unit", "plc1", "plc1", 1), W("plc1", "pump"), W("valve", "plc1"), W("plc1", "unit")}
Drawings == {[Lab(<<D("plc1", "plc", At("ot", 10)), K("pump", "smart-controller", At("ot", 11), "pump"),
                    K("valve", "smart-controller", At("ot", 12), "valve"),
                    D("unit", "process-unit", At("ot", 13))>>, w)
               EXCEPT !.segments = <<[zone |-> "ot", subnet |-> ZONE_DEFAULTS["ot"]]>>] :
               w \in UNION {[1 .. n -> Drawn] : n \in 0 .. 3}}

Detect == [autoDetect |-> TRUE, pins |-> None]
Calm(sc) == [scenario |-> sc, settings |-> Detect, inUse |-> {}]
Busy(sc) == [scenario |-> sc, settings |-> Detect, inUse |-> {Block(200, "ot")}]

MCCourses ==
  {<<Busy(Crowd), Calm(Twins)>>, <<Busy(Fenced)>>, <<Calm(Fenced)>>, <<Calm(Guarded), Busy(Guarded)>>, <<Calm(Sensed)>>,
   <<Calm(Piped("plc1", "bc")), Calm(Twins)>>, <<Calm(Piped("bc", "plc1"))>>, <<Calm(Voting)>>, <<Calm(Batch)>>,
   <<Calm(Operated), Calm(Handed)>>}
  \cup {<<Busy(sc)>> : sc \in Drawings}

Rule(source, protocol, port, action) ==
  [source |-> source, destination |-> "ot", protocol |-> protocol, port |-> port, action |-> action]
MCForms == {Rule("any", "tcp", "502", "allow"), Rule("attacker", "any", "any", "deny"),
            Rule("control", "tcp", "NaN", "allow")}
=============================================================================
