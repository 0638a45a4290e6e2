---------------------------- MODULE LabCanvasProofs ----------------------------
(***************************************************************************)
(* Theorems about LabCanvas, for any ids, tabs, device categories and      *)
(* scenarios to open, and any number of edits.                             *)
(***************************************************************************)
EXTENDS LabCanvas, WellFoundedInduction, TLAPS

\* An id that is not given out names nothing in the scenario, and no editor of a
\* program is open on it.
FreshInv == Present(scenario) \cap Ids \subseteq given /\ (ide # None /\ ide \in Ids => ide \in given)

Sane(s) == WellFormed(s) /\ OneKali(s) /\ AddressesDistinct(s) /\ AttackersOnly(s)

CanvasInv == TypeOK /\ Sane(scenario) /\ FreshInv

-----------------------------------------------------------------------------

\* Numbers have a least one.
LEMMA NatMin ==
  ASSUME NEW S, S \subseteq Nat, S # {}
  PROVE  \E h \in S : \A g \in S : h <= g
<1> DEFINE R == OpToRel(<, Nat)
<1>1. IsWellFoundedOn(R, Nat)
  BY NatLessThanWellFounded
<1>2. \A x, y \in Nat : x < y => <<x, y>> \in R
  BY DEF OpToRel
<1> HIDE DEF R
<1>3. PICK h \in S : \A g \in S : ~(<<g, h>> \in R)
  BY <1>1, WFMin
<1>4. ASSUME NEW g \in S PROVE h <= g
  <2>1. g \in Nat /\ h \in Nat
    OBVIOUS
  <2>2. ~(g < h)
    BY <1>2, <1>3, <2>1, Zenon
  <2> QED
    BY <2>1, <2>2
<1> QED
  BY <1>4

\* A device that is dropped gets an address nobody in its zone has, if there is one.
LEMMA AddressFree ==
  ASSUME NEW zone
  PROVE  /\ nextAvailableIp(zone) \in Nat
         /\ \/ nextAvailableIp(zone) = LastHost
            \/ \A d \in DOMAIN scenario.devices :
                 scenario.devices[d].zone = zone => scenario.devices[d].host # nextAvailableIp(zone)
<1> DEFINE used == {scenario.devices[d].host : d \in {x \in DOMAIN scenario.devices : scenario.devices[x].zone = zone}}
           free == (FirstHost..LastHost) \ used
<1>1. nextAvailableIp(zone) = IF free = {} THEN LastHost ELSE CHOOSE h \in free : \A g \in free : h <= g
  BY DEF nextAvailableIp
<1>2. FirstHost \in Nat /\ LastHost \in Nat
  BY CanvasAssumption
<1>3. free \subseteq Nat
  BY <1>2
<1>4. \A d \in DOMAIN scenario.devices : scenario.devices[d].zone = zone => scenario.devices[d].host \notin free
  OBVIOUS
<1> HIDE DEF free, used
<1>5. CASE free = {}
  BY <1>1, <1>2, <1>5
<1>6. CASE free # {}
  <2>1. \E h \in free : \A g \in free : h <= g
    BY <1>3, <1>6, NatMin
  <2>2. (CHOOSE h \in free : \A g \in free : h <= g) \in free
    BY <2>1
  <2> QED
    BY <1>1, <1>3, <1>4, <1>6, <2>2
<1> QED
  BY <1>5, <1>6

LEMMA BlankSane ==
  /\ Sane(Blank) /\ Present(Blank) = {}
  /\ \A b : Sane([Blank EXCEPT !.locked = b]) /\ Present([Blank EXCEPT !.locked = b]) = {}
<1>1. ASSUME NEW s, DOMAIN s = {"nodes", "devices", "edges", "sites", "locked"},
             s.nodes = <<>>, s.devices = <<>>, s.edges = <<>>
      PROVE  Sane(s) /\ Present(s) = {}
  <2>1. DOMAIN <<>> = {}
    OBVIOUS
  <2> QED
    BY <1>1, <2>1 DEF Sane, WellFormed, OneKali, AddressesDistinct, AttackersOnly, KaliNodes, KaliDevices, Present
<1>2. /\ DOMAIN Blank = {"nodes", "devices", "edges", "sites", "locked"}
      /\ Blank.nodes = <<>> /\ Blank.devices = <<>> /\ Blank.edges = <<>>
  BY DEF Blank
<1>3. ASSUME NEW b
      PROVE  /\ DOMAIN [Blank EXCEPT !.locked = b] = {"nodes", "devices", "edges", "sites", "locked"}
             /\ [Blank EXCEPT !.locked = b].nodes = <<>> /\ [Blank EXCEPT !.locked = b].devices = <<>>
             /\ [Blank EXCEPT !.locked = b].edges = <<>>
  BY DEF Blank
<1>4. Sane(Blank) /\ Present(Blank) = {}
  BY <1>1, <1>2
<1>5. ASSUME NEW b
      PROVE  Sane([Blank EXCEPT !.locked = b]) /\ Present([Blank EXCEPT !.locked = b]) = {}
  BY <1>1, <1>3
<1> QED
  BY <1>4, <1>5

LEMMA EdgesSane ==
  ASSUME NEW s, NEW t, Sane(s), DOMAIN t = DOMAIN s, t.nodes = s.nodes, t.devices = s.devices,
         \A e \in DOMAIN t.edges : DOMAIN t.edges[e] = {"src", "dst"} /\ {t.edges[e].src, t.edges[e].dst} \subseteq Names
  PROVE  Sane(t) /\ Present(t) = Present(s)
BY DEF Sane, WellFormed, OneKali, AddressesDistinct, AttackersOnly, KaliNodes, KaliDevices, Present

\* Nodes, devices and edges that go leave the rest sane, if no attack machine's node
\* stays without its device.
LEMMA FewerSane ==
  ASSUME NEW s, NEW t, Sane(s), DOMAIN t = DOMAIN s,
         DOMAIN t.nodes \subseteq DOMAIN s.nodes, \A n \in DOMAIN t.nodes : t.nodes[n] = s.nodes[n],
         DOMAIN t.devices \subseteq DOMAIN s.devices, \A n \in DOMAIN t.devices : t.devices[n] = s.devices[n],
         DOMAIN t.edges \subseteq DOMAIN s.edges, \A e \in DOMAIN t.edges : t.edges[e] = s.edges[e],
         KaliNodes(t) \subseteq KaliDevices(t)
  PROVE  Sane(t) /\ Present(t) \subseteq Present(s)
BY DEF Sane, WellFormed, OneKali, AddressesDistinct, AttackersOnly, KaliNodes, KaliDevices, Present

\* A device is put in, with an address of its own, or one the author typed.
LEMMA PutSane ==
  ASSUME NEW s, NEW t, Sane(s), DOMAIN t = DOMAIN s, t.edges = s.edges,
         NEW d \in Names, NEW dev, DOMAIN dev = {"kind", "zone", "host", "typed"}, dev.host \in Nat,
         t.devices = With(s.devices, d, dev),
         \A n \in DOMAIN t.nodes : DOMAIN t.nodes[n] = {"kind", "zone"},
         DOMAIN t.nodes \subseteq DOMAIN s.nodes \cup {d},
         \A n \in DOMAIN t.nodes \ {d} : t.nodes[n] = s.nodes[n],
         d \in DOMAIN t.nodes => (t.nodes[d].kind = Kali => dev.kind = Kali),
         dev.kind = Kali => KaliDevices(s) \subseteq {d},
         dev.zone = "attacker" => dev.typed \/ dev.kind = Kali,
         \/ dev.typed \/ dev.host = LastHost
         \/ \A n \in DOMAIN s.devices : n # d /\ s.devices[n].zone = dev.zone => s.devices[n].typed \/ s.devices[n].host # dev.host
  PROVE  Sane(t) /\ Present(t) \subseteq Present(s) \cup {d}
<1>1. /\ DOMAIN t.devices = DOMAIN s.devices \cup {d} /\ t.devices[d] = dev
      /\ \A n \in DOMAIN s.devices : n # d => t.devices[n] = s.devices[n]
  BY DEF With
<1>2. WellFormed(t) /\ Present(t) \subseteq Present(s) \cup {d}
  BY <1>1 DEF Sane, WellFormed, Present
<1>3. OneKali(t)
  <2>1. \A n \in KaliDevices(t) : n = d \/ n \in KaliDevices(s)
    BY <1>1 DEF KaliDevices
  <2>2. \A n \in KaliNodes(t) : n = d \/ n \in KaliNodes(s)
    BY DEF KaliNodes
  <2>3. \A a, b \in KaliDevices(t) : a = b
    <3>1. CASE dev.kind = Kali
      BY <2>1, <3>1
    <3>2. CASE dev.kind # Kali
      <4>1. d \notin KaliDevices(t)
        BY <1>1, <3>2 DEF KaliDevices
      <4> QED
        BY <2>1, <4>1 DEF Sane, OneKali
    <3> QED
      BY <3>1, <3>2
  <2>4. KaliNodes(t) \subseteq KaliDevices(t)
    <3> SUFFICES ASSUME NEW n \in KaliNodes(t) PROVE n \in KaliDevices(t)
      OBVIOUS
    <3>1. CASE n = d
      BY <1>1, <3>1 DEF KaliNodes, KaliDevices
    <3>2. CASE n # d
      <4>1. n \in KaliDevices(s)
        BY <2>2, <3>2 DEF Sane, OneKali
      <4> QED
        BY <1>1, <3>2, <4>1 DEF KaliDevices
    <3> QED
      BY <3>1, <3>2
  <2> QED
    BY <2>3, <2>4 DEF OneKali
<1>4. AddressesDistinct(t)
  BY <1>1 DEF AddressesDistinct, Sane
<1>5. AttackersOnly(t)
  BY <1>1 DEF AttackersOnly, Sane
<1> QED
  BY <1>2, <1>3, <1>4, <1>5 DEF Sane

-----------------------------------------------------------------------------
(* What each edit does to the scenario.                                    *)

\* Scenes whose nodes and devices are those of before.
Redrawn(s, t) == DOMAIN t = DOMAIN s /\ t.nodes = s.nodes /\ t.devices = s.devices

LEMMA EdgeEdits ==
  ASSUME CanvasInv,
         \/ \E n \in DOMAIN scenario.nodes \cup DOMAIN scenario.devices : onNodeClick(n)
         \/ \E src, dst \in Shown : onConnect(src, dst)
         \/ \E e \in EdgesShown, end \in {"src", "dst"}, n \in Shown : onReconnect(e, end, n)
         \/ \E e \in EdgesShown : onEdgesDelete(e)
         \/ \E id \in Ids : handleAddSite(id)
  PROVE  /\ Redrawn(scenario, scenario')
         /\ \A e \in DOMAIN scenario'.edges :
              /\ DOMAIN scenario'.edges[e] = {"src", "dst"}
              /\ {scenario'.edges[e].src, scenario'.edges[e].dst} \subseteq Names
<1>0. /\ DOMAIN scenario = {"nodes", "devices", "edges", "sites", "locked"}
      /\ Shown \subseteq Names
      /\ \A e \in DOMAIN scenario.edges :
           /\ DOMAIN scenario.edges[e] = {"src", "dst"}
           /\ {scenario.edges[e].src, scenario.edges[e].dst} \subseteq Names
  BY DEF CanvasInv, Sane, WellFormed, Shown, ShownOn, Present
<1>1. ASSUME NEW src \in Names, NEW dst \in Names, AddEdge(src, dst)
      PROVE  /\ Redrawn(scenario, scenario')
             /\ \A e \in DOMAIN scenario'.edges :
                  /\ DOMAIN scenario'.edges[e] = {"src", "dst"}
                  /\ {scenario'.edges[e].src, scenario'.edges[e].dst} \subseteq Names
  <2>1. scenario' = [scenario EXCEPT !.edges = With(scenario.edges, edits + 1, [src |-> src, dst |-> dst])]
    BY <1>1 DEF AddEdge, Edit
  <2>2. /\ Redrawn(scenario, scenario')
        /\ scenario'.edges = With(scenario.edges, edits + 1, [src |-> src, dst |-> dst])
    BY <1>0, <2>1 DEF Redrawn
  <2> QED
    BY <1>0, <2>2 DEF With
<1>2. ASSUME NEW n \in DOMAIN scenario.nodes \cup DOMAIN scenario.devices, onNodeClick(n)
      PROVE  pending.src \in Names /\ n \in Names /\ AddEdge(pending.src, n)
  BY <1>0, <1>2 DEF onNodeClick, CanvasInv, TypeOK
<1>3. ASSUME NEW src \in Shown, NEW dst \in Shown, onConnect(src, dst) PROVE AddEdge(src, dst)
  BY <1>3 DEF onConnect
<1>4. ASSUME NEW e \in EdgesShown, NEW end \in {"src", "dst"}, NEW n \in Shown, onReconnect(e, end, n)
      PROVE  /\ Redrawn(scenario, scenario')
             /\ \A f \in DOMAIN scenario'.edges :
                  /\ DOMAIN scenario'.edges[f] = {"src", "dst"}
                  /\ {scenario'.edges[f].src, scenario'.edges[f].dst} \subseteq Names
  <2>1. scenario' = [scenario EXCEPT !.edges[e][end] = n] /\ e \in DOMAIN scenario.edges
    BY <1>4 DEF onReconnect, Edit, EdgesShown
  <2>2. /\ Redrawn(scenario, scenario')
        /\ scenario'.edges = [scenario.edges EXCEPT ![e][end] = n]
    BY <1>0, <2>1 DEF Redrawn
  <2>3. /\ DOMAIN scenario'.edges = DOMAIN scenario.edges
        /\ scenario'.edges[e] = [scenario.edges[e] EXCEPT ![end] = n]
        /\ \A f \in DOMAIN scenario.edges : f # e => scenario'.edges[f] = scenario.edges[f]
    BY <2>1, <2>2
  <2> QED
    BY <1>0, <2>1, <2>2, <2>3
<1>5. ASSUME NEW e \in EdgesShown, onEdgesDelete(e)
      PROVE  Redrawn(scenario, scenario') /\ scenario'.edges = Without(scenario.edges, {e})
  BY <1>0, <1>5 DEF onEdgesDelete, Edit, Redrawn
<1>6. ASSUME NEW id \in Ids, handleAddSite(id)
      PROVE  Redrawn(scenario, scenario') /\ scenario'.edges = scenario.edges
  BY <1>0, <1>6 DEF handleAddSite, Edit, Redrawn
<1>7. CASE \E n \in DOMAIN scenario.nodes \cup DOMAIN scenario.devices : onNodeClick(n)
  BY <1>1, <1>2, <1>7
<1>8. CASE \E src, dst \in Shown : onConnect(src, dst)
  BY <1>0, <1>1, <1>3, <1>8
<1>9. CASE \E e \in EdgesShown : onEdgesDelete(e)
  <2>1. PICK e \in EdgesShown : onEdgesDelete(e)
    BY <1>9
  <2>2. /\ Redrawn(scenario, scenario') /\ DOMAIN scenario'.edges = DOMAIN scenario.edges \ {e}
        /\ \A f \in DOMAIN scenario.edges \ {e} : scenario'.edges[f] = scenario.edges[f]
    BY <1>5, <2>1 DEF Without
  <2> QED
    BY <1>0, <2>2
<1>10. CASE \E id \in Ids : handleAddSite(id)
  BY <1>0, <1>6, <1>10
<1> QED
  BY <1>4, <1>7, <1>8, <1>9, <1>10

\* An edit that takes the names G out of the scenario and leaves the others.
Takes(G) ==
  /\ \A n \in DOMAIN scenario.nodes \ G : n \in DOMAIN scenario'.nodes /\ scenario'.nodes[n] = scenario.nodes[n]
  /\ DOMAIN scenario.devices \ G \subseteq DOMAIN scenario'.devices
  /\ G \cap DOMAIN scenario'.devices = {}

\* If the edges that stay have no end among them, but for an attack machine.
LEMMA TakesKeeps ==
  ASSUME NEW G, Takes(G),
         \A e \in DOMAIN scenario.edges \cap DOMAIN scenario'.edges :
           {scenario.edges[e].src, scenario.edges[e].dst} \cap G \subseteq KaliNodes(scenario) \cup KaliDevices(scenario)
  PROVE  EndsStay /\ ShownUntilDeleted
<1>1. Present(scenario) \ G \subseteq Present(scenario')
  BY DEF Takes, Present
<1>2. EndsStay
  BY <1>1 DEF EndsStay
<1>3. ShownUntilDeleted
  <2> SUFFICES ASSUME NEW z \in Layers, NEW d \in ShownOn(scenario, z) \cap DOMAIN scenario.devices,
                      d \in DOMAIN scenario'.devices, DOMAIN scenario.nodes # {}
               PROVE  d \in ShownOn(scenario', z)
    BY DEF ShownUntilDeleted
  <2>1. d \in DOMAIN scenario.nodes \ G /\ scenario.nodes[d].zone = z
    BY DEF ShownOn, Takes
  <2>2. d \in DOMAIN scenario'.nodes /\ scenario'.nodes[d].zone = z
    BY <2>1 DEF Takes
  <2> QED
    BY <2>2 DEF ShownOn
<1> QED
  BY <1>2, <1>3

\* A device is dropped: a new attack machine takes the place of the one there was.
LEMMA DropEdit ==
  ASSUME CanvasInv, NEW id \in Ids, NEW kind \in Kinds, onDrop(id, kind)
  PROVE  /\ Sane(scenario') /\ Present(scenario') \subseteq Present(scenario) \cup {id}
         /\ id \notin Present(scenario) /\ scenario'.edges = scenario.edges
         /\ IF kind = Kali THEN Takes(KaliDevices(scenario)) ELSE Takes({})
<1> DEFINE zone == IF kind = Kali THEN "attacker" ELSE layer
           node == [kind |-> kind, zone |-> layer]
           dev == [kind |-> kind, zone |-> zone, host |-> nextAvailableIp(zone), typed |-> FALSE]
           nodes == IF kind = Kali THEN Without(scenario.nodes, KaliNodes(scenario)) ELSE scenario.nodes
           devices == IF kind = Kali THEN Without(scenario.devices, KaliDevices(scenario)) ELSE scenario.devices
<1>0. /\ DOMAIN scenario = {"nodes", "devices", "edges", "sites", "locked"} /\ Sane(scenario)
      /\ id \notin given /\ kind \in PALETTE(layer)
      /\ scenario' = [scenario EXCEPT !.nodes = With(nodes, id, node), !.devices = With(devices, id, dev)]
  BY DEF onDrop, Edit, CanvasInv, Sane, WellFormed
<1>1. id \notin Present(scenario)
  BY <1>0 DEF CanvasInv, FreshInv
<1>2. layer = "attacker" => kind = Kali
  BY <1>0 DEF PALETTE, Kali
<1>3. PICK s : s = [scenario EXCEPT !.nodes = nodes, !.devices = devices]
  OBVIOUS
<1> HIDE DEF nodes, devices, node, dev
<1>4. /\ DOMAIN s = DOMAIN scenario /\ s.nodes = nodes /\ s.devices = devices /\ s.edges = scenario.edges
      /\ DOMAIN scenario' = DOMAIN s /\ scenario'.nodes = With(nodes, id, node)
      /\ scenario'.devices = With(devices, id, dev) /\ scenario'.edges = s.edges
  BY <1>0, <1>3
<1>5. /\ DOMAIN nodes \subseteq DOMAIN scenario.nodes /\ \A n \in DOMAIN nodes : nodes[n] = scenario.nodes[n]
      /\ DOMAIN devices \subseteq DOMAIN scenario.devices /\ \A n \in DOMAIN devices : devices[n] = scenario.devices[n]
      /\ kind = Kali => KaliNodes(s) = {} /\ KaliDevices(s) = {}
      /\ kind # Kali => nodes = scenario.nodes /\ devices = scenario.devices
      /\ kind = Kali => /\ DOMAIN nodes = DOMAIN scenario.nodes \ KaliNodes(scenario)
                        /\ DOMAIN devices = DOMAIN scenario.devices \ KaliDevices(scenario)
  BY <1>4 DEF nodes, devices, Without, KaliNodes, KaliDevices
<1>6. KaliNodes(s) \subseteq KaliDevices(s)
  BY <1>0, <1>4, <1>5 DEF Sane, OneKali, KaliNodes, KaliDevices
<1>7. Sane(s) /\ Present(s) \subseteq Present(scenario)
  BY <1>0, <1>4, <1>5, <1>6, FewerSane
<1>8. /\ DOMAIN dev = {"kind", "zone", "host", "typed"} /\ dev.host \in Nat /\ dev.kind = kind
      /\ dev.zone = zone /\ dev.host = nextAvailableIp(zone) /\ dev.typed = FALSE
  BY AddressFree DEF dev
<1>9. dev.host = LastHost \/ \A n \in DOMAIN s.devices : s.devices[n].zone = dev.zone => s.devices[n].host # dev.host
  BY <1>4, <1>5, <1>8, AddressFree
<1>10. /\ DOMAIN scenario'.nodes = DOMAIN nodes \cup {id} /\ scenario'.nodes[id] = node
       /\ \A n \in DOMAIN nodes : n # id => scenario'.nodes[n] = nodes[n]
  BY <1>4 DEF With
<1>11. DOMAIN node = {"kind", "zone"} /\ node.kind = kind
  BY DEF node
<1>12. \A n \in DOMAIN nodes : DOMAIN nodes[n] = {"kind", "zone"}
  BY <1>0, <1>5 DEF Sane, WellFormed
<1>13. id \in Names
  BY DEF Names
<1>14. dev.zone = "attacker" => dev.typed \/ dev.kind = Kali
  BY <1>2, <1>8
<1>15. Sane(scenario') /\ Present(scenario') \subseteq Present(s) \cup {id}
  <2>1. \A n \in DOMAIN scenario'.nodes : DOMAIN scenario'.nodes[n] = {"kind", "zone"}
    BY <1>10, <1>11, <1>12
  <2>2. dev.kind = Kali => KaliDevices(s) \subseteq {id}
    BY <1>5, <1>8
  <2>3. /\ DOMAIN scenario'.nodes \subseteq DOMAIN s.nodes \cup {id}
        /\ \A n \in DOMAIN scenario'.nodes \ {id} : scenario'.nodes[n] = s.nodes[n]
        /\ scenario'.nodes[id].kind = Kali => dev.kind = Kali
    BY <1>4, <1>8, <1>10, <1>11
  <2> QED
    BY <1>4, <1>7, <1>8, <1>9, <1>13, <1>14, <2>1, <2>2, <2>3, PutSane
<1>16. DOMAIN scenario'.devices = DOMAIN devices \cup {id}
  BY <1>4 DEF With
<1>17. KaliNodes(scenario) \subseteq KaliDevices(scenario) /\ KaliDevices(scenario) \subseteq Present(scenario)
  BY <1>0 DEF Sane, OneKali, KaliDevices, Present
<1>18. KaliNodes(scenario) \subseteq DOMAIN scenario.nodes /\ KaliDevices(scenario) \subseteq DOMAIN scenario.devices
  BY DEF KaliNodes, KaliDevices
<1>19. ASSUME kind = Kali PROVE Takes(KaliDevices(scenario))
  <2>1. \A n \in DOMAIN scenario.nodes \ KaliDevices(scenario) :
          n \in DOMAIN scenario'.nodes /\ scenario'.nodes[n] = scenario.nodes[n]
    BY <1>1, <1>5, <1>10, <1>17, <1>19 DEF Present
  <2>2. KaliDevices(scenario) \cap DOMAIN scenario'.devices = {}
    BY <1>1, <1>5, <1>16, <1>17, <1>19
  <2>3. DOMAIN scenario.devices \ KaliDevices(scenario) \subseteq DOMAIN scenario'.devices
    BY <1>5, <1>16
  <2> QED
    BY <2>1, <2>2, <2>3 DEF Takes
<1>20. ASSUME kind # Kali PROVE Takes({})
  <2>1. \A n \in DOMAIN scenario.nodes : n \in DOMAIN scenario'.nodes /\ scenario'.nodes[n] = scenario.nodes[n]
    BY <1>1, <1>5, <1>10, <1>20 DEF Present
  <2>2. DOMAIN scenario.devices \subseteq DOMAIN scenario'.devices
    BY <1>5, <1>16, <1>20
  <2> QED
    BY <2>1, <2>2 DEF Takes
<1>21. Present(scenario') \subseteq Present(scenario) \cup {id} /\ scenario'.edges = scenario.edges
  BY <1>4, <1>7, <1>15
<1> QED
  BY <1>1, <1>15, <1>19, <1>20, <1>21

\* The toolbar's attack machine: there was none, so its fixed address is free.
LEMMA AddEdit ==
  ASSUME CanvasInv, NEW id \in Ids, handleAttackMachineAdd(id)
  PROVE  /\ Sane(scenario') /\ Present(scenario') \subseteq Present(scenario) \cup {id}
         /\ scenario'.edges = scenario.edges /\ Takes({})
<1> DEFINE dev == [kind |-> Kali, zone |-> "attacker", host |-> FirstHost, typed |-> FALSE]
<1>0. /\ DOMAIN scenario = {"nodes", "devices", "edges", "sites", "locked"} /\ Sane(scenario)
      /\ id \notin given /\ KaliDevices(scenario) = {} /\ KaliNodes(scenario) = {}
      /\ scenario' = [scenario EXCEPT !.nodes = Without(scenario.nodes, KaliNodes(scenario)),
                                      !.devices = With(Without(scenario.devices, KaliDevices(scenario)), id, dev)]
  BY DEF handleAttackMachineAdd, Edit, CanvasInv, Sane, WellFormed, OneKali
<1>1. id \notin Present(scenario)
  BY <1>0 DEF CanvasInv, FreshInv
<1>2. PICK s : s = [scenario EXCEPT !.nodes = Without(scenario.nodes, {}), !.devices = Without(scenario.devices, {})]
  OBVIOUS
<1> HIDE DEF dev
<1>3. /\ DOMAIN s = DOMAIN scenario /\ s.nodes = Without(scenario.nodes, {})
      /\ s.devices = Without(scenario.devices, {}) /\ s.edges = scenario.edges
      /\ DOMAIN scenario' = DOMAIN s /\ scenario'.nodes = s.nodes
      /\ scenario'.devices = With(s.devices, id, dev) /\ scenario'.edges = s.edges
  BY <1>0, <1>2
<1>4. /\ DOMAIN s.nodes = DOMAIN scenario.nodes /\ \A n \in DOMAIN s.nodes : s.nodes[n] = scenario.nodes[n]
      /\ DOMAIN s.devices = DOMAIN scenario.devices /\ \A n \in DOMAIN s.devices : s.devices[n] = scenario.devices[n]
  BY <1>3 DEF Without
<1>5. KaliNodes(s) = {} /\ KaliDevices(s) = {}
  BY <1>0, <1>4 DEF KaliNodes, KaliDevices
<1>6. Sane(s) /\ Present(s) \subseteq Present(scenario)
  BY <1>0, <1>3, <1>4, <1>5, FewerSane
<1>7. /\ DOMAIN dev = {"kind", "zone", "host", "typed"} /\ dev.host \in Nat /\ dev.kind = Kali
      /\ dev.zone = "attacker"
  BY CanvasAssumption DEF dev
<1>8. \A n \in DOMAIN s.devices : s.devices[n].zone = dev.zone => s.devices[n].typed
  BY <1>5, <1>6, <1>7 DEF Sane, AttackersOnly, KaliDevices
<1>9. id \in Names
  BY DEF Names
<1>10. \A n \in DOMAIN scenario'.nodes : DOMAIN scenario'.nodes[n] = {"kind", "zone"}
  BY <1>3, <1>6 DEF Sane, WellFormed
<1>11. id \notin DOMAIN scenario'.nodes
  BY <1>1, <1>3, <1>4 DEF Present
<1>12. Sane(scenario') /\ Present(scenario') \subseteq Present(s) \cup {id}
  BY <1>3, <1>5, <1>6, <1>7, <1>8, <1>9, <1>10, <1>11, PutSane
<1>13. DOMAIN scenario'.devices = DOMAIN s.devices \cup {id}
  BY <1>3 DEF With
<1>14. Takes({})
  BY <1>3, <1>4, <1>13 DEF Takes
<1> QED
  BY <1>3, <1>6, <1>12, <1>14

\* Nodes N and devices G go with the edges of the devices: the attack machine, or
\* the selection.
LEMMA RemoveEdit ==
  ASSUME CanvasInv, NEW N, NEW G, N \cap DOMAIN scenario.nodes \subseteq G,
         \A n \in KaliNodes(scenario) : n \in G => n \in N,
         scenario'.nodes = Without(scenario.nodes, N),
         scenario'.devices = Without(scenario.devices, G),
         scenario'.edges = Without(scenario.edges, Touching(scenario, G)), DOMAIN scenario' = DOMAIN scenario
  PROVE  Sane(scenario') /\ Present(scenario') \subseteq Present(scenario) /\ EndsStay /\ ShownUntilDeleted
<1>1. /\ DOMAIN scenario'.nodes = DOMAIN scenario.nodes \ N
      /\ \A n \in DOMAIN scenario'.nodes : scenario'.nodes[n] = scenario.nodes[n]
      /\ DOMAIN scenario'.devices = DOMAIN scenario.devices \ G
      /\ \A n \in DOMAIN scenario'.devices : scenario'.devices[n] = scenario.devices[n]
  BY DEF Without
<1>2. /\ DOMAIN scenario'.edges = DOMAIN scenario.edges \ Touching(scenario, G)
      /\ \A e \in DOMAIN scenario'.edges : scenario'.edges[e] = scenario.edges[e]
  BY DEF Without
<1>3. KaliNodes(scenario') \subseteq KaliDevices(scenario')
  BY <1>1 DEF CanvasInv, Sane, OneKali, KaliNodes, KaliDevices
<1>4. Sane(scenario') /\ Present(scenario') \subseteq Present(scenario)
  BY <1>1, <1>2, <1>3, FewerSane DEF CanvasInv
<1>5. Takes(G)
  BY <1>1 DEF Takes
<1>6. \A e \in DOMAIN scenario.edges \cap DOMAIN scenario'.edges :
        {scenario.edges[e].src, scenario.edges[e].dst} \cap G = {}
  BY <1>2 DEF Touching
<1> QED
  BY <1>4, <1>5, <1>6, TakesKeeps

LEMMA DeviceEdit ==
  ASSUME CanvasInv, NEW n \in Shown, NEW a \in Typed, handleDeviceChange(n, a[1], a[2])
  PROVE  /\ Sane(scenario') /\ Present(scenario') = Present(scenario)
         /\ scenario'.edges = scenario.edges /\ Takes({})
<1>0. /\ DOMAIN scenario = {"nodes", "devices", "edges", "sites", "locked"} /\ Sane(scenario)
      /\ n \in DOMAIN scenario.devices /\ a[2] \in Nat
      /\ DOMAIN scenario.devices[n] = {"kind", "zone", "host", "typed"}
      /\ scenario' = [scenario EXCEPT !.devices[n].zone = a[1], !.devices[n].host = a[2], !.devices[n].typed = TRUE]
  BY CanvasAssumption DEF handleDeviceChange, Edit, CanvasInv, Sane, WellFormed
<1>1. /\ DOMAIN scenario' = DOMAIN scenario /\ scenario'.nodes = scenario.nodes /\ scenario'.edges = scenario.edges
      /\ scenario'.devices = [[[scenario.devices EXCEPT ![n].zone = a[1]] EXCEPT ![n].host = a[2]] EXCEPT ![n].typed = TRUE]
  BY <1>0
<1>2. /\ DOMAIN scenario'.devices = DOMAIN scenario.devices
      /\ \A d \in DOMAIN scenario.devices : d # n => scenario'.devices[d] = scenario.devices[d]
      /\ DOMAIN scenario'.devices[n] = {"kind", "zone", "host", "typed"}
      /\ scenario'.devices[n].kind = scenario.devices[n].kind
      /\ scenario'.devices[n].host = a[2] /\ scenario'.devices[n].typed = TRUE
  BY <1>0, <1>1
<1>3. WellFormed(scenario') /\ Present(scenario') = Present(scenario)
  BY <1>0, <1>1, <1>2 DEF Sane, WellFormed, Present
<1>4. OneKali(scenario')
  BY <1>0, <1>1, <1>2 DEF Sane, OneKali, KaliNodes, KaliDevices
<1>5. AddressesDistinct(scenario') /\ AttackersOnly(scenario')
  BY <1>0, <1>2 DEF Sane, AddressesDistinct, AttackersOnly
<1>6. Takes({})
  BY <1>1, <1>2 DEF Takes
<1> QED
  BY <1>1, <1>3, <1>4, <1>5, <1>6 DEF Sane

\* A program saved for a device that is gone leaves a record of no category.
LEMMA ProgramEdit ==
  ASSUME CanvasInv, handleProgramChange
  PROVE  /\ Sane(scenario') /\ Present(scenario') \subseteq Present(scenario) \cup {ide}
         /\ scenario'.edges = scenario.edges /\ Takes({})
<1> DEFINE dev == [kind |-> NoKind, zone |-> None, host |-> 0, typed |-> TRUE]
<1>0. /\ DOMAIN scenario = {"nodes", "devices", "edges", "sites", "locked"} /\ Sane(scenario)
      /\ ide \in Names /\ ide \notin DOMAIN scenario.devices
      /\ scenario' = [scenario EXCEPT !.devices = With(scenario.devices, ide, dev)]
  BY DEF handleProgramChange, Edit, CanvasInv, TypeOK, Sane, WellFormed
<1>1. DOMAIN dev = {"kind", "zone", "host", "typed"} /\ dev.host \in Nat /\ dev.typed = TRUE /\ dev.kind # Kali
  BY DEF NoKind, Kali
<1> HIDE DEF dev
<1>2. /\ DOMAIN scenario' = DOMAIN scenario /\ scenario'.nodes = scenario.nodes /\ scenario'.edges = scenario.edges
      /\ scenario'.devices = With(scenario.devices, ide, dev)
  BY <1>0
<1>3. ide \in DOMAIN scenario'.nodes => scenario'.nodes[ide].kind # Kali
  BY <1>0, <1>2 DEF Sane, OneKali, KaliNodes, KaliDevices
<1>4. \A n \in DOMAIN scenario'.nodes : DOMAIN scenario'.nodes[n] = {"kind", "zone"}
  BY <1>0, <1>2 DEF Sane, WellFormed
<1>5. Sane(scenario') /\ Present(scenario') \subseteq Present(scenario) \cup {ide}
  BY <1>0, <1>1, <1>2, <1>3, <1>4, PutSane
<1>6. DOMAIN scenario'.devices = DOMAIN scenario.devices \cup {ide}
  BY <1>2 DEF With
<1>7. Takes({})
  BY <1>2, <1>6 DEF Takes
<1> QED
  BY <1>2, <1>5, <1>7

-----------------------------------------------------------------------------
(* The steps. *)

\* What is left to see after an edit, when the ids in use are given out.
LEMMA AfterEdit ==
  ASSUME CanvasInv, UNCHANGED <<menu, form, ide, opening, builder>>, pending' = pending \/ pending' = None,
         given \subseteq given', given' \subseteq Ids, Sane(scenario'),
         Present(scenario') \cap Ids \subseteq given'
  PROVE  CanvasInv'
BY DEF CanvasInv, TypeOK, FreshInv, Sane

\* The scenario is another one, of the library or blank, made before or with no ids.
LEMMA Replaced ==
  ASSUME CanvasInv, UNCHANGED <<menu, pending, ide, given>>, opening' = opening \/ opening' = None,
         builder' \in BOOLEAN, form' \in BOOLEAN, Sane(scenario'), Present(scenario') \cap Ids = {}
  PROVE  CanvasInv'
BY DEF CanvasInv, TypeOK, FreshInv, Sane

LEMMA LibrarySane == \A s \in Library : Sane(s) /\ Present(s) \cap Ids = {}
BY LibraryAssumption DEF Sane

\* Menus, dialogs, tabs and modes leave the scenario alone.
LEMMA ViewSteps ==
  ASSUME CanvasInv, UNCHANGED <<scenario, given>>,
         \/ \E n \in DOMAIN scenario.nodes \cup DOMAIN scenario.devices : onNodeContextMenu(n) \/ handleOpenPlcIde(n)
         \/ \E c \in Cables : selectCable(c)
         \/ \E p \in Protocols : startConnection(p)
         \/ startFreehandConnection \/ cancelConnection
         \/ handleClosePlcIde
         \/ \E z \in Layers : setActiveLayer(z)
         \/ ToggleMode \/ handleMetadataOpen \/ handleMetadataSave \/ handleMetadataClose
         \/ \E s \in Packs : OpenPackScenario(s)
  PROVE  CanvasInv' /\ edits' = edits
<1>0. Sane(scenario) /\ Shown \subseteq Names /\ Shown \subseteq Present(scenario)
  BY DEF CanvasInv, Sane, WellFormed, Shown, ShownOn, Present
<1>1. /\ Sane(scenario') /\ WellFormed(scenario')
      /\ Present(scenario') \cap Ids \subseteq given' /\ given' \subseteq Ids
  BY <1>0 DEF CanvasInv, TypeOK, FreshInv, Sane
<1> DEFINE Opened == menu' \in [node : Names, cable : Cables \cup {None}] \cup {None}
           Drawing == pending' \in [src : Names, protocol : Protocols \cup {"none"}, cable : Cables \cup {None},
                                    freehand : BOOLEAN] \cup {None}
           Other == menu' = None \/ pending' = None
           Fresh == ide' # None /\ ide' \in Ids => ide' \in given'
           Windows == ide' \in Names \cup {None} /\ opening' \in Packs \cup {None} /\ builder' \in BOOLEAN /\ form' \in BOOLEAN
<1>2. SUFFICES Opened /\ Drawing /\ Other /\ Windows /\ Fresh /\ edits' = edits
  BY <1>1 DEF CanvasInv, TypeOK, FreshInv, Sane
<1>3. ASSUME NEW n, onNodeContextMenu(n) PROVE Opened /\ Drawing /\ Other /\ Windows /\ Fresh /\ edits' = edits
  BY <1>0, <1>3 DEF onNodeContextMenu, CanvasInv, TypeOK, FreshInv
<1>4. ASSUME NEW n, handleOpenPlcIde(n) PROVE Opened /\ Drawing /\ Other /\ Windows /\ Fresh /\ edits' = edits
  BY <1>0, <1>4 DEF handleOpenPlcIde, CanvasInv, TypeOK, FreshInv
<1>5. ASSUME NEW c \in Cables, selectCable(c) PROVE Opened /\ Drawing /\ Other /\ Windows /\ Fresh /\ edits' = edits
  BY <1>5 DEF selectCable, CanvasInv, TypeOK, FreshInv
<1>6. ASSUME NEW p \in Protocols, startConnection(p) PROVE Opened /\ Drawing /\ Other /\ Windows /\ Fresh /\ edits' = edits
  BY <1>6 DEF startConnection, CanvasInv, TypeOK, FreshInv
<1>7. CASE startFreehandConnection
  BY <1>7 DEF startFreehandConnection, CanvasInv, TypeOK, FreshInv
<1>8. CASE cancelConnection
  BY <1>8 DEF cancelConnection, CanvasInv, TypeOK, FreshInv
<1>9. CASE handleClosePlcIde
  BY <1>9 DEF handleClosePlcIde, CanvasInv, TypeOK, FreshInv
<1>10. CASE ToggleMode \/ \E z \in Layers : setActiveLayer(z)
  BY <1>10 DEF setActiveLayer, ToggleMode, views, CanvasInv, TypeOK, FreshInv
<1>11. CASE handleMetadataOpen \/ handleMetadataSave \/ handleMetadataClose
  BY <1>11 DEF handleMetadataOpen, handleMetadataSave, handleMetadataClose, CanvasInv, TypeOK, FreshInv
<1>12. CASE \E s \in Packs : OpenPackScenario(s)
  BY <1>12 DEF OpenPackScenario, CanvasInv, TypeOK, FreshInv
<1> HIDE DEF Opened, Drawing, Other, Windows, Fresh
<1> QED
  BY <1>3, <1>4, <1>5, <1>6, <1>7, <1>8, <1>9, <1>10, <1>11, <1>12

\* The scenario is replaced or cleared.
LEMMA ReplaceSteps ==
  ASSUME CanvasInv, handleNew \/ (\E s \in Library : handleImport(s)) \/ handlePackOpenScenario \/ handleDelete
  PROVE  CanvasInv' /\ edits' = edits
<1>0. /\ Packs \subseteq Library
      /\ builder \in BOOLEAN /\ form \in BOOLEAN /\ opening \in Packs \cup {None}
  BY CanvasAssumption DEF CanvasInv, TypeOK
<1>1. CASE handleNew
  BY <1>0, <1>1, BlankSane, Replaced DEF handleNew
<1>2. ASSUME NEW s \in Library, handleImport(s) PROVE CanvasInv' /\ edits' = edits
  BY <1>0, <1>2, LibrarySane, Replaced DEF handleImport, views
<1>3. CASE handlePackOpenScenario
  BY <1>0, <1>3, LibrarySane, Replaced DEF handlePackOpenScenario
<1>4. CASE handleDelete
  BY <1>0, <1>4, BlankSane, Replaced DEF handleDelete, views
<1> QED
  BY <1>1, <1>2, <1>3, <1>4

\* Every edit.
Edits ==
  \/ \E n \in DOMAIN scenario.nodes \cup DOMAIN scenario.devices : onNodeClick(n)
  \/ \E src, dst \in Shown : onConnect(src, dst)
  \/ \E e \in EdgesShown, end \in {"src", "dst"}, n \in Shown : onReconnect(e, end, n)
  \/ \E id \in Ids, kind \in Kinds : onDrop(id, kind)
  \/ \E id \in Ids : handleAttackMachineAdd(id) \/ handleAddSite(id)
  \/ handleAttackMachineRemove
  \/ \E S \in SUBSET (Shown \cup DOMAIN scenario.sites) : onNodesDelete(S)
  \/ \E e \in EdgesShown : onEdgesDelete(e)
  \/ \E n \in Shown, a \in Typed : handleDeviceChange(n, a[1], a[2])
  \/ handleProgramChange

LEMMA EditSteps ==
  ASSUME CanvasInv, Edits
  PROVE  CanvasInv' /\ EndsStay /\ ShownUntilDeleted
<1>0. /\ Sane(scenario) /\ DOMAIN scenario = {"nodes", "devices", "edges", "sites", "locked"}
      /\ Present(scenario) \cap Ids \subseteq given /\ given \subseteq Ids
      /\ ide # None /\ ide \in Ids => ide \in given
  BY DEF CanvasInv, Sane, WellFormed, TypeOK, FreshInv
<1> DEFINE Quiet == UNCHANGED <<menu, form, ide, opening, builder>> /\ (pending' = pending \/ pending' = None)
<1>1. ASSUME Quiet, given' = given \/ (\E id \in Ids : given' = given \cup {id}), Redrawn(scenario, scenario'),
             \A e \in DOMAIN scenario'.edges :
               /\ DOMAIN scenario'.edges[e] = {"src", "dst"}
               /\ {scenario'.edges[e].src, scenario'.edges[e].dst} \subseteq Names
      PROVE  CanvasInv' /\ EndsStay /\ ShownUntilDeleted
  <2>1. Sane(scenario') /\ Present(scenario') = Present(scenario)
    BY <1>0, <1>1, EdgesSane DEF Redrawn
  <2>2. given \subseteq given' /\ given' \subseteq Ids /\ Present(scenario') \cap Ids \subseteq given'
    BY <1>0, <1>1, <2>1
  <2>3. CanvasInv'
    BY <1>1, <2>1, <2>2, AfterEdit
  <2>4. Takes({})
    BY <1>1 DEF Takes, Redrawn
  <2> QED
    BY <2>3, <2>4, TakesKeeps
<1>2. ASSUME \/ \E n \in DOMAIN scenario.nodes \cup DOMAIN scenario.devices : onNodeClick(n)
             \/ \E src, dst \in Shown : onConnect(src, dst)
             \/ \E e \in EdgesShown, end \in {"src", "dst"}, n \in Shown : onReconnect(e, end, n)
             \/ \E e \in EdgesShown : onEdgesDelete(e)
             \/ \E id \in Ids : handleAddSite(id)
      PROVE  CanvasInv' /\ EndsStay /\ ShownUntilDeleted
  <2>1. Quiet /\ (given' = given \/ (\E id \in Ids : given' = given \cup {id}))
    BY <1>2 DEF onNodeClick, onConnect, onReconnect, onEdgesDelete, handleAddSite, views
  <2> HIDE DEF Quiet
  <2> QED
    BY <1>1, <1>2, <2>1, EdgeEdits
<1>3. ASSUME Quiet, NEW d, given' = given \cup {d}, d \in Ids, Sane(scenario'),
             Present(scenario') \subseteq Present(scenario) \cup {d}
      PROVE  CanvasInv'
  <2>1. given \subseteq given' /\ given' \subseteq Ids /\ Present(scenario') \cap Ids \subseteq given'
    BY <1>0, <1>3
  <2> QED
    BY <1>3, <2>1, AfterEdit
<1>4. ASSUME Quiet, given' = given, Sane(scenario'),
             Present(scenario') \subseteq Present(scenario) \/ (ide # None /\ Present(scenario') \subseteq Present(scenario) \cup {ide})
      PROVE  CanvasInv'
  <2>1. given \subseteq given' /\ given' \subseteq Ids /\ Present(scenario') \cap Ids \subseteq given'
    BY <1>0, <1>4
  <2> QED
    BY <1>4, <2>1, AfterEdit
<1>5. ASSUME NEW id \in Ids, NEW kind \in Kinds, onDrop(id, kind)
      PROVE  CanvasInv' /\ EndsStay /\ ShownUntilDeleted
  <2>1. Quiet /\ given' = given \cup {id}
    BY <1>5 DEF onDrop, views
  <2>2. CanvasInv'
    <3> HIDE DEF Quiet
    <3> QED
      BY <1>3, <1>5, <2>1, DropEdit
  <2>3. Takes(KaliDevices(scenario)) \/ Takes({})
    BY <1>5, DropEdit
  <2> QED
    BY <2>2, <2>3, TakesKeeps
<1>6. ASSUME NEW id \in Ids, handleAttackMachineAdd(id)
      PROVE  CanvasInv' /\ EndsStay /\ ShownUntilDeleted
  <2>1. Quiet /\ given' = given \cup {id}
    BY <1>6 DEF handleAttackMachineAdd, views
  <2>2. CanvasInv'
    <3> HIDE DEF Quiet
    <3> QED
      BY <1>3, <1>6, <2>1, AddEdit
  <2> QED
    BY <1>6, <2>2, AddEdit, TakesKeeps
<1>7. CASE handleAttackMachineRemove
  <2>1. /\ Quiet /\ given' = given
        /\ scenario' = [scenario EXCEPT !.nodes = Without(scenario.nodes, KaliNodes(scenario)),
                                        !.edges = Without(scenario.edges, Touching(scenario, KaliDevices(scenario))),
                                        !.devices = Without(scenario.devices, KaliDevices(scenario))]
    BY <1>7 DEF handleAttackMachineRemove, Edit, views
  <2>2. /\ scenario'.nodes = Without(scenario.nodes, KaliNodes(scenario))
        /\ scenario'.edges = Without(scenario.edges, Touching(scenario, KaliDevices(scenario)))
        /\ scenario'.devices = Without(scenario.devices, KaliDevices(scenario))
        /\ DOMAIN scenario' = DOMAIN scenario
    BY <1>0, <2>1
  <2>3. KaliNodes(scenario) \subseteq KaliDevices(scenario)
    BY <1>0 DEF Sane, OneKali
  <2>4. Sane(scenario') /\ Present(scenario') \subseteq Present(scenario) /\ EndsStay /\ ShownUntilDeleted
    BY <2>2, <2>3, RemoveEdit
  <2> HIDE DEF Quiet
  <2> QED
    BY <1>4, <2>1, <2>4
<1>8. ASSUME NEW S, onNodesDelete(S)
      PROVE  CanvasInv' /\ EndsStay /\ ShownUntilDeleted
  <2>1. /\ Quiet /\ given' = given
        /\ scenario' = [scenario EXCEPT !.nodes = Without(scenario.nodes, S),
                                        !.edges = Without(scenario.edges, Touching(scenario, S)),
                                        !.devices = Without(scenario.devices, S),
                                        !.sites = Without(scenario.sites, S)]
    BY <1>8 DEF onNodesDelete, Edit, views
  <2>2. /\ scenario'.nodes = Without(scenario.nodes, S)
        /\ scenario'.edges = Without(scenario.edges, Touching(scenario, S))
        /\ scenario'.devices = Without(scenario.devices, S)
        /\ DOMAIN scenario' = DOMAIN scenario
    BY <1>0, <2>1
  <2>3. Sane(scenario') /\ Present(scenario') \subseteq Present(scenario) /\ EndsStay /\ ShownUntilDeleted
    BY <2>2, RemoveEdit
  <2> HIDE DEF Quiet
  <2> QED
    BY <1>4, <2>1, <2>3
<1>9. ASSUME NEW n \in Shown, NEW a \in Typed, handleDeviceChange(n, a[1], a[2])
      PROVE  CanvasInv' /\ EndsStay /\ ShownUntilDeleted
  <2>1. Quiet /\ given' = given
    BY <1>9 DEF handleDeviceChange, views
  <2>2. Sane(scenario') /\ Present(scenario') \subseteq Present(scenario) /\ Takes({})
    BY <1>9, DeviceEdit
  <2>3. EndsStay /\ ShownUntilDeleted
    BY <2>2, TakesKeeps
  <2> HIDE DEF Quiet
  <2> QED
    BY <1>4, <2>1, <2>2, <2>3
<1>10. CASE handleProgramChange
  <2>1. Quiet /\ given' = given /\ ide # None
    BY <1>10 DEF handleProgramChange, views
  <2>2. Sane(scenario') /\ Present(scenario') \subseteq Present(scenario) \cup {ide} /\ Takes({})
    BY <1>10, ProgramEdit
  <2>3. EndsStay /\ ShownUntilDeleted
    BY <2>2, TakesKeeps
  <2> HIDE DEF Quiet
  <2> QED
    BY <1>4, <2>1, <2>2, <2>3
<1> HIDE DEF Quiet
<1> QED
  BY <1>2, <1>5, <1>6, <1>7, <1>8, <1>9, <1>10 DEF Edits

LEMMA CanvasStep ==
  ASSUME CanvasInv, [Next]_vars
  PROVE  CanvasInv' /\ (edits' # edits => EndsStay /\ ShownUntilDeleted)
<1>1. CASE Edits
  BY <1>1, EditSteps
<1>2. CASE handleNew \/ (\E s \in Library : handleImport(s)) \/ handlePackOpenScenario \/ handleDelete
  BY <1>2, ReplaceSteps
<1> DEFINE View == \/ \E n \in DOMAIN scenario.nodes \cup DOMAIN scenario.devices : onNodeContextMenu(n) \/ handleOpenPlcIde(n)
                   \/ \E c \in Cables : selectCable(c)
                   \/ \E p \in Protocols : startConnection(p)
                   \/ startFreehandConnection \/ cancelConnection
                   \/ handleClosePlcIde
                   \/ \E z \in Layers : setActiveLayer(z)
                   \/ ToggleMode \/ handleMetadataOpen \/ handleMetadataSave \/ handleMetadataClose
                   \/ \E s \in Packs : OpenPackScenario(s)
<1>3. CASE View
  <2>1. UNCHANGED <<scenario, given>>
    BY <1>3 DEF onNodeContextMenu, handleOpenPlcIde, selectCable, startConnection, startFreehandConnection,
                cancelConnection, handleClosePlcIde, setActiveLayer, ToggleMode, handleMetadataOpen,
                handleMetadataSave, handleMetadataClose, OpenPackScenario
  <2>2. CanvasInv' /\ edits' = edits
    BY <1>3, <2>1, ViewSteps
  <2> QED
    BY <2>2
<1>4. CASE UNCHANGED vars
  BY <1>4 DEF vars, CanvasInv, TypeOK, FreshInv, Sane
<1>5. Next => Edits \/ View \/ handleNew \/ (\E s \in Library : handleImport(s)) \/ handlePackOpenScenario \/ handleDelete
  BY DEF Next, Edits
<1> HIDE DEF View
<1> QED
  BY <1>1, <1>2, <1>3, <1>4, <1>5

LEMMA CanvasInit == Init => CanvasInv
<1> SUFFICES ASSUME Init PROVE CanvasInv
  OBVIOUS
<1>2. Sane(scenario) /\ Present(scenario) = {}
  BY BlankSane DEF Init
<1> QED
  BY <1>2 DEF Init, CanvasInv, TypeOK, FreshInv, Sane

LEMMA CanvasAlways == Spec => []CanvasInv
BY CanvasInit, CanvasStep, PTL DEF Spec

\* Whatever is edited, opened or replaced (App's scenario and its dialogs), every
\* variable holds what the code keeps in it and the ends of the edges are names.
THEOREM TypeCorrect == Spec => []TypeOK
BY CanvasAlways, PTL DEF CanvasInv

\* However the palette, the toolbar, the Delete key and the properties panel are
\* used, there is one attack machine at most, its node has its device, and only
\* typed addresses or a full zone collide (onDrop, handleAttackMachineAdd/Remove,
\* nextAvailableIp).
THEOREM DevicesSoundAlways == Spec => []DevicesSound
<1>1. CanvasInv => DevicesSound
  BY DEF CanvasInv, Sane, DevicesSound
<1> QED
  BY <1>1, CanvasAlways, PTL

\* No edit leaves an edge without an end it had, or a device out of sight that stays
\* in the scenario (onDrop, onNodesDelete, handleAttackMachineRemove, handleProgramChange).
THEOREM EditsKeepAlways == Spec => EditsKeep
<1>1. CanvasInv /\ [Next]_vars => [edits' # edits => EndsStay /\ ShownUntilDeleted]_vars
  BY CanvasStep
<1> QED
  BY <1>1, CanvasAlways, PTL DEF Spec, EditsKeep

-----------------------------------------------------------------------------
(* The tables of the connection menu.                                      *)

\* The devices that take a cable of a kind, and the protocols that run over it.
Cat5eKinds == {"attack-machine", "batch-controller", "data-diode", "dcs-controller",
               "engineering-workstation", "ethernetip-adapter", "firewall", "historian", "hmi",
               "ids-ips", "iec104-rtu", "iec61850-ied", "ied", "iot-gateway", "ip-camera",
               "jump-server", "legacy-plc", "plc", "pmu", "process-unit", "profinet-device",
               "router", "rtu", "safety-plc", "scada-server", "sensor", "smart-controller",
               "smart-sensor", "switch", "wap"}
Cat6Kinds == {"application-server", "attack-machine", "batch-controller", "business-server",
              "data-diode", "database-server", "dcs-controller", "dns-server",
              "domain-controller", "email-server", "engineering-workstation",
              "enterprise-desktop", "ethernetip-adapter", "firewall", "historian", "hmi",
              "ids-ips", "iec104-rtu", "iec61850-ied", "ied", "internet-server", "iot-gateway",
              "ip-camera", "jump-server", "legacy-plc", "plc", "pmu", "process-unit",
              "profinet-device", "router", "rtu", "safety-plc", "scada-server", "switch", "wap",
              "web-server"}
Rs485Kinds == {"attack-machine", "batch-controller", "dcs-controller", "iec104-rtu",
               "iot-gateway", "legacy-plc", "plc", "rtu", "safety-plc", "sensor",
               "smart-controller", "smart-sensor"}
WifiKinds == {"attack-machine", "engineering-workstation", "enterprise-desktop", "hmi",
              "iiot-sensor", "iot-gateway", "ip-camera", "router", "sensor", "smart-controller",
              "smart-sensor", "switch", "wap"}
Serial == {"modbus-ascii", "modbus-rtu"}
Radio == {"bacnet", "dnp3", "kerberos", "ldap", "modbus-tcp", "mqtt", "none", "opc-ua", "smb"}

\* Two devices share a cable that carries the protocol.
Wired(k, t, p) ==
  \/ p \notin Serial /\ k \in Cat5eKinds /\ t \in Cat5eKinds
  \/ p \notin Serial /\ k \in Cat6Kinds /\ t \in Cat6Kinds
  \/ p \in Serial /\ k \in Rs485Kinds /\ t \in Rs485Kinds
  \/ p \in Radio /\ k \in WifiKinds /\ t \in WifiKinds

\* Whatever a row of the matrix offers a device it can finish with a target of the row,
\* but for two rows that offer Modbus RTU where there is no serial port.
RowDone(q) ==
  \A k \in q[1], p \in q[3] \cap CONNECTION_OPTIONS :
    \/ \E t \in q[2] : Wired(k, t, p)
    \/ k \in {"rtu", "attack-machine"} /\ p = "modbus-rtu"

LEMMA ControllerRulesDone == \A q \in ControllerRules : RowDone(q)
BY DEF ControllerRules, RowDone, Wired, Cat5eKinds, Cat6Kinds, Rs485Kinds, WifiKinds, Serial, Radio,
       CONNECTION_OPTIONS, Infrastructure, Untagged

LEMMA ProcessRulesDone == \A q \in ProcessRules : RowDone(q)
BY DEF ProcessRules, RowDone, Wired, Cat5eKinds, Cat6Kinds, Rs485Kinds, WifiKinds, Serial, Radio,
       CONNECTION_OPTIONS, Infrastructure, Untagged

LEMMA SupervisoryRulesDone == \A q \in SupervisoryRules : RowDone(q)
BY DEF SupervisoryRules, RowDone, Wired, Cat5eKinds, Cat6Kinds, Rs485Kinds, WifiKinds, Serial, Radio,
       CONNECTION_OPTIONS, Infrastructure, Untagged

LEMMA FieldRulesDone == \A q \in FieldRules : RowDone(q)
BY DEF FieldRules, RowDone, Wired, Cat5eKinds, Cat6Kinds, Rs485Kinds, WifiKinds, Serial, Radio,
       CONNECTION_OPTIONS, Infrastructure, Untagged

LEMMA AccessRulesDone == \A q \in AccessRules : RowDone(q)
BY DEF AccessRules, RowDone, Wired, Cat5eKinds, Cat6Kinds, Rs485Kinds, WifiKinds, Serial, Radio,
       CONNECTION_OPTIONS, Infrastructure, Untagged

LEMMA EnterpriseRulesDone == \A q \in EnterpriseRules : RowDone(q)
BY DEF EnterpriseRules, RowDone, Wired, Cat5eKinds, Cat6Kinds, Rs485Kinds, WifiKinds, Serial, Radio,
       CONNECTION_OPTIONS, Infrastructure, Untagged

LEMMA SwitchingRulesDone == \A q \in SwitchingRules : RowDone(q)
BY DEF SwitchingRules, RowDone, Wired, Cat5eKinds, Cat6Kinds, Rs485Kinds, WifiKinds, Serial, Radio,
       CONNECTION_OPTIONS, Infrastructure, Untagged

LEMMA AttackRulesDone == \A q \in AttackRules : RowDone(q)
BY DEF AttackRules, RowDone, Wired, Cat5eKinds, Cat6Kinds, Rs485Kinds, WifiKinds, Serial, Radio,
       CONNECTION_OPTIONS, Infrastructure, Untagged

\* The devices of a table do take those cables, and the cables carry those protocols.
LEMMA TakesCable ==
  /\ \A k \in Cat5eKinds : "cat5e" \in getSourceCables(k)
  /\ \A k \in Cat6Kinds : "cat6" \in getSourceCables(k)
  /\ \A k \in Rs485Kinds : "rs485" \in getSourceCables(k)
  /\ \A k \in WifiKinds : "wifi" \in getSourceCables(k)
<1> DEFINE Cabled(k, c) == \E q \in PlantCables \cup OfficeCables : k \in q[1] /\ c \in q[2]
<1>1. \A k, c : Cabled(k, c) => c \in getSourceCables(k)
  BY DEF getSourceCables
<1>2. \A k \in Cat5eKinds : Cabled(k, "cat5e")
  BY DEF Cat5eKinds, PlantCables, OfficeCables
<1>3. \A k \in Cat6Kinds : Cabled(k, "cat6")
  BY DEF Cat6Kinds, PlantCables, OfficeCables
<1>4. \A k \in Rs485Kinds : Cabled(k, "rs485")
  BY DEF Rs485Kinds, PlantCables, OfficeCables
<1>5. \A k \in WifiKinds : Cabled(k, "wifi")
  BY DEF WifiKinds, PlantCables, OfficeCables
<1> HIDE DEF Cabled
<1> QED
  BY <1>1, <1>2, <1>3, <1>4, <1>5

LEMMA Carries ==
  ASSUME NEW p \in CONNECTION_OPTIONS
  PROVE  /\ p \notin Serial => isProtocolCableCompatible(p, "cat5e") /\ isProtocolCableCompatible(p, "cat6")
         /\ p \in Serial => isProtocolCableCompatible(p, "rs485")
         /\ p \in Radio => isProtocolCableCompatible(p, "wifi")
BY DEF CONNECTION_OPTIONS, Serial, Radio, isProtocolCableCompatible, PROTOCOL_VALID_CABLES

LEMMA WiredCables ==
  ASSUME NEW k, NEW t, NEW p \in CONNECTION_OPTIONS, Wired(k, t, p)
  PROVE  \E c \in CableType : isCableValid(k, t, c) /\ isProtocolCableCompatible(p, c)
<1>1. {"cat5e", "cat6", "rs485", "wifi"} \subseteq CableType
  BY DEF CableType
<1> QED
  BY <1>1, TakesCable, Carries DEF Wired, isCableValid

\* Every target of a row is a device the palette offers.
LEMMA TargetsPlaceable == \A q \in VALID_CONNECTIONS : q[2] \subseteq Placeable
<1> DEFINE Offered ==
             {"attack-machine", "plc", "safety-plc", "dcs-controller", "batch-controller", "rtu", "ied",
              "iec61850-ied", "ethernetip-adapter", "profinet-device", "pmu", "sensor", "smart-sensor",
              "smart-controller", "iiot-sensor", "iot-gateway", "legacy-plc", "iec104-rtu", "process-unit",
              "hmi", "historian", "scada-server", "engineering-workstation", "application-server",
              "database-server", "jump-server", "data-diode", "firewall", "ids-ips", "switch", "router",
              "wap", "domain-controller", "web-server", "business-server", "enterprise-desktop",
              "email-server", "internet-server", "dns-server", "ip-camera"}
<1>1. Offered \subseteq Placeable
  <2>1. /\ PALETTE("ot") \subseteq Placeable /\ PALETTE("control") \subseteq Placeable
        /\ PALETTE("plant-dmz") \subseteq Placeable /\ PALETTE("enterprise") \subseteq Placeable
        /\ PALETTE("internet-dmz") \subseteq Placeable
    BY DEF Placeable
  <2>2. Offered \subseteq PALETTE("ot") \cup PALETTE("control") \cup PALETTE("plant-dmz")
                            \cup PALETTE("enterprise") \cup PALETTE("internet-dmz")
    BY DEF PALETTE
  <2> HIDE DEF Offered
  <2> QED
    BY <2>1, <2>2
<1>2. \A q \in ControllerRules \cup ProcessRules \cup SupervisoryRules : q[2] \subseteq Offered
  BY DEF ControllerRules, ProcessRules, SupervisoryRules, Infrastructure
<1>3. \A q \in FieldRules \cup AccessRules \cup EnterpriseRules : q[2] \subseteq Offered
  BY DEF FieldRules, AccessRules, EnterpriseRules, Infrastructure
<1>4. \A q \in SwitchingRules \cup AttackRules : q[2] \subseteq Offered
  BY DEF SwitchingRules, AttackRules, Infrastructure
<1> HIDE DEF Offered
<1> QED
  BY <1>1, <1>2, <1>3, <1>4 DEF VALID_CONNECTIONS

\* Modbus RTU reaches a PLC from the two devices whose rows offer it in vain elsewhere.
LEMMA RtuReaches ==
  ASSUME NEW k \in {"rtu", "attack-machine"}
  PROVE  isConnectionValid(k, "plc", "modbus-rtu") /\ Wired(k, "plc", "modbus-rtu")
<1>1. \E q \in ControllerRules \cup AttackRules : k \in q[1] /\ "plc" \in q[2] /\ "modbus-rtu" \in q[3]
  BY DEF ControllerRules, AttackRules
<1>2. isConnectionValid(k, "plc", "modbus-rtu")
  BY <1>1 DEF isConnectionValid, getValidProtocols, VALID_CONNECTIONS
<1>3. Wired(k, "plc", "modbus-rtu")
  BY DEF Wired, Serial, Rs485Kinds
<1> QED
  BY <1>2, <1>3

\* What the tables offer a device, they let it finish.
LEMMA TablesAgree ==
  ASSUME NEW k \in Placeable, NEW p \in CONNECTION_OPTIONS \cap getSourceProtocols(k)
  PROVE  <<k, p>> \in Finishable
<1>1. PICK q \in VALID_CONNECTIONS : k \in q[1] /\ p \in q[3]
  BY DEF getSourceProtocols
<1>2. RowDone(q)
  BY ControllerRulesDone, ProcessRulesDone, SupervisoryRulesDone, FieldRulesDone, AccessRulesDone,
     EnterpriseRulesDone, SwitchingRulesDone, AttackRulesDone DEF VALID_CONNECTIONS
<1>3. \E t \in Placeable : isConnectionValid(k, t, p) /\ Wired(k, t, p)
  <2>1. CASE \E t \in q[2] : Wired(k, t, p)
    <3>1. PICK t \in q[2] : Wired(k, t, p)
      BY <2>1
    <3>2. t \in Placeable
      BY TargetsPlaceable
    <3>3. isConnectionValid(k, t, p)
      BY <1>1 DEF isConnectionValid, getValidProtocols
    <3> QED
      BY <3>1, <3>2, <3>3
  <2>2. CASE k \in {"rtu", "attack-machine"} /\ p = "modbus-rtu"
    <3>1. "plc" \in Placeable
      BY DEF Placeable, PALETTE
    <3> QED
      BY <2>2, <3>1, RtuReaches
  <2> QED
    BY <1>1, <1>2, <2>1, <2>2 DEF RowDone
<1> QED
  BY <1>3, WiredCables DEF Finishable

\* Whatever protocol the connection menu offers for a device of the tab, some target and
\* some cable finish it: for all forty devices of the palette, the rule matrix, the cables
\* of each device and the media of each protocol agree (connectionRules.ts).
THEOREM NoDeadEndAlways == Spec => []NoDeadEnd
<1>1. NoDeadEnd
  <2> SUFFICES ASSUME menu # None, menu.node \in Shown, KindOf(menu.node) \in Placeable,
                      NEW p \in MenuProtocols(menu.node)
               PROVE  <<KindOf(menu.node), p>> \in Finishable
    BY DEF NoDeadEnd
  <2> QED
    BY TablesAgree DEF MenuProtocols
<1> QED
  BY <1>1, PTL
=============================================================================
