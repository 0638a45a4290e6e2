\* Two new devices or sites, two scenarios to open, one edge.
SPECIFICATION Spec
CONSTANTS
  d1 = d1
  d2 = d2
  x1 = x1
  x2 = x2
  x3 = x3
  x4 = x4
  Ids = {d1, d2}
  Kinds = {"plc", "attack-machine"}
  Layers = {"ot", "control"}
  Protocols = {"modbus-tcp"}
  Cables = {"cat5e"}
  Library <- McLibrary
  FirstHost = 10
  LastHost = 12
  Packs <- McPacks
  Typed <- McTyped
  MaxEdits = 3
  None = None
SYMMETRY Symmetry
INVARIANTS
  TypeOK
  DevicesSound
  NoDeadEnd
PROPERTIES
  EditsKeep
