SPECIFICATION DeskSpec
CONSTANTS
  Calls = {c1, c2}
  Packs = {P, Q}
  Absent = Absent
  Left = Left
  v1 = v1
  v2 = v2
  json = json
  rules = rules
  Versions = {v1, v2}
  Manifest = json
  Parts = {json, rules}
  Content <- MCContent
  Describable = {v2}
  MaxClicks = 3
  MaxMishaps = 1
  Slots = {s1, s2}
  Files = {f1, f2}
  Shipped = f1
  Works = {w1}
  tutorial = tutorial
  community = community
  session = session
  Tutorial <- McTutorial
  Community <- McCommunity
  Saved <- McSaved
  FreeMb = {1000, 8000}
  Counts = {1, 21}
  Nothing = Nothing
  MaxAsks = 2
  MAX_LOG_LINES = 3
  LOOK_BACK = 3
  LIMIT = 2
  LATE = 2
  MaxTime = 5
  MaxPolls = 2
  Grids = {g1, g2, g3}
  Detected = {g2}
  AutoDetect = AutoDetect
  Broken = Broken
  Saves = {n1, n2}
  l1 = l1
  k1 = k1
  k2 = k2
  k3 = k3
  Labs = {l1, l2}
  NoLab = NoLab
  AttackMachines <- McAttackMachines
  Workstations <- McWorkstations
  MaxWindows = 3
SYMMETRY DeskSymmetry
INVARIANTS
  TypeOK
  DiskSettled
  ListTrue
  DeskTyped
  FilesSound
  LogShown
  SettingsSaved
  WindowShowsOwn
