\* Two attack machines, any number of starts and stops of the lab.
SPECIFICATION Spec
CONSTANTS
  Attackers = {a1, a2}
  FirstAttacker = a1
  Shells = {p1, p2}
  Windows = {w1}
  MaxQueue = 3
  App = App
  None = None
SYMMETRY Symmetry
INVARIANTS
  TypeOK
  OneShell
  OwnKeystrokes
  ViewHasShell
