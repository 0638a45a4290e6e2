\* One request of the user at a time, next to the status poll.
SPECIFICATION Spec
CONSTANTS
  Projects = {A, B}
  Services = {s1, s2}
  Calls = {c1, c2}
  NoProject = NoProject
  Patient = TRUE
  MaxRelaunch = 1
SYMMETRY Symmetry
INVARIANTS
  TypeOK
  NothingForgotten
PROPERTIES
  NameHolds
  RunningUntilStop
  LabSpec
