\* Save Session with the workstation stopped.
SPECIFICATION Spec
CONSTANTS
  Projects = {A, B}
  Tasks = {t1, t2}
  NoProject = NoProject
  Absent = Absent
  MaxVersion = 2
  MaxMishaps = 1
INVARIANT EverythingPreserved
