\* Any student, any failure; each property says what it needs.
SPECIFICATION FairSpec
CONSTANTS
  Projects = {A, B}
  Tasks = {t1, t2}
  NoProject = NoProject
  Absent = Absent
  MaxVersion = 2
  MaxMishaps = 1
INVARIANTS
  TypeOK
  OwnWork
  WorkKept
PROPERTIES
  WorkComesBack
