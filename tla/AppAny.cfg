\* Two instances on one checkout, any failure and any kill; and a user who clicks
\* whatever the toolbar lets them click.
SPECIFICATION AppSpec
CONSTANTS
  Instances = {i1, i2}
  MaxRelease = 1
  Projects = {A}
  Services = {s1}
  Calls = {c1, c2}
  NoProject = NoProject
  MaxRelaunch = 1
INVARIANTS
  TypeOK
  PromiseKept
  RunsAsStarted
  NeverStuck
PROPERTIES
  QueuedIsApplied
  TransitionsEnd
