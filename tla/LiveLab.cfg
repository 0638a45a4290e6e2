\* FirstSecond to LastHost are the ranges of the code, scaled down.
SPECIFICATION Spec
CONSTANTS
  FirstSecond = 200
  LastSecond = 201
  None = None
  UserHost = 10
  AutoHost = 12
  LastHost = 14
  SafeName <- MCSafeName
  Ns <- MCNs
  Forms <- MCForms
  Texts = {"", "good", "bad"}
  Accepted = {"good"}
  Garbage = "NaN"
  MaxRules = 2
  MaxReloads = 2
  MaxEdits = 3
  LastCoil = 1
  MaxPolls = 2
  MaxClicks = 2
  ReactHold = 2
  IntMax = 7
  MaxForced = 1
  Courses <- MCCourses
CHECK_DEADLOCK FALSE
INVARIANTS TypeOK PlanSound CommandsReach  ProgramsSafe HmiComplete
