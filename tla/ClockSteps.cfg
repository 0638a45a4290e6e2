\* Three harness connections against a controller that may never answer.
SPECIFICATION FairSpec
CONSTANTS
  Callers = {c1, c2, c3}
  NoCaller = NoCaller
  MaxGrant = 2
  MaxTick = 3
  OtherReads = TRUE
INVARIANTS
  TypeOK
PROPERTIES
  StepIsOwn
  
