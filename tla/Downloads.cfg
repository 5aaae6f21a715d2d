SPECIFICATION Spec
CHECK_DEADLOCK FALSE
CONSTANTS
  d1 = d1
  d2 = d2
  n1 = n1
  n2 = n2
  None = None
  Doc = {d1, d2}
  Name = {n1, n2}
  Path <- MCPath
  Unresolved = {n2}
  Plans <- AllPlans
  Dated = {d1}
  Policies = {"REUSE", "FORCE"}
  MaxCopy = 2
  MaxAttempt = 2
  MaxFault = 1
  MaxRun = 2
  MaxChange = 1
  MaxCrash = 1
INVARIANTS
  PlacesTrue
  SecondRunIdle
PROPERTIES
  ReusedIsCurrent
