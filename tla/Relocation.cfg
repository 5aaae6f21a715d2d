SPECIFICATION FairSpec
CHECK_DEADLOCK FALSE
CONSTANTS
  s1 = s1
  s2 = s2
  r1 = r1
  r2 = r2
  Schedule = {s1, s2}
  Run = {r1}
  MaxSnap = 6
  MaxFault = 2
  MaxCrash = 1
  Places = {"folder", "program", "new"}
  None = None
INVARIANTS
  MoveIsWhole
  AcceptedRunsKeepSnapshot
PROPERTIES
  Relocated
