SPECIFICATION Spec
CHECK_DEADLOCK FALSE
CONSTANTS
  s1 = s1
  s2 = s2
  w1 = w1
  w2 = w2
  r1 = r1
  r2 = r2
  Schedule = {s1}
  Window = {w1, w2}
  Run = {r1}
  MaxSnap = 3
  MaxCall = 3
  MaxFault = 2
  MaxCrash = 1
  Fails = {"query", "queue", "task", "restore", "put", "collect", "sweep"}
  Unknown = Unknown
  None = None
  DayLength = 2
  LastMonth = 2
  MonthStart <- MCMonthStart
SYMMETRY Symmetry
INVARIANTS
  SnapshotsKept
  CleanupSparesRuns
PROPERTIES
  FailureChangesNothing
  StatusTrue
