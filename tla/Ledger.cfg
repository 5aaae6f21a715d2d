SPECIFICATION LedgerSpec
CONSTANTS
  Nil = Nil
  Broken = Broken
  Proc = {p1, p2, p3, p4}
  File = {1, 2}
  s1 = s1
  s2 = s2
  Schedule <- TwoSchedules
  ScheduleOf <- OneAndTheOther
  MaxRun = 3
  MaxTear = 1
  MaxGiveUp = 1
SYMMETRY Symmetry
INVARIANTS
  WaitsInOrder
  MergeNotStale
  HistoryKept
