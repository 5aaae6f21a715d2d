CHECK_DEADLOCK FALSE
SPECIFICATION FairSpec
CONSTANTS
  r1 = r1
  r2 = r2
  r3 = r3
  gui = gui
  cli = cli
  None = None
  Run <- TwoRuns
  Detached <- TwoRuns
  Transient <- MCNobody
  OwnerOf <- MCNoOwner
  Schedule <- AB
  SchedOf <- DistinctOfTwo
  Gui <- OneGui
  Cli <- OneCli
  Home <- OneHome
  BrokenSnapshot <- R2Broken
  MaxRetry = 1
  MaxCrash = 1
  MaxFault = 1
  HandoffSuffices = TRUE
  Reading <- Still
INVARIANTS
  OneDownloadAtATime
  RepeatedOnlyAfterFailure
PROPERTIES
  LaunchesEnd
