CHECK_DEADLOCK FALSE
SPECIFICATION FairSpec
CONSTANTS
  r1 = r1
  r2 = r2
  r3 = r3
  gui = gui
  cli = cli
  None = None
  Run <- ThreeRuns
  Detached <- ThreeRuns
  Transient <- MCNobody
  OwnerOf <- MCNoOwner
  Schedule <- AB
  SchedOf <- Shared
  Gui <- MCNobody
  Cli <- MCNobody
  Home <- OneHome
  BrokenSnapshot <- MCNobody
  MaxRetry = 0
  MaxCrash = 1
  MaxFault = 0
  HandoffSuffices = FALSE
  Reading <- Jumping
INVARIANTS
  OneTicketPerSchedule
  OldestServedFirst
  RecordedBeforeRemoved
PROPERTIES
  TakenOver
