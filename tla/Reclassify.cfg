SPECIFICATION FairSpec
CONSTANTS
  d1 = d1
  d2 = d2
  None = None
  Doc = {d1, d2}
  Evidence <- MCEvidence
  MaxFault = 1
  MaxCrash = 1
  MaxTouch = 1
  MaxLoad = 1
INVARIANTS
  MoveIsJournalled
  
PROPERTIES
  JournalSettled
