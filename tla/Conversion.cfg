CHECK_DEADLOCK FALSE
SPECIFICATION FairSpec
CONSTANTS
  None = None
  MaxCall = 2
  MaxFault = 1
  MaxCrash = 1
  MaxAttempt = 2
INVARIANTS
  PdfIsWhole
PROPERTIES
  ConvertReturns
