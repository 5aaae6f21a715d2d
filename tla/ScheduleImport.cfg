SPECIFICATION FairSpec
CHECK_DEADLOCK FALSE
CONSTANTS
  s1 = s1
  s2 = s2
  w1 = w1
  h1 = h1
  h2 = h2
  Schedule = {s1}
  Window = {w1}
  Starter = {h1, h2}
  MaxFault = 2
  MaxCrash = 2
  MaxFire = 2
  Edits = {"delete", "toggle", "remove"}
  Nil = Nil
INVARIANTS
  OwnedOnce
PROPERTIES
  Recovered
