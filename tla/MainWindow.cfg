SPECIFICATION FairWindow
CHECK_DEADLOCK FALSE
CONSTANTS
    p1 = p1
    p2 = p2
    p3 = p3
    d1 = d1
    d2 = d2
    d3 = d3
    MaxQueued = 6
    Plans <- MCPlans
    DocsOf <- MCDocsOf
    ListedOnly = {p3}
    Ended = {d3}
    Wanted = {d1, d2}
    Saved = {d2}
    MaxPages = 1
    MaxFail = 1
    SearchTargets = {"koji", "gyomu"}
    TreeDepth = 1
    OnPage <- MCOnPage
    Site <- MCSite
    Depth = 2
    Active = "koji"
    MaxMiss = 1
    Schedules = {1, 2}
    Users <- MCUsers
INVARIANTS
  WindowTellsTheRun
  CandidatesTrue
  OutcomeTrue
  ListsCatchUp
PROPERTIES
  WindowIsFreed
  EditsKept
