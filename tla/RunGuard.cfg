SPECIFICATION FairQueueSpec
CONSTANTS
  gui1 = gui1
  gui2 = gui2
  run1 = run1
  run2 = run2
  None = None
  Caller <- MCCaller
  Instance <- MCInstance
  Process <- MCProcess
  InstanceOf <- MCInstanceOf
  ProcessOf <- MCProcessOf
  OnWindows = {TRUE, FALSE}
  gui = gui
  run = run
  here = here
  there = there
  f1 = f1
  f2 = f2
  old = old
  task = task
  User = User
  Broken = Broken
  Empty = Empty
  Installation = {here, there}
  Identifier = {f1, f2, old, task}
  FreshOf <- MCFreshOf
  Sites <- MCSites
INVARIANTS
  OneQueue
  NothingLeftBehind
PROPERTIES
  ImplementsTryLock
  QueueIsReached
