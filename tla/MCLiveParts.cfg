CONSTANTS
  MCFirst = "w1"
  Watchers = {"w1"}
  Events = {"e1", "e2", "other"}
  Matching = {"e1", "e2"}
  WatcherOf <- MCWatcherOf
  Signal = "signal"
  Runs <- MCRuns
  Cancellers <- MCCancellers
  Jobs = {j1, j2}
  Shells = {j2}
  Template = Template
  Broken = Broken
  PrintConfigs <- MCPrintConfigs
SPECIFICATION PartFairSpec
INVARIANTS
  PanicNeedsTwoRuns RerunFollowsRun CloseIsNotLockedOut
  NilMeansSuccess ContainerCleanedUp
PROPERTIES InterruptEndsWatch JobEnds FooterReturns
CHECK_DEADLOCK FALSE
