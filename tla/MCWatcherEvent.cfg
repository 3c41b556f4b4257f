CONSTANTS
  MCFirst = "w1"
  Watchers = {"w1"}
  Events = {"e1", "e2", "other"}
  Matching = {"e1", "e2"}
  WatcherOf <- MCWatcherOf
  Signal = "signal"
  Runs <- MCRuns
  Cancellers <- MCCancellers
SPECIFICATION WatchFairSpec
PROPERTY EventRunsTask
CHECK_DEADLOCK FALSE
