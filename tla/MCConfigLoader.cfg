CONSTANTS
  MCFamilies = {"files", "remotes", "written", "git"}
  MaxFaults = 1
  Worlds <- MCWorlds
  Processes = {p1, p2}
  None = None
SPECIFICATION Spec
INVARIANTS LoadedIsClosure CacheIsWhole ImportIsAsNamed
PROPERTIES OfflineOnceCached LoadEnds
CHECK_DEADLOCK FALSE
