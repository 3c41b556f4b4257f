CONSTANTS
  MCFamilies = {"files"}
  MaxFaults = 1
  Worlds <- MCWorlds
  Processes = {p1, p2}
  None = None
SPECIFICATION Spec
INVARIANT LocalOverwritesGlobal
CHECK_DEADLOCK FALSE
