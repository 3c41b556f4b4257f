CONSTANTS
  Families = {"shared", "ordered", "varied", "filed"}
  Configs <- MCConfigs
  PrintConfigs <- MCPrintConfigs
  MCFamilies = {"flat", "twice", "once", "both", "circular", "refused", "steps", "workflow"}
  GraphConfigs <- MCGraphConfigs
  Top = 20
  StrPrefix <- MCStrPrefix
  Machine <- MCMachine
  MaxDepth = 5
  Updates = {u1, u2}
  Releases = {1, 2}
  Page = 9
  MaxName = 3
SPECIFICATION PartSpec
INVARIANTS
  JobEnvIsOwn NoCrossTalk ContextEnvReaches
  OutputInOrder ExportedIsWhole CrashHasCause
  EndsAsDefined StagesAreDefined Inheritance WorkflowIsPipeline
  PreviousIsKept
CHECK_DEADLOCK FALSE
