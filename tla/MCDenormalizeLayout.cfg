CONSTANTS
  MCFamilies = {"once"}
  Configs <- MCConfigs
  Top = 20
  StrPrefix <- MCStrPrefix
  Machine <- MCMachine
  MaxDepth = 5
SPECIFICATION GenerateSpec
INVARIANT LayoutIsKept
CHECK_DEADLOCK FALSE
