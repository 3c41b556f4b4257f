CONSTANTS
  MCFamilies = {"steps"}
  Configs <- MCConfigs
  Top = 20
  StrPrefix <- MCStrPrefix
  Machine <- MCMachine
  MaxDepth = 5
SPECIFICATION GenerateSpec
INVARIANT StepsInOrder
CHECK_DEADLOCK FALSE
