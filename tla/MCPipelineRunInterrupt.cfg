CONSTANTS
  MCAnswers = {}
  Stages <- FlatStages
  Graphs <- FlatGraphs
  Top = "top"
  GraphOf <- FlatGraphOf
  Pipeline <- FlatPipeline
  None = None
  Definitions <- FlatDefinitions
  Signal = Signal
SPECIFICATION RunSpec
INVARIANTS InterruptIsGraceful
CHECK_DEADLOCK FALSE
