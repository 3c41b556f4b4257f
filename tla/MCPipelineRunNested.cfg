CONSTANTS
  MCAnswers = {"meets", "fails", "error"}
  Stages <- NestedStages
  Graphs <- NestedGraphs
  Top = "top"
  GraphOf <- NestedGraphOf
  Pipeline <- NestedPipeline
  None = None
  Definitions <- NestedDefinitions
  Signal = Signal
SPECIFICATION RunFairSpec
INVARIANTS DependencyOrder CanceledHasCause ReturnedIsQuiet FailureIsReported FinishAfterTasks RunsInOrder FailureReachesTop
PROPERTIES HangsOnlyInCancel ImplementsExecution
CHECK_DEADLOCK FALSE
