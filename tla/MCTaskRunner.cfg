CONSTANTS
  MCContexts = {c1, Default, Unknown}
  MCFlags = {{}, {"allowFailure", "artifact"}}
  Tasks = {t1, t2}
  Contexts = {c1}
  Default = Default
  Unknown = Unknown
  Cancellers = {k1}
  MaxJobs = 2
  Definitions <- MCDefinitions
SPECIFICATION FairSpec
INVARIANTS ContextLifetime FinishTakesDown NilMeansComplete
PROPERTIES ImplementsCancelProtocol RunReturns CancelReturnsAfterRun
CHECK_DEADLOCK FALSE
