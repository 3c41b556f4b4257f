CONSTANTS
  Families = {"ordered"}
  Configs <- MCConfigs
SPECIFICATION Spec
INVARIANTS ArtifactReachesDependents
CHECK_DEADLOCK FALSE
