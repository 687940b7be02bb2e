SPECIFICATION Spec
CONSTANTS
  None = None
  Manifests <- MCManifests
INVARIANTS
  AcceptedDeploys
  RecordedIsValid
  DeployedIsReported
  DriftIsSeen
  JudgesAgree
PROPERTIES
  NothingUndone
