SPECIFICATION Spec
CONSTANTS
  MaxIntents = 5
  MaxRestartResumes = 1
  Resumable = TRUE
  Budget <- Failures
  MaxFrames = 2
  Admits = TRUE
INVARIANTS
  TypeOK
  NeverReplayed
  NoSilentLoss
  OrderKept
  AwaitingLive
  ContinuationHeld
PROPERTIES
  UncertainNeverRuns
CHECK_DEADLOCK FALSE
