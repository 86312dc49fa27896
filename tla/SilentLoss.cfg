SPECIFICATION Spec
CONSTANTS
  MaxIntents = 3
  MaxRestartResumes = 1
  Resumable = TRUE
  Budget <- LateStart
  MaxFrames = 2
  Admits = FALSE
INVARIANTS
  NoSilentLoss
CHECK_DEADLOCK FALSE
