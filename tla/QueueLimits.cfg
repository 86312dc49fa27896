SPECIFICATION Spec
CONSTANTS
  MaxIntents = 3
  MaxRestartResumes = 1
  Resumable = TRUE
  Budget <- Limits
  MaxFrames = 2
  Admits = FALSE
INVARIANTS
  LimitHolds
  OneRecovery
 
CHECK_DEADLOCK FALSE
