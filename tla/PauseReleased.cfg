SPECIFICATION Spec
CONSTANTS
  MaxIntents = 3
  MaxRestartResumes = 1
  Resumable = TRUE
  Budget <- PauseAndDeath
  MaxFrames = 2
  Admits = TRUE
INVARIANTS
  HoldKept
CHECK_DEADLOCK FALSE
