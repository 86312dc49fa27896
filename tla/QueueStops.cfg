SPECIFICATION Spec
CONSTANTS
  MaxIntents = 4
  MaxRestartResumes = 1
  Resumable = TRUE
  Budget <- Stops
  MaxFrames = 2
  Admits = FALSE
INVARIANTS
  StopKept
PROPERTIES
  StopFences
CHECK_DEADLOCK FALSE
