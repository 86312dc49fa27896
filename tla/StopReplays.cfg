SPECIFICATION Spec
CONSTANTS
  MaxIntents = 3
  MaxRestartResumes = 1
  Resumable = TRUE
  Budget <- StopOnce
  MaxFrames = 2
  Admits = TRUE
INVARIANTS
  NeverReplayed
CHECK_DEADLOCK FALSE
