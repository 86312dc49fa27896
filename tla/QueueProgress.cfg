SPECIFICATION FairSpec
CONSTANTS
  MaxIntents = 3
  MaxRestartResumes = 1
  Resumable = TRUE
  Budget <- Progress
  MaxFrames = 2
  Admits = TRUE
INVARIANTS
  AtMostOnce
  NeverReplayed
PROPERTIES
  Drains
CHECK_DEADLOCK FALSE
