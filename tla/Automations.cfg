SPECIFICATION Spec
CONSTANTS
  Automations = {a}
  MaxRuns = 2
  RunningLimit = 2
  StopTries = 2
  MaxRoots = 2
  MaxEvents = 2
INVARIANTS
  TypeOK
  OneAtATime
  InboxTells
PROPERTIES
  Stops
  Finishes
CHECK_DEADLOCK FALSE
