SPECIFICATION Spec
CONSTANTS
  MaxCommands = 3
  MaxPaths = 3
  Window = 2
  MaxRetries = 1
  MaxEvents = 2
INVARIANTS
  TypeOK
  NoneOvertakes
  FailedForAReason
PROPERTIES
  OncePerCommand
  Answered
CHECK_DEADLOCK FALSE
