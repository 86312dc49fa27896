SPECIFICATION Spec
CONSTANTS
  Threads = {a, b}
  Watched = a
  Span = 2
  RowPieces = 2
  FullAt = 3
  QuarantineAfter = 1
  Batches <- SmallBatches
  ReplayLimit = 4
  FrameEvents = 1
  MaxPieces = 3
  Records <- SmallRecords
  MaxRefusals = 1
  MaxFaults = 1
INVARIANTS
  TypeOK
  LogIsUnbuffered
  NoGaps
  ReplicaFollows
  NumbersReserved
PROPERTIES
  OneLog
  CatchesUp
CHECK_DEADLOCK FALSE
