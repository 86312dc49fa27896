SPECIFICATION Spec
CONSTANTS
  Threads = {a, b}
  Watched = a
  Span = 4
  RowPieces = 2
  FullAt = 3
  QuarantineAfter = 1
  Batches <- SmallBatches
  ReplayLimit = 4
  FrameEvents = 1
  MaxPieces = 3
  Records <- SmallRecords
  MaxRefusals = 1
  MaxFaults = 1
INVARIANT NoDoubleAppend
CHECK_DEADLOCK FALSE
