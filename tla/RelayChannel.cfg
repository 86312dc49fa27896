\* A daemon and a portable client whose messages overrun their windows in both directions.
SPECIFICATION FairSpec
CONSTANTS
  FLOW_WINDOW = 9
  MIN_COST = 3
  CREDIT_STEP = 2
  PortableEnds <- Portable
  FULL = 4
  PLAIN_HIGH_WATER = 3
  QUEUE_COUNT = 3
  QUEUE_BYTES = 9
  PENDING_LIMIT = 6
  REKEY_INTERVAL = 2
  Shapes <- LongShape
  MaxMessages <- MostlyHost
INVARIANTS TypeOK WindowHonoured KeysInStep QueueFits InFlightBounded
PROPERTIES InOrder Delivered
CHECK_DEADLOCK FALSE
