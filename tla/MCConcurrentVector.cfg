SPECIFICATION Spec
CONSTANTS
  p1 = p1
  p2 = p2
  d1 = d1
  Poppers <- TwoPoppers
  Drainers <- OneDrainer
  MaxSize = 2
  DropOldest = TRUE
  MaxPush = 5
  MaxBatch = 2
INVARIANT InOrder
INVARIANT NoSleepOnData
PROPERTY ImplementsFifo
PROPERTY EndWakesOthers
CHECK_DEADLOCK FALSE
