SPECIFICATION Spec
CONSTANTS
  p1 = p1
  p2 = p2
  d1 = d1
  Poppers <- OnePopper
  Drainers <- OneDrainer
  MaxSize = 2
  DropOldest = TRUE
  MaxPush = 2
  MaxBatch = 1
PROPERTY EndWakes
CHECK_DEADLOCK FALSE
