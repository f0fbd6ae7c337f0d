SPECIFICATION Spec
CONSTANTS
  main = main
  live = live
  Feeder = main
  Pumps <- LiveNode
  Lag = 1
  MaxKeyframes = 2
  MaxImu = 3
  MaxFrames = 3
INVARIANT TypeOK
INVARIANT ConservedInOrder
INVARIANT ShutdownHandsOver
PROPERTY FrameIsEstimated
PROPERTY WaitReturns
CHECK_DEADLOCK FALSE
