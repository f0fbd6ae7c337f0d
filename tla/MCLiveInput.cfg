SPECIFICATION Spec
CONSTANTS
  Aux = {"left"}
  Window = 1
  MaxQueue = 2
  Threshold = 1
  BufferSize = 2
  MaxStamp = 4
  MaxMsgs = 4
INVARIANT InOrderWithinWindow
INVARIANT HeldForAux
PROPERTY NearestIsMerged
PROPERTY StopDrains
CHECK_DEADLOCK FALSE
