SPECIFICATION Spec
CONSTANTS
  DeskewModes = {TRUE, FALSE}
  RejectJumps = TRUE
  JumpLimit = 2
  JumpScale = 1
  JumpClamp = 3
  GtRecovery = TRUE
  MinFailures = 2
  Half = 1
  Margin = 1
  BufferSize = 6
  ImuLate = {FALSE}
  ImuLag = 1
  MaxPeriod = 3
  MaxReset = 1
  LastStamp = 12
INVARIANT NeverFarBehind
INVARIANT NeverFarAhead
INVARIANT ReacquisitionAdmitted
CHECK_DEADLOCK FALSE
