SPECIFICATION Spec
CONSTANTS
  t1 = t1
  t2 = t2
  ImuThreads <- OneImuThread
  PoseSources <- OverrideOnly
  MinFailures = 1
  MaxSample = 3
  MaxScan = 2
  MaxReset = 1
INVARIANT OverrideReaches
CHECK_DEADLOCK FALSE
