SPECIFICATION Spec
CONSTANTS
  t1 = t1
  t2 = t2
  ImuThreads <- OneImuThread
  PoseSources <- OverrideOnly
  MinFailures = 1
  MaxSample = 1
  MaxScan = 3
  MaxReset = 1
INVARIANT NoDriftFromPrevious
CHECK_DEADLOCK FALSE
