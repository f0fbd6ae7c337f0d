SPECIFICATION Spec
CONSTANTS
  t1 = t1
  t2 = t2
  ImuThreads <- TwoImuThreads
  PoseSources <- BothSources
  MinFailures = 1
  MaxSample = 4
  MaxScan = 3
  MaxReset = 1
SYMMETRY ImuSymmetry
CONSTRAINT Budget
INVARIANT CorrectionKept
INVARIANT NoSampleSkipped
INVARIANT CleanResetHolds
INVARIANT ScanNeverStuck
PROPERTY ImplementsAtomic
CHECK_DEADLOCK FALSE
