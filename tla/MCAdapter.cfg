SPECIFICATION AdapterSpec
CONSTANTS
  Streams <- InputStreams
  Gaps = {0, 3, 5}
  PoseGaps = {2, 3}
  Lags = {1, 2, 4}
  Unit = 10
  Period = 4
  Lookahead = 2
  Tolerance = 1
  BinSize = 3
  DriftTol = 11
  MaxImu = 4
  MaxPose = 2
INVARIANT AdapterTypeOK
INVARIANT EachOnce
INVARIANT BurstBounded
INVARIANT OdomNotEarly
INVARIANT RtkSharesStamp
PROPERTY AllPublished
CHECK_DEADLOCK FALSE
