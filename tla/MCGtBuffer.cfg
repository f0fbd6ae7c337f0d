SPECIFICATION Spec
CONSTANTS
  BufferSize = 3
  MaxDt = 1
  GateEnabled = TRUE
  MaxVar = 1
  MinFailures = 2
  MaxFailures = 3
  LastStamp = 7
  WorstVar = 2
INVARIANTS BufferMonotone BufferBounded LookupCorrect GateConservative
PROPERTY PastIsSettled
