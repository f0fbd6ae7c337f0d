SPECIFICATION Spec
CONSTANTS
  MaxSubmaps = 3
  BufferSize = 2
  EvalCount = 1
INVARIANT FactorsHaveValues
INVARIANT LoopOnce
PROPERTY SaveIsConsistent
PROPERTY LoopsReachGraph
CHECK_DEADLOCK FALSE
