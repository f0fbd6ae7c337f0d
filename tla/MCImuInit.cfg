SPECIFICATION Spec
SYMMETRY Symmetry
CONSTANTS
  ImuThreads = {t1, t2}
  RtkInit = TRUE
  UseParam = TRUE
  UseOdomInit = TRUE
  ImuOnly = FALSE
  Window = 1
  Fallback = 1
  CalibTime = 1
  MaxGap = 1
  Stall = 1
  FirstStamp = 2
  LastStamp = 15
  t1 = t1
  t2 = t2
CONSTRAINT Calibrating
VIEW SourcesAside
INVARIANT UnseededDeadline
INVARIANT OutputContinues
CHECK_DEADLOCK FALSE
