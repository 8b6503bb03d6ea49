SPECIFICATION ApiFairSpec
CONSTANTS
  a1 = a1
  a2 = a2
  a3 = a3
  None = None
  Callers = {a1, a2, a3}
  One = 2
  Burst = 2
  Retries = 1
  Calls = 1
  Leisure = 2
  Horizon = 24
CHECK_DEADLOCK FALSE
INVARIANTS
  RateBound
  OkMeansApplied
PROPERTY
  CallReturns
