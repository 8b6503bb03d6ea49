SPECIFICATION Spec
CONSTANTS
  j1 = j1
  j2 = j2
  j3 = j3
  j4 = j4
  k1 = k1
  k2 = k2
  k3 = k3
  Jobs = {j1, j2, j3, j4}
  Keys <- MCKeys
  Key <- MCKey
  Prio <- MixedPrio
  Workers = {w1, w2}
  None = None
  MaxSize = 1
  DropOldest = FALSE
  Expiring = {}
  Operator = {}
  QuiescentStop = FALSE
CHECK_DEADLOCK FALSE
INVARIANTS
  AcknowledgedIsKept
