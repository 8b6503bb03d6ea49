SPECIFICATION Spec
CONSTANTS
  j1 = j1
  j2 = j2
  j3 = j3
  j4 = j4
  k1 = k1
  k2 = k2
  k3 = k3
  Jobs = {j1, j2, j3, j4}
  Keys <- MCKeys
  Key <- PairedKey
  Prio <- MixedPrio
  Workers = {w1, w2}
  None = None
  MaxSize = 1
  DropOldest = TRUE
  Expiring = {k2}
  Operator = {"stop"}
  QuiescentStop = FALSE
SYMMETRY WorkerSymmetry
CHECK_DEADLOCK FALSE
INVARIANTS
  TypeOK
  OnePlace
  NoLostWakeup
  StopServesHigh
  SizeAccounting
  Capacity
  OncePerKey
  HealthReconciles
PROPERTIES
  ImplementsLedger
