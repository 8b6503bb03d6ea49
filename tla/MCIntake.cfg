SPECIFICATION IntakeSpec
CONSTANTS
  MaxRequests = 2
  Window = 1
  Ttl = 2
  Horizon = 3
  c1 = c1
  m1 = m1
  m2 = m2
  new = new
  b1 = b1
  x1 = x1
  None = None
  Ids <- MCIds
  Updates <- MCUpdates
  DedupKeys <- MCKeys
  QueueMayFill = TRUE
INVARIANTS
  NoBurst
  RefusedOnlyWhenFull
  FreshApart
  NotRefreshed
  FreshIsHanded
  NoForeignSwallow

