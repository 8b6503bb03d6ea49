SPECIFICATION LogFairSpec
CONSTANTS
  c1 = c1
  c2 = c2
  m1 = m1
  m2 = m2
  w1 = w1
  w2 = w2
  None = None
  Chats = {c1, c2}
  Messages = {m1, m2}
  Workers = {w1, w2}
  Limits <- MCLimits
  Keeps <- MCKeeps
  MaxDelete = 2
  MaxLog = 3
INVARIANTS
  NewestKept
  EnoughKept
  ReportTrue
PROPERTY
  BulkDeleteEnds
