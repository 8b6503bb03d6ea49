SPECIFICATION ModFairSpec
CONSTANTS
  s = s
  a = a
  o = o
  x = x
  w1 = w1
  w2 = w2
  None = None
  Messages <- Crowd
  Senders <- MCSenders
  Owner = o
  Admins = {a}
  Words = {x}
  Workers = {w1, w2}
  FloodLimit = 1
  Window = 1
  MaxWait = 1
  Horizon = 3
  FirstFlags <- FloodOn
  MayFail = TRUE
CHECK_DEADLOCK FALSE
PROPERTIES
  FloodExact
  FloodWasSent
  MessagesJudged
