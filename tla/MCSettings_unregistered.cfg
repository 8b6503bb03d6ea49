SPECIFICATION SettingsSpec
CONSTANTS
  g1 = g1
  g2 = g2
  w1 = w1
  w2 = w2
  NoRow = NoRow
  Chats = {g1, g2}
  Workers = {w1, w2}
  CacheSize = 1
  Registered = {}
  Joining = {}
  Commands = {"antilink", "press"}
  MayRestart = TRUE
PROPERTIES
  AnswersAreTrue
