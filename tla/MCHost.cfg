SPECIFICATION HostFairSpec
CONSTANTS
  v = v
  t = t
  i = i
  path = path
  bak = bak
  gone = gone
  service = service
  manual = manual
  r1 = r1
  Places = {path, bak}
  Home = path
  Backup = bak
  Removed = gone
  Procs = {service, manual}
  Service = service
  Manual = manual
  Rows = {r1}
  Schema <- MCSchema
  Added <- MCAdded
  Latest = 2
  Found <- MCFound
  MaxCommands = 4
  MaxFails = 2
  Careful = TRUE
CHECK_DEADLOCK FALSE
INVARIANTS
  VersionTruthful
  ServesWithSchema
  IntactSomewhere
  RowsKept
PROPERTY
  ServiceReturns
