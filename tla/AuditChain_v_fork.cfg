SPECIFICATION AuditSpec
CONSTANTS
  Appenders = {a, g}
  Snapshotters = {g}
  QueueCap = 2
  BatchCap = 2
  Keep = 1
  MaxMonths = 2
  MaxEvents = 4
  MaxDrops = 0
  MaxMishaps = 1
INVARIANT ChainLinks
CHECK_DEADLOCK FALSE
