SPECIFICATION AuditSpec
CONSTANTS
  Appenders = {a, g}
  Snapshotters = {}
  QueueCap = 2
  BatchCap = 2
  Keep = 1
  MaxMonths = 2
  MaxEvents = 4
  MaxDrops = 1
  MaxMishaps = 1
INVARIANT StaysVerifiable
CHECK_DEADLOCK FALSE
