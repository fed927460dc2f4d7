SPECIFICATION LedgersSpec
CONSTANTS
  Requests = {r1, r2}
  p1 = p1
  p2 = p2
  u = u
  f = f
  Slots <- MCSlots
  Fixed <- MCFixed
  Input <- MCInput
  Output <- MCOutput
  Price <- MCPrice
  Uses <- MCUses
  Limits <- MCLimits
  Restored <- MCRestored
  MaxGrant = 3
  Unlimited = Unlimited
  Unknown = Unknown
  Appenders = {a, g}
  Snapshotters = {g}
  QueueCap = 2
  BatchCap = 2
  Keep = 1
  MaxMonths = 2
  MaxEvents = 4
  MaxDrops = 1
  MaxMishaps = 1
  s1 = s1
  s2 = s2
  m1 = m1
  m2 = m2
  f1 = f1
  f2 = f2
  Schedulers = {s1, s2}
  Sockets = {k1, k2}
  UpSchedulers <- BothUp
  Machines = {m1, m2}
  Folders = {f1, f2}
  Host <- OneEach
  NoFolder = NoFolder
  TaskRetries = 2
  MaxOccurrences = 2
  MaxMoves = 2
INVARIANTS LedgerIsExact TokensWithinCap CapsKnowTheSpend BreaksExplained WrittenOnce  MadeUpOnce OverlapBounded
CHECK_DEADLOCK FALSE
