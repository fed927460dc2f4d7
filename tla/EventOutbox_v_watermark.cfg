SPECIFICATION SwitchesSpec
CONSTANTS
  w1 = w1
  w2 = w2
  d1 = d1
  d2 = d2
  a1 = a1
  r1 = r1
  NoRes = NoRes
  NoBucket = NoBucket
  Workflows = {w1, w2}
  Dispatchers = {d1, d2}
  Admins = {a1, a2}
  Kinds <- MCKinds
  Coalesced = {w2}
  OnSystem = {w2}
  ChildTo <- MCChildTo
  Deployments <- MCDeployments
  MaxDepth = 2
  Cap <- MCCap
  Trips = 1
  Batch = 2
  MaxEvents = 2
  MaxToggles = 1
  MaxCrashes = 1
INVARIANTS OnlyOldSkipped
CHECK_DEADLOCK FALSE
