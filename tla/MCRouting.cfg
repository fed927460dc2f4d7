SPECIFICATION RoutingSpec
CONSTANTS
  Schedulers = {s1, s2}
  MaxCalls = 2
  MaxGrant = 2
  Deadline = 2
  LeaseTime = 1
  StaleTime = 1
  MaxTime = 3
  Nobody = Nobody
  Pollers = {s1, s2}
  MaxRetries = 2
  MaxRunCrashes = 2
  MaxSwitches = 2
  Scopes = {1, 2, 3}
  Blames = {{1}, {2}, {2, 3}}
  Requests = {q1, q2, q3}
  Batches = {q3}
  NoRequestYet = NoRequestYet
INVARIANTS SpendIsCharged AtMostOneLateRequest OpenJobHasOpenTask PostsOnce QueueTellsTruth OneProbe NoCrossedLocks
PROPERTIES KeepsContract JobWorkRests RoutedFiringRests RecoversOnProof
CHECK_DEADLOCK FALSE
