SPECIFICATION FairSpec
CONSTANTS
  t1 = t1
  t2 = t2
  t3 = t3
  Tasks = {t1, t2, t3}
  Clients = {t1, t2, t3}
  Unchecked = {t2}
  Parallel = 2
  MaxAttempts = 2
  Burst = 1
  Grain = 2
  Timeout = 3
  FaultKinds = {"timeout", "os", "cancel", "crash"}
INVARIANTS TypeOK PermitsBalance  Metered
PROPERTIES DeliversFetch BatchEnds
