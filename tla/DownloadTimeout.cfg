SPECIFICATION Spec
CONSTANTS
  t1 = t1
  t2 = t2
  t3 = t3
  Tasks = {t1, t2}
  Clients = {t1, t2}
  Unchecked = {}
  Parallel = 2
  MaxAttempts = 3
  Burst = 6
  Grain = 1
  Timeout = 2
  FaultKinds = {"timeout"}
INVARIANT TimeoutIsRetriable
