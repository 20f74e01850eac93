SPECIFICATION Spec
CONSTANTS
  w1 = w1
  w2 = w2
  h1 = h1
  Runs = {w1}
  Publishers = {w1}
  Owners = {w1}
  EventTypes = {"started", "completed", "failed", "cancelled"}
  Handlers = {h1}
  Observed = {}
  MaxHandlers = 0
  MaxResources = 1
  Acquirers = {w1}
  Allowed <- MCAllowed
INVARIANT ResourcesReleased
