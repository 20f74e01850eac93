SPECIFICATION FairSpec
CONSTANTS
  w1 = w1
  w2 = w2
  h1 = h1
  Runs = {w1, w2}
  Publishers = {w1, w2}
  Owners = {w1, w2}
  EventTypes = {"started", "completed", "failed", "cancelled"}
  Handlers = {h1}
  Observed = {"started"}
  MaxHandlers = 2
  MaxResources = 2
  Allowed <- MCAllowed
  Acquirers = {w1}
INVARIANTS EngineTypeOK OneTerminalEvent CancelledNeverCompletes InRegistrationOrder
PROPERTIES NoAttemptAfterCancel ShutdownDrains ExitsInReverse RunEnds
