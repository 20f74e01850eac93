SPECIFICATION Spec
CONSTANTS
  main = main
  contrib = contrib
  a1 = a1
  a2 = a2
  x1 = x1
  x2 = x2
  y1 = y1
  p1 = p1
  p2 = p2
  q1 = q1
  NoContent = NoContent
  NumSuites = 1
  IndexPaths = {main, contrib}
  Artifacts = {a1, a2}
  NumReleases = 1
  IndexContents = {x1, x2, y1}
  Packages = {p1, p2, q1}
  ReleaseLists <- Static
  IndexLists <- MCIndexLists
  Malformed = {}
  InReleaseSuites = {1}
  ForeignKeys = FALSE
  BatchSize = 1
  MaxRetries = 3
  MaxFaults = 1
  FaultKinds = {"http"}
PROPERTY PublishedWhenSettled
