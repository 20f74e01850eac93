SPECIFICATION Spec
CONSTANTS
  p1 = p1
  p2 = p2
  spdx3 = spdx3
  cyclonedx = cyclonedx
  e1 = e1
  e2 = e2
  f1 = f1
  f2 = f2
  svc1 = svc1
  svc2 = svc2
  svc3 = svc3
  Paths <- MCPaths
  Status <- MCStatus
  MaxLayers = 3
  Packages = {p1, p2}
  MaxFiles = 2
  MaxRoots = 2
  Formats = {spdx3, cyclonedx}
  MaxRuns = 2
  MaxRequest = 2
  Enrichers = {e1, e2}
  NumBinaries = 1
  Filenames = {f1, f2}
  MaxSnapshots = 2
  MaxRows = 2
  Services = {svc1, svc2, svc3}
  MaxRegistrations = 3
SYMMETRY MCSymmetry
INVARIANTS SbomPathTypeOK MergedIsOverlay PartialIsSaid   RecordsAreWritten EnrichedFromSnapshot CycleIffCyclic
\* A scan returns once.
CHECK_DEADLOCK FALSE
