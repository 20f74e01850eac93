SPECIFICATION FairSpec
CONSTANTS
  p1 = p1
  p2 = p2
  k1 = k1
  k2 = k2
  k3 = k3
  Runners = {p1, p2}
  NumFiles = 2
  NumContents = 2
  NumVersions = 2
  Keys = {k1, k2, k3}
  LastContent <- MCLastContent
  Lists <- MCLists
  MaxFaults = 1
INVARIANTS TypeOK RecordIsBacked
PROPERTIES PublishedIsWhole EventuallyIndexed
