SPECIFICATION Spec
CONSTANTS
  f1 = f1
  f2 = f2
  old = old
  new = new
  u1 = u1
  u2 = u2
  Files = {f1, f2}
  NumRepositories = 2
  FilesOf <- MCFilesOf
  Digests = {1, 2}
  Absent = Absent
  MaxFaults = 1
  MaxDamage = 1
  Migrators = {old, new}
  Version = 2
  Known <- MCKnown
  Statements = 2
  Units = {u1, u2}
  PoolSize = 1
  MaxWrites = 2
INVARIANTS StorageTypeOK    HistoryMatchesSchema 
PROPERTY RemovesOnlyUnvouched
\* A unit of work that is over stays so.
CHECK_DEADLOCK FALSE
