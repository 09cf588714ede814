SPECIFICATION FairSync
CONSTANTS
  None = None
  a = a
  ab = ab
  b = b
  d1 = d1
  d2 = d2
  m = m
  Paths <- MCPaths
  Below <- MCBelow
  Rank <- MCRank
  Digests = {d1, d2}
  Ids = {m}
  Changes <- MCChanges
  MaxJournal = 4
  SnapshotLimit = 1
  ChangesLimit = 2
  MaxRestarts = 1
INVARIANTS
  SyncTypeOK
  MirrorConverges
  MirrorIsPastState
PROPERTIES
  HeadReached
CHECK_DEADLOCK FALSE
