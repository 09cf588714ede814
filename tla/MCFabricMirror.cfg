SPECIFICATION MirrorSpec
CONSTANTS
  None = None
  pa = pa
  pab = pab
  pb = pb
  d1 = d1
  d2 = d2
  Hosts = {h1}
  Client = h1
  Paths <- MCPaths
  Below <- MCBelow
  Rank <- MCRank
  Digests = {d1, d2}
  SparseDigests = {}
  Mutations = {m1, m2}
  SeedId = seed
  Batches <- MCBatches
  Seeds <- MCSeeds
  LegacyRequests <- MCLegacy
  MaxGen = 1
  MaxJournal = 4
  SnapshotLimit = 2
  ChangesLimit = 2
  MaxRestarts = 1
INVARIANTS
  NamespaceIsJournal
  NoLostUpdate
  ReceiptsNameRecords
  ReachedIsSeen
PROPERTIES
  ReplayWritesNothing
  ImplementsSync
