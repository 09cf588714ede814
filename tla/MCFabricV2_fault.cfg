SPECIFICATION Spec
CONSTANTS
  None = None
  pa = pa
  pab = pab
  pb = pb
  d1 = d1
  d2 = d2
  s = s
  Hosts = {h1}
  Paths <- MCPaths
  Below <- MCBelow
  Digests = {d1, s}
  SparseDigests = {s}
  Mutations = {m1, m2}
  SeedId = seed
  Batches <- SparseBatches
  Seeds <- SparseSeeds
  LegacyRequests <- NoLegacy
  MaxGen = 1
  MaxJournal = 4
PROPERTIES
  ChangesAreJournalled
