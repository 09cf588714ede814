SPECIFICATION Spec
CONSTANTS
  None = None
  pa = pa
  pab = pab
  pb = pb
  d1 = d1
  d2 = d2
  s = s
  Hosts = {h1}
  Paths <- MCPaths
  Below <- MCBelow
  Digests = {d1, d2, s}
  SparseDigests = {s}
  Mutations = {m1}
  SeedId = seed
  Batches <- MCBatches
  Seeds <- MCSeeds
  LegacyRequests <- MCLegacy
  MaxGen = 2
  MaxJournal = 3
INVARIANTS
  TypeOK
  ContentStored
  LegacyServesVersion
PROPERTIES
  GenerationFence
