SPECIFICATION FairSpec
CONSTANTS
  a = a
  b = b
  None = None
  Mutations = {m1}
  Paths <- MCPaths
  Clashes <- MCClashes
  Blocks <- MCBlocks
  Contents <- MCContents
  Puts <- MCPuts
  Publications <- MCPublications
  Bypasses <- MCBypasses
  MaxGen = 2
  MaxManifest = 3
  MaxElsewhere = 2
INVARIANTS
  LegacyTypeOK
  ViewIsManifest
  AppliedOnce
PROPERTIES
  ProvenContent
  CatchesUp
