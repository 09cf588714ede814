SPECIFICATION FairSpec
CONSTANTS
  a = a
  b = b
  None = None
  Hosts = {h1}
  Mutations = {m1, m2}
  HoldIds = {x1}
  Paths = {p1}
  Blocks = {a, b}
  Files <- MCFiles
  Batches <- MCBatches
  Lease = 3
  Margin = 1
  MinTicket = 1
  TicketTTLs = {2}
  HoldTTLs = {2, 3}
  OperationTTL = 2
  MaxOperations = 1
  MaxTargets = 2
  MaxHolds = 1
  MaxGen = 2
  MaxTickets = 1
INVARIANTS
  TransferTypeOK
  TicketsAreCovered
PROPERTIES
  FenceOpens
  ImplementsFence
