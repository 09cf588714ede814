SPECIFICATION Spec
CONSTANTS
  None = None
  mac = mac
  own = own
  other = other
  Hosts = {mac}
  Sessions = {own, other}
  Home <- MCHome
  Threads = {t1, t2}
  Requests <- MCRequests
  MaxGen = 3
SYMMETRY Alike
INVARIANTS
  HostTypeOK
  UniqueActiveAttachment
  OwnerGrantKept
  NumbersSpentOnce
PROPERTIES
  RevocationSettles
