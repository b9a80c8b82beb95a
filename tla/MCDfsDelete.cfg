SPECIFICATION Spec
CONSTANTS
  s1 = s1  s2 = s2  elsewhere = elsewhere  k1 = k1  k2 = k2
  None = None
  Servers <- OneServer
  Local = elsewhere
  TotalChunks = 2
  Inserters = {k1}
  Readers = {}
  Removers = {k2}
  replication_factor = 1
  MaxDeaths = 0
INVARIANTS
  DeleteReturnsTrue
