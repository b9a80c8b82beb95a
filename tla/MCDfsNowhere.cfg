SPECIFICATION Spec
CONSTANTS
  s1 = s1  s2 = s2  elsewhere = elsewhere  k1 = k1  k2 = k2
  None = None
  Servers <- OneServer
  Local = s1
  TotalChunks = 2
  Inserters = {k1}
  Readers = {}
  Removers = {}
  replication_factor = 1
  MaxDeaths = 0
INVARIANTS
  UploadLocated
