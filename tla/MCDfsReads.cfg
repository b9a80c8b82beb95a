SPECIFICATION Spec
CONSTANTS
  s1 = s1  s2 = s2  elsewhere = elsewhere  k1 = k1  k2 = k2
  None = None
  Servers <- TwoServers
  Local = elsewhere
  TotalChunks = 2
  Inserters = {k1}
  Readers = {k2}
  Removers = {}
  replication_factor = 1
  MaxDeaths = 1
SYMMETRY ServerSymmetry
INVARIANTS
  TypeOK
  UploadStored
  ReadComplete
PROPERTIES
  ImplementsFileStore
