SPECIFICATION FairSpec
CONSTANTS
  s1 = s1  s2 = s2  elsewhere = elsewhere  k1 = k1  k2 = k2
  None = None
  Servers <- TwoServers
  Local = s1
  TotalChunks = 1
  Inserters = {k1}
  Readers = {}
  Removers = {k1}
  replication_factor = 2
  MaxDeaths = 2
PROPERTIES
  UploadReturns
  UploadVisible
  ClientsSeeDirectory
