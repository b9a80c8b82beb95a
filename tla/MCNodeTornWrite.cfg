SPECIFICATION Spec
CONSTANTS
  f1 = f1  f2 = f2  v1 = v1  v2 = v2
  Absent = Absent  Partial = Partial  NotFound = NotFound  Garbled = Garbled
  Files <- TwoFiles
  Chunks <- TwoChunks
  Contents <- OneContent
  Faults = {"fopen", "fwrite", "unlink"}
  Restarts = {"run.sh", "binary"}
  Interleaved = TRUE
  MaxListed = 2
INVARIANTS
  AckedPresent
  PartialNeverServed
PROPERTIES
  WriteOnce
