SPECIFICATION Spec
CONSTANTS
  f1 = f1  f2 = f2  v1 = v1  v2 = v2
  Absent = Absent  Partial = Partial  NotFound = NotFound  Garbled = Garbled
  Files <- TwoFiles
  Chunks <- TwoChunks
  Contents <- OneContent
  Faults = {}
  Restarts = {"run.sh"}
  Interleaved = TRUE
  MaxListed = 3
INVARIANTS
  AckedServed
