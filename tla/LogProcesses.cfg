SPECIFICATION Spec
CONSTANTS
  p1 = p1
  p2 = p2
  t1 = t1
  t2 = t2
  NoThread = NoThread
  Procs = {p1, p2}
  Threads = {t1, t2}
  ProcOf <- TwoProcs
  Loaders = {t1, t2}
  LastFile = 3
  RecLens = {1, 2}
  BytesPerUnit = 2
  IntLimit = 8
  InitialConfigs <- Saved
  IOMayFail = FALSE
  DeleteMayFail = TRUE
  MaxRecords = 5
  MaxRaced = 1
  MaxRestarts = 0
CHECK_DEADLOCK FALSE
INVARIANTS
  OpenFileExclusive
  FilesWithinNum
  ConfigReadable
