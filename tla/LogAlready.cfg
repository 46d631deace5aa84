SPECIFICATION Spec
CONSTANTS
  p1 = p1
  p2 = p2
  t1 = t1
  t2 = t2
  NoThread = NoThread
  Procs = {p1}
  Threads = {t1, t2}
  ProcOf <- OneProc
  Loaders = {t1, t2}
  LastFile = 2
  RecLens = {1, 2}
  BytesPerUnit = 2
  IntLimit = 8
  InitialConfigs <- TwoFiles
  IOMayFail = TRUE
  DeleteMayFail = FALSE
  MaxRecords = 1
  MaxRaced = 1
  MaxRestarts = 0
CHECK_DEADLOCK FALSE
INVARIANTS
  AlreadyMeansReady
