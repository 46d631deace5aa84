SPECIFICATION Spec
CONSTANTS
  p1 = p1
  p2 = p2
  t1 = t1
  t2 = t2
  NoThread = NoThread
  Procs = {p1}
  Threads = {t1, t2}
  ProcOf <- OneProc
  Loaders = {t1}
  LastFile = 2
  RecLens = {1, 2}
  BytesPerUnit = 2
  IntLimit = 8
  InitialConfigs <- TwoFiles
  IOMayFail = FALSE
  DeleteMayFail = FALSE
  MaxRecords = 3
  MaxRaced = 1
  MaxRestarts = 1
CHECK_DEADLOCK FALSE
PROPERTIES
  IndexRestored
