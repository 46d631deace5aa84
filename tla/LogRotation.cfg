SPECIFICATION FairSpec
CONSTANTS
  p1 = p1
  p2 = p2
  t1 = t1
  t2 = t2
  NoThread = NoThread
  Procs = {p1}
  Threads = {t1, t2}
  ProcOf <- OneProc
  Loaders = {t1, t2}
  LastFile = 3
  RecLens = {1, 2}
  BytesPerUnit = 2
  IntLimit = 8
  InitialConfigs <- Configs
  IOMayFail = TRUE
  DeleteMayFail = FALSE
  MaxRecords = 6
  MaxRaced = 1
  MaxRestarts = 1
CHECK_DEADLOCK FALSE
INVARIANTS
  MutexDiscipline
  SizeBounded
PROPERTIES
  DiscardsOnlyWhenFull
  KeepsNewest
  SizeHonoured
  MutexReleased
