SPECIFICATION FairProcessSpec
CONSTANTS
  CallsMayFail = TRUE
  MaxStarts = 2
  MaxCrashes = 2
  Installers = {i1, i2}
  InstallerFails = {"manager", "open", "create", "update"}
  Threads = {t1, t2}
  Null = Null
  SystemCallsMayFail = TRUE
  MaxOther = 2
CHECK_DEADLOCK FALSE
INVARIANTS
  ThreadsInStep
  ProtectedUnlessInstalling
  DumpIntact
  FilterBeforeHook
  EntryExecutable
PROPERTIES
  StatusInOrder
  DeletesStoppedService
  StopCompletes
  UninstallerEnds
  RestoresHandler
