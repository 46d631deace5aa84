----------------------------- MODULE LogModule -----------------------------
(***************************************************************************)
(* The rotating text log of LogModule/LogModule.cpp, as it runs in one or  *)
(* more processes that load the DLL and share the log directory and the    *)
(* file configure.xml.                                                     *)
(*                                                                         *)
(* Every process has its own copy of the DLL's static variables; the log   *)
(* files and configure.xml are on the disk and survive a restart.  One     *)
(* thread executes one call at a time; pc says how far into the call it    *)
(* is.  A step boundary is placed wherever another thread of the process,  *)
(* or another process, can see or change what the call depends on.         *)
(*                                                                         *)
(* LoadLogModule initialises the mutex and is not protected by it.  Two    *)
(* threads that pass its check of _initialized together initialise a mutex *)
(* that may be held: from then on (raced) locking is undefined, and the    *)
(* model goes on with any owner.                                           *)
(***************************************************************************)
EXTENDS Integers, FiniteSets

CONSTANTS
  Procs,          \* the processes that load the DLL
  Threads,        \* all their threads
  ProcOf,         \* the process a thread belongs to
  Loaders,        \* the threads that call LoadLogModule and UnloadLogModule
  LastFile,       \* no file beyond <name>_LastFile.txt is ever named
  RecLens,        \* lengths a formatted record can have
  BytesPerUnit,   \* 1024 * 1024 in the code: bytes per unit of <Size>
  IntLimit,       \* 2^31 in the code: an int is in -IntLimit .. IntLimit - 1
  InitialConfigs, \* contents configure.xml may have at the start
  IOMayFail,      \* memory and file operations may fail
  DeleteMayFail,  \* a viewer may hold a log file open, so DeleteFileA fails
  MaxRecords,     \* bound: no call starts once this many records are written
  MaxRaced,       \* bound: ... or this many, when two loads have raced
  MaxRestarts,    \* bound: processes that die and start again
  NoThread        \* owner of a free mutex

(***************************************************************************)
(* configure.xml.  section: the root has a child named after the program;  *)
(* size, num, index: the numbers in its <Log>; rootLog: the root itself    *)
(* has a child <Log>; rootIndex: the <Index> in that one.  readable is     *)
(* FALSE from the moment the file is truncated until it is written.        *)
(***************************************************************************)
Config ==
  [readable : BOOLEAN, section : BOOLEAN, size : Int, num : Int, index : Int,
   rootLog : BOOLEAN, rootIndex : Int]

ASSUME ThreadAssumption ==
  /\ ProcOf \in [Threads -> Procs]
  /\ Loaders \subseteq Threads
  /\ NoThread \notin Threads

ASSUME DataAssumption ==
  /\ RecLens \subseteq Nat \ {0}
  /\ BytesPerUnit \in Nat \ {0}
  /\ IntLimit \in Nat \ {0}
  /\ LastFile \in Nat \ {0}
  /\ MaxRecords \in Nat
  /\ MaxRaced \in Nat
  /\ MaxRestarts \in Nat
  /\ IOMayFail \in BOOLEAN
  /\ DeleteMayFail \in BOOLEAN

ASSUME ConfigAssumption ==
  /\ InitialConfigs \subseteq Config
  /\ \A c \in InitialConfigs :
       /\ c.readable
       /\ c.index \in 0 .. LastFile - 1
       /\ c.num =< LastFile

Files == 1 .. LastFile
Absent == -1     \* getFileSize of a file that does not exist
NoIndex == -1    \* UnloadLogModule has not returned 0 yet

VARIABLES
  initialized, \* _initialized in each process
  log,       \* _log is set
  mutex,     \* the thread that holds _mutex
  size,      \* _log_size, in bytes
  num,       \* _log_num
  index,     \* _log_index
  path,      \* the number of the file that _log_path names
  pc,        \* where each thread is
  ret,       \* what LoadLogModule, then UnloadLogModule returned to a thread
  config,    \* configure.xml
  fsize,     \* size of each log file
  recs,      \* the records each log file holds, numbered in writing order
  written,   \* history: records written so far
  stored,    \* history: the index the last successful UnloadLogModule stored
  restarts,  \* history: process deaths so far
  raced      \* history: two threads of a process passed its check together

flags == <<initialized, log>>
settings == <<size, num, index, path>>
statics == <<flags, mutex, settings>>
disk == <<config, fsize, recs, written>>
history == <<stored, restarts, raced>>
vars == <<statics, pc, ret, disk, history>>
-----------------------------------------------------------------------------
\* What wrapping 32-bit arithmetic leaves of an integer.
ToInt(n) == ((n + IntLimit) % (2 * IntLimit)) - IntLimit

\* A slip: the limit is taken for bytes.
LogSizeInBytes(c) == ToInt(c.size)

\* _log_size: atoi(text) * 1024 * 1024, computed in an int.
LogSize(c) == ToInt(c.size * BytesPerUnit)

\* fopen_s shares a file among readers and gives a writer sole access.
ConfigReaders == {t \in Threads : pc[t] \in {"parse", "reparse"}}
ConfigWriters == {t \in Threads : pc[t] = "print"}
Openers(f) == {t \in Threads : pc[t] = "fclose" /\ path[ProcOf[t]] = f}

Goto(t, label) == pc' = [pc EXCEPT ![t] = label]
Return(t, result) ==
  /\ Goto(t, "idle")
  /\ ret' = [ret EXCEPT ![t] = result]

Set(var, t, value) == [var EXCEPT ![ProcOf[t]] = value]

MutexLock(t) ==
  /\ mutex[ProcOf[t]] = NoThread
  /\ mutex' = Set(mutex, t, t)

\* What LeaveCriticalSection does for a thread that is not the owner is undefined.
MutexUnlock(t) ==
  IF mutex[ProcOf[t]] = t
  THEN mutex' = Set(mutex, t, NoThread)
  ELSE \E owner \in {u \in Threads : ProcOf[u] = ProcOf[t]} \cup {NoThread} :
         mutex' = Set(mutex, t, owner)
-----------------------------------------------------------------------------
(***************************************************************************)
(* LoadLogModule(name, NULL)                                               *)
(***************************************************************************)
LoadLogModule(t) ==
  /\ t \in Loaders
  /\ pc[t] = "idle"
  /\ ret[t] = "none"
  /\ \/ /\ initialized[ProcOf[t]]
        /\ Return(t, "already")
        /\ UNCHANGED raced
     \/ /\ ~ initialized[ProcOf[t]]
        /\ Goto(t, "initialize")
        /\ raced' = (raced \/ \E u \in Threads \ {t} :
                              ProcOf[u] = ProcOf[t] /\ pc[u] = "initialize")
        /\ UNCHANGED ret
  /\ UNCHANGED <<statics, disk, stored, restarts>>

\* _initialized = true.
SetInitialized(t) ==
  /\ pc[t] = "initialize"
  /\ initialized' = Set(initialized, t, TRUE)
  /\ Goto(t, "mutexInit")
  /\ UNCHANGED <<log, mutex, settings, ret, disk, history>>

\* InitializeCriticalSection: nobody owns it, whoever did.
MutexInit(t) ==
  /\ pc[t] = "mutexInit"
  /\ mutex' = Set(mutex, t, NoThread)
  /\ Goto(t, "load")
  /\ UNCHANGED <<flags, settings, ret, disk, history>>

\* initLogConfigure, up to LoadFile: no path, no access or no document.
OpenConfig(t) ==
  /\ pc[t] = "load"
  /\ \/ /\ ConfigWriters # {} \/ ~ config.readable \/ IOMayFail
        /\ Return(t, "failed")
     \/ /\ ConfigWriters = {} /\ config.readable
        /\ Goto(t, "parse")
        /\ UNCHANGED ret
  /\ UNCHANGED <<statics, disk, history>>

\* initLogConfigure, the getLog* calls.  Without the program's section the
\* call succeeds and the static variables keep their zeros.
ReadConfig(t) ==
  /\ pc[t] = "parse"
  /\ \/ /\ config.section
        /\ size' = Set(size, t, LogSize(config))
        /\ num' = Set(num, t, config.num)
        /\ index' = Set(index, t, config.index)
     \/ /\ ~ config.section
        /\ UNCHANGED <<size, num, index>>
  /\ Goto(t, "setLogFunc")
  /\ UNCHANGED <<flags, mutex, path, ret, disk, history>>

SetLogFunc(t) ==
  /\ pc[t] = "setLogFunc"
  /\ log' = Set(log, t, TRUE)
  /\ Return(t, "ok")
  /\ UNCHANGED <<initialized, mutex, settings, disk, history>>
-----------------------------------------------------------------------------
(***************************************************************************)
(* DebugLog, InfoLog, WarnLog, ErrorLog: defLogFunc, once _log is set.     *)
(***************************************************************************)
DefLogFunc(t) ==
  /\ pc[t] = "idle"
  /\ log[ProcOf[t]]
  /\ written < IF raced THEN MaxRaced ELSE MaxRecords
  /\ MutexLock(t)
  /\ Goto(t, "setLogPath")
  /\ UNCHANGED <<flags, settings, ret, disk, history>>

\* A slip: a file that exists is never continued.
FitsOnlyIfNew(t) ==
  LET f == index[ProcOf[t]] + 1 IN fsize[f] = Absent

\* setLogPath: the current file may be continued.
Fits(t) ==
  LET f == index[ProcOf[t]] + 1 IN
  fsize[f] = Absent \/ fsize[f] < size[ProcOf[t]]

\* setLogPath, the decision: nothing to do, keep the file, or rotate.
SetLogPath(t) ==
  /\ pc[t] = "setLogPath"
  /\ \/ /\ num[ProcOf[t]] = 0
        /\ MutexUnlock(t)
        /\ Goto(t, "idle")
        /\ UNCHANGED path
     \/ /\ num[ProcOf[t]] # 0 /\ Fits(t)
        /\ path' = Set(path, t, index[ProcOf[t]] + 1)
        /\ Goto(t, "fopen")
        /\ UNCHANGED mutex
     \/ /\ num[ProcOf[t]] # 0 /\ ~ Fits(t)
        /\ Goto(t, "rotate")
        /\ UNCHANGED <<mutex, path>>
  /\ UNCHANGED <<flags, size, num, index, ret, disk, history>>

\* A slip: the old file is appended to.
DeleteForgotten(f) == UNCHANGED <<fsize, recs>>

\* DeleteFileA fails on a file that somebody holds open; nobody checks.
DeleteFileA(f) ==
  \/ /\ Openers(f) = {}
     /\ fsize' = [fsize EXCEPT ![f] = Absent]
     /\ recs' = [recs EXCEPT ![f] = {}]
  \/ /\ Openers(f) # {} \/ DeleteMayFail
     /\ UNCHANGED <<fsize, recs>>

\* Slips: one file too many; the index of the first file taken for its number.
NextIndexTooFar(t) ==
  IF index[ProcOf[t]] + 1 =< num[ProcOf[t]] THEN index[ProcOf[t]] + 1 ELSE 0
NextIndexOneBased(t) ==
  IF index[ProcOf[t]] + 1 < num[ProcOf[t]] THEN index[ProcOf[t]] + 1 ELSE 1

\* _log_index ++, back to 0 when there are _log_num files.
NextIndex(t) ==
  IF index[ProcOf[t]] + 1 < num[ProcOf[t]] THEN index[ProcOf[t]] + 1 ELSE 0

\* setLogPath, the rotation: on to the next file, whose old records go.
Rotate(t) ==
  /\ pc[t] = "rotate"
  /\ index' = Set(index, t, NextIndex(t))
  /\ path' = Set(path, t, NextIndex(t) + 1)
  /\ DeleteFileA(NextIndex(t) + 1)
  /\ Goto(t, "fopen")
  /\ UNCHANGED <<flags, mutex, size, num, ret, config, written, history>>

\* A slip: an early return without MUTEX_UNLOCK.
OpenLogKeepsMutex(t) ==
  LET f == path[ProcOf[t]] IN
  /\ pc[t] = "fopen"
  /\ \/ /\ Openers(f) # {} \/ IOMayFail
        /\ Goto(t, "idle")
        /\ UNCHANGED fsize
     \/ /\ Openers(f) = {}
        /\ fsize' = [fsize EXCEPT ![f] = IF @ = Absent THEN 0 ELSE @]
        /\ Goto(t, "fclose")
  /\ UNCHANGED <<flags, mutex, settings, ret, config, recs, written, history>>

\* A slip: fopen, which shares the file with other writers.
OpenLogShared(t) ==
  LET f == path[ProcOf[t]] IN
  /\ pc[t] = "fopen"
  /\ fsize' = [fsize EXCEPT ![f] = IF @ = Absent THEN 0 ELSE @]
  /\ Goto(t, "fclose")
  /\ UNCHANGED <<statics, ret, config, recs, written, history>>

\* The buffers and fopen_s(.., "a"): a failure drops the record.
OpenLog(t) ==
  LET f == path[ProcOf[t]] IN
  /\ pc[t] = "fopen"
  /\ \/ /\ Openers(f) # {} \/ IOMayFail
        /\ MutexUnlock(t)
        /\ Goto(t, "idle")
        /\ UNCHANGED fsize
     \/ /\ Openers(f) = {}
        /\ fsize' = [fsize EXCEPT ![f] = IF @ = Absent THEN 0 ELSE @]
        /\ Goto(t, "fclose")
        /\ UNCHANGED mutex
  /\ UNCHANGED <<flags, settings, ret, config, recs, written, history>>

\* fprintf, fclose (which flushes the record), free, MUTEX_UNLOCK.  On a full
\* disk nothing reaches the file and nobody notices.
WriteLog(t) ==
  LET f == path[ProcOf[t]] IN
  /\ pc[t] = "fclose"
  /\ \/ /\ \E len \in RecLens : fsize' = [fsize EXCEPT ![f] = @ + len]
        /\ recs' = [recs EXCEPT ![f] = @ \cup {written + 1}]
        /\ written' = written + 1
     \/ IOMayFail /\ UNCHANGED <<fsize, recs, written>>
  /\ MutexUnlock(t)
  /\ Goto(t, "idle")
  /\ UNCHANGED <<flags, settings, ret, config, history>>
-----------------------------------------------------------------------------
(***************************************************************************)
(* UnloadLogModule().  As in main.cpp, only a caller whose LoadLogModule   *)
(* returned 0 calls it.  Logging stays possible afterwards.                *)
(***************************************************************************)
UnloadLogModule(t) ==
  /\ t \in Loaders
  /\ pc[t] = "idle"
  /\ ret[t] = "ok"
  /\ MutexLock(t)
  /\ Goto(t, "reload")
  /\ UNCHANGED <<flags, settings, ret, disk, history>>

\* A slip: the error path returns before MUTEX_UNLOCK.
ReopenKeepsMutex(t) ==
  /\ pc[t] = "reload"
  /\ \/ /\ ConfigWriters # {} \/ ~ config.readable \/ IOMayFail
        /\ Return(t, "failed")
     \/ /\ ConfigWriters = {} /\ config.readable
        /\ Goto(t, "reparse")
        /\ UNCHANGED ret
  /\ UNCHANGED <<statics, disk, history>>

\* LoadFile again.
ReopenConfig(t) ==
  /\ pc[t] = "reload"
  /\ \/ /\ ConfigWriters # {} \/ ~ config.readable \/ IOMayFail
        /\ MutexUnlock(t)
        /\ Return(t, "failed")
     \/ /\ ConfigWriters = {} /\ config.readable
        /\ Goto(t, "reparse")
        /\ UNCHANGED <<mutex, ret>>
  /\ UNCHANGED <<flags, settings, disk, history>>

\* LoadFile returns with the file closed; saveLogIndex edits the tree.
ReparseConfig(t) ==
  /\ pc[t] = "reparse"
  /\ Goto(t, "save")
  /\ UNCHANGED <<statics, ret, disk, history>>

\* SaveFile, fopen_s(.., "w"): truncates the file, or fails and is ignored.
TruncateConfig(t) ==
  /\ pc[t] = "save"
  /\ \/ /\ ConfigReaders \cup ConfigWriters # {} \/ IOMayFail
        /\ MutexUnlock(t)
        /\ Return(t, "unloaded")
        /\ stored' = index[ProcOf[t]]
        /\ UNCHANGED config
     \/ /\ ConfigReaders \cup ConfigWriters = {}
        /\ config' = [config EXCEPT !.readable = FALSE]
        /\ Goto(t, "print")
        /\ UNCHANGED <<mutex, ret, stored>>
  /\ UNCHANGED <<flags, settings, fsize, recs, written, restarts, raced>>

\* A slip: the file is opened for writing before it is known that there is
\* something to write.
SavedOnlyIfFound(c, i) ==
  IF c.rootLog THEN [c EXCEPT !.readable = TRUE, !.rootIndex = i] ELSE c

\* saveLogIndex is handed the root element: it changes the <Index> of a <Log>
\* that is a child of the root, or nothing when the root has no such child.
SavedConfig(c, i) ==
  [c EXCEPT !.readable = TRUE, !.rootIndex = IF c.rootLog THEN i ELSE @]

\* SaveFile, Print and fclose; a write error is ignored.
PrintConfig(t) ==
  /\ pc[t] = "print"
  /\ \/ config' = SavedConfig(config, index[ProcOf[t]])
     \/ IOMayFail /\ UNCHANGED config
  /\ stored' = index[ProcOf[t]]
  /\ MutexUnlock(t)
  /\ Return(t, "unloaded")
  /\ UNCHANGED <<flags, settings, fsize, recs, written, restarts, raced>>
-----------------------------------------------------------------------------
(***************************************************************************)
(* A process ends, whatever its threads are doing (main returns and the C  *)
(* runtime calls ExitProcess, or the process crashes), and starts again    *)
(* with the static initialisers.                                           *)
(***************************************************************************)
Restart(p) ==
  /\ restarts < MaxRestarts
  /\ restarts' = restarts + 1
  /\ initialized' = [initialized EXCEPT ![p] = FALSE]
  /\ log' = [log EXCEPT ![p] = FALSE]
  /\ mutex' = [mutex EXCEPT ![p] = NoThread]
  /\ size' = [size EXCEPT ![p] = 0]
  /\ num' = [num EXCEPT ![p] = 0]
  /\ index' = [index EXCEPT ![p] = 0]
  /\ path' = [path EXCEPT ![p] = 1]
  /\ pc' = [t \in Threads |-> IF ProcOf[t] = p THEN "idle" ELSE pc[t]]
  /\ ret' = [t \in Threads |-> IF ProcOf[t] = p THEN "none" ELSE ret[t]]
  /\ UNCHANGED <<disk, stored, raced>>

Init ==
  /\ initialized = [p \in Procs |-> FALSE]
  /\ log = [p \in Procs |-> FALSE]
  /\ mutex = [p \in Procs |-> NoThread]
  /\ size = [p \in Procs |-> 0]
  /\ num = [p \in Procs |-> 0]
  /\ index = [p \in Procs |-> 0]
  /\ path = [p \in Procs |-> 1]
  /\ pc = [t \in Threads |-> "idle"]
  /\ ret = [t \in Threads |-> "none"]
  /\ config \in InitialConfigs
  /\ fsize = [f \in Files |-> Absent]
  /\ recs = [f \in Files |-> {}]
  /\ written = 0
  /\ stored = NoIndex
  /\ restarts = 0
  /\ raced = FALSE

\* The steps a thread takes inside a call, and the calls themselves.
Proceed(t) ==
  \/ SetInitialized(t) \/ MutexInit(t)
  \/ OpenConfig(t) \/ ReadConfig(t) \/ SetLogFunc(t)
  \/ SetLogPath(t) \/ Rotate(t) \/ OpenLog(t) \/ WriteLog(t)
  \/ ReopenConfig(t) \/ ReparseConfig(t) \/ TruncateConfig(t) \/ PrintConfig(t)

Call(t) == LoadLogModule(t) \/ DefLogFunc(t) \/ UnloadLogModule(t)

Next ==
  \/ \E t \in Threads : Call(t) \/ Proceed(t)
  \/ \E p \in Procs : Restart(p)

Spec == Init /\ [][Next]_vars

\* The scheduler runs every thread that is inside a call.
FairSpec == Spec /\ \A t \in Threads : WF_vars(Proceed(t))
-----------------------------------------------------------------------------
Labels ==
  {"idle", "initialize", "mutexInit", "load", "parse", "setLogFunc", "setLogPath",
   "rotate", "fopen", "fclose", "reload", "reparse", "save", "print"}

\* The labels inside LoadLogModule, and those between MUTEX_LOCK and MUTEX_UNLOCK.
Loading == {"initialize", "mutexInit", "load", "parse", "setLogFunc"}
Critical ==
  {"setLogPath", "rotate", "fopen", "fclose", "reload", "reparse", "save", "print"}

TypeOK ==
  /\ initialized \in [Procs -> BOOLEAN]
  /\ log \in [Procs -> BOOLEAN]
  /\ mutex \in [Procs -> Threads \cup {NoThread}]
  /\ size \in [Procs -> Int]
  /\ num \in [Procs -> Int]
  /\ index \in [Procs -> 0 .. LastFile - 1]
  /\ path \in [Procs -> Files]
  /\ pc \in [Threads -> Labels]
  /\ ret \in [Threads -> {"none", "ok", "failed", "already", "unloaded"}]
  /\ config \in Config
  /\ fsize \in [Files -> Int]
  /\ recs \in [Files -> SUBSET (Nat \ {0})]
  /\ written \in Nat
  /\ stored \in Int
  /\ restarts \in Nat
  /\ raced \in BOOLEAN
-----------------------------------------------------------------------------
(***************************************************************************)
(* Locking: LogModule.cpp:551-609 and 346-368.                             *)
(***************************************************************************)

MutexHeld ==
  /\ \A t \in Threads : pc[t] \in Critical <=> mutex[ProcOf[t]] = t
  /\ \A p \in Procs : mutex[p] # NoThread => ProcOf[mutex[p]] = p

\* A thread owns its process's mutex exactly while it is between MUTEX_LOCK
\* and MUTEX_UNLOCK: no early return of defLogFunc or UnloadLogModule keeps
\* the mutex or gives away somebody else's, and no LoadLogModule initialises
\* it again under a logger, as long as no two threads pass the check of
\* _initialized together.
MutexDiscipline == ~ raced => MutexHeld

FilesHeld ==
  \A t, u \in Threads :
    pc[t] = "fclose" =>
      /\ fsize[path[ProcOf[t]]] # Absent
      /\ pc[u] = "fclose" /\ path[ProcOf[t]] = path[ProcOf[u]] => t = u

\* The file a thread has open exists, and nobody else has it open, although
\* other processes rotate onto it and delete it at any time (until two loads race).
OpenFileExclusive == ~ raced => FilesHeld

\* The mutex is always given back, whatever fails on the way (until two loads race).
MutexReleased ==
  \A p \in Procs : mutex[p] # NoThread ~> mutex[p] = NoThread \/ raced
-----------------------------------------------------------------------------
(***************************************************************************)
(* Space and rotation: setLogPath, LogModule.cpp:506-546.                  *)
(***************************************************************************)

\* A file outgrows the configured limit by less than one record, also across
\* restarts, when one process logs, no two loads have raced and nothing stops
\* DeleteFileA.
SizeBounded ==
  (\A p, q \in Procs : p = q) /\ ~ DeleteMayFail /\ ~ raced =>
    \A f \in Files : fsize[f] # Absent =>
      \/ fsize[f] = 0
      \/ \E len \in RecLens : fsize[f] =< len \/ fsize[f] < LogSize(config) + len

\* No more than <Num> files are ever made, whichever processes share them.
FilesWithinNum ==
  config.index < config.num =>
    \A f \in Files : fsize[f] # Absent => f =< config.num

SizeFits == config.size * BytesPerUnit < IntLimit

\* The log moves on to the next file only when the current one holds the
\* <Size> megabytes it is configured to hold, if these can be counted in an int.
SizeHonoured ==
  [][\A t \in Threads :
       SizeFits /\ pc[t] = "setLogPath" /\ pc'[t] = "rotate" =>
         fsize[index[ProcOf[t]] + 1] >= config.size * BytesPerUnit]_vars

\* Until the process dies or ends, or two loads race, records are thrown away only when all
\* the other files are full. (The next run begins with the configured file, whatever the
\* others hold.)
DiscardsOnlyWhenFull ==
  [][\A f \in Files :
       recs[f] # {} /\ recs'[f] = {} /\ restarts = 0 /\ ~ raced =>
         \A g \in (1 .. config.num) \ {f} : fsize[g] >= LogSize(config)]_vars

Kept == UNION {recs[f] : f \in Files}

\* One run of one process, until it dies or ends or two loads race, keeps the newest records
\* without a gap.
OldestFirst == INSTANCE OldestFirstLog WITH kept <- Kept, last <- written
KeepsNewest ==
  OldestFirst!Init /\ [][restarts = 0 /\ ~ raced => [OldestFirst!Next]_OldestFirst!vars]_vars
-----------------------------------------------------------------------------
(***************************************************************************)
(* Configuration and initialisation.                                       *)
(***************************************************************************)

\* As long as no process dies in SaveFile and no write fails, configure.xml
\* can be read whenever nobody is writing it, however the savers interleave.
ConfigReadable == ~ config.readable => ConfigWriters # {}

\* LogModule.h:28, a result of 2 means "already initialised": once no call of
\* LoadLogModule is under way, the module can log.
AlreadyMeansReady ==
  \A t \in Threads :
    /\ ret[t] = "already"
    /\ \A u \in Threads : pc[u] \notin Loading
    => log[ProcOf[t]]

\* LogModule.h:35, a program that ends must call UnloadLogModule to store the
\* index: the next LoadLogModule that succeeds finds the index stored last.
IndexRestored ==
  [][\A p \in Procs :
       ~ log[p] /\ log'[p] /\ stored # NoIndex => index[p] = stored]_vars

=============================================================================
