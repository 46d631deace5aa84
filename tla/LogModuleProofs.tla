-------------------------- MODULE LogModuleProofs --------------------------
(***************************************************************************)
(* Proofs about LogModule, for any number of processes, threads, files and *)
(* records, any record lengths and any width of int.                       *)
(***************************************************************************)
EXTENDS LogModule, TLAPS

\* Indexes and file counts stay within the files that are modelled.
Bounded ==
  /\ config.index \in 0 .. LastFile - 1
  /\ config.num =< LastFile
  /\ \A p \in Procs : num[p] =< LastFile

Typed == TypeOK /\ Bounded

\* While no two loads have raced: a thread is inside LoadLogModule alone and before its process
\* can log; whoever logs or unloads is in a process that can.
Ready ==
  /\ \A p \in Procs : log[p] => initialized[p]
  /\ \A t \in Threads : ret[t] = "ok" \/ pc[t] \in Critical => log[ProcOf[t]]
  /\ \A t \in Threads : pc[t] \in Loading => ~ log[ProcOf[t]]
  /\ \A t \in Threads :
       pc[t] \in Loading /\ pc[t] # "initialize" => initialized[ProcOf[t]]
  /\ \A t, u \in Threads :
       pc[t] \in Loading /\ pc[u] \in Loading /\ ProcOf[t] = ProcOf[u] => t = u
-----------------------------------------------------------------------------
\* 32-bit arithmetic yields integers.
LEMMA LogSizeType == \A c \in Config : LogSize(c) \in Int
<1> SUFFICES ASSUME NEW c \in Config PROVE LogSize(c) \in Int
  OBVIOUS
<1>1. c.size * BytesPerUnit \in Int
  BY DataAssumption DEF Config
<1>2. \A n \in Int : ToInt(n) \in Int
  BY DataAssumption DEF ToInt
<1> QED
  BY <1>1, <1>2 DEF LogSize

\* Storing an index leaves the settings in configure.xml as they are.
LEMMA SavedConfigType ==
  ASSUME NEW c \in Config, NEW i \in Int
  PROVE  /\ SavedConfig(c, i) \in Config
         /\ SavedConfig(c, i).index = c.index
         /\ SavedConfig(c, i).num = c.num
         /\ SavedConfig(c, i).size = c.size
<1>1. CASE c.rootLog
  <2>1. SavedConfig(c, i) = [c EXCEPT !.readable = TRUE, !.rootIndex = i]
    BY <1>1 DEF SavedConfig
  <2> QED
    BY <2>1 DEF Config
<1>2. CASE ~ c.rootLog
  <2>1. SavedConfig(c, i) = [c EXCEPT !.readable = TRUE, !.rootIndex = c.rootIndex]
    BY <1>2 DEF SavedConfig, Config
  <2> QED
    BY <2>1 DEF Config
<1> QED
  BY <1>1, <1>2

\* The next file is one of the files.
LEMMA NextIndexType ==
  ASSUME TypeOK, Bounded, NEW t \in Threads
  PROVE  NextIndex(t) \in 0 .. LastFile - 1 /\ NextIndex(t) + 1 \in Files
<1>1. /\ index[ProcOf[t]] \in 0 .. LastFile - 1
      /\ num[ProcOf[t]] \in Int
      /\ num[ProcOf[t]] =< LastFile
  BY ThreadAssumption DEF TypeOK, Bounded
<1> QED
  BY <1>1, DataAssumption DEF NextIndex, Files

\* The types of what the helpers assign.
LEMMA GotoType ==
  ASSUME TypeOK, NEW t \in Threads, NEW label \in Labels, Goto(t, label)
  PROVE  pc' \in [Threads -> Labels]
BY DEF TypeOK, Goto

\* A return leaves pc and ret well typed.
LEMMA ReturnType ==
  ASSUME TypeOK, NEW t \in Threads,
         NEW result \in {"none", "ok", "failed", "already", "unloaded"},
         Return(t, result)
  PROVE  /\ pc' \in [Threads -> Labels]
         /\ ret' \in [Threads -> {"none", "ok", "failed", "already", "unloaded"}]
<1>1. pc' \in [Threads -> Labels]
  BY GotoType DEF Return, Labels
<1> QED
  BY <1>1 DEF TypeOK, Return

\* The owner of a mutex is a thread or nobody.
LEMMA MutexType ==
  ASSUME TypeOK, NEW t \in Threads, MutexLock(t) \/ MutexUnlock(t)
  PROVE  mutex' \in [Procs -> Threads \cup {NoThread}]
<1>1. CASE MutexLock(t)
  BY <1>1 DEF TypeOK, MutexLock, Set
<1>2. CASE MutexUnlock(t)
  BY <1>2 DEF TypeOK, MutexUnlock, Set
<1> QED
  BY <1>1, <1>2

\* Every step keeps the types.
LEMMA NextTypes == TypeOK /\ Bounded /\ [Next]_vars => TypeOK' /\ Bounded'
<1> SUFFICES ASSUME TypeOK, Bounded, [Next]_vars PROVE TypeOK' /\ Bounded'
  OBVIOUS
<1> DEFINE Pc == pc \in [Threads -> Labels]
           Ret == ret \in [Threads -> {"none", "ok", "failed", "already", "unloaded"}]
           Mutex == mutex \in [Procs -> Threads \cup {NoThread}]
<1>0. Pc /\ Ret /\ Mutex
  BY DEF TypeOK
<1> USE ThreadAssumption, DataAssumption
    DEF Bounded, flags, settings, statics, disk, history
<1>1. ASSUME NEW t \in Threads, LoadLogModule(t) PROVE TypeOK' /\ Bounded'
  <2>1. Pc' /\ Ret'
    BY <1>0, <1>1, GotoType, ReturnType DEF LoadLogModule, Labels
  <2>2. raced' \in BOOLEAN
    BY <1>1 DEF LoadLogModule, TypeOK
  <2> QED
    BY <1>1, <2>1, <2>2 DEF LoadLogModule, TypeOK
<1>17. ASSUME NEW t \in Threads, SetInitialized(t) PROVE TypeOK' /\ Bounded'
  <2>1. Pc'
    BY <1>17, GotoType DEF SetInitialized, Labels
  <2>2. initialized' \in [Procs -> BOOLEAN]
    BY <1>17 DEF SetInitialized, TypeOK, Set
  <2> QED
    BY <1>17, <2>1, <2>2 DEF SetInitialized, TypeOK
<1>18. ASSUME NEW t \in Threads, MutexInit(t) PROVE TypeOK' /\ Bounded'
  <2>1. Pc'
    BY <1>18, GotoType DEF MutexInit, Labels
  <2>2. Mutex'
    BY <1>0, <1>18 DEF MutexInit, Set
  <2> QED
    BY <1>18, <2>1, <2>2 DEF MutexInit, TypeOK
<1>2. ASSUME NEW t \in Threads, OpenConfig(t) PROVE TypeOK' /\ Bounded'
  <2>1. Pc' /\ Ret'
    BY <1>0, <1>2, GotoType, ReturnType DEF OpenConfig, Labels
  <2> QED
    BY <1>2, <2>1 DEF OpenConfig, TypeOK
<1>3. ASSUME NEW t \in Threads, ReadConfig(t) PROVE TypeOK' /\ Bounded'
  <2>1. LogSize(config) \in Int /\ config.num \in Int
    BY LogSizeType DEF Config, TypeOK
  <2>2. size' \in [Procs -> Int]
    BY <1>3, <2>1 DEF ReadConfig, TypeOK, Set
  <2>3. num' \in [Procs -> Int] /\ \A p \in Procs : num'[p] =< LastFile
    BY <1>3, <2>1 DEF ReadConfig, TypeOK, Set
  <2>4. index' \in [Procs -> 0 .. LastFile - 1]
    BY <1>3 DEF ReadConfig, TypeOK, Set
  <2>5. Pc'
    BY <1>3, GotoType DEF ReadConfig, Labels
  <2> QED
    BY <1>3, <2>2, <2>3, <2>4, <2>5 DEF ReadConfig, TypeOK
<1>4. ASSUME NEW t \in Threads, SetLogFunc(t) PROVE TypeOK' /\ Bounded'
  <2>1. Pc' /\ Ret'
    BY <1>4, ReturnType DEF SetLogFunc
  <2>2. log' \in [Procs -> BOOLEAN]
    BY <1>4 DEF SetLogFunc, TypeOK, Set
  <2> QED
    BY <1>4, <2>1, <2>2 DEF SetLogFunc, TypeOK
<1>5. ASSUME NEW t \in Threads, DefLogFunc(t) PROVE TypeOK' /\ Bounded'
  <2>1. Pc' /\ Mutex'
    BY <1>5, GotoType, MutexType DEF DefLogFunc, Labels
  <2> QED
    BY <1>5, <2>1 DEF DefLogFunc, TypeOK
<1>6. ASSUME NEW t \in Threads, SetLogPath(t) PROVE TypeOK' /\ Bounded'
  <2>1. Pc' /\ Mutex'
    BY <1>0, <1>6, GotoType, MutexType DEF SetLogPath, Labels
  <2>2. path' \in [Procs -> Files]
    <3>1. index[ProcOf[t]] + 1 \in Files
      BY DEF TypeOK, Files
    <3> QED
      BY <1>6, <3>1 DEF SetLogPath, TypeOK, Set
  <2> QED
    BY <1>6, <2>1, <2>2 DEF SetLogPath, TypeOK
<1>7. ASSUME NEW t \in Threads, Rotate(t) PROVE TypeOK' /\ Bounded'
  <2>1. NextIndex(t) \in 0 .. LastFile - 1 /\ NextIndex(t) + 1 \in Files
    BY NextIndexType
  <2>2. fsize' \in [Files -> Int]
    BY <1>7 DEF Rotate, DeleteFileA, TypeOK, Absent
  <2>3. recs' \in [Files -> SUBSET (Nat \ {0})]
    <3>1. CASE recs' = [recs EXCEPT ![NextIndex(t) + 1] = {}]
      BY <3>1 DEF TypeOK
    <3>2. CASE recs' = recs
      BY <3>2 DEF TypeOK
    <3> QED
      BY <1>7, <3>1, <3>2 DEF Rotate, DeleteFileA
  <2>4. index' \in [Procs -> 0 .. LastFile - 1]
    BY <1>7, <2>1 DEF Rotate, TypeOK, Set
  <2>5. path' \in [Procs -> Files]
    BY <1>7, <2>1 DEF Rotate, TypeOK, Set
  <2>6. Pc'
    BY <1>7, GotoType DEF Rotate, Labels
  <2> QED
    BY <1>7, <2>2, <2>3, <2>4, <2>5, <2>6 DEF Rotate, TypeOK
<1>8. ASSUME NEW t \in Threads, OpenLog(t) PROVE TypeOK' /\ Bounded'
  <2>1. fsize' \in [Files -> Int]
    BY <1>8 DEF OpenLog, TypeOK
  <2>2. Pc' /\ Mutex'
    BY <1>0, <1>8, GotoType, MutexType DEF OpenLog, Labels
  <2> QED
    BY <1>8, <2>1, <2>2 DEF OpenLog, TypeOK
<1>9. ASSUME NEW t \in Threads, WriteLog(t) PROVE TypeOK' /\ Bounded'
  <2>1. fsize' \in [Files -> Int]
    BY <1>9 DEF WriteLog, TypeOK
  <2>2. written' \in Nat
    BY <1>9 DEF WriteLog, TypeOK
  <2>3. recs' \in [Files -> SUBSET (Nat \ {0})]
    <3>1. CASE recs' = [recs EXCEPT ![path[ProcOf[t]]] = @ \cup {written + 1}]
      <4>1. written + 1 \in Nat \ {0}
        BY DEF TypeOK
      <4> QED
        BY <3>1, <4>1 DEF TypeOK
    <3>2. CASE recs' = recs
      BY <3>2 DEF TypeOK
    <3> QED
      BY <1>9, <3>1, <3>2 DEF WriteLog
  <2>4. Pc' /\ Mutex'
    BY <1>9, GotoType, MutexType DEF WriteLog, Labels
  <2> QED
    BY <1>9, <2>1, <2>2, <2>3, <2>4 DEF WriteLog, TypeOK
<1>10. ASSUME NEW t \in Threads, UnloadLogModule(t) PROVE TypeOK' /\ Bounded'
  <2>1. Pc' /\ Mutex'
    BY <1>10, GotoType, MutexType DEF UnloadLogModule, Labels
  <2> QED
    BY <1>10, <2>1 DEF UnloadLogModule, TypeOK
<1>11. ASSUME NEW t \in Threads, ReopenConfig(t) PROVE TypeOK' /\ Bounded'
  <2>1. Pc' /\ Ret' /\ Mutex'
    BY <1>0, <1>11, GotoType, ReturnType, MutexType DEF ReopenConfig, Labels
  <2> QED
    BY <1>11, <2>1 DEF ReopenConfig, TypeOK
<1>12. ASSUME NEW t \in Threads, ReparseConfig(t) PROVE TypeOK' /\ Bounded'
  <2>1. Pc'
    BY <1>12, GotoType DEF ReparseConfig, Labels
  <2> QED
    BY <1>12, <2>1 DEF ReparseConfig, TypeOK
<1>13. ASSUME NEW t \in Threads, TruncateConfig(t) PROVE TypeOK' /\ Bounded'
  <2>1. config' \in Config /\ config'.index = config.index /\ config'.num = config.num
    BY <1>13 DEF TruncateConfig, Config, TypeOK
  <2>2. Pc' /\ Ret' /\ Mutex'
    BY <1>0, <1>13, GotoType, ReturnType, MutexType DEF TruncateConfig, Labels
  <2>3. stored' \in Int
    BY <1>13 DEF TruncateConfig, TypeOK
  <2> QED
    BY <1>13, <2>1, <2>2, <2>3 DEF TruncateConfig, TypeOK
<1>14. ASSUME NEW t \in Threads, PrintConfig(t) PROVE TypeOK' /\ Bounded'
  <2>1. index[ProcOf[t]] \in Int /\ config \in Config
    BY DEF TypeOK
  <2>2. config' \in Config /\ config'.index = config.index /\ config'.num = config.num
    <3> DEFINE c == SavedConfig(config, index[ProcOf[t]])
    <3>1. c \in Config /\ c.index = config.index /\ c.num = config.num
      BY <2>1, SavedConfigType
    <3>2. config' = c \/ config' = config
      BY <1>14 DEF PrintConfig
    <3> HIDE DEF c
    <3> QED
      BY <2>1, <3>1, <3>2
  <2>3. Pc' /\ Ret' /\ Mutex'
    BY <1>14, ReturnType, MutexType DEF PrintConfig
  <2> QED
    BY <1>14, <2>1, <2>2, <2>3 DEF PrintConfig, TypeOK
<1>15. ASSUME NEW p \in Procs, Restart(p) PROVE TypeOK' /\ Bounded'
  <2>1. Pc' /\ Ret'
    BY <1>0, <1>15 DEF Restart, Labels
  <2>2. /\ initialized' \in [Procs -> BOOLEAN]
        /\ log' \in [Procs -> BOOLEAN]
        /\ Mutex'
    BY <1>0, <1>15 DEF Restart, TypeOK
  <2>3. /\ size' \in [Procs -> Int]
        /\ num' \in [Procs -> Int] /\ \A q \in Procs : num'[q] =< LastFile
    BY <1>15 DEF Restart, TypeOK
  <2>4. /\ index' \in [Procs -> 0 .. LastFile - 1]
        /\ path' \in [Procs -> Files]
    BY <1>15 DEF Restart, TypeOK, Files
  <2> QED
    BY <1>15, <2>1, <2>2, <2>3, <2>4 DEF Restart, TypeOK
<1>16. CASE UNCHANGED vars
  BY <1>16 DEF vars, TypeOK
<1> QED
  BY <1>1, <1>2, <1>3, <1>4, <1>5, <1>6, <1>7, <1>8, <1>9, <1>10, <1>11, <1>12,
     <1>13, <1>14, <1>15, <1>16, <1>17, <1>18
  DEF Next, Call, Proceed
-----------------------------------------------------------------------------
(***************************************************************************)
(* The mutex.  MutexHeld is inductive with Ready while no two loads have   *)
(* raced: MUTEX_INIT frees the mutex, which is harmless only because no    *)
(* other thread of the process can log before the load is over.            *)
(***************************************************************************)

\* A thread that finds the mutex free may enter.
LEMMA Acquire ==
  ASSUME TypeOK, MutexHeld, NEW t \in Threads, NEW label \in Critical,
         MutexLock(t), Goto(t, label)
  PROVE  MutexHeld'
<1> USE ThreadAssumption DEF TypeOK, MutexHeld, MutexLock, Set, Goto
<1>1. ASSUME NEW u \in Threads
      PROVE  pc'[u] \in Critical <=> mutex'[ProcOf[u]] = u
  <2>1. CASE u = t
    BY <2>1
  <2>2. CASE u # t /\ ProcOf[u] = ProcOf[t]
    BY <2>2
  <2>3. CASE ProcOf[u] # ProcOf[t]
    BY <2>3
  <2> QED
    BY <2>1, <2>2, <2>3
<1>2. \A p \in Procs : mutex'[p] # NoThread => ProcOf[mutex'[p]] = p
  OBVIOUS
<1> QED
  BY <1>1, <1>2

\* The owner may give it back on its way out.
LEMMA Release ==
  ASSUME TypeOK, MutexHeld, NEW t \in Threads, pc[t] \in Critical,
         MutexUnlock(t), Goto(t, "idle")
  PROVE  MutexHeld'
<1>0. mutex' = [mutex EXCEPT ![ProcOf[t]] = NoThread] /\ mutex[ProcOf[t]] = t
  BY DEF MutexHeld, MutexUnlock, Set
<1> USE <1>0, ThreadAssumption DEF TypeOK, MutexHeld, Goto, Critical
<1>1. ASSUME NEW u \in Threads
      PROVE  pc'[u] \in Critical <=> mutex'[ProcOf[u]] = u
  <2>1. CASE u = t
    BY <2>1
  <2>2. CASE u # t /\ ProcOf[u] = ProcOf[t]
    BY <2>2
  <2>3. CASE ProcOf[u] # ProcOf[t]
    BY <2>3
  <2> QED
    BY <2>1, <2>2, <2>3
<1>2. \A p \in Procs : mutex'[p] # NoThread => ProcOf[mutex'[p]] = p
  OBVIOUS
<1> QED
  BY <1>1, <1>2

\* Everything else leaves it alone.
LEMMA Keep ==
  ASSUME TypeOK, MutexHeld, NEW t \in Threads, NEW label,
         pc[t] \in Critical <=> label \in Critical,
         UNCHANGED mutex, Goto(t, label)
  PROVE  MutexHeld'
BY DEF TypeOK, MutexHeld, Goto

\* Every step keeps the discipline: each takes, releases or leaves the mutex.
LEMMA NextMutex ==
  ASSUME TypeOK, Ready, MutexHeld, [Next]_vars
  PROVE  MutexHeld'
<1> USE DEF Return
<1>1. ASSUME NEW t \in Threads, LoadLogModule(t) \/ SetInitialized(t) PROVE MutexHeld'
  BY <1>1, Keep DEF LoadLogModule, SetInitialized, statics, Critical
<1>10. ASSUME NEW t \in Threads, MutexInit(t) PROVE MutexHeld'
  <2>1. \A u \in Threads : ProcOf[u] = ProcOf[t] => pc[u] \notin Critical
    BY <1>10 DEF MutexInit, Ready, Loading
  <2>2. mutex[ProcOf[t]] = NoThread
    BY <2>1, ThreadAssumption DEF TypeOK, MutexHeld
  <2>3. UNCHANGED mutex
    BY <1>10, <2>2 DEF TypeOK, MutexInit, Set
  <2> QED
    BY <1>10, <2>3, Keep DEF MutexInit, Critical
<1>2. ASSUME NEW t \in Threads, OpenConfig(t) \/ ReadConfig(t) \/ SetLogFunc(t)
      PROVE  MutexHeld'
  BY <1>2, Keep DEF OpenConfig, ReadConfig, SetLogFunc, statics, Critical
<1>3. ASSUME NEW t \in Threads, DefLogFunc(t) \/ UnloadLogModule(t)
      PROVE  MutexHeld'
  BY <1>3, Acquire DEF DefLogFunc, UnloadLogModule, Critical
<1>4. ASSUME NEW t \in Threads, SetLogPath(t) \/ OpenLog(t) PROVE MutexHeld'
  BY <1>4, Keep, Release DEF SetLogPath, OpenLog, Critical
<1>5. ASSUME NEW t \in Threads, Rotate(t) \/ ReparseConfig(t) PROVE MutexHeld'
  BY <1>5, Keep DEF Rotate, ReparseConfig, statics, Critical
<1>6. ASSUME NEW t \in Threads, WriteLog(t) \/ PrintConfig(t) PROVE MutexHeld'
  BY <1>6, Release DEF WriteLog, PrintConfig, Critical
<1>7. ASSUME NEW t \in Threads, ReopenConfig(t) \/ TruncateConfig(t)
      PROVE  MutexHeld'
  BY <1>7, Keep, Release DEF ReopenConfig, TruncateConfig, Critical
<1>8. ASSUME NEW p \in Procs, Restart(p) PROVE MutexHeld'
  <2>1. \A u \in Threads : pc'[u] \in Critical <=> mutex'[ProcOf[u]] = u
    BY <1>8, ThreadAssumption DEF Restart, TypeOK, MutexHeld, Critical
  <2>2. \A q \in Procs : mutex'[q] # NoThread => ProcOf[mutex'[q]] = q
    BY <1>8 DEF Restart, TypeOK, MutexHeld
  <2> QED
    BY <2>1, <2>2 DEF MutexHeld
<1>9. CASE UNCHANGED vars
  BY <1>9 DEF vars, statics, MutexHeld
<1> QED
  BY <1>1, <1>2, <1>3, <1>4, <1>5, <1>6, <1>7, <1>8, <1>9, <1>10
  DEF Next, Call, Proceed

\* A step inside a call, or a call by a thread whose process can log.
LEMMA ReadyKept ==
  ASSUME TypeOK, Ready, NEW t \in Threads, NEW label,
         UNCHANGED flags, Goto(t, label),
         \A u \in Threads : ret'[u] = "ok" => ret[u] = "ok",
         label \in Loading => pc[t] \in Loading /\ pc[t] # "initialize",
         label \in Critical => pc[t] \in Critical \/ log[ProcOf[t]]
  PROVE  Ready'
BY ThreadAssumption DEF TypeOK, Ready, Goto, flags

\* A thread that is in a call got there through a process that can log.
LEMMA NextReady ==
  ASSUME TypeOK, Ready, [Next]_vars, ~ raced'
  PROVE  Ready'
<1> USE ThreadAssumption DEF Return, Loading, Critical
<1>1. ASSUME NEW t \in Threads, LoadLogModule(t) PROVE Ready'
  <2>1. CASE Return(t, "already")
    BY <1>1, <2>1, ReadyKept DEF LoadLogModule, TypeOK, flags, statics
  <2>2. CASE /\ ~ initialized[ProcOf[t]]
             /\ UNCHANGED ret /\ Goto(t, "initialize")
             /\ raced' = (raced \/ \E u \in Threads \ {t} :
                                    ProcOf[u] = ProcOf[t] /\ pc[u] = "initialize")
    <3>1. \A u \in Threads : ProcOf[u] = ProcOf[t] => pc[u] = "idle"
      BY <1>1, <2>2 DEF LoadLogModule, Ready, TypeOK, Labels
    <3>2. ~ log[ProcOf[t]] /\ UNCHANGED <<initialized, log, ret>>
      BY <1>1, <2>2 DEF LoadLogModule, Ready, statics, flags
    <3>3. pc'[t] = "initialize" /\ \A u \in Threads : u # t => pc'[u] = pc[u]
      BY <2>2 DEF TypeOK, Goto
    <3> QED
      BY <3>1, <3>2, <3>3 DEF Ready
  <2> QED
    BY <1>1, <2>1, <2>2 DEF LoadLogModule
<1>13. ASSUME NEW t \in Threads, SetInitialized(t) PROVE Ready'
  <2>1. /\ \A p \in Procs : initialized[p] => initialized'[p]
        /\ initialized'[ProcOf[t]]
        /\ UNCHANGED <<log, ret>>
    BY <1>13 DEF SetInitialized, TypeOK, Set
  <2>2. pc'[t] = "mutexInit" /\ \A u \in Threads : u # t => pc'[u] = pc[u]
    BY <1>13 DEF SetInitialized, TypeOK, Goto
  <2>3. pc[t] \in Loading /\ pc'[t] \in Loading /\ pc'[t] \notin Critical
    BY <1>13, <2>2 DEF SetInitialized
  <2>4. \A u \in Threads : pc'[u] \in Critical => pc[u] \in Critical
    BY <2>2, <2>3
  <2>5. \A u \in Threads :
          /\ pc'[u] \in Loading => pc[u] \in Loading
          /\ pc'[u] \in Loading /\ pc'[u] # "initialize" =>
               u = t \/ (pc[u] \in Loading /\ pc[u] # "initialize")
    BY <2>2, <2>3
  <2> HIDE DEF Loading, Critical
  <2> QED
    BY <2>1, <2>4, <2>5 DEF Ready
<1>14. ASSUME NEW t \in Threads, MutexInit(t) PROVE Ready'
  BY <1>14, ReadyKept DEF MutexInit
<1>2. ASSUME NEW t \in Threads, OpenConfig(t) PROVE Ready'
  BY <1>2, ReadyKept DEF OpenConfig, TypeOK, statics
<1>3. ASSUME NEW t \in Threads, ReadConfig(t) PROVE Ready'
  BY <1>3, ReadyKept DEF ReadConfig
<1>4. ASSUME NEW t \in Threads, SetLogFunc(t) PROVE Ready'
  <2>1. \A u \in Threads :
          ProcOf[u] = ProcOf[t] /\ u # t => pc[u] \notin Loading
    BY <1>4 DEF SetLogFunc, Ready
  <2>2. /\ log'[ProcOf[t]] /\ initialized[ProcOf[t]] /\ UNCHANGED initialized
        /\ \A p \in Procs : p # ProcOf[t] => log'[p] = log[p]
        /\ \A p \in Procs : log[p] => log'[p]
    BY <1>4 DEF SetLogFunc, Ready, TypeOK, Set
  <2>3. pc'[t] = "idle" /\ \A u \in Threads : u # t => pc'[u] = pc[u]
    BY <1>4 DEF SetLogFunc, TypeOK, Goto
  <2>4. \A u \in Threads : u # t => ret'[u] = ret[u]
    BY <1>4 DEF SetLogFunc, TypeOK
  <2> QED
    BY <2>1, <2>2, <2>3, <2>4 DEF Ready
<1>5. ASSUME NEW t \in Threads, DefLogFunc(t) PROVE Ready'
  BY <1>5, ReadyKept DEF DefLogFunc
<1>6. ASSUME NEW t \in Threads, UnloadLogModule(t) PROVE Ready'
  BY <1>6, ReadyKept DEF UnloadLogModule, Ready
<1>7. ASSUME NEW t \in Threads, SetLogPath(t) \/ Rotate(t) PROVE Ready'
  BY <1>7, ReadyKept DEF SetLogPath, Rotate
<1>8. ASSUME NEW t \in Threads, OpenLog(t) \/ WriteLog(t) PROVE Ready'
  BY <1>8, ReadyKept DEF OpenLog, WriteLog
<1>9. ASSUME NEW t \in Threads, ReopenConfig(t) \/ ReparseConfig(t) PROVE Ready'
  BY <1>9, ReadyKept DEF ReopenConfig, ReparseConfig, TypeOK, statics
<1>10. ASSUME NEW t \in Threads, TruncateConfig(t) \/ PrintConfig(t) PROVE Ready'
  BY <1>10, ReadyKept DEF TruncateConfig, PrintConfig, TypeOK
<1>11. ASSUME NEW p \in Procs, Restart(p) PROVE Ready'
  <2>1. \A q \in Procs :
          \/ q = p /\ ~ log'[q]
          \/ q # p /\ log'[q] = log[q] /\ initialized'[q] = initialized[q]
    BY <1>11 DEF Restart, TypeOK
  <2>2. \A u \in Threads :
          \/ ProcOf[u] = p /\ pc'[u] = "idle" /\ ret'[u] = "none"
          \/ ProcOf[u] # p /\ pc'[u] = pc[u] /\ ret'[u] = ret[u]
    BY <1>11 DEF Restart
  <2> QED
    BY <2>1, <2>2 DEF Ready
<1>12. CASE UNCHANGED vars
  BY <1>12 DEF vars, statics, flags, Ready
<1> QED
  BY <1>1, <1>2, <1>3, <1>4, <1>5, <1>6, <1>7, <1>8, <1>9, <1>10, <1>11, <1>12, <1>13, <1>14
  DEF Next, Call, Proceed

\* A race is not forgotten.
LEMMA RacedStays == raced /\ [Next]_vars => raced'
BY DEF Next, Call, Proceed, vars, history, LoadLogModule, SetInitialized, MutexInit,
   OpenConfig, ReadConfig, SetLogFunc, DefLogFunc, SetLogPath, Rotate, OpenLog, WriteLog,
   UnloadLogModule, ReopenConfig, ReparseConfig, TruncateConfig, PrintConfig, Restart
-----------------------------------------------------------------------------
IInv == Typed /\ Ready /\ MutexHeld

\* The types of what starts empty or unset.
LEMMA InitTypes ==
  ASSUME Init
  PROVE  /\ initialized \in [Procs -> BOOLEAN] /\ log \in [Procs -> BOOLEAN]
         /\ mutex \in [Procs -> Threads \cup {NoThread}]
         /\ size \in [Procs -> Int] /\ num \in [Procs -> Int]
         /\ ret \in [Threads -> {"none", "ok", "failed", "already", "unloaded"}]
         /\ written \in Nat /\ restarts \in Nat /\ raced \in BOOLEAN
<1>1. /\ initialized = [p \in Procs |-> FALSE] /\ log = [p \in Procs |-> FALSE]
      /\ raced = FALSE
  BY DEF Init
<1>2. /\ mutex = [p \in Procs |-> NoThread]
      /\ ret = [t \in Threads |-> "none"]
  BY DEF Init
<1>3. size = [p \in Procs |-> 0] /\ num = [p \in Procs |-> 0] /\ written = 0 /\ restarts = 0
  BY DEF Init
<1>4. /\ initialized \in [Procs -> BOOLEAN] /\ log \in [Procs -> BOOLEAN]
      /\ raced \in BOOLEAN
  BY <1>1
<1>5. /\ mutex \in [Procs -> Threads \cup {NoThread}]
      /\ ret \in [Threads -> {"none", "ok", "failed", "already", "unloaded"}]
  BY <1>2
<1>6. size \in [Procs -> Int] /\ num \in [Procs -> Int] /\ written \in Nat /\ restarts \in Nat
  BY <1>3
<1> QED
  BY <1>4, <1>5, <1>6

\* The initial state satisfies the invariant.
LEMMA InitInvariant == Init => IInv
<1> SUFFICES ASSUME Init PROVE IInv
  OBVIOUS
<1> USE ThreadAssumption, DataAssumption, ConfigAssumption DEF Init
<1>1. TypeOK
  <2>1. pc \in [Threads -> Labels]
    BY DEF Labels
  <2>2. 1 \in Files /\ config \in Config
    BY DEF Files
  <2>3. /\ index \in [Procs -> 0 .. LastFile - 1]
        /\ path \in [Procs -> Files]
    BY <2>2
  <2>4. /\ fsize \in [Files -> Int] /\ recs \in [Files -> SUBSET (Nat \ {0})]
        /\ stored \in Int
    BY DEF Absent, NoIndex
  <2> HIDE DEF Init
  <2> QED
    BY <2>1, <2>2, <2>3, <2>4, InitTypes DEF TypeOK
<1>2. Bounded
  BY DEF Bounded
<1>3. Ready /\ MutexHeld
  BY DEF Ready, MutexHeld, Loading, Critical
<1> QED
  BY <1>1, <1>2, <1>3 DEF IInv, Typed

\* The types hold whatever races.
LEMMA TypesHold == Spec => []Typed
<1>1. Init => Typed
  BY InitInvariant DEF IInv
<1>2. Typed /\ [Next]_vars => Typed'
  BY NextTypes DEF Typed
<1> QED
  BY <1>1, <1>2, PTL DEF Spec

\* What the other proofs start from: until two loads race, the invariant holds.
THEOREM Invariant == Spec => [](~ raced => IInv)
<1>1. Init => (~ raced => IInv)
  BY InitInvariant
<1>2. (~ raced => IInv) /\ [Next]_vars => (~ raced => IInv)'
  BY RacedStays, NextTypes, NextReady, NextMutex DEF IInv, Typed
<1> QED
  BY <1>1, <1>2, PTL DEF Spec

\* Type correctness: no index or path leaves the range of files, whatever races.
THEOREM TypeCorrect == Spec => []TypeOK
<1>1. Typed => TypeOK
  BY DEF Typed
<1> QED
  BY <1>1, TypesHold, PTL

\* Until two loads of a process race, the mutex is held exactly between MUTEX_LOCK and
\* MUTEX_UNLOCK, whatever fails in between and whichever processes die
\* (LogModule.cpp:326-330, 551-609).
THEOREM MutexCorrect == Spec => []MutexDiscipline
<1>1. (~ raced => IInv) => MutexDiscipline
  BY DEF IInv, MutexDiscipline
<1> QED
  BY <1>1, Invariant, PTL

\* Two threads of a process are never in the critical section together.
LEMMA Alone ==
  ASSUME IInv, NEW t \in Threads, NEW u \in Threads,
         pc[t] \in Critical, pc[u] \in Critical, ProcOf[t] = ProcOf[u]
  PROVE  t = u
BY DEF IInv, MutexHeld
-----------------------------------------------------------------------------
(***************************************************************************)
(* The open log file, in any number of processes.                          *)
(***************************************************************************)

\* FilesHeld, for two threads.
Exclusive(t, u) ==
  pc[t] = "fclose" =>
    /\ fsize[path[ProcOf[t]]] # Absent
    /\ pc[u] = "fclose" /\ path[ProcOf[t]] = path[ProcOf[u]] => t = u

\* Every step keeps open files apart: fopen_s refuses a file that is open.
LEMMA NextOpenFile ==
  ASSUME IInv, FilesHeld, [Next]_vars
  PROVE  FilesHeld'
<1> SUFFICES ASSUME NEW t \in Threads, NEW u \in Threads
             PROVE  Exclusive(t, u)'
  BY DEF FilesHeld, Exclusive
<1> USE ThreadAssumption DEF Exclusive, IInv, Typed, TypeOK, Goto, disk
<1>1. Exclusive(t, u) /\ Exclusive(u, t)
  BY DEF FilesHeld
\* Whoever changes his path is alone in his process, so nobody's file is his.
<1>2. ASSUME NEW v \in Threads, SetLogPath(v) PROVE Exclusive(t, u)'
  <2>1. pc[v] \in Critical /\ pc'[v] # "fclose"
    BY <1>2 DEF SetLogPath, Critical
  <2>2. ASSUME NEW w \in Threads, pc'[w] = "fclose"
        PROVE  pc[w] = "fclose" /\ path'[ProcOf[w]] = path[ProcOf[w]]
    <3>1. w # v /\ pc[w] = "fclose"
      BY <1>2, <2>1, <2>2 DEF SetLogPath
    <3>2. ProcOf[w] # ProcOf[v]
      BY <2>1, <3>1, Alone DEF Critical
    <3> QED
      BY <1>2, <3>1, <3>2 DEF SetLogPath, Set
  <2> QED
    BY <1>1, <1>2, <2>2 DEF SetLogPath
<1>3. ASSUME NEW v \in Threads, Rotate(v) PROVE Exclusive(t, u)'
  <2>1. pc[v] \in Critical /\ pc'[v] # "fclose"
    BY <1>3 DEF Rotate, Critical
  <2>2. ASSUME NEW w \in Threads, pc'[w] = "fclose"
        PROVE  pc[w] = "fclose" /\ path'[ProcOf[w]] = path[ProcOf[w]]
    <3>1. w # v /\ pc[w] = "fclose"
      BY <1>3, <2>1, <2>2 DEF Rotate
    <3>2. ProcOf[w] # ProcOf[v]
      BY <2>1, <3>1, Alone DEF Critical
    <3> QED
      BY <1>3, <3>1, <3>2 DEF Rotate, Set
  <2>3. pc[t] = "fclose" => fsize'[path[ProcOf[t]]] = fsize[path[ProcOf[t]]]
    BY <1>3 DEF Rotate, DeleteFileA, Openers
  <2> QED
    BY <1>1, <2>2, <2>3
\* fopen_s succeeds only when nobody has the file.
<1>4. ASSUME NEW v \in Threads, OpenLog(v) PROVE Exclusive(t, u)'
  <2> DEFINE f == path[ProcOf[v]]
  <2>1. CASE UNCHANGED fsize /\ Goto(v, "idle")
    BY <1>1, <1>4, <2>1 DEF OpenLog, settings
  <2>2. CASE /\ Openers(f) = {}
             /\ fsize' = [fsize EXCEPT ![f] = IF @ = Absent THEN 0 ELSE @]
             /\ Goto(v, "fclose")
    <3>1. \A w \in Threads : pc[w] = "fclose" => path[ProcOf[w]] # f
      BY <2>2 DEF Openers
    <3>2. fsize'[f] # Absent /\ \A g \in Files : g # f => fsize'[g] = fsize[g]
      BY <2>2 DEF Absent
    <3>3. UNCHANGED path
      BY <1>4 DEF OpenLog, settings
    <3> QED
      BY <1>1, <2>2, <3>1, <3>2, <3>3
  <2> QED
    BY <1>4, <2>1, <2>2 DEF OpenLog
<1>5. ASSUME NEW v \in Threads, WriteLog(v) PROVE Exclusive(t, u)'
  <2>1. \A w \in Threads : pc'[w] = "fclose" => w # v /\ pc[w] = "fclose"
    BY <1>5 DEF WriteLog
  <2>2. pc'[t] = "fclose" => path[ProcOf[t]] # path[ProcOf[v]]
    BY <1>5, <2>1 DEF WriteLog, FilesHeld
  <2>3. \A g \in Files : g # path[ProcOf[v]] => fsize'[g] = fsize[g]
    BY <1>5 DEF WriteLog
  <2>4. UNCHANGED path
    BY <1>5 DEF WriteLog, settings
  <2> QED
    BY <1>1, <2>1, <2>2, <2>3, <2>4
<1>6. ASSUME NEW p \in Procs, Restart(p) PROVE Exclusive(t, u)'
  BY <1>1, <1>6 DEF Restart
<1>7. ASSUME NEW v \in Threads,
             \/ LoadLogModule(v) \/ SetInitialized(v) \/ MutexInit(v)
             \/ OpenConfig(v) \/ ReadConfig(v) \/ SetLogFunc(v)
             \/ DefLogFunc(v) \/ UnloadLogModule(v) \/ ReopenConfig(v)
             \/ ReparseConfig(v) \/ TruncateConfig(v) \/ PrintConfig(v)
      PROVE  Exclusive(t, u)'
  <2>1. UNCHANGED <<path, fsize>>
    BY <1>7 DEF LoadLogModule, SetInitialized, MutexInit,
       OpenConfig, ReadConfig, SetLogFunc, DefLogFunc,
       UnloadLogModule, ReopenConfig, ReparseConfig, TruncateConfig, PrintConfig,
       statics, settings
  <2>2. \A w \in Threads : pc'[w] = "fclose" => pc[w] = "fclose"
    <3>1. \E label \in Labels \ {"fclose"} : Goto(v, label)
      BY <1>7 DEF LoadLogModule, SetInitialized, MutexInit,
       OpenConfig, ReadConfig, SetLogFunc, DefLogFunc,
         UnloadLogModule, ReopenConfig, ReparseConfig, TruncateConfig,
         PrintConfig, Return, Labels
    <3> QED
      BY <3>1
  <2> QED
    BY <1>1, <2>1, <2>2
<1>8. CASE UNCHANGED vars
  BY <1>1, <1>8 DEF vars, statics, settings
<1> QED
  BY <1>2, <1>3, <1>4, <1>5, <1>6, <1>7, <1>8 DEF Next, Call, Proceed

\* Until two loads race.
LEMMA FilesHeldInvariant == Spec => [](~ raced => FilesHeld)
<1>1. Init => (~ raced => FilesHeld)
  BY DEF Init, FilesHeld
<1>2. (~ raced => IInv) /\ (~ raced => FilesHeld) /\ [Next]_vars => (~ raced => FilesHeld)'
  BY NextOpenFile, RacedStays
<1> QED
  BY <1>1, <1>2, Invariant, PTL DEF Spec

\* An open log file is neither deleted nor shared, although every process
\* rotates and deletes as it likes (LogModule.cpp:531-541, 584-591).
THEOREM OpenFileSafe == Spec => []OpenFileExclusive
<1>1. (~ raced => FilesHeld) => OpenFileExclusive
  BY DEF OpenFileExclusive
<1> QED
  BY <1>1, FilesHeldInvariant, PTL
-----------------------------------------------------------------------------
(***************************************************************************)
(* Sizes, when one process logs and DeleteFileA works on closed files.     *)
(***************************************************************************)
OneProcess == \A p, q \in Procs : p = q

Small(f) == fsize[f] = Absent \/ fsize[f] < LogSize(config)

\* What the bound rests on: whoever is past the decision in setLogPath has the
\* limit of configure.xml, and his file is new or below it.
SizeKnown ==
  /\ \A p \in Procs : num[p] # 0 => size[p] = LogSize(config)
  /\ \A t \in Threads :
       pc[t] \in {"rotate", "fopen", "fclose"} => num[ProcOf[t]] # 0
  /\ \A t \in Threads : pc[t] = "fopen" => Small(path[ProcOf[t]])
  /\ \A t \in Threads :
       pc[t] = "fclose" =>
         Small(path[ProcOf[t]]) \/ fsize[path[ProcOf[t]]] = 0
  /\ \A f \in Files : fsize[f] # Absent =>
       \/ fsize[f] = 0
       \/ \E len \in RecLens : fsize[f] =< len \/ fsize[f] < LogSize(config) + len

\* No step changes the limit that configure.xml sets.
LEMMA SizeSettingKept ==
  ASSUME Typed, [Next]_vars
  PROVE  config'.size = config.size
<1> USE DEF Typed, TypeOK
<1>1. ASSUME NEW t \in Threads, TruncateConfig(t) PROVE config'.size = config.size
  BY <1>1 DEF TruncateConfig, Config
<1>2. ASSUME NEW t \in Threads, PrintConfig(t) PROVE config'.size = config.size
  <2>1. index[ProcOf[t]] \in Int
    BY ThreadAssumption
  <2> QED
    BY <1>2, <2>1, SavedConfigType DEF PrintConfig
<1> QED
  BY <1>1, <1>2 DEF Next, Call, Proceed, vars, disk, LoadLogModule, SetInitialized, MutexInit,
       OpenConfig,
     ReadConfig, SetLogFunc, DefLogFunc, SetLogPath, Rotate, OpenLog, WriteLog,
     UnloadLogModule, ReopenConfig, ReparseConfig, Restart

LEMMA LogSizeKept ==
  ASSUME Typed, [Next]_vars
  PROVE  LogSize(config') = LogSize(config)
BY SizeSettingKept DEF LogSize

\* Every step keeps the files within the limit.
LEMMA NextSizes ==
  ASSUME OneProcess, ~ DeleteMayFail, IInv, SizeKnown, [Next]_vars
  PROVE  SizeKnown'
<1> USE ThreadAssumption, DataAssumption, LogSizeKept
    DEF OneProcess, IInv, Typed, TypeOK, SizeKnown, Small, Goto, Set, disk, settings,
        statics
<1>0. LogSize(config) \in Int
  BY LogSizeType
<1>1. ASSUME NEW t \in Threads,
             \/ LoadLogModule(t) \/ SetInitialized(t) \/ MutexInit(t)
             \/ OpenConfig(t) \/ SetLogFunc(t) \/ DefLogFunc(t)
             \/ UnloadLogModule(t) \/ ReopenConfig(t) \/ ReparseConfig(t)
             \/ TruncateConfig(t) \/ PrintConfig(t)
      PROVE  SizeKnown'
  <2>1. UNCHANGED <<num, size, path, fsize>>
    BY <1>1 DEF LoadLogModule, SetInitialized, MutexInit,
       OpenConfig, SetLogFunc, DefLogFunc,
       UnloadLogModule, ReopenConfig, ReparseConfig, TruncateConfig, PrintConfig
  <2>2. \A u \in Threads :
          pc'[u] \in {"rotate", "fopen", "fclose"} => pc'[u] = pc[u]
    BY <1>1 DEF LoadLogModule, SetInitialized, MutexInit,
       OpenConfig, SetLogFunc, DefLogFunc,
       UnloadLogModule, ReopenConfig, ReparseConfig, TruncateConfig, PrintConfig,
       Return
  <2> QED
    BY <2>1, <2>2
<1>2. ASSUME NEW t \in Threads, ReadConfig(t) PROVE SizeKnown'
  <2>1. \A u \in Threads : pc[u] \notin {"rotate", "fopen", "fclose"}
    BY <1>2 DEF ReadConfig, Ready, Loading, Critical
  <2>2. \A u \in Threads : pc'[u] \notin {"rotate", "fopen", "fclose"}
    BY <1>2, <2>1 DEF ReadConfig
  <2>3. \A p \in Procs : num'[p] # 0 => size'[p] = LogSize(config)
    BY <1>2 DEF ReadConfig
  <2>4. UNCHANGED <<config, fsize>>
    BY <1>2 DEF ReadConfig
  <2> QED
    BY <2>2, <2>3, <2>4
<1>3. ASSUME NEW t \in Threads, SetLogPath(t) PROVE SizeKnown'
  <2>1. \A u \in Threads : u # t => pc[u] \notin Critical
    BY <1>3, Alone DEF SetLogPath, Critical
  <2>2. \A u \in Threads :
          pc'[u] \in {"rotate", "fopen", "fclose"} => u = t /\ pc'[t] # "fclose"
    BY <1>3, <2>1 DEF SetLogPath, Critical
  <2>3. pc'[t] \in {"rotate", "fopen"} => num'[ProcOf[t]] # 0
    BY <1>3 DEF SetLogPath
  <2>4. pc'[t] = "fopen" => Small(path[ProcOf[t]])'
    BY <1>3 DEF SetLogPath, Fits
  <2>5. UNCHANGED <<num, size, config, fsize>>
    BY <1>3 DEF SetLogPath
  <2> QED
    BY <2>2, <2>3, <2>4, <2>5
<1>4. ASSUME NEW t \in Threads, Rotate(t) PROVE SizeKnown'
  <2>1. \A u \in Threads : u # t => pc[u] \notin Critical
    BY <1>4, Alone DEF Rotate, Critical
  <2>2. \A u \in Threads :
          pc'[u] \in {"rotate", "fopen", "fclose"} => u = t /\ pc'[t] = "fopen"
    BY <1>4, <2>1 DEF Rotate, Critical
  <2>3. Openers(NextIndex(t) + 1) = {}
    BY <1>4, <2>1 DEF Rotate, Openers, Critical
  <2>4. fsize' = [fsize EXCEPT ![NextIndex(t) + 1] = Absent]
    BY <1>4, <2>3 DEF Rotate, DeleteFileA
  <2>5. Small(path[ProcOf[t]])'
    <3>1. NextIndex(t) + 1 \in Files
      BY NextIndexType
    <3>2. path'[ProcOf[t]] = NextIndex(t) + 1
      BY <1>4 DEF Rotate
    <3>3. fsize'[NextIndex(t) + 1] = Absent
      BY <2>4, <3>1
    <3> QED
      BY <3>2, <3>3
  <2>6. UNCHANGED <<num, size, config>>
    BY <1>4 DEF Rotate
  <2>7. \A f \in Files : fsize'[f] # Absent => fsize'[f] = fsize[f]
    BY <2>4
  <2> QED
    BY <1>4, <2>2, <2>5, <2>6, <2>7 DEF Rotate
<1>5. ASSUME NEW t \in Threads, OpenLog(t) PROVE SizeKnown'
  <2> DEFINE f == path[ProcOf[t]]
  <2>1. \A u \in Threads : u # t => pc[u] \notin Critical
    BY <1>5, Alone DEF OpenLog, Critical
  <2>2. \A u \in Threads :
          pc'[u] \in {"rotate", "fopen", "fclose"} => u = t /\ pc'[t] = "fclose"
    BY <1>5, <2>1 DEF OpenLog, Critical
  <2>3. UNCHANGED <<num, size, path, config>>
    BY <1>5 DEF OpenLog
  <2>4. \A g \in Files : fsize'[g] = fsize[g] \/ (g = f /\ fsize'[g] = 0)
    <3>1. CASE UNCHANGED fsize
      BY <3>1
    <3>2. CASE fsize' = [fsize EXCEPT ![f] = IF @ = Absent THEN 0 ELSE @]
      <4>1. CASE fsize[f] = Absent
        BY <3>2, <4>1
      <4>2. CASE fsize[f] # Absent
        BY <3>2, <4>2
      <4> QED
        BY <4>1, <4>2
    <3> QED
      BY <1>5, <3>1, <3>2 DEF OpenLog
  <2>5. f \in Files /\ Small(f) /\ num[ProcOf[t]] # 0
    BY <1>5 DEF OpenLog
  <2>6. pc'[t] = "fclose" => Small(f)' \/ fsize'[f] = 0
    BY <2>3, <2>4, <2>5
  <2> QED
    BY <2>2, <2>3, <2>4, <2>5, <2>6
<1>6. ASSUME NEW t \in Threads, WriteLog(t) PROVE SizeKnown'
  <2> DEFINE f == path[ProcOf[t]]
  <2>1. \A u \in Threads : u # t => pc[u] \notin Critical
    BY <1>6, Alone DEF WriteLog, Critical
  <2>2. \A u \in Threads : pc'[u] \notin {"rotate", "fopen", "fclose"}
    BY <1>6, <2>1 DEF WriteLog, Critical
  <2>3. UNCHANGED <<num, size, config>>
    BY <1>6 DEF WriteLog
  <2>4. ASSUME NEW g \in Files, fsize'[g] # Absent
        PROVE  \/ fsize'[g] = 0
               \/ \E len \in RecLens :
                    fsize'[g] =< len \/ fsize'[g] < LogSize(config) + len
    <3>1. CASE fsize'[g] = fsize[g]
      BY <2>4, <3>1
    <3>2. CASE g = f /\ \E len \in RecLens : fsize'[g] = fsize[g] + len
      <4>1. fsize[g] =< 0 \/ fsize[g] < LogSize(config)
        BY <1>6, <3>2 DEF WriteLog, Absent
      <4> QED
        BY <1>0, <3>2, <4>1
    <3> QED
      BY <1>6, <3>1, <3>2 DEF WriteLog
  <2> QED
    BY <2>2, <2>3, <2>4
<1>7. ASSUME NEW p \in Procs, Restart(p) PROVE SizeKnown'
  BY <1>7 DEF Restart
<1>8. CASE UNCHANGED vars
  BY <1>8 DEF vars
<1> QED
  BY <1>1, <1>2, <1>3, <1>4, <1>5, <1>6, <1>7, <1>8 DEF Next, Call, Proceed

\* A log file outgrows <Size> by less than a record, after any number of
\* restarts, records and rotations, until two loads race (LogModule.cpp:518).
THEOREM SizeCorrect == Spec => []SizeBounded
<1>1. CASE OneProcess /\ ~ DeleteMayFail
  <2>1. Init => (~ raced => SizeKnown)
    BY DEF Init, SizeKnown, Files, Absent
  <2>2. (~ raced => IInv) /\ (~ raced => SizeKnown) /\ [Next]_vars => (~ raced => SizeKnown)'
    BY <1>1, NextSizes, RacedStays
  <2>3. (~ raced => SizeKnown) => SizeBounded
    BY DEF SizeKnown, SizeBounded
  <2> QED
    BY <2>1, <2>2, <2>3, Invariant, PTL DEF Spec
<1>2. CASE ~ (OneProcess /\ ~ DeleteMayFail)
  <2>1. SizeBounded
    BY <1>2 DEF SizeBounded, OneProcess
  <2> QED
    BY <2>1, PTL
<1> QED
  BY <1>1, <1>2
-----------------------------------------------------------------------------
(***************************************************************************)
(* The number of files, in any number of processes.                        *)
(***************************************************************************)
ProperConfig == config.index < config.num

\* A process rotates among the files of configure.xml, or has not read it.
NumKnown ==
  ProperConfig =>
    /\ \A p \in Procs : num[p] # 0 => num[p] = config.num
    /\ \A p \in Procs : index[p] < config.num /\ path[p] =< config.num
    /\ \A f \in Files : fsize[f] # Absent => f =< config.num

\* No step changes the file count that configure.xml sets.
LEMMA ProperConfigKept ==
  ASSUME Typed, [Next]_vars
  PROVE  config'.index = config.index /\ config'.num = config.num
<1> USE DEF Typed, TypeOK
<1>1. ASSUME NEW t \in Threads, TruncateConfig(t)
      PROVE  config'.index = config.index /\ config'.num = config.num
  BY <1>1 DEF TruncateConfig, Config
<1>2. ASSUME NEW t \in Threads, PrintConfig(t)
      PROVE  config'.index = config.index /\ config'.num = config.num
  <2>1. index[ProcOf[t]] \in Int
    BY ThreadAssumption
  <2> QED
    BY <1>2, <2>1, SavedConfigType DEF PrintConfig
<1> QED
  BY <1>1, <1>2 DEF Next, Call, Proceed, vars, disk, LoadLogModule, SetInitialized, MutexInit,
       OpenConfig,
     ReadConfig, SetLogFunc, DefLogFunc, SetLogPath, Rotate, OpenLog, WriteLog,
     UnloadLogModule, ReopenConfig, ReparseConfig, Restart

\* Every step keeps the file numbers in range.
LEMMA NextNum ==
  ASSUME Typed, NumKnown, [Next]_vars
  PROVE  NumKnown'
<1> SUFFICES ASSUME ProperConfig PROVE NumKnown'
  BY ProperConfigKept DEF ProperConfig, NumKnown
<1>0. /\ config'.num = config.num
      /\ config.num \in Nat \ {0}
  BY ProperConfigKept DEF ProperConfig, Typed, TypeOK, Bounded, Config
<1>9. ASSUME NEW t \in Threads PROVE NextIndex(t) \in 0 .. config.num - 1
  <2>1. ProcOf[t] \in Procs
    BY ThreadAssumption
  <2>2. num[ProcOf[t]] # 0 => num[ProcOf[t]] = config.num
    BY <2>1 DEF NumKnown
  <2>3. index[ProcOf[t]] \in Nat /\ num[ProcOf[t]] \in Int
    BY <2>1, DataAssumption DEF Typed, TypeOK
  <2> QED
    BY <1>0, <2>2, <2>3 DEF NextIndex
<1> USE ThreadAssumption, DataAssumption
    DEF Typed, TypeOK, NumKnown, Goto, Set, disk, settings, statics
<1>1. ASSUME UNCHANGED <<num, index, path, fsize>> PROVE NumKnown'
  BY <1>0, <1>1 DEF ProperConfig
<1>2. ASSUME NEW t \in Threads, ReadConfig(t) PROVE NumKnown'
  <2>1. \A p \in Procs :
          /\ num'[p] = num[p] \/ num'[p] = config.num
          /\ index'[p] = index[p] \/ index'[p] = config.index
    BY <1>2 DEF ReadConfig
  <2>2. UNCHANGED <<path, fsize>>
    BY <1>2 DEF ReadConfig
  <2> QED
    BY <1>0, <2>1, <2>2 DEF ProperConfig
<1>3. ASSUME NEW t \in Threads, SetLogPath(t) PROVE NumKnown'
  <2>1. \A p \in Procs : path'[p] = path[p] \/ path'[p] = index[p] + 1
    BY <1>3 DEF SetLogPath
  <2>2. UNCHANGED <<num, index, fsize>>
    BY <1>3 DEF SetLogPath
  <2> QED
    BY <1>0, <2>1, <2>2 DEF ProperConfig
<1>4. ASSUME NEW t \in Threads, Rotate(t) PROVE NumKnown'
  <2>1. NextIndex(t) \in 0 .. config.num - 1
    BY <1>9
  <2>2. \A p \in Procs :
          \/ index'[p] = NextIndex(t) /\ path'[p] = NextIndex(t) + 1
          \/ index'[p] = index[p] /\ path'[p] = path[p]
    BY <1>4 DEF Rotate
  <2>3. \A f \in Files : fsize'[f] = fsize[f] \/ fsize'[f] = Absent
    BY <1>4 DEF Rotate, DeleteFileA
  <2>4. UNCHANGED num
    BY <1>4 DEF Rotate
  <2> QED
    BY <1>0, <2>1, <2>2, <2>3, <2>4 DEF ProperConfig
<1>5. ASSUME NEW t \in Threads, OpenLog(t) \/ WriteLog(t) PROVE NumKnown'
  <2>1. UNCHANGED <<num, index, path>>
    BY <1>5 DEF OpenLog, WriteLog
  <2>2. \A f \in Files : fsize'[f] = fsize[f] \/ f = path[ProcOf[t]]
    BY <1>5 DEF OpenLog, WriteLog
  <2> QED
    BY <1>0, <2>1, <2>2 DEF ProperConfig
<1>6. ASSUME NEW p \in Procs, Restart(p) PROVE NumKnown'
  BY <1>0, <1>6 DEF Restart, ProperConfig
<1> QED
  BY <1>1, <1>2, <1>3, <1>4, <1>5, <1>6 DEF Next, Call, Proceed, vars, LoadLogModule,
     SetInitialized, MutexInit, OpenConfig, SetLogFunc, DefLogFunc, UnloadLogModule,
     ReopenConfig, ReparseConfig, TruncateConfig, PrintConfig

\* There are never more than <Num> files, whatever the processes that share
\* the directory do to each other's files (LogModule.cpp:525-541).
THEOREM NumCorrect == Spec => []FilesWithinNum
<1>1. Init => NumKnown
  BY ConfigAssumption, DataAssumption
  DEF Init, NumKnown, ProperConfig, Config
<1>2. Typed /\ NumKnown /\ [Next]_vars => NumKnown'
  BY NextNum
<1>3. NumKnown => FilesWithinNum
  BY DEF NumKnown, ProperConfig, FilesWithinNum
<1> QED
  BY <1>1, <1>2, <1>3, TypesHold, PTL DEF Spec
-----------------------------------------------------------------------------
(***************************************************************************)
(* configure.xml, when no process dies and no write fails.                 *)
(***************************************************************************)
\* A saver truncates the file only when no other saver has it open.
LEMMA NextReadable ==
  ASSUME ~ IOMayFail, MaxRestarts = 0, Typed, ConfigReadable, [Next]_vars
  PROVE  ConfigReadable'
<1> USE DEF Typed, TypeOK, ConfigReadable, ConfigWriters, Goto, Return, disk
<1>1. ASSUME NEW t \in Threads, TruncateConfig(t) PROVE ConfigReadable'
  BY <1>1 DEF TruncateConfig
<1>2. ASSUME NEW t \in Threads, PrintConfig(t) PROVE ConfigReadable'
  BY <1>2 DEF PrintConfig, SavedConfig, Config
<1>3. ASSUME NEW p \in Procs, Restart(p) PROVE FALSE
  BY <1>3 DEF Restart
<1>4. CASE UNCHANGED vars
  BY <1>4 DEF vars
<1>5. ASSUME NEW t \in Threads,
             \/ LoadLogModule(t) \/ SetInitialized(t) \/ MutexInit(t)
             \/ OpenConfig(t) \/ ReadConfig(t) \/ SetLogFunc(t)
             \/ DefLogFunc(t) \/ SetLogPath(t) \/ Rotate(t) \/ OpenLog(t)
             \/ WriteLog(t) \/ UnloadLogModule(t) \/ ReopenConfig(t)
             \/ ReparseConfig(t)
      PROVE  ConfigReadable'
  <2>1. UNCHANGED config
    BY <1>5 DEF LoadLogModule, SetInitialized, MutexInit,
       OpenConfig, ReadConfig, SetLogFunc, DefLogFunc,
       SetLogPath, Rotate, OpenLog, WriteLog, UnloadLogModule, ReopenConfig,
       ReparseConfig
  <2>2. \A u \in Threads : pc[u] = "print" => pc'[u] = "print"
    BY <1>5 DEF LoadLogModule, SetInitialized, MutexInit,
       OpenConfig, ReadConfig, SetLogFunc, DefLogFunc,
       SetLogPath, Rotate, OpenLog, WriteLog, UnloadLogModule, ReopenConfig,
       ReparseConfig
  <2> QED
    BY <2>1, <2>2
<1> QED
  BY <1>1, <1>2, <1>3, <1>4, <1>5 DEF Next, Call, Proceed

\* SaveFile truncates configure.xml before it writes it, yet whoever finds it
\* unreadable finds somebody writing it, however many processes save at once
\* (LogModule.cpp:361).
THEOREM ConfigSafe ==
  ASSUME ~ IOMayFail, MaxRestarts = 0
  PROVE  Spec => []ConfigReadable
<1>1. Init => ConfigReadable
  BY ConfigAssumption DEF Init, ConfigReadable
<1>2. Typed /\ ConfigReadable /\ [Next]_vars => ConfigReadable'
  BY NextReadable
<1> QED
  BY <1>1, <1>2, TypesHold, PTL DEF Spec
-----------------------------------------------------------------------------
(***************************************************************************)
(* When the log moves on.                                                  *)
(***************************************************************************)
\* A process that has read its configuration has the limit set there.
SizeRead == \A p \in Procs : num[p] # 0 => size[p] = LogSize(config)

LEMMA NextSizeRead == ASSUME Typed, SizeRead, [Next]_vars PROVE SizeRead'
<1>1. LogSize(config)' = LogSize(config)
  BY LogSizeKept
<1>2. ASSUME NEW t \in Threads, ReadConfig(t) PROVE SizeRead'
  BY <1>2, ThreadAssumption DEF ReadConfig, SizeRead, Set, Typed, TypeOK, disk
<1>3. ASSUME NEW p \in Procs, Restart(p) PROVE SizeRead'
  BY <1>3 DEF Restart, SizeRead, Typed, TypeOK, disk
<1>4. ASSUME UNCHANGED <<num, size>> PROVE SizeRead'
  BY <1>1, <1>4 DEF SizeRead
<1> QED
  BY <1>2, <1>3, <1>4 DEF Next, Call, Proceed, vars, statics, settings, LoadLogModule, SetInitialized, MutexInit,
       OpenConfig, SetLogFunc, DefLogFunc, SetLogPath, Rotate, OpenLog, WriteLog,
     UnloadLogModule, ReopenConfig, ReparseConfig, TruncateConfig, PrintConfig

\* Wrapping makes a number that is not too large no smaller.
LEMMA ToIntUp ==
  ASSUME NEW n \in Int, n < IntLimit
  PROVE  ToInt(n) >= n
<1> DEFINE m == n + IntLimit
           w == 2 * IntLimit
<1>1. m \in Int /\ w \in Nat \ {0} /\ m < w /\ n = m - IntLimit
  BY DataAssumption
<1> HIDE DEF m, w
<1>2. m % w >= m
  <2>1. CASE m >= 0
    BY <1>1, <2>1
  <2>2. CASE m < 0
    BY <1>1, <2>2
  <2> QED
    BY <1>1, <2>1, <2>2
<1>3. m % w \in Int
  BY <1>1
<1>4. ToInt(n) = (m % w) - IntLimit
  BY DEF ToInt, m, w
<1> QED
  BY <1>1, <1>2, <1>3, <1>4, DataAssumption

\* A step that decides to rotate has found the file as large as it may be.
LEMMA RotatesWhenLarge ==
  ASSUME Typed, SizeRead, SizeFits, [Next]_vars, NEW t \in Threads,
         pc[t] = "setLogPath", pc'[t] = "rotate"
  PROVE  fsize[index[ProcOf[t]] + 1] >= config.size * BytesPerUnit
<1> USE ThreadAssumption DEF Typed, TypeOK, Goto, Return
<1>1. SetLogPath(t)
  <2>1. ASSUME NEW u \in Threads, Call(u) \/ Proceed(u)
        PROVE  SetLogPath(u) \/ pc[u] # "setLogPath"
    BY <2>1 DEF Call, Proceed, LoadLogModule, SetInitialized, MutexInit,
       OpenConfig, ReadConfig, SetLogFunc, DefLogFunc,
       Rotate, OpenLog, WriteLog, UnloadLogModule, ReopenConfig, ReparseConfig, TruncateConfig,
       PrintConfig
  <2>2. ASSUME NEW u \in Threads, Call(u) \/ Proceed(u)
        PROVE  u = t \/ pc'[t] = pc[t]
    <3>1. CASE Call(u)
      BY <3>1 DEF Call, LoadLogModule, DefLogFunc, UnloadLogModule
    <3>2. CASE Proceed(u)
      BY <3>2 DEF Proceed, SetInitialized, MutexInit, OpenConfig, ReadConfig, SetLogFunc,
         SetLogPath, Rotate, OpenLog, WriteLog, ReopenConfig, ReparseConfig, TruncateConfig, PrintConfig
    <3> QED
      BY <2>2, <3>1, <3>2
  <2>3. ASSUME NEW p \in Procs, Restart(p) PROVE FALSE
    BY <2>3 DEF Restart
  <2>4. CASE UNCHANGED vars
    BY <2>4 DEF vars
  <2> QED
    BY <2>1, <2>2, <2>3, <2>4 DEF Next
<1>2. num[ProcOf[t]] # 0 /\ ~ Fits(t)
  BY <1>1 DEF SetLogPath
<1> DEFINE f == index[ProcOf[t]] + 1
           n == config.size * BytesPerUnit
<1>3. f \in Files
  <2>1. index[ProcOf[t]] \in 0 .. LastFile - 1
    OBVIOUS
  <2> QED
    BY <2>1, DataAssumption DEF Files
<1>4. ~ (fsize[f] < LogSize(config))
  BY <1>2 DEF Fits, SizeRead
<1>5. n \in Int /\ LogSize(config) = ToInt(n) /\ n < IntLimit
  BY DataAssumption DEF Config, LogSize, SizeFits
<1> HIDE DEF n, f
<1>6. ToInt(n) >= n /\ ToInt(n) \in Int
  BY <1>5, ToIntUp, LogSizeType
<1>7. fsize[f] >= n
  BY <1>3, <1>4, <1>5, <1>6
<1> QED
  BY <1>7 DEF f, n

\* However many processes and threads log, a file that can hold more is not left for the
\* next one, unless <Size> is such that the limit of setLogPath wraps (LogModule.cpp:518).
THEOREM SizeIsHonoured == Spec => SizeHonoured
<1>1. Init => SizeRead
  BY DEF Init, SizeRead
<1>2. Typed /\ SizeRead /\ [Next]_vars => SizeRead'
  BY NextSizeRead
<1>3. Spec => []SizeRead
  BY <1>1, <1>2, TypesHold, PTL DEF Spec
<1>4. Typed /\ SizeRead /\ [Next]_vars =>
        [\A t \in Threads :
           SizeFits /\ pc[t] = "setLogPath" /\ pc'[t] = "rotate" =>
             fsize[index[ProcOf[t]] + 1] >= config.size * BytesPerUnit]_vars
  BY RotatesWhenLarge
<1> QED
  BY <1>3, <1>4, TypesHold, PTL DEF Spec, SizeHonoured
-----------------------------------------------------------------------------
(***************************************************************************)
(* The rotation, until the process that logs dies: the first round goes    *)
(* from the configured file to the one before it, and then round and       *)
(* round. Files that are left behind are full.                             *)
(***************************************************************************)
Full(f) == fsize[f] >= LogSize(config)

\* In the first round: whether the file at j has had its turn, with the file at i current and
\* the one at first begun with.
HadTurn(first, i, j) ==
  IF first =< i THEN first =< j /\ j =< i ELSE first =< j \/ j =< i

FilesSane ==
  \A f \in Files : fsize[f] >= Absent /\ (fsize[f] = Absent => recs[f] = {})

\* A process has read the settings, or there are no files.
Settled ==
  \A p \in Procs :
    /\ num[p] # 0 => num[p] = config.num /\ size[p] = LogSize(config)
    /\ num[p] = 0 => \A f \in Files : fsize[f] = Absent
    /\ ~ initialized[p] => num[p] = 0

\* What a thread inside a call knows.
Underway ==
  \A t \in Threads :
    /\ pc[t] \in {"initialize", "mutexInit", "load", "parse"} => num[ProcOf[t]] = 0
    /\ pc[t] \in {"rotate", "fopen", "fclose"} => num[ProcOf[t]] # 0
    /\ pc[t] = "rotate" => Full(index[ProcOf[t]] + 1)
    /\ pc[t] \in {"fopen", "fclose"} => path[ProcOf[t]] = index[ProcOf[t]] + 1

\* All files but the current one are full, or have not had their turn in the first round.
Filled ==
  \A p \in Procs : num[p] # 0 =>
    \/ \A f \in 1 .. config.num : f - 1 # index[p] => Full(f)
    \/ \A f \in 1 .. config.num : f - 1 # index[p] =>
         IF HadTurn(config.index, index[p], f - 1) THEN Full(f) ELSE fsize[f] = Absent

Rounds == restarts = 0 => FilesSane /\ Settled /\ Underway /\ Filled

\* The next file has its turn; when it has had it, all have.
LEMMA NextTurn ==
  ASSUME NEW n \in Int, NEW first \in Nat, NEW i \in Nat, NEW j \in 0 .. n - 1,
         NEW k, k = IF i + 1 < n THEN i + 1 ELSE 0
  PROVE  /\ HadTurn(first, i, k) => HadTurn(first, i, j)
         /\ ~ HadTurn(first, i, k) /\ j # k => (HadTurn(first, k, j) <=> HadTurn(first, i, j))
<1>1. CASE i + 1 < n
  BY <1>1 DEF HadTurn
<1>2. CASE ~ (i + 1 < n)
  BY <1>2 DEF HadTurn
<1> QED
  BY <1>1, <1>2

\* Steps that leave the files and the settings alone.
LEMMA QuietRounds ==
  ASSUME IInv, Rounds, [Next]_vars, UNCHANGED <<num, size, index, path, fsize, recs, restarts>>,
         \A p \in Procs : initialized[p] => initialized'[p],
         \A t \in Threads :
           /\ pc'[t] \in {"rotate", "fopen", "fclose"} => pc'[t] = pc[t]
           /\ pc'[t] \in {"initialize", "mutexInit", "load", "parse"} =>
                pc[t] \in {"initialize", "mutexInit", "load", "parse"} \/ ~ initialized[ProcOf[t]]
  PROVE  Rounds'
<1> SUFFICES ASSUME restarts = 0
             PROVE  FilesSane' /\ Settled' /\ Underway' /\ Filled'
  BY DEF Rounds
<1>1. config'.num = config.num /\ config'.index = config.index
      /\ LogSize(config') = LogSize(config)
  BY ProperConfigKept, LogSizeKept DEF IInv
<1>2. FilesSane' /\ Settled' /\ Filled'
  BY <1>1 DEF Rounds, FilesSane, Settled, Filled, Full
<1>3. Underway'
  <2> SUFFICES ASSUME NEW t \in Threads
               PROVE  /\ pc'[t] \in {"initialize", "mutexInit", "load", "parse"} => num[ProcOf[t]] = 0
                      /\ pc'[t] \in {"rotate", "fopen", "fclose"} => num[ProcOf[t]] # 0
                      /\ pc'[t] = "rotate" => Full(index[ProcOf[t]] + 1)
                      /\ pc'[t] \in {"fopen", "fclose"} => path[ProcOf[t]] = index[ProcOf[t]] + 1
    BY <1>1 DEF Underway, Full
  <2>1. ~ initialized[ProcOf[t]] => num[ProcOf[t]] = 0
    BY ThreadAssumption DEF Rounds, Settled
  <2> QED
    BY <2>1 DEF Rounds, Underway
<1> QED
  BY <1>2, <1>3

\* Every step keeps the order of the rotation.
LEMMA NextRounds ==
  ASSUME OneProcess, IInv, FilesHeld, Rounds, [Next]_vars
  PROVE  Rounds'
<1>0. /\ config'.num = config.num /\ config'.index = config.index
      /\ LogSize(config') = LogSize(config) /\ LogSize(config) \in Int
  BY ProperConfigKept, LogSizeKept, LogSizeType DEF IInv, Typed, TypeOK
<1> USE ThreadAssumption, DataAssumption
    DEF OneProcess, IInv, Typed, TypeOK, Goto, Set, disk, settings, statics, flags, history
<1>1. ASSUME NEW t \in Threads,
             \/ LoadLogModule(t) \/ SetInitialized(t) \/ MutexInit(t)
             \/ OpenConfig(t) \/ SetLogFunc(t) \/ DefLogFunc(t)
             \/ UnloadLogModule(t) \/ ReopenConfig(t) \/ ReparseConfig(t)
             \/ TruncateConfig(t) \/ PrintConfig(t)
      PROVE  Rounds'
  <2>1. UNCHANGED <<num, size, index, path, fsize, recs, restarts>>
    BY <1>1 DEF LoadLogModule, SetInitialized, MutexInit,
       OpenConfig, SetLogFunc, DefLogFunc,
       UnloadLogModule, ReopenConfig, ReparseConfig, TruncateConfig, PrintConfig
  <2>2. \A p \in Procs : initialized[p] => initialized'[p]
    BY <1>1 DEF LoadLogModule, SetInitialized, MutexInit,
       OpenConfig, SetLogFunc, DefLogFunc,
       UnloadLogModule, ReopenConfig, ReparseConfig, TruncateConfig, PrintConfig
  <2>3. \A u \in Threads : pc'[u] \in {"rotate", "fopen", "fclose"} => pc'[u] = pc[u]
    BY <1>1 DEF LoadLogModule, SetInitialized, MutexInit,
       OpenConfig, SetLogFunc, DefLogFunc,
       UnloadLogModule, ReopenConfig, ReparseConfig, TruncateConfig, PrintConfig,
       Return
  <2>4. \A u \in Threads : pc'[u] \in {"initialize", "mutexInit", "load", "parse"} =>
          pc[u] \in {"initialize", "mutexInit", "load", "parse"} \/ ~ initialized[ProcOf[u]]
    BY <1>1 DEF LoadLogModule, SetInitialized, MutexInit,
       OpenConfig, SetLogFunc, DefLogFunc,
       UnloadLogModule, ReopenConfig, ReparseConfig, TruncateConfig, PrintConfig,
       Return
  <2> QED
    BY <2>1, <2>2, <2>3, <2>4, QuietRounds
<1>2. ASSUME NEW p \in Procs, Restart(p) PROVE Rounds'
  BY <1>2 DEF Restart, Rounds
<1>3. CASE UNCHANGED vars
  BY <1>3, QuietRounds DEF vars
\* A step of a thread inside a call leaves restarts alone; the others are not between MUTEX_LOCK
\* and MUTEX_UNLOCK.
<1>4. ASSUME NEW t \in Threads, pc[t] \in Critical
      PROVE  \A u \in Threads : u # t => pc[u] \notin Critical
  BY <1>4, Alone
<1>5. ASSUME NEW t \in Threads, ReadConfig(t), restarts = 0
      PROVE  FilesSane' /\ Settled' /\ Underway' /\ Filled'
  <2>1. num[ProcOf[t]] = 0 /\ \A f \in Files : fsize[f] = Absent
    BY <1>5 DEF ReadConfig, Rounds, Underway, Settled
  <2>2. \A u \in Threads : pc'[u] \notin {"rotate", "fopen", "fclose"}
        /\ (pc'[u] \in {"initialize", "mutexInit", "load", "parse"} => u # t /\ pc[u] \in {"initialize", "mutexInit", "load", "parse"})
    BY <1>5 DEF ReadConfig, Ready, Loading, Critical
  <2>3. \A u \in Threads : pc'[u] \notin {"initialize", "mutexInit", "load", "parse"}
    BY <1>5, <2>2 DEF ReadConfig, Ready, Loading
  <2>4. FilesSane' /\ UNCHANGED <<fsize, initialized, config>>
    BY <1>5 DEF ReadConfig, Rounds, FilesSane
  <2>5. initialized[ProcOf[t]]
    BY <1>5 DEF ReadConfig, Ready, Loading
  <2>6. CASE ~ config.section
    <3>1. UNCHANGED <<num, size, index>>
      BY <1>5, <2>6 DEF ReadConfig
    <3> QED
      BY <2>1, <2>2, <2>3, <2>4, <3>1 DEF Rounds, Settled, Underway, Filled
  <2>7. CASE config.section
    <3>1. \A p \in Procs : /\ size'[p] = LogSize(config) /\ num'[p] = config.num
                           /\ index'[p] = config.index
      BY <1>5, <2>7 DEF ReadConfig
    <3>2. Settled' /\ Underway'
      BY <2>1, <2>2, <2>3, <2>4, <2>5, <3>1 DEF Settled, Underway
    <3>3. \A f \in 1 .. config.num : f - 1 # config.index =>
            ~ HadTurn(config.index, config.index, f - 1) /\ fsize[f] = Absent
      BY <2>1 DEF HadTurn, Bounded, Config, Files
    <3>4. Filled'
      BY <2>4, <3>1, <3>3 DEF Filled
    <3> QED
      BY <2>4, <3>2, <3>4
  <2> QED
    BY <2>6, <2>7
<1>6. ASSUME NEW t \in Threads, SetLogPath(t), restarts = 0
      PROVE  FilesSane' /\ Settled' /\ Underway' /\ Filled'
  <2> DEFINE i == index[ProcOf[t]]
  <2>1. \A u \in Threads : u # t => pc[u] \notin Critical /\ pc'[u] = pc[u]
    BY <1>4, <1>6 DEF SetLogPath, Critical
  <2>2. UNCHANGED <<initialized, num, size, index, fsize, recs, config>>
    BY <1>6 DEF SetLogPath
  <2>3. FilesSane' /\ Settled' /\ Filled'
    BY <1>6, <2>2 DEF Rounds, FilesSane, Settled, Filled, Full
  <2>4. /\ pc'[t] \in {"rotate", "fopen"} => num[ProcOf[t]] # 0
        /\ pc'[t] \in {"rotate", "fopen", "idle"}
        /\ pc'[t] = "fopen" => path'[ProcOf[t]] = i + 1
        /\ pc'[t] = "rotate" => ~ (fsize[i + 1] < size[ProcOf[t]])
    BY <1>6 DEF SetLogPath, Fits
  <2>5. pc'[t] = "rotate" => Full(i + 1)
    <3>1. i + 1 \in Files
      BY DEF Files
    <3>2. num[ProcOf[t]] # 0 => size[ProcOf[t]] = LogSize(config)
      BY <1>6 DEF Rounds, Settled
    <3>3. fsize[i + 1] \in Int
      BY <3>1
    <3> QED
      BY <1>0, <2>4, <3>2, <3>3 DEF Full
  <2>6. Underway'
    <3> SUFFICES ASSUME NEW u \in Threads
                 PROVE  /\ pc'[u] \in {"initialize", "mutexInit", "load", "parse"} => num[ProcOf[u]] = 0
                        /\ pc'[u] \in {"rotate", "fopen", "fclose"} => num[ProcOf[u]] # 0
                        /\ pc'[u] = "rotate" => Full(index[ProcOf[u]] + 1)
                        /\ pc'[u] \in {"fopen", "fclose"} =>
                             path'[ProcOf[u]] = index[ProcOf[u]] + 1
      BY <2>2 DEF Underway, Full
    <3>1. CASE u = t
      BY <2>4, <2>5, <3>1
    <3>2. CASE u # t
      BY <1>6, <2>1, <3>2 DEF Underway, Rounds, Critical
    <3> QED
      BY <3>1, <3>2
  <2> QED
    BY <2>3, <2>6
<1>7. ASSUME NEW t \in Threads, Rotate(t), restarts = 0
      PROVE  FilesSane' /\ Settled' /\ Underway' /\ Filled'
  <2> DEFINE i == index[ProcOf[t]]
             k == NextIndex(t)
             n == config.num
             first == config.index
  <2>1. \A u \in Threads : u # t => pc[u] \notin Critical /\ pc'[u] = pc[u]
    BY <1>4, <1>7 DEF Rotate, Critical
  <2>2. UNCHANGED <<initialized, num, size, config>> /\ pc[t] = "rotate" /\ pc'[t] = "fopen"
    BY <1>7 DEF Rotate
  <2>3. \A p \in Procs : p = ProcOf[t]
    OBVIOUS
  <2>4. index'[ProcOf[t]] = k /\ path'[ProcOf[t]] = k + 1
    BY <1>7 DEF Rotate
  <2>5. \A f \in Files :
          \/ fsize'[f] = fsize[f] /\ recs'[f] = recs[f]
          \/ f = k + 1 /\ fsize'[f] = Absent /\ recs'[f] = {}
    BY <1>7 DEF Rotate, DeleteFileA
  <2>6. num[ProcOf[t]] = n /\ n # 0 /\ Full(i + 1)
    BY <1>7, <2>2 DEF Rounds, Underway, Settled
  <2>7. /\ k = IF i + 1 < n THEN i + 1 ELSE 0
        /\ i \in Nat /\ first \in Nat /\ n \in Int /\ n =< LastFile
    BY <2>6 DEF NextIndex, Bounded, Config
  <2>8. FilesSane'
    BY <1>7, <2>5 DEF Rounds, FilesSane, Absent
  <2>9. Settled'
    BY <1>7, <2>2, <2>3, <2>6 DEF Rounds, Settled
  <2>10. Underway'
    <3> SUFFICES ASSUME NEW u \in Threads
                 PROVE  /\ pc'[u] \in {"initialize", "mutexInit", "load", "parse"} => num'[ProcOf[u]] = 0
                        /\ pc'[u] \in {"rotate", "fopen", "fclose"} => num'[ProcOf[u]] # 0
                        /\ pc'[u] # "rotate"
                        /\ pc'[u] \in {"fopen", "fclose"} =>
                             path'[ProcOf[u]] = index'[ProcOf[u]] + 1
      BY DEF Underway
    <3>1. CASE u = t
      BY <2>2, <2>4, <2>6, <3>1
    <3>2. CASE u # t
      <4>1. pc'[u] = pc[u] /\ pc[u] \notin {"rotate", "fopen", "fclose"}
        BY <2>1, <3>2 DEF Critical
      <4>2. pc[u] \in {"initialize", "mutexInit", "load", "parse"} => num[ProcOf[u]] = 0
        BY <1>7 DEF Underway, Rounds
      <4> QED BY <2>2, <4>1, <4>2
    <3> QED
      BY <3>1, <3>2
  <2> HIDE DEF k, n, first, i
  <2>11. \A f \in 1 .. n : f \in Files /\ (f # k + 1 => fsize'[f] = fsize[f])
    BY <2>5, <2>7 DEF Files
  <2>12. CASE \A f \in 1 .. n : f - 1 # i => Full(f)
    <3>1. \A f \in 1 .. n : f - 1 # k => Full(f)'
      <4> SUFFICES ASSUME NEW f \in 1 .. n, f - 1 # k PROVE Full(f)'
        OBVIOUS
      <4>1. Full(f)
        BY <2>6, <2>12 DEF i
      <4> QED
        BY <1>0, <2>7, <2>11, <4>1 DEF Full
    <3> QED
      BY <2>2, <2>3, <2>4, <2>8, <2>9, <2>10, <3>1 DEF Filled, n
  <2>13. CASE \A f \in 1 .. n : f - 1 # i =>
                IF HadTurn(first, i, f - 1) THEN Full(f) ELSE fsize[f] = Absent
    <3>1. CASE HadTurn(first, i, k)
      <4>1. \A f \in 1 .. n : f - 1 # k => Full(f)'
        <5> SUFFICES ASSUME NEW f \in 1 .. n, f - 1 # k PROVE Full(f)'
          OBVIOUS
        <5>1. f - 1 \in 0 .. n - 1
          BY <2>7
        <5>2. HadTurn(first, i, f - 1)
          BY <2>7, <3>1, <5>1, NextTurn
        <5>3. Full(f)
          BY <2>6, <2>13, <5>2 DEF i
        <5> QED
          BY <1>0, <2>7, <2>11, <5>3 DEF Full
      <4> QED
        BY <2>2, <2>3, <2>4, <2>8, <2>9, <2>10, <4>1 DEF Filled, n
    <3>2. CASE ~ HadTurn(first, i, k)
      <4>1. \A f \in 1 .. n : f - 1 # k =>
              IF HadTurn(first, k, f - 1) THEN Full(f)' ELSE fsize'[f] = Absent
        <5> SUFFICES ASSUME NEW f \in 1 .. n, f - 1 # k
                     PROVE  IF HadTurn(first, k, f - 1) THEN Full(f)' ELSE fsize'[f] = Absent
          OBVIOUS
        <5>1. f - 1 \in 0 .. n - 1 /\ f # k + 1
          BY <2>7
        <5>2. HadTurn(first, k, f - 1) <=> HadTurn(first, i, f - 1)
          BY <2>7, <3>2, <5>1, NextTurn
        <5>3. fsize'[f] = fsize[f]
          BY <2>11, <5>1
        <5>4. CASE f - 1 = i
          <6>1. HadTurn(first, i, f - 1) /\ Full(f)
            BY <2>6, <2>7, <5>4 DEF HadTurn, i
          <6> QED
            BY <1>0, <5>2, <5>3, <6>1 DEF Full
        <5>5. CASE f - 1 # i
          BY <1>0, <2>13, <5>2, <5>3, <5>5 DEF Full
        <5> QED
          BY <5>4, <5>5
      <4> QED
        BY <2>2, <2>3, <2>4, <2>8, <2>9, <2>10, <4>1 DEF Filled, n, first
    <3> QED
      BY <3>1, <3>2
  <2> QED
    BY <1>7, <2>6, <2>12, <2>13 DEF Rounds, Filled, n, first, i
<1>8. ASSUME NEW t \in Threads, OpenLog(t) \/ WriteLog(t), restarts = 0
      PROVE  FilesSane' /\ Settled' /\ Underway' /\ Filled'
  <2> DEFINE i == index[ProcOf[t]]
  <2>1. \A u \in Threads : u # t => pc[u] \notin Critical /\ pc'[u] = pc[u]
    BY <1>4, <1>8 DEF OpenLog, WriteLog, Critical
  <2>2. UNCHANGED <<initialized, num, size, index, path, config>>
        /\ pc[t] \in {"fopen", "fclose"} /\ pc'[t] \in {"fclose", "idle"}
    BY <1>8 DEF OpenLog, WriteLog
  <2>3. num[ProcOf[t]] # 0 /\ path[ProcOf[t]] = i + 1 /\ \A p \in Procs : p = ProcOf[t]
    BY <1>8, <2>2 DEF Rounds, Underway
  <2>4. \A f \in Files : f # i + 1 => fsize'[f] = fsize[f] /\ recs'[f] = recs[f]
    BY <1>8, <2>3 DEF OpenLog, WriteLog
  <2>5. Settled'
    BY <1>8, <2>2, <2>3 DEF Rounds, Settled
  <2>6. Underway'
    <3> SUFFICES ASSUME NEW u \in Threads
                 PROVE  /\ pc'[u] \in {"initialize", "mutexInit", "load", "parse"} => num[ProcOf[u]] = 0
                        /\ pc'[u] \in {"rotate", "fopen", "fclose"} => num[ProcOf[u]] # 0
                        /\ pc'[u] # "rotate"
                        /\ pc'[u] \in {"fopen", "fclose"} =>
                             path[ProcOf[u]] = index[ProcOf[u]] + 1
      BY <2>2 DEF Underway
    <3>1. CASE u = t
      BY <2>2, <2>3, <3>1
    <3>2. CASE u # t
      BY <1>8, <2>1, <3>2 DEF Underway, Rounds, Critical
    <3> QED
      BY <3>1, <3>2
  <2>7. FilesSane'
    <3> DEFINE g == i + 1
    <3>1. g \in Files /\ fsize[g] \in Int /\ fsize[g] >= -1 /\ (fsize[g] = -1 => recs[g] = {})
      BY <1>8, <2>3 DEF Rounds, FilesSane, Absent
    <3>2. CASE OpenLog(t)
      <4>1. recs' = recs /\ (fsize' = fsize \/ fsize' = [fsize EXCEPT ![g] = IF fsize[g] = -1 THEN 0 ELSE fsize[g]])
        BY <2>3, <3>2 DEF OpenLog, Absent
      <4> QED
        BY <1>8, <3>1, <4>1 DEF Rounds, FilesSane, Absent
    <3>3. CASE WriteLog(t)
      <4>1. fsize[g] # -1
        BY <2>3, <3>3, <1>8 DEF WriteLog, FilesHeld, Absent
      <4>2. \/ fsize' = fsize /\ recs' = recs
            \/ \E len \in RecLens : fsize' = [fsize EXCEPT ![g] = fsize[g] + len]
        BY <2>3, <3>3 DEF WriteLog
      <4>3. \A f \in Files : f # g => recs'[f] = recs[f]
        BY <2>4
      <4> QED
        BY <1>8, <3>1, <4>1, <4>2, <4>3 DEF Rounds, FilesSane, Absent
    <3> QED
      BY <1>8, <3>2, <3>3
  <2>8. Filled'
    <3>1. \A f \in 1 .. config.num : f \in Files
      BY DEF Files, Bounded, Config
    <3>2. \A f \in 1 .. config.num : f - 1 # i => fsize'[f] = fsize[f]
      BY <2>4, <3>1 DEF Config
    <3> QED
      BY <1>8, <2>2, <2>3, <3>2 DEF Rounds, Filled, Full
  <2> QED
    BY <2>5, <2>6, <2>7, <2>8
<1>9. ASSUME NEW t \in Threads,
             ReadConfig(t) \/ SetLogPath(t) \/ Rotate(t) \/ OpenLog(t) \/ WriteLog(t)
      PROVE  Rounds'
  <2>1. UNCHANGED restarts
    BY <1>9 DEF ReadConfig, SetLogPath, Rotate, OpenLog, WriteLog
  <2> QED
    BY <1>5, <1>6, <1>7, <1>8, <1>9, <2>1 DEF Rounds
<1> QED
  BY <1>1, <1>2, <1>3, <1>9 DEF Next, Call, Proceed

LEMMA InitRounds == Init => Rounds
<1> SUFFICES ASSUME Init PROVE FilesSane /\ Settled /\ Underway /\ Filled
  BY DEF Rounds
<1> QED
  BY ThreadAssumption DEF Init, FilesSane, Settled, Underway, Filled, Absent

LEMMA RoundsHold == ASSUME OneProcess PROVE Spec => [](~ raced => Rounds)
<1>1. /\ ~ raced => IInv
      /\ ~ raced => FilesHeld
      /\ ~ raced => Rounds
      /\ [Next]_vars
      => (~ raced => Rounds)'
  BY NextRounds, RacedStays
<1> QED
  BY InitRounds, <1>1, Invariant, FilesHeldInvariant, PTL DEF Spec

\* Only a rotation empties a file.
LEMMA OnlyRotateEmpties ==
  ASSUME Typed, [Next]_vars, NEW f \in Files, recs[f] # {}, recs'[f] = {}
  PROVE  \E t \in Threads : Rotate(t) /\ f = NextIndex(t) + 1
<1> USE DEF Typed, TypeOK, disk
<1>1. ASSUME NEW t \in Threads, Rotate(t) PROVE f = NextIndex(t) + 1
  BY <1>1 DEF Rotate, DeleteFileA
<1>2. ASSUME NEW t \in Threads, WriteLog(t) PROVE FALSE
  BY <1>2 DEF WriteLog
<1> QED
  BY <1>1, <1>2 DEF Next, Call, Proceed, vars, LoadLogModule, SetInitialized, MutexInit,
       OpenConfig, ReadConfig,
     SetLogFunc, DefLogFunc, SetLogPath, OpenLog, UnloadLogModule, ReopenConfig,
     ReparseConfig, TruncateConfig, PrintConfig, Restart

\* In a rotation onto a file that has records all the others are full.
LEMMA DiscardsFull ==
  ASSUME OneProcess, IInv, Rounds, restarts = 0, NEW t \in Threads, Rotate(t),
         recs[NextIndex(t) + 1] # {}, NEW g \in 1 .. config.num, g # NextIndex(t) + 1
  PROVE  Full(g)
<1> USE ThreadAssumption, DataAssumption DEF IInv, Typed, TypeOK
<1> DEFINE i == index[ProcOf[t]]
           k == NextIndex(t)
           n == config.num
           first == config.index
<1>1. num[ProcOf[t]] = n /\ n # 0 /\ Full(i + 1)
  BY DEF Rotate, Rounds, Underway, Settled
<1>2. /\ k = IF i + 1 < n THEN i + 1 ELSE 0
      /\ i \in Nat /\ first \in Nat /\ n \in Int /\ g \in 1 .. n /\ g # k + 1
  BY <1>1 DEF NextIndex, Bounded, Config
<1>3. fsize[k + 1] # Absent /\ k + 1 \in Files
  BY NextIndexType DEF Rounds, FilesSane
<1>4. \/ \A f \in 1 .. n : f - 1 # i => Full(f)
      \/ \A f \in 1 .. n : f - 1 # i =>
           IF HadTurn(first, i, f - 1) THEN Full(f) ELSE fsize[f] = Absent
  BY <1>1 DEF Rounds, Filled
<1> HIDE DEF i, k, n, first
<1>5. CASE g - 1 = i
  <2>1. g = i + 1
    BY <1>2, <1>5
  <2> QED
    BY <1>1, <2>1
<1>6. ASSUME g - 1 # i,
             \A f \in 1 .. n : f - 1 # i =>
               IF HadTurn(first, i, f - 1) THEN Full(f) ELSE fsize[f] = Absent
      PROVE  Full(g)
  <2> DEFINE f == k + 1
             j == g - 1
  <2>1. f \in 1 .. n /\ f - 1 = k /\ k # i /\ fsize[f] # Absent /\ j \in 0 .. n - 1
    BY <1>2, <1>3, <1>6
  <2> HIDE DEF f
  <2>2. HadTurn(first, i, k)
    BY <1>6, <2>1
  <2> HIDE DEF j
  <2>3. HadTurn(first, i, j)
    BY <1>2, <2>1, <2>2, NextTurn
  <2> QED
    BY <1>2, <1>6, <2>3 DEF j
<1> QED
  BY <1>2, <1>4, <1>5, <1>6

\* Until it dies or two loads race, the one process that logs throws records away only when all other files are
\* full, with any number of threads, files and records, and whatever fails (LogModule.cpp:525).
THEOREM DiscardsWhenFull ==
  ASSUME OneProcess
  PROVE  Spec => DiscardsOnlyWhenFull
<1>1. (~ raced => IInv) /\ (~ raced => Rounds) /\ [Next]_vars =>
        [\A f \in Files :
           recs[f] # {} /\ recs'[f] = {} /\ restarts = 0 /\ ~ raced =>
             \A g \in (1 .. config.num) \ {f} : fsize[g] >= LogSize(config)]_vars
  BY OnlyRotateEmpties, DiscardsFull DEF Full, IInv
<1> QED
  BY <1>1, RoundsHold, Invariant, PTL DEF Spec, DiscardsOnlyWhenFull
-----------------------------------------------------------------------------
(***************************************************************************)
(* The age of the records.                                                 *)
(***************************************************************************)
\* The place of a file in the order in which the files were written to: those behind the
\* current one are older.
Rank(i, n, f) == IF f - 1 =< i THEN f + n ELSE f

\* Each file holds consecutive records, older ones in a file of lower rank, and the current
\* file, if it holds any, the last one written.
Aged ==
  restarts = 0 => \A p \in Procs : num[p] # 0 =>
    /\ index[p] = 0 \/ index[p] < config.num
    /\ \A f \in Files : \E a, b \in Nat : recs[f] = a .. b /\ b =< written
    /\ \A f \in Files : recs[f] # {} => f = index[p] + 1 \/ f =< config.num
    /\ recs[index[p] + 1] # {} => written \in recs[index[p] + 1]
    /\ \A f, g \in Files :
         Rank(index[p], config.num, f) < Rank(index[p], config.num, g) =>
           \A r \in recs[f], s \in recs[g] : r < s

\* configure.xml begins with one of its files.
StartsWithin == config.index = 0 \/ config.index < config.num

\* When the next file, which is emptied, becomes the current one, the others keep their order,
\* and they are newer than it was.
LEMMA RankKept ==
  ASSUME NEW n \in Int, NEW i \in Nat, i = 0 \/ i < n,
         NEW k, k = IF i + 1 < n THEN i + 1 ELSE 0,
         NEW f \in Nat \ {0}, f # k + 1, f = i + 1 \/ f =< n
  PROVE  /\ Rank(i, n, k + 1) < Rank(i, n, f)
         /\ \A g \in Nat \ {0} :
              g # k + 1 /\ (g = i + 1 \/ g =< n) /\ Rank(k, n, f) < Rank(k, n, g) =>
                Rank(i, n, f) < Rank(i, n, g)
<1>1. CASE i + 1 < n
  BY <1>1 DEF Rank
<1>2. CASE ~ (i + 1 < n)
  BY <1>2 DEF Rank
<1> QED
  BY <1>1, <1>2

\* The process that logs is in the middle of a call, and what is invariant says of it.
LEMMA Rotating ==
  ASSUME OneProcess, ~ DeleteMayFail, IInv, Rounds, Aged, restarts = 0,
         NEW t \in Threads, Rotate(t)
  PROVE  LET i == index[ProcOf[t]]
             n == config.num
             k == NextIndex(t)
         IN  /\ i \in Nat /\ n \in Int /\ (i = 0 \/ i < n) /\ k = IF i + 1 < n THEN i + 1 ELSE 0
             /\ num[ProcOf[t]] = n /\ n # 0 /\ k + 1 \in Files
             /\ recs' = [recs EXCEPT ![k + 1] = {}] /\ index'[ProcOf[t]] = k
             /\ UNCHANGED <<num, written, config, restarts>>
<1> USE ThreadAssumption, DataAssumption DEF IInv, Typed, TypeOK, OneProcess, disk, history, Set
<1>1. num[ProcOf[t]] # 0
  BY DEF Rotate, Rounds, Underway
<1>2. num[ProcOf[t]] = config.num /\ config.num \in Int
      /\ (index[ProcOf[t]] = 0 \/ index[ProcOf[t]] < config.num)
  BY <1>1 DEF Rounds, Settled, Aged, Config
<1>3. NextIndex(t) + 1 \in Files
  BY NextIndexType
<1>4. \A u \in Threads : pc[u] # "fclose"
  BY Alone DEF Rotate, Critical
<1>5. recs' = [recs EXCEPT ![NextIndex(t) + 1] = {}]
  BY <1>4 DEF Rotate, DeleteFileA, Openers
<1>6. index'[ProcOf[t]] = NextIndex(t) /\ UNCHANGED <<num, written, config, restarts>>
  BY DEF Rotate
<1> QED
  BY <1>1, <1>2, <1>3, <1>5, <1>6 DEF NextIndex

LEMMA RotateAged ==
  ASSUME OneProcess, ~ DeleteMayFail, IInv, Rounds, Aged, restarts = 0,
         NEW t \in Threads, Rotate(t)
  PROVE  Aged'
<1> DEFINE q == ProcOf[t]
           i == index[q]
           n == config.num
           k == NextIndex(t)
<1>1. /\ i \in Nat /\ n \in Int /\ (i = 0 \/ i < n) /\ k = IF i + 1 < n THEN i + 1 ELSE 0
      /\ num[q] = n /\ n # 0 /\ k + 1 \in Files
      /\ recs' = [recs EXCEPT ![k + 1] = {}] /\ index'[q] = k
      /\ UNCHANGED <<num, written, config, restarts>>
  BY Rotating
<1>2. q \in Procs /\ \A p \in Procs : p = q
  BY ThreadAssumption DEF OneProcess
<1>3. /\ \A f \in Files : \E a, b \in Nat : recs[f] = a .. b /\ b =< written
      /\ \A f \in Files : recs[f] # {} => f = i + 1 \/ f =< n
      /\ \A f, g \in Files :
           Rank(i, n, f) < Rank(i, n, g) => \A r \in recs[f], s \in recs[g] : r < s
  BY <1>1, <1>2 DEF Aged
<1>4. \A f \in Files : recs'[f] = IF f = k + 1 THEN {} ELSE recs[f]
  BY <1>1 DEF IInv, Typed, TypeOK
<1>5. 0 =< written /\ 1 .. 0 = {} /\ Files \subseteq Nat \ {0}
  BY DEF IInv, Typed, TypeOK, Files
<1> HIDE DEF k, n, i
<1>6. k = 0 \/ k < n
  BY <1>1
<1>7. ASSUME NEW f \in Files PROVE \E a, b \in Nat : recs'[f] = a .. b /\ b =< written
  BY <1>3, <1>4, <1>5
<1>8. \A f \in Files : recs'[f] # {} => f # k + 1 /\ (f = i + 1 \/ f =< n) /\ f =< n
  <2> SUFFICES ASSUME NEW f \in Files, recs'[f] # {} PROVE f # k + 1 /\ (f = i + 1 \/ f =< n) /\ f =< n
    OBVIOUS
  <2>1. f # k + 1 /\ recs[f] # {}
    BY <1>4
  <2>2. f = i + 1 \/ f =< n
    BY <1>3, <2>1
  <2>3. f = i + 1 => f =< n
    BY <1>1, <2>1
  <2> QED
    BY <2>1, <2>2, <2>3
<1>9. ASSUME NEW f \in Files, NEW g \in Files, Rank(k, n, f) < Rank(k, n, g),
             NEW r \in recs'[f], NEW s \in recs'[g]
      PROVE  r < s
  <2>1. /\ f # k + 1 /\ (f = i + 1 \/ f =< n) /\ g # k + 1 /\ (g = i + 1 \/ g =< n)
        /\ f \in Nat \ {0} /\ g \in Nat \ {0}
    BY <1>5, <1>8
  <2>2. Rank(i, n, f) < Rank(i, n, g)
    BY <1>1, <1>9, <2>1, RankKept
  <2>3. recs'[f] = recs[f] /\ recs'[g] = recs[g]
    BY <1>4, <2>1
  <2>4. r \in recs[f] /\ s \in recs[g]
    BY <2>3
  <2>5. \A a \in recs[f], b \in recs[g] : a < b
    BY <1>3, <2>2
  <2> QED
    BY <2>4, <2>5
<1>10. recs'[k + 1] = {}
  BY <1>1, <1>4
<1> QED
  BY <1>1, <1>2, <1>6, <1>7, <1>8, <1>9, <1>10 DEF Aged, n

\* A step that neither writes nor rotates keeps the order.
LEMMA QuietAged ==
  ASSUME IInv, Aged, [Next]_vars, UNCHANGED <<num, index, recs, written, restarts>>
  PROVE  Aged'
BY ProperConfigKept DEF Aged, IInv

\* At the time the configuration is read nothing has been written.
LEMMA ReadAged ==
  ASSUME OneProcess, IInv, Rounds, StartsWithin, restarts = 0, NEW t \in Threads, ReadConfig(t)
  PROVE  Aged'
<1> USE ThreadAssumption DEF IInv, Typed, TypeOK, OneProcess, disk, history, Set
<1>1. \A f \in Files : recs[f] = {}
  BY DEF ReadConfig, Rounds, Underway, Settled, FilesSane
<1>2. UNCHANGED <<recs, written, config>>
  BY DEF ReadConfig
<1>3. \A p \in Procs : num'[p] # 0 => index'[p] = config.index
  BY DEF ReadConfig, Rounds, Underway
<1>4. \A p \in Procs : index'[p] + 1 \in Files
  <2>1. index' \in [Procs -> 0 .. LastFile - 1]
    BY DEF ReadConfig, Bounded
  <2> QED
    BY <2>1, DataAssumption DEF Files
<1>5. 1 .. 0 = {} /\ 0 \in Nat /\ 1 \in Nat /\ 0 =< written
  OBVIOUS
<1>6. \A f \in Files : \E a, b \in Nat : recs[f] = a .. b /\ b =< written
  BY <1>1, <1>5
<1> QED
  BY <1>1, <1>2, <1>3, <1>4, <1>6 DEF Aged, StartsWithin

\* The current file is last in the order.
LEMMA CurrentLast ==
  ASSUME NEW n \in Int, NEW i \in Nat, NEW f \in Nat \ {0}, f # i + 1, f =< n
  PROVE  Rank(i, n, f) < Rank(i, n, i + 1)
BY DEF Rank

\* The next record continues an interval that ends with the last one.
LEMMA NextInterval ==
  ASSUME NEW S, NEW a \in Nat, NEW b \in Nat, NEW w \in Nat, S = a .. b, b =< w,
         S # {} => w \in S
  PROVE  \E c \in Nat : S \cup {w + 1} = c .. (w + 1)
<1>1. CASE S = {}
  <2>1. S \cup {w + 1} = (w + 1) .. (w + 1)
    BY <1>1
  <2> QED
    BY <2>1
<1>2. CASE w \in S
  <2>1. S \cup {w + 1} = a .. (w + 1)
    BY <1>2
  <2> QED
    BY <2>1
<1> QED
  BY <1>1, <1>2

\* What a thread that writes knows.
LEMMA Writing ==
  ASSUME OneProcess, IInv, Rounds, Aged, restarts = 0, NEW t \in Threads, WriteLog(t)
  PROVE  LET i == index[ProcOf[t]]
         IN  /\ i \in Nat /\ config.num \in Int /\ i + 1 \in Files
             /\ num[ProcOf[t]] # 0
             /\ UNCHANGED <<num, index, config, restarts>>
             /\ \/ recs' = [recs EXCEPT ![i + 1] = recs[i + 1] \cup {written + 1}]
                   /\ written' = written + 1
                \/ UNCHANGED <<recs, written>>
<1> USE ThreadAssumption, DataAssumption DEF IInv, Typed, TypeOK, OneProcess, disk, history, settings
<1> DEFINE i == index[ProcOf[t]]
<1>1. num[ProcOf[t]] # 0 /\ path[ProcOf[t]] = i + 1
  BY DEF WriteLog, Rounds, Underway
<1>2. \/ recs' = [recs EXCEPT ![i + 1] = recs[i + 1] \cup {written + 1}]
         /\ written' = written + 1
      \/ UNCHANGED <<recs, written>>
  BY <1>1 DEF WriteLog
<1>3. UNCHANGED <<num, index, config, restarts>>
  BY DEF WriteLog
<1>4. i + 1 \in Files /\ i \in Nat /\ config.num \in Int
  BY DEF Files, Config
<1> QED
  BY <1>1, <1>2, <1>3, <1>4

LEMMA WriteAged ==
  ASSUME OneProcess, IInv, Rounds, Aged, restarts = 0, NEW t \in Threads, WriteLog(t),
         [Next]_vars
  PROVE  Aged'
<1> DEFINE i == index[ProcOf[t]]
           n == config.num
           c == i + 1
           w == written
<1>1. CASE UNCHANGED <<recs, written>>
  BY <1>1, Writing, QuietAged
<1>2. ASSUME recs' = [recs EXCEPT ![c] = recs[c] \cup {w + 1}], written' = w + 1
      PROVE  Aged'
  <2>1. /\ i \in Nat /\ n \in Int /\ c \in Files /\ num[ProcOf[t]] # 0
        /\ UNCHANGED <<num, index, config, restarts>>
    BY Writing
  <2>2. ProcOf[t] \in Procs /\ \A p \in Procs : p = ProcOf[t]
    BY ThreadAssumption DEF OneProcess
  <2>3. /\ i = 0 \/ i < n
        /\ \A f \in Files : \E a, b \in Nat : recs[f] = a .. b /\ b =< w
        /\ \A f \in Files : recs[f] # {} => f = c \/ f =< n
        /\ recs[c] # {} => w \in recs[c]
        /\ \A f, g \in Files :
             Rank(i, n, f) < Rank(i, n, g) => \A r \in recs[f], s \in recs[g] : r < s
    BY <2>1, <2>2 DEF Aged
  <2>4. \A f \in Files : recs'[f] = IF f = c THEN recs[c] \cup {w + 1} ELSE recs[f]
    BY <1>2 DEF IInv, Typed, TypeOK
  <2>5. w \in Nat /\ w + 1 \in Nat /\ Files \subseteq Nat \ {0}
    BY DEF IInv, Typed, TypeOK, Files
  <2>6. c = i + 1
    OBVIOUS
  <2> HIDE DEF i, n, c, w
  <2>7. ASSUME NEW f \in Files
        PROVE  \E a, b \in Nat : recs'[f] = a .. b /\ b =< w + 1
    <3>1. PICK a \in Nat, b \in Nat : recs[f] = a .. b /\ b =< w
      BY <2>3
    <3>2. CASE f = c
      <4> DEFINE S == recs[c]
      <4>1. S = a .. b /\ b =< w /\ (S # {} => w \in S)
        BY <2>3, <3>1, <3>2
      <4> HIDE DEF S
      <4>2. PICK d \in Nat : S \cup {w + 1} = d .. (w + 1)
        BY <2>5, <4>1, NextInterval
      <4>3. recs'[f] = S \cup {w + 1}
        BY <2>4, <3>2 DEF S
      <4>4. w + 1 =< w + 1
        BY <2>5
      <4> QED
        BY <2>5, <4>2, <4>3, <4>4
    <3>3. CASE f # c
      <4>1. recs'[f] = a .. b /\ b =< w + 1
        BY <2>4, <2>5, <3>1, <3>3
      <4> QED
        BY <4>1
    <3> QED
      BY <3>2, <3>3
  <2>8. ASSUME NEW f \in Files, NEW g \in Files, Rank(i, n, f) < Rank(i, n, g),
               NEW r \in recs'[f], NEW s \in recs'[g]
        PROVE  r < s
    <3>1. CASE f # c /\ g # c
      BY <2>3, <2>4, <2>8, <3>1
    <3>2. CASE f = c
      <4>1. g # c /\ recs'[g] = recs[g] /\ ~ (Rank(i, n, g) < Rank(i, n, c))
        <5>1. \A h \in Nat \ {0} : Rank(i, n, h) \in Int
          BY <2>1 DEF Rank
        <5> QED
          BY <2>4, <2>5, <2>8, <3>2, <5>1
      <4>2. g =< n
        BY <2>3, <4>1
      <4>3. Rank(i, n, g) < Rank(i, n, c)
        BY <2>1, <2>5, <2>6, <4>1, <4>2, CurrentLast
      <4> QED
        BY <4>1, <4>3
    <3>3. CASE f # c /\ g = c
      <4>1. r \in recs[f] /\ (s \in recs[c] \/ s = w + 1)
        BY <2>4, <3>3
      <4>2. CASE s \in recs[c]
        BY <2>3, <2>8, <3>3, <4>1, <4>2
      <4>3. CASE s = w + 1
        <5>1. PICK a \in Nat, b \in Nat : recs[f] = a .. b /\ b =< w
          BY <2>3
        <5> QED
          BY <2>5, <4>1, <4>3, <5>1
      <4> QED
        BY <4>1, <4>2, <4>3
    <3> QED
      BY <3>1, <3>2, <3>3
  <2>9. \A f \in Files : recs'[f] # {} => f = c \/ f =< n
    BY <2>3, <2>4
  <2>10. w + 1 \in recs'[c]
    BY <2>1, <2>4
  <2>11. /\ \A p \in Procs : index'[p] = i /\ index'[p] + 1 = c
         /\ config'.num = n /\ written' = w + 1
    BY <1>2, <2>1, <2>2 DEF i, n, c
  <2> QED
    BY <2>3, <2>7, <2>8, <2>9, <2>10, <2>11 DEF Aged
<1> QED
  BY <1>1, <1>2, Writing

\* Every step keeps the order.
LEMMA NextAged ==
  ASSUME OneProcess, ~ DeleteMayFail, IInv, Rounds, Aged, StartsWithin, [Next]_vars
  PROVE  Aged'
<1> USE DEF disk, settings, statics, history
<1>1. ASSUME UNCHANGED <<num, index, recs, written, restarts>> PROVE Aged'
  BY <1>1, QuietAged
<1>2. CASE UNCHANGED vars
  BY <1>1, <1>2 DEF vars
<1>3. ASSUME NEW p \in Procs, Restart(p) PROVE Aged'
  BY <1>3 DEF Restart, Aged, IInv, Typed, TypeOK
<1>4. ASSUME NEW t \in Threads, ReadConfig(t) PROVE Aged'
  <2>1. UNCHANGED restarts
    BY <1>4 DEF ReadConfig
  <2> QED
    BY <1>4, <2>1, ReadAged DEF Aged
<1>5. ASSUME NEW t \in Threads, Rotate(t) PROVE Aged'
  <2>1. UNCHANGED restarts
    BY <1>5 DEF Rotate
  <2> QED
    BY <1>5, <2>1, RotateAged DEF Aged
<1>6. ASSUME NEW t \in Threads, WriteLog(t) PROVE Aged'
  <2>1. UNCHANGED restarts
    BY <1>6 DEF WriteLog
  <2> QED
    BY <1>6, <2>1, WriteAged DEF Aged
<1>7. ASSUME NEW t \in Threads,
             \/ LoadLogModule(t) \/ SetInitialized(t) \/ MutexInit(t)
             \/ OpenConfig(t) \/ SetLogFunc(t) \/ DefLogFunc(t)
             \/ SetLogPath(t) \/ OpenLog(t) \/ UnloadLogModule(t) \/ ReopenConfig(t)
             \/ ReparseConfig(t) \/ TruncateConfig(t) \/ PrintConfig(t)
      PROVE  Aged'
  BY <1>1, <1>7 DEF LoadLogModule, SetInitialized, MutexInit,
       OpenConfig, SetLogFunc, DefLogFunc, SetLogPath, OpenLog,
     UnloadLogModule, ReopenConfig, ReparseConfig, TruncateConfig, PrintConfig
<1> QED
  BY <1>2, <1>3, <1>4, <1>5, <1>6, <1>7 DEF Next, Call, Proceed

\* Writing appends to what is kept.
LEMMA WriteAppends ==
  ASSUME OneProcess, IInv, Rounds, Aged, restarts = 0, NEW t \in Threads, WriteLog(t)
  PROVE  [OldestFirst!Next]_OldestFirst!vars
<1> DEFINE c == index[ProcOf[t]] + 1
<1>1. CASE UNCHANGED <<recs, written>>
  BY <1>1 DEF OldestFirst!vars, Kept
<1>2. ASSUME recs' = [recs EXCEPT ![c] = recs[c] \cup {written + 1}], written' = written + 1
      PROVE  OldestFirst!Append
  <2>1. c \in Files
    BY Writing
  <2> HIDE DEF c
  <2>2. \A f \in Files : recs'[f] = IF f = c THEN recs[c] \cup {written + 1} ELSE recs[f]
    BY <1>2 DEF IInv, Typed, TypeOK
  <2>3. Kept' = Kept \cup {written'}
    BY <1>2, <2>1, <2>2 DEF Kept
  <2> QED
    BY <1>2, <2>3 DEF OldestFirst!Append
<1> QED
  BY <1>1, <1>2, Writing DEF OldestFirst!Next

\* Rotating takes the oldest records away, or none.
LEMMA RotateDiscards ==
  ASSUME OneProcess, ~ DeleteMayFail, IInv, Rounds, Aged, restarts = 0,
         NEW t \in Threads, Rotate(t)
  PROVE  [OldestFirst!Next]_OldestFirst!vars
<1> DEFINE i == index[ProcOf[t]]
           n == config.num
           k == NextIndex(t)
           c == k + 1
<1>1. /\ i \in Nat /\ n \in Int /\ (i = 0 \/ i < n) /\ k = IF i + 1 < n THEN i + 1 ELSE 0
      /\ num[ProcOf[t]] # 0 /\ c \in Files
      /\ recs' = [recs EXCEPT ![c] = {}] /\ UNCHANGED written
  BY Rotating
<1>2. ProcOf[t] \in Procs
  BY ThreadAssumption
<1>3. /\ \A f \in Files : \E a, b \in Nat : recs[f] = a .. b
      /\ \A f \in Files : recs[f] # {} => f = i + 1 \/ f =< n
      /\ \A f, g \in Files :
           Rank(i, n, f) < Rank(i, n, g) => \A r \in recs[f], s \in recs[g] : r < s
  BY <1>1, <1>2 DEF Aged
<1>4. \A f \in Files : recs'[f] = IF f = c THEN {} ELSE recs[f]
  BY <1>1 DEF IInv, Typed, TypeOK
<1>5. c = k + 1 /\ Files \subseteq Nat \ {0}
  BY DEF Files
<1> HIDE DEF i, n, k, c
<1>6. CASE recs[c] = {}
  <2>1. Kept' = Kept
    BY <1>4, <1>6 DEF Kept
  <2> QED
    BY <1>1, <2>1 DEF OldestFirst!vars
<1>7. CASE recs[c] # {}
  <2>1. PICK a \in Nat, b \in Nat : recs[c] = a .. b
    BY <1>1, <1>3
  <2>2. b \in recs[c] /\ \A r \in recs[c] : ~ (r > b)
    BY <1>7, <2>1
  <2>3. ASSUME NEW f \in Files, f # c, NEW r \in recs[f] PROVE r > b
    <3>1. f = i + 1 \/ f =< n
      BY <1>3, <2>3
    <3>2. Rank(i, n, c) < Rank(i, n, f)
      BY <1>1, <1>5, <2>3, <3>1, RankKept
    <3>3. b < r
      BY <1>1, <1>3, <2>2, <3>2
    <3>4. r \in Int
      BY DEF IInv, Typed, TypeOK
    <3> QED
      BY <3>3, <3>4
  <2>4. b \in Kept
    BY <1>1, <2>2 DEF Kept
  <2>5. Kept' = {r \in Kept : r > b}
    BY <1>4, <2>2, <2>3 DEF Kept
  <2> QED
    BY <1>1, <2>4, <2>5 DEF OldestFirst!Next, OldestFirst!Discard
<1> QED
  BY <1>6, <1>7

\* Until the process dies, every step of the log is a step of the abstract log, or none.
LEMMA StepKeepsNewest ==
  ASSUME OneProcess, ~ DeleteMayFail, IInv, Rounds, Aged, restarts = 0, [Next]_vars
  PROVE  [OldestFirst!Next]_OldestFirst!vars
<1> USE DEF disk
<1>1. ASSUME UNCHANGED <<recs, written>> PROVE [OldestFirst!Next]_OldestFirst!vars
  BY <1>1 DEF OldestFirst!vars, Kept
<1>2. ASSUME NEW t \in Threads,
             \/ LoadLogModule(t) \/ SetInitialized(t) \/ MutexInit(t)
             \/ OpenConfig(t) \/ ReadConfig(t) \/ SetLogFunc(t)
             \/ DefLogFunc(t) \/ SetLogPath(t) \/ OpenLog(t) \/ UnloadLogModule(t)
             \/ ReopenConfig(t) \/ ReparseConfig(t) \/ TruncateConfig(t) \/ PrintConfig(t)
      PROVE  UNCHANGED <<recs, written>>
  BY <1>2 DEF LoadLogModule, SetInitialized, MutexInit,
       OpenConfig, ReadConfig, SetLogFunc, DefLogFunc, SetLogPath,
     OpenLog, UnloadLogModule, ReopenConfig, ReparseConfig, TruncateConfig, PrintConfig
<1>3. UNCHANGED vars \/ (\E p \in Procs : Restart(p)) => UNCHANGED <<recs, written>>
  BY DEF vars, Restart
<1> QED
  BY <1>1, <1>2, <1>3, WriteAppends, RotateDiscards DEF Next, Call, Proceed

LEMMA InitAged == Init => Aged
BY DEF Init, Aged

LEMMA InitOldestFirst == Init => OldestFirst!Init
<1> SUFFICES ASSUME Init PROVE OldestFirst!Init
  OBVIOUS
<1>1. \A f \in Files : recs[f] = {}
  BY DEF Init
<1>2. Kept = {}
  BY <1>1 DEF Kept
<1> QED
  BY <1>2 DEF Init, OldestFirst!Init

\* One process that has the files to itself, and begins with one of them, keeps until it dies, or
\* two loads race, the newest records without a gap: it implements the abstract log OldestFirstLog
\* (LogModule.cpp:506-609).
THEOREM KeepsNewestRecords ==
  ASSUME OneProcess, ~ DeleteMayFail,
         \A c \in InitialConfigs : c.index = 0 \/ c.index < c.num
  PROVE  Spec => KeepsNewest
<1>1. Init => StartsWithin
  BY DEF Init, StartsWithin
<1>2. Typed /\ StartsWithin /\ [Next]_vars => StartsWithin'
  BY ProperConfigKept DEF StartsWithin
<1>3. /\ ~ raced => IInv
      /\ ~ raced => Rounds
      /\ ~ raced => Aged
      /\ StartsWithin
      /\ [Next]_vars
      => (~ raced => Aged)'
  BY NextAged, RacedStays
<1>4. (~ raced => IInv) /\ (~ raced => Rounds) /\ (~ raced => Aged) /\ [Next]_vars =>
        [restarts = 0 /\ ~ raced => [OldestFirst!Next]_OldestFirst!vars]_vars
  BY StepKeepsNewest
<1> QED
  BY <1>1, <1>2, <1>3, <1>4, InitAged, InitOldestFirst, RoundsHold, Invariant, TypesHold, PTL
  DEF Spec, KeepsNewest
=============================================================================
