--------------------------- MODULE ServiceProofs ----------------------------
(***************************************************************************)
(* Proofs about GuestService, ServiceInstall and Minidump.                 *)
(*                                                                         *)
(* Of the service: one inductive invariant, Phases, says for each point of *)
(* ServiceMain what the handler can be doing meanwhile, what the SCM has   *)
(* been told, and in which state _ServiceStatus and the event are. The     *)
(* safety properties and the refinement follow from it.                    *)
(*                                                                         *)
(* Of its entry: no interleaving of any number of installers, the          *)
(* uninstaller and the service leaves it without its failure settings.     *)
(*                                                                         *)
(* Of the crash dumps: a dump that was written stays, no filter is lost,   *)
(* and what a start of the DLL changes in the process is put back.         *)
(***************************************************************************)
EXTENDS ServiceInstall, Minidump, TLAPS

\* Before the service thread exists, nothing has been told to the SCM.
Unborn ==
  service = "none" =>
    /\ main \in {"none", "load", "connect", "unload"}
    /\ scmState = (IF main = "none" THEN "stopped" ELSE "startPending")
    /\ event = "null"
    /\ status = "none"

\* Until it has reported SERVICE_RUNNING, no stop can be delivered.
Starting ==
  service \in {"createEvent", "init", "writeRunning", "sendRunning"} =>
    /\ main \in {"dispatch", "other"}
    /\ scmState = "startPending"
    /\ event = (IF service = "createEvent" THEN "null" ELSE "reset")
    /\ service = "writeRunning" => status = "startPending"
    /\ service = "sendRunning" => status = "running"

\* While it works, one stop at most is handled, and the event is set last.
Serving ==
  service \in {"launch", "wait"} =>
    \/ /\ main \in {"dispatch", "other", "entered", "writePending"}
       /\ scmState = "running"
       /\ event = "reset"
    \/ /\ main = "sendPending"
       /\ scmState = "running"
       /\ status = "stopPending"
       /\ event = "reset"
    \/ /\ main = "setEvent"
       /\ scmState = "stopPending"
       /\ event = "reset"
    \/ /\ main \in {"dispatch", "other"}
       /\ scmState = "stopPending"
       /\ event = "set"

\* Once it is awake, the handler is done with the stop.
Stopping ==
  service \in {"writeStopped", "sendStopped"} =>
    /\ main \in {"dispatch", "other"}
    /\ scmState = "stopPending"
    /\ service = "sendStopped" => status = "stopped"

Ended ==
  /\ service = "closeEvent" =>
       /\ main \in {"dispatch", "other", "unload"}
       /\ scmState = "stopped"
  /\ service = "returned" =>
       \/ main \in {"dispatch", "other", "unload"} /\ scmState = "stopped"
       \/ main \in {"dispatch", "other"} /\ scmState = "startPending"

Phases == TypeOK /\ Unborn /\ Starting /\ Serving /\ Stopping /\ Ended
-----------------------------------------------------------------------------
\* The order of the calls, label by label.
LEMMA HandlerOrder ==
  /\ HandlerNext["entered"] = "writePending"
  /\ HandlerNext["writePending"] = "sendPending"
  /\ HandlerNext["sendPending"] = "setEvent"
  /\ HandlerNext["setEvent"] = "dispatch"
BY DEF HandlerNext

\* The same for the service thread.
LEMMA ServiceOrder ==
  /\ ServiceNext["createEvent"] = "init"
  /\ ServiceNext["init"] = "writeRunning"
  /\ ServiceNext["writeRunning"] = "sendRunning"
  /\ ServiceNext["sendRunning"] = "launch"
  /\ ServiceNext["launch"] = "wait"
  /\ ServiceNext["wait"] = "writeStopped"
  /\ ServiceNext["writeStopped"] = "sendStopped"
  /\ ServiceNext["sendStopped"] = "closeEvent"
  /\ ServiceNext["closeEvent"] = "returned"
BY DEF ServiceNext

\* The label sets, spelled out.
LEMMA Labels ==
  ServiceLabels =
    {"createEvent", "init", "writeRunning", "sendRunning", "launch", "wait",
     "writeStopped", "sendStopped", "closeEvent", "none", "returned"}
BY DEF ServiceLabels, ServiceNext
-----------------------------------------------------------------------------
\* The initial state satisfies the invariant.
LEMMA InitPhases == Init => Phases
BY Labels
DEF Init, Phases, TypeOK, Unborn, Starting, Serving, Stopping, Ended,
    Handling, MainLabels, UninstallerLabels, Lifecycle!States

\* Every step keeps it.
LEMMA NextPhases == Phases /\ [Next]_vars => Phases'
<1> SUFFICES ASSUME Phases, [Next]_vars PROVE Phases'
  OBVIOUS
<1> USE BoundAssumption, HandlerOrder, ServiceOrder, Labels
    DEF Phases, TypeOK, Unborn, Starting, Serving, Stopping, Ended,
        Handling, MainLabels, UninstallerLabels, Lifecycle!States,
        MainGoto, ServiceGoto, UninstallerGoto, HandlerStep, ServiceStep,
        ServiceFails, SetServiceStatus, process, scm, client, bounds
<1>1. CASE LoadLog
  BY <1>1 DEF LoadLog, NoProcess
<1>2. CASE Connect
  BY <1>2 DEF Connect
<1>3. CASE HandlerEntered
  BY <1>3 DEF HandlerEntered
<1>4. CASE WritePending
  BY <1>4 DEF WritePending
<1>5. CASE SendPending
  BY <1>5 DEF SendPending
<1>6. CASE SetExitEvent
  BY <1>6 DEF SetExitEvent
<1>7. CASE IgnoreControl
  BY <1>7 DEF IgnoreControl
<1>8. CASE DispatcherReturns
  BY <1>8 DEF DispatcherReturns
<1>9. CASE UnloadLog
  BY <1>9 DEF UnloadLog, NoProcess
<1>10. CASE CreateEvent
  BY <1>10 DEF CreateEvent
<1>11. CASE RegisterHandler
  BY <1>11 DEF RegisterHandler
<1>12. CASE WriteRunning
  BY <1>12 DEF WriteRunning
<1>13. CASE SendRunning
  BY <1>13 DEF SendRunning
<1>14. CASE LaunchAppInSession
  BY <1>14 DEF LaunchAppInSession
<1>15. CASE WaitForStop
  BY <1>15 DEF WaitForStop
<1>16. CASE WriteStopped
  BY <1>16 DEF WriteStopped
<1>17. CASE SendStopped
  BY <1>17 DEF SendStopped
<1>18. CASE CloseEvent
  BY <1>18 DEF CloseEvent
<1>19. CASE OpenService
  BY <1>19 DEF OpenService
<1>20. CASE ControlService
  BY <1>20 DEF ControlService, StopAccepted
<1>21. CASE ControlReturns
  BY <1>21 DEF ControlReturns
<1>22. CASE QueryServiceStatus \/ QueryFails
  BY <1>22 DEF QueryServiceStatus, QueryFails
<1>23. CASE DeleteService
  BY <1>23 DEF DeleteService
<1>24. CASE CloseServiceHandle
  BY <1>24 DEF CloseServiceHandle
<1>25. CASE StartService
  BY <1>25 DEF StartService
<1>26. CASE Crash
  BY <1>26 DEF Crash, NoProcess
<1>27. CASE Shutdown
  BY <1>27 DEF Shutdown, StopAccepted, Idle
<1>28. CASE OtherControl
  BY <1>28 DEF OtherControl, Idle
<1>29. CASE RemoveEntry
  BY <1>29 DEF RemoveEntry
<1>30. CASE UNCHANGED vars
  BY <1>30 DEF vars
<1> QED
  BY <1>1, <1>2, <1>3, <1>4, <1>5, <1>6, <1>7, <1>8, <1>9, <1>10, <1>11, <1>12, <1>13, <1>14, <1>15, <1>16, <1>17, <1>18, <1>19, <1>20, <1>21, <1>22, <1>23, <1>24, <1>25, <1>26, <1>27, <1>28, <1>29, <1>30
  DEF Next, MainThread, ServiceThread, Uninstaller, Environment

\* The invariant of the service process: in every reachable state ServiceMain,
\* the handler, _ServiceStatus, the event and the SCM's record fit together.
THEOREM PhasesInvariant == Spec => []Phases
BY InitPhases, NextPhases, PTL DEF Spec
-----------------------------------------------------------------------------
\* Type correctness, for any number of starts and crashes and any failures.
THEOREM TypeCorrect == Spec => []TypeOK
<1>1. Phases => TypeOK
  BY DEF Phases
<1> QED
  BY <1>1, PhasesInvariant, PTL

\* SetEvent never meets a null or a closed _hServiceExitEvent (main.cpp:227), and main
\* does not return while ServiceMain still has to report (main.cpp:73-95).
THEOREM ThreadsSafe == Spec => []ThreadsInStep
<1>1. Phases => ThreadsInStep
  BY Labels DEF Phases, TypeOK, Unborn, Starting, Serving, Stopping, Ended,
     ThreadsInStep
<1> QED
  BY <1>1, PhasesInvariant, PTL
-----------------------------------------------------------------------------
\* A step is a step of the lifecycle, or changes neither what the SCM has
\* recorded nor whether there is a process.
LEMMA NextLifecycle ==
  Phases /\ [Next]_vars => [Lifecycle!Next]_<<scmState, main # "none">>
<1> SUFFICES ASSUME Phases, [Next]_vars
             PROVE  [Lifecycle!Next]_<<scmState, main # "none">>
  OBVIOUS
<1> USE HandlerOrder, ServiceOrder, Labels
    DEF Phases, TypeOK, Unborn, Starting, Serving, Stopping, Ended,
        Handling, MainLabels, MainGoto, ServiceGoto, HandlerStep, ServiceStep,
        SetServiceStatus, process, scm, client,
        Lifecycle!Next, Lifecycle!Start, Lifecycle!Report, Lifecycle!Started,
        Lifecycle!Stopping, Lifecycle!Stopped, Lifecycle!End
<1>1. CASE StartService
  BY <1>1 DEF StartService
<1>2. CASE LoadLog
  BY <1>2 DEF LoadLog, NoProcess
<1>3. CASE SendRunning
  BY <1>3 DEF SendRunning
<1>4. CASE SendPending
  BY <1>4 DEF SendPending
<1>5. CASE SendStopped
  BY <1>5 DEF SendStopped
<1>6. CASE UnloadLog
  BY <1>6 DEF UnloadLog, NoProcess
<1>7. CASE Crash
  BY <1>7 DEF Crash, NoProcess
<1>8. CASE \/ Connect \/ HandlerEntered \/ WritePending \/ SetExitEvent
           \/ IgnoreControl \/ DispatcherReturns
  BY <1>8 DEF Connect, HandlerEntered, WritePending, SetExitEvent,
     IgnoreControl, DispatcherReturns
<1>9. CASE \/ CreateEvent \/ RegisterHandler \/ WriteRunning
           \/ LaunchAppInSession \/ WaitForStop \/ WriteStopped \/ CloseEvent
  BY <1>9 DEF CreateEvent, RegisterHandler, WriteRunning, LaunchAppInSession,
     WaitForStop, WriteStopped, CloseEvent
<1>10. CASE Uninstaller \/ RemoveEntry
  BY <1>10 DEF Uninstaller, OpenService, ControlService, ControlReturns,
     QueryServiceStatus, QueryFails, DeleteService, CloseServiceHandle,
     StopAccepted,
     RemoveEntry
<1>11. CASE Shutdown \/ OtherControl
  BY <1>11 DEF Shutdown, OtherControl, Idle, StopAccepted
<1>12. CASE UNCHANGED vars
  BY <1>12 DEF vars
<1> QED
  BY <1>1, <1>2, <1>3, <1>4, <1>5, <1>6, <1>7, <1>8, <1>9, <1>10, <1>11, <1>12
  DEF Next, MainThread, ServiceThread, Environment

\* What the SCM sees of the service is a run of ServiceLifecycle: no state is
\* skipped or taken back while the process lives (main.cpp:244-249).
THEOREM Refinement == Spec => StatusInOrder
<1>1. Init => Lifecycle!Init
  BY DEF Init, Lifecycle!Init
<1> QED
  BY <1>1, NextLifecycle, PhasesInvariant, PTL
  DEF Spec, StatusInOrder, Lifecycle!Spec
-----------------------------------------------------------------------------
(***************************************************************************)
(* The uninstaller.  From the moment its stop is delivered until it marks  *)
(* the entry, the service only moves on towards stopped, or is restarted.  *)
(***************************************************************************)
StopTracked ==
  /\ stopOf # 0 => uninstaller \notin {"begin", "control"}
  /\ stopOf =< starts
  /\ main = "other" => uninstaller # "stopping"
  /\ stopOf # 0 /\ stopOf = starts =>
       /\ uninstaller = "stopping" /\ main \notin Handling
            => scmState \in {"stopPending", "stopped"}
       /\ uninstaller = "query" => scmState \in {"stopPending", "stopped"}
       /\ uninstaller = "delete" => scmState = "stopped"

\* Every step keeps it: the state leaves "stopped" through StartService only.
LEMMA NextStopTracked == Phases /\ StopTracked /\ [Next]_vars => StopTracked'
<1> SUFFICES ASSUME Phases, StopTracked, [Next]_vars PROVE StopTracked'
  OBVIOUS
<1> USE BoundAssumption, HandlerOrder, ServiceOrder, Labels
    DEF Phases, TypeOK, Unborn, Starting, Serving, Stopping, Ended, StopTracked,
        Handling, MainLabels, UninstallerLabels, Lifecycle!States,
        MainGoto, ServiceGoto, UninstallerGoto, HandlerStep, ServiceStep,
        SetServiceStatus, process, scm, client, bounds
<1>1. CASE LoadLog
  BY <1>1 DEF LoadLog, NoProcess
<1>2. CASE Connect \/ HandlerEntered \/ WritePending \/ SendPending
  BY <1>2 DEF Connect, HandlerEntered, WritePending, SendPending
<1>3. CASE SetExitEvent \/ IgnoreControl \/ DispatcherReturns
  BY <1>3 DEF SetExitEvent, IgnoreControl, DispatcherReturns
<1>4. CASE UnloadLog \/ Crash
  BY <1>4 DEF UnloadLog, Crash, NoProcess
<1>5. CASE ServiceThread
  BY <1>5 DEF ServiceThread, CreateEvent, RegisterHandler, WriteRunning,
     SendRunning, LaunchAppInSession, WaitForStop, WriteStopped, SendStopped,
     CloseEvent
<1>6. CASE OpenService
  BY <1>6 DEF OpenService
<1>7. CASE ControlService
  BY <1>7 DEF ControlService, StopAccepted
<1>8. CASE ControlReturns
  BY <1>8 DEF ControlReturns
<1>9. CASE QueryServiceStatus \/ QueryFails
  BY <1>9 DEF QueryServiceStatus, QueryFails
<1>10. CASE DeleteService \/ CloseServiceHandle
  BY <1>10 DEF DeleteService, CloseServiceHandle
<1>11. CASE StartService
  BY <1>11 DEF StartService
<1>12. CASE Shutdown \/ OtherControl
  BY <1>12 DEF Shutdown, OtherControl, Idle, StopAccepted
<1>13. CASE RemoveEntry
  BY <1>13 DEF RemoveEntry
<1>14. CASE UNCHANGED vars
  BY <1>14 DEF vars
<1> QED
  BY <1>1, <1>2, <1>3, <1>4, <1>5, <1>6, <1>7, <1>8, <1>9, <1>10, <1>11, <1>12, <1>13, <1>14
  DEF Next, MainThread, Uninstaller, Environment

\* So it holds in every reachable state.
LEMMA StopTrackedInvariant == Spec => []StopTracked
<1>1. Init => StopTracked
  BY DEF Init, StopTracked, Handling
<1> QED
  BY <1>1, NextStopTracked, PhasesInvariant, PTL DEF Spec

\* DeleteService comes after the stop it waited for (main.cpp:113-138).
THEOREM DeletesLast == Spec => DeletesStoppedService
<1>1. Phases /\ StopTracked /\ [Next]_vars =>
        [entry = "present" /\ entry' = "marked" /\ stopOf # 0 =>
           scmState = "stopped" \/ starts > stopOf]_vars
  <2> SUFFICES ASSUME Phases, StopTracked, Next,
                      entry = "present", entry' = "marked", stopOf # 0
               PROVE  scmState = "stopped" \/ starts > stopOf
    OBVIOUS
  <2>1. DeleteService
    BY DEF Next, MainThread, ServiceThread, Uninstaller, Environment, scm,
       LoadLog, Connect, HandlerEntered, WritePending, SendPending,
       SetExitEvent, IgnoreControl, DispatcherReturns, UnloadLog, CreateEvent,
       RegisterHandler, WriteRunning, SendRunning, LaunchAppInSession,
       WaitForStop, WriteStopped, SendStopped, CloseEvent, OpenService,
       ControlService, ControlReturns, QueryServiceStatus, QueryFails,
       CloseServiceHandle,
       StartService, Crash, Shutdown, OtherControl, RemoveEntry
  <2> QED
    BY <2>1 DEF DeleteService, StopTracked, Phases, TypeOK
<1> QED
  BY <1>1, StopTrackedInvariant, PhasesInvariant, PTL DEF Spec, DeletesStoppedService
-----------------------------------------------------------------------------
(***************************************************************************)
(* The entry of the service and its installers                             *)
(***************************************************************************)
InstallerLabels == Holding \cup {"begin", "create", "done"}

\* A handle keeps the entry in the database, so what a run has set through its
\* handle is still set as long as it has that handle.
HandlesHold ==
  \A i \in Installers :
    /\ installer[i] \in Holding => entry # "absent"
    /\ installer[i] = "flag" /\ entry = "present" => "actions" \in protection

InstallInv ==
  /\ entry \in {"present", "marked", "absent"}
  /\ installer \in [Installers -> InstallerLabels]
  /\ protection \subseteq FailureSettings
  /\ HandlesHold
  /\ ProtectedUnlessInstalling

\* Service, SCM and uninstaller do nothing to the entry but mark or remove it.
LEMMA OthersEntry ==
  ASSUME Others
  PROVE  \/ UNCHANGED entry
         \/ entry = "present" /\ entry' = "marked"
         \/ entry' = "absent" /\ \A i \in Installers : installer[i] \notin Holding
<1>1. CASE MainThread
  BY <1>1 DEF MainThread, LoadLog, Connect, HandlerEntered, WritePending,
     SendPending, SetExitEvent, IgnoreControl, DispatcherReturns, UnloadLog, scm
<1>2. CASE ServiceThread
  BY <1>2 DEF ServiceThread, CreateEvent, RegisterHandler, WriteRunning,
     SendRunning, LaunchAppInSession, WaitForStop, WriteStopped, SendStopped,
     CloseEvent, scm
<1>3. CASE Uninstaller
  BY <1>3 DEF Uninstaller, OpenService, ControlService, ControlReturns,
     QueryServiceStatus, QueryFails, DeleteService, CloseServiceHandle, scm
<1>4. CASE Environment
  BY <1>4 DEF Environment, StartService, Crash, Shutdown, OtherControl, scm
<1>5. CASE RemoveEntry /\ \A i \in Installers : installer[i] \notin Holding
  BY <1>5 DEF RemoveEntry
<1> QED
  BY <1>1, <1>2, <1>3, <1>4, <1>5 DEF Others

\* Every step keeps the invariant.
LEMMA NextInstall ==
  ASSUME "protect" \notin InstallerFails, InstallInv, [InstallNext]_installVars
  PROVE  InstallInv'
<1> USE DEF InstallInv, HandlesHold, ProtectedUnlessInstalling, FailureSettings,
        InstallerLabels, Holding, InstallerGoto
<1>1. CASE Others
  BY <1>1, OthersEntry DEF Others
<1>2. ASSUME NEW i \in Installers, OpenOrCreate(i) PROVE InstallInv'
  BY <1>2 DEF OpenOrCreate, vars, scm
<1>3. ASSUME NEW i \in Installers, CreateService(i) PROVE InstallInv'
  BY <1>3 DEF CreateService
<1>4. ASSUME NEW i \in Installers, StartInstalled(i) PROVE InstallInv'
  <2>1. UNCHANGED entry
    BY <1>4 DEF StartInstalled, StartService, vars, scm
  <2> QED
    BY <1>4, <2>1 DEF StartInstalled
<1>5. ASSUME NEW i \in Installers, ChangeServiceConfig(i) \/ Describe(i) \/ CloseHandles(i)
      PROVE  InstallInv'
  BY <1>5 DEF ChangeServiceConfig, Describe, CloseHandles, Refused, vars, scm
<1>6. ASSUME NEW i \in Installers, Protect(i, "actions", "flag") PROVE InstallInv'
  BY <1>6 DEF Protect, Refused, vars, scm
<1>7. ASSUME NEW i \in Installers, Protect(i, "flag", "close") PROVE InstallInv'
  BY <1>7 DEF Protect, Refused, vars, scm
<1>8. CASE UNCHANGED installVars
  BY <1>8 DEF installVars, vars, scm
<1> QED
  BY <1>1, <1>2, <1>3, <1>4, <1>5, <1>6, <1>7, <1>8 DEF InstallNext, Installer

\* The entry is protected or a run is about to protect it, for any number of
\* installers, starts and crashes and whatever else fails, as long as the calls
\* for the failure settings work on an entry that is not marked for deletion
\* (main.cpp of InstallDriver, 93-181).
THEOREM InstallSafe ==
  ASSUME "protect" \notin InstallerFails
  PROVE  InstallSpec => []ProtectedUnlessInstalling
<1>1. InstallInit => InstallInv
  BY DEF InstallInit, Init, InstallInv, HandlesHold, ProtectedUnlessInstalling,
     FailureSettings, InstallerLabels, Holding
<1>2. InstallInv /\ [InstallNext]_installVars => InstallInv'
  BY NextInstall
<1>3. InstallInv => ProtectedUnlessInstalling
  BY DEF InstallInv
<1> QED
  BY <1>1, <1>2, <1>3, PTL DEF InstallSpec
-----------------------------------------------------------------------------
(***************************************************************************)
(* Of the crash dump DLL: the dump file and the overwritten entry point,   *)
(* for any number of threads that start, stop and fail.                    *)
(***************************************************************************)
DumpLabels ==
  DOMAIN StartNext \cup
    {"idle", "create", "write", "close", "execute", "abandon", "search", "torn"}

\* Whoever is there has the dump file open and has not written it, or has torn it.
Tearing == {"write", "abandon", "torn"}

\* The order of the calls, label by label.
LEMMA StartOrder ==
  /\ DOMAIN StartNext =
       {"save", "setFilter", "unprotect", "patch", "reprotect", "publish"}
  /\ StartNext["save"] = "setFilter" /\ StartNext["setFilter"] = "unprotect"
  /\ StartNext["unprotect"] = "patch" /\ StartNext["patch"] = "reprotect"
  /\ StartNext["reprotect"] = "publish" /\ StartNext["publish"] = "idle"
BY DEF StartNext

Typed == pc \in [Threads -> DumpLabels]

\* Whoever is done with the file has left it whole, unless it was opened again.
DumpKept ==
  /\ \A t \in Threads : pc[t] = "close" => dump = "whole"
  /\ (\E t \in Threads : pc[t] = "execute") =>
        dump = "whole" \/ \E t \in Threads : pc[t] \in Tearing

\* A live process in which a constructor is past RunDump has a filter.
FilterStands ==
  ended = "no" =>
    \A t \in Threads :
      pc[t] \in {"unprotect", "patch", "reprotect", "publish"} => filter # "system" \/ removed

DumpInv ==
  /\ Typed
  /\ DumpExclusive
  /\ DumpKept
  /\ DumpWhole
  /\ FilterStands
  /\ FilterBeforeHook

\* A step that leaves alone the writers and the end of the process.
LEMMA OutsideDump ==
  ASSUME Typed, DumpExclusive, DumpKept, DumpWhole,
         NEW t \in Threads, NEW label,
         pc[t] \notin Tearing \cup {"close", "execute"},
         label \notin Tearing \cup {"close", "execute"},
         Goto(t, label) \/ UNCHANGED pc, UNCHANGED dump,
         ended' # "handled"
  PROVE  DumpExclusive' /\ DumpKept' /\ DumpWhole'
BY DEF Typed, DumpExclusive, DumpKept, DumpWhole, Writers, Tearing, Goto

\* Starting never opens the dump file.
LEMMA StartKeeps ==
  ASSUME DumpInv, NEW t \in Threads, Start(t)
  PROVE  DumpInv'
<1> USE StartOrder DEF DumpInv, Typed, DumpLabels, Step
<1>1. Typed'
  BY DEF Start, StartCrashDump, SetInvalidHandle, RunDump, EntryNotFound, Unprotect, Patch,
     Reprotect, PublishDump, Goto
<1>2. DumpExclusive' /\ DumpKept' /\ DumpWhole'
  <2> DEFINE Kept(label) == /\ UNCHANGED dump /\ ended' # "handled"
                            /\ pc[t] \notin Tearing \cup {"close", "execute"}
                            /\ label \notin Tearing \cup {"close", "execute"}
                            /\ Goto(t, label)
  <2> USE DEF Tearing
  <2>2. CASE StartCrashDump(t)
    <3>1. Kept("save")
      BY <2>2 DEF StartCrashDump
    <3> QED
      BY <3>1, OutsideDump
  <2>3. CASE SetInvalidHandle(t)
    <3>1. Kept("setFilter")
      BY <2>3 DEF SetInvalidHandle
    <3> QED
      BY <3>1, OutsideDump
  <2>4. CASE RunDump(t)
    <3>1. Kept("unprotect")
      BY <2>4 DEF RunDump, SetFilter
    <3> QED
      BY <3>1, OutsideDump
  <2>5. CASE EntryNotFound(t)
    <3>1. Kept("publish")
      BY <2>5 DEF EntryNotFound
    <3> QED
      BY <3>1, OutsideDump
  <2>6. CASE Unprotect(t)
    <3>1. Kept("patch")
      BY <2>6 DEF Unprotect
    <3> QED
      BY <3>1, OutsideDump
  <2>7. CASE Patch(t)
    <3>1. Kept("reprotect")
      BY <2>7 DEF Patch
    <3> QED
      BY <3>1, OutsideDump
  <2>8. CASE Reprotect(t)
    <3>1. Kept("publish")
      BY <2>8 DEF Reprotect
    <3> QED
      BY <3>1, OutsideDump
  <2>9. CASE PublishDump(t)
    <3>1. Kept("idle")
      BY <2>9 DEF PublishDump
    <3> QED
      BY <3>1, OutsideDump
  <2> QED
    BY <2>2, <2>3, <2>4, <2>5, <2>6, <2>7, <2>8, <2>9 DEF Start
<1>3. FilterStands' /\ FilterBeforeHook'
  <2> USE DEF FilterStands, FilterBeforeHook, Goto
  <2>1. CASE RunDump(t)
    BY <2>1 DEF RunDump, SetFilter, hook, filters
  <2>2. CASE StartCrashDump(t) \/ SetInvalidHandle(t)
    BY <2>2 DEF StartCrashDump, SetInvalidHandle, hook, filters
  <2>3. CASE EntryNotFound(t) \/ Unprotect(t) \/ Patch(t) \/ Reprotect(t) \/ PublishDump(t)
    BY <2>3 DEF EntryNotFound, Unprotect, Patch, Reprotect, PublishDump, hook, filters
  <2> QED
    BY <2>1, <2>2, <2>3 DEF Start
<1> QED
  BY <1>1, <1>2, <1>3

\* The filter keeps the dump file to one thread.
LEMMA FilterKeeps ==
  ASSUME DumpInv, NEW t \in Threads, Filter(t)
  PROVE  DumpInv'
<1> USE DEF DumpInv, Typed, DumpLabels, Goto
<1>1. Typed' /\ FilterStands' /\ FilterBeforeHook'
  BY DEF Filter, Fail, CreateDump, WriteDump, CloseDump, ContinueSearch,
     ExecuteHandler, FilterStands, FilterBeforeHook, hook, filters
<1>2. DumpExclusive' /\ DumpKept' /\ DumpWhole'
  <2> USE DEF DumpExclusive, DumpKept, DumpWhole, Writers, Tearing
  <2>1. CASE Fail(t)
    BY <2>1 DEF Fail
  <2>2. CASE CreateDump(t)
    BY <2>2 DEF CreateDump
  <2>3. CASE WriteDump(t)
    BY <2>3 DEF WriteDump
  <2>4. CASE CloseDump(t)
    BY <2>4 DEF CloseDump
  <2>5. CASE ExecuteHandler(t)
    BY <2>5 DEF ExecuteHandler
  <2>6. CASE ContinueSearch(t)
    BY <2>6 DEF ContinueSearch
  <2> QED
    BY <2>1, <2>2, <2>3, <2>4, <2>5, <2>6 DEF Filter
<1> QED
  BY <1>1, <1>2

\* Every step keeps the invariant.
LEMMA NextDump ==
  ASSUME DumpInv, [DumpNext]_dumpVars
  PROVE  DumpInv'
<1>1. ASSUME NEW t \in Threads, Start(t) PROVE DumpInv'
  BY <1>1, StartKeeps
<1>2. ASSUME NEW t \in Threads, Filter(t) PROVE DumpInv'
  BY <1>2, FilterKeeps
<1>3. ASSUME NEW t \in Threads, StopCrashDump(t) PROVE DumpInv'
  BY <1>3 DEF StopCrashDump, DumpInv, Typed, DumpExclusive, DumpKept, DumpWhole,
     Writers, Tearing, FilterStands, FilterBeforeHook, hook, filters
<1>4. CASE OtherHandler
  BY <1>4 DEF OtherHandler, DumpInv, Typed, DumpExclusive,
     DumpKept, DumpWhole, Writers, Tearing, FilterStands, FilterBeforeHook, hook, filters
<1>6. ASSUME NEW new \in {"other", "system"}, SetFilter(new), others' = others + 1,
             UNCHANGED <<pc, objects, handlers, hook, dump, starters>>
      PROVE  DumpInv'
  <2>1. Typed'
    BY <1>6 DEF SetFilter, DumpInv, Typed, DumpLabels, objects, handlers, filters, hook
  <2>2. FilterStands' /\ FilterBeforeHook'
    BY <1>6 DEF SetFilter, DumpInv, Typed, FilterStands, FilterBeforeHook, filters, hook
  <2>3. ended' # "handled" \/ ended' = ended
    BY <1>6 DEF SetFilter
  <2>4. DumpExclusive' /\ DumpKept' /\ DumpWhole'
    BY <1>6, <2>3 DEF DumpInv, DumpExclusive, DumpKept, DumpWhole, Writers, Tearing
  <2> QED
    BY <2>1, <2>2, <2>4 DEF DumpInv
<1>5. CASE UNCHANGED dumpVars
  BY <1>5 DEF dumpVars, DumpInv, Typed, DumpExclusive, DumpKept, DumpWhole, Writers,
     Tearing, FilterStands, FilterBeforeHook, hook, filters
<1> QED
  BY <1>1, <1>2, <1>3, <1>4, <1>5, <1>6 DEF DumpNext, OtherFilter

\* The invariant holds in every reachable state.
THEOREM DumpInvariant == DumpSpec => []DumpInv
<1>1. DumpInit => DumpInv
  BY DEF DumpInit, DumpInv, Typed, DumpLabels, DumpExclusive, DumpKept, DumpWhole, Writers,
     Tearing, FilterStands, FilterBeforeHook
<1>2. DumpInv /\ [DumpNext]_dumpVars => DumpInv'
  BY NextDump
<1> QED
  BY <1>1, <1>2, PTL DEF DumpSpec

\* One thread at a time has the dump file open, and a process that the filter ends as handled
\* leaves a whole dump, or one that another failing thread has truncated and was about to
\* write or could not write (CMinidump.cpp:105-125).
THEOREM DumpSafe == DumpSpec => []DumpIntact
<1>1. DumpInv => DumpIntact
  BY DEF DumpInv, DumpIntact
<1> QED
  BY <1>1, DumpInvariant, PTL

\* The entry point is overwritten only when a filter stands, or other code has set a null one
\* (CMinidump.cpp:142-143).
THEOREM HookAfterFilter == DumpSpec => []FilterBeforeHook
<1>1. DumpInv => FilterBeforeHook
  BY DEF DumpInv
<1> QED
  BY <1>1, DumpInvariant, PTL
-----------------------------------------------------------------------------
(***************************************************************************)
(* One user: a single thread calls StartCrashDump and StopCrashDump.       *)
(***************************************************************************)
Constructing == {"setFilter", "unprotect", "patch", "reprotect", "publish"}

\* The page is writable only between the two calls of VirtualProtect, and goes
\* back to what it was; the object keeps the handler from before the takeover.
UserInv ==
  /\ Typed
  /\ oldFlag \in [Threads -> {"exec", "rw", "none"}]
  /\ pWinDump \in Threads \cup {Null}
  /\ saved \in [Threads -> Handlers]
  /\ \A t \in Threads : pc[t] \in Constructing \cup {"save"} => t \in starters
  /\ page \in {"exec", "rw"}
  /\ failed \/ page = "exec" \/ \E t \in Threads : pc[t] \in {"patch", "reprotect"}
  /\ \A t \in Threads : pc[t] \in {"patch", "reprotect"} => failed \/ oldFlag[t] = "exec"
  /\ \A t \in Threads : pc[t] = "save" => before = "none"
  /\ \A t \in Threads : pc[t] \in Constructing =>
        saved[t] = before /\ before # "none" /\ pWinDump = Null
  /\ pWinDump # Null => saved[pWinDump] = before /\ before # "none"
  /\ handler \in Handlers
  /\ before # "none" => pWinDump # Null \/ \E t \in Threads : pc[t] \in Constructing

\* Every step of the one user, and of everybody else, keeps it.
LEMMA NextUser ==
  ASSUME OneUser, UserInv, [DumpNext]_dumpVars
  PROVE  UserInv'
<1>0. UNCHANGED starters
  BY DEF DumpNext, dumpVars
<1> USE StartOrder, ThreadsAssumption, <1>0
    DEF OneUser, UserInv, Typed, DumpLabels, Constructing, Step, Goto, Handlers,
        objects, handlers, filters, hook
<1>1. ASSUME NEW t \in Threads, StartCrashDump(t) PROVE UserInv'
  BY <1>1 DEF StartCrashDump
<1>2. ASSUME NEW t \in Threads, SetInvalidHandle(t) PROVE UserInv'
  BY <1>2 DEF SetInvalidHandle
<1>3. ASSUME NEW t \in Threads, RunDump(t) PROVE UserInv'
  BY <1>3 DEF RunDump
<1>4. ASSUME NEW t \in Threads, Unprotect(t) PROVE UserInv'
  <2>1. /\ pc[t] = "unprotect"
        /\ pc' = [pc EXCEPT ![t] = "patch"]
        /\ UNCHANGED <<pWinDump, saved, handler, before>>
        /\ page' \in {"exec", "rw"}
    BY <1>4 DEF Unprotect
  <2>2. t \in starters /\ saved[t] = before /\ before # "none" /\ pWinDump = Null
    BY <2>1
  <2>3. \A u \in Threads : pc[u] \in Constructing \cup {"save"} => u = t
    BY <2>2
  <2>4. pc'[t] = "patch" /\ \A u \in Threads : u # t => pc'[u] = pc[u]
    BY <2>1
  <2>5. \A u \in Threads : u # t => pc'[u] \notin Constructing \cup {"save"}
    BY <2>3, <2>4
  <2>6. failed \/ page = "exec"
    BY <2>1, <2>3
  <2>7. \E flag \in {"exec", "rw", "none"} :
          /\ oldFlag' = [oldFlag EXCEPT ![t] = flag]
          /\ failed' \/ flag = "exec"
    BY <1>4, <2>6 DEF Unprotect
  <2>8. Typed' /\ oldFlag' \in [Threads -> {"exec", "rw", "none"}] /\ (failed' \/ oldFlag'[t] = "exec")
    BY <2>1, <2>7
  <2>9. \A u \in Threads : pc'[u] \in {"patch", "reprotect"} => failed' \/ oldFlag'[u] = "exec"
    BY <2>5, <2>8
  <2>10. failed' \/ page' = "exec" \/ \E u \in Threads : pc'[u] \in {"patch", "reprotect"}
    BY <2>4
  <2>11. \A u \in Threads : pc'[u] = "save" => FALSE
    BY <2>4, <2>5
  <2>12. /\ \A u \in Threads : pc'[u] \in Constructing \cup {"save"} => u \in starters'
         /\ \A u \in Threads : pc'[u] \in Constructing =>
              saved'[u] = before' /\ before' # "none" /\ pWinDump' = Null
    BY <2>1, <2>2, <2>5
  <2>13. /\ \A u \in Threads : pc'[u] = "save" => before' = "none"
         /\ \E u \in Threads : pc'[u] \in Constructing
    BY <2>4, <2>11
  <2> QED
    BY <2>1, <2>2, <2>8, <2>9, <2>10, <2>12, <2>13
<1>12. ASSUME NEW t \in Threads, EntryNotFound(t) PROVE UserInv'
  BY <1>12 DEF EntryNotFound
<1>5. ASSUME NEW t \in Threads, Patch(t) PROVE UserInv'
  BY <1>5 DEF Patch
<1>6. ASSUME NEW t \in Threads, Reprotect(t) PROVE UserInv'
  <2>1. /\ failed' \/ page' = "exec"
        /\ failed => failed'
        /\ pc' = [pc EXCEPT ![t] = "publish"]
        /\ pc[t] = "reprotect"
    BY <1>6 DEF Reprotect
  <2>2. /\ UNCHANGED <<pWinDump, saved, handler, before>> /\ page' \in {"exec", "rw"}
        /\ oldFlag' = [oldFlag EXCEPT ![t] = "none"]
    BY <1>6 DEF Reprotect
  <2>3. \A u \in Threads : u # t => pc'[u] = pc[u]
    BY <2>1
  <2>4. pc'[t] = "publish"
    BY <2>1
  <2>5. Typed' /\ oldFlag' \in [Threads -> {"exec", "rw", "none"}]
    BY <2>1, <2>2
  <2>6. t \in starters /\ saved[t] = before /\ before # "none" /\ pWinDump = Null
    BY <2>1
  <2>7. \A u \in Threads : pc[u] \in Constructing \cup {"save"} => u = t
    BY <2>6
  <2>8. \A u \in Threads : u # t => pc'[u] \notin Constructing \cup {"save"}
    BY <2>3, <2>7
  <2> QED
    BY <2>1, <2>2, <2>4, <2>5, <2>6, <2>8
<1>7. ASSUME NEW t \in Threads, PublishDump(t) PROVE UserInv'
  BY <1>7 DEF PublishDump
<1>8. ASSUME NEW t \in Threads, StopCrashDump(t) PROVE UserInv'
  BY <1>8 DEF StopCrashDump
<1>9. ASSUME NEW t \in Threads, Filter(t) PROVE UserInv'
  BY <1>9 DEF Filter, Fail, CreateDump, WriteDump, CloseDump, ContinueSearch, ExecuteHandler
<1>10. CASE OtherHandler \/ OtherFilter
  BY <1>10 DEF OtherHandler, OtherFilter
<1>11. CASE UNCHANGED dumpVars
  BY <1>11 DEF dumpVars
<1> QED
  BY <1>1, <1>2, <1>3, <1>4, <1>5, <1>6, <1>7, <1>8, <1>9, <1>10, <1>11, <1>12
  DEF DumpNext, Start

\* With one user the invariant holds in every reachable state.
LEMMA UserInvariant == DumpSpec => [](OneUser => UserInv)
<1>1. DumpInit => (OneUser => UserInv)
  <2> SUFFICES ASSUME DumpInit PROVE UserInv
    OBVIOUS
  <2>1. \A t \in Threads : pc[t] = "idle"
    BY DEF DumpInit
  <2>2. Typed /\ oldFlag \in [Threads -> {"exec", "rw", "none"}] /\ saved \in [Threads -> Handlers]
    BY DEF DumpInit, Typed, DumpLabels, Handlers
  <2>3. page = "exec" /\ pWinDump = Null /\ before = "none" /\ handler = "crt"
    BY DEF DumpInit
  <2> QED
    BY <2>1, <2>2, <2>3 DEF UserInv, Constructing, Handlers
<1>2. (OneUser => UserInv) /\ [DumpNext]_dumpVars => (OneUser => UserInv)'
  <2>1. [DumpNext]_dumpVars => UNCHANGED starters
    BY DEF DumpNext, dumpVars
  <2> QED
    BY <2>1, NextUser DEF OneUser
<1> QED
  BY <1>1, <1>2, PTL DEF DumpSpec

\* With one user the patched page ends up executable unless VirtualProtect fails (CMinidump.cpp:171-173).
THEOREM PageExecutable == DumpSpec => []EntryExecutable
<1>1. (OneUser => UserInv) => EntryExecutable
  BY DEF UserInv, EntryExecutable
<1> QED
  BY <1>1, UserInvariant, PTL

\* With one user a stop restores the handler from before the takeover, whatever
\* other code has set meanwhile (CMinidump.cpp:46-52, 85-91).
THEOREM HandlerRestored == DumpSpec => RestoresHandler
<1>1. (OneUser => UserInv) /\ [DumpNext]_dumpVars =>
        [OneUser /\ deleted = {} /\ deleted' # {} => handler' = before]_dumpVars
  <2> SUFFICES ASSUME UserInv, [DumpNext]_dumpVars, deleted = {}, deleted' # {}
               PROVE  handler' = before
    OBVIOUS
  <2>1. PICK t \in Threads : StopCrashDump(t)
    BY DEF DumpNext, Start, StartCrashDump, SetInvalidHandle, RunDump, EntryNotFound, Unprotect, Patch,
       Reprotect, PublishDump, Filter, Fail, CreateDump, WriteDump, CloseDump,
       ContinueSearch, ExecuteHandler, OtherHandler, OtherFilter, dumpVars, objects
  <2> QED
    BY <2>1 DEF StopCrashDump, UserInv
<1> QED
  BY <1>1, UserInvariant, PTL DEF DumpSpec, RestoresHandler
=============================================================================
