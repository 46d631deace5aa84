---------------------------- MODULE GuestService ----------------------------
(***************************************************************************)
(* The service of vTopGuestAgent/main.cpp and its uninstaller, under the   *)
(* service control manager (SCM) of Windows.                               *)
(*                                                                         *)
(* Two threads run in the service process.  The main thread is the control *)
(* dispatcher once it has called StartServiceCtrlDispatcherA: it runs      *)
(* ServiceControlHandler for each control, and comes back when the service *)
(* has stopped.  The service thread runs ServiceMain.  They share, without *)
(* a lock, the static _ServiceStatus and the event _hServiceExitEvent.     *)
(* The uninstaller is a second process of the same program, run with -u.   *)
(*                                                                         *)
(* The SCM is modelled from how the program uses it (external): one        *)
(* control at a time; stop and shutdown only while the recorded state is   *)
(* running; a service entry marked for deletion goes once the service is   *)
(* stopped and every handle on it is closed.                               *)
(***************************************************************************)
EXTENDS Integers

CONSTANTS
  CallsMayFail,  \* system calls of the service and the uninstaller may fail
  MaxStarts,     \* bound: how often the service is started
  MaxCrashes     \* bound: how often its process dies

ASSUME BoundAssumption ==
  /\ CallsMayFail \in BOOLEAN
  /\ MaxStarts \in Nat
  /\ MaxCrashes \in Nat

VARIABLES
  entry,       \* the SCM's database entry of the service
  scmState,    \* the state the SCM has recorded for it
  main,        \* where the main thread of the service process is
  service,     \* where the service thread is
  status,      \* _ServiceStatus.dwCurrentState in the service process
  event,       \* _hServiceExitEvent and what it refers to
  uninstaller, \* where the uninstaller is
  seen,        \* _ServiceStatus.dwCurrentState in the uninstaller
  starts,      \* history: starts of the service so far
  crashes,     \* history: deaths of its process so far
  stopOf       \* history: the start the uninstaller's stop was delivered to

process == <<main, service, status, event>>
scm == <<entry, scmState>>
client == <<uninstaller, seen, stopOf>>
bounds == <<starts, crashes>>
vars == <<process, scm, client, bounds>>
-----------------------------------------------------------------------------
(***************************************************************************)
(* The order of the calls, one label per step.  A call that fails leaves   *)
(* ServiceMain or ServiceUninstall early; those jumps are in the actions.  *)
(***************************************************************************)

\* A slip: SetEvent stands before the report.
HandlerSignalsFirst ==
  [entered |-> "setEvent", setEvent |-> "writePending",
   writePending |-> "sendPending", sendPending |-> "dispatch"]

\* A slip: the new state is not sent.
HandlerSendsNothing ==
  [entered |-> "writePending", writePending |-> "setEvent",
   sendPending |-> "setEvent", setEvent |-> "dispatch"]

\* The stop and shutdown cases of ServiceControlHandler.
HandlerNext ==
  [entered |-> "writePending", writePending |-> "sendPending",
   sendPending |-> "setEvent", setEvent |-> "dispatch"]

\* A slip: STOPPED is never sent.
ServiceNeverReports ==
  [createEvent |-> "init", init |-> "writeRunning",
   writeRunning |-> "sendRunning", sendRunning |-> "launch", launch |-> "wait",
   wait |-> "closeEvent", writeStopped |-> "sendStopped",
   sendStopped |-> "closeEvent", closeEvent |-> "returned"]

\* ServiceMain and ServiceInit.
ServiceNext ==
  [createEvent |-> "init", init |-> "writeRunning",
   writeRunning |-> "sendRunning", sendRunning |-> "launch", launch |-> "wait",
   wait |-> "writeStopped", writeStopped |-> "sendStopped",
   sendStopped |-> "closeEvent", closeEvent |-> "returned"]

MainGoto(label) == main' = label
ServiceGoto(label) == service' = label
UninstallerGoto(label) == uninstaller' = label

ServiceStep(label) ==
  /\ service = label
  /\ ServiceGoto(ServiceNext[label])

Handling == {"entered", "writePending", "sendPending", "setEvent", "other"}

HandlerStep(label) ==
  /\ main = label
  /\ MainGoto(HandlerNext[label])
-----------------------------------------------------------------------------
(***************************************************************************)
(* The SCM and the process (external).                                     *)
(***************************************************************************)

\* What is left in the process's memory when there is no process.
NoProcess ==
  /\ main' = "none"
  /\ service' = "none"
  /\ status' = "none"
  /\ event' = "null"

\* At boot, by an administrator, or as a failure action.
StartService ==
  /\ starts < MaxStarts
  /\ entry = "present"
  /\ scmState = "stopped"
  /\ main = "none"
  /\ starts' = starts + 1
  /\ scmState' = "startPending"
  /\ MainGoto("load")
  /\ UNCHANGED <<service, status, event, entry, client, crashes>>

\* The process dies.  The SCM notices and records the service as stopped.
Crash ==
  /\ crashes < MaxCrashes
  /\ main # "none"
  /\ crashes' = crashes + 1
  /\ NoProcess
  /\ scmState' = "stopped"
  /\ UNCHANGED <<entry, client, starts>>

SetServiceStatus == scmState' = status

\* The SCM sends one control after the other, and this one is accepted.
Idle == main = "dispatch" /\ uninstaller # "stopping"
StopAccepted == main = "dispatch" /\ scmState = "running"

Shutdown ==
  /\ Idle /\ StopAccepted
  /\ MainGoto("entered")
  /\ UNCHANGED <<service, status, event, scm, client, bounds>>

OtherControl ==
  /\ Idle
  /\ scmState # "stopped"
  /\ MainGoto("other")
  /\ UNCHANGED <<service, status, event, scm, client, bounds>>

RemoveEntry ==
  /\ entry = "marked"
  /\ scmState = "stopped"
  /\ uninstaller \in {"begin", "done"}
  /\ entry' = "absent"
  /\ UNCHANGED <<process, scmState, client, bounds>>
-----------------------------------------------------------------------------
(***************************************************************************)
(* The main thread: main and ServiceControlHandler.                        *)
(***************************************************************************)

\* main returns at once when LoadLogModule fails.
LoadLog ==
  /\ main = "load"
  /\ \/ /\ MainGoto("connect")
        /\ UNCHANGED <<service, status, event, scmState>>
     \/ /\ CallsMayFail
        /\ NoProcess
        /\ scmState' = "stopped"
  /\ UNCHANGED <<entry, client, bounds>>

\* StartServiceCtrlDispatcherA, which creates the service thread or fails.
Connect ==
  /\ main = "connect"
  /\ \/ /\ MainGoto("dispatch")
        /\ ServiceGoto("createEvent")
     \/ /\ CallsMayFail
        /\ MainGoto("unload")
        /\ UNCHANGED service
  /\ UNCHANGED <<status, event, scm, client, bounds>>

\* The handler logs the request first.
HandlerEntered ==
  /\ HandlerStep("entered")
  /\ UNCHANGED <<service, status, event, scm, client, bounds>>

\* ServiceControlManagerUpdate(0, SERVICE_STOP_PENDING), its two statements.
WritePending ==
  /\ HandlerStep("writePending")
  /\ status' = "stopPending"
  /\ UNCHANGED <<service, event, scm, client, bounds>>

SendPending ==
  /\ HandlerStep("sendPending")
  /\ SetServiceStatus
  /\ UNCHANGED <<service, status, event, entry, client, bounds>>

\* A slip: PulseEvent, which is lost on a thread that does not wait yet.
PulseExitEvent ==
  /\ HandlerStep("setEvent")
  /\ event' = IF event = "reset" /\ service = "wait" THEN "set" ELSE event
  /\ UNCHANGED <<service, status, scm, client, bounds>>

\* An auto-reset event stays set until somebody has waited for it.
SetExitEvent ==
  /\ HandlerStep("setEvent")
  /\ event' = IF event \in {"reset", "set"} THEN "set" ELSE event
  /\ UNCHANGED <<service, status, scm, client, bounds>>

\* The default case of ServiceControlHandler only logs.
IgnoreControl ==
  /\ main = "other"
  /\ MainGoto("dispatch")
  /\ UNCHANGED <<service, status, event, scm, client, bounds>>

\* StartServiceCtrlDispatcherA returns: the SCM has recorded SERVICE_STOPPED.
DispatcherReturns ==
  /\ main = "dispatch"
  /\ scmState = "stopped"
  /\ MainGoto("unload")
  /\ UNCHANGED <<service, status, event, scm, client, bounds>>

\* UnloadLogModule, and main returns: the process ends with all its threads.
UnloadLog ==
  /\ main = "unload"
  /\ NoProcess
  /\ scmState' = "stopped"
  /\ UNCHANGED <<entry, client, bounds>>
-----------------------------------------------------------------------------
(***************************************************************************)
(* The service thread: ServiceMain, ServiceInit.                           *)
(***************************************************************************)

\* A ServiceMain that fails returns without reporting anything to the SCM.
ServiceFails(label) ==
  /\ CallsMayFail
  /\ service = label
  /\ ServiceGoto("returned")

CreateEvent ==
  /\ \/ ServiceStep("createEvent") /\ event' = "reset"
     \/ ServiceFails("createEvent") /\ UNCHANGED event
  /\ UNCHANGED <<main, status, scm, client, bounds>>

\* ServiceInit, up to RegisterServiceCtrlHandlerA.
RegisterHandler ==
  /\ ServiceStep("init") \/ ServiceFails("init")
  /\ status' = "startPending"
  /\ UNCHANGED <<main, event, scm, client, bounds>>

WriteRunning ==
  /\ ServiceStep("writeRunning")
  /\ status' = "running"
  /\ UNCHANGED <<main, event, scm, client, bounds>>

SendRunning ==
  /\ ServiceStep("sendRunning")
  /\ SetServiceStatus
  /\ UNCHANGED <<main, status, event, entry, client, bounds>>

\* However LaunchAppInSession ends, it touches nothing that is shared.
LaunchAppInSession ==
  /\ ServiceStep("launch")
  /\ UNCHANGED <<main, status, event, scm, client, bounds>>

WaitForStop ==
  /\ event = "set"
  /\ ServiceStep("wait")
  /\ event' = "reset"
  /\ UNCHANGED <<main, status, scm, client, bounds>>

\* ServiceControlManagerUpdate(0, SERVICE_STOPPED), its two statements.
WriteStopped ==
  /\ ServiceStep("writeStopped")
  /\ status' = "stopped"
  /\ UNCHANGED <<main, event, scm, client, bounds>>

SendStopped ==
  /\ ServiceStep("sendStopped")
  /\ SetServiceStatus
  /\ UNCHANGED <<main, status, event, entry, client, bounds>>

CloseEvent ==
  /\ ServiceStep("closeEvent")
  /\ event' = "closed"
  /\ UNCHANGED <<main, status, scm, client, bounds>>
-----------------------------------------------------------------------------
(***************************************************************************)
(* The uninstaller: ServiceUninstall.                                      *)
(***************************************************************************)

\* OpenSCManagerA and OpenServiceA.
OpenService ==
  /\ uninstaller = "begin"
  /\ \/ entry # "absent" /\ UninstallerGoto("control")
     \/ (entry = "absent" \/ CallsMayFail) /\ UninstallerGoto("done")
  /\ UNCHANGED <<process, scm, seen, stopOf, bounds>>

\* ControlService(SERVICE_CONTROL_STOP) waits its turn and is delivered, or
\* is refused because the service does not run.
ControlService ==
  /\ uninstaller = "control"
  /\ main \notin Handling
  /\ \/ /\ StopAccepted
        /\ MainGoto("entered")
        /\ UninstallerGoto("stopping")
        /\ stopOf' = starts
     \/ /\ ~ StopAccepted \/ CallsMayFail
        /\ UninstallerGoto("delete")
        /\ UNCHANGED <<main, stopOf>>
  /\ UNCHANGED <<service, status, event, scm, seen, bounds>>

\* It returns when the handler has returned.  When the handler takes too long
\* or its process dies, ControlService fails and the loop is skipped.
ControlReturns ==
  /\ uninstaller = "stopping"
  /\ \/ /\ main \notin Handling
        /\ UninstallerGoto("query")
        /\ UNCHANGED stopOf
     \/ /\ CallsMayFail \/ main = "none"
        /\ UninstallerGoto("delete")
        /\ stopOf' = 0
  /\ UNCHANGED <<process, scm, seen, bounds>>

\* A slip: the state is asked for once only.
QueryOnce ==
  /\ uninstaller = "query"
  /\ seen' = scmState
  /\ UninstallerGoto("delete")
  /\ UNCHANGED <<process, scm, bounds, stopOf>>

\* Sleep(1000) and QueryServiceStatus, again as long as the stop is pending.
QueryServiceStatus ==
  /\ uninstaller = "query"
  /\ seen' = scmState
  /\ UninstallerGoto(IF seen' = "stopPending" THEN "query" ELSE "delete")
  /\ UNCHANGED <<process, scm, bounds, stopOf>>

QueryFails ==
  /\ CallsMayFail
  /\ uninstaller = "query"
  /\ UninstallerGoto("delete")
  /\ stopOf' = 0
  /\ UNCHANGED <<process, scm, bounds, seen>>

DeleteService ==
  /\ uninstaller = "delete"
  /\ \/ entry' = IF entry = "present" THEN "marked" ELSE entry
     \/ CallsMayFail /\ UNCHANGED entry
  /\ UninstallerGoto("close")
  /\ UNCHANGED <<process, scmState, seen, stopOf, bounds>>

CloseServiceHandle ==
  /\ uninstaller = "close"
  /\ UninstallerGoto("done")
  /\ UNCHANGED <<process, scm, seen, stopOf, bounds>>
-----------------------------------------------------------------------------
\* The service is installed or not, and nothing runs.
Init ==
  /\ entry \in {"present", "absent"}
  /\ scmState = "stopped"
  /\ main = "none"
  /\ service = "none"
  /\ status = "none"
  /\ event = "null"
  /\ uninstaller = "begin"
  /\ seen = "none"
  /\ starts = 0
  /\ crashes = 0
  /\ stopOf = 0

MainThread ==
  \/ LoadLog \/ Connect \/ HandlerEntered \/ WritePending \/ SendPending
  \/ SetExitEvent \/ IgnoreControl \/ DispatcherReturns \/ UnloadLog

ServiceThread ==
  \/ CreateEvent \/ RegisterHandler \/ WriteRunning \/ SendRunning
  \/ LaunchAppInSession \/ WaitForStop \/ WriteStopped \/ SendStopped
  \/ CloseEvent

Uninstaller ==
  \/ OpenService \/ ControlService \/ ControlReturns
  \/ QueryServiceStatus \/ QueryFails \/ DeleteService \/ CloseServiceHandle

Environment == StartService \/ Crash \/ Shutdown \/ OtherControl

Next == MainThread \/ ServiceThread \/ Uninstaller \/ Environment \/ RemoveEntry

Spec == Init /\ [][Next]_vars

\* What the uninstaller does next, except to run into a failing query.
UninstallerProceeds ==
  \/ ControlReturns \/ QueryServiceStatus \/ DeleteService \/ CloseServiceHandle

\* Threads are scheduled and the SCM does its work.  Nobody has to start the
\* service, kill it or send it a control, or run the uninstaller, and no query
\* has to fail.  ControlService times out if the handler does not return.
Fairness ==
  /\ WF_vars(MainThread)
  /\ WF_vars(ServiceThread)
  /\ SF_vars(ControlService)
  /\ WF_vars(UninstallerProceeds)
  /\ WF_vars(RemoveEntry)

FairSpec == Spec /\ Fairness
-----------------------------------------------------------------------------
MainLabels == {"none", "load", "connect", "dispatch", "unload"} \cup Handling
ServiceLabels == DOMAIN ServiceNext \cup {"none", "returned"}
UninstallerLabels ==
  {"begin", "control", "stopping", "query", "delete", "close", "done"}

Lifecycle == INSTANCE ServiceLifecycle
  WITH state <- scmState, alive <- main # "none"

TypeOK ==
  /\ entry \in {"present", "marked", "absent"}
  /\ scmState \in Lifecycle!States
  /\ main \in MainLabels
  /\ service \in ServiceLabels
  /\ status \in Lifecycle!States \cup {"none"}
  /\ event \in {"null", "reset", "set", "closed"}
  /\ uninstaller \in UninstallerLabels
  /\ seen \in Lifecycle!States \cup {"none"}
  /\ starts \in Nat
  /\ crashes \in Nat
  /\ stopOf \in Nat
-----------------------------------------------------------------------------
\* The main thread and ServiceMain's do not overtake each other: whatever control
\* arrives, the handler finds _hServiceExitEvent created and not closed (main.cpp:161,
\* 177, 227, 233); and main does not return, which kills ServiceMain's thread, before
\* ServiceMain has reported that it stopped, unless the process could not become a
\* service (main.cpp:73-95).
ThreadsInStep ==
  /\ main = "setEvent" => event \in {"reset", "set"}
  /\ main = "unload" => service \in {"none", "closeEvent", "returned"}

\* The handler and ServiceMain both write _ServiceStatus and send it, without a
\* lock.  All the same the SCM never sees the service go back to an earlier
\* state, nor skip one while its process lives (main.cpp:212-213, 226-227, 176,
\* 244-249).
StatusInOrder == Lifecycle!Spec

\* When ControlService could stop the service, the service is deleted only
\* after it stopped, or it has been started anew (main.cpp:113-138).
DeletesStoppedService ==
  [][entry = "present" /\ entry' = "marked" /\ stopOf # 0 =>
       scmState = "stopped" \/ starts > stopOf]_vars

\* A stop that reaches the handler ends with a stopped service.
StopCompletes == main = "entered" ~> scmState = "stopped"

\* An uninstaller that has asked for the stop does not wait for ever.
UninstallerEnds == uninstaller = "control" ~> uninstaller = "done"
=============================================================================
