------------------------------ MODULE Minidump ------------------------------
(***************************************************************************)
(* The crash dump DLL, Minidump/, in a process with several threads.       *)
(*                                                                         *)
(* StartCrashDump creates the one WinMiniDump object.  Its constructor     *)
(* takes over the invalid parameter handler of the C runtime and the       *)
(* filter for unhandled exceptions, and overwrites the entry point of      *)
(* SetUnhandledExceptionFilter so that nobody else can set a filter.       *)
(* StopCrashDump destroys the object.  Nothing of this is locked.  The     *)
(* filter writes a dump file when a thread fails.                          *)
(*                                                                         *)
(* The purecall handler is saved and restored with the invalid parameter   *)
(* handler, by the statements next to it, and is not modelled apart.       *)
(***************************************************************************)
EXTENDS Naturals

CONSTANTS
  Threads,             \* the threads of the process
  Null,                \* the pointer to no object
  SystemCallsMayFail,  \* any of them, at any time
  MaxOther             \* bound: how often other code sets a handler or a filter

ASSUME ThreadsAssumption ==
  /\ Null \notin Threads
  /\ SystemCallsMayFail \in BOOLEAN
  /\ MaxOther \in Nat

VARIABLES
  starters,  \* the threads that call StartCrashDump and StopCrashDump
  pc,        \* where each thread is
  pWinDump,  \* _pWinDump: the object of the thread that created it
  deleted,   \* the objects that have been deleted
  saved,     \* m_preIph in each object
  handler,   \* the process's invalid parameter handler
  filter,    \* the process's filter for unhandled exceptions
  hooked,    \* SetUnhandledExceptionFilter has been overwritten
  page,      \* protection of the page it is on
  oldFlag,   \* dwOldFlag in each thread
  dump,      \* the dump file
  ended,     \* how the process ended
  before,    \* history: the handler at the first takeover
  others,    \* history: how often other code set a handler or filter
  removed,   \* history: the last filter that took effect was a null one
  failed     \* history: a VirtualProtect has failed

objects == <<pWinDump, deleted, saved>>
handlers == <<handler, before>>
filters == <<filter, removed>>
hook == <<hooked, page, oldFlag, failed>>
dumpVars == <<starters, pc, objects, handlers, filters, hook, dump, ended, others>>

Handlers == {"crt", "ours", "other"}
-----------------------------------------------------------------------------
\* A slip: the entry point is overwritten before the filter is set.
HookFirst ==
  [save |-> "unprotect", setFilter |-> "publish", unprotect |-> "patch",
   patch |-> "reprotect", reprotect |-> "setFilter", publish |-> "idle"]

\* The order of the calls in StartCrashDump and the constructor.
StartNext ==
  [save |-> "setFilter", setFilter |-> "unprotect", unprotect |-> "patch",
   patch |-> "reprotect", reprotect |-> "publish", publish |-> "idle"]

Goto(t, label) == pc' = [pc EXCEPT ![t] = label]
Step(t, label) ==
  /\ ended = "no"
  /\ pc[t] = label
  /\ Goto(t, StartNext[label])

Writers == {t \in Threads : pc[t] \in {"write", "close", "abandon"}}
-----------------------------------------------------------------------------
(***************************************************************************)
(* StartCrashDump                                                          *)
(***************************************************************************)

\* _pWinDump is looked at here and set in PublishDump.
StartCrashDump(t) ==
  /\ t \in starters
  /\ ended = "no"
  /\ pc[t] = "idle"
  /\ pWinDump = Null
  /\ Goto(t, "save")
  /\ UNCHANGED <<objects, handlers, filters, hook, dump, ended, others>>

\* A slip: the earlier handler is not kept.
HandlerNotSaved(t) ==
  /\ Step(t, "save")
  /\ handler' = "ours"
  /\ before' = IF before = "none" THEN handler ELSE before
  /\ UNCHANGED <<objects, filters, hook, dump, ended, others>>

\* SetInvalidHandle.
SetInvalidHandle(t) ==
  /\ Step(t, "save")
  /\ saved' = [saved EXCEPT ![t] = handler]
  /\ handler' = "ours"
  /\ before' = IF before = "none" THEN handler ELSE before
  /\ UNCHANGED <<pWinDump, deleted, filters, hook, dump, ended, others>>

\* SetUnhandledExceptionFilter: a call of a page that cannot be executed ends
\* the process, and the function that replaces it does nothing. No filter of its
\* own leaves the process with the system's.
SetFilter(new) ==
  \/ /\ page = "rw"
     /\ ended' = "fault"
     /\ UNCHANGED filters
  \/ /\ page = "exec" /\ ~ hooked
     /\ filter' = new
     /\ removed' = (new = "system")
     /\ UNCHANGED ended
  \/ /\ page = "exec" /\ hooked
     /\ UNCHANGED <<filters, ended>>

\* Run, its first statement.
RunDump(t) ==
  /\ Step(t, "setFilter")
  /\ SetFilter("ours")
  /\ UNCHANGED <<objects, handlers, hook, dump, others>>

\* PreventSetUnhandledExceptionFilter: without the address it gives up, and
\* Run does not look at its result.
EntryNotFound(t) ==
  /\ SystemCallsMayFail
  /\ ended = "no"
  /\ pc[t] = "unprotect"
  /\ Goto(t, "publish")
  /\ UNCHANGED <<objects, handlers, filters, hook, dump, ended, others>>

\* The first VirtualProtect. When it fails nobody notices, and dwOldFlag holds
\* whatever was on the stack: some protection, or none.
Unprotect(t) ==
  /\ Step(t, "unprotect")
  /\ \/ /\ oldFlag' = [oldFlag EXCEPT ![t] = page]
        /\ page' = "rw"
        /\ UNCHANGED failed
     \/ /\ SystemCallsMayFail
        /\ \E flag \in {"exec", "rw", "none"} : oldFlag' = [oldFlag EXCEPT ![t] = flag]
        /\ failed' = TRUE
        /\ UNCHANGED page
  /\ UNCHANGED <<objects, handlers, filters, hooked, dump, ended, others>>

\* WriteProcessMemory.
Patch(t) ==
  /\ Step(t, "patch")
  /\ \/ hooked' = TRUE
     \/ SystemCallsMayFail /\ UNCHANGED hooked
  /\ UNCHANGED <<objects, handlers, filters, page, oldFlag, failed, dump, ended, others>>

\* A slip: the page keeps its new protection.
ReprotectForgotten(t) ==
  /\ Step(t, "reprotect")
  /\ UNCHANGED <<objects, handlers, filters, hook, dump, ended, others>>

\* The second VirtualProtect. It fails when dwOldFlag is no protection; with it dwOldFlag
\* comes to its end.
Reprotect(t) ==
  /\ Step(t, "reprotect")
  /\ \/ /\ oldFlag[t] # "none"
        /\ page' = oldFlag[t]
        /\ UNCHANGED failed
     \/ /\ SystemCallsMayFail \/ oldFlag[t] = "none"
        /\ failed' = TRUE
        /\ UNCHANGED page
  /\ oldFlag' = [oldFlag EXCEPT ![t] = "none"]
  /\ UNCHANGED <<objects, handlers, filters, hooked, dump, ended, others>>

\* The new object is assigned to _pWinDump.
PublishDump(t) ==
  /\ Step(t, "publish")
  /\ pWinDump' = t
  /\ UNCHANGED <<deleted, saved, handlers, filters, hook, dump, ended, others>>
-----------------------------------------------------------------------------
(***************************************************************************)
(* StopCrashDump: the destructor restores the handler and leaves the filter *)
(* and the entry point alone; _pWinDump keeps its value.                   *)
(***************************************************************************)
StopCrashDump(t) ==
  /\ t \in starters
  /\ ended = "no"
  /\ pc[t] = "idle"
  /\ pWinDump # Null
  /\ \/ /\ pWinDump \notin deleted
        /\ handler' = saved[pWinDump]
        /\ UNCHANGED ended
     \/ /\ pWinDump \in deleted
        /\ handler' \in Handlers
        /\ ended' \in {"no", "fault"}
  /\ deleted' = deleted \cup {pWinDump}
  /\ UNCHANGED <<pc, pWinDump, saved, before, filters, hook, dump, others>>
-----------------------------------------------------------------------------
(***************************************************************************)
(* A thread fails, and the filter UnhandledExceptionFilterEx writes a dump. *)
(***************************************************************************)
Fail(t) ==
  /\ ended = "no"
  /\ pc[t] = "idle"
  /\ \/ /\ filter = "ours"
        /\ Goto(t, "create")
        /\ UNCHANGED ended
     \/ /\ filter # "ours"
        /\ ended' = "unhandled"
        /\ UNCHANGED pc
  /\ UNCHANGED <<objects, handlers, filters, hook, dump, others>>

\* CreateFileA, exclusive, CREATE_ALWAYS: what an earlier dump left is gone.
CreateDump(t) ==
  /\ ended = "no"
  /\ pc[t] = "create"
  /\ \/ /\ Writers = {}
        /\ dump' = "partial"
        /\ Goto(t, "write")
     \/ /\ Writers # {} \/ SystemCallsMayFail
        /\ Goto(t, "search")
        /\ UNCHANGED dump
  /\ UNCHANGED <<objects, handlers, filters, hook, ended, others>>

\* A slip: the result is not looked at.
WriteUnchecked(t) ==
  /\ ended = "no"
  /\ pc[t] = "write"
  /\ \/ dump' = "whole"
     \/ SystemCallsMayFail /\ UNCHANGED dump
  /\ Goto(t, "close")
  /\ UNCHANGED <<objects, handlers, filters, hook, ended, others>>

\* MiniDumpWriteDump.
WriteDump(t) ==
  /\ ended = "no"
  /\ pc[t] = "write"
  /\ \/ /\ dump' = "whole"
        /\ Goto(t, "close")
     \/ /\ SystemCallsMayFail
        /\ Goto(t, "abandon")
        /\ UNCHANGED dump
  /\ UNCHANGED <<objects, handlers, filters, hook, ended, others>>

\* CloseHandle of a dump that was written, and of one that was not.
CloseDump(t) ==
  /\ ended = "no"
  /\ \/ pc[t] = "close" /\ Goto(t, "execute")
     \/ pc[t] = "abandon" /\ Goto(t, "torn")
  /\ UNCHANGED <<objects, handlers, filters, hook, dump, ended, others>>

\* EXCEPTION_CONTINUE_SEARCH: the system ends the process.
ContinueSearch(t) ==
  /\ ended = "no"
  /\ pc[t] \in {"search", "torn"}
  /\ ended' = "unhandled"
  /\ UNCHANGED <<pc, objects, handlers, filters, hook, dump, others>>

\* EXCEPTION_EXECUTE_HANDLER ends the process with all its threads.
ExecuteHandler(t) ==
  /\ ended = "no"
  /\ pc[t] = "execute"
  /\ ended' = "handled"
  /\ UNCHANGED <<pc, objects, handlers, filters, hook, dump, others>>
-----------------------------------------------------------------------------
\* Other code of the process (external) sets a handler, a filter or a null filter.
OtherHandler ==
  /\ ended = "no"
  /\ others < MaxOther
  /\ others' = others + 1
  /\ handler' = "other"
  /\ UNCHANGED <<pc, objects, before, filters, hook, dump, ended>>

OtherFilter ==
  /\ ended = "no"
  /\ others < MaxOther
  /\ others' = others + 1
  /\ \E new \in {"other", "system"} : SetFilter(new)
  /\ UNCHANGED <<pc, objects, handlers, hook, dump>>

DumpInit ==
  /\ starters \in SUBSET Threads
  /\ pc = [t \in Threads |-> "idle"]
  /\ pWinDump = Null
  /\ deleted = {}
  /\ saved = [t \in Threads |-> "crt"]
  /\ handler = "crt"
  /\ before = "none"
  /\ filter = "system"
  /\ hooked = FALSE
  /\ page = "exec"
  /\ oldFlag = [t \in Threads |-> "none"]
  /\ dump = "none"
  /\ ended = "no"
  /\ others = 0
  /\ removed = FALSE
  /\ failed = FALSE

Start(t) ==
  \/ StartCrashDump(t) \/ SetInvalidHandle(t) \/ RunDump(t) \/ EntryNotFound(t)
  \/ Unprotect(t) \/ Patch(t) \/ Reprotect(t) \/ PublishDump(t)

Filter(t) ==
  Fail(t) \/ CreateDump(t) \/ WriteDump(t) \/ CloseDump(t)
  \/ ContinueSearch(t) \/ ExecuteHandler(t)

DumpNext ==
  /\ \/ \E t \in Threads : Start(t) \/ StopCrashDump(t) \/ Filter(t)
     \/ OtherHandler \/ OtherFilter
  /\ UNCHANGED starters

DumpSpec == DumpInit /\ [][DumpNext]_dumpVars
-----------------------------------------------------------------------------
DumpExclusive == \A t, u \in Writers : t = u
DumpWhole ==
  ended = "handled" =>
    dump = "whole" \/ \E t \in Threads : pc[t] \in {"write", "abandon", "torn"}

\* Several threads may fail at once; only one of them has the dump file open, and when the
\* filter ends the process as handled the dump is whole, unless another thread has failed
\* meanwhile, truncated it, and not yet written its own or been unable to write it
\* (CMinidump.cpp:105-125).
DumpIntact == DumpExclusive /\ DumpWhole

\* Nobody finds SetUnhandledExceptionFilter disabled without a filter in place, however many
\* threads start and stop, unless other code has taken the filter away with a null one after
\* the DLL had set its own (CMinidump.cpp:142-143).
FilterBeforeHook == hooked => filter # "system" \/ removed

OneUser == \A t, u \in starters : t = u

\* Once the StartCrashDump of the one user is over the entry point can be executed again,
\* whatever call failed on the way but VirtualProtect, whose results nobody looks at
\* (CMinidump.cpp:171-173). Two threads undo each other's changes of the page in an order
\* that may leave it as it must not be.
EntryExecutable ==
  OneUser /\ ~ failed /\ (\A t \in Threads : pc[t] \notin {"patch", "reprotect"}) =>
    page = "exec"

\* CMinidump.cpp:79, back to the earlier exception handling: the StopCrashDump of the one
\* user puts back the handler that was there before the dump object took over. With two
\* that start together it may put back the DLL's own.
RestoresHandler ==
  [][OneUser /\ deleted = {} /\ deleted' # {} => handler' = before]_dumpVars
=============================================================================
