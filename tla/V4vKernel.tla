----------------------------- MODULE V4vKernel -----------------------------
(***************************************************************************)
(* inc/v4vkapi.h: a kernel client of the V4V driver, with every call it    *)
(* makes of the system or of the driver succeeding, failing or pending.    *)
(* The driver is external: it takes a request in the state of the channel  *)
(* the request is for, and completes it at once or later. Other code of    *)
(* the system opens and closes handles of its own, which have the values   *)
(* of handles that were closed.                                            *)
(***************************************************************************)
EXTENDS FiniteSets

CONSTANTS
  Handles,  \* values of handles
  None      \* the null handle

VARIABLES
  table,     \* who has opened each handle
  pV4v,      \* the client's structure
  call,      \* the call that is under way, or the last one
  requests,  \* what the driver has still to complete, and the event of each
  channel,   \* the driver's state of the channel
  opened,    \* the client has the channel open: its open was a success
  zeroes,    \* the client zeroes the structure before it opens
  leaked     \* history: the handles that closes have left open

vars == <<table, pV4v, call, requests, channel, opened, zeroes, leaked>>

Channels == {"none", "new", "initialized", "bound", "connected", "disconnected"}
Requests == {"initialize", "bind", "wait", "connect", "disconnect", "transfer"}
\* The state a request is for and the one it leads to.
For ==
  [initialize |-> "new", bind |-> "initialized", wait |-> "bound", connect |-> "bound",
   disconnect |-> "connected", transfer |-> "connected"]
To ==
  [initialize |-> "initialized", bind |-> "bound", wait |-> "connected",
   connect |-> "connected", disconnect |-> "disconnected", transfer |-> "connected"]

TypeOK ==
  /\ table \in [Handles -> {"free", "mine", "foreign"}]
  /\ pV4v \in [state : {"V4vUnset", "V4vOpen", "V4vConnected", "V4vDisconnected", "V4vClosed",
                        "V4vError"},
               recvEventHandle : Handles \cup {None}, v4vHandle : Handles \cup {None}]
  /\ call \in [pc : {"idle", "create", "init", "bind", "connect", "pended", "finish", "bugcheck"},
               of : {"none", "dgram", "device", "disconnect", "transfer"},
               hd : Handles \cup {None}, success : BOOLEAN,
               mishaps : SUBSET {"no reference", "no IRP", "pended"}]
  /\ requests \subseteq [op : Requests, event : {"live", "closed"}]
  /\ channel \in Channels /\ opened \in BOOLEAN /\ zeroes \in BOOLEAN
  /\ leaked \subseteq Handles

Unused == {h \in Handles : table[h] = "free"}

\* ZwClose: of a handle that is not open nothing comes but an error.
ZwClose(t, h) == IF h = None THEN t ELSE [t EXCEPT ![h] = "free"]
Opened(t, h) == [t EXCEPT ![h] = "mine"]

\* IoCallDriver: done, refused, or pending with the event that is to be signalled.
Done(op) == channel = For[op] /\ channel' = To[op] /\ UNCHANGED requests
Refused == UNCHANGED <<channel, requests>>
Pending(op, event) ==
  /\ channel = For[op]
  /\ requests' = requests \cup {[op |-> op, event |-> event]}
  /\ UNCHANGED channel

Proceed(pc) == [call EXCEPT !.pc = pc]
Fail == [call EXCEPT !.pc = "finish", !.success = FALSE]
Mishap(m) == [call EXCEPT !.mishaps = @ \cup {m}]
-----------------------------------------------------------------------------
(***************************************************************************)
(* XenV4VOpenDgramPort and XenV4VOpenDevice                                *)
(***************************************************************************)
Open(of) ==
  /\ call.pc = "idle" /\ ~opened
  /\ call' = [pc |-> "create", of |-> of, hd |-> None, success |-> TRUE, mishaps |-> {}]
  /\ pV4v' = IF zeroes
             THEN [state |-> "V4vUnset", recvEventHandle |-> None, v4vHandle |-> None]
             ELSE pV4v
  /\ UNCHANGED <<table, requests, channel, opened, zeroes, leaked>>

XenV4VOpenDgramPort == Open("dgram")
XenV4VOpenDevice == Open("device")

\* ZwCreateFile. Whether the file can be referenced is not looked at, and its device is read
\* through the null pointer that a failure leaves.
CreateFile ==
  /\ call.pc = "create"
  /\ \/ \E h \in Unused :
          /\ table' = Opened(table, h)
          /\ \E pc \in {"init", "bugcheck"} : call' = [Proceed(pc) EXCEPT !.hd = h]
          /\ channel' = "new"
     \/ call' = Fail /\ UNCHANGED <<table, channel>>
  /\ UNCHANGED <<pV4v, requests, opened, zeroes, leaked>>

\* The structure after the driver has refused it, a slip first: the handle is kept.
KeptAfterRefusal(rx) == [pV4v EXCEPT !.recvEventHandle = rx]
AfterRefusal(rx) == pV4v

\* The receive event is created, or an event or the request cannot be; the driver takes the
\* request; the event is referenced and the request's own event closed, done or not.
XenV4VInitDev ==
  /\ call.pc = "init"
  /\ \/ call' = Fail /\ UNCHANGED <<table, pV4v, channel, requests>>
     \/ \E rx \in Unused :
          \/ /\ Refused
             /\ pV4v' = AfterRefusal(rx)
             /\ call' = Fail /\ UNCHANGED table
          \/ /\ Done("initialize") \/ Pending("initialize", "closed")
             /\ \/ /\ table' = Opened(table, rx)
                   /\ pV4v' = [pV4v EXCEPT !.recvEventHandle = rx, !.state = "V4vOpen"]
                   /\ call' = Proceed("bind")
                \/ /\ UNCHANGED table
                   /\ pV4v' = [pV4v EXCEPT !.recvEventHandle = rx]
                   /\ call' = [Mishap("no reference") EXCEPT !.pc = "finish", !.success = FALSE]
  /\ UNCHANGED <<opened, zeroes, leaked>>

AfterBind == IF call.of = "device" THEN "connect" ELSE "finish"

\* A request that cannot be built is no failure; one that pends is, to the caller.
XenV4VBind ==
  /\ call.pc = "bind"
  /\ \/ Done("bind") /\ call' = Proceed(AfterBind)
     \/ Pending("bind", "closed") /\ call' = Fail
     \/ Refused /\ call' = Fail
     \/ Refused /\ call' = [Mishap("no IRP") EXCEPT !.pc = AfterBind]
  /\ UNCHANGED <<table, pV4v, opened, zeroes, leaked>>

\* The state is the same whatever comes of it.
XenV4VConnect ==
  /\ call.pc = "connect"
  /\ \/ Done("connect") /\ call' = Proceed("finish")
     \/ Refused /\ call' = Fail
     \/ Pending("connect", "live") /\ call' = [Mishap("pended") EXCEPT !.pc = "pended"]
     \/ Refused /\ call' = Proceed("bugcheck")
  /\ pV4v' = [pV4v EXCEPT !.state = "V4vConnected"]
  /\ UNCHANGED <<table, opened, zeroes, leaked>>

\* KeWaitForSingleObject: its own result, success, replaces that of the request.
WaitReturns ==
  /\ call.pc = "pended" /\ ~\E r \in requests : r.event = "live"
  /\ call' = Proceed("finish")
  /\ UNCHANGED <<table, pV4v, requests, channel, opened, zeroes, leaked>>

\* What the end of an open closes after a failure.
ClosedAfterFailure(t) == ZwClose(ZwClose(t, call.hd), pV4v.recvEventHandle)

\* The receive event's handle is closed as the structure has it: in a structure that is used
\* again it may be one that a close has left open.
OpenReturns ==
  /\ call.pc = "finish" /\ call.of \in {"dgram", "device"}
  /\ IF call.success
     THEN /\ pV4v' = [pV4v EXCEPT !.v4vHandle = call.hd]
          /\ UNCHANGED <<table, channel, requests, leaked>>
     ELSE /\ table' = ClosedAfterFailure(table)
          /\ leaked' = leaked \ {pV4v.recvEventHandle}
          /\ channel' = "none" /\ requests' = {}
          /\ UNCHANGED pV4v
  /\ opened' = call.success
  /\ call' = [Proceed("idle") EXCEPT !.hd = None]
  /\ UNCHANGED zeroes
-----------------------------------------------------------------------------
(***************************************************************************)
(* The calls on a channel that is open                                     *)
(***************************************************************************)
Start(of) == [pc |-> "finish", of |-> of, hd |-> None, success |-> TRUE, mishaps |-> {}]

\* A pending wait is reported as it is, its event closed.
XenV4VConnectWait ==
  /\ call.pc = "idle" /\ opened
  /\ \/ Done("wait") /\ UNCHANGED call
     \/ Refused /\ UNCHANGED call
     \/ Pending("wait", "closed") /\ UNCHANGED call
     \/ Refused /\ call' = Proceed("bugcheck")
  /\ UNCHANGED <<table, pV4v, opened, zeroes, leaked>>

\* A slip: the call does not wait for the request it has made.
TransferWithoutWait(op) ==
  /\ call.pc = "idle" /\ opened
  /\ \/ Done(op) /\ call' = Start(op)
     \/ Pending(op, "closed") /\ call' = Start(op)
  /\ UNCHANGED <<table, pV4v, opened, zeroes, leaked>>

\* XenV4VDisconnect, XenV4VRead and XenV4VWrite: a pending request is waited for.
Transfer(op) ==
  /\ call.pc = "idle" /\ opened
  /\ \/ Done(op) /\ call' = Start(op)
     \/ Refused /\ call' = [Start(op) EXCEPT !.success = FALSE]
     \/ Pending(op, "live") /\ call' = [Start(op) EXCEPT !.pc = "pended", !.mishaps = {"pended"}]
     \/ Refused /\ op = "disconnect" /\ call' = [Start(op) EXCEPT !.pc = "bugcheck"]
  /\ UNCHANGED <<table, pV4v, opened, zeroes, leaked>>

XenV4VDisconnect == Transfer("disconnect")
XenV4VReadOrWrite == Transfer("transfer")

TransferReturns ==
  /\ call.pc = "finish" /\ call.of \in {"disconnect", "transfer"}
  /\ pV4v' = IF call.of = "transfer" THEN pV4v
             ELSE [pV4v EXCEPT !.state = IF call.success THEN "V4vDisconnected" ELSE "V4vError"]
  /\ call' = Proceed("idle")
  /\ UNCHANGED <<table, requests, channel, opened, zeroes, leaked>>

\* The values of the handles stay in the structure.
ClosedStructure(unclosed) ==
  [pV4v EXCEPT !.state = IF pV4v.v4vHandle \in unclosed THEN "V4vError" ELSE "V4vClosed"]

\* Neither handle is left open; or the close of the receive event fails and that of the file
\* is not tried, or fails itself; or the receive event's alone is left, which is no handle of
\* the kernel's: in another process its value may be that of a handle of that process, which
\* is closed in its place. The client closes once, since the event is dereferenced first; what
\* the driver still does for a file that is left open nobody waits for.
XenV4VClose ==
  /\ call.pc = "idle" /\ opened
  /\ \E unclosed \in SUBSET {pV4v.recvEventHandle, pV4v.v4vHandle} :
       /\ table' = [h \in Handles |->
                      IF h \in {pV4v.recvEventHandle, pV4v.v4vHandle} \ unclosed
                      THEN "free" ELSE table[h]]
       /\ leaked' = leaked \cup unclosed
       /\ pV4v' = ClosedStructure(unclosed)
  /\ channel' = "none" /\ requests' = {}
  /\ opened' = FALSE
  /\ UNCHANGED <<call, zeroes>>
-----------------------------------------------------------------------------
\* The driver completes a request, or refuses it after all.
Complete(r) ==
  /\ r \in requests
  /\ requests' = requests \ {r}
  /\ channel' \in {channel} \cup (IF channel = For[r.op] THEN {To[r.op]} ELSE {})
  /\ UNCHANGED <<table, pV4v, call, opened, zeroes, leaked>>

OthersOpen(h) ==
  /\ table[h] = "free"
  /\ table' = [table EXCEPT ![h] = "foreign"]
  /\ UNCHANGED <<pV4v, call, requests, channel, opened, zeroes, leaked>>

OthersClose(h) ==
  /\ table[h] = "foreign"
  /\ table' = [table EXCEPT ![h] = "free"]
  /\ UNCHANGED <<pV4v, call, requests, channel, opened, zeroes, leaked>>

Init ==
  /\ table = [h \in Handles |-> "free"]
  /\ pV4v = [state |-> "V4vUnset", recvEventHandle |-> None, v4vHandle |-> None]
  /\ call = [pc |-> "idle", of |-> "none", hd |-> None, success |-> TRUE, mishaps |-> {}]
  /\ requests = {} /\ channel = "none" /\ opened = FALSE /\ zeroes \in BOOLEAN
  /\ leaked = {}

Next ==
  \/ XenV4VOpenDgramPort \/ XenV4VOpenDevice
  \/ CreateFile \/ XenV4VInitDev \/ XenV4VBind \/ XenV4VConnect \/ WaitReturns \/ OpenReturns
  \/ XenV4VConnectWait \/ XenV4VDisconnect \/ XenV4VReadOrWrite \/ TransferReturns
  \/ XenV4VClose
  \/ \E r \in requests : Complete(r)
  \/ \E h \in Handles : OthersOpen(h) \/ OthersClose(h)

Spec == Init /\ [][Next]_vars
-----------------------------------------------------------------------------
Mine == {h \in Handles : table[h] = "mine"}

\* However far an open came before it failed, and after a close, no handle of the client is
\* left open but those that a close could not close; a client that has the channel open has
\* its two handles besides. What is called closed has no file open: the state is V4vError then.
HandlesBalanced ==
  call.pc = "idle" =>
    /\ opened =>
         /\ pV4v.recvEventHandle # pV4v.v4vHandle
         /\ Mine \ leaked = {pV4v.recvEventHandle, pV4v.v4vHandle}
    /\ ~opened =>
         /\ Mine = leaked
         /\ pV4v.state = "V4vClosed" => pV4v.v4vHandle \notin leaked

\* The call that waits has its event until the driver is done with it, so the driver never
\* signals an event that is gone. (Not so the calls that do not wait: initialize, bind, wait.)
EventOutlivesRequest ==
  \A r \in requests : r.op \in {"connect", "disconnect", "transfer"} => r.event = "live"

\* What holds of the client's handles and events.
KernelSafe == TypeOK /\ HandlesBalanced /\ EventOutlivesRequest

\* No handle of anyone else in the same table is closed, although handles are used again. Two
\* cases are excepted, in which the code closes the value of a handle that is closed already:
\* an open that fails with a structure that was used before and is not zeroed, and one whose
\* receive event cannot be referenced. (What a close made in another process closes there is
\* in another table.)
OthersKept ==
  \A h \in Handles :
    table[h] = "foreign" /\ table'[h] # "foreign" =>
      OthersClose(h) \/ ~zeroes \/ "no reference" \in call.mishaps

\* Success of an open means that the driver has done all of it, in its order, unless the
\* request to bind could not be built, or the request to connect pended and then failed.
OpenMeansReady ==
  ~opened /\ opened' /\ call.mishaps = {} =>
    channel = IF call.of = "device" THEN "connected" ELSE "bound"

\* What every step does to others, and what a success of it means.
KernelKeepsWord == [][OthersKept /\ OpenMeansReady]_vars
=============================================================================
