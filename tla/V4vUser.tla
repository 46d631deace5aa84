------------------------------ MODULE V4vUser ------------------------------
(***************************************************************************)
(* inc/v4vapi.h: a program that uses V4V channels through contexts, with   *)
(* blocking and with overlapped calls. The driver is external: it takes a  *)
(* request in the state of the channel it is for, and completes an         *)
(* overlapped one at once or later. Other code of the program opens and    *)
(* closes handles of its own.                                              *)
(*                                                                         *)
(* The program opens, or accepts into, a context only when it has closed   *)
(* what the context held, and leaves alone a context that an accept which  *)
(* is not complete has filled.                                             *)
(***************************************************************************)
EXTENDS Integers, FiniteSets

CONSTANTS
  Contexts,
  HANDLE,  \* values of handles
  Null,    \* NULL and INVALID_HANDLE_VALUE
  MaxPending  \* bound: the requests that are pending at a time

VARIABLES
  objects,   \* what each handle is
  context,   \* the fields of each context
  channels,  \* the driver's state of the channel of each file
  pending,   \* overlapped requests: the file and, for an accept, the new one
  known      \* what a program with blocking calls takes each context's channel to be

userVars == <<objects, context, channels, pending, known>>

\* The states of a channel that a request is for, and the one it leads to.
StateFor ==
  [initialize |-> {"new"}, bind |-> {"initialized"}, listen |-> {"bound"},
   accept |-> {"listening"}, connect |-> {"bound"}, wait |-> {"bound"},
   disconnect |-> {"connected"}, query |-> {"bound", "listening", "connected"}]
StateAfter ==
  [initialize |-> "initialized", bind |-> "bound", listen |-> "listening",
   accept |-> "connected", connect |-> "connected", wait |-> "connected",
   disconnect |-> "disconnected"]
IOCTLs == DOMAIN StateFor
States == {"new"} \cup {StateAfter[op] : op \in DOMAIN StateAfter}

UserTypeOK ==
  /\ objects \in [HANDLE -> {"free", "file", "event", "foreign"}]
  /\ context \in [Contexts -> [v4vHandle : HANDLE \cup {Null}, recvEvent : HANDLE \cup {Null},
                               overlapped : BOOLEAN]]
  /\ channels \in [HANDLE -> States]
  /\ pending \subseteq [op : IOCTLs, file : HANDLE, new : HANDLE \cup {Null}]
  /\ known \in [Contexts -> States]

FreeHandles == {h \in HANDLE : objects[h] = "free"}
Empty(c) == context[c].v4vHandle = Null /\ context[c].recvEvent = Null
AcceptingInto(c) == \E r \in pending : r.new # Null /\ r.new = context[c].v4vHandle
Usable(c) == context[c].v4vHandle # Null /\ context[c].recvEvent # Null /\ ~AcceptingInto(c)

\* What a request does to the channels: an accept leads the new file to its state.
Reached(op, file, new) ==
  IF op = "query" THEN channels
  ELSE [channels EXCEPT ![IF op = "accept" THEN new ELSE file] = StateAfter[op]]

\* DeviceIoControl.
Request(op, overlapped, file, new, result) ==
  \/ /\ result = "refused"
     /\ UNCHANGED <<channels, pending>>
  \/ /\ result = "pending" /\ overlapped /\ Cardinality(pending) < MaxPending
     /\ pending' = pending \cup {[op |-> op, file |-> file, new |-> new]}
     /\ UNCHANGED channels
  \/ /\ result = "done" /\ channels[file] \in StateFor[op]
     /\ channels' = Reached(op, file, new)
     /\ UNCHANGED pending

\* How the calls judge it, a slip first: an overlapped call goes by the result alone.
TrueIfDone(overlapped, result) == result = "done"
ReturnsTrue(overlapped, result) ==
  IF overlapped THEN result \in {"done", "pending"} ELSE result = "done"

\* After a failure.
BothClosed(t, file, event) == [t EXCEPT ![file] = "free", ![event] = "free"]
-----------------------------------------------------------------------------
\* A file and an event are made, one after the other, then the driver is asked.
NewChannel(op, into, overlapped, listener) ==
  \/ UNCHANGED userVars
  \/ \E file, event \in FreeHandles, result \in {"refused", "pending", "done"} :
       /\ file # event
       /\ IF op = "accept" THEN Request(op, overlapped, listener, file, result)
          ELSE Request(op, overlapped, file, Null, result)
       /\ IF ReturnsTrue(overlapped, result)
          THEN /\ objects' = [objects EXCEPT ![file] = "file", ![event] = "event"]
               /\ context' = [context EXCEPT ![into] =
                    [v4vHandle |-> file, recvEvent |-> event, overlapped |-> overlapped]]
               /\ known' = [known EXCEPT ![into] = IF overlapped THEN "new" ELSE StateAfter[op]]
          ELSE /\ objects' = BothClosed(objects, file, event)
               /\ UNCHANGED <<context, known>>

V4vOpen(c) == Empty(c) /\ NewChannel("initialize", c, context[c].overlapped, Null)

V4vAccept(c, newContextOut) ==
  /\ Usable(c) /\ Empty(newContextOut)
  /\ NewChannel("accept", newContextOut, context[c].overlapped, context[c].v4vHandle)

Call(c, op) ==
  /\ Usable(c)
  /\ \E result \in {"refused", "pending", "done"} :
       /\ Request(op, context[c].overlapped, context[c].v4vHandle, Null, result)
       /\ known' = IF /\ ~context[c].overlapped /\ op # "query"
                      /\ ReturnsTrue(context[c].overlapped, result)
                   THEN [known EXCEPT ![c] = StateAfter[op]] ELSE known
  /\ UNCHANGED <<objects, context>>

V4vBind(c) == Call(c, "bind")
V4vListen(c) == Call(c, "listen")
V4vConnect(c) == Call(c, "connect")
V4vConnectWait(c) == Call(c, "wait")
V4vDisconnect(c) == Call(c, "disconnect")
V4vGetInfo(c) == Call(c, "query")
V4vDumpRing(c) == Call(c, "query")

\* What closing the handles in S leaves in a context.
WithoutHandles(fields, S) ==
  [fields EXCEPT !.v4vHandle = IF @ \in S THEN Null ELSE @,
                 !.recvEvent = IF @ \in S THEN Null ELSE @]

\* Each handle is closed unless the system fails to. With its file a channel ends, and the
\* requests on it are cancelled.
V4vClose(c) ==
  /\ ~AcceptingInto(c)
  /\ \E S \in SUBSET ({context[c].v4vHandle, context[c].recvEvent} \ {Null}) :
       /\ objects' = [h \in HANDLE |-> IF h \in S THEN "free" ELSE objects[h]]
       /\ context' = [context EXCEPT ![c] = WithoutHandles(@, S)]
       /\ channels' = [h \in HANDLE |-> IF h \in S THEN "new" ELSE channels[h]]
       /\ pending' = {r \in pending : r.file \notin S}
       /\ known' = IF context[c].v4vHandle \in S THEN [known EXCEPT ![c] = "new"] ELSE known
-----------------------------------------------------------------------------
\* The driver completes an overlapped request, or fails it.
CompleteRequest(r) ==
  /\ r \in pending
  /\ pending' = pending \ {r}
  /\ \/ UNCHANGED channels
     \/ channels[r.file] \in StateFor[r.op] /\ channels' = Reached(r.op, r.file, r.new)
  /\ UNCHANGED <<objects, context, known>>

OthersOpenOrClose(h) ==
  /\ objects[h] \in {"free", "foreign"}
  /\ objects' = [objects EXCEPT ![h] = IF @ = "free" THEN "foreign" ELSE "free"]
  /\ UNCHANGED <<context, channels, pending, known>>

UserInit ==
  /\ objects = [h \in HANDLE |-> "free"]
  /\ context \in [Contexts -> [v4vHandle : {Null}, recvEvent : {Null}, overlapped : BOOLEAN]]
  /\ channels = [h \in HANDLE |-> "new"]
  /\ pending = {} /\ known = [c \in Contexts |-> "new"]

UserNext ==
  \/ \E c \in Contexts :
       \/ V4vOpen(c) \/ V4vBind(c) \/ V4vListen(c) \/ V4vConnect(c) \/ V4vConnectWait(c)
       \/ V4vDisconnect(c) \/ V4vGetInfo(c) \/ V4vDumpRing(c) \/ V4vClose(c)
       \/ \E newContextOut \in Contexts : V4vAccept(c, newContextOut)
  \/ \E r \in pending : CompleteRequest(r)
  \/ \E h \in HANDLE : OthersOpenOrClose(h)

UserSpec == UserInit /\ [][UserNext]_userVars
-----------------------------------------------------------------------------
Held(c) == {context[c].v4vHandle, context[c].recvEvent} \ {Null}

\* Whatever fails, every handle that the calls have opened is in one context, so that
\* V4vClose can close it; and a context holds no handle that was closed, whose value may by
\* now be that of someone else's.
HandlesOwned ==
  /\ \A h \in HANDLE :
       objects[h] \in {"file", "event"} =>
         \E c \in Contexts : h \in Held(c) /\ \A d \in Contexts \ {c} : h \notin Held(d)
  /\ \A c \in Contexts :
       /\ context[c].v4vHandle # Null => objects[context[c].v4vHandle] = "file"
       /\ context[c].recvEvent # Null => objects[context[c].recvEvent] = "event"

\* A request that the driver still has is for a file that is open, and so is the new file
\* of an accept: an overlapped call that returned FALSE left nothing behind.
RequestsOnOpenFiles ==
  \A r \in pending :
    objects[r.file] = "file" /\ (r.new # Null => objects[r.new] = "file")

\* A program with blocking calls knows the state of its channel from those that returned TRUE.
BlockingMeansDone ==
  \A c \in Contexts :
    context[c].v4vHandle # Null /\ ~context[c].overlapped =>
      known[c] = channels[context[c].v4vHandle]

\* What holds of the contexts, their handles and the driver's requests.
UserSafe == UserTypeOK /\ HandlesOwned /\ RequestsOnOpenFiles /\ BlockingMeansDone
=============================================================================
