----------------------------- MODULE SharedRing -----------------------------
(***************************************************************************)
(* inc/ring.h: the ring of requests and responses that a front end and a   *)
(* back end share, driven as its comments ask: push and notify if told to; *)
(* before sleeping, look for work with the final check.                    *)
(*                                                                         *)
(* A macro that stores, has a barrier and then reads is two steps, between *)
(* which the other end runs. A pair of fields, one for each direction, is  *)
(* a function of the end that writes it: prod["front"] is req_prod and     *)
(* prod["back"] is rsp_prod; event["back"] is req_event.                   *)
(***************************************************************************)
EXTENDS Integers, Sequences

CONSTANTS
  Size,        \* __RING_SIZE, a power of two
  IndexMod,    \* one more than the largest RING_IDX
  MaxRestarts  \* bound: attachments to a ring that is in use

ASSUME RingAssumption ==
  /\ Size \in Nat \ {0} /\ IndexMod \in Nat /\ MaxRestarts \in Nat
  /\ IndexMod > Size /\ IndexMod % Size = 0

VARIABLES
  slot,      \* shared: <<kind, index of the request>> in each slot
  prod,      \* shared: req_prod, rsp_prod
  event,     \* shared: rsp_event, req_event
  prod_pvt,  \* req_prod_pvt, rsp_prod_pvt
  cons,      \* rsp_cons, req_cons
  old,       \* __old of the push that an end is in
  pc,        \* what each end is at
  pending,   \* the event channel of each end
  owed,      \* requests the back end has taken and not put a response for
  restarts,  \* attachments so far
  cut        \* history: an end that was restarted in the middle of a push

shared == <<slot, prod, event>>
vars == <<slot, prod, event, prod_pvt, cons, old, pc, pending, owed, restarts, cut>>

Ends == {"front", "back"}
Idx == 0..(IndexMod - 1)
Places == {"running", "pushed", "idle", "checked", "asleep"}
Other(s) == IF s = "front" THEN "back" ELSE "front"

Wrapped(i) == i % IndexMod

TypeOK ==
  /\ slot \in [0..(Size - 1) -> {"none", "request", "response"} \X Idx]
  /\ prod \in [Ends -> Idx] /\ event \in [Ends -> Idx] /\ prod_pvt \in [Ends -> Idx]
  /\ cons \in [Ends -> Idx] /\ old \in [Ends -> Idx]
  /\ pc \in [Ends -> Places] /\ pending \in [Ends -> BOOLEAN]
  /\ owed \in Seq(Idx) /\ restarts \in [Ends -> 0..MaxRestarts]
  /\ cut \in [Ends -> BOOLEAN]
-----------------------------------------------------------------------------
(***************************************************************************)
(* The macros that only read                                               *)
(***************************************************************************)
RING_FREE_REQUESTS == Size - Wrapped(prod_pvt["front"] - cons["front"])

RING_FULL == RING_FREE_REQUESTS = 0

\* For requests it counts no more than there can be responses for.
HasUnconsumed(s) ==
  LET produced == Wrapped(prod[Other(s)] - cons[s])
      room == Size - Wrapped(cons["back"] - prod_pvt["back"])
  IN  IF s = "back" /\ room < produced THEN room > 0 ELSE produced > 0

\* A slip: the end of the batch is compared, not where it began.
MustNotifyAtEnd(new, from, at) == Wrapped(new - at) < 1

\* Whether the index at is among those from the index from up to new.
MustNotify(new, from, at) == Wrapped(new - at) < Wrapped(new - from)
-----------------------------------------------------------------------------
(***************************************************************************)
(* Steps of an end                                                         *)
(***************************************************************************)
Put(s, kind, request) ==
  /\ pc[s] \in {"running", "asleep"}
  /\ slot' = [slot EXCEPT ![prod_pvt[s] % Size] = <<kind, request>>]
  /\ prod_pvt' = [prod_pvt EXCEPT ![s] = Wrapped(@ + 1)]
  /\ pc' = [pc EXCEPT ![s] = "running"]

\* RING_GET_REQUEST, while the ring is not full; a request is known by its index.
PutRequest ==
  /\ ~RING_FULL
  /\ Put("front", "request", prod_pvt["front"])
  /\ UNCHANGED <<prod, event, cons, old, pending, owed, restarts, cut>>

\* RING_GET_RESPONSE, when the oldest request is done.
PutResponse ==
  /\ owed # <<>>
  /\ Put("back", "response", Head(owed))
  /\ owed' = Tail(owed)
  /\ UNCHANGED <<prod, event, cons, old, pending, restarts, cut>>

\* RING_PUSH_..._AND_CHECK_NOTIFY up to the barrier.
Push(s) ==
  /\ pc[s] = "running" /\ prod_pvt[s] # prod[s]
  /\ old' = [old EXCEPT ![s] = prod[s]]
  /\ prod' = [prod EXCEPT ![s] = prod_pvt[s]]
  /\ pc' = [pc EXCEPT ![s] = "pushed"]
  /\ UNCHANGED <<slot, event, prod_pvt, cons, pending, owed, restarts, cut>>

\* Behind the barrier: the other end's event index, and the notification it asks for.
CheckNotify(s) ==
  /\ pc[s] = "pushed"
  /\ pending' = [pending EXCEPT ![Other(s)] = @ \/ MustNotify(prod[s], old[s], event[Other(s)])]
  /\ old' = [old EXCEPT ![s] = 0]
  /\ pc' = [pc EXCEPT ![s] = "running"]
  /\ UNCHANGED <<slot, prod, event, prod_pvt, cons, owed, restarts, cut>>

\* A slip: the slot behind the one whose turn it is.
ReadSlotAhead(s) == slot[(cons[s] + 1) % Size]
ReadSlot(s) == slot[cons[s] % Size]

Take(s) ==
  /\ pc[s] = "running" /\ HasUnconsumed(s)
  /\ owed' = IF s = "back" THEN Append(owed, ReadSlot(s)[2]) ELSE owed
  /\ cons' = [cons EXCEPT ![s] = Wrapped(@ + 1)]
  /\ UNCHANGED <<slot, prod, event, prod_pvt, old, pc, pending, restarts, cut>>

\* RING_FINAL_CHECK_...: nothing is there.
FinalCheck(s) ==
  /\ pc[s] = "running" /\ prod_pvt[s] = prod[s] /\ ~HasUnconsumed(s)
  /\ pc' = [pc EXCEPT ![s] = "idle"]
  /\ UNCHANGED <<shared, prod_pvt, cons, old, pending, owed, restarts, cut>>

\* The next message is to notify.
AskForEvent(s) ==
  /\ pc[s] = "idle"
  /\ event' = [event EXCEPT ![s] = Wrapped(cons[s] + 1)]
  /\ pc' = [pc EXCEPT ![s] = "checked"]
  /\ UNCHANGED <<slot, prod, prod_pvt, cons, old, pending, owed, restarts, cut>>

\* A slip: it sleeps without looking again.
LookAgainNot(s) ==
  /\ pc[s] = "checked"
  /\ pc' = [pc EXCEPT ![s] = "asleep"]
  /\ cut' = [cut EXCEPT ![Other(s)] = FALSE]
  /\ UNCHANGED <<shared, prod_pvt, cons, old, pending, owed, restarts>>

\* Behind the barrier: what has come meanwhile is not slept over.
LookAgain(s) ==
  /\ pc[s] = "checked"
  /\ pc' = [pc EXCEPT ![s] = IF HasUnconsumed(s) THEN "running" ELSE "asleep"]
  /\ cut' = [cut EXCEPT ![Other(s)] = FALSE]
  /\ UNCHANGED <<shared, prod_pvt, cons, old, pending, owed, restarts>>

\* The event channel delivers.
Wake(s) ==
  /\ pc[s] = "asleep" /\ pending[s]
  /\ pending' = [pending EXCEPT ![s] = FALSE]
  /\ pc' = [pc EXCEPT ![s] = "running"]
  /\ UNCHANGED <<shared, prod_pvt, cons, old, owed, restarts, cut>>

\* FRONT_RING_ATTACH and BACK_RING_ATTACH: the end has lost its private state, and what it
\* was about to find out in CheckNotify.
Attach(s) ==
  /\ restarts[s] < MaxRestarts
  /\ restarts' = [restarts EXCEPT ![s] = @ + 1]
  /\ cut' = [cut EXCEPT ![s] = @ \/ pc[s] = "pushed"]
  /\ prod_pvt' = [prod_pvt EXCEPT ![s] = prod[s]]
  /\ cons' = [cons EXCEPT ![s] = prod[Other(s)]]
  /\ owed' = IF s = "back" THEN <<>> ELSE owed
  /\ pc' = [pc EXCEPT ![s] = "running"]
  /\ old' = [old EXCEPT ![s] = 0]
  /\ UNCHANGED <<shared, pending>>

\* SHARED_RING_INIT, FRONT_RING_INIT, BACK_RING_INIT.
Init ==
  /\ slot = [i \in 0..(Size - 1) |-> <<"none", 0>>]
  /\ prod = [s \in Ends |-> 0] /\ event = [s \in Ends |-> 1]
  /\ prod_pvt = [s \in Ends |-> 0] /\ cons = [s \in Ends |-> 0] /\ old = [s \in Ends |-> 0]
  /\ pc = [s \in Ends |-> "running"] /\ pending = [s \in Ends |-> FALSE]
  /\ owed = <<>> /\ restarts = [s \in Ends |-> 0] /\ cut = [s \in Ends |-> FALSE]

Step(s) ==
  \/ Push(s) \/ CheckNotify(s) \/ Take(s)
  \/ FinalCheck(s) \/ AskForEvent(s) \/ LookAgain(s) \/ Wake(s)

Next ==
  \/ PutRequest \/ PutResponse
  \/ \E s \in Ends : Step(s) \/ Attach(s)

\* An end that has something to do does it; no one has to make a request.
Fairness == WF_vars(Step("front")) /\ WF_vars(Step("back")) /\ WF_vars(PutResponse)

Spec == Init /\ [][Next]_vars /\ Fairness
-----------------------------------------------------------------------------
(***************************************************************************)
(* Correctness                                                             *)
(***************************************************************************)
\* An end that sleeps has nothing to take, or its event is on the way: the other end has
\* sent it, or is between publishing the message and reading the event index. One that was
\* restarted there, after this end looked for the last time, never sends it; whatever else is
\* restarted, and whenever, no wake-up is lost.
NoWakeUpLost ==
  \A s \in Ends :
    pc[s] = "asleep" /\ HasUnconsumed(s) =>
      \/ pending[s]
      \/ /\ pc[Other(s)] = "pushed"
         /\ MustNotify(prod[Other(s)], old[Other(s)], event[s])
      \/ cut[Other(s)]

\* The indices a, a + 1, ... up to but not b.
Span(a, b) == [i \in 1..Wrapped(b - a) |-> Wrapped(a + i - 1)]
Content(a, b) == [i \in DOMAIN Span(a, b) |-> slot[Span(a, b)[i] % Size][2]]

\* Requests and responses use the same slots, and the indices start again at zero: still no
\* slot is written again before it was read.
NothingOverwritten ==
  /\ \A i \in DOMAIN Span(cons["back"], prod_pvt["front"]) :
       LET at == Span(cons["back"], prod_pvt["front"])[i] IN slot[at % Size] = <<"request", at>>
  /\ \A i \in DOMAIN Span(cons["front"], prod_pvt["back"]) :
       slot[Span(cons["front"], prod_pvt["back"])[i] % Size][1] = "response"

\* What holds of the ring whatever its ends are at.
RingSafe == TypeOK /\ NoWakeUpLost /\ NothingOverwritten

\* The order of requests and responses, and that none is lost or read twice, is that of a
\* channel whose two ends are told nothing of indices, slots and events.
Channel == INSTANCE RequestChannel WITH
  Requests <- Idx,
  Capacity <- Size,
  sent <- Content(cons["back"], prod["front"]),
  working <- Content(prod["back"], prod_pvt["back"]) \o owed,
  answered <- Content(cons["front"], prod["back"])

ImplementsChannel == Channel!Init /\ [][Channel!Next]_Channel!vars

\* Each request the front end has published is answered, and the front end has read the
\* answer, unless an end was restarted. (A restarted back end takes what was on its way for
\* done.)
AllAnswered ==
  \A i \in Idx :
    cons["front"] = i /\ prod["front"] # i
      ~> cons["front"] # i \/ \E s \in Ends : restarts[s] > 0
=============================================================================
