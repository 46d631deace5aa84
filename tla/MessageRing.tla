---------------------------- MODULE MessageRing ----------------------------
(***************************************************************************)
(* inc/vring.h: one direction of a netchannel2 ring pair, a stream of      *)
(* messages of different sizes with an event at each end. The two ends are *)
(* driven as the comments of the header ask: a sender that is refused      *)
(* flushes what it has written and waits for its event; a receiver reads   *)
(* what it has seen, finishes, and sleeps if the final check finds nothing.*)
(*                                                                         *)
(* A function that stores, has a barrier and reads again is several steps. *)
(* Sizes are counted in the smallest message.                              *)
(***************************************************************************)
EXTENDS Integers

CONSTANTS
  Bytes,     \* payload bytes of the ring, a power of two
  IndexMod,  \* one more than the largest RING_IDX
  ShortMod,  \* one more than the largest unsigned short
  Sizes      \* sizes of messages, which is all that tells them apart

ASSUME RingAssumption ==
  /\ Bytes \in Nat \ {0} /\ IndexMod \in Nat /\ ShortMod \in Nat \ {0}
  /\ IndexMod > Bytes /\ IndexMod % Bytes = 0 /\ Sizes \subseteq 1..Bytes
  /\ \A n \in Sizes : n < ShortMod

\* A message and a pad that is no longer are counted without wrapping. Nothing in the header
\* asks for it: what comes without is GrantMeansRoom's.
SizesFit == \A n \in Sizes : 2 * n < ShortMod

VARIABLES
  payload,     \* shared: the header of the message at each offset
  prod,        \* shared, written by the sender
  prod_event,  \* shared, written by the receiver
  cons,        \* shared, written by the receiver
  cons_event,  \* shared, written by the sender
  sender,      \* the sender's private state
  receiver,    \* the receiver's private state
  pending      \* the event channel of each end

vars == <<payload, prod, prod_event, cons, cons_event, sender, receiver, pending>>

Idx == 0..(IndexMod - 1)

Wrapped(i) == i % IndexMod
Ends == {"sender", "receiver"}
Headers == [type : {"none", "pad", "message"}, size : 0..Bytes]

TypeOK ==
  /\ payload \in [0..(Bytes - 1) -> Headers]
  /\ prod \in Idx /\ prod_event \in Idx /\ cons \in Idx /\ cons_event \in Idx
  /\ sender \in [pc : {"idle", "asking", "noroom", "armed", "granted", "refused", "asleep",
                       "pushed", "pushed refused"},
                 local_prod_pvt : Idx, available : 0..Bytes, want : Sizes \cup {0},
                 seen : Idx, old : Idx]
  /\ receiver \in [pc : {"top", "reading", "finished", "final", "arming", "armed", "asleep"},
                   local_cons_pvt : Idx, seen : Idx, old : Idx]
  /\ pending \in [Ends -> BOOLEAN]

\* Whether the index at is among those from the index from up to new.
Crosses(new, from, at) == Wrapped(new - at) < Wrapped(new - from)
-----------------------------------------------------------------------------
(***************************************************************************)
(* The sender                                                              *)
(***************************************************************************)
Offset(i) == i % Bytes
Space(at) == Bytes - Wrapped(sender.local_prod_pvt - at)

\* A message that ends at the last byte is taken to wrap, too.
WouldWrap(n) == Offset(sender.local_prod_pvt) + n >= Bytes
PadNeeded == Bytes - Offset(sender.local_prod_pvt)

\* The sum is kept in an unsigned short. A slip first: the pad is not asked for.
NeededWithoutPad(n) == n
Needed(n) == IF WouldWrap(n) THEN (n + PadNeeded) % ShortMod ELSE n

\* nc2_can_send_payload_bytes: at once if there is room for the message and a pad.
CanSend(n) ==
  /\ sender.pc = "idle"
  /\ sender' = [sender EXCEPT !.want = n,
                              !.pc = IF sender.available > 2 * n THEN "granted" ELSE "asking"]
  /\ UNCHANGED <<payload, prod, prod_event, cons, cons_event, receiver, pending>>

\* From retry: the room that the receiver has left.
ReadCons ==
  /\ sender.pc = "asking"
  /\ sender' = IF Space(cons) >= Needed(sender.want)
               THEN [sender EXCEPT !.pc = "granted", !.available = Space(cons)]
               ELSE [sender EXCEPT !.pc = "noroom", !.seen = cons]
  /\ UNCHANGED <<payload, prod, prod_event, cons, cons_event, receiver, pending>>

ArmConsEvent ==
  /\ sender.pc = "noroom"
  /\ cons_event' = Wrapped(sender.seen + 1)
  /\ sender' = [sender EXCEPT !.pc = "armed"]
  /\ UNCHANGED <<payload, prod, prod_event, cons, receiver, pending>>

\* A slip: what the receiver finished meanwhile is not looked at.
RetryNot ==
  /\ sender.pc = "armed"
  /\ sender' = [sender EXCEPT !.pc = "refused", !.seen = 0]
  /\ UNCHANGED <<payload, prod, prod_event, cons, cons_event, receiver, pending>>

Retry ==
  /\ sender.pc = "armed"
  /\ sender' = [sender EXCEPT !.pc = IF cons # sender.seen THEN "asking" ELSE "refused",
                              !.seen = 0]
  /\ UNCHANGED <<payload, prod, prod_event, cons, cons_event, receiver, pending>>

\* What a message takes of local_prod_bytes_available, a slip first: the pad is for free.
TakenWithoutPad(pad, n) == n
Taken(pad, n) == pad + n

\* __nc2_avoid_ring_wrap and __nc2_send_pad, then the message at __nc2_get_message_ptr.
Send ==
  /\ sender.pc = "granted"
  /\ LET n == sender.want
         pad == IF WouldWrap(n) THEN PadNeeded ELSE 0
         at == Wrapped(sender.local_prod_pvt + pad)
         padded == [payload EXCEPT ![Offset(sender.local_prod_pvt)] = [type |-> "pad", size |-> pad]]
     IN  /\ payload' = [padded EXCEPT ![Offset(at)] = [type |-> "message", size |-> n]]
         /\ sender' = [sender EXCEPT !.pc = "idle", !.want = 0, !.available = @ - Taken(pad, n),
                                     !.local_prod_pvt = Wrapped(at + n)]
  /\ UNCHANGED <<prod, prod_event, cons, cons_event, receiver, pending>>

\* nc2_flush_ring up to the barrier.
Flush ==
  /\ sender.pc \in {"idle", "refused"} /\ sender.local_prod_pvt # prod
  /\ prod' = sender.local_prod_pvt
  /\ sender' = [sender EXCEPT !.old = prod,
                              !.pc = IF @ = "idle" THEN "pushed" ELSE "pushed refused"]
  /\ UNCHANGED <<payload, prod_event, cons, cons_event, receiver, pending>>

\* Behind it, and the notification it asks for.
NotifyReceiver ==
  /\ sender.pc \in {"pushed", "pushed refused"}
  /\ pending' = [pending EXCEPT !["receiver"] = @ \/ Crosses(prod, sender.old, prod_event)]
  /\ sender' = [sender EXCEPT !.pc = IF @ = "pushed" THEN "idle" ELSE "refused", !.old = 0]
  /\ UNCHANGED <<payload, prod, prod_event, cons, cons_event, receiver>>

SenderSleeps ==
  /\ sender.pc = "refused" /\ sender.local_prod_pvt = prod
  /\ sender' = [sender EXCEPT !.pc = "asleep"]
  /\ UNCHANGED <<payload, prod, prod_event, cons, cons_event, receiver, pending>>

SenderWakes ==
  /\ sender.pc = "asleep" /\ pending["sender"]
  /\ pending' = [pending EXCEPT !["sender"] = FALSE]
  /\ sender' = [sender EXCEPT !.pc = "asking"]
  /\ UNCHANGED <<payload, prod, prod_event, cons, cons_event, receiver>>
-----------------------------------------------------------------------------
(***************************************************************************)
(* The receiver                                                            *)
(***************************************************************************)
ReadProd ==
  /\ receiver.pc = "top"
  /\ receiver' = [receiver EXCEPT !.pc = "reading", !.seen = prod]
  /\ UNCHANGED <<payload, prod, prod_event, cons, cons_event, sender, pending>>

\* __nc2_incoming_message: a pad is skipped like a message.
IncomingMessage == payload[Offset(receiver.local_cons_pvt)]

ReadMessage ==
  /\ receiver.pc = "reading" /\ receiver.local_cons_pvt # receiver.seen
  /\ receiver' = [receiver EXCEPT !.local_cons_pvt = Wrapped(@ + IncomingMessage.size)]
  /\ UNCHANGED <<payload, prod, prod_event, cons, cons_event, sender, pending>>

\* nc2_finish_messages up to the barrier.
FinishMessages ==
  /\ receiver.pc = "reading" /\ receiver.local_cons_pvt = receiver.seen
  /\ cons' = receiver.local_cons_pvt
  /\ receiver' = [receiver EXCEPT !.pc = "finished", !.old = cons]
  /\ UNCHANGED <<payload, prod, prod_event, cons_event, sender, pending>>

NotifySender ==
  /\ receiver.pc = "finished"
  /\ pending' = [pending EXCEPT !["sender"] = @ \/ Crosses(cons, receiver.old, cons_event)]
  /\ receiver' = [receiver EXCEPT !.pc = "final", !.old = 0]
  /\ UNCHANGED <<payload, prod, prod_event, cons, cons_event, sender>>

\* nc2_final_check_for_messages: 1 if there is more.
FinalCheck ==
  /\ receiver.pc = "final"
  /\ receiver' = [receiver EXCEPT !.pc = IF prod # receiver.seen THEN "top" ELSE "arming"]
  /\ UNCHANGED <<payload, prod, prod_event, cons, cons_event, sender, pending>>

ArmProdEvent ==
  /\ receiver.pc = "arming"
  /\ prod_event' = Wrapped(receiver.seen + 1)
  /\ receiver' = [receiver EXCEPT !.pc = "armed"]
  /\ UNCHANGED <<payload, prod, cons, cons_event, sender, pending>>

CheckAgain ==
  /\ receiver.pc = "armed"
  /\ receiver' = [receiver EXCEPT !.pc = IF prod # receiver.seen THEN "top" ELSE "asleep"]
  /\ UNCHANGED <<payload, prod, prod_event, cons, cons_event, sender, pending>>

ReceiverWakes ==
  /\ receiver.pc = "asleep" /\ pending["receiver"]
  /\ pending' = [pending EXCEPT !["receiver"] = FALSE]
  /\ receiver' = [receiver EXCEPT !.pc = "top"]
  /\ UNCHANGED <<payload, prod, prod_event, cons, cons_event, sender>>

Init ==
  /\ payload = [i \in 0..(Bytes - 1) |-> [type |-> "none", size |-> 0]]
  /\ prod = 0 /\ prod_event = 1 /\ cons = 0 /\ cons_event = 1
  /\ sender = [pc |-> "idle", local_prod_pvt |-> 0, available |-> 0, want |-> 0,
               seen |-> 0, old |-> 0]
  /\ receiver = [pc |-> "top", local_cons_pvt |-> 0, seen |-> 0, old |-> 0]
  /\ pending = [e \in Ends |-> FALSE]

SenderStep ==
  \/ ReadCons \/ ArmConsEvent \/ Retry \/ Send
  \/ Flush \/ NotifyReceiver \/ SenderSleeps \/ SenderWakes

ReceiverStep ==
  \/ ReadProd \/ ReadMessage \/ FinishMessages \/ NotifySender
  \/ FinalCheck \/ ArmProdEvent \/ CheckAgain \/ ReceiverWakes

Next == (\E n \in Sizes : CanSend(n)) \/ SenderStep \/ ReceiverStep

\* Both ends go on with what they are at; no one has to send another message.
Fairness == WF_vars(SenderStep) /\ WF_vars(ReceiverStep)

Spec == Init /\ [][Next]_vars /\ Fairness
-----------------------------------------------------------------------------
(***************************************************************************)
(* Correctness                                                             *)
(***************************************************************************)
\* A message may have a pad in front.
Unpadded(i) ==
  IF payload[Offset(i)].type = "pad" THEN Wrapped(i + payload[Offset(i)].size) ELSE i
Following == [i \in Idx |-> Wrapped(Unpadded(i) + payload[Offset(Unpadded(i))].size)]

\* The messages from one index up to another (Bytes of them, if the headers do not lead there).
Stream(from, to) ==
  LET walk[k \in Nat] == IF k = 0 THEN from ELSE Following[walk[k - 1]]
      count == CHOOSE n \in 0..Bytes :
                 (walk[n] = to \/ n = Bytes) /\ \A k \in 0..(n - 1) : walk[k] # to
  IN  [k \in 1..count |-> payload[Offset(Unpadded(walk[k - 1]))]]

Contained(i, header) == header.size > 0 /\ Offset(i) + header.size <= Bytes

\* From the next index to read up to the next to write.
Unread ==
  {i \in Idx : Wrapped(i - receiver.local_cons_pvt) <=
                 Wrapped(sender.local_prod_pvt - receiver.local_cons_pvt)}

\* Every message the receiver will come to lies in the ring in one piece, where a header
\* says so, and ends where the next one starts, or where the sender is: nothing unread was
\* written over.
OnePiece ==
  \E starts \in SUBSET Unread :
    /\ receiver.local_cons_pvt \in starts
    /\ \A i \in starts \ {sender.local_prod_pvt} :
         LET header == payload[Offset(i)]
         IN  /\ Contained(i, header)
             /\ header.size <= Wrapped(sender.local_prod_pvt - i)
             /\ Wrapped(i + header.size) \in starts

\* The count of free bytes that saves the sender a look at cons may be old, but never
\* promises more than there is, pads and all.
SpaceIsThere == sender.available <= Space(cons)

\* "Can we send a message with @nr_bytes payload bytes? Returns 1 if we can" (vring.h:350): who
\* is granted a message has room for it and for the pad it needs.
GrantMeansRoom ==
  sender.pc = "granted" =>
    Space(cons) >= sender.want + (IF WouldWrap(sender.want) THEN PadNeeded ELSE 0)

\* Whoever sleeps has nothing to wait for, or its event is on the way.
NoWakeUpLost ==
  /\ receiver.pc = "asleep" /\ prod # receiver.local_cons_pvt =>
       \/ pending["receiver"]
       \/ /\ sender.pc \in {"pushed", "pushed refused"}
          /\ Crosses(prod, sender.old, prod_event)
  /\ sender.pc = "asleep" /\ Space(cons) >= Needed(sender.want) =>
       \/ pending["sender"]
       \/ receiver.pc = "finished" /\ Crosses(cons, receiver.old, cons_event)

\* What holds of the ring whatever its ends are at, if SizesFit.
MessagesSafe == TypeOK /\ OnePiece /\ SpaceIsThere /\ NoWakeUpLost

\* Pads, sizes, indices and events do not show: what is read is what was written, in order.
Channel == INSTANCE MessageChannel WITH
  Messages <- Headers,
  written <- Stream(prod, sender.local_prod_pvt),
  flushed <- Stream(receiver.local_cons_pvt, prod)

ImplementsChannel == Channel!Spec

\* A sender that waits for room gets it, if the message is no longer than half of the ring.
\* (A longer one and the pad it needs at some places are more than the ring holds.)
RoomIsFound ==
  \A n \in Sizes :
    2 * n <= Bytes /\ sender.pc = "asking" /\ sender.want = n ~> sender.pc = "granted"
=============================================================================
