--------------------------- MODULE DatagramQueue ----------------------------
(***************************************************************************)
(* What a V4V ring promises its reader: datagrams one by one, as they were *)
(* sent, each staying until it is consumed.                                *)
(***************************************************************************)
EXTENDS Sequences

CONSTANT Datagrams

VARIABLE queue

Init == queue = <<>>
Send == \E d \in Datagrams : queue' = Append(queue, d)
Consume == queue # <<>> /\ queue' = Tail(queue)
Next == Send \/ Consume

Spec == Init /\ [][Next]_queue
=============================================================================
