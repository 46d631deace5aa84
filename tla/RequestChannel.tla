--------------------------- MODULE RequestChannel ---------------------------
(***************************************************************************)
(* What a shared ring promises its two ends: requests reach the back end,  *)
(* and responses the front end, in the order they were sent, none twice,   *)
(* and never more of them together than the ring holds. An end that is     *)
(* restarted forgets what was on its way to it.                            *)
(***************************************************************************)
EXTENDS Naturals, Sequences

CONSTANTS Requests, Capacity

VARIABLES
  sent,      \* requests on their way to the back end
  working,   \* requests the back end has taken
  answered   \* responses on their way to the front end

vars == <<sent, working, answered>>

Init == sent = <<>> /\ working = <<>> /\ answered = <<>>

Send ==
  /\ \E n \in 1..Capacity : \E batch \in [1..n -> Requests] : sent' = sent \o batch
  /\ Len(sent') + Len(working) + Len(answered) <= Capacity
  /\ UNCHANGED <<working, answered>>

Take ==
  /\ sent # <<>>
  /\ sent' = Tail(sent) /\ working' = Append(working, Head(sent))
  /\ UNCHANGED answered

Answer ==
  /\ \E n \in 1..Len(working) :
       /\ answered' = answered \o SubSeq(working, 1, n)
       /\ working' = SubSeq(working, n + 1, Len(working))
  /\ UNCHANGED sent

Complete ==
  /\ answered # <<>> /\ answered' = Tail(answered)
  /\ UNCHANGED <<sent, working>>

RestartFront == answered' = <<>> /\ UNCHANGED <<sent, working>>
RestartBack == sent' = <<>> /\ working' = <<>> /\ UNCHANGED answered

Next == Send \/ Take \/ Answer \/ Complete \/ RestartFront \/ RestartBack

Spec == Init /\ [][Next]_vars
=============================================================================
