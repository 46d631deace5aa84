--------------------------- MODULE MessageChannel ---------------------------
(***************************************************************************)
(* What a netchannel2 ring promises: messages written by one end and       *)
(* flushed are read by the other, each once, in the order of writing.      *)
(***************************************************************************)
EXTENDS Sequences

CONSTANT Messages

VARIABLES
  written,  \* messages the receiver cannot see yet
  flushed   \* messages the receiver has still to read

vars == <<written, flushed>>

Init == written = <<>> /\ flushed = <<>>

Write == \E m \in Messages : written' = Append(written, m) /\ UNCHANGED flushed
Flush == flushed' = flushed \o written /\ written' = <<>>
Read == flushed # <<>> /\ flushed' = Tail(flushed) /\ UNCHANGED written

Next == Write \/ Flush \/ Read

Spec == Init /\ [][Next]_vars
=============================================================================
