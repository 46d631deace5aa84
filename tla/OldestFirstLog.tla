--------------------------- MODULE OldestFirstLog ---------------------------
(***************************************************************************)
(* What a rotating log promises to whoever reads it after an incident: the *)
(* records still on the disk are the most recent ones, without a gap.      *)
(* Records are numbered in the order they were written.                    *)
(***************************************************************************)
EXTENDS Integers

VARIABLES
  kept,    \* the records that can still be read
  last     \* number of the last record written

vars == <<kept, last>>

Init == kept = {} /\ last = 0

Append ==
  /\ last' = last + 1
  /\ kept' = kept \cup {last'}

\* Space is reclaimed from the old end only.
Discard ==
  /\ \E oldest \in kept : kept' = {r \in kept : r > oldest}
  /\ UNCHANGED last

Next == Append \/ Discard

Spec == Init /\ [][Next]_vars
=============================================================================
