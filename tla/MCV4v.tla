------------------------------- MODULE MCV4v -------------------------------
(***************************************************************************)
(* The three programs of the V4V headers, which share nothing: a behaviour *)
(* is one of the kernel client, of the user mode API or of the reader of a *)
(* ring.                                                                   *)
(***************************************************************************)
EXTENDS V4vRing, V4vKernel, V4vUser, TLC

VARIABLE part

V4vInit ==
  /\ part \in {"ring", "kernel", "user"}
  /\ RingInit /\ Init /\ UserInit
  /\ part # "kernel" => ~zeroes
  /\ part # "user" => \A c \in Contexts : ~context[c].overlapped

ReaderNext == part = "ring" /\ RingNext /\ UNCHANGED <<part, vars, userVars>>
KernelNext == part = "kernel" /\ Next /\ UNCHANGED <<part, ringVars, userVars>>
ContextNext == part = "user" /\ UserNext /\ UNCHANGED <<part, ringVars, vars>>
V4vNext == ReaderNext \/ KernelNext \/ ContextNext

V4vSpec == V4vInit /\ [][V4vNext]_<<part, ringVars, vars, userVars>>

Symmetry == Permutations(Contexts)
=============================================================================
