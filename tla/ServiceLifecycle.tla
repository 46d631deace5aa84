-------------------------- MODULE ServiceLifecycle --------------------------
(***************************************************************************)
(* What the service control manager (and everybody who asks it) may see of *)
(* a service: it starts, runs, is told to stop and stops, in this order.   *)
(* A service that was seen stopping is never seen running again, and one   *)
(* that was seen stopped stays so until it is started.  Only the end of    *)
(* its process makes a service skip a state.                               *)
(***************************************************************************)
VARIABLES
  state,   \* what is recorded of the service
  alive    \* its process exists

States == {"stopped", "startPending", "running", "stopPending"}

Init == state = "stopped" /\ alive = FALSE

Start ==
  /\ state = "stopped" /\ state' = "startPending"
  /\ ~ alive /\ alive' = TRUE

Report(from, to) ==
  /\ state = from /\ state' = to
  /\ alive /\ UNCHANGED alive

Started == Report("startPending", "running")
Stopping == Report("running", "stopPending")
Stopped == Report("stopPending", "stopped")

End ==
  /\ alive /\ alive' = FALSE
  /\ state' = "stopped"

Next == Start \/ Started \/ Stopping \/ Stopped \/ End

Spec == Init /\ [][Next]_<<state, alive>>
=============================================================================
