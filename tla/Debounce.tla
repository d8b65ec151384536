------------------------------ MODULE Debounce ------------------------------
(***************************************************************************)
(* What the health check of one store promises its readers, without saying *)
(* how it counts: the mode changes only when an unbroken run of checks,    *)
(* Threshold(mode) long, contradicts it, and a process boot is the only    *)
(* other way back to "primary".  FailoverMonitor implements it.            *)
(***************************************************************************)
EXTENDS Naturals

CONSTANTS FailureThreshold,    \* failed checks in a row that fail over
          RecoveryThreshold    \* good checks in a row that fail back

VARIABLES mode,      \* the database or cache requests are routed to
          against    \* checks in a row that contradict the mode

vars == <<mode, against>>

Other(m) == IF m = "primary" THEN "local" ELSE "primary"

Threshold(m) == IF m = "primary" THEN FailureThreshold ELSE RecoveryThreshold

Init == mode = "primary" /\ against = 0

(* A check agrees with the mode: the run of evidence against it is broken. *)
Confirm == against' = 0 /\ UNCHANGED mode

(* A check contradicts the mode, but not yet often enough. *)
Contradict ==
  /\ against + 1 < Threshold(mode)
  /\ against' = against + 1
  /\ UNCHANGED mode

(* The check that completes the run switches the mode. *)
Switch ==
  /\ against + 1 = Threshold(mode)
  /\ mode' = Other(mode)
  /\ against' = 0

(* The mode lives in the process: a new process starts on the primary. *)
Boot == mode' = "primary" /\ against' = 0

Next == Confirm \/ Contradict \/ Switch \/ Boot

Spec == Init /\ [][Next]_vars
=============================================================================
