--------------------------- MODULE MCHealthChecker ---------------------------
(* Instances of HealthChecker for TLC. *)
EXTENDS HealthChecker
CONSTANTS k1, k2, k3
=============================================================================
