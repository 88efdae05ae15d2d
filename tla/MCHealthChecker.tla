---------------------------- MODULE MCHealthChecker ---------------------------
(* HealthChecker on three launches; see the .cfg file for the constants.   *)
EXTENDS HealthChecker
=============================================================================
