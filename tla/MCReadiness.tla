----------------------------- MODULE MCReadiness ------------------------------
(* Readiness on one restart; see the .cfg files for the constants.         *)
EXTENDS Readiness
=============================================================================
