----------------------------- MODULE MCLogBuffer ------------------------------
(* LogBuffer with two writers; see the .cfg file for the constants.        *)
EXTENDS LogBuffer
=============================================================================
