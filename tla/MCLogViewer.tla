----------------------------- MODULE MCLogViewer ------------------------------
(* LogViewer for model checking; see the .cfg files for the constants.     *)
EXTENDS LogViewer
=============================================================================
