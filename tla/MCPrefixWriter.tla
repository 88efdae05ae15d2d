---------------------------- MODULE MCPrefixWriter ----------------------------
(* PrefixWriter on short streams; see the .cfg file for the constants.     *)
EXTENDS PrefixWriter
=============================================================================
