---------------------------- MODULE MCPlayerTracker ---------------------------
(* Constants and symmetry for model checking PlayerTracker.                *)
EXTENDS PlayerTracker, TLC

\* Players are interchangeable, and so are Restarts.
Symmetry == Permutations(Players) \cup Permutations(Restarts)
=============================================================================
