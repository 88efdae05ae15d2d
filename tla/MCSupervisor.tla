----------------------------- MODULE MCSupervisor -----------------------------
(* Constants and symmetry for model checking Supervisor.                   *)
EXTENDS Supervisor, TLC

\* Requests of one kind are interchangeable.
RequestSymmetry == Permutations(Restarters) \cup Permutations(Stoppers)

=============================================================================
