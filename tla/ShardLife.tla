------------------------------ MODULE ShardLife -------------------------------
(***************************************************************************)
(* The life of one shard as its clients see it: the state that GET /status *)
(* reports, and whether the supervisor answers at all.  Module Supervisor  *)
(* implements the life of one supervisor process, which never comes back;  *)
(* docker's restart policy starts the next one (Restart).  Module          *)
(* Dashboard is built from one ShardLife per shard.                        *)
(***************************************************************************)
VARIABLES
  state,  \* Supervisor.State
  up      \* the supervisor runs

\* State before and after the launch of the first DST.  Once it is launched,
\* requests, the readiness reporters and the end of main move State as they
\* like, but never back to the start-up.
Early  == {"preparing", "installing"}
Later  == {"starting", "running", "stopping", "stopped"}
States == Early \cup Later

Init == state = "preparing" /\ up = TRUE

Prepared  == up /\ state = "preparing" /\ state' = "installing" /\ UNCHANGED up
Installed == up /\ state = "installing" /\ state' = "starting" /\ UNCHANGED up

Moves == up /\ state \in Later /\ state' \in Later /\ UNCHANGED up

(* The supervisor exits; a regular end stores "stopped" before.            *)
Ends ==
  /\ up /\ up' = FALSE
  /\ state' = state \/ (state \in Later /\ state' = "stopped")

(* The container is started again, with a new supervisor.                  *)
Restart == ~up /\ up' = TRUE /\ state' = "preparing"

Next == Prepared \/ Installed \/ Moves \/ Ends \/ Restart

Spec == Init /\ [][Next]_<<state, up>>
=============================================================================
