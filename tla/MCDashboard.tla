----------------------------- MODULE MCDashboard ------------------------------
(***************************************************************************)
(* The cluster of docker-compose.yml for TLC: two shards, in the order of  *)
(* DST_BACKENDS (Overworld, Caves) and, in the JSON object, by name.  A    *)
(* server.ini has a true is_master line, and maybe a later one that takes  *)
(* it back.                                                                *)
(***************************************************************************)
EXTENDS Dashboard
CONSTANTS overworld, caves

MCShards  == <<overworld, caves>>
MCEntries == <<caves, overworld>>
MCFiles   == {<<"true">>, <<"true", "false">>}
MCIni     == [s \in {overworld, caves} |->
                IF s = overworld THEN <<"true">> ELSE <<"true", "false">>]
=============================================================================
