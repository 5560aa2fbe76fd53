------------------------------ MODULE MCClient ------------------------------
(***************************************************************************)
(* The client, one scene at a time: its connection with every call the     *)
(* program can make, or the data it keeps over connections that come and   *)
(* go.                                                                     *)
(***************************************************************************)
EXTENDS Reconnection, ClientData

VARIABLE scene

clientVars == <<scene, reconnectionVars, dataVars>>

TheBatches == <<<<"item_desc">>, <<"skill_desc">>>>

Init == scene \in {"connection", "tables", "static data", "latency"} /\ RInit /\ DInit

ConnectionScene == scene = "connection" /\ RNext /\ UNCHANGED dataVars
TablesScene ==
    scene = "tables" /\ (SessionNext \/ TablesNext) /\ UNCHANGED reconnectionVars
LoaderScene ==
    scene = "static data" /\ (SessionNext \/ LoaderNext) /\ UNCHANGED reconnectionVars
LatencyScene == scene = "latency" /\ LatencyNext /\ UNCHANGED reconnectionVars

Next == (ConnectionScene \/ TablesScene \/ LoaderScene \/ LatencyScene) /\ UNCHANGED scene

Spec == Init /\ [][Next]_clientVars

=============================================================================
