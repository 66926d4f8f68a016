----------------------------- MODULE MCReplication -----------------------------
(* The client's ship, one of another player that looks like it, an enemy    *)
(* and its shot, over a network that loses and reorders.                    *)
EXTENDS Replication, TLC

MCIds == 1..4
MCKind == <<"ship", "ship", "enemy", "shot">>
MCPilot == <<1, 17>>
MCShooter == (4 :> 3)
==============================================================================
