----------------------------- MODULE MCGameServer -----------------------------
(* Three players, one matchmaking mode for two, rooms for three: a          *)
(* player of a running game who starts another, through a room or a lobby,  *)
(* and a room that is left and joined around its own start.                 *)
EXTENDS GameServer, TLC

CONSTANTS Duo

MCCapacity == (Duo :> 2)
Symmetry == Permutations(Players)
==============================================================================
