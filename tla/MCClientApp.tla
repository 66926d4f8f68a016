------------------------------ MODULE MCClientApp ------------------------------
(* Two rooms of two places, the second behind a password, one other player, *)
(* three messages under way: the end of a game may come twice, and a join   *)
(* and a leave may be under way while a game starts.                        *)
EXTENDS ClientApp
==============================================================================
