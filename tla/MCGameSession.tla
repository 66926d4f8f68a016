----------------------------- MODULE MCGameSession -----------------------------
(* Two players with two lives each; campaigns of four levels, of which the  *)
(* second is skipped unless the game starts with it.                        *)
EXTENDS GameSession
================================================================================
