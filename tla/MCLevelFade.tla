----------------------------- MODULE MCLevelFade -----------------------------
(* Three levels and three messages under way, any of them lost, doubled or  *)
(* out of order, of games that follow or replace one another; the handshake *)
(* may be late or lost.                                                     *)
EXTENDS LevelFade
==============================================================================
