------------------------------- MODULE MCCombat -------------------------------
(* Two players and three ships, two ordinary enemies and a kamikaze, a      *)
(* bullet and a bonus: several hits in one tick, a wreck that is hit again, *)
(* the levels gained and, after a respawn, lost and regained.               *)
EXTENDS Combat, TLC

MCThresholds == <<0, 2, 4>>
Symmetry == Permutations(Players) \cup Permutations(Ships) \cup Permutations(Enemies \ Kamikazes)
==============================================================================
