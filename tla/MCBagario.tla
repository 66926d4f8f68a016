------------------------------- MODULE MCBagario -------------------------------
(* Two players with up to three cells each.  Masses of one to three units:  *)
(* a cell of two splits and eats one of one, a cell of three splits on the  *)
(* virus and ejects.                                                        *)
EXTENDS Bagario, TLC

PlayerSymmetry == Permutations(Players)
=============================================================================
