------------------------------ MODULE PlayerIds ------------------------------
(***************************************************************************)
(* The ids the server gives to the players who connect.  Rooms, lobbies    *)
(* and sessions know a player by it.                                       *)
(***************************************************************************)
CONSTANT Players
==============================================================================
