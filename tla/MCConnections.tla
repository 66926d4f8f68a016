--------------------------- MODULE MCConnections ----------------------------
(* Two clients with two packets each, a connect and a request: either can  *)
(* be served, kicked by itself or by the other, or break at every step of  *)
(* what the server does with the other, and one batch can hold all four    *)
(* packets.                                                                *)
EXTENDS Connections
=============================================================================
