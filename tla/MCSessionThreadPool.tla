------------------------- MODULE MCSessionThreadPool -------------------------
(* Two workers and two sessions: a worker may take both tasks of a batch,  *)
(* and batches of every size 0..2 follow one another.                      *)
EXTENDS SessionThreadPool
==============================================================================
