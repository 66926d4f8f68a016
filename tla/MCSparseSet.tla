------------------------------ MODULE MCSparseSet ------------------------------
(* Four entities and two values: erasures at the front, in the middle and   *)
(* at the end, of lists of up to five, leftovers of second insertions too.  *)
EXTENDS SparseSet
==============================================================================
