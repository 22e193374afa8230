----------------------------- MODULE MCLookup -----------------------------
(* Five nodes and, at distance 3 of the target, the local one.  The table  *)
(* knows the far nodes, and they know nearer ones.                         *)
EXTENDS Lookup

MCNeighbours ==
  [n \in {1, 2, 4, 5, 6} |->
     CASE n = 6 -> {2, 4} [] n = 5 -> {1, 3, 6} [] n = 4 -> {1, 2} [] OTHER -> {3, 4}]
===========================================================================
