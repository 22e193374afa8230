------------------------------ MODULE MCUDPv5 ------------------------------
(***************************************************************************)
(* Calls c1 and c2 queue up at node n1; where there is a c3, it goes to n2 *)
(* at the same time.                                                       *)
(***************************************************************************)
EXTENDS UDPv5Refinement, TLC

CONSTANTS n1, n2, c1, c2, c3

OneCall == c1 :> n1
TwoCalls == (c1 :> n1) @@ (c2 :> n1)
ThreeCalls == (c1 :> n1) @@ (c2 :> n1) @@ (c3 :> n2)

(* c1 and c2 are interchangeable in the three maps but OneCall.            *)
Symmetry == Permutations({c1, c2})
===========================================================================
