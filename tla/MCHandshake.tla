---------------------------- MODULE MCHandshake ----------------------------
(* Two nodes: a1 and a2 are calls of node a, b1 is one of node b.          *)
EXTENDS Handshake, TLC

CONSTANTS a, b, a1, a2, b1

MCFrom == (a1 :> a) @@ (a2 :> a) @@ (b1 :> b)
MCTo == (a1 :> b) @@ (a2 :> b) @@ (b1 :> a)

(* The record of node a changes once.                                      *)
MCMaxSeq == (a :> 2) @@ (b :> 1)

(* a1 and a2 may be exchanged.                                             *)
Exchange == {(a1 :> a2) @@ (a2 :> a1)}
=============================================================================
