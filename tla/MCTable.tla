------------------------------ MODULE MCTable ------------------------------
(* Node w falls into bucket b2, the others into b1.  v is on the LAN, the  *)
(* others have an address in network A; x may move between A and the LAN.  *)
EXTENDS TableLoop, TLC

CONSTANTS v, w, x, y, z, b1, b2, A, vl, wa, xa, xl, ya, za

MCID == {v, w, x, y, z}
MCIP == {vl, wa, xa, xl, ya, za}
MCEndpoint ==
  (v :> {vl}) @@ (w :> {wa}) @@ (x :> {xa, xl}) @@ (y :> {ya}) @@ (z :> {za})
MCbucketOf == [id \in MCID |-> IF id = w THEN b2 ELSE b1]
MCnetOf == [ip \in MCIP |-> IF ip \in {vl, xl} THEN LAN ELSE A]

(* y and z may be exchanged, with their addresses.                         *)
Exchange == {(y :> z) @@ (z :> y) @@ (ya :> za) @@ (za :> ya)}

(* For the loop alone: one node that stays where it is.                    *)
OneEndpoint == x :> {xa}
OneBucketOf == x :> b1
=============================================================================
