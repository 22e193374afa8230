------------------------------ MODULE MCUDPv4 ------------------------------
(* Two findnodes, f and g, wait for neighbors of n1, which b pings back. *)
EXTENDS UDPv4Replies, TLC

CONSTANTS n1, n2, f, g, b

MCNodeOf == (f :> n1) @@ (g :> n1) @@ (b :> n1)
MCKindOf == (f :> "findnode") @@ (g :> "findnode") @@ (b :> "ping")
=============================================================================
