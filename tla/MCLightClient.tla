--------------------------- MODULE MCLightClient ---------------------------
(***************************************************************************)
(* The sync service with small numbers: periods of four slots, so that     *)
(* skip sync, the timeout, the rotation of the committees and the reset of *)
(* the participation maxima all happen within three or four periods.       *)
(***************************************************************************)
EXTENDS LightClientSync

NoFaults == {}

(* The full node, the calls to it, the disk and early clients misbehave.   *)
AllFaults == FaultKinds
===========================================================================
