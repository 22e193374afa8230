-------------------------- MODULE UDPv5Refinement --------------------------
(***************************************************************************)
(* The dispatch goroutine, its tables and its channels, seen as the lines  *)
(* of SerialCalls: the active call of a node is the first in its line, the *)
(* calls of callQueue stand behind it.                                     *)
(***************************************************************************)
EXTENDS UDPv5Dispatch

lineOf(n) ==
  IF activeCallByNode[n] = NoCall THEN callQueue[n]
  ELSE <<activeCallByNode[n]>> \o callQueue[n]

Calls == INSTANCE SerialCalls WITH
  state <- pc,
  answered <- ch,
  error <- err,
  line <- [n \in Node |-> lineOf(n)]

(* The transport implements SerialCalls: whatever order the transfers on   *)
(* callCh, callDoneCh, respTimeoutCh and packetInCh take, a response or an *)
(* error reaches no call but the first of its node, and none whose caller  *)
(* is gone; calls are served in the order dispatch took them, callDone     *)
(* finds its call active, and Close takes each call out with an error.     *)
ImplementsSerialCalls == Calls!Spec
===========================================================================
