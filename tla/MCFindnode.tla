---------------------------- MODULE MCFindnode ----------------------------
(***************************************************************************)
(* IDs of four bits; the distances 1 to 3 share a bucket.  Self is a node  *)
(* that Dest may know, and like node 6 on the local network.               *)
(*                                                                         *)
(* FINDNODE, the TALK extension and Merkle branches have no state in       *)
(* common: each behaviour has one of the three.  Their actions are listed  *)
(* one by one so that TLC counts the steps of each.                        *)
(***************************************************************************)
EXTENDS Findnode, TalkExt, MerkleBranches

(* Names of protocols without and with a dash.                             *)
Names == {<<"talk">>, <<"talk", "sctp">>}

(* One of the initial states of Findnode, for the other two.               *)
quiet == pc = "idle" /\ inTable = {} /\ ~lowPort

findnode == messages = <<>> /\ phase = "none" /\ UNCHANGED <<talkVars, merkleVars>>
talk == quiet /\ phase = "none" /\ UNCHANGED <<vars, merkleVars>>
merkle == quiet /\ messages = <<>> /\ UNCHANGED <<vars, talkVars>>

RequestsInit == Init /\ TalkInit /\ MerkleInit

RequestsNext ==
  \/ (\E t \in Target : lookupWorker(t)) /\ findnode
  \/ (\E s \in 1 .. seq, intable \in 0 .. seq : Resolve(s, intable)) /\ findnode
  \/ handleFindnode /\ findnode
  \/ collectTableNodes /\ findnode
  \/ sendNodes /\ findnode
  \/ (\E p \in net : receiveNodes(p, FALSE) /\ UNCHANGED faults) /\ findnode
  \/ (\E p \in net : receiveNodes(p, TRUE) /\ fault) /\ findnode
  \/ (\E e \in {"timeout", "closed"} : callFails(e)) /\ findnode
  \/ (\E rn \in 0 .. seq : resolveLookup(rn)) /\ findnode
  \/ newRecord /\ findnode
  \/ (\E n \in Other : tableAdds(n)) /\ findnode
  \/ (\E n \in Other : tableDrops(n)) /\ findnode
  \/ loseRequest /\ findnode
  \/ doubleRequest /\ findnode
  \/ (\E p \in net : loseNodes(p)) /\ findnode
  \/ talk /\ \E proc \in Protocol, n \in Length : newMessage(proc, n)
  \/ talk /\ \E id \in DOMAIN messages : \E p \in requestsOf(id) : handleTalkExt(p)
  \/ merkle /\ \E p \in fieldPaths(BeaconStateAltairType) : fieldIndex(p)
  \/ merkle /\ branchOfIndex
  \/ merkle /\ \E i \in 0 .. Len(BeaconStateAltairType) - 1 : Proof(i)
  \/ merkle /\ \E def \in smallTypes : receivedBranch(def)
  \/ merkle /\ Verify

RequestsSpec == RequestsInit /\ [][RequestsNext]_<<vars, talkVars, merkleVars>>
===========================================================================
