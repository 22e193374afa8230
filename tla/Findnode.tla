----------------------------- MODULE Findnode -----------------------------
(***************************************************************************)
(* FINDNODE and its answer (pkg/discover/v5_udp.go): lookupWorker and      *)
(* Resolve on the node Self, handleFindnode on the node Dest, and between  *)
(* them packets that get lost, doubled and delivered out of order.         *)
(*                                                                         *)
(* IDs are the numbers below 2^hashBits, distances are enode.LogDist.      *)
(* Self makes one request; what the call under it does (queue, handshake,  *)
(* timers) is in UDPv5Dispatch, and of the errors it may return all are    *)
(* possible at any time.  A packet that comes after the call has returned  *)
(* is ignored by handleCallResponse and stays in net here.                 *)
(***************************************************************************)
EXTENDS Integers, Sequences, FiniteSetsExt

CONSTANTS
  hashBits, nBuckets, bucketSize,
  lookupRequestLimit, findnodeResultLimit,
  totalNodesResponseLimit, nodesResponseItemLimit,
  Self, Dest,       \* the node that asks, the node that answers
  Other,            \* the nodes the table of Dest may hold
  Target,           \* what lookups look for
  LAN,              \* nodes with an address of the local network
  MaxSeq,           \* bound: records Dest makes of itself
  MaxChanges,       \* bound: changes of Dest's table
  MaxFaults         \* bound: packets lost and doubled

(* The powers of 2.                                                        *)
pow2[d \in 0 .. hashBits] == IF d = 0 THEN 1 ELSE 2 * pow2[d - 1]

ID == 0 .. pow2[hashBits] - 1

bucketMinDistance == hashBits - nBuckets

ASSUME FindnodeAssumption ==
  /\ hashBits \in Nat /\ nBuckets \in 1 .. hashBits
  /\ lookupRequestLimit \in 1 .. hashBits - 1
  /\ nodesResponseItemLimit \in Nat \ {0} /\ totalNodesResponseLimit \in Nat \ {0}
  /\ findnodeResultLimit \in Nat \ {0} /\ bucketSize \in 0 .. findnodeResultLimit
  /\ Other \subseteq ID /\ Target \subseteq ID
  /\ Self \in ID /\ Dest \in ID \ Other /\ Self # Dest

VARIABLES
  entries,          \* the buckets of Dest's table
  lowPort,          \* the UDP port of Dest is 1024 or less
  seq,              \* of Dest's own record
  handling,         \* Dest is in handleFindnode
  todo, found,      \* distances left and nodes collected so far
  seqFound,         \* of the record of Dest that is among them
  answers,          \* the answers Dest has sent
  requests,         \* FINDNODE packets on their way
  net,              \* NODES packets on their way
  pc,               \* Self is "idle", "waiting", in a "lookup" of Resolve,
                    \* or has "returned"
  op,               \* "lookupWorker" or "Resolve"
  target,
  asked,            \* the record Resolve asks with, by its sequence number
  nodes, received, total,
  seqReceived,      \* of the record of Dest among the nodes received
  err,
  result,           \* the nodes that lookupWorker returns
  resolved,         \* the record that Resolve returns
  given,            \* history: the record Resolve was called with
  published,        \* history: the record Dest had at the time
  stayed,           \* history: in Dest's table since the request was made
  doubled,          \* history: a packet was doubled
  changes, faults

tableVars == <<entries, stayed, changes>>
destVars == <<lowPort, seq>>
answerVars == <<handling, todo, found, seqFound, answers>>
netVars == <<requests, net, doubled, faults>>
askVars == <<op, target, asked, given, published>>
waitVars == <<nodes, received, total, seqReceived, err, result, resolved>>
vars == <<tableVars, destVars, answerVars, netVars, pc, askVars, waitVars>>

---------------------------------------------------------------------------
(* Distances *)

LogDist(a, b) == CHOOSE d \in 0 .. hashBits :
  /\ a \div pow2[d] = b \div pow2[d]
  /\ \A e \in 0 .. d - 1 : a \div pow2[e] # b \div pow2[e]

bucketIndex(d) == IF d <= bucketMinDistance THEN 0 ELSE d - bucketMinDistance - 1

bucketAtDistance(d) == entries[bucketIndex(d)]

(* Mutant: the distance of the target itself is left out.                  *)
firstDistancesNone(td) == <<>>

firstDistances(td) == <<td>>

(* dists[i]: the list after i turns of the loop.                           *)
lookupDistances(t, dest) ==
  LET td == LogDist(t, dest)
      step(i) == (IF td + i < hashBits THEN <<td + i>> ELSE <<>>)
                   \o (IF td - i > 0 THEN <<td - i>> ELSE <<>>)
      dists[i \in 0 .. hashBits] ==
        IF i = 0 THEN firstDistances(td)
        ELSE IF Len(dists[i - 1]) < lookupRequestLimit THEN dists[i - 1] \o step(i)
        ELSE dists[i - 1]
  IN dists[hashBits]

(* What a node at sender may tell about n.                                 *)
CheckRelayIP(sender, n) == n \in LAN => sender \in LAN

---------------------------------------------------------------------------
(* The nodes that belong into the bucket b of Dest's table.                *)
bucketOf(b) == {n \in Other : bucketIndex(LogDist(Dest, n)) = b}

ascending(S) ==
  CHOOSE list \in [1 .. Cardinality(S) -> S] :
    \A i, j \in 1 .. Cardinality(S) : i < j => list[i] < list[j]

Init ==
  /\ \E S \in SUBSET Other :
       entries = [b \in 0 .. nBuckets - 1 |-> ascending(S \cap bucketOf(b))]
  /\ \A b \in DOMAIN entries :
       entries[b] \in Seq(bucketOf(b)) /\ Len(entries[b]) <= bucketSize
  /\ lowPort \in BOOLEAN /\ seq = 2                 \* there is an older record
  /\ handling = FALSE /\ todo = <<>> /\ found = <<>> /\ seqFound = 0 /\ answers = <<>>
  /\ requests = 0 /\ net = {} /\ doubled = FALSE /\ faults = 0
  /\ pc = "idle" /\ op = "none" /\ target = Dest /\ asked = 0 /\ given = 0
  /\ published = 0
  /\ nodes = {} /\ received = 0 /\ total = -1 /\ seqReceived = 0
  /\ err = "none" /\ result = {} /\ resolved = 0
  /\ stayed = {} /\ changes = 0

---------------------------------------------------------------------------
(* Self asks *)

inTable == UNION {Range(entries[b]) : b \in DOMAIN entries}

(* The distances of the request that is made.                              *)
distances == IF op = "Resolve" THEN <<0>> ELSE lookupDistances(target, Dest)

lookupWorker(t) ==
  /\ pc = "idle"
  /\ pc' = "waiting" /\ op' = "lookupWorker" /\ target' = t
  /\ requests' = 1 /\ stayed' = inTable
  /\ UNCHANGED <<entries, changes, destVars, answerVars, net, doubled, faults,
                 asked, given, published, waitVars>>

(* Mutant: the record of the table is used, be it older.                   *)
latestTabled(s, intable) == IF intable # 0 THEN intable ELSE s

latest(s, intable) == IF intable > s THEN intable ELSE s

(* n has sequence number s, its record in the table, if any, intable.      *)
Resolve(s, intable) ==
  /\ pc = "idle"
  /\ pc' = "waiting" /\ op' = "Resolve"
  /\ asked' = latest(s, intable)
  /\ given' = s /\ published' = seq
  /\ requests' = 1 /\ stayed' = inTable
  /\ UNCHANGED <<entries, changes, destVars, answerVars, net, doubled, faults,
                 target, waitVars>>

---------------------------------------------------------------------------
(* Dest answers *)

(* "Reject duplicate / invalid distances."                                 *)
valid(dists) ==
  LET ds[i \in 0 .. Len(dists)] ==
        IF i = 0 THEN <<>>
        ELSE IF dists[i] > hashBits \/ dists[i] \in Range(ds[i - 1]) THEN ds[i - 1]
        ELSE Append(ds[i - 1], dists[i])
  IN ds[Len(dists)]

(* "Apply some pre-checks to avoid sending invalid nodes."                 *)
relayable(bn) ==
  LET ns[i \in 0 .. Len(bn)] ==
        IF i = 0 THEN <<>>
        ELSE IF CheckRelayIP(Self, bn[i]) THEN Append(ns[i - 1], bn[i]) ELSE ns[i - 1]
  IN ns[Len(bn)]

handleFindnode ==
  /\ requests > 0 /\ ~handling
  /\ requests' = requests - 1
  /\ handling' = TRUE /\ todo' = valid(distances) /\ found' = <<>>
  /\ UNCHANGED <<tableVars, destVars, seqFound, answers, net, doubled, faults, pc,
                 askVars, waitVars>>

(* One distance; the mutex of the table is held for this step only.        *)
collectTableNodes ==
  /\ handling /\ todo # <<>>
  /\ LET dist == Head(todo)
         bn == IF dist = 0 THEN <<Dest>> ELSE bucketAtDistance(dist)
         all == found \o relayable(bn)
         full == Len(all) >= findnodeResultLimit
     IN /\ found' = IF full THEN SubSeq(all, 1, findnodeResultLimit) ELSE all
        /\ seqFound' = IF dist = 0 THEN seq ELSE seqFound
        /\ todo' = IF full THEN <<>> ELSE Tail(todo)
  /\ UNCHANGED <<tableVars, destVars, handling, answers, netVars, pc, askVars, waitVars>>

ceilDiv(a, b) == (a + b - 1) \div b

(* Mutant: what does not fill a packet is not counted.                     *)
packetsFloor(len) == Max({1, len \div nodesResponseItemLimit})

packets(len) == Max({1, ceilDiv(len, nodesResponseItemLimit)})

(* The NODES packets of an answer, one that is empty if there is nothing.  *)
(* The 3 that the code divides by is nodesResponseItemLimit.               *)
packNodes(list) ==
  LET k == packets(Len(list))
  IN {[answer |-> Len(answers), no |-> i, total |-> k, seq |-> seqFound,
       nodes |-> SubSeq(list, (i - 1) * nodesResponseItemLimit + 1,
                        Min({i * nodesResponseItemLimit, Len(list)}))] :
      i \in 1 .. k}

sendNodes ==
  /\ handling /\ todo = <<>>
  /\ net' = net \cup packNodes(found)
  /\ answers' = Append(answers, found)
  /\ handling' = FALSE
  /\ UNCHANGED <<tableVars, destVars, todo, found, seqFound, requests, doubled, faults,
                 pc, askVars, waitVars>>

---------------------------------------------------------------------------
(* Self waits for the nodes *)

(* But for records that are not signed, and those in `seen'.               *)
verifyResponseNode(n) ==
  /\ CheckRelayIP(Dest, n)
  /\ ~lowPort
  /\ LogDist(Dest, n) \in Range(distances)

(* waitForNodes returns ns and e.  lookupWorker drops all nodes when the   *)
(* transport is closed, and Self; its list has room for all that one       *)
(* answer holds.  RequestENR wants one node, or else Resolve looks it up.  *)
returns(ns, s, e) ==
  /\ nodes' = ns /\ seqReceived' = s /\ err' = e
  /\ IF op = "lookupWorker"
       THEN /\ pc' = "returned"
            /\ result' = IF e = "closed" THEN {} ELSE ns \ {Self}
            /\ UNCHANGED resolved
       ELSE /\ IF e = "none" /\ Cardinality(ns) = 1
                 THEN pc' = "returned" /\ resolved' = s
                 ELSE pc' = "lookup" /\ UNCHANGED resolved
            /\ UNCHANGED result

(* A packet arrives, or a second copy of it is still to come.              *)
receiveNodes(p, again) ==
  /\ pc = "waiting" /\ p \in net
  /\ net' = IF again THEN net ELSE net \ {p}
  /\ doubled' = (doubled \/ again)
  /\ LET ns == nodes \cup {n \in Range(p.nodes) : verifyResponseNode(n)}
     IN /\ total' = IF total = -1 THEN Min({p.total, totalNodesResponseLimit}) ELSE total
        /\ received' = received + 1
        /\ IF received' = total' THEN returns(ns, p.seq, "none")
           ELSE nodes' = ns /\ seqReceived' = p.seq /\ UNCHANGED <<pc, err, result, resolved>>
  /\ UNCHANGED <<tableVars, destVars, answerVars, requests, askVars>>

(* The call times out, or the transport is closed.                         *)
callFails(e) ==
  /\ pc = "waiting"
  /\ returns(nodes, seqReceived, e)
  /\ UNCHANGED <<tableVars, destVars, answerVars, netVars, askVars, received, total>>

(* Lookup finds a record rn of Dest somewhere, or none (0).                *)
resolveLookup(rn) ==
  /\ pc = "lookup"
  /\ pc' = "returned"
  /\ resolved' = IF rn > asked THEN rn ELSE asked
  /\ UNCHANGED <<tableVars, destVars, answerVars, netVars, askVars, nodes, received,
                 total, seqReceived, err, result>>

---------------------------------------------------------------------------
(* Meanwhile; each step only where the request may notice it. *)

changed == op = "lookupWorker" /\ pc = "waiting" /\ changes < MaxChanges /\ changes' = changes + 1

tableAdds(n) ==
  /\ changed
  /\ LET b == bucketIndex(LogDist(Dest, n))
     IN /\ n \notin inTable /\ Len(entries[b]) < bucketSize
        /\ entries' = [entries EXCEPT ![b] = Append(@, n)]
  /\ UNCHANGED <<stayed, destVars, answerVars, netVars, pc, askVars, waitVars>>

(* list without its element i.                                            *)
deleteNode(list, i) == SubSeq(list, 1, i - 1) \o SubSeq(list, i + 1, Len(list))

tableDrops(n) ==
  /\ changed
  /\ \E b \in DOMAIN entries : \E i \in DOMAIN entries[b] :
       entries[b][i] = n /\ entries' = [entries EXCEPT ![b] = deleteNode(@, i)]
  /\ stayed' = stayed \ {n}
  /\ UNCHANGED <<destVars, answerVars, netVars, pc, askVars, waitVars>>

newRecord ==
  /\ op = "Resolve" /\ pc # "returned" /\ seq < MaxSeq
  /\ seq' = seq + 1
  /\ UNCHANGED <<tableVars, lowPort, answerVars, netVars, pc, askVars, waitVars>>

fault == pc = "waiting" /\ faults < MaxFaults /\ faults' = faults + 1

loseRequest ==
  /\ fault /\ requests > 0
  /\ requests' = requests - 1
  /\ UNCHANGED <<tableVars, destVars, answerVars, net, doubled, pc, askVars, waitVars>>

doubleRequest ==
  /\ fault /\ requests > 0
  /\ requests' = requests + 1 /\ doubled' = TRUE
  /\ UNCHANGED <<tableVars, destVars, answerVars, net, pc, askVars, waitVars>>

loseNodes(p) ==
  /\ fault
  /\ net' = net \ {p}
  /\ UNCHANGED <<tableVars, destVars, answerVars, requests, doubled, pc, askVars, waitVars>>

---------------------------------------------------------------------------
AskStep ==
  \/ \E t \in Target : lookupWorker(t)
  \/ \E s \in 1 .. seq, intable \in 0 .. seq : Resolve(s, intable)

AnswerStep == handleFindnode \/ collectTableNodes \/ sendNodes

WaitStep ==
  \/ \E p \in net : receiveNodes(p, FALSE) /\ UNCHANGED faults
  \/ \E p \in net : receiveNodes(p, TRUE) /\ fault
  \/ \E e \in {"timeout", "closed"} : callFails(e)
  \/ \E rn \in 0 .. seq : resolveLookup(rn)

ChangeStep == newRecord \/ \E n \in Other : tableAdds(n) \/ tableDrops(n)

FaultStep == loseRequest \/ doubleRequest \/ \E p \in net : loseNodes(p)

Next == AskStep \/ AnswerStep \/ WaitStep \/ ChangeStep \/ FaultStep

Spec == Init /\ [][Next]_vars

---------------------------------------------------------------------------
(* Properties *)

(* Of one of the answers Dest has sent, the nodes Self accepts.            *)
acceptable(answer) == {n \in Range(answer) : verifyResponseNode(n)}

(* Packets that packNodes makes and waitForNodes does not wait for.        *)
excess(answer) ==
  Max({0, ceilDiv(Len(answer), nodesResponseItemLimit) - totalNodesResponseLimit})

succeeded == pc = "returned" /\ err = "none"

(* A call that succeeds has the whole answer, in whatever order its        *)
(* packets came and whatever changed in the table between two distances:   *)
(* a lost packet makes it fail.  Two cases are excepted, and only these:   *)
(* waitForNodes counts packets, so one that comes twice stands for one     *)
(* that has not come; and packNodes may make more packets than             *)
(* waitForNodes waits for, whose nodes are missing.                        *)
AnswerIsWhole ==
  /\ pc \in {"returned", "lookup"} =>
       \A n \in nodes : \E i \in 1 .. Len(answers) : n \in acceptable(answers[i])
  /\ succeeded /\ ~doubled =>
       Cardinality(acceptable(answers[1]) \ nodes)
         <= excess(answers[1]) * nodesResponseItemLimit

(* lookupDistances asks for the right buckets: every node that Dest had in *)
(* its table all the time and that is closer to the target than Dest is in *)
(* the result of a lookupWorker that succeeds, although the buckets of     *)
(* small distances are shared, come back once for each of them, and fill   *)
(* the answer up to its limit.                                             *)
CloserNodesArrive ==
  succeeded /\ op = "lookupWorker" /\ ~doubled /\ ~lowPort =>
    LET close == {n \in stayed \ {Self} :
                    /\ LogDist(target, n) < LogDist(target, Dest)
                    /\ CheckRelayIP(Self, n) /\ CheckRelayIP(Dest, n)}
    IN Cardinality(close \ result) <= excess(answers[1]) * nodesResponseItemLimit

(* Resolve returns no record older than the one it is called with, and     *)
(* when the node answers, none older than the node's own at that time: by  *)
(* its table, by RequestENR or by a lookup.                                *)
ResolvedIsNewest ==
  pc = "returned" /\ op = "Resolve" =>
    /\ resolved >= given /\ resolved >= asked
    /\ err = "none" /\ nodes # {} => resolved >= published
===========================================================================
