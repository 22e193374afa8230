----------------------------- MODULE Handshake -----------------------------
(***************************************************************************)
(* Sessions and handshakes of discv5 nodes that call each other            *)
(* (pkg/discover/v5wire: encoding.go, session.go; the handlers of          *)
(* pkg/discover/v5_udp.go that answer).  A codec belongs to the dispatch   *)
(* goroutine of its node, so that encoding a packet, and decoding and      *)
(* handling one, are single steps.                                         *)
(*                                                                         *)
(* A packet is what its receiver can find out about it.  The layout of     *)
(* headers, masking, RLP and the cryptography are left out: a message can  *)
(* be read with the key it was written with, and a signature is good for   *)
(* the challenge it was made for.  Nonces and ID nonces are random, hence  *)
(* new; the counter in a nonce is kept.  A node has one address.           *)
(***************************************************************************)
EXTENDS Integers, FiniteSets

CONSTANTS
  Node,
  Call,
  From, To,         \* the nodes of a call
  None,
  MaxSeq,           \* bound: versions of the record of a node
  MaxFaults         \* bound: what goes wrong in the network and the nodes

VARIABLES
  state,            \* of a call: "idle", "active", "answered", "failed"
  handshakeCount,   \* of a call
  sessions,         \* SessionCache.sessions of each node
  handshakes,       \* SessionCache.handshakes: the challenges it has sent
  known,            \* sequence numbers of the records in table and database
  seq,              \* sequence number of the own record
  net,              \* packets under way
  ids,              \* number of ID nonces made
  used,             \* history: keys and counters of the messages sent
  disturbed,        \* history: calls with which something has interfered
  faults            \* number of faults

callVars == <<state, handshakeCount>>
cacheVars == <<sessions, handshakes>>
recordVars == <<known, seq>>
historyVars == <<used, disturbed>>
vars == <<callVars, cacheVars, recordVars, net, ids, historyVars, faults>>

Key == [eph : Call, challenge : Nat, side : {"initiator", "recipient"}]
Session == [writeKey : Key, readKey : Key, nonceCounter : Nat]

(* The challenge data, the sequence number of challenge.Node (0 without),  *)
(* and whether handshakeTimeout has passed since it was sent.              *)
Challenge == [id : Nat, node : Nat, late : BOOLEAN]

ASSUME HandshakeAssumption ==
  /\ From \in [Call -> Node] /\ To \in [Call -> Node]
  /\ \A c \in Call : From[c] # To[c]
  /\ None \notin Session /\ None \notin Challenge
  /\ None \notin Key /\ None \notin Call \X {0, 1}
  /\ MaxSeq \in [Node -> Nat \ {0}] /\ MaxFaults \in Nat

Init ==
  /\ state = [c \in Call |-> "idle"] /\ handshakeCount = [c \in Call |-> 0]
  /\ sessions = [n \in Node |-> [m \in Node |-> None]]
  /\ handshakes = [n \in Node |-> [m \in Node |-> None]]
  /\ known = [n \in Node |-> [m \in Node |-> 0]] /\ seq = [n \in Node |-> 1]
  /\ net = {} /\ ids = 0 /\ used = {} /\ disturbed = {} /\ faults = 0

active(n, m) == {c \in Call : state[c] = "active" /\ From[c] = n /\ To[c] = m}

---------------------------------------------------------------------------
(* session.go and crypto.go *)

(* ecdh and the key derivation, on the side of the initiator.              *)
deriveKeys(eph, id) ==
  [writeKey |-> [eph |-> eph, challenge |-> id, side |-> "initiator"],
   readKey |-> [eph |-> eph, challenge |-> id, side |-> "recipient"],
   nonceCounter |-> 0]

keysFlipped(s) == [s EXCEPT !.writeKey = s.readKey, !.readKey = s.writeKey]

nextNonce(s) == [s EXCEPT !.nonceCounter = @ + 1]

(* Mutant: a challenge that has not been answered is kept.                 *)
storeSentHandshakeOnce(h, n, m, challenge) ==
  IF h[n][m] = None THEN [h EXCEPT ![n][m] = challenge] ELSE h

storeSentHandshake(h, n, m, challenge) == [h EXCEPT ![n][m] = challenge]

(* Mutant: the challenge stays after a good handshake.                     *)
deleteHandshakeNot(h, n, m) == h

deleteHandshake(h, n, m) == [h EXCEPT ![n][m] = None]

(* Every Decode of a node begins with it.                                  *)
handshakeGC(n) ==
  [handshakes EXCEPT ![n] =
     [m \in Node |-> IF @[m] # None /\ @[m].late THEN None ELSE @[m]]]

---------------------------------------------------------------------------
(* Encode *)

request(c) == [kind |-> "request", call |-> c]
response(c) == [kind |-> "response", call |-> c]

(* The nonce of the packet that last carried a call.                       *)
nonce(c) == <<c, handshakeCount[c]>>

(* encodeMessageHeader and encryptMessage, in session s.                   *)
messagePacket(n, m, tag, msg, s) ==
  [type |-> "message", src |-> n, dst |-> m, nonce |-> tag,
   key |-> s.writeKey, msg |-> msg, copy |-> FALSE]

(* encodeRandom: nobody has the key.                                       *)
randomPacket(n, m, tag) ==
  [type |-> "message", src |-> n, dst |-> m, nonce |-> tag,
   key |-> None, msg |-> None, copy |-> FALSE]

(* Encode without a challenge: what a node with these sessions sends, what *)
(* it uses up, and the session it has then.                                *)
sent(S, n, m, tag, msg) ==
  IF S[n][m] = None
    THEN {randomPacket(n, m, tag)}
    ELSE {messagePacket(n, m, tag, msg, S[n][m])}

spent(S, n, m) ==
  IF S[n][m] = None
    THEN {}
    ELSE {<<S[n][m].writeKey, nextNonce(S[n][m]).nonceCounter>>}

counted(S, n, m) ==
  IF S[n][m] = None THEN S ELSE [S EXCEPT ![n][m] = nextNonce(@)]

(* Mutant: the record is sent to nodes that have none only.                *)
recordForNone(known_, n) == IF known_ = 0 THEN seq[n] ELSE 0

(* makeHandshakeAuth adds the record of n if it is newer than the one the  *)
(* challenge names.                                                        *)
handshakeRecord(known_, n) == IF known_ < seq[n] THEN seq[n] ELSE 0

(* encodeHandshakeHeader and encryptMessage.  Its ephemeral key is named   *)
(* by the call, which makes one handshake at most.                         *)
handshakePacket(c, w, s) ==
  [type |-> "handshake", src |-> From[c], dst |-> To[c], nonce |-> <<c, 1>>,
   key |-> s.writeKey, msg |-> request(c), challenge |-> w.id,
   record |-> handshakeRecord(w.seq, From[c]), seq |-> seq[From[c]], copy |-> FALSE]

whoareyouPacket(n, m, tag, challenge) ==
  [type |-> "whoareyou", src |-> n, dst |-> m, nonce |-> tag,
   id |-> challenge.id, seq |-> challenge.node, copy |-> FALSE]

---------------------------------------------------------------------------
(* Calls *)

(* dispatch sends a call when no other one to that node is active.  The    *)
(* call is on its own if no packet is under way.                           *)
sendCall(c) ==
  LET n == From[c] m == To[c]
  IN /\ state[c] = "idle" /\ active(n, m) = {}
     /\ state' = [state EXCEPT ![c] = "active"]
     /\ net' = net \cup sent(sessions, n, m, nonce(c), request(c))
     /\ used' = used \cup spent(sessions, n, m)
     /\ sessions' = counted(sessions, n, m)
     /\ disturbed' = IF net = {} THEN disturbed ELSE disturbed \cup {c}
     /\ UNCHANGED <<handshakeCount, handshakes, recordVars, ids, faults>>

(* respTimeoutV5 passes.  That packets are still under way then is bounded *)
(* like a fault.                                                           *)
timeout(c) ==
  /\ state[c] = "active"
  /\ \/ net = {} /\ UNCHANGED faults
     \/ net # {} /\ faults < MaxFaults /\ faults' = faults + 1
  /\ state' = [state EXCEPT ![c] = "failed"]
  /\ UNCHANGED <<handshakeCount, cacheVars, recordVars, net, ids, historyVars>>

---------------------------------------------------------------------------
(* Decode and handle *)

readable(p) ==
  /\ p.type = "message" /\ sessions[p.dst][p.src] # None
  /\ p.key = sessions[p.dst][p.src].readKey

(* handlePing, handleFindnode and the TALK handlers answer.                *)
receiveRequest(p) ==
  LET n == p.dst m == p.src
  IN /\ p \in net /\ readable(p) /\ p.msg.kind = "request"
     /\ net' = (net \ {p}) \cup sent(sessions, n, m, None, response(p.msg.call))
     /\ used' = used \cup spent(sessions, n, m)
     /\ sessions' = counted(sessions, n, m)
     /\ handshakes' = handshakeGC(n)
     /\ UNCHANGED <<callVars, recordVars, ids, disturbed, faults>>

(* handleCallResponse: a late response is ignored.                         *)
receiveResponse(p) ==
  /\ p \in net /\ readable(p) /\ p.msg.kind = "response"
  /\ net' = net \ {p}
  /\ state' = IF state[p.msg.call] = "active"
                THEN [state EXCEPT ![p.msg.call] = "answered"] ELSE state
  /\ handshakes' = handshakeGC(p.dst)
  /\ UNCHANGED <<handshakeCount, sessions, recordVars, ids, historyVars, faults>>

(* Table and database may have dropped the record by now.                  *)
getNode(n, m) == {0, known[n][m]}

(* decodeMessage yields Unknown; handleUnknown challenges the sender.      *)
receiveUnknown(p) ==
  LET n == p.dst m == p.src
  IN /\ p \in net /\ p.type = "message" /\ ~readable(p)
     /\ ids' = ids + 1
     /\ \E node \in getNode(n, m) :
          LET challenge == [id |-> ids', node |-> node, late |-> FALSE]
          IN /\ net' = (net \ {p}) \cup {whoareyouPacket(n, m, p.nonce, challenge)}
             /\ handshakes' = storeSentHandshake(handshakeGC(n), n, m, challenge)
     /\ UNCHANGED <<callVars, sessions, recordVars, historyVars, faults>>

(* matchWithCall: an active call that this nonce was last sent with, and   *)
(* that has not been challenged before.                                    *)
matchWithCall(c, p) ==
  state[c] = "active" /\ nonce(c) = p.nonce /\ handshakeCount[c] = 0

(* handleWhoareyou sends the call again, as a handshake.  A call that the  *)
(* other node is making at that time, and this one, are in each other's    *)
(* way.                                                                    *)
receiveWhoareyou(p, c) ==
  LET s == nextNonce(deriveKeys(c, p.id))
  IN /\ p \in net /\ p.type = "whoareyou" /\ matchWithCall(c, p)
     /\ handshakeCount' = [handshakeCount EXCEPT ![c] = @ + 1]
     /\ sessions' = [sessions EXCEPT ![From[c]][To[c]] = s]
     /\ net' = (net \ {p}) \cup {handshakePacket(c, p, s)}
     /\ used' = used \cup {<<s.writeKey, s.nonceCounter>>}
     /\ handshakes' = handshakeGC(p.dst)
     /\ disturbed' = IF active(To[c], From[c]) = {}
                       THEN disturbed
                       ELSE disturbed \cup {c} \cup active(To[c], From[c])
     /\ UNCHANGED <<state, recordVars, ids, faults>>

ignoreWhoareyou(p) ==
  /\ p \in net /\ p.type = "whoareyou"
  /\ \A c \in Call : ~matchWithCall(c, p)
  /\ net' = net \ {p}
  /\ handshakes' = handshakeGC(p.dst)
  /\ UNCHANGED <<callVars, sessions, recordVars, ids, historyVars, faults>>

(* decodeHandshake, with the challenges left by handshakeGC: the challenge *)
(* is the one that was signed, and there is a record of the sender.        *)
accepts(h, p) ==
  LET challenge == h[p.dst][p.src]
  IN /\ challenge # None
     /\ challenge.id = p.challenge
     /\ challenge.node > 0 \/ p.record > 0

(* decodeHandshakeRecord: the newer one.                                   *)
handshakeNode(challenge, p) ==
  IF challenge.node < p.record THEN p.record ELSE challenge.node

(* decodeHandshakeMessage stores the session, handlePacket offers the node *)
(* to the table, which adds it if it is new, and the request is answered.  *)
receiveHandshake(p) ==
  LET n == p.dst m == p.src
      h == handshakeGC(n)
      s == keysFlipped(deriveKeys(p.key.eph, h[n][m].id))
      S == [sessions EXCEPT ![n][m] = s]
  IN /\ p \in net /\ p.type = "handshake" /\ accepts(h, p)
     /\ net' = (net \ {p}) \cup sent(S, n, m, None, response(p.msg.call))
     /\ used' = used \cup spent(S, n, m)
     /\ sessions' = counted(S, n, m)
     /\ handshakes' = deleteHandshake(h, n, m)
     /\ known' = [known EXCEPT ![n][m] = IF @ = 0 \/ h[n][m].node = 0
                                            THEN handshakeNode(h[n][m], p) ELSE @]
     /\ UNCHANGED <<callVars, seq, ids, disturbed, faults>>

(* A failed handshake also deletes the challenge.                          *)
refuseHandshake(p) ==
  LET h == handshakeGC(p.dst)
  IN /\ p \in net /\ p.type = "handshake" /\ ~accepts(h, p)
     /\ net' = net \ {p}
     /\ handshakes' = deleteHandshake(h, p.dst, p.src)
     /\ UNCHANGED <<callVars, sessions, recordVars, ids, historyVars, faults>>

---------------------------------------------------------------------------
(* Faults.  Each may interfere with the calls that are being made.         *)

fault ==
  /\ faults < MaxFaults
  /\ faults' = faults + 1
  /\ disturbed' = disturbed \cup {c \in Call : state[c] = "active"}

lose(p) ==
  /\ p \in net /\ fault
  /\ net' = net \ {p}
  /\ UNCHANGED <<callVars, cacheVars, recordVars, ids, used>>

duplicate(p) ==
  /\ p \in net /\ ~p.copy /\ fault
  /\ net' = net \cup {[p EXCEPT !.copy = TRUE]}
  /\ UNCHANGED <<callVars, cacheVars, recordVars, ids, used>>

(* Sessions with other nodes push this one out of the LRU cache.           *)
evict(n, m) ==
  /\ sessions[n][m] # None /\ fault
  /\ sessions' = [sessions EXCEPT ![n][m] = None]
  /\ UNCHANGED <<callVars, handshakes, recordVars, net, ids, used>>

(* handshakeTimeout passes.                                                *)
expire(n, m) ==
  /\ handshakes[n][m] # None /\ ~handshakes[n][m].late /\ fault
  /\ handshakes' = [handshakes EXCEPT ![n][m].late = TRUE]
  /\ UNCHANGED <<callVars, sessions, recordVars, net, ids, used>>

(* The process of n ends and starts again; the node database stays.        *)
restart(n) ==
  /\ fault
  /\ state' = [c \in Call |-> IF From[c] = n /\ state[c] = "active"
                                THEN "failed" ELSE state[c]]
  /\ sessions' = [sessions EXCEPT ![n] = [m \in Node |-> None]]
  /\ handshakes' = [handshakes EXCEPT ![n] = [m \in Node |-> None]]
  /\ UNCHANGED <<handshakeCount, recordVars, net, ids, used>>

(* Not a fault: the record of n changes.                                   *)
newRecord(n) ==
  /\ seq[n] < MaxSeq[n]
  /\ seq' = [seq EXCEPT ![n] = @ + 1]
  /\ UNCHANGED <<callVars, cacheVars, known, net, ids, historyVars, faults>>

---------------------------------------------------------------------------
CallStep == \E c \in Call : sendCall(c) \/ timeout(c)

PacketStep ==
  \E p \in net :
    \/ receiveRequest(p) \/ receiveResponse(p) \/ receiveUnknown(p)
    \/ ignoreWhoareyou(p) \/ receiveHandshake(p) \/ refuseHandshake(p)
    \/ \E c \in Call : receiveWhoareyou(p, c)

Fault ==
  \/ \E p \in net : lose(p) \/ duplicate(p)
  \/ \E n, m \in Node : evict(n, m) \/ expire(n, m)
  \/ \E n \in Node : restart(n)

RecordStep == \E n \in Node : newRecord(n)

Next == CallStep \/ PacketStep \/ Fault \/ RecordStep

Spec == Init /\ [][Next]_vars

---------------------------------------------------------------------------
(* Properties *)

TypeOK ==
  /\ state \in [Call -> {"idle", "active", "answered", "failed"}]
  /\ handshakeCount \in [Call -> 0 .. 1]
  /\ sessions \in [Node -> [Node -> Session \cup {None}]]
  /\ handshakes \in [Node -> [Node -> Challenge \cup {None}]]
  /\ known \in [Node -> [Node -> Nat]] /\ seq \in [Node -> Nat \ {0}]
  /\ \A p \in net : /\ p.type \in {"message", "whoareyou", "handshake"}
                    /\ p.src \in Node /\ p.dst \in Node /\ p.src # p.dst
  /\ ids \in Nat /\ used \subseteq Key \X Nat
  /\ disturbed \subseteq Call /\ faults \in 0 .. MaxFaults

(* No key is used twice with the same counter in the nonce, which the      *)
(* cipher would not survive: the next message of a session has a counter   *)
(* its key has not been used with.  Packets may be duplicated and delayed, *)
(* sessions lost and nodes restarted.  It rests on a handshake being       *)
(* accepted once, for a second time would start its counter again.         *)
CountersNeverReused ==
  \A n, m \in Node : sessions[n][m] # None =>
    \A u \in used : u[1] = sessions[n][m].writeKey => u[2] <= sessions[n][m].nonceCounter

(* Whatever has gone wrong before, and whichever keys and challenges the   *)
(* nodes were left with, a call is answered if it is made when no packet   *)
(* is under way, nothing goes wrong during it, and no handshake in the     *)
(* other direction crosses its own: WHOAREYOU repairs every mismatch of    *)
(* sessions within the call.                                               *)
UndisturbedCallSucceeds ==
  \A c \in Call : state[c] = "active" /\ net = {} => c \in disturbed

(* A handshake that answers the challenge it is compared with leaves       *)
(* decodeHandshake with a record no older than the sender's was, and never *)
(* fails for want of one, although tables and records change between the   *)
(* challenge and the answer.  (What the table then keeps is its own        *)
(* matter: it may refuse the record.)                                      *)
RecordIsCurrent ==
  \A p \in net : p.type = "handshake" =>
    LET challenge == handshakes[p.dst][p.src]
    IN challenge # None /\ challenge.id = p.challenge =>
         handshakeNode(challenge, p) >= p.seq /\ handshakeNode(challenge, p) > 0
=============================================================================
