-------------------------- MODULE HandshakeProofs --------------------------
(***************************************************************************)
(* For any nodes and calls, and any number of faults: no counter is used   *)
(* twice with a key, the answer to a challenge brings the record that the  *)
(* challenger lacks, and a call that nothing disturbs is answered.         *)
(***************************************************************************)
EXTENDS Handshake, TLAPS

---------------------------------------------------------------------------
(* The inductive invariant *)

(* What packets look like; the ephemeral key of a handshake is the call's. *)
isMessage(p) ==
  p = [type |-> "message", src |-> p.src, dst |-> p.dst, nonce |-> p.nonce,
       key |-> p.key, msg |-> p.msg, copy |-> p.copy]

isWhoareyou(p) ==
  /\ p = [type |-> "whoareyou", src |-> p.src, dst |-> p.dst, nonce |-> p.nonce,
          id |-> p.id, seq |-> p.seq, copy |-> p.copy]
  /\ p.id \in Nat /\ p.seq \in Nat

isHandshake(p) ==
  /\ p = [type |-> "handshake", src |-> p.src, dst |-> p.dst, nonce |-> p.nonce,
          key |-> p.key, msg |-> p.msg, challenge |-> p.challenge,
          record |-> p.record, seq |-> p.seq, copy |-> p.copy]
  /\ p.key.eph \in Call /\ From[p.key.eph] = p.src /\ To[p.key.eph] = p.dst
  /\ p.challenge \in Nat /\ p.record \in Nat /\ p.seq \in Nat \ {0}

PacketInv ==
  \A p \in net :
    /\ p.type = "message" => isMessage(p)
    /\ p.type = "whoareyou" => isWhoareyou(p)
    /\ p.type = "handshake" => isHandshake(p)

(* The node that writes with a key, and the node that reads.               *)
owns(k, n, m) ==
  \/ k.side = "initiator" /\ From[k.eph] = n /\ To[k.eph] = m
  \/ k.side = "recipient" /\ From[k.eph] = m /\ To[k.eph] = n

(* A session belongs to one pair of nodes and has been used.               *)
SessionInv ==
  \A n, m \in Node : sessions[n][m] # None =>
    /\ owns(sessions[n][m].writeKey, n, m)
    /\ <<sessions[n][m].writeKey, sessions[n][m].nonceCounter>> \in used

(* A key that has been used will not be made again: its call has made its  *)
(* handshake, or its challenge is gone.                                    *)
spentInitiator(k) == k.side = "initiator" => handshakeCount[k.eph] = 1

spentRecipient(k, H) ==
  k.side = "recipient" =>
    /\ k.challenge <= ids
    /\ \A n, m \in Node : H[n][m] # None => H[n][m].id # k.challenge

UsedInv ==
  \A u \in used : spentInitiator(u[1]) /\ spentRecipient(u[1], handshakes)

(* Challenges are numbered, and no two have the same number.               *)
ChallengeInv ==
  /\ \A n, m \in Node : handshakes[n][m] # None => handshakes[n][m].id <= ids
  /\ \A n, m, k, l \in Node :
       /\ handshakes[n][m] # None /\ handshakes[k][l] # None
       /\ handshakes[n][m].id = handshakes[k][l].id
       => n = k /\ m = l

(* What a packet says about the challenge it carries or answers.           *)
agrees(p, challenge) ==
  /\ p.type = "whoareyou" /\ challenge.id = p.id => challenge.node = p.seq
  /\ p.type = "handshake" /\ challenge.id = p.challenge =>
       challenge.node >= p.seq \/ p.record >= p.seq

answerable(p, H, max) ==
  /\ p.type = "whoareyou" => p.id <= max
  /\ p.type = "handshake" => p.challenge <= max
  /\ \A n, m \in Node : H[n][m] # None => agrees(p, H[n][m])

AnswerInv == \A p \in net : answerable(p, handshakes, ids)

Inv ==
  /\ TypeOK /\ PacketInv /\ SessionInv /\ UsedInv /\ ChallengeInv /\ AnswerInv
  /\ CountersNeverReused

---------------------------------------------------------------------------
(* Nodes start without sessions, challenges and packets, so the invariant  *)
(* holds.                                                                  *)
LEMMA InitInv == Init => Inv
<1> SUFFICES ASSUME Init PROVE Inv
  BY Zenon
<1> USE HandshakeAssumption DEF Init
<1>1. TypeOK
  BY DEF TypeOK
<1>2. PacketInv /\ SessionInv /\ UsedInv /\ ChallengeInv /\ AnswerInv
  BY Zenon DEF PacketInv, SessionInv, UsedInv, ChallengeInv, AnswerInv
<1>3. CountersNeverReused
  BY Zenon DEF CountersNeverReused
<1> QED
  BY Zenon, <1>1, <1>2, <1>3 DEF Inv

---------------------------------------------------------------------------
(* Challenges *)

(* H has no challenge that was not there.                                  *)
shrunk(H) ==
  /\ H \in [Node -> [Node -> Challenge \cup {None}]]
  /\ \A n, m \in Node : H[n][m] # None =>
       /\ handshakes[n][m] # None
       /\ H[n][m].id = handshakes[n][m].id /\ H[n][m].node = handshakes[n][m].node

(* handshakeGC removes challenges and adds none.                           *)
LEMMA GCShrinks ==
  ASSUME TypeOK, NEW n \in Node
  PROVE  shrunk(handshakeGC(n))
<1>1. handshakes \in [Node -> [Node -> Challenge \cup {None}]]
  BY Zenon DEF TypeOK
<1>2. handshakeGC(n) \in [Node -> [Node -> Challenge \cup {None}]]
  BY Zenon, <1>1 DEF handshakeGC
<1>3. \A k, m \in Node : handshakeGC(n)[k][m] \in {handshakes[k][m], None}
  BY Zenon, <1>1 DEF handshakeGC
<1> QED
  BY Zenon, <1>2, <1>3 DEF shrunk

---------------------------------------------------------------------------
(* Packets *)

goodPacket(p) ==
  /\ p.type \in {"message", "whoareyou", "handshake"}
  /\ p.src \in Node /\ p.dst \in Node /\ p.src # p.dst
  /\ p.type = "message" => isMessage(p)
  /\ p.type = "whoareyou" => isWhoareyou(p)
  /\ p.type = "handshake" => isHandshake(p)

(* Encode without a challenge sends a well-formed message.                 *)
LEMMA SentIsGood ==
  ASSUME NEW S, NEW n \in Node, NEW m \in Node, n # m, NEW tag, NEW msg,
         NEW q \in sent(S, n, m, tag, msg)
  PROVE  goodPacket(q) /\ q.type = "message"
<1>1. CASE S[n][m] = None
  <2>1. q = randomPacket(n, m, tag)
    BY Zenon, <1>1 DEF sent
  <2> QED
    BY Zenon, <2>1 DEF randomPacket, goodPacket, isMessage
<1>2. CASE S[n][m] # None
  <2>1. q = messagePacket(n, m, tag, msg, S[n][m])
    BY Zenon, <1>2 DEF sent
  <2> QED
    BY Zenon, <2>1 DEF messagePacket, goodPacket, isMessage
<1> QED
  BY Zenon, <1>1, <1>2

(* So is the WHOAREYOU of handleUnknown.                                   *)
LEMMA WhoareyouIsGood ==
  ASSUME NEW n \in Node, NEW m \in Node, n # m, NEW tag,
         NEW challenge \in Challenge
  PROVE  goodPacket(whoareyouPacket(n, m, tag, challenge))
  BY Zenon DEF whoareyouPacket, goodPacket, isWhoareyou, Challenge

(* And the handshake of handleWhoareyou, whose ephemeral key is the        *)
(* call's.                                                                 *)
LEMMA HandshakeIsGood ==
  ASSUME TypeOK, NEW c \in Call, NEW w, w.id \in Nat, w.seq \in Nat,
         NEW s, s.writeKey.eph = c
  PROVE  goodPacket(handshakePacket(c, w, s))
<1> DEFINE q == handshakePacket(c, w, s)
<1>1. seq[From[c]] \in Nat \ {0} /\ From[c] \in Node /\ To[c] \in Node /\ From[c] # To[c]
  BY Zenon, HandshakeAssumption DEF TypeOK
<1>2. handshakeRecord(w.seq, From[c]) \in Nat
  BY Zenon, <1>1 DEF handshakeRecord
<1>3. isHandshake(q)
  BY Zenon, <1>1, <1>2 DEF handshakePacket, isHandshake
<1>4. q.type = "handshake" /\ q.src = From[c] /\ q.dst = To[c]
  BY Zenon DEF handshakePacket
<1>5. goodPacket(q)
  <2> HIDE DEF q
  <2> QED
    BY Zenon, <1>1, <1>3, <1>4 DEF goodPacket
<1> QED
  BY Zenon, <1>5

(* A duplicate says what the packet says.                                  *)
LEMMA CopyIsGood ==
  ASSUME NEW p, goodPacket(p), NEW q, q = [p EXCEPT !.copy = TRUE]
  PROVE  /\ goodPacket(q) /\ q.type = p.type
         /\ p.type = "whoareyou" => q.id = p.id /\ q.seq = p.seq
         /\ p.type = "handshake" =>
              q.challenge = p.challenge /\ q.seq = p.seq /\ q.record = p.record
<1>1. CASE p.type = "message"
  <2>1. q = [type |-> "message", src |-> p.src, dst |-> p.dst, nonce |-> p.nonce,
             key |-> p.key, msg |-> p.msg, copy |-> TRUE]
    BY Zenon, <1>1 DEF goodPacket, isMessage
  <2>2. q.type = "message" /\ q.src = p.src /\ q.dst = p.dst
    BY <2>1
  <2>3. isMessage(q)
    BY Zenon, <2>1 DEF isMessage
  <2> QED
    BY Zenon, <1>1, <2>2, <2>3 DEF goodPacket
<1>2. CASE p.type = "whoareyou"
  <2>1. q = [type |-> "whoareyou", src |-> p.src, dst |-> p.dst, nonce |-> p.nonce,
             id |-> p.id, seq |-> p.seq, copy |-> TRUE]
    BY Zenon, <1>2 DEF goodPacket, isWhoareyou
  <2>2. /\ q.type = "whoareyou" /\ q.src = p.src /\ q.dst = p.dst
        /\ q.id = p.id /\ q.seq = p.seq
    BY <2>1
  <2>3. isWhoareyou(q)
    BY Zenon, <1>2, <2>1, <2>2 DEF isWhoareyou, goodPacket
  <2> QED
    BY Zenon, <1>2, <2>2, <2>3 DEF goodPacket
<1>3. CASE p.type = "handshake"
  <2>1. q = [type |-> "handshake", src |-> p.src, dst |-> p.dst, nonce |-> p.nonce,
             key |-> p.key, msg |-> p.msg, challenge |-> p.challenge,
             record |-> p.record, seq |-> p.seq, copy |-> TRUE]
    BY Zenon, <1>3 DEF goodPacket, isHandshake
  <2>2. /\ q.type = "handshake" /\ q.src = p.src /\ q.dst = p.dst /\ q.key = p.key
        /\ q.challenge = p.challenge /\ q.seq = p.seq /\ q.record = p.record
    BY <2>1
  <2>3. isHandshake(q)
    BY Zenon, <1>3, <2>1, <2>2 DEF isHandshake, goodPacket
  <2> QED
    BY Zenon, <1>3, <2>2, <2>3 DEF goodPacket
<1> QED
  BY Zenon, <1>1, <1>2, <1>3 DEF goodPacket

(* The invariant describes every packet under way.                         *)
LEMMA PacketsAreGood ==
  ASSUME TypeOK, PacketInv, NEW p \in net
  PROVE  goodPacket(p)
  BY Zenon DEF TypeOK, PacketInv, goodPacket

(* Every handler sends well-formed packets only.                           *)
LEMMA NetStep ==
  ASSUME TypeOK, PacketInv, Next
  PROVE  \A q \in net' : goodPacket(q)
<1>0. \A q \in net : goodPacket(q)
  BY Zenon, PacketsAreGood
<1>1. ASSUME NEW c \in Call, sendCall(c) PROVE \A q \in net' : goodPacket(q)
  <2>1. From[c] \in Node /\ To[c] \in Node /\ From[c] # To[c]
    BY Zenon, HandshakeAssumption
  <2>2. net' = net \cup sent(sessions, From[c], To[c], nonce(c), request(c))
    BY Zenon, <1>1 DEF sendCall
  <2>3. \A q \in sent(sessions, From[c], To[c], nonce(c), request(c)) : goodPacket(q)
    BY Zenon, <2>1, SentIsGood
  <2> QED
    BY Zenon, <1>0, <2>2, <2>3
<1>2. ASSUME NEW p \in net, receiveRequest(p) PROVE \A q \in net' : goodPacket(q)
  <2>1. p.src \in Node /\ p.dst \in Node /\ p.src # p.dst
    BY Zenon DEF TypeOK
  <2>2. net' = (net \ {p}) \cup sent(sessions, p.dst, p.src, None, response(p.msg.call))
    BY Zenon, <1>2 DEF receiveRequest
  <2>3. \A q \in sent(sessions, p.dst, p.src, None, response(p.msg.call)) : goodPacket(q)
    BY Zenon, <2>1, SentIsGood
  <2> QED
    BY Zenon, <1>0, <2>2, <2>3
<1>3. ASSUME NEW p \in net, receiveUnknown(p) PROVE \A q \in net' : goodPacket(q)
  <2>1. p.src \in Node /\ p.dst \in Node /\ p.src # p.dst /\ ids \in Nat
    BY Zenon DEF TypeOK
  <2>2. PICK node \in getNode(p.dst, p.src) :
          net' = (net \ {p}) \cup
            {whoareyouPacket(p.dst, p.src, p.nonce, [id |-> ids', node |-> node, late |-> FALSE])}
    BY Zenon, <1>3 DEF receiveUnknown
  <2>3. node \in Nat /\ ids' \in Nat
    BY <1>3, <2>1 DEF receiveUnknown, getNode, TypeOK
  <2>4. [id |-> ids', node |-> node, late |-> FALSE] \in Challenge
    BY Zenon, <2>3 DEF Challenge
  <2>5. goodPacket(whoareyouPacket(p.dst, p.src, p.nonce, [id |-> ids', node |-> node, late |-> FALSE]))
    BY Zenon, <2>1, <2>4, WhoareyouIsGood
  <2> QED
    BY Zenon, <1>0, <2>2, <2>5
<1>4. ASSUME NEW p \in net, NEW c \in Call, receiveWhoareyou(p, c)
      PROVE  \A q \in net' : goodPacket(q)
  <2> DEFINE s == nextNonce(deriveKeys(c, p.id))
  <2>1. net' = (net \ {p}) \cup {handshakePacket(c, p, s)} /\ p.type = "whoareyou"
    BY Zenon, <1>4 DEF receiveWhoareyou
  <2>2. p.id \in Nat /\ p.seq \in Nat
    BY Zenon, <2>1 DEF PacketInv, isWhoareyou
  <2>3. s.writeKey.eph = c
    BY Zenon DEF nextNonce, deriveKeys
  <2> HIDE DEF s
  <2>4. goodPacket(handshakePacket(c, p, s))
    BY Zenon, <2>2, <2>3, HandshakeIsGood
  <2> QED
    BY Zenon, <1>0, <2>1, <2>4
<1>5. ASSUME NEW p \in net, receiveHandshake(p) PROVE \A q \in net' : goodPacket(q)
  <2> DEFINE S == [sessions EXCEPT ![p.dst][p.src] =
                     keysFlipped(deriveKeys(p.key.eph, handshakeGC(p.dst)[p.dst][p.src].id))]
  <2>1. p.src \in Node /\ p.dst \in Node /\ p.src # p.dst
    BY Zenon DEF TypeOK
  <2>2. net' = (net \ {p}) \cup sent(S, p.dst, p.src, None, response(p.msg.call))
    BY Zenon, <1>5 DEF receiveHandshake
  <2> HIDE DEF S
  <2>3. \A q \in sent(S, p.dst, p.src, None, response(p.msg.call)) : goodPacket(q)
    BY Zenon, <2>1, SentIsGood
  <2> QED
    BY Zenon, <1>0, <2>2, <2>3
<1>6. ASSUME NEW p \in net, duplicate(p) PROVE \A q \in net' : goodPacket(q)
  <2>1. net' = net \cup {[p EXCEPT !.copy = TRUE]}
    BY Zenon, <1>6 DEF duplicate
  <2>2. goodPacket([p EXCEPT !.copy = TRUE])
    BY Zenon, <1>0, CopyIsGood
  <2> QED
    BY Zenon, <1>0, <2>1, <2>2
<1>7. ASSUME net' \subseteq net PROVE \A q \in net' : goodPacket(q)
  BY Zenon, <1>0, <1>7
<1>8. /\ \A c \in Call : timeout(c) => net' \subseteq net
      /\ \A p \in net : receiveResponse(p) \/ ignoreWhoareyou(p) \/ refuseHandshake(p)
                          \/ lose(p) => net' \subseteq net
      /\ Fault => net' \subseteq net \/ \E p \in net : duplicate(p)
      /\ RecordStep => net' \subseteq net
  BY Zenon DEF timeout, receiveResponse, ignoreWhoareyou, refuseHandshake, lose, Fault, evict, expire,
         restart, RecordStep, newRecord
<1> QED
  BY Zenon, <1>1, <1>2, <1>3, <1>4, <1>5, <1>6, <1>7, <1>8 DEF Next, CallStep, PacketStep

---------------------------------------------------------------------------
(* How an action changes the challenges *)

(* handleUnknown: n has sent m a challenge that is new.                    *)
challenged(n, m, node) ==
  /\ node \in Nat
  /\ ids' = ids + 1
  /\ handshakes' = [handshakeGC(n) EXCEPT ![n][m] =
                      [id |-> ids + 1, node |-> node, late |-> FALSE]]

(* What handleUnknown does, in the words of challenged.                    *)
LEMMA UnknownChallenges ==
  ASSUME TypeOK, NEW p \in net, receiveUnknown(p)
  PROVE  \E node \in getNode(p.dst, p.src) :
           /\ challenged(p.dst, p.src, node)
           /\ net' = (net \ {p}) \cup
                {whoareyouPacket(p.dst, p.src, p.nonce, [id |-> ids + 1, node |-> node, late |-> FALSE])}
<1>1. ids' = ids + 1
  BY Zenon DEF receiveUnknown
<1>2. PICK node \in getNode(p.dst, p.src) :
        /\ net' = (net \ {p}) \cup
             {whoareyouPacket(p.dst, p.src, p.nonce, [id |-> ids + 1, node |-> node, late |-> FALSE])}
        /\ handshakes' = [handshakeGC(p.dst) EXCEPT ![p.dst][p.src] =
                            [id |-> ids + 1, node |-> node, late |-> FALSE]]
  BY Zenon, <1>1 DEF receiveUnknown, storeSentHandshake
<1>3. node \in Nat
  BY DEF getNode, TypeOK
<1> QED
  BY Zenon, <1>1, <1>2, <1>3 DEF challenged

(* The challenges after handleUnknown.                                     *)
LEMMA ChallengedValues ==
  ASSUME TypeOK, NEW n \in Node, NEW m \in Node, NEW node, challenged(n, m, node)
  PROVE  /\ handshakes' \in [Node -> [Node -> Challenge \cup {None}]]
         /\ handshakes'[n][m].id = ids + 1 /\ handshakes'[n][m].node = node
         /\ \A k, l \in Node : (k # n \/ l # m) /\ handshakes'[k][l] # None =>
              /\ handshakes[k][l] # None
              /\ handshakes'[k][l].id = handshakes[k][l].id
              /\ handshakes'[k][l].node = handshakes[k][l].node
<1> DEFINE G == handshakeGC(n)
           new == [id |-> ids + 1, node |-> node, late |-> FALSE]
<1>1. shrunk(G)
  BY Zenon, GCShrinks
<1>2. handshakes' = [G EXCEPT ![n][m] = new]
  BY Zenon DEF challenged
<1>3. new \in Challenge
  BY DEF challenged, Challenge, TypeOK
<1> HIDE DEF G, new
<1>4. G \in [Node -> [Node -> Challenge \cup {None}]]
  BY Zenon, <1>1 DEF shrunk
<1>5. handshakes' \in [Node -> [Node -> Challenge \cup {None}]] /\ handshakes'[n][m] = new
  BY Zenon, <1>2, <1>3, <1>4
<1>6. \A k, l \in Node : k # n \/ l # m => handshakes'[k][l] = G[k][l]
  BY Zenon, <1>2, <1>4
<1>7. new.id = ids + 1 /\ new.node = node
  BY Zenon DEF new
<1> QED
  BY <1>1, <1>5, <1>6, <1>7 DEF shrunk

(* deleteHandshake adds no challenge either.                               *)
LEMMA ShrunkDelete ==
  ASSUME NEW H, shrunk(H), NEW n \in Node, NEW m \in Node
  PROVE  shrunk(deleteHandshake(H, n, m))
<1> DEFINE D == deleteHandshake(H, n, m)
<1>1. H \in [Node -> [Node -> Challenge \cup {None}]]
  BY Zenon DEF shrunk
<1>2. D \in [Node -> [Node -> Challenge \cup {None}]]
  BY Zenon, <1>1 DEF deleteHandshake
<1>3. \A k, l \in Node : D[k][l] \in {H[k][l], None}
  BY Zenon, <1>1 DEF deleteHandshake
<1> HIDE DEF D
<1>4. shrunk(D)
  BY <1>2, <1>3 DEF shrunk
<1> QED
  BY Zenon, <1>4 DEF D

(* Only handleUnknown makes challenges; every other step keeps or removes  *)
(* them.                                                                   *)
LEMMA ChallengeKinds ==
  ASSUME TypeOK, Next
  PROVE  \/ shrunk(handshakes') /\ ids' = ids
         \/ \E p \in net : receiveUnknown(p)
<1> DEFINE Goal == shrunk(handshakes') /\ ids' = ids
<1>0. /\ handshakes \in [Node -> [Node -> Challenge \cup {None}]]
      /\ \A p \in net : p.src \in Node /\ p.dst \in Node
  BY Zenon DEF TypeOK
<1>1. ASSUME handshakes' = handshakes, ids' = ids PROVE Goal
  BY Zenon, <1>0, <1>1 DEF shrunk
<1>2. ASSUME NEW p \in net, receiveRequest(p) \/ receiveResponse(p) \/ ignoreWhoareyou(p)
                              \/ \E c \in Call : receiveWhoareyou(p, c)
      PROVE  Goal
  <2>1. handshakes' = handshakeGC(p.dst) /\ ids' = ids
    BY Zenon, <1>2 DEF receiveRequest, receiveResponse, ignoreWhoareyou, receiveWhoareyou
  <2> QED
    BY Zenon, <1>0, <2>1, GCShrinks
<1>3. ASSUME NEW p \in net, receiveHandshake(p) \/ refuseHandshake(p) PROVE Goal
  <2>1. handshakes' = deleteHandshake(handshakeGC(p.dst), p.dst, p.src) /\ ids' = ids
    BY Zenon, <1>3 DEF receiveHandshake, refuseHandshake
  <2>2. shrunk(handshakeGC(p.dst))
    BY Zenon, <1>0, GCShrinks
  <2> QED
    BY Zenon, <1>0, <2>1, <2>2, ShrunkDelete
<1>4. ASSUME NEW n \in Node, NEW m \in Node, expire(n, m) PROVE Goal
  <2>1. /\ handshakes[n][m] \in Challenge
        /\ handshakes' = [handshakes EXCEPT ![n][m].late = TRUE] /\ ids' = ids
    BY Zenon, <1>0, <1>4 DEF expire
  <2>2. handshakes'[n][m] = [handshakes[n][m] EXCEPT !.late = TRUE]
    BY Zenon, <1>0, <2>1
  <2>3. /\ handshakes'[n][m] \in Challenge
        /\ handshakes'[n][m].id = handshakes[n][m].id
        /\ handshakes'[n][m].node = handshakes[n][m].node
    <3>1. \A c \in Challenge : LET d == [c EXCEPT !.late = TRUE]
                               IN d \in Challenge /\ d.id = c.id /\ d.node = c.node
      BY Zenon DEF Challenge
    <3> QED
      BY Zenon, <2>1, <2>2, <3>1
  <2>4. \A k, l \in Node : k # n \/ l # m => handshakes'[k][l] = handshakes[k][l]
    BY Zenon, <1>0, <2>1
  <2>5. handshakes' \in [Node -> [Node -> Challenge \cup {None}]]
    BY Zenon, <1>0, <2>1, <2>2, <2>3
  <2>6. handshakes[n][m] # None
    BY Zenon, <1>4 DEF expire
  <2>7. shrunk(handshakes')
    BY Zenon, <2>3, <2>4, <2>5, <2>6 DEF shrunk
  <2> QED
    BY Zenon, <2>1, <2>7
<1>5. ASSUME NEW n \in Node, restart(n) PROVE Goal
  <2>1. handshakes' = [handshakes EXCEPT ![n] = [m \in Node |-> None]] /\ ids' = ids
    BY Zenon, <1>5 DEF restart
  <2>2. handshakes' \in [Node -> [Node -> Challenge \cup {None}]]
    BY Zenon, <1>0, <2>1
  <2>3. \A k, l \in Node : handshakes'[k][l] \in {handshakes[k][l], None}
    BY Zenon, <1>0, <2>1
  <2> QED
    BY Zenon, <2>1, <2>2, <2>3 DEF shrunk
<1>6. /\ CallStep \/ RecordStep => handshakes' = handshakes /\ ids' = ids
      /\ \A p \in net : lose(p) \/ duplicate(p) => handshakes' = handshakes /\ ids' = ids
      /\ \A n, m \in Node : evict(n, m) => handshakes' = handshakes /\ ids' = ids
  BY Zenon DEF CallStep, sendCall, timeout, RecordStep, newRecord, cacheVars, lose, duplicate, evict
<1> HIDE DEF Goal
<1>7. Goal \/ \E p \in net : receiveUnknown(p)
  BY Zenon, <1>1, <1>2, <1>3, <1>4, <1>5, <1>6 DEF Next, PacketStep, Fault
<1> QED
  BY Zenon, <1>7 DEF Goal

---------------------------------------------------------------------------
(* Challenges keep their numbers, and what was said about them *)

(* The numbers of challenges stay distinct.                                *)
LEMMA ChallengeStep ==
  ASSUME TypeOK, ChallengeInv, Next
  PROVE  ChallengeInv'
<1>0. ids \in Nat /\ handshakes \in [Node -> [Node -> Challenge \cup {None}]]
  BY Zenon DEF TypeOK
<1>1. CASE shrunk(handshakes') /\ ids' = ids
  BY <1>0, <1>1 DEF shrunk, ChallengeInv
<1>2. CASE \E p \in net : receiveUnknown(p)
  <2>1. PICK p \in net : receiveUnknown(p)
    BY Zenon, <1>2
  <2>2. p.dst \in Node /\ p.src \in Node
    BY Zenon DEF TypeOK
  <2>3. PICK node : challenged(p.dst, p.src, node)
    BY Zenon, <2>1, UnknownChallenges
  <2>4. ids' = ids + 1
    BY Zenon, <2>3 DEF challenged
  <2>5. /\ handshakes'[p.dst][p.src].id = ids + 1
        /\ \A k, l \in Node : (k # p.dst \/ l # p.src) /\ handshakes'[k][l] # None =>
             handshakes[k][l] # None /\ handshakes'[k][l].id = handshakes[k][l].id
    BY <2>2, <2>3, ChallengedValues
  <2>6. \A k, l \in Node : handshakes[k][l] # None =>
          handshakes[k][l].id \in Nat /\ handshakes[k][l].id <= ids
    BY <1>0 DEF ChallengeInv, Challenge
  <2>7. \A k, l \in Node : handshakes'[k][l] # None => handshakes'[k][l].id <= ids'
    BY <1>0, <2>4, <2>5, <2>6
  <2>8. \A n, m, k, l \in Node :
          /\ handshakes'[n][m] # None /\ handshakes'[k][l] # None
          /\ handshakes'[n][m].id = handshakes'[k][l].id
          => n = k /\ m = l
    BY <1>0, <2>5, <2>6 DEF ChallengeInv
  <2> QED
    BY Zenon, <2>7, <2>8 DEF ChallengeInv
<1> QED
  BY Zenon, <1>1, <1>2, ChallengeKinds

(* A key whose challenge is gone stays so.                                 *)
LEMMA GoneForGood ==
  ASSUME TypeOK, Next, NEW k \in Key, spentRecipient(k, handshakes)
  PROVE  spentRecipient(k, handshakes)'
<1>0. ids \in Nat /\ k.challenge \in Nat
  BY Zenon DEF TypeOK, Key
<1>1. CASE shrunk(handshakes') /\ ids' = ids
  BY <1>0, <1>1 DEF shrunk, spentRecipient
<1>2. CASE \E p \in net : receiveUnknown(p)
  <2>1. PICK p \in net : receiveUnknown(p)
    BY Zenon, <1>2
  <2>2. p.dst \in Node /\ p.src \in Node
    BY Zenon DEF TypeOK
  <2>3. PICK node : challenged(p.dst, p.src, node)
    BY Zenon, <2>1, UnknownChallenges
  <2>4. ids' = ids + 1
    BY Zenon, <2>3 DEF challenged
  <2>5. /\ handshakes'[p.dst][p.src].id = ids + 1
        /\ \A n, m \in Node : (n # p.dst \/ m # p.src) /\ handshakes'[n][m] # None =>
             handshakes[n][m] # None /\ handshakes'[n][m].id = handshakes[n][m].id
    BY <2>2, <2>3, ChallengedValues
  <2> QED
    BY <1>0, <2>4, <2>5 DEF spentRecipient
<1> QED
  BY Zenon, <1>1, <1>2, ChallengeKinds

(* A packet under way goes on agreeing with the challenges: the new one    *)
(* has a number no packet carries.                                         *)
LEMMA OldPacketAgrees ==
  ASSUME TypeOK, Next, NEW q, goodPacket(q), answerable(q, handshakes, ids)
  PROVE  answerable(q, handshakes', ids')
<1>0. /\ ids \in Nat
      /\ q.type = "whoareyou" => q.id \in Nat
      /\ q.type = "handshake" => q.challenge \in Nat
  BY Zenon DEF TypeOK, goodPacket, isWhoareyou, isHandshake
<1>1. CASE shrunk(handshakes') /\ ids' = ids
  BY <1>0, <1>1 DEF shrunk, answerable, agrees
<1>2. CASE \E p \in net : receiveUnknown(p)
  <2>1. PICK p \in net : receiveUnknown(p)
    BY Zenon, <1>2
  <2>2. p.dst \in Node /\ p.src \in Node
    BY Zenon DEF TypeOK
  <2>3. PICK node : challenged(p.dst, p.src, node)
    BY Zenon, <2>1, UnknownChallenges
  <2>4. ids' = ids + 1
    BY Zenon, <2>3 DEF challenged
  <2>5. /\ handshakes'[p.dst][p.src].id = ids + 1
        /\ \A n, m \in Node : (n # p.dst \/ m # p.src) /\ handshakes'[n][m] # None =>
             /\ handshakes[n][m] # None /\ handshakes'[n][m].id = handshakes[n][m].id
             /\ handshakes'[n][m].node = handshakes[n][m].node
    BY SMTT(30), <2>2, <2>3, ChallengedValues
  <2>6. /\ q.type = "whoareyou" => q.id <= ids'
        /\ q.type = "handshake" => q.challenge <= ids'
    BY <1>0, <2>4 DEF answerable
  <2>7. ASSUME NEW n \in Node, NEW m \in Node, handshakes'[n][m] # None
        PROVE  agrees(q, handshakes'[n][m])
    <3>1. CASE n = p.dst /\ m = p.src
      BY <1>0, <2>5, <3>1 DEF answerable, agrees
    <3>2. CASE n # p.dst \/ m # p.src
      BY <2>5, <2>7, <3>2 DEF answerable, agrees
    <3> QED
      BY Zenon, <3>1, <3>2
  <2> QED
    BY Zenon, <2>6, <2>7 DEF answerable
<1> QED
  BY Zenon, <1>1, <1>2, ChallengeKinds

(* Messages carry no challenge.                                            *)
LEMMA MessageAgrees ==
  ASSUME NEW q, q.type = "message", NEW H, NEW max
  PROVE  answerable(q, H, max)
  BY Zenon DEF answerable, agrees

(* Every packet agrees with the challenges after a step, the ones it sends *)
(* included.                                                               *)
LEMMA AnswerStep ==
  ASSUME TypeOK, PacketInv, ChallengeInv, AnswerInv, Next
  PROVE  AnswerInv'
<1> DEFINE good(q) == answerable(q, handshakes', ids')
<1>0. \A q \in net : good(q)
  BY Zenon, PacketsAreGood, OldPacketAgrees DEF AnswerInv
<1>t. ids \in Nat /\ handshakes \in [Node -> [Node -> Challenge \cup {None}]]
  BY Zenon DEF TypeOK
<1>1. ASSUME NEW c \in Call, sendCall(c) PROVE \A q \in net' : good(q)
  <2>1. From[c] \in Node /\ To[c] \in Node /\ From[c] # To[c]
    BY Zenon, HandshakeAssumption
  <2>2. net' = net \cup sent(sessions, From[c], To[c], nonce(c), request(c))
    BY Zenon, <1>1 DEF sendCall
  <2>3. \A q \in sent(sessions, From[c], To[c], nonce(c), request(c)) : good(q)
    BY <2>1, SentIsGood, MessageAgrees
  <2> QED
    BY Zenon, <1>0, <2>2, <2>3
<1>2. ASSUME NEW p \in net, receiveRequest(p) PROVE \A q \in net' : good(q)
  <2>1. p.src \in Node /\ p.dst \in Node /\ p.src # p.dst
    BY Zenon DEF TypeOK
  <2>2. net' = (net \ {p}) \cup sent(sessions, p.dst, p.src, None, response(p.msg.call))
    BY Zenon, <1>2 DEF receiveRequest
  <2>3. \A q \in sent(sessions, p.dst, p.src, None, response(p.msg.call)) : good(q)
    BY <2>1, SentIsGood, MessageAgrees
  <2> QED
    BY Zenon, <1>0, <2>2, <2>3
<1>3. ASSUME NEW p \in net, receiveUnknown(p) PROVE \A q \in net' : good(q)
  <2>1. p.src \in Node /\ p.dst \in Node
    BY Zenon DEF TypeOK
  <2>2. PICK node :
          /\ challenged(p.dst, p.src, node)
          /\ net' = (net \ {p}) \cup
               {whoareyouPacket(p.dst, p.src, p.nonce, [id |-> ids + 1, node |-> node, late |-> FALSE])}
    BY Zenon, <1>3, UnknownChallenges
  <2> DEFINE q == whoareyouPacket(p.dst, p.src, p.nonce, [id |-> ids + 1, node |-> node, late |-> FALSE])
  <2>3. q.type = "whoareyou" /\ q.id = ids + 1 /\ q.seq = node
    BY Zenon DEF whoareyouPacket
  <2> HIDE DEF q
  <2>4. ids' = ids + 1
    BY Zenon, <2>2 DEF challenged
  <2>5. /\ handshakes'[p.dst][p.src].node = node
        /\ \A n, m \in Node : (n # p.dst \/ m # p.src) /\ handshakes'[n][m] # None =>
             /\ handshakes[n][m] # None /\ handshakes'[n][m].id = handshakes[n][m].id
    BY <2>1, <2>2, ChallengedValues
  <2>6. \A n, m \in Node : (n # p.dst \/ m # p.src) /\ handshakes'[n][m] # None =>
          handshakes'[n][m].id # ids + 1
    BY <1>t, <2>5 DEF ChallengeInv, Challenge
  <2>7. good(q)
    BY <1>t, <2>3, <2>4, <2>5, <2>6 DEF answerable, agrees
  <2> QED
    BY Zenon, <1>0, <2>2, <2>7 DEF q
<1>4. ASSUME NEW p \in net, NEW c \in Call, receiveWhoareyou(p, c)
      PROVE  \A q \in net' : good(q)
  <2> DEFINE s == nextNonce(deriveKeys(c, p.id))
             q == handshakePacket(c, p, s)
  <2>1. net' = (net \ {p}) \cup {q} /\ p.type = "whoareyou" /\ ids' = ids
    BY Zenon, <1>4 DEF receiveWhoareyou
  <2>2. /\ q.type = "handshake" /\ q.challenge = p.id /\ q.seq = seq[From[c]]
        /\ q.record = handshakeRecord(p.seq, From[c])
    BY Zenon DEF handshakePacket
  <2> HIDE DEF q
  <2>3. p.id \in Nat /\ p.seq \in Nat /\ seq[From[c]] \in Nat
    BY Zenon, <2>1, HandshakeAssumption DEF PacketInv, isWhoareyou, TypeOK
  <2>4. p.seq >= q.seq \/ q.record >= q.seq
    BY <2>2, <2>3 DEF handshakeRecord
  <2>5. good(p)
    BY Zenon, <1>0
  <2>6. good(q)
    BY Zenon, <2>1, <2>2, <2>3, <2>4, <2>5 DEF answerable, agrees
  <2> QED
    BY Zenon, <1>0, <2>1, <2>6
<1>5. ASSUME NEW p \in net, receiveHandshake(p) PROVE \A q \in net' : good(q)
  <2> DEFINE S == [sessions EXCEPT ![p.dst][p.src] =
                     keysFlipped(deriveKeys(p.key.eph, handshakeGC(p.dst)[p.dst][p.src].id))]
  <2>1. p.src \in Node /\ p.dst \in Node /\ p.src # p.dst
    BY Zenon DEF TypeOK
  <2>2. net' = (net \ {p}) \cup sent(S, p.dst, p.src, None, response(p.msg.call))
    BY Zenon, <1>5 DEF receiveHandshake
  <2> HIDE DEF S
  <2>3. \A q \in sent(S, p.dst, p.src, None, response(p.msg.call)) : good(q)
    BY <2>1, SentIsGood, MessageAgrees
  <2> QED
    BY Zenon, <1>0, <2>2, <2>3
<1>6. ASSUME NEW p \in net, duplicate(p) PROVE \A q \in net' : good(q)
  <2> DEFINE q == [p EXCEPT !.copy = TRUE]
  <2>1. net' = net \cup {q}
    BY Zenon, <1>6 DEF duplicate
  <2>2. /\ q.type = p.type
        /\ p.type = "whoareyou" => q.id = p.id /\ q.seq = p.seq
        /\ p.type = "handshake" =>
             q.challenge = p.challenge /\ q.seq = p.seq /\ q.record = p.record
    BY Zenon, PacketsAreGood, CopyIsGood
  <2> HIDE DEF q
  <2>3. good(p)
    BY Zenon, <1>0
  <2>4. good(q)
    BY <2>2, <2>3 DEF answerable, agrees
  <2> QED
    BY Zenon, <1>0, <2>1, <2>4
<1>7. ASSUME net' \subseteq net PROVE \A q \in net' : good(q)
  BY Zenon, <1>0, <1>7
<1>8. /\ \A c \in Call : timeout(c) => net' \subseteq net
      /\ \A p \in net : receiveResponse(p) \/ ignoreWhoareyou(p) \/ refuseHandshake(p)
                          \/ lose(p) => net' \subseteq net
      /\ Fault => net' \subseteq net \/ \E p \in net : duplicate(p)
      /\ RecordStep => net' \subseteq net
  BY Zenon DEF timeout, receiveResponse, ignoreWhoareyou, refuseHandshake, lose, Fault, evict, expire,
         restart, RecordStep, newRecord
<1> HIDE DEF good
<1>9. \A q \in net' : good(q)
  BY Zenon, <1>1, <1>2, <1>3, <1>4, <1>5, <1>6, <1>7, <1>8 DEF Next, CallStep, PacketStep
<1> QED
  BY Zenon, <1>9 DEF AnswerInv, good

---------------------------------------------------------------------------
(* How an action changes the sessions *)

lostSessions ==
  /\ used' = used
  /\ sessions' \in [Node -> [Node -> Session \cup {None}]]
  /\ \A n, m \in Node : sessions'[n][m] \in {sessions[n][m], None}

(* n has sent m a message, in session s, which may be the one it had.      *)
usedSession(n, m, s) ==
  /\ s \in Session
  /\ sessions' = [sessions EXCEPT ![n][m] = s]
  /\ used' = used \cup {<<s.writeKey, s.nonceCounter>>}
  /\ owns(s.writeKey, n, m)
  /\ \A u \in used : u[1] = s.writeKey => u[2] <= s.nonceCounter
  /\ spentInitiator(s.writeKey)'
  /\ spentRecipient(s.writeKey, handshakes)'

(* nextNonce keeps the keys and counts.                                    *)
LEMMA NextNonceValues ==
  ASSUME NEW t \in Session
  PROVE  LET s == nextNonce(t)
         IN /\ s \in Session /\ s.writeKey = t.writeKey /\ t.writeKey \in Key
            /\ t.nonceCounter \in Nat /\ s.nonceCounter = t.nonceCounter + 1
  BY DEF nextNonce, Session

(* deriveKeys and keysFlipped: the two sides write with different keys and *)
(* start at zero.                                                          *)
LEMMA KeyValues ==
  ASSUME NEW c \in Call, NEW id \in Nat
  PROVE  /\ deriveKeys(c, id) \in Session
         /\ keysFlipped(deriveKeys(c, id)) \in Session
         /\ deriveKeys(c, id).nonceCounter = 0
         /\ keysFlipped(deriveKeys(c, id)).nonceCounter = 0
         /\ deriveKeys(c, id).writeKey = [eph |-> c, challenge |-> id, side |-> "initiator"]
         /\ keysFlipped(deriveKeys(c, id)).writeKey =
              [eph |-> c, challenge |-> id, side |-> "recipient"]
  BY Zenon DEF deriveKeys, keysFlipped, Session, Key

(* A message in the session there is, or a random packet without one.      *)
LEMMA EncodeUses ==
  ASSUME Inv, Next, NEW n \in Node, NEW m \in Node,
         sessions' = counted(sessions, n, m),
         used' = used \cup spent(sessions, n, m),
         handshakeCount' = handshakeCount
  PROVE  lostSessions \/ \E s \in Session : usedSession(n, m, s)
<1>0. /\ sessions \in [Node -> [Node -> Session \cup {None}]]
      /\ used \subseteq Key \X Nat
  BY Zenon DEF Inv, TypeOK
<1>1. CASE sessions[n][m] = None
  BY Zenon, <1>0, <1>1 DEF counted, spent, lostSessions
<1>2. CASE sessions[n][m] # None
  <2>1. PICK t \in Session : t = sessions[n][m]
    BY Zenon, <1>0, <1>2
  <2>2. PICK s \in Session : s = nextNonce(t)
    BY Zenon, NextNonceValues
  <2>3. /\ s.writeKey = t.writeKey /\ t.writeKey \in Key
        /\ t.nonceCounter \in Nat /\ s.nonceCounter = t.nonceCounter + 1
    BY Zenon, <2>2, NextNonceValues
  <2>4. sessions' = [sessions EXCEPT ![n][m] = s]
    BY Zenon, <1>0, <1>2, <2>1, <2>2 DEF counted
  <2>5. used' = used \cup {<<s.writeKey, s.nonceCounter>>}
    BY Zenon, <1>2, <2>1, <2>2, <2>3 DEF spent
  <2>6. owns(t.writeKey, n, m) /\ <<t.writeKey, t.nonceCounter>> \in used
    BY Zenon, <1>2, <2>1 DEF Inv, SessionInv
  <2>7. \A u \in used : u[1] = s.writeKey => u[2] <= s.nonceCounter
    <3>1. \A u \in used : u[1] = t.writeKey => u[2] <= t.nonceCounter
      BY Zenon, <1>2, <2>1 DEF Inv, CountersNeverReused
    <3>2. \A u \in used : u[2] \in Nat
      BY Zenon, <1>0
    <3> QED
      BY <2>3, <3>1, <3>2
  <2>8. spentInitiator(t.writeKey) /\ spentRecipient(t.writeKey, handshakes)
    BY Zenon, <2>6 DEF Inv, UsedInv
  <2>9. spentInitiator(s.writeKey)' /\ spentRecipient(s.writeKey, handshakes)'
    <3>1. spentRecipient(t.writeKey, handshakes)'
      BY Zenon, <2>3, <2>8, GoneForGood DEF Inv
    <3> QED
      BY Zenon, <2>3, <2>8, <3>1 DEF spentInitiator
  <2>10. owns(s.writeKey, n, m)
    BY Zenon, <2>3, <2>6
  <2>11. usedSession(n, m, s)
    BY Zenon, <2>4, <2>5, <2>7, <2>9, <2>10 DEF usedSession
  <2> QED
    BY Zenon, <2>11
<1> QED
  BY Zenon, <1>1, <1>2

(* handleWhoareyou derives a key no message was written with, since its    *)
(* call made no handshake before.                                          *)
LEMMA WhoareyouUses ==
  ASSUME Inv, Next, NEW p \in net, NEW c \in Call, receiveWhoareyou(p, c)
  PROVE  \E s \in Session : usedSession(From[c], To[c], s)
<1>0. /\ From[c] \in Node /\ To[c] \in Node /\ handshakeCount \in [Call -> 0 .. 1]
      /\ p.type = "whoareyou" /\ p.id \in Nat
  BY Zenon, HandshakeAssumption DEF Inv, TypeOK, receiveWhoareyou, PacketInv, isWhoareyou
<1>1. PICK k \in Key : k = [eph |-> c, challenge |-> p.id, side |-> "initiator"]
  BY Zenon, <1>0 DEF Key
<1>2. PICK s \in Session : s = nextNonce(deriveKeys(c, p.id))
  BY Zenon, <1>0, KeyValues, NextNonceValues
<1>3. s.writeKey = k /\ s.nonceCounter = 1
  <2>1. PICK t \in Session : t = deriveKeys(c, p.id)
    BY Zenon, <1>0, KeyValues
  <2>2. t.writeKey = k /\ t.nonceCounter = 0
    BY Zenon, <1>0, <1>1, <2>1, KeyValues
  <2>3. s.writeKey = t.writeKey /\ s.nonceCounter = t.nonceCounter + 1
    BY Zenon, <1>2, <2>1, NextNonceValues
  <2> QED
    BY <2>2, <2>3
<1>4. k.side = "initiator" /\ k.eph = c
  BY Zenon, <1>1
<1>5. /\ sessions' = [sessions EXCEPT ![From[c]][To[c]] = s]
      /\ used' = used \cup {<<s.writeKey, s.nonceCounter>>}
      /\ handshakeCount' = [handshakeCount EXCEPT ![c] = @ + 1]
      /\ handshakeCount[c] = 0
  BY Zenon, <1>2 DEF receiveWhoareyou, matchWithCall
<1>6. owns(k, From[c], To[c])
  BY Zenon, <1>4 DEF owns
<1>7. \A u \in used : u[1] # k
  BY <1>4, <1>5 DEF Inv, UsedInv, spentInitiator
<1>8. handshakeCount'[c] = 1
  BY <1>0, <1>5
<1>9. spentInitiator(k)' /\ spentRecipient(k, handshakes)'
  BY Zenon, <1>4, <1>8 DEF spentInitiator, spentRecipient
<1>10. usedSession(From[c], To[c], s)
  BY Zenon, <1>3, <1>5, <1>6, <1>7, <1>9 DEF usedSession
<1> QED
  BY Zenon, <1>10

(* decodeHandshake does too, since the challenge was still there and is    *)
(* now deleted.                                                            *)
LEMMA HandshakeUses ==
  ASSUME Inv, Next, NEW p \in net, receiveHandshake(p)
  PROVE  \E s \in Session : usedSession(p.dst, p.src, s)
<1> DEFINE n == p.dst
           m == p.src
           G == handshakeGC(n)
<1>0. /\ n \in Node /\ m \in Node /\ ids \in Nat
      /\ p.type = "handshake" /\ p.key.eph \in Call
      /\ From[p.key.eph] = m /\ To[p.key.eph] = n
      /\ sessions \in [Node -> [Node -> Session \cup {None}]]
      /\ handshakes \in [Node -> [Node -> Challenge \cup {None}]]
  BY Zenon DEF Inv, TypeOK, receiveHandshake, PacketInv, isHandshake
<1>1. G[n][m] # None
  BY Zenon DEF receiveHandshake, accepts
<1>2. shrunk(G)
  BY Zenon, <1>0, GCShrinks DEF Inv
<1>3. handshakes[n][m] # None /\ G[n][m].id = handshakes[n][m].id
  BY Zenon, <1>0, <1>1, <1>2 DEF shrunk
<1>4. PICK c \in Call : c = p.key.eph
  BY Zenon, <1>0
<1>5. PICK id \in Nat : id = handshakes[n][m].id
  BY <1>0, <1>3 DEF Challenge
<1>6. PICK k \in Key : k = [eph |-> c, challenge |-> id, side |-> "recipient"]
  BY Zenon DEF Key
<1>7. PICK t \in Session : t = keysFlipped(deriveKeys(c, id))
  BY Zenon, KeyValues
<1>8. PICK s \in Session : s = nextNonce(t)
  BY Zenon, NextNonceValues
<1>9. /\ s.writeKey = k /\ s.nonceCounter = 1
      /\ t.writeKey = k /\ nextNonce(t).nonceCounter = 1
  <2>1. t.writeKey = k /\ t.nonceCounter = 0
    BY Zenon, <1>6, <1>7, KeyValues
  <2>2. s.writeKey = t.writeKey /\ s.nonceCounter = t.nonceCounter + 1
    BY Zenon, <1>8, NextNonceValues
  <2> QED
    BY <1>8, <2>1, <2>2
<1>10. k.side = "recipient" /\ k.eph = c /\ k.challenge = id
  BY Zenon, <1>6
<1> DEFINE S == [sessions EXCEPT ![n][m] = t]
<1>11. /\ sessions' = counted(S, n, m)
       /\ used' = used \cup spent(S, n, m)
       /\ handshakes' = deleteHandshake(G, n, m)
       /\ ids' = ids
  BY Zenon, <1>3, <1>4, <1>5, <1>7 DEF receiveHandshake
<1>12. S[n][m] = t /\ t # None
  BY Zenon, <1>0, HandshakeAssumption
<1>13. sessions' = [sessions EXCEPT ![n][m] = s]
  BY Zenon, <1>0, <1>8, <1>11, <1>12 DEF counted
<1>14. used' = used \cup {<<s.writeKey, s.nonceCounter>>}
  BY Zenon, <1>9, <1>11, <1>12 DEF spent
<1>15. owns(k, n, m)
  BY Zenon, <1>0, <1>4, <1>10 DEF owns
<1>16. \A u \in used : u[1] # k
  BY Zenon, <1>0, <1>3, <1>5, <1>10 DEF Inv, UsedInv, spentRecipient
<1>17. \A i, j \in Node : handshakes'[i][j] # None =>
         /\ i # n \/ j # m
         /\ handshakes[i][j] # None /\ handshakes'[i][j].id = handshakes[i][j].id
  <2>1. G \in [Node -> [Node -> Challenge \cup {None}]]
    BY Zenon, <1>2 DEF shrunk
  <2>2. \A i, j \in Node : handshakes'[i][j] = IF i = n /\ j = m THEN None ELSE G[i][j]
    BY Zenon, <1>0, <1>11, <2>1 DEF deleteHandshake
  <2> QED
    BY SMTT(30), <1>2, <2>2 DEF shrunk
<1>18. \A i, j \in Node : handshakes'[i][j] # None => handshakes'[i][j].id # id
  <2>0. ChallengeInv
    BY Zenon DEF Inv
  <2>1. \A i, j \in Node : handshakes[i][j] # None /\ handshakes[i][j].id = id
                           => i = n /\ j = m
    BY SMTT(30), <1>0, <1>3, <1>5, <2>0 DEF ChallengeInv
  <2> QED
    BY <1>17, <2>1
<1>19. id <= ids
  BY Zenon, <1>0, <1>3, <1>5 DEF Inv, ChallengeInv
<1>20. spentInitiator(k)' /\ spentRecipient(k, handshakes)'
  BY Zenon, <1>10, <1>11, <1>18, <1>19 DEF spentInitiator, spentRecipient
<1>21. usedSession(n, m, s)
  BY Zenon, <1>9, <1>13, <1>14, <1>15, <1>16, <1>20 DEF usedSession
<1> QED
  BY Zenon, <1>21

(* A step loses sessions, or uses one session once.                        *)
LEMMA SessionKinds ==
  ASSUME Inv, Next
  PROVE  lostSessions \/ \E n, m \in Node, s \in Session : usedSession(n, m, s)
<1> DEFINE Goal == lostSessions \/ \E n, m \in Node, s \in Session : usedSession(n, m, s)
<1>0. /\ sessions \in [Node -> [Node -> Session \cup {None}]]
      /\ \A p \in net : p.src \in Node /\ p.dst \in Node
      /\ \A c \in Call : From[c] \in Node /\ To[c] \in Node
  BY Zenon, HandshakeAssumption DEF Inv, TypeOK
<1>1. ASSUME NEW c \in Call, sendCall(c) PROVE Goal
  <2>1. /\ sessions' = counted(sessions, From[c], To[c])
        /\ used' = used \cup spent(sessions, From[c], To[c])
        /\ handshakeCount' = handshakeCount
    BY Zenon, <1>1 DEF sendCall
  <2> QED
    BY Zenon, <1>0, <2>1, EncodeUses
<1>2. ASSUME NEW p \in net, receiveRequest(p) PROVE Goal
  <2>1. /\ sessions' = counted(sessions, p.dst, p.src)
        /\ used' = used \cup spent(sessions, p.dst, p.src)
        /\ handshakeCount' = handshakeCount
    BY Zenon, <1>2 DEF receiveRequest, callVars
  <2> QED
    BY Zenon, <1>0, <2>1, EncodeUses
<1>3. ASSUME NEW p \in net, NEW c \in Call, receiveWhoareyou(p, c) PROVE Goal
  BY Zenon, <1>0, <1>3, WhoareyouUses
<1>4. ASSUME NEW p \in net, receiveHandshake(p) PROVE Goal
  BY Zenon, <1>0, <1>4, HandshakeUses
<1>5. ASSUME sessions' = sessions, used' = used PROVE Goal
  BY Zenon, <1>0, <1>5 DEF lostSessions
<1>6. ASSUME NEW n \in Node, NEW m \in Node, evict(n, m) PROVE Goal
  BY Zenon, <1>0, <1>6 DEF lostSessions, evict
<1>7. ASSUME NEW n \in Node, restart(n) PROVE Goal
  BY Zenon, <1>0, <1>7 DEF lostSessions, restart
<1>8. /\ \A c \in Call : timeout(c) => sessions' = sessions /\ used' = used
      /\ RecordStep => sessions' = sessions /\ used' = used
      /\ \A p \in net :
           receiveResponse(p) \/ receiveUnknown(p) \/ ignoreWhoareyou(p) \/ refuseHandshake(p)
             \/ lose(p) \/ duplicate(p) => sessions' = sessions /\ used' = used
      /\ \A n, m \in Node : expire(n, m) => sessions' = sessions /\ used' = used
  BY Zenon DEF timeout, RecordStep, newRecord, receiveResponse, receiveUnknown, ignoreWhoareyou,
         refuseHandshake, lose, duplicate, expire, cacheVars, historyVars
<1> HIDE DEF Goal
<1>9. Goal
  BY Zenon, <1>1, <1>2, <1>3, <1>4, <1>5, <1>6, <1>7, <1>8 DEF Next, CallStep, PacketStep, Fault
<1> QED
  BY Zenon, <1>9 DEF Goal

(* A call that has made its handshake makes no other.                      *)
LEMMA CountKept ==
  ASSUME TypeOK, Next, NEW c \in Call, handshakeCount[c] = 1
  PROVE  handshakeCount'[c] = 1
<1>0. handshakeCount \in [Call -> 0 .. 1]
  BY Zenon DEF TypeOK
<1>1. ASSUME NEW p \in net, NEW d \in Call, receiveWhoareyou(p, d)
      PROVE  handshakeCount'[c] = 1
  BY <1>0, <1>1 DEF receiveWhoareyou, matchWithCall
<1>2. \/ handshakeCount' = handshakeCount
      \/ \E p \in net, d \in Call : receiveWhoareyou(p, d)
  BY Zenon DEF Next, CallStep, PacketStep, Fault, RecordStep, sendCall, timeout, receiveRequest,
         receiveResponse, receiveUnknown, ignoreWhoareyou, receiveHandshake, refuseHandshake,
         lose, duplicate, evict, expire, restart, newRecord, callVars
<1> QED
  BY Zenon, <1>1, <1>2

(* A key is written with by one node, to one other.                        *)
LEMMA OneOwner ==
  ASSUME NEW k, NEW n, NEW m, NEW i, NEW j, owns(k, n, m), owns(k, i, j)
  PROVE  n = i /\ m = j
<1>1. CASE k.side = "initiator"
  BY Zenon, <1>1 DEF owns
<1>2. CASE k.side = "recipient"
  BY Zenon, <1>2 DEF owns
<1> QED
  BY Zenon, <1>1, <1>2 DEF owns

(* What has been used stays spent, and no counter is used again.           *)
LEMMA UsedStep ==
  ASSUME Inv, Next
  PROVE  UsedInv' /\ SessionInv' /\ CountersNeverReused'
<1>0. /\ used \subseteq Key \X Nat
      /\ sessions \in [Node -> [Node -> Session \cup {None}]]
  BY Zenon DEF Inv, TypeOK
<1>1. ASSUME NEW u \in used PROVE spentInitiator(u[1])' /\ spentRecipient(u[1], handshakes)'
  <2>1. PICK k \in Key : k = u[1]
    BY Zenon, <1>0
  <2>2. spentInitiator(k) /\ spentRecipient(k, handshakes) /\ k.eph \in Call
    BY Zenon, <2>1 DEF Inv, UsedInv, Key
  <2>3. spentRecipient(k, handshakes)'
    BY Zenon, <2>2, GoneForGood DEF Inv
  <2>4. spentInitiator(k)'
    BY Zenon, <2>2, CountKept DEF spentInitiator, Inv
  <2> QED
    BY Zenon, <2>1, <2>3, <2>4
<1>2. CASE lostSessions
  <2>1. used' = used
    BY Zenon, <1>2 DEF lostSessions
  <2>2. UsedInv'
    BY Zenon, <1>1, <2>1 DEF UsedInv
  <2>3. SessionInv' /\ CountersNeverReused'
    BY Zenon, <1>2 DEF lostSessions, Inv, SessionInv, CountersNeverReused
  <2> QED
    BY Zenon, <2>2, <2>3
<1>3. ASSUME NEW n \in Node, NEW m \in Node, NEW s \in Session, usedSession(n, m, s)
      PROVE  UsedInv' /\ SessionInv' /\ CountersNeverReused'
  <2> DEFINE e == <<s.writeKey, s.nonceCounter>>
  <2>1. /\ sessions' = [sessions EXCEPT ![n][m] = s] /\ used' = used \cup {e}
        /\ owns(s.writeKey, n, m)
        /\ spentInitiator(s.writeKey)' /\ spentRecipient(s.writeKey, handshakes)'
        /\ \A u \in used : u[1] = s.writeKey => u[2] <= s.nonceCounter
    BY Zenon, <1>3 DEF usedSession
  <2>2. e[1] = s.writeKey /\ e[2] = s.nonceCounter /\ s.nonceCounter \in Nat
    BY Zenon DEF Session
  <2>3. /\ sessions'[n][m] = s
        /\ \A k, l \in Node : k # n \/ l # m => sessions'[k][l] = sessions[k][l]
    BY Zenon, <1>0, <2>1
  <2>4. UsedInv'
    BY Zenon, <1>1, <2>1, <2>2 DEF UsedInv
  <2>5. SessionInv'
    BY <2>1, <2>3 DEF SessionInv, Inv
  <2>6. \A k, l \in Node : (k # n \/ l # m) /\ sessions[k][l] # None =>
          sessions[k][l].writeKey # s.writeKey
    <3>1. \A k, l \in Node : sessions[k][l] # None => owns(sessions[k][l].writeKey, k, l)
      BY Zenon DEF Inv, SessionInv
    <3>2. \A k, l \in Node : owns(s.writeKey, k, l) => k = n /\ l = m
      BY Zenon, <2>1, OneOwner
    <3> QED
      BY Zenon, <3>1, <3>2
  <2> HIDE DEF e
  <2>7. ASSUME NEW k \in Node, NEW l \in Node, sessions'[k][l] # None,
               NEW u \in used', u[1] = sessions'[k][l].writeKey
        PROVE  u[2] <= sessions'[k][l].nonceCounter
    <3>1. CASE k = n /\ l = m
      BY <2>1, <2>2, <2>3, <2>7, <3>1
    <3>2. CASE k # n \/ l # m
      <4>1. sessions'[k][l] = sessions[k][l]
        BY Zenon, <2>3, <3>2
      <4>2. u # e
        BY Zenon, <2>2, <2>6, <2>7, <3>2, <4>1
      <4> QED
        BY Zenon, <2>1, <2>7, <4>1, <4>2 DEF Inv, CountersNeverReused
    <3> QED
      BY Zenon, <3>1, <3>2
  <2>8. CountersNeverReused'
    BY Zenon, <2>7 DEF CountersNeverReused
  <2> QED
    BY Zenon, <2>4, <2>5, <2>8
<1> QED
  BY Zenon, <1>2, <1>3, SessionKinds

---------------------------------------------------------------------------
(* Types *)

(* Calls, own records and the histories keep their types.                  *)
LEMMA CallTypes ==
  ASSUME Inv, Next
  PROVE  /\ state' \in [Call -> {"idle", "active", "answered", "failed"}]
         /\ handshakeCount' \in [Call -> 0 .. 1]
         /\ seq' \in [Node -> Nat \ {0}]
         /\ disturbed' \subseteq Call /\ faults' \in 0 .. MaxFaults
<1>0. /\ state \in [Call -> {"idle", "active", "answered", "failed"}]
      /\ handshakeCount \in [Call -> 0 .. 1]
      /\ seq \in [Node -> Nat \ {0}]
      /\ disturbed \subseteq Call /\ faults \in 0 .. MaxFaults
      /\ MaxFaults \in Nat
  BY Zenon, HandshakeAssumption DEF Inv, TypeOK
<1>1. handshakeCount' \in [Call -> 0 .. 1]
  <2>1. ASSUME NEW p \in net, NEW d \in Call, receiveWhoareyou(p, d)
        PROVE  handshakeCount' \in [Call -> 0 .. 1]
    BY <1>0, <2>1 DEF receiveWhoareyou, matchWithCall
  <2>2. \/ handshakeCount' = handshakeCount
        \/ \E p \in net, d \in Call : receiveWhoareyou(p, d)
    BY Zenon DEF Next, CallStep, PacketStep, Fault, RecordStep, sendCall, timeout, receiveRequest,
           receiveResponse, receiveUnknown, ignoreWhoareyou, receiveHandshake, refuseHandshake,
           lose, duplicate, evict, expire, restart, newRecord, callVars
  <2> QED
    BY Zenon, <1>0, <2>1, <2>2
<1>2. seq' \in [Node -> Nat \ {0}]
  <2>1. ASSUME NEW n \in Node, newRecord(n) PROVE seq' \in [Node -> Nat \ {0}]
    BY <1>0, <2>1 DEF newRecord
  <2>2. seq' = seq \/ \E n \in Node : newRecord(n)
    BY ZenonT(30) DEF Next, CallStep, PacketStep, Fault, RecordStep, sendCall, timeout, receiveRequest,
           receiveResponse, receiveUnknown, ignoreWhoareyou, receiveHandshake, refuseHandshake,
           receiveWhoareyou, lose, duplicate, evict, expire, restart, recordVars
  <2> QED
    BY Zenon, <1>0, <2>1, <2>2
<1>3. state' \in [Call -> {"idle", "active", "answered", "failed"}]
  BY ZenonT(40), <1>0 DEF Next, CallStep, PacketStep, Fault, RecordStep, sendCall, timeout, receiveRequest,
         receiveResponse, receiveUnknown, ignoreWhoareyou, receiveHandshake, refuseHandshake,
         receiveWhoareyou, lose, duplicate, evict, expire, restart, newRecord, callVars
<1>4. disturbed' \subseteq Call
  <2>1. CASE CallStep
    <3>1. ASSUME NEW c \in Call, sendCall(c)
          PROVE  disturbed' = disturbed \/ disturbed' = disturbed \cup {c}
      BY Zenon, <3>1 DEF sendCall
    <3>2. ASSUME NEW c \in Call, timeout(c) PROVE disturbed' = disturbed
      BY Zenon, <3>2 DEF timeout, historyVars
    <3> QED
      BY Zenon, <1>0, <2>1, <3>1, <3>2 DEF CallStep
  <2>2. CASE PacketStep
    BY ZenonT(40), <1>0, <2>2 DEF PacketStep, receiveRequest, receiveResponse, receiveUnknown,
         ignoreWhoareyou, receiveHandshake, refuseHandshake, receiveWhoareyou, historyVars, active
  <2>3. CASE Fault \/ RecordStep
    <3>1. disturbed' = disturbed \/ fault
      BY Zenon, <2>3 DEF Fault, RecordStep, lose, duplicate, evict, expire, restart, newRecord,
                  historyVars
    <3> QED
      BY Zenon, <1>0, <3>1 DEF fault
  <2> QED
    BY Zenon, <2>1, <2>2, <2>3 DEF Next
<1>5. faults' = faults \/ (faults < MaxFaults /\ faults' = faults + 1)
  <2>1. CASE CallStep
    BY Zenon, <2>1 DEF CallStep, sendCall, timeout
  <2>2. CASE PacketStep
    BY ZenonT(40), <2>2 DEF PacketStep, receiveRequest, receiveResponse, receiveUnknown,
         ignoreWhoareyou, receiveHandshake, refuseHandshake, receiveWhoareyou
  <2>3. CASE Fault \/ RecordStep
    <3>1. faults' = faults \/ fault
      BY Zenon, <2>3 DEF Fault, RecordStep, lose, duplicate, evict, expire, restart, newRecord
    <3> QED
      BY Zenon, <3>1 DEF fault
  <2> QED
    BY Zenon, <2>1, <2>2, <2>3 DEF Next
<1>6. faults' \in 0 .. MaxFaults
  BY <1>0, <1>5
<1> QED
  BY Zenon, <1>1, <1>2, <1>3, <1>4, <1>6

(* The records of table and database keep theirs: decodeHandshakeRecord    *)
(* finds one.                                                              *)
LEMMA KnownType ==
  ASSUME Inv, Next
  PROVE  known' \in [Node -> [Node -> Nat]]
<1>0. known \in [Node -> [Node -> Nat]]
  BY Zenon DEF Inv, TypeOK
<1>1. ASSUME NEW p \in net, receiveHandshake(p) PROVE known' \in [Node -> [Node -> Nat]]
  <2> DEFINE G == handshakeGC(p.dst)
             c == G[p.dst][p.src]
  <2>1. p.dst \in Node /\ p.src \in Node /\ p.record \in Nat
    BY Zenon, <1>1 DEF Inv, TypeOK, PacketInv, isHandshake, receiveHandshake
  <2>2. c \in Challenge
    <3>0. TypeOK
      BY Zenon DEF Inv
    <3>1. shrunk(G)
      BY Zenon, <2>1, <3>0, GCShrinks
    <3>2. c # None
      BY Zenon, <1>1 DEF receiveHandshake, accepts
    <3> QED
      BY <2>1, <3>1, <3>2 DEF shrunk
  <2>3. handshakeNode(c, p) \in Nat
    BY Zenon, <2>1, <2>2 DEF handshakeNode, Challenge
  <2>4. known' = [known EXCEPT ![p.dst][p.src] = IF @ = 0 \/ c.node = 0
                                                  THEN handshakeNode(c, p) ELSE @]
    BY Zenon, <1>1 DEF receiveHandshake
  <2> HIDE DEF c
  <2> QED
    BY Zenon, <1>0, <2>1, <2>3, <2>4
<1>2. \/ known' = known
      \/ \E p \in net : receiveHandshake(p)
  BY ZenonT(30) DEF Next, CallStep, PacketStep, Fault, RecordStep, sendCall, timeout, receiveRequest,
         receiveResponse, receiveUnknown, ignoreWhoareyou, refuseHandshake,
         receiveWhoareyou, lose, duplicate, evict, expire, restart, newRecord, recordVars
<1> QED
  BY Zenon, <1>0, <1>1, <1>2

(* Types are preserved.                                                    *)
LEMMA TypeStep ==
  ASSUME Inv, Next
  PROVE  TypeOK'
<1>0. /\ sessions \in [Node -> [Node -> Session \cup {None}]]
      /\ used \subseteq Key \X Nat /\ ids \in Nat
      /\ \A p \in net : p.src \in Node /\ p.dst \in Node
  BY Zenon DEF Inv, TypeOK
<1>1. \A q \in net' : /\ q.type \in {"message", "whoareyou", "handshake"}
                      /\ q.src \in Node /\ q.dst \in Node /\ q.src # q.dst
  BY Zenon, NetStep DEF Inv, goodPacket
<1>2. /\ sessions' \in [Node -> [Node -> Session \cup {None}]]
      /\ used' \subseteq Key \X Nat
  <2>1. CASE lostSessions
    BY Zenon, <1>0, <2>1 DEF lostSessions
  <2>2. ASSUME NEW n \in Node, NEW m \in Node, NEW s \in Session, usedSession(n, m, s)
        PROVE  /\ sessions' \in [Node -> [Node -> Session \cup {None}]]
               /\ used' \subseteq Key \X Nat
    <3>1. s.writeKey \in Key /\ s.nonceCounter \in Nat
      BY Zenon DEF Session
    <3> QED
      BY SMTT(30), <1>0, <2>2, <3>1 DEF usedSession
  <2> QED
    BY Zenon, <2>1, <2>2, SessionKinds
<1>3. handshakes' \in [Node -> [Node -> Challenge \cup {None}]] /\ ids' \in Nat
  <2>1. CASE shrunk(handshakes') /\ ids' = ids
    BY Zenon, <1>0, <2>1 DEF shrunk
  <2>2. ASSUME NEW p \in net, receiveUnknown(p)
        PROVE  handshakes' \in [Node -> [Node -> Challenge \cup {None}]] /\ ids' \in Nat
    <3>1. PICK node \in getNode(p.dst, p.src) : challenged(p.dst, p.src, node)
      BY Zenon, <2>2, UnknownChallenges DEF Inv
    <3>2. ids' \in Nat
      BY <1>0, <3>1 DEF challenged
    <3> QED
      BY Zenon, <1>0, <3>1, <3>2, ChallengedValues DEF Inv
  <2> QED
    BY Zenon, <2>1, <2>2, ChallengeKinds DEF Inv
<1> QED
  BY Zenon, <1>1, <1>2, <1>3, CallTypes, KnownType DEF TypeOK

---------------------------------------------------------------------------
(* The invariant is inductive.                                             *)
LEMMA InvStep == Inv /\ [Next]_vars => Inv'
<1> SUFFICES ASSUME Inv, [Next]_vars PROVE Inv'
  BY Zenon
<1>1. CASE Next
  <2>1. PacketInv'
    BY Zenon, <1>1, NetStep DEF Inv, PacketInv, goodPacket
  <2>2. ChallengeInv' /\ AnswerInv'
    BY Zenon, <1>1, ChallengeStep, AnswerStep DEF Inv
  <2> QED
    BY Zenon, <1>1, <2>1, <2>2, TypeStep, UsedStep DEF Inv
<1>2. CASE UNCHANGED vars
  <2>0. /\ TypeOK /\ PacketInv /\ SessionInv /\ UsedInv /\ ChallengeInv /\ AnswerInv
        /\ CountersNeverReused
    BY Zenon DEF Inv
  <2> USE <1>2 DEF vars, callVars, cacheVars, recordVars, historyVars
  <2>1. TypeOK'
    BY Zenon, <2>0 DEF TypeOK
  <2>2. PacketInv'
    BY Zenon, <2>0 DEF PacketInv
  <2>3. SessionInv' /\ CountersNeverReused'
    BY Zenon, <2>0 DEF SessionInv, CountersNeverReused
  <2>4. UsedInv'
    BY Zenon, <2>0 DEF UsedInv, spentInitiator, spentRecipient
  <2>5. ChallengeInv'
    <3>1. handshakes' = handshakes /\ ids' = ids /\ ChallengeInv
      BY Zenon, <2>0
    <3> QED
      BY ONLY SMTT(30), <3>1 DEF ChallengeInv
  <2>6. AnswerInv'
    BY Zenon, <2>0 DEF AnswerInv
  <2> QED
    BY Zenon, <2>1, <2>2, <2>3, <2>4, <2>5, <2>6 DEF Inv
<1> QED
  BY Zenon, <1>1, <1>2

(* The invariant holds of every behaviour of the nodes.                    *)
THEOREM Invariance == Spec => []Inv
  BY InitInv, InvStep, PTL DEF Spec

(* Types: no call is challenged twice (handshakeCount in matchWithCall),   *)
(* and no node talks to itself, however many nodes and faults there are.   *)
THEOREM TypeCorrect == Spec => []TypeOK
<1>1. Inv => TypeOK
  BY Zenon DEF Inv
<1> QED
  BY <1>1, Invariance, PTL

(* Encode never uses a key of a session with a counter it has been used    *)
(* with: deleteHandshake and handshakeCount make keys be derived once on   *)
(* each side, and nextNonce counts up from there.                          *)
THEOREM CountersAreSafe == Spec => []CountersNeverReused
<1>1. Inv => CountersNeverReused
  BY Zenon DEF Inv
<1> QED
  BY <1>1, Invariance, PTL

(* A handshake brings decodeHandshakeRecord a record as new as its sender  *)
(* had, unless the challenge it answers already named one, since the       *)
(* WHOAREYOU that makeHandshakeAuth compares with says what the challenge  *)
(* kept by the other node says.                                            *)
THEOREM RecordsArrive == Spec => []RecordIsCurrent
<1>1. Inv => RecordIsCurrent
  <2> SUFFICES ASSUME Inv, NEW p \in net, p.type = "handshake",
                      NEW c, c = handshakes[p.dst][p.src], c # None, c.id = p.challenge
               PROVE  handshakeNode(c, p) >= p.seq /\ handshakeNode(c, p) > 0
    BY Zenon DEF RecordIsCurrent
  <2>1. p.dst \in Node /\ p.src \in Node
    BY Zenon DEF Inv, TypeOK
  <2>2. c \in Challenge
    BY <2>1 DEF Inv, TypeOK
  <2>3. c.node \in Nat /\ p.record \in Nat /\ p.seq \in Nat \ {0}
    BY Zenon, <2>2 DEF Inv, PacketInv, isHandshake, Challenge
  <2>4. c.node >= p.seq \/ p.record >= p.seq
    BY Zenon, <2>1 DEF Inv, AnswerInv, answerable, agrees
  <2> QED
    BY <2>3, <2>4 DEF handshakeNode
<1> QED
  BY <1>1, Invariance, PTL

---------------------------------------------------------------------------
(* Undisturbed calls.  While nothing interferes with call c, of node n to  *)
(* node m, one packet carries it: the request, the WHOAREYOU that answers  *)
(* it, the handshake that answers that, or the response.                   *)

(* The keys of a session belong together.                                  *)
PairInv ==
  \A n, m \in Node : sessions[n][m] # None =>
    /\ sessions[n][m].readKey.eph = sessions[n][m].writeKey.eph
    /\ sessions[n][m].readKey.challenge = sessions[n][m].writeKey.challenge
    /\ sessions[n][m].readKey.side # sessions[n][m].writeKey.side

(* dispatch makes one call of a node at a time, and a call is not          *)
(* challenged before it is made.                                           *)
OneActive ==
  /\ \A c, d \in Call : /\ state[c] = "active" /\ state[d] = "active"
                        /\ From[c] = From[d] /\ To[c] = To[d]
                        => c = d
  /\ \A c \in Call : state[c] = "idle" => handshakeCount[c] = 0

noHandshake(n, m) == \A q \in net : q.type = "handshake" => q.src # n \/ q.dst # m

onlyHandshake(n, m, p) ==
  \A q \in net : q.type = "handshake" /\ q.src = n /\ q.dst = m => q = p

noTag(c) == \A q \in net : q.nonce # <<c, 0>>

onlyTag(c, p) == \A q \in net : q.nonce = <<c, 0>> => q = p

(* Node m can read what n sends it, but for the first packet of c, and has *)
(* not changed keys since it sent what n will read.                        *)
inTouch(c, n, m) ==
  /\ \A q \in net : q.type = "message" /\ q.src = n /\ q.dst = m /\ q.nonce # <<c, 0>> =>
       sessions[m][n] # None /\ q.key = sessions[m][n].readKey
  /\ \A q \in net : q.type = "message" /\ q.src = m /\ q.dst = n /\ q.key # None =>
       sessions[m][n] # None /\ q.key = sessions[m][n].writeKey

(* The challenge of m to n that waits for an answer.                       *)
pending(n, m, id) ==
  handshakes[m][n] # None /\ handshakes[m][n].id = id /\ ~handshakes[m][n].late

asked(c, n, m, p) ==
  /\ p.type = "message" /\ p.src = n /\ p.dst = m /\ p.nonce = <<c, 0>>
  /\ p.key # None =>
       sessions[n][m] # None /\ p.key = sessions[n][m].writeKey /\ p.msg = request(c)
  /\ handshakeCount[c] = 0 /\ onlyTag(c, p) /\ noHandshake(n, m)

questioned(c, n, m, p) ==
  /\ p.type = "whoareyou" /\ p.src = m /\ p.dst = n /\ p.nonce = <<c, 0>>
  /\ pending(n, m, p.id)
  /\ handshakeCount[c] = 0 /\ onlyTag(c, p) /\ noHandshake(n, m)

introduced(c, n, m, p) ==
  /\ p.type = "handshake" /\ p.src = n /\ p.dst = m /\ p.key.eph = c /\ p.msg = request(c)
  /\ pending(n, m, p.challenge)
  /\ sessions[n][m] # None
  /\ sessions[n][m].readKey = [eph |-> c, challenge |-> p.challenge, side |-> "recipient"]
  /\ onlyHandshake(n, m, p) /\ noTag(c)

answering(c, n, m, p) ==
  /\ p.type = "message" /\ p.src = m /\ p.dst = n /\ p.msg = response(c)
  /\ sessions[n][m] # None /\ p.key = sessions[n][m].readKey
  /\ noTag(c)

onItsWay(c, n, m, p) ==
  /\ asked(c, n, m, p) \/ questioned(c, n, m, p) \/ introduced(c, n, m, p)
  /\ inTouch(c, n, m)

(* A handshake of m to n would have disturbed c.                           *)
carried(c, n, m) ==
  /\ noHandshake(m, n)
  /\ \E p \in net : onItsWay(c, n, m, p) \/ answering(c, n, m, p)

undisturbed(c) == state[c] = "active" /\ c \notin disturbed

TripInv == \A c \in Call : undisturbed(c) => carried(c, From[c], To[c])

CallInv == PairInv /\ OneActive /\ TripInv

---------------------------------------------------------------------------
(* What leaves a call on its way *)

sameKeys(n, m) ==
  /\ sessions'[n][m] = None <=> sessions[n][m] = None
  /\ sessions[n][m] # None =>
       /\ sessions'[n][m].writeKey = sessions[n][m].writeKey
       /\ sessions'[n][m].readKey = sessions[n][m].readKey

challengeKept(n, m) ==
  handshakes[m][n] # None /\ ~handshakes[m][n].late => handshakes'[m][n] = handshakes[m][n]

(* A packet that is neither part of call c nor in its way.                 *)
besides(c, n, m, q) ==
  /\ q.nonce # <<c, 0>>
  /\ q.type = "handshake" => (q.src # m \/ q.dst # n) /\ (q.src # n \/ q.dst # m)

understood(n, m, q) ==
  /\ q.type = "message" /\ q.src = n /\ q.dst = m =>
       sessions[m][n] # None /\ q.key = sessions[m][n].readKey
  /\ q.type = "message" /\ q.src = m /\ q.dst = n /\ q.key # None =>
       sessions[m][n] # None /\ q.key = sessions[m][n].writeKey

(* Packets besides the call bring no handshake of m.                       *)
LEMMA NoHandshakeKept ==
  ASSUME NEW c, NEW n, NEW m, noHandshake(m, n),
         \A q \in net' : q \in net \/ besides(c, n, m, q)
  PROVE  noHandshake(m, n)'
  BY Zenon DEF noHandshake, besides

(* A call stays on its way while its packet does, the keys stay, the       *)
(* challenge stays, and what else is sent can be read.                     *)
LEMMA OnItsWayKept ==
  ASSUME NEW c, NEW n, NEW m, NEW p \in net, onItsWay(c, n, m, p), p \in net',
         handshakeCount'[c] = handshakeCount[c], sameKeys(n, m), sameKeys(m, n),
         challengeKept(n, m),
         \A q \in net' : q \in net \/ (besides(c, n, m, q) /\ understood(n, m, q))
  PROVE  onItsWay(c, n, m, p)'
<1>1. inTouch(c, n, m)'
  BY Zenon DEF onItsWay, inTouch, understood, sameKeys
<1>2. CASE asked(c, n, m, p)
  <2>1. asked(c, n, m, p)'
    BY Zenon, <1>2 DEF asked, sameKeys, onlyTag, noHandshake, besides
  <2> QED
    BY Zenon, <1>1, <2>1 DEF onItsWay
<1>3. CASE questioned(c, n, m, p)
  <2>1. questioned(c, n, m, p)'
    BY Zenon, <1>3 DEF questioned, challengeKept, pending, onlyTag, noHandshake, besides
  <2> QED
    BY Zenon, <1>1, <2>1 DEF onItsWay
<1>4. CASE introduced(c, n, m, p)
  <2>1. introduced(c, n, m, p)'
    BY Zenon, <1>4 DEF introduced, sameKeys, challengeKept, pending, onlyHandshake, noTag, besides
  <2> QED
    BY Zenon, <1>1, <2>1 DEF onItsWay
<1> QED
  BY Zenon, <1>2, <1>3, <1>4 DEF onItsWay

(* A response stays readable while the keys of the caller stay.            *)
LEMMA AnsweringKept ==
  ASSUME NEW c, NEW n, NEW m, NEW p \in net, answering(c, n, m, p), p \in net',
         sameKeys(n, m), \A q \in net' : q \in net \/ besides(c, n, m, q)
  PROVE  answering(c, n, m, p)'
  BY Zenon DEF answering, sameKeys, noTag, besides

(* Encode without a challenge: what the packet says.                       *)
LEMMA SentValues ==
  ASSUME NEW S, NEW n, NEW m, NEW tag, NEW msg, NEW q \in sent(S, n, m, tag, msg)
  PROVE  /\ q.type = "message" /\ q.src = n /\ q.dst = m /\ q.nonce = tag
         /\ S[n][m] = None => q.key = None
         /\ S[n][m] # None => q.key = S[n][m].writeKey /\ q.msg = msg
<1>1. CASE S[n][m] = None
  <2>1. q = randomPacket(n, m, tag)
    BY Zenon, <1>1 DEF sent
  <2> QED
    BY Zenon, <1>1, <2>1 DEF randomPacket
<1>2. CASE S[n][m] # None
  <2>1. q = messagePacket(n, m, tag, msg, S[n][m])
    BY Zenon, <1>2 DEF sent
  <2> QED
    BY Zenon, <1>2, <2>1 DEF messagePacket
<1> QED
  BY Zenon, <1>1, <1>2

(* Counting keeps keys.                                                    *)
LEMMA CountedKeys ==
  ASSUME TypeOK, NEW k \in Node, NEW l \in Node, sessions' = counted(sessions, k, l)
  PROVE  \A n, m \in Node : sameKeys(n, m)
<1>0. sessions \in [Node -> [Node -> Session \cup {None}]]
  BY Zenon DEF TypeOK
<1>1. CASE sessions[k][l] = None
  BY Zenon, <1>1 DEF counted, sameKeys
<1>2. CASE sessions[k][l] # None
  <2>1. PICK t \in Session : t = sessions[k][l]
    BY Zenon, <1>0, <1>2
  <2>2. PICK s \in Session : s = nextNonce(t)
    BY Zenon, NextNonceValues
  <2>3. s.writeKey = t.writeKey /\ s.readKey = t.readKey
    BY Zenon, <2>2 DEF nextNonce, Session
  <2>4. sessions' = [sessions EXCEPT ![k][l] = s]
    BY Zenon, <1>0, <1>2, <2>1, <2>2 DEF counted
  <2>5. \A n, m \in Node : sessions'[n][m] = IF n = k /\ m = l THEN s ELSE sessions[n][m]
    BY <1>0, <2>4
  <2>6. s # None
    BY Zenon, <2>2, HandshakeAssumption
  <2> QED
    BY <1>2, <2>1, <2>3, <2>5, <2>6 DEF sameKeys
<1> QED
  BY Zenon, <1>1, <1>2

(* handshakeGC keeps the challenges that are not late.                     *)
LEMMA GCKeeps ==
  ASSUME TypeOK, NEW k \in Node, NEW n \in Node, NEW m \in Node, handshakes[m][n] # None,
         ~handshakes[m][n].late
  PROVE  handshakeGC(k)[m][n] = handshakes[m][n]
<1>1. handshakes \in [Node -> [Node -> Challenge \cup {None}]]
  BY Zenon DEF TypeOK
<1> QED
  BY Zenon, <1>1 DEF handshakeGC

(* A challenge that is not late stays until its own node answers it, fails *)
(* to, or is challenged again.                                             *)
LEMMA ChallengeKept ==
  ASSUME TypeOK, NEW n \in Node, NEW m \in Node, NEW k \in Node, NEW l \in Node,
         \/ handshakes' = handshakeGC(k)
         \/ /\ k # m \/ l # n
            /\ \/ handshakes' = deleteHandshake(handshakeGC(k), k, l)
               \/ \E node : challenged(k, l, node)
  PROVE  challengeKept(n, m)
<1> SUFFICES ASSUME handshakes[m][n] # None, ~handshakes[m][n].late
             PROVE  handshakes'[m][n] = handshakes[m][n]
  BY Zenon DEF challengeKept
<1> DEFINE G == handshakeGC(k)
<1>1. G[m][n] = handshakes[m][n]
  BY GCKeeps
<1>2. G \in [Node -> [Node -> Challenge \cup {None}]]
  BY Zenon, GCShrinks DEF shrunk
<1>3. CASE handshakes' = G
  BY Zenon, <1>1, <1>3
<1>4. ASSUME k # m \/ l # n, NEW c, handshakes' = [G EXCEPT ![k][l] = c]
      PROVE  handshakes'[m][n] = handshakes[m][n]
  <2> HIDE DEF G
  <2> QED
    BY Zenon, <1>1, <1>2, <1>4
<1>5. \/ handshakes' = G
      \/ /\ k # m \/ l # n
         /\ \E c : handshakes' = [G EXCEPT ![k][l] = c]
  BY Zenon DEF deleteHandshake, challenged
<1> QED
  BY Zenon, <1>3, <1>4, <1>5

(* The session that a handshake leaves on each side.                       *)
newSession(n, m, eph, id, side, other) ==
  \E s \in Session :
    /\ sessions' = [sessions EXCEPT ![n][m] = s]
    /\ s.writeKey = [eph |-> eph, challenge |-> id, side |-> side]
    /\ s.readKey = [eph |-> eph, challenge |-> id, side |-> other]

(* handleWhoareyou: the initiator has the keys of deriveKeys.              *)
LEMMA WhoareyouSession ==
  ASSUME TypeOK, PacketInv, NEW p \in net, NEW c \in Call, receiveWhoareyou(p, c)
  PROVE  newSession(From[c], To[c], c, p.id, "initiator", "recipient")
<1>1. p.id \in Nat
  BY Zenon DEF receiveWhoareyou, PacketInv, isWhoareyou
<1>2. PICK t \in Session : t = deriveKeys(c, p.id)
  BY Zenon, <1>1, KeyValues
<1>3. /\ t.writeKey = [eph |-> c, challenge |-> p.id, side |-> "initiator"]
      /\ t.readKey = [eph |-> c, challenge |-> p.id, side |-> "recipient"]
  BY Zenon, <1>2 DEF deriveKeys
<1>4. PICK s \in Session : s = nextNonce(t)
  BY Zenon, NextNonceValues
<1>5. s.writeKey = t.writeKey /\ s.readKey = t.readKey
  BY Zenon, <1>4 DEF nextNonce, Session
<1>6. sessions' = [sessions EXCEPT ![From[c]][To[c]] = s]
  BY Zenon, <1>2, <1>4 DEF receiveWhoareyou
<1> QED
  BY Zenon, <1>3, <1>5, <1>6 DEF newSession

(* decodeHandshake: the recipient has the same keys, flipped, and answers  *)
(* with them.                                                              *)
LEMMA HandshakeSession ==
  ASSUME TypeOK, PacketInv, NEW p \in net, receiveHandshake(p)
  PROVE  /\ newSession(p.dst, p.src, p.key.eph, handshakes[p.dst][p.src].id,
                       "recipient", "initiator")
         /\ \E q : /\ net' = (net \ {p}) \cup {q}
                   /\ q.type = "message" /\ q.src = p.dst /\ q.dst = p.src /\ q.nonce = None
                   /\ q.key = sessions'[p.dst][p.src].writeKey
                   /\ q.msg = response(p.msg.call)
<1> DEFINE n == p.dst
           m == p.src
           G == handshakeGC(n)
<1>0. /\ n \in Node /\ m \in Node /\ p.key.eph \in Call
      /\ sessions \in [Node -> [Node -> Session \cup {None}]]
      /\ handshakes \in [Node -> [Node -> Challenge \cup {None}]]
  BY Zenon DEF TypeOK, receiveHandshake, PacketInv, isHandshake
<1>1. G[n][m] # None
  BY Zenon DEF receiveHandshake, accepts
<1>2. handshakes[n][m] # None /\ G[n][m].id = handshakes[n][m].id
  BY Zenon, <1>0, <1>1, GCShrinks DEF shrunk
<1>3. PICK c \in Call : c = p.key.eph
  BY Zenon, <1>0
<1>4. PICK id \in Nat : id = handshakes[n][m].id
  BY <1>0, <1>2 DEF Challenge
<1>5. PICK t \in Session : t = keysFlipped(deriveKeys(c, id))
  BY Zenon, KeyValues
<1>6. /\ t.writeKey = [eph |-> c, challenge |-> id, side |-> "recipient"]
      /\ t.readKey = [eph |-> c, challenge |-> id, side |-> "initiator"]
  BY Zenon, <1>5 DEF keysFlipped, deriveKeys
<1>7. PICK s \in Session : s = nextNonce(t)
  BY Zenon, NextNonceValues
<1>8. s.writeKey = t.writeKey /\ s.readKey = t.readKey
  BY Zenon, <1>7 DEF nextNonce, Session
<1> DEFINE S == [sessions EXCEPT ![n][m] = t]
<1>9. /\ sessions' = counted(S, n, m)
      /\ net' = (net \ {p}) \cup sent(S, n, m, None, response(p.msg.call))
  BY Zenon, <1>2, <1>3, <1>4, <1>5 DEF receiveHandshake
<1>10. S[n][m] = t /\ t # None
  BY Zenon, <1>0, HandshakeAssumption
<1>11. sessions' = [sessions EXCEPT ![n][m] = s]
  BY Zenon, <1>0, <1>7, <1>9, <1>10 DEF counted
<1>12. newSession(n, m, c, id, "recipient", "initiator")
  BY Zenon, <1>6, <1>8, <1>11 DEF newSession
<1> DEFINE q == messagePacket(n, m, None, response(p.msg.call), t)
<1>13. net' = (net \ {p}) \cup {q}
  BY Zenon, <1>9, <1>10 DEF sent
<1>14. /\ q.type = "message" /\ q.src = n /\ q.dst = m /\ q.nonce = None
       /\ q.key = t.writeKey /\ q.msg = response(p.msg.call)
  BY Zenon DEF messagePacket
<1>15. sessions'[n][m].writeKey = t.writeKey
  BY Zenon, <1>0, <1>8, <1>11
<1> HIDE DEF q
<1> QED
  BY Zenon, <1>3, <1>4, <1>12, <1>13, <1>14, <1>15

(* The values of a new session; the other sessions stay.                   *)
settled(n, m, eph, id, side, other) ==
  /\ sessions'[n][m] # None
  /\ sessions'[n][m].writeKey = [eph |-> eph, challenge |-> id, side |-> side]
  /\ sessions'[n][m].readKey = [eph |-> eph, challenge |-> id, side |-> other]
  /\ \A k, l \in Node : k # n \/ l # m => sessions'[k][l] = sessions[k][l]

(* Encode with a challenge and decodeHandshake change one session.         *)
LEMMA NewSessionValues ==
  ASSUME TypeOK, NEW n \in Node, NEW m \in Node, NEW eph, NEW id, NEW side, NEW other,
         newSession(n, m, eph, id, side, other)
  PROVE  settled(n, m, eph, id, side, other)
<1>0. sessions \in [Node -> [Node -> Session \cup {None}]]
  BY Zenon DEF TypeOK
<1>1. PICK s \in Session :
        /\ sessions' = [sessions EXCEPT ![n][m] = s]
        /\ s.writeKey = [eph |-> eph, challenge |-> id, side |-> side]
        /\ s.readKey = [eph |-> eph, challenge |-> id, side |-> other]
  BY Zenon DEF newSession
<1>2. sessions'[n][m] = s /\ \A k, l \in Node : k # n \/ l # m => sessions'[k][l] = sessions[k][l]
  BY Zenon, <1>0, <1>1
<1> QED
  BY <1>1, <1>2, HandshakeAssumption DEF settled

(* deriveKeys and keysFlipped make keys that belong together, and nothing  *)
(* else changes the keys of a session.                                     *)
LEMMA PairStep ==
  ASSUME TypeOK, PacketInv, PairInv, Next
  PROVE  PairInv'
<1>0. /\ sessions \in [Node -> [Node -> Session \cup {None}]]
      /\ \A p \in net : p.src \in Node /\ p.dst \in Node
      /\ \A c \in Call : From[c] \in Node /\ To[c] \in Node
  BY Zenon, HandshakeAssumption DEF TypeOK
<1>1. ASSUME \A n, m \in Node : sameKeys(n, m) \/ sessions'[n][m] = None PROVE PairInv'
  BY <1>1 DEF PairInv, sameKeys
<1>2. ASSUME NEW n \in Node, NEW m \in Node, NEW eph, NEW id, NEW side, NEW other, side # other,
             newSession(n, m, eph, id, side, other)
      PROVE  PairInv'
  <2>1. /\ sessions'[n][m].writeKey = [eph |-> eph, challenge |-> id, side |-> side]
        /\ sessions'[n][m].readKey = [eph |-> eph, challenge |-> id, side |-> other]
        /\ \A k, l \in Node : k # n \/ l # m => sessions'[k][l] = sessions[k][l]
    BY <1>2, NewSessionValues DEF settled
  <2>2. /\ sessions'[n][m].readKey.eph = sessions'[n][m].writeKey.eph
        /\ sessions'[n][m].readKey.challenge = sessions'[n][m].writeKey.challenge
        /\ sessions'[n][m].readKey.side # sessions'[n][m].writeKey.side
    BY <1>2, <2>1
  <2> QED
    BY <2>1, <2>2 DEF PairInv
<1>3. ASSUME sessions' = sessions PROVE PairInv'
  BY Zenon, <1>3 DEF PairInv
<1>4. ASSUME NEW c \in Call, sendCall(c) PROVE PairInv'
  <2>1. sessions' = counted(sessions, From[c], To[c])
    BY Zenon, <1>4 DEF sendCall
  <2> QED
    BY Zenon, <1>0, <1>1, <2>1, CountedKeys
<1>5. ASSUME NEW p \in net, receiveRequest(p) PROVE PairInv'
  <2>1. sessions' = counted(sessions, p.dst, p.src)
    BY Zenon, <1>5 DEF receiveRequest
  <2> QED
    BY Zenon, <1>0, <1>1, <2>1, CountedKeys
<1>6. ASSUME NEW p \in net, NEW c \in Call, receiveWhoareyou(p, c) PROVE PairInv'
  BY Zenon, <1>0, <1>2, <1>6, WhoareyouSession
<1>7. ASSUME NEW p \in net, receiveHandshake(p) PROVE PairInv'
  <2>1. newSession(p.dst, p.src, p.key.eph, handshakes[p.dst][p.src].id, "recipient", "initiator")
    BY Zenon, <1>7, HandshakeSession
  <2> QED
    BY Zenon, <1>0, <1>2, <2>1
<1>8. ASSUME NEW n \in Node, NEW m \in Node, evict(n, m) PROVE PairInv'
  BY Zenon, <1>0, <1>1, <1>8 DEF evict, sameKeys
<1>9. ASSUME NEW n \in Node, restart(n) PROVE PairInv'
  BY Zenon, <1>0, <1>1, <1>9 DEF restart, sameKeys
<1>10. /\ \A c \in Call : timeout(c) => sessions' = sessions
       /\ RecordStep => sessions' = sessions
       /\ \A p \in net :
            receiveResponse(p) \/ receiveUnknown(p) \/ ignoreWhoareyou(p) \/ refuseHandshake(p)
              \/ lose(p) \/ duplicate(p) => sessions' = sessions
       /\ \A n, m \in Node : expire(n, m) => sessions' = sessions
  BY Zenon DEF timeout, RecordStep, newRecord, receiveResponse, receiveUnknown, ignoreWhoareyou,
         refuseHandshake, lose, duplicate, expire, cacheVars
<1> QED
  BY Zenon, <1>3, <1>4, <1>5, <1>6, <1>7, <1>8, <1>9, <1>10
     DEF Next, CallStep, PacketStep, Fault

(* dispatch starts a call only when no other one to the node is active.    *)
LEMMA OneActiveStep ==
  ASSUME TypeOK, OneActive, Next
  PROVE  OneActive'
<1>0. /\ state \in [Call -> {"idle", "active", "answered", "failed"}]
      /\ handshakeCount \in [Call -> 0 .. 1]
  BY Zenon DEF TypeOK
<1>1. ASSUME \A c \in Call : state'[c] = "active" => state[c] = "active",
             \A c \in Call : state'[c] = "idle" =>
               state[c] = "idle" /\ handshakeCount'[c] = handshakeCount[c]
      PROVE  OneActive'
  BY Zenon, <1>1 DEF OneActive
<1>2. ASSUME NEW c \in Call, sendCall(c) PROVE OneActive'
  <2>1. /\ active(From[c], To[c]) = {} /\ handshakeCount' = handshakeCount
        /\ state' = [state EXCEPT ![c] = "active"]
    BY Zenon, <1>2 DEF sendCall
  <2>2. \A d \in Call : From[d] = From[c] /\ To[d] = To[c] => state[d] # "active"
    BY Zenon, <2>1 DEF active
  <2>3. \A d \in Call : d # c => state'[d] = state[d]
    BY Zenon, <1>0, <2>1
  <2>4. state'[c] = "active"
    BY Zenon, <1>0, <2>1
  <2> QED
    BY Zenon, <2>1, <2>2, <2>3, <2>4 DEF OneActive
<1>3. ASSUME NEW p \in net, NEW c \in Call, receiveWhoareyou(p, c) PROVE OneActive'
  <2>1. /\ state[c] = "active" /\ state' = state
        /\ handshakeCount' = [handshakeCount EXCEPT ![c] = @ + 1]
    BY Zenon, <1>3 DEF receiveWhoareyou, matchWithCall
  <2>2. \A d \in Call : d # c => handshakeCount'[d] = handshakeCount[d]
    BY Zenon, <1>0, <2>1
  <2> QED
    BY Zenon, <1>1, <2>1, <2>2
<1>4. ASSUME NEW p \in net, receiveResponse(p) PROVE OneActive'
  <2>1. /\ handshakeCount' = handshakeCount
        /\ state' = IF state[p.msg.call] = "active"
                      THEN [state EXCEPT ![p.msg.call] = "answered"] ELSE state
    BY Zenon, <1>4 DEF receiveResponse
  <2> QED
    BY Zenon, <1>0, <1>1, <2>1
<1>5. ASSUME NEW c \in Call, timeout(c) PROVE OneActive'
  <2>1. handshakeCount' = handshakeCount /\ state' = [state EXCEPT ![c] = "failed"]
    BY Zenon, <1>5 DEF timeout
  <2> QED
    BY Zenon, <1>0, <1>1, <2>1
<1>6. ASSUME NEW n \in Node, restart(n) PROVE OneActive'
  <2>1. /\ handshakeCount' = handshakeCount
        /\ state' = [c \in Call |-> IF From[c] = n /\ state[c] = "active"
                                      THEN "failed" ELSE state[c]]
    BY Zenon, <1>6 DEF restart
  <2> QED
    BY Zenon, <1>0, <1>1, <2>1
<1>7. ASSUME state' = state, handshakeCount' = handshakeCount PROVE OneActive'
  BY Zenon, <1>1, <1>7
<1>8. /\ RecordStep => state' = state /\ handshakeCount' = handshakeCount
      /\ \A p \in net :
           receiveRequest(p) \/ receiveUnknown(p) \/ ignoreWhoareyou(p) \/ receiveHandshake(p)
             \/ refuseHandshake(p) \/ lose(p) \/ duplicate(p)
           => state' = state /\ handshakeCount' = handshakeCount
      /\ \A n, m \in Node : evict(n, m) \/ expire(n, m)
           => state' = state /\ handshakeCount' = handshakeCount
  BY DEF RecordStep, newRecord, receiveRequest, receiveUnknown, ignoreWhoareyou, receiveHandshake,
         refuseHandshake, lose, duplicate, evict, expire, callVars
<1> QED
  BY Zenon, <1>2, <1>3, <1>4, <1>5, <1>6, <1>7, <1>8 DEF Next, CallStep, PacketStep, Fault

---------------------------------------------------------------------------
(* What each handler does to a call of n to m that is carried *)

(* The keys of two sessions with a key in common.                          *)
LEMMA KeysMatch ==
  ASSUME TypeOK, PairInv, NEW n \in Node, NEW m \in Node,
         sessions[n][m] # None, sessions[m][n] # None,
         sessions[n][m].writeKey = sessions[m][n].readKey
  PROVE  sessions[n][m].readKey = sessions[m][n].writeKey
<1>1. sessions[n][m] \in Session /\ sessions[m][n] \in Session
  BY DEF TypeOK
<1>2. PICK k \in Key, l \in Key, j \in Key :
        /\ sessions[n][m].readKey = k /\ sessions[m][n].writeKey = l
        /\ sessions[n][m].writeKey = j
  BY Zenon, <1>1 DEF Session
<1>3. k.eph = l.eph /\ k.challenge = l.challenge /\ k.side # j.side /\ l.side # j.side
  <2>1. k.eph = j.eph /\ k.challenge = j.challenge /\ k.side # j.side
    BY Zenon, <1>2 DEF PairInv
  <2>2. j.eph = l.eph /\ j.challenge = l.challenge /\ j.side # l.side
    BY ZenonT(30), <1>2 DEF PairInv
  <2> QED
    BY Zenon, <2>1, <2>2
<1>4. k.side = l.side
  BY Zenon, <1>3 DEF Key
<1> QED
  BY <1>2, <1>3, <1>4 DEF Key

(* A key that a node reads with is a key.                                  *)
LEMMA ReadableKey ==
  ASSUME TypeOK, NEW q \in net, readable(q)
  PROVE  q.key # None
<1>1. sessions[q.dst][q.src] \in Session
  BY DEF TypeOK, readable
<1> QED
  BY Zenon, <1>1, HandshakeAssumption DEF readable, Session

(* Steps that change no key, no challenge and send nothing.                *)
LEMMA CarriedQuietly ==
  ASSUME NEW c, NEW n, NEW m, carried(c, n, m), net' = net, sessions' = sessions,
         handshakes' = handshakes, handshakeCount' = handshakeCount
  PROVE  carried(c, n, m)'
<1>1. noHandshake(m, n)'
  BY Zenon DEF carried, noHandshake
<1>2. PICK p \in net : onItsWay(c, n, m, p) \/ answering(c, n, m, p)
  BY Zenon DEF carried
<1>3. p \in net' /\ \A q \in net' : q \in net
  BY Zenon
<1>4. sameKeys(n, m) /\ sameKeys(m, n) /\ challengeKept(n, m)
  BY Zenon DEF sameKeys, challengeKept
<1>5. CASE onItsWay(c, n, m, p)
  <2>1. onItsWay(c, n, m, p)'
    BY Zenon, <1>3, <1>4, <1>5, OnItsWayKept
  <2> QED
    BY Zenon, <1>1, <1>3, <2>1 DEF carried
<1>6. CASE answering(c, n, m, p)
  <2>1. answering(c, n, m, p)'
    BY Zenon, <1>3, <1>4, <1>6, AnsweringKept
  <2> QED
    BY Zenon, <1>1, <1>3, <2>1 DEF carried
<1> QED
  BY Zenon, <1>2, <1>5, <1>6

(* dispatch sends another call.                                            *)
LEMMA CarriedSend ==
  ASSUME Inv, NEW c \in Call, NEW n \in Node, NEW m \in Node, n = From[c], m = To[c],
         state[c] = "active", carried(c, n, m), NEW d \in Call, sendCall(d)
  PROVE  carried(c, n, m)'
<1>0. /\ From[d] \in Node /\ To[d] \in Node /\ TypeOK
      /\ net' = net \cup sent(sessions, From[d], To[d], nonce(d), request(d))
      /\ sessions' = counted(sessions, From[d], To[d])
      /\ handshakeCount' = handshakeCount /\ handshakes' = handshakes
      /\ state[d] = "idle" /\ active(From[d], To[d]) = {}
  BY Zenon, HandshakeAssumption DEF Inv, sendCall
<1>1. sameKeys(n, m) /\ sameKeys(m, n) /\ challengeKept(n, m)
  BY Zenon, <1>0, CountedKeys DEF challengeKept
<1>2. d # c /\ (From[d] # n \/ To[d] # m)
  BY Zenon, <1>0 DEF active
<1>3. ASSUME NEW q \in net' PROVE q \in net \/ (besides(c, n, m, q) /\ understood(n, m, q))
  <2> SUFFICES ASSUME q \in sent(sessions, From[d], To[d], nonce(d), request(d))
               PROVE  besides(c, n, m, q) /\ understood(n, m, q)
    BY Zenon, <1>0
  <2>1. /\ q.type = "message" /\ q.src = From[d] /\ q.dst = To[d] /\ q.nonce = nonce(d)
        /\ sessions[From[d]][To[d]] = None => q.key = None
        /\ sessions[From[d]][To[d]] # None => q.key = sessions[From[d]][To[d]].writeKey
    BY SentValues
  <2>2. besides(c, n, m, q)
    BY <1>2, <2>1 DEF besides, nonce
  <2>3. understood(n, m, q)
    BY Zenon, <1>2, <2>1 DEF understood
  <2> QED
    BY Zenon, <2>2, <2>3
<1>4. noHandshake(m, n)'
  BY Zenon, <1>3, NoHandshakeKept DEF carried
<1>5. ASSUME NEW p \in net, onItsWay(c, n, m, p) PROVE onItsWay(c, n, m, p)'
  BY Zenon, <1>0, <1>1, <1>3, <1>5, OnItsWayKept
<1>6. ASSUME NEW p \in net, answering(c, n, m, p) PROVE answering(c, n, m, p)'
  BY Zenon, <1>0, <1>1, <1>3, <1>6, AnsweringKept
<1>7. net \subseteq net'
  BY Zenon, <1>0
<1> QED
  BY Zenon, <1>4, <1>5, <1>6, <1>7 DEF carried

(* A call begins.                                                          *)
LEMMA CarriedFirst ==
  ASSUME Inv, OneActive, NEW c \in Call, NEW n \in Node, NEW m \in Node, n = From[c],
         m = To[c], sendCall(c), c \notin disturbed'
  PROVE  carried(c, n, m)'
<1>0. TypeOK /\ n # m
  BY Zenon, HandshakeAssumption DEF Inv
<1>1. /\ state[c] = "idle" /\ net = {} /\ handshakeCount' = handshakeCount
      /\ net' = net \cup sent(sessions, n, m, nonce(c), request(c))
      /\ sessions' = counted(sessions, n, m)
  BY Zenon DEF sendCall
<1>2. handshakeCount[c] = 0 /\ nonce(c) = <<c, 0>>
  BY Zenon, <1>1 DEF OneActive, nonce
<1>3. PICK p : net' = {p} /\ p \in sent(sessions, n, m, nonce(c), request(c))
  BY Zenon, <1>1 DEF sent
<1>4. /\ p.type = "message" /\ p.src = n /\ p.dst = m /\ p.nonce = <<c, 0>>
      /\ sessions[n][m] = None => p.key = None
      /\ sessions[n][m] # None => p.key = sessions[n][m].writeKey /\ p.msg = request(c)
  BY <1>2, <1>3, SentValues
<1>5. sameKeys(n, m)
  BY Zenon, <1>0, <1>1, CountedKeys
<1>6. asked(c, n, m, p)'
  BY Zenon, <1>1, <1>2, <1>3, <1>4, <1>5 DEF asked, sameKeys, onlyTag, noHandshake
<1>7. inTouch(c, n, m)'
  BY Zenon, <1>0, <1>3, <1>4 DEF inTouch
<1>8. noHandshake(m, n)'
  BY Zenon, <1>3, <1>4 DEF noHandshake
<1> QED
  BY Zenon, <1>3, <1>6, <1>7, <1>8 DEF carried, onItsWay

(* A request is answered: that of the call itself, or another.             *)
LEMMA CarriedRequest ==
  ASSUME Inv, PairInv, NEW c \in Call, NEW n \in Node, NEW m \in Node, n # m,
         carried(c, n, m), NEW r \in net, receiveRequest(r)
  PROVE  carried(c, n, m)'
<1>0. /\ r.dst \in Node /\ r.src \in Node /\ TypeOK
      /\ net' = (net \ {r}) \cup sent(sessions, r.dst, r.src, None, response(r.msg.call))
      /\ sessions' = counted(sessions, r.dst, r.src)
      /\ handshakes' = handshakeGC(r.dst) /\ handshakeCount' = handshakeCount
      /\ readable(r) /\ r.msg.kind = "request" /\ r.key # None
  BY Zenon, ReadableKey DEF Inv, TypeOK, receiveRequest, callVars
<1>1. sameKeys(n, m) /\ sameKeys(m, n) /\ challengeKept(n, m)
  BY Zenon, <1>0, CountedKeys, ChallengeKept
<1>2. /\ r.type = "message" /\ sessions[r.dst][r.src] # None
      /\ r.key = sessions[r.dst][r.src].readKey
  BY Zenon, <1>0 DEF readable
<1>3. ASSUME NEW q \in sent(sessions, r.dst, r.src, None, response(r.msg.call))
      PROVE  /\ q.type = "message" /\ q.src = r.dst /\ q.dst = r.src /\ q.nonce = None
             /\ q.key = sessions[r.dst][r.src].writeKey /\ q.msg = response(r.msg.call)
             /\ besides(c, n, m, q)
  <2>1. /\ q.type = "message" /\ q.src = r.dst /\ q.dst = r.src /\ q.nonce = None
        /\ q.key = sessions[r.dst][r.src].writeKey /\ q.msg = response(r.msg.call)
    BY <1>2, SentValues
  <2>2. None # <<c, 0>>
    BY HandshakeAssumption
  <2> QED
    BY Zenon, <2>1, <2>2 DEF besides
<1>4. noHandshake(m, n)'
  <2>1. \A q \in net' : q \in net \/ besides(c, n, m, q)
    BY Zenon, <1>0, <1>3
  <2> QED
    BY Zenon, <2>1, NoHandshakeKept DEF carried
<1>5. ASSUME NEW p \in net, onItsWay(c, n, m, p), p # r PROVE carried(c, n, m)'
  <2>1. ASSUME NEW q \in sent(sessions, r.dst, r.src, None, response(r.msg.call))
        PROVE  understood(n, m, q)
    <3>1. CASE r.src = m /\ r.dst = n
      <4>1. sessions[m][n] # None /\ r.key = sessions[m][n].writeKey
        BY ZenonT(30), <1>0, <1>2, <1>5, <3>1 DEF onItsWay, inTouch
      <4>2. sessions[m][n].readKey = sessions[n][m].writeKey
        BY <1>0, <1>2, <3>1, <4>1, KeysMatch
      <4> QED
        BY Zenon, <1>3, <2>1, <3>1, <4>1, <4>2 DEF understood
    <3>2. CASE r.src # m \/ r.dst # n
      BY Zenon, <1>2, <1>3, <2>1, <3>2 DEF understood
    <3> QED
      BY Zenon, <3>1, <3>2
  <2>2. p \in net' /\ \A q \in net' : q \in net \/ (besides(c, n, m, q) /\ understood(n, m, q))
    BY Zenon, <1>0, <1>3, <1>5, <2>1
  <2>3. onItsWay(c, n, m, p)'
    BY Zenon, <1>0, <1>1, <1>5, <2>2, OnItsWayKept
  <2> QED
    BY Zenon, <1>4, <2>2, <2>3 DEF carried
<1>6. ASSUME NEW p \in net, answering(c, n, m, p) PROVE carried(c, n, m)'
  <2>1. p # r
    BY <1>0, <1>6 DEF answering, response
  <2>2. p \in net' /\ \A q \in net' : q \in net \/ besides(c, n, m, q)
    BY Zenon, <1>0, <1>3, <2>1
  <2>3. answering(c, n, m, p)'
    BY Zenon, <1>1, <1>6, <2>2, AnsweringKept
  <2> QED
    BY Zenon, <1>4, <2>2, <2>3 DEF carried
<1>7. ASSUME onItsWay(c, n, m, r) PROVE carried(c, n, m)'
  <2>1. asked(c, n, m, r)
    BY Zenon, <1>2, <1>7 DEF onItsWay, questioned, introduced
  <2>2. /\ r.src = n /\ r.dst = m /\ sessions[n][m] # None
        /\ r.key = sessions[n][m].writeKey /\ r.msg = request(c) /\ onlyTag(c, r)
    BY Zenon, <1>0, <2>1 DEF asked
  <2>3. PICK p : p \in sent(sessions, m, n, None, response(r.msg.call))
    BY Zenon, <2>2 DEF sent
  <2>4. /\ p.type = "message" /\ p.src = m /\ p.dst = n /\ p.nonce = None
        /\ p.key = sessions[m][n].writeKey /\ p.msg = response(c)
    BY <1>3, <2>2, <2>3 DEF request
  <2>5. p.key = sessions[n][m].readKey
    BY <1>0, <1>2, <2>2, <2>4, KeysMatch
  <2>6. p \in net' /\ \A q \in net' : (q \in net /\ q # r) \/ besides(c, n, m, q)
    BY Zenon, <1>0, <1>3, <2>2, <2>3
  <2>7. noTag(c)'
    BY Zenon, <2>2, <2>6 DEF noTag, onlyTag, besides
  <2>8. answering(c, n, m, p)'
    BY Zenon, <1>1, <2>2, <2>4, <2>5, <2>7 DEF answering, sameKeys
  <2> QED
    BY Zenon, <1>4, <2>6, <2>8 DEF carried
<1> QED
  BY Zenon, <1>5, <1>6, <1>7 DEF carried

(* handleCallResponse takes the response of the call, or another.          *)
LEMMA CarriedResponse ==
  ASSUME Inv, NEW c \in Call, NEW n \in Node, NEW m \in Node, carried(c, n, m),
         state[c] = "active", state'[c] = "active", NEW r \in net, receiveResponse(r)
  PROVE  carried(c, n, m)'
<1>0. /\ r.dst \in Node /\ TypeOK /\ net' = net \ {r} /\ sessions' = sessions
      /\ handshakes' = handshakeGC(r.dst) /\ handshakeCount' = handshakeCount
      /\ readable(r) /\ r.msg.kind = "response" /\ r.key # None
      /\ state' = IF state[r.msg.call] = "active"
                    THEN [state EXCEPT ![r.msg.call] = "answered"] ELSE state
      /\ state \in [Call -> {"idle", "active", "answered", "failed"}]
  BY Zenon, ReadableKey DEF Inv, TypeOK, receiveResponse
<1>1. sameKeys(n, m) /\ sameKeys(m, n) /\ challengeKept(n, m)
  BY Zenon, <1>0, ChallengeKept DEF sameKeys
<1>2. noHandshake(m, n)'
  BY Zenon, <1>0 DEF carried, noHandshake
<1>3. r.msg.call # c
  BY Zenon, <1>0
<1>4. \A p \in net : onItsWay(c, n, m, p) \/ answering(c, n, m, p) => p # r
  <2>1. r.type = "message"
    BY Zenon, <1>0 DEF readable
  <2>2. ~asked(c, n, m, r) /\ ~answering(c, n, m, r)
    BY <1>0, <1>3 DEF asked, answering, request, response
  <2> QED
    BY Zenon, <2>1, <2>2 DEF onItsWay, questioned, introduced
<1>5. ASSUME NEW p \in net, p # r, onItsWay(c, n, m, p) PROVE onItsWay(c, n, m, p)'
  BY Zenon, <1>0, <1>1, <1>5, OnItsWayKept
<1>6. ASSUME NEW p \in net, p # r, answering(c, n, m, p) PROVE answering(c, n, m, p)'
  BY Zenon, <1>0, <1>1, <1>6, AnsweringKept
<1>7. \A p \in net : p # r => p \in net'
  BY Zenon, <1>0
<1> QED
  BY Zenon, <1>2, <1>4, <1>5, <1>6, <1>7 DEF carried

(* handleUnknown asks who the sender of a message is.                      *)
LEMMA CarriedUnknown ==
  ASSUME Inv, NEW c \in Call, NEW n \in Node, NEW m \in Node, n # m, carried(c, n, m),
         NEW r \in net, receiveUnknown(r)
  PROVE  carried(c, n, m)'
<1>0. /\ r.dst \in Node /\ r.src \in Node /\ TypeOK /\ r.type = "message" /\ ~readable(r)
      /\ sessions' = sessions /\ handshakeCount' = handshakeCount
  BY Zenon DEF Inv, TypeOK, receiveUnknown, callVars
<1>1. PICK node \in getNode(r.dst, r.src) :
        /\ challenged(r.dst, r.src, node)
        /\ net' = (net \ {r}) \cup
             {whoareyouPacket(r.dst, r.src, r.nonce, [id |-> ids + 1, node |-> node, late |-> FALSE])}
  BY Zenon, <1>0, UnknownChallenges
<1>2. PICK w : /\ net' = (net \ {r}) \cup {w}
               /\ w.type = "whoareyou" /\ w.src = r.dst /\ w.dst = r.src /\ w.nonce = r.nonce
               /\ w.id = ids + 1
  <2> DEFINE new == [id |-> ids + 1, node |-> node, late |-> FALSE]
             q == whoareyouPacket(r.dst, r.src, r.nonce, new)
  <2>1. /\ q.type = "whoareyou" /\ q.src = r.dst /\ q.dst = r.src /\ q.nonce = r.nonce
        /\ q.id = ids + 1
    BY Zenon DEF whoareyouPacket
  <2>2. net' = (net \ {r}) \cup {q}
    BY Zenon, <1>1
  <2> HIDE DEF q
  <2> QED
    BY Zenon, <2>1, <2>2
<1>3. noHandshake(m, n)'
  BY Zenon, <1>2 DEF carried, noHandshake
<1>4. sameKeys(n, m) /\ sameKeys(m, n)
  BY Zenon, <1>0 DEF sameKeys
<1>5. ASSUME NEW p \in net, onItsWay(c, n, m, p), p # r PROVE carried(c, n, m)'
  <2>1. r.nonce # <<c, 0>>
    BY Zenon, <1>5 DEF onItsWay, asked, questioned, introduced, onlyTag, noTag
  <2>2. r.src # n \/ r.dst # m
    BY Zenon, <1>0, <1>5, <2>1 DEF onItsWay, inTouch, readable
  <2>3. challengeKept(n, m)
    BY Zenon, <1>0, <1>1, <2>2, ChallengeKept
  <2>4. p \in net' /\ \A q \in net' : q \in net \/ (besides(c, n, m, q) /\ understood(n, m, q))
    BY Zenon, <1>2, <1>5, <2>1 DEF besides, understood
  <2>5. onItsWay(c, n, m, p)'
    BY Zenon, <1>0, <1>4, <1>5, <2>3, <2>4, OnItsWayKept
  <2> QED
    BY Zenon, <1>3, <2>4, <2>5 DEF carried
<1>6. ASSUME NEW p \in net, answering(c, n, m, p) PROVE carried(c, n, m)'
  <2>1. p # r /\ r.nonce # <<c, 0>>
    BY Zenon, <1>0, <1>6 DEF answering, readable, noTag
  <2>2. p \in net' /\ \A q \in net' : q \in net \/ besides(c, n, m, q)
    BY Zenon, <1>2, <2>1 DEF besides
  <2>3. answering(c, n, m, p)'
    BY Zenon, <1>4, <1>6, <2>2, AnsweringKept
  <2> QED
    BY Zenon, <1>3, <2>2, <2>3 DEF carried
<1>7. ASSUME onItsWay(c, n, m, r) PROVE carried(c, n, m)'
  <2>1. asked(c, n, m, r)
    BY Zenon, <1>0, <1>7 DEF onItsWay, questioned, introduced
  <2>2. r.src = n /\ r.dst = m /\ r.nonce = <<c, 0>>
    BY Zenon, <2>1 DEF asked
  <2>3. pending(n, m, w.id)'
    <3> DEFINE G == handshakeGC(m)
               new == [id |-> ids + 1, node |-> node, late |-> FALSE]
    <3>1. G \in [Node -> [Node -> Challenge \cup {None}]]
      BY Zenon, <1>0, GCShrinks DEF shrunk
    <3>2. handshakes' = [G EXCEPT ![m][n] = new] /\ new \in Challenge
      BY <1>0, <1>1, <2>2 DEF challenged, Challenge, TypeOK
    <3>3. new.id = ids + 1 /\ new.late = FALSE
      BY Zenon
    <3> HIDE DEF G, new
    <3>4. handshakes'[m][n] = new
      BY Zenon, <3>1, <3>2
    <3>5. new # None
      BY Zenon, <3>2, HandshakeAssumption
    <3> QED
      BY Zenon, <1>2, <3>3, <3>4, <3>5 DEF pending
  <2>4. onlyTag(c, w)' /\ noHandshake(n, m)' /\ handshakeCount'[c] = 0
    BY Zenon, <1>0, <1>2, <2>1 DEF asked, onlyTag, noHandshake
  <2>5. questioned(c, n, m, w)'
    BY Zenon, <1>2, <2>2, <2>3, <2>4 DEF questioned
  <2>6. inTouch(c, n, m)'
    BY Zenon, <1>0, <1>2, <1>7 DEF onItsWay, inTouch
  <2>7. w \in net'
    BY Zenon, <1>2
  <2> QED
    BY Zenon, <1>3, <2>5, <2>6, <2>7 DEF carried, onItsWay
<1> QED
  BY Zenon, <1>5, <1>6, <1>7 DEF carried

(* A WHOAREYOU that matches no call is not that of this call.              *)
LEMMA CarriedIgnore ==
  ASSUME Inv, NEW c \in Call, NEW n \in Node, NEW m \in Node, carried(c, n, m),
         state[c] = "active", NEW r \in net, ignoreWhoareyou(r)
  PROVE  carried(c, n, m)'
<1>0. /\ r.dst \in Node /\ TypeOK /\ net' = net \ {r} /\ sessions' = sessions
      /\ handshakes' = handshakeGC(r.dst) /\ handshakeCount' = handshakeCount
      /\ r.type = "whoareyou" /\ ~matchWithCall(c, r)
  BY Zenon DEF Inv, TypeOK, ignoreWhoareyou, callVars
<1>1. sameKeys(n, m) /\ sameKeys(m, n) /\ challengeKept(n, m)
  BY Zenon, <1>0, ChallengeKept DEF sameKeys
<1>2. noHandshake(m, n)'
  BY Zenon, <1>0 DEF carried, noHandshake
<1>3. \A p \in net : onItsWay(c, n, m, p) \/ answering(c, n, m, p) => p # r
  <2>1. ~questioned(c, n, m, r)
    BY Zenon, <1>0 DEF questioned, matchWithCall, nonce
  <2> QED
    BY Zenon, <1>0, <2>1 DEF onItsWay, asked, introduced, answering
<1>4. ASSUME NEW p \in net, p # r, onItsWay(c, n, m, p) PROVE onItsWay(c, n, m, p)'
  BY Zenon, <1>0, <1>1, <1>4, OnItsWayKept
<1>5. ASSUME NEW p \in net, p # r, answering(c, n, m, p) PROVE answering(c, n, m, p)'
  BY Zenon, <1>0, <1>1, <1>5, AnsweringKept
<1>6. \A p \in net : p # r => p \in net'
  BY Zenon, <1>0
<1> QED
  BY Zenon, <1>2, <1>3, <1>4, <1>5, <1>6 DEF carried

(* handleWhoareyou sends the call again with a handshake.                  *)
LEMMA CarriedWhoareyou ==
  ASSUME Inv, OneActive, NEW c \in Call, NEW n \in Node, NEW m \in Node, n # m, n = From[c],
         m = To[c], carried(c, n, m), state[c] = "active", c \notin disturbed',
         NEW r \in net, NEW d \in Call, receiveWhoareyou(r, d)
  PROVE  carried(c, n, m)'
<1> DEFINE s == nextNonce(deriveKeys(d, r.id))
<1>0. /\ r.dst \in Node /\ TypeOK /\ PacketInv /\ From[d] \in Node /\ To[d] \in Node
      /\ handshakes' = handshakeGC(r.dst) /\ r.type = "whoareyou"
      /\ net' = (net \ {r}) \cup {handshakePacket(d, r, s)}
      /\ state[d] = "active" /\ r.nonce = <<d, 0>> /\ handshakeCount[d] = 0
      /\ handshakeCount' = [handshakeCount EXCEPT ![d] = @ + 1]
      /\ handshakeCount \in [Call -> 0 .. 1]
  BY Zenon, HandshakeAssumption DEF Inv, TypeOK, receiveWhoareyou, matchWithCall, nonce
<1>1. s.writeKey.eph = d
  BY Zenon DEF nextNonce, deriveKeys
<1> HIDE DEF s
<1>2. PICK h : /\ net' = (net \ {r}) \cup {h}
               /\ h.type = "handshake" /\ h.src = From[d] /\ h.dst = To[d] /\ h.nonce = <<d, 1>>
               /\ h.key.eph = d /\ h.challenge = r.id /\ h.msg = request(d)
  <2>1. LET h == handshakePacket(d, r, s)
        IN /\ h.type = "handshake" /\ h.src = From[d] /\ h.dst = To[d] /\ h.nonce = <<d, 1>>
           /\ h.key.eph = d /\ h.challenge = r.id /\ h.msg = request(d)
    BY Zenon, <1>1 DEF handshakePacket
  <2> QED
    BY Zenon, <1>0, <2>1
<1>3. From[d] # m \/ To[d] # n
  BY Zenon DEF receiveWhoareyou, active
<1>4. d # c => From[d] # n \/ To[d] # m
  BY Zenon, <1>0 DEF OneActive
<1>5. challengeKept(n, m)
  BY Zenon, <1>0, ChallengeKept
<1>6. /\ sessions'[From[d]][To[d]] # None
      /\ sessions'[From[d]][To[d]].readKey = [eph |-> d, challenge |-> r.id, side |-> "recipient"]
      /\ \A k, l \in Node : k # From[d] \/ l # To[d] => sessions'[k][l] = sessions[k][l]
  <2>1. newSession(From[d], To[d], d, r.id, "initiator", "recipient")
    BY Zenon, <1>0, WhoareyouSession
  <2>2. settled(From[d], To[d], d, r.id, "initiator", "recipient")
    BY Zenon, <1>0, <2>1, NewSessionValues
  <2> QED
    BY Zenon, <2>2 DEF settled
<1>7. noHandshake(m, n)'
  BY Zenon, <1>2, <1>3 DEF carried, noHandshake
<1>8. sameKeys(m, n)
  BY Zenon, <1>3, <1>6 DEF sameKeys
<1>9. CASE d # c
  <2>1. sameKeys(n, m) /\ handshakeCount'[c] = handshakeCount[c]
    BY ZenonT(30), <1>0, <1>4, <1>6, <1>9 DEF sameKeys
  <2>2. \A q \in net' : q \in net \/ (besides(c, n, m, q) /\ understood(n, m, q))
    BY <1>2, <1>3, <1>4, <1>9 DEF besides, understood
  <2>3. \A p \in net : onItsWay(c, n, m, p) \/ answering(c, n, m, p) => p # r
    <3>1. r.nonce # <<c, 0>>
      BY <1>0, <1>9
    <3> QED
      BY Zenon, <1>0, <3>1 DEF onItsWay, asked, questioned, introduced, answering
  <2>4. \A p \in net : p # r => p \in net'
    BY Zenon, <1>2
  <2>5. ASSUME NEW p \in net, p # r, onItsWay(c, n, m, p) PROVE onItsWay(c, n, m, p)'
    BY Zenon, <1>5, <1>8, <2>1, <2>2, <2>4, <2>5, OnItsWayKept
  <2>6. ASSUME NEW p \in net, p # r, answering(c, n, m, p) PROVE answering(c, n, m, p)'
    BY Zenon, <2>1, <2>2, <2>4, <2>6, AnsweringKept
  <2> QED
    BY Zenon, <1>7, <2>3, <2>4, <2>5, <2>6 DEF carried
<1>10. CASE d = c
  <2>1. PICK p \in net : onItsWay(c, n, m, p) \/ answering(c, n, m, p)
    BY Zenon DEF carried
  <2>2. questioned(c, n, m, r) /\ inTouch(c, n, m)
    BY Zenon, <1>0, <1>10, <2>1
       DEF onItsWay, asked, questioned, introduced, answering, onlyTag, noTag
  <2>3. onlyHandshake(n, m, h)' /\ noTag(c)'
    <3>1. h.nonce # <<c, 0>>
      BY <1>2, <1>10
    <3> QED
      BY Zenon, <1>2, <2>2, <3>1 DEF questioned, onlyTag, noHandshake, onlyHandshake, noTag
  <2>4. pending(n, m, h.challenge)'
    BY Zenon, <1>2, <1>5, <2>2 DEF questioned, pending, challengeKept
  <2>5. introduced(c, n, m, h)'
    BY Zenon, <1>2, <1>6, <1>10, <2>3, <2>4 DEF introduced
  <2>6. inTouch(c, n, m)'
    BY Zenon, <1>2, <1>8, <2>2 DEF inTouch, sameKeys
  <2>7. h \in net'
    BY Zenon, <1>2
  <2> QED
    BY Zenon, <1>7, <2>5, <2>6, <2>7 DEF carried, onItsWay
<1> QED
  BY Zenon, <1>9, <1>10

(* The challenge of a handshake that carries a call is still there, and    *)
(* there is a record to check the handshake with.                          *)
LEMMA IntroducedAccepted ==
  ASSUME Inv, NEW c, NEW n \in Node, NEW m \in Node, NEW r \in net, introduced(c, n, m, r)
  PROVE  accepts(handshakeGC(r.dst), r)
<1>1. /\ r.type = "handshake" /\ r.src = n /\ r.dst = m
      /\ handshakes[m][n] # None /\ handshakes[m][n].id = r.challenge /\ ~handshakes[m][n].late
  BY Zenon DEF introduced, pending
<1>2. handshakeGC(m)[m][n] = handshakes[m][n]
  BY Zenon, <1>1, GCKeeps DEF Inv
<1>3. PICK h \in Challenge : h = handshakes[m][n]
  BY <1>1 DEF Inv, TypeOK
<1>4. h.node \in Nat /\ r.record \in Nat /\ r.seq \in Nat \ {0}
  BY Zenon, <1>1 DEF Inv, PacketInv, isHandshake, Challenge
<1>5. h.node >= r.seq \/ r.record >= r.seq
  BY Zenon, <1>1, <1>3 DEF Inv, AnswerInv, answerable, agrees
<1>6. h.node > 0 \/ r.record > 0
  BY <1>4, <1>5
<1> QED
  BY Zenon, <1>1, <1>2, <1>3, <1>6 DEF accepts

(* decodeHandshake refuses a handshake that is not part of the call.       *)
LEMMA CarriedRefuse ==
  ASSUME Inv, NEW c \in Call, NEW n \in Node, NEW m \in Node, carried(c, n, m),
         NEW r \in net, refuseHandshake(r)
  PROVE  carried(c, n, m)'
<1>0. /\ r.dst \in Node /\ r.src \in Node /\ TypeOK /\ net' = net \ {r} /\ sessions' = sessions
      /\ handshakes' = deleteHandshake(handshakeGC(r.dst), r.dst, r.src)
      /\ handshakeCount' = handshakeCount
      /\ r.type = "handshake" /\ ~accepts(handshakeGC(r.dst), r)
  BY Zenon DEF Inv, TypeOK, refuseHandshake, callVars
<1>1. sameKeys(n, m) /\ sameKeys(m, n)
  BY Zenon, <1>0 DEF sameKeys
<1>2. noHandshake(m, n)'
  BY Zenon, <1>0 DEF carried, noHandshake
<1>3. ~introduced(c, n, m, r)
  BY Zenon, <1>0, IntroducedAccepted
<1>4. ASSUME NEW p \in net, onItsWay(c, n, m, p) PROVE p \in net' /\ onItsWay(c, n, m, p)'
  <2>1. p # r
    BY Zenon, <1>0, <1>3, <1>4 DEF onItsWay, asked, questioned
  <2>2. r.src # n \/ r.dst # m
    BY Zenon, <1>0, <1>4, <2>1
       DEF onItsWay, asked, questioned, introduced, noHandshake, onlyHandshake
  <2>3. challengeKept(n, m)
    BY Zenon, <1>0, <2>2, ChallengeKept
  <2> QED
    BY Zenon, <1>0, <1>1, <1>4, <2>1, <2>3, OnItsWayKept
<1>5. ASSUME NEW p \in net, answering(c, n, m, p) PROVE p \in net' /\ answering(c, n, m, p)'
  <2>1. p # r
    BY Zenon, <1>0, <1>5 DEF answering
  <2> QED
    BY Zenon, <1>0, <1>1, <1>5, <2>1, AnsweringKept
<1> QED
  BY Zenon, <1>2, <1>4, <1>5 DEF carried

(* decodeHandshake accepts the handshake of the call, or another.          *)
LEMMA CarriedHandshake ==
  ASSUME Inv, NEW c \in Call, NEW n \in Node, NEW m \in Node, n # m, carried(c, n, m),
         NEW r \in net, receiveHandshake(r)
  PROVE  carried(c, n, m)'
<1>0. /\ r.dst \in Node /\ r.src \in Node /\ TypeOK /\ PacketInv /\ r.type = "handshake"
      /\ handshakes' = deleteHandshake(handshakeGC(r.dst), r.dst, r.src)
      /\ handshakeCount' = handshakeCount
  BY Zenon DEF Inv, TypeOK, receiveHandshake, callVars
<1>1. settled(r.dst, r.src, r.key.eph, handshakes[r.dst][r.src].id, "recipient", "initiator")
  <2>1. newSession(r.dst, r.src, r.key.eph, handshakes[r.dst][r.src].id, "recipient", "initiator")
    BY Zenon, <1>0, HandshakeSession
  <2> QED
    BY Zenon, <1>0, <2>1, NewSessionValues
<1>2. PICK q : /\ net' = (net \ {r}) \cup {q}
               /\ q.type = "message" /\ q.src = r.dst /\ q.dst = r.src /\ q.nonce = None
               /\ q.key = sessions'[r.dst][r.src].writeKey
               /\ q.msg = response(r.msg.call)
  BY Zenon, <1>0, HandshakeSession
<1>3. besides(c, n, m, q)
  <2>1. None # <<c, 0>>
    BY HandshakeAssumption
  <2> QED
    BY Zenon, <1>2, <2>1 DEF besides
<1>4. r.src # m \/ r.dst # n
  BY Zenon, <1>0 DEF carried, noHandshake
<1>5. noHandshake(m, n)'
  BY Zenon, <1>2 DEF carried, noHandshake
<1>6. sameKeys(n, m)
  BY Zenon, <1>1, <1>4 DEF settled, sameKeys
<1>7. ASSUME NEW p \in net, onItsWay(c, n, m, p), p # r PROVE carried(c, n, m)'
  <2>1. r.src # n \/ r.dst # m
    BY Zenon, <1>0, <1>7
       DEF onItsWay, asked, questioned, introduced, noHandshake, onlyHandshake
  <2>2. challengeKept(n, m)
    BY Zenon, <1>0, <2>1, ChallengeKept
  <2>3. sameKeys(m, n)
    BY Zenon, <1>1, <2>1 DEF settled, sameKeys
  <2>4. understood(n, m, q)
    BY Zenon, <1>2, <1>4, <2>1 DEF understood
  <2>5. p \in net' /\ \A o \in net' : o \in net \/ (besides(c, n, m, o) /\ understood(n, m, o))
    BY Zenon, <1>2, <1>3, <1>7, <2>4
  <2>6. onItsWay(c, n, m, p)'
    BY Zenon, <1>0, <1>6, <1>7, <2>2, <2>3, <2>5, OnItsWayKept
  <2> QED
    BY Zenon, <1>5, <2>5, <2>6 DEF carried
<1>8. ASSUME NEW p \in net, answering(c, n, m, p) PROVE carried(c, n, m)'
  <2>1. p # r
    BY Zenon, <1>0, <1>8 DEF answering
  <2>2. p \in net' /\ \A o \in net' : o \in net \/ besides(c, n, m, o)
    BY Zenon, <1>2, <1>3, <2>1
  <2>3. answering(c, n, m, p)'
    BY Zenon, <1>6, <1>8, <2>2, AnsweringKept
  <2> QED
    BY Zenon, <1>5, <2>2, <2>3 DEF carried
<1>9. ASSUME onItsWay(c, n, m, r) PROVE carried(c, n, m)'
  <2>1. introduced(c, n, m, r)
    BY Zenon, <1>0, <1>9 DEF onItsWay, asked, questioned
  <2>2. /\ r.src = n /\ r.dst = m /\ r.key.eph = c /\ r.msg = request(c)
        /\ handshakes[m][n].id = r.challenge /\ sessions[n][m] # None
        /\ sessions[n][m].readKey = [eph |-> c, challenge |-> r.challenge, side |-> "recipient"]
        /\ noTag(c)
    BY Zenon, <2>1 DEF introduced, pending
  <2>3. sessions'[m][n].writeKey = [eph |-> c, challenge |-> r.challenge, side |-> "recipient"]
    BY Zenon, <1>1, <2>2 DEF settled
  <2>4. q.msg = response(c)
    BY <1>2, <2>2 DEF request
  <2>5. noTag(c)'
    BY Zenon, <1>2, <1>3, <2>2 DEF noTag, besides
  <2>6. answering(c, n, m, q)'
    BY Zenon, <1>2, <1>6, <2>2, <2>3, <2>4, <2>5 DEF answering, sameKeys
  <2>7. q \in net'
    BY Zenon, <1>2
  <2> QED
    BY Zenon, <1>5, <2>6, <2>7 DEF carried
<1> QED
  BY Zenon, <1>7, <1>8, <1>9 DEF carried

---------------------------------------------------------------------------
(* An undisturbed call stays carried through every step: it was active and *)
(* undisturbed before, or it has just been made.                           *)
LEMMA TripStep ==
  ASSUME Inv, CallInv, Next, NEW c \in Call, undisturbed(c)'
  PROVE  carried(c, From[c], To[c])'
<1> DEFINE n == From[c]
           m == To[c]
           Goal == carried(c, n, m)'
<1>0. /\ n \in Node /\ m \in Node /\ n # m /\ PairInv /\ OneActive
      /\ state'[c] = "active" /\ c \notin disturbed'
      /\ state \in [Call -> {"idle", "active", "answered", "failed"}]
  BY Zenon, HandshakeAssumption DEF CallInv, undisturbed, Inv, TypeOK
<1>1. ASSUME state[c] = "active", c \notin disturbed PROVE carried(c, n, m)
  BY Zenon, <1>1 DEF CallInv, TripInv, undisturbed
<1> HIDE DEF n, m
<1>2. n = From[c] /\ m = To[c]
  BY Zenon DEF n, m
<1> HIDE DEF Goal
<1>3. ASSUME NEW d \in Call, sendCall(d) PROVE Goal
  <2>1. CASE d = c
    BY Zenon, <1>0, <1>2, <1>3, <2>1, CarriedFirst DEF Goal
  <2>2. CASE d # c
    <3>1. state[c] = "active" /\ c \notin disturbed
      BY Zenon, <1>0, <1>3, <2>2 DEF sendCall
    <3> QED
      BY Zenon, <1>0, <1>1, <1>2, <1>3, <3>1, CarriedSend DEF Goal
  <2> QED
    BY Zenon, <2>1, <2>2
<1>4. ASSUME NEW d \in Call, timeout(d) PROVE Goal
  <2>1. /\ net' = net /\ sessions' = sessions /\ handshakes' = handshakes
        /\ handshakeCount' = handshakeCount /\ disturbed' = disturbed
        /\ state' = [state EXCEPT ![d] = "failed"]
    BY Zenon, <1>4 DEF timeout, cacheVars, historyVars
  <2>2. state[c] = "active"
    BY Zenon, <1>0, <2>1
  <2> QED
    BY Zenon, <1>0, <1>1, <2>1, <2>2, CarriedQuietly DEF Goal
<1>5. ASSUME NEW r \in net, receiveRequest(r) PROVE Goal
  <2>1. state' = state /\ disturbed' = disturbed
    BY Zenon, <1>5 DEF receiveRequest, callVars
  <2> QED
    BY Zenon, <1>0, <1>1, <1>5, <2>1, CarriedRequest DEF Goal
<1>6. ASSUME NEW r \in net, receiveResponse(r) PROVE Goal
  <2>1. /\ disturbed' = disturbed
        /\ state' = IF state[r.msg.call] = "active"
                      THEN [state EXCEPT ![r.msg.call] = "answered"] ELSE state
    BY Zenon, <1>6 DEF receiveResponse, historyVars
  <2>2. state[c] = "active"
    BY Zenon, <1>0, <2>1
  <2> QED
    BY Zenon, <1>0, <1>1, <1>6, <2>1, <2>2, CarriedResponse DEF Goal
<1>7. ASSUME NEW r \in net, receiveUnknown(r) PROVE Goal
  <2>1. state' = state /\ disturbed' = disturbed
    BY Zenon, <1>7 DEF receiveUnknown, callVars, historyVars
  <2> QED
    BY Zenon, <1>0, <1>1, <1>7, <2>1, CarriedUnknown DEF Goal
<1>8. ASSUME NEW r \in net, NEW d \in Call, receiveWhoareyou(r, d) PROVE Goal
  <2>1. state' = state /\ disturbed \subseteq disturbed'
    BY Zenon, <1>8 DEF receiveWhoareyou
  <2> QED
    BY Zenon, <1>0, <1>1, <1>2, <1>8, <2>1, CarriedWhoareyou DEF Goal
<1>9. ASSUME NEW r \in net, ignoreWhoareyou(r) PROVE Goal
  <2>1. state' = state /\ disturbed' = disturbed
    BY Zenon, <1>9 DEF ignoreWhoareyou, callVars, historyVars
  <2> QED
    BY Zenon, <1>0, <1>1, <1>9, <2>1, CarriedIgnore DEF Goal
<1>10. ASSUME NEW r \in net, receiveHandshake(r) PROVE Goal
  <2>1. state' = state /\ disturbed' = disturbed
    BY Zenon, <1>10 DEF receiveHandshake, callVars
  <2> QED
    BY Zenon, <1>0, <1>1, <1>10, <2>1, CarriedHandshake DEF Goal
<1>11. ASSUME NEW r \in net, refuseHandshake(r) PROVE Goal
  <2>1. state' = state /\ disturbed' = disturbed
    BY Zenon, <1>11 DEF refuseHandshake, callVars, historyVars
  <2> QED
    BY Zenon, <1>0, <1>1, <1>11, <2>1, CarriedRefuse DEF Goal
<1>12. ASSUME Fault PROVE Goal
  <2>1. fault /\ (state'[c] = "active" => state[c] = "active")
    BY Zenon, <1>0, <1>12 DEF Fault, lose, duplicate, evict, expire, restart, callVars
  <2> QED
    BY Zenon, <1>0, <2>1 DEF fault
<1>13. ASSUME RecordStep PROVE Goal
  <2>1. /\ net' = net /\ sessions' = sessions /\ handshakes' = handshakes
        /\ handshakeCount' = handshakeCount /\ disturbed' = disturbed /\ state' = state
    BY Zenon, <1>13 DEF RecordStep, newRecord, callVars, cacheVars, historyVars
  <2> QED
    BY Zenon, <1>0, <1>1, <2>1, CarriedQuietly DEF Goal
<1>14. Goal
  BY Zenon, <1>3, <1>4, <1>5, <1>6, <1>7, <1>8, <1>9, <1>10, <1>11, <1>12, <1>13
     DEF Next, CallStep, PacketStep
<1> QED
  BY Zenon, <1>14 DEF Goal, n, m

(* The four stages of a call, with the pairing of keys and one call at a   *)
(* time, are inductive.                                                    *)
LEMMA CallInvStep == Inv /\ CallInv /\ [Next]_vars => CallInv'
<1> SUFFICES ASSUME Inv, CallInv, [Next]_vars PROVE CallInv'
  BY Zenon
<1>1. CASE Next
  <2>1. TripInv'
    BY Zenon, <1>1, TripStep DEF TripInv
  <2>2. PairInv' /\ OneActive'
    BY Zenon, <1>1, PairStep, OneActiveStep DEF Inv, CallInv
  <2> QED
    BY Zenon, <2>1, <2>2 DEF CallInv
<1>2. CASE UNCHANGED vars
  <2>1. /\ net' = net /\ sessions' = sessions /\ handshakes' = handshakes
        /\ handshakeCount' = handshakeCount /\ disturbed' = disturbed /\ state' = state
    BY Zenon, <1>2 DEF vars, callVars, cacheVars, historyVars
  <2>2. PairInv' /\ OneActive'
    BY Zenon, <2>1 DEF CallInv, PairInv, OneActive
  <2>3. ASSUME NEW c \in Call, undisturbed(c)' PROVE carried(c, From[c], To[c])'
    <3>1. carried(c, From[c], To[c])
      BY Zenon, <2>1, <2>3 DEF CallInv, TripInv, undisturbed
    <3> QED
      BY Zenon, <2>1, <3>1, CarriedQuietly
  <2> QED
    BY Zenon, <2>2, <2>3 DEF CallInv, TripInv
<1> QED
  BY Zenon, <1>1, <1>2

(* No call has been made at first.                                         *)
LEMMA CallInvInit == Init => CallInv
  BY DEF Init, CallInv, PairInv, OneActive, TripInv, undisturbed

(* Whichever sessions and challenges evictions, restarts, lost and         *)
(* repeated packets have left the nodes with, a call that is made when no  *)
(* packet is under way and then left alone is answered before the network  *)
(* is silent: handleUnknown challenges what it cannot read,                *)
(* handleWhoareyou answers once, and decodeHandshake accepts that answer.  *)
THEOREM UndisturbedCallsSucceed == Spec => []UndisturbedCallSucceeds
<1>1. CallInv => UndisturbedCallSucceeds
  BY Zenon DEF CallInv, TripInv, undisturbed, carried, UndisturbedCallSucceeds
<1>2. Init => Inv /\ CallInv
  BY Zenon, InitInv, CallInvInit
<1>3. Inv /\ CallInv /\ [Next]_vars => Inv' /\ CallInv'
  BY Zenon, InvStep, CallInvStep
<1> QED
  BY <1>1, <1>2, <1>3, PTL DEF Spec
=============================================================================
