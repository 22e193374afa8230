---------------------------- MODULE TalkProofs -----------------------------
(***************************************************************************)
(* Proofs for the talk extension: its property holds for any messages, of  *)
(* any length, however their packets get lost, repeated and reordered.     *)
(*                                                                         *)
(* What the loop of combinePackets computes is proved by an induction over *)
(* its turns, in the form of a least turn at which it would be wrong.      *)
(***************************************************************************)
EXTENDS TalkExt, FiniteSetTheorems, TLAPS

---------------------------------------------------------------------------
(* Induction and recursion *)

(* A set of numbers that is not empty has a least element.                 *)
LEMMA LeastElement ==
  ASSUME NEW S, S \subseteq Nat, S # {}
  PROVE  \E x \in S : \A y \in S : x <= y
<1>1. PICK x \in S : \A y \in S : ~(<<y, x>> \in OpToRel(<, Nat))
  BY Zenon, NatLessThanWellFounded, WFMin
<1>2. ASSUME NEW y \in S, y < x PROVE FALSE
  BY Zenon, <1>1, <1>2, <<y, x>> \in OpToRel(<, Nat) DEF OpToRel
<1> QED
  BY <1>2, SMT

(* A set that has 0, and each number up to n after the one before it, has  *)
(* all numbers up to n.                                                    *)
LEMMA Induction ==
  ASSUME NEW n \in Nat, NEW S, 0 \in S, \A i \in 1 .. n : i - 1 \in S => i \in S
  PROVE  \A i \in 0 .. n : i \in S
<1> DEFINE Bad == {i \in 0 .. n : i \notin S}
<1>1. SUFFICES ASSUME Bad # {} PROVE FALSE
  BY Zenon
<1>2. Bad \subseteq Nat
  OBVIOUS
<1>3. PICK m \in Bad : \A y \in Bad : m <= y
  BY Zenon, <1>1, <1>2, LeastElement
<1>4. m \in 1 .. n /\ m - 1 \in 0 .. n /\ m \notin S
  BY <1>3
<1>5. m - 1 \notin Bad
  BY <1>3, <1>4
<1> QED
  BY Zenon, <1>4, <1>5

(* g makes a value of V from one, in each of n turns.                      *)
turns(n, V, g) == \A i \in 1 .. n : \A v \in V : g[<<i, v>>] \in V

(* f starts with b and goes on with g.                                     *)
follows(f, n, b, g) == f[0] = b /\ \A i \in 1 .. n : f[i] = g[<<i, f[i - 1]>>]

(* There is such a function.                                               *)
LEMMA Recursion ==
  ASSUME NEW n \in Nat, NEW V, NEW b \in V, NEW g, turns(n, V, g)
  PROVE  \E f \in [0 .. n -> V] : follows(f, n, b, g)
<1> USE DEF turns
<1> DEFINE fits(m, f) == f[0] = b /\ \A i \in 1 .. m : f[i] = g[<<i, f[i - 1]>>]
           S == {m \in 0 .. n : \E f \in [0 .. m -> V] : fits(m, f)}
<1>1. 0 \in S
  <2> DEFINE f == [i \in 0 .. 0 |-> b]
  <2>1. f \in [0 .. 0 -> V] /\ fits(0, f)
    OBVIOUS
  <2>2. 0 \in 0 .. n
    OBVIOUS
  <2> HIDE DEF f
  <2> QED
    BY Zenon, <2>1, <2>2
<1>2. ASSUME NEW m \in 1 .. n, m - 1 \in S PROVE m \in S
  <2>1. PICK f \in [0 .. m - 1 -> V] : fits(m - 1, f)
    BY Zenon, <1>2
  <2> DEFINE h == [i \in 0 .. m |-> IF i = m THEN g[<<m, f[m - 1]>>] ELSE f[i]]
  <2>2. g[<<m, f[m - 1]>>] \in V
    BY <2>1
  <2>3. h \in [0 .. m -> V]
    BY <2>1, <2>2
  <2>4. h[0] = b
    BY <2>1
  <2>5. ASSUME NEW i \in 1 .. m PROVE h[i] = g[<<i, h[i - 1]>>]
    <3>1. i - 1 \in 0 .. m /\ i - 1 # m /\ i \in 0 .. m
      OBVIOUS
    <3>2. h[i - 1] = f[i - 1] /\ h[i] = IF i = m THEN g[<<m, f[m - 1]>>] ELSE f[i]
      BY Zenon, <3>1
    <3>3. i # m => f[i] = g[<<i, f[i - 1]>>]
      BY <2>1
    <3> HIDE DEF h
    <3> QED
      BY Zenon, <3>2, <3>3
  <2> HIDE DEF h
  <2> QED
    <3>1. m \in 0 .. n
      OBVIOUS
    <3> QED
      BY Zenon, <2>3, <2>4, <2>5, <3>1
<1> HIDE DEF S
<1>3. n \in S
  <2>1. \A i \in 0 .. n : i \in S
    BY Zenon, <1>1, <1>2, Induction
  <2> QED
    BY <2>1
<1> QED
  BY Zenon, <1>3 DEF S, follows

---------------------------------------------------------------------------
(* Cutting and joining *)

(* combinePackets leaves out the chunks of no bytes.                       *)
LEMMA CombinedPackets ==
  ASSUME NEW X, NEW cs \in Seq(X)
  PROVE  /\ combinePackets(cs) \in Seq(X)
         /\ \A k \in 1 .. Len(combinePackets(cs)) :
              \E j \in 1 .. Len(cs) : combinePackets(cs)[k] = cs[j] /\ cs[j].left < cs[j].right
         /\ (\A j \in 1 .. Len(cs) : cs[j].left < cs[j].right) => combinePackets(cs) = cs
<1> DEFINE n == Len(cs)
           some(i) == cs[i].left < cs[i].right
           next(i, s) == IF some(i) THEN Append(s, cs[i]) ELSE s
           def(f) == [i \in 0 .. n |-> IF i = 0 THEN <<>> ELSE next(i, f[i - 1])]
           V == Seq(X)
           g == [x \in (1 .. n) \X V |-> next(x[1], x[2])]
           F == CHOOSE f : f = def(f)
<1>1. n \in Nat
  OBVIOUS
<1>2. combinePackets(cs) = F[n]
  BY Zenon DEF combinePackets
<1>3. <<>> \in V
  OBVIOUS
<1> HIDE DEF some
<1>4. ASSUME NEW i \in 1 .. n, NEW s \in V PROVE next(i, s) \in V
  BY SMT
<1> HIDE DEF V, next
<1>5. \A i \in 1 .. n : \A s \in V : g[<<i, s>>] = next(i, s)
  OBVIOUS
<1> HIDE DEF g
<1>6. turns(n, V, g)
  BY Zenon, <1>4, <1>5 DEF turns
<1>7. PICK f \in [0 .. n -> V] : follows(f, n, <<>>, g)
  BY Zenon, <1>1, <1>3, <1>6, Recursion
<1>8. \A i \in 1 .. n : f[i] = next(i, f[i - 1])
  <2>1. \A i \in 1 .. n : i - 1 \in 0 .. n
    BY <1>1
  <2> QED
    BY Zenon, <1>5, <1>7, <2>1 DEF follows
<1>9. f = def(f)
  BY <1>1, <1>7, <1>8 DEF follows
<1>10. F = def(F)
  BY Zenon, <1>9
<1> HIDE DEF F
<1>11. F[0] = <<>> /\ \A i \in 1 .. n : F[i] = next(i, F[i - 1])
  BY <1>1, <1>10
<1> DEFINE from(i) == \A k \in 1 .. Len(F[i]) : \E j \in 1 .. n : F[i][k] = cs[j] /\ some(j)
           all == \A j \in 1 .. n : some(j)
           same(i) == Len(F[i]) = i /\ \A k \in 1 .. i : F[i][k] = cs[k]
           S == {i \in 0 .. n : F[i] \in V /\ from(i) /\ (all => same(i))}
<1>12. \A i \in 0 .. n : i \in S
  <2>1. 0 \in S
    BY <1>1, <1>3, <1>11
  <2>2. ASSUME NEW i \in 1 .. n, i - 1 \in S PROVE i \in S
    <3> HIDE DEF all
    <3>1. i \in 0 .. n
      BY <1>1
    <3>2. /\ F[i - 1] \in V /\ from(i - 1) /\ (all => same(i - 1))
          /\ F[i] = IF some(i) THEN Append(F[i - 1], cs[i]) ELSE F[i - 1]
      BY Zenon, <1>11, <2>2 DEF next
    <3>3. F[i] \in V
      BY Zenon, <1>4, <1>11, <3>2
    <3>4. from(i)
      <4>1. CASE ~some(i)
        BY Zenon, <3>2, <4>1
      <4>2. CASE some(i)
        <5>1. \A k \in 1 .. Len(F[i]) : \/ k \in 1 .. Len(F[i - 1]) /\ F[i][k] = F[i - 1][k]
                                        \/ F[i][k] = cs[i]
          BY <3>2, <4>2 DEF V
        <5> QED
          BY Zenon, <3>2, <4>2, <5>1
      <4> QED
        BY Zenon, <4>1, <4>2
    <3>5. ASSUME all PROVE same(i)
      <4>1. some(i)
        BY Zenon, <3>5 DEF all
      <4>2. F[i] = Append(F[i - 1], cs[i]) /\ same(i - 1)
        BY Zenon, <3>2, <3>5, <4>1
      <4> QED
        BY <1>1, <3>2, <4>2 DEF V
    <3> QED
      BY Zenon, <3>1, <3>3, <3>4, <3>5
  <2> HIDE DEF S
  <2> QED
    BY Zenon, <1>1, <2>1, <2>2, Induction
<1>13. n \in S
  BY <1>1, <1>12
<1>14. all => F[n] = cs
  <2>1. SUFFICES ASSUME all PROVE F[n] = cs
    BY Zenon
  <2>2. F[n] \in Seq(X) /\ Len(F[n]) = n /\ \A k \in 1 .. n : F[n][k] = cs[k]
    BY Zenon, <1>13, <2>1 DEF V
  <2> QED
    BY SMTT(30), <2>2
<1> QED
  BY Zenon, <1>2, <1>13, <1>14 DEF V, some

(* A message is cut into chunks that follow each other and are not empty.  *)
LEMMA Chunks ==
  ASSUME NEW msg, msg.len \in Nat \ {0}
  PROVE  LET k == size(msg.len)
         IN /\ k \in Nat \ {0}
            /\ \A i \in 0 .. k - 1 : /\ chunk(msg, i).of = msg.of
                                     /\ chunk(msg, i).left = i * step
                                     /\ chunk(msg, i).left < chunk(msg, i).right
            /\ \A i \in 0 .. k - 2 : /\ chunk(msg, i).right = (i + 1) * step
                                     /\ (i + 1) * step < msg.len
            /\ chunk(msg, k - 1).right = msg.len
<1> DEFINE n == msg.len
           k == size(n)
           right(i) == IF n < (i + 1) * step THEN n ELSE (i + 1) * step
<1>1. n \in Nat /\ n > 0 /\ step = 500
  BY DEF step
<1>2. \A i : chunk(msg, i) = [of |-> msg.of, left |-> i * step, right |-> right(i)]
  BY Zenon DEF chunk
<1> HIDE DEF right
<1>3. \A i : /\ chunk(msg, i).of = msg.of /\ chunk(msg, i).left = i * step
             /\ chunk(msg, i).right = right(i)
  BY <1>2
<1> USE DEF right
<1> HIDE DEF n
<1>4. k \in Nat /\ k > 0 /\ (k - 1) * 500 < n /\ n <= k * 500
  BY <1>1 DEF size, step
<1> HIDE DEF k
<1>5. ASSUME NEW i \in 0 .. k - 1 PROVE i * step < right(i)
  BY <1>1, <1>4, Z3
<1>6. ASSUME NEW i \in 0 .. k - 2 PROVE right(i) = (i + 1) * step /\ (i + 1) * step < n
  BY <1>1, <1>4, Z3
<1>7. right(k - 1) = n
  BY <1>1, <1>4, Z3
<1>8. k \in Nat \ {0}
  BY <1>4
<1> HIDE DEF right
<1> QED
  BY Zenon, <1>3, <1>5, <1>6, <1>7, <1>8 DEF k, n

---------------------------------------------------------------------------
(* The receiver of talk extension packets *)

(* The i-th packet of a message and the request that carries it.           *)
packetOf(id, i) ==
  [Id |-> id, SeqNum |-> i - 1, LastSeqNum |-> size(messages[id].len),
   Packet |-> chunk(messages[id], i - 1)]
request(id, i) ==
  [Protocol |-> toTalkExtProtocol(messages[id].proc), Message |-> packetOf(id, i)]

(* The numbers of the packets that have arrived.                           *)
got(id) == {s \in 0 .. size(messages[id].len) - 1 : request(id, s + 1) \in arrived}

(* The connection has the packets that have arrived, in their places.      *)
connected(id) ==
  /\ TalkExtConnections[id].LastSeqNum = size(messages[id].len)
  /\ DOMAIN TalkExtConnections[id].Packets = got(id)
  /\ \A s \in got(id) : TalkExtConnections[id].Packets[s] = packetOf(id, s + 1)

(* A message whose protocol has a dash is not taken at all; of another     *)
(* there is a connection when a packet has arrived.                        *)
taken(id) ==
  IF Len(messages[id].proc) > 1
    THEN id \notin DOMAIN TalkExtConnections /\ requestsOf(id) \cap arrived \subseteq plain
    ELSE /\ id \in DOMAIN TalkExtConnections <=> got(id) # {}
         /\ got(id) # {} => connected(id)

(* The inductive invariant.                                                *)
TalkInv ==
  /\ messages \in Seq([of : Nat, len : Length, proc : Protocol])
  /\ \A p \in arrived : p.Message.Id \in DOMAIN messages
  /\ DOMAIN TalkExtConnections \subseteq DOMAIN messages
  /\ \A id \in DOMAIN messages : taken(id)

(* What a request carries.                                                 *)
LEMMA Fields ==
  ASSUME NEW id, NEW i
  PROVE  /\ request(id, i).Protocol = toTalkExtProtocol(messages[id].proc)
         /\ request(id, i).Message = packetOf(id, i)
         /\ packetOf(id, i).Id = id /\ packetOf(id, i).SeqNum = i - 1
         /\ packetOf(id, i).LastSeqNum = size(messages[id].len)
         /\ packetOf(id, i).Packet = chunk(messages[id], i - 1)
<1>1. /\ request(id, i).Protocol = toTalkExtProtocol(messages[id].proc)
      /\ request(id, i).Message = packetOf(id, i)
  BY Zenon DEF request
<1>2. /\ packetOf(id, i).Id = id /\ packetOf(id, i).SeqNum = i - 1
      /\ packetOf(id, i).LastSeqNum = size(messages[id].len)
      /\ packetOf(id, i).Packet = chunk(messages[id], i - 1)
  BY DEF packetOf
<1> QED
  BY Zenon, <1>1, <1>2

(* The requests of a message carry its packets, one each.                  *)
LEMMA Requests ==
  ASSUME TalkInv, NEW id \in DOMAIN messages
  PROVE  /\ messages[id].len \in Nat \ {0} /\ messages[id].proc \in Protocol
         /\ size(messages[id].len) \in Nat \ {0}
         /\ \A p : p \in requestsOf(id) <=>
                     \E i \in 1 .. size(messages[id].len) : p = request(id, i)
<1> DEFINE msg == messages[id]
           k == size(msg.len)
           M == [of : Nat, len : Length, proc : Protocol]
<1>1. messages \in Seq(M)
  BY Zenon DEF TalkInv
<1>2. msg \in M
  <2> HIDE DEF M
  <2> QED
    BY <1>1
<1>3. msg.len \in Nat \ {0} /\ msg.proc \in Protocol
  <2>1. msg.len \in Length /\ msg.proc \in Protocol
    BY <1>2
  <2> QED
    BY Zenon, <2>1, TalkAssumption
<1> HIDE DEF msg
<1>4. k \in Nat \ {0}
  BY Zenon, <1>3, Chunks
<1>5. splitMessage(id, msg) = [i \in 1 .. k |-> packetOf(id, i)]
  BY Zenon DEF splitMessage, packetOf, msg
<1>6. \A q : q \in Range(splitMessage(id, msg)) <=> \E i \in 1 .. k : q = packetOf(id, i)
  BY Zenon, <1>5 DEF Range
<1>7. \A p : p \in requestsOf(id) <=> \E i \in 1 .. k : p = request(id, i)
  BY Zenon, <1>6 DEF requestsOf, request, msg
<1> QED
  BY Zenon, <1>3, <1>4, <1>7 DEF msg

(* Only a name without a dash is taken for one of the extension.           *)
LEMMA Dashes ==
  ASSUME NEW proc \in Protocol
  PROVE  isTalkExtProtocol(toTalkExtProtocol(proc)) <=> ~(Len(proc) > 1)
<1> DEFINE a == [md5 |-> proc]
           b == [md5 |-> <<proc[1]>>]
           parts == STRING
<1>1. proc \in Seq(parts) /\ proc # <<>>
  BY Zenon, TalkAssumption
<1> HIDE DEF a, parts
<1>2. toTalkExtProtocol(proc)[1] = proc[1] /\ Len(toTalkExtProtocol(proc)) = Len(proc) + 1
  <2>1. toTalkExtProtocol(proc) = Append(proc, a)
    BY Zenon DEF toTalkExtProtocol, a
  <2> QED
    BY <1>1, <2>1
<1>3. isTalkExtProtocol(toTalkExtProtocol(proc)) <=>
        toTalkExtProtocol(<<proc[1]>>) = toTalkExtProtocol(proc)
  BY Zenon, <1>2 DEF isTalkExtProtocol
<1> HIDE DEF b
<1>4. Len(toTalkExtProtocol(<<proc[1]>>)) = 2
  <2>1. toTalkExtProtocol(<<proc[1]>>) = Append(<<proc[1]>>, b)
    BY Zenon DEF toTalkExtProtocol, b
  <2> QED
    BY <2>1
<1>5. CASE Len(proc) > 1
  <2>1. Len(proc) + 1 # 2
    BY <1>1, <1>5
  <2> QED
    BY Zenon, <1>2, <1>3, <1>4, <1>5, <2>1
<1>6. CASE ~(Len(proc) > 1)
  <2>1. Len(proc) = 1
    BY <1>1, <1>6
  <2>2. proc = <<proc[1]>>
    BY <1>1, <2>1
  <2> QED
    BY Zenon, <1>3, <1>6, <2>2
<1> QED
  BY Zenon, <1>5, <1>6

(* A request that arrives changes nothing for the other messages.          *)
LEMMA OthersStay ==
  ASSUME TalkInv, NEW id \in DOMAIN messages, NEW p \in requestsOf(id), handleTalkExt(p),
         NEW o \in DOMAIN messages, o # id
  PROVE  taken(o)'
<1>1. messages' = messages /\ arrived' = arrived \cup {p} /\ plain \subseteq plain'
  BY Zenon DEF handleTalkExt
<1>2. p.Message.Id = id
  <2>1. PICK i \in 1 .. size(messages[id].len) : p = request(id, i)
    BY Zenon, Requests
  <2>2. request(id, i).Message = packetOf(id, i) /\ packetOf(id, i).Id = id
    BY Zenon, Fields
  <2> QED
    BY Zenon, <2>1, <2>2
<1>3. p \notin requestsOf(o) /\ \A i \in 1 .. size(messages[o].len) : p # request(o, i)
  <2>1. \A i : request(o, i).Message.Id = o
    BY ZenonT(30), Fields
  <2>2. \A i \in 1 .. size(messages[o].len) : p # request(o, i)
    BY Zenon, <1>2, <2>1
  <2> QED
    BY Zenon, <2>2, Requests
<1>4. /\ requestsOf(o)' = requestsOf(o)
      /\ \A i : packetOf(o, i)' = packetOf(o, i) /\ request(o, i)' = request(o, i)
  BY Zenon, <1>1 DEF requestsOf, packetOf, request
<1>5. got(o)' = got(o)
  <2>1. \A s \in 0 .. size(messages[o].len) - 1 : s + 1 \in 1 .. size(messages[o].len)
    BY Requests
  <2>2. \A s \in 0 .. size(messages[o].len) - 1 :
          request(o, s + 1)' \in arrived' <=> request(o, s + 1) \in arrived
    BY Zenon, <1>1, <1>3, <1>4, <2>1
  <2> QED
    BY Zenon, <1>1, <2>2 DEF got
<1>6. /\ o \in DOMAIN TalkExtConnections' <=> o \in DOMAIN TalkExtConnections
      /\ o \in DOMAIN TalkExtConnections => TalkExtConnections'[o] = TalkExtConnections[o]
  <2>1. CASE isTalkExtProtocol(p.Protocol)
    <3>1. TalkExtConnections' = [c \in DOMAIN TalkExtConnections \cup {id} |->
             IF c = id THEN withPacket(p.Message) ELSE TalkExtConnections[c]]
      BY Zenon, <1>2, <2>1 DEF handleTalkExt
    <3> QED
      BY Zenon, <3>1
  <2>2. CASE ~isTalkExtProtocol(p.Protocol)
    BY Zenon, <2>2 DEF handleTalkExt
  <2> QED
    BY Zenon, <2>1, <2>2
<1>7. taken(o)
  BY Zenon DEF TalkInv
<1>8. CASE Len(messages[o].proc) > 1
  <2>1. o \notin DOMAIN TalkExtConnections /\ requestsOf(o) \cap arrived \subseteq plain
    BY Zenon, <1>7, <1>8 DEF taken
  <2>2. requestsOf(o)' \cap arrived' \subseteq plain'
    BY Zenon, <1>1, <1>3, <1>4, <2>1
  <2> QED
    BY Zenon, <1>1, <1>6, <1>8, <2>1, <2>2 DEF taken
<1>9. CASE ~(Len(messages[o].proc) > 1)
  <2>1. /\ o \in DOMAIN TalkExtConnections <=> got(o) # {}
        /\ got(o) # {} => connected(o)
    BY Zenon, <1>7, <1>9 DEF taken
  <2>2. got(o)' # {} => connected(o)'
    BY Zenon, <1>1, <1>4, <1>5, <1>6, <2>1 DEF connected
  <2> QED
    BY Zenon, <1>1, <1>5, <1>6, <1>9, <2>1, <2>2 DEF taken
<1> QED
  BY Zenon, <1>8, <1>9

(* The packet of a request goes to its place in its connection.            *)
LEMMA PacketTaken ==
  ASSUME TalkInv, NEW id \in DOMAIN messages, NEW p \in requestsOf(id), handleTalkExt(p)
  PROVE  taken(id)'
<1> DEFINE k == size(messages[id].len)
           conns == TalkExtConnections
<1>1. messages' = messages /\ arrived' = arrived \cup {p}
  BY Zenon DEF handleTalkExt
<1>2. /\ requestsOf(id)' = requestsOf(id)
      /\ \A i : packetOf(id, i)' = packetOf(id, i) /\ request(id, i)' = request(id, i)
  BY Zenon, <1>1 DEF requestsOf, packetOf, request
<1>3. PICK i \in 1 .. k : p = request(id, i)
  BY Zenon, Requests
<1>4. p.Protocol = toTalkExtProtocol(messages[id].proc) /\ p.Message = packetOf(id, i)
  BY Zenon, <1>3, Fields
<1>5. k \in Nat \ {0} /\ messages[id].proc \in Protocol
  BY Zenon, Requests
<1>6. taken(id)
  BY Zenon DEF TalkInv
<1>7. CASE Len(messages[id].proc) > 1
  <2>1. ~isTalkExtProtocol(p.Protocol)
    BY Zenon, <1>4, <1>5, <1>7, Dashes
  <2>2. plain' = plain \cup {p} /\ conns' = conns
    BY Zenon, <2>1 DEF handleTalkExt
  <2>3. id \notin DOMAIN conns /\ requestsOf(id) \cap arrived \subseteq plain
    BY Zenon, <1>6, <1>7 DEF taken
  <2>4. requestsOf(id)' \cap arrived' \subseteq plain'
    BY Zenon, <1>1, <1>2, <2>2, <2>3
  <2> QED
    BY Zenon, <1>1, <1>7, <2>2, <2>3, <2>4 DEF taken
<1>8. CASE ~(Len(messages[id].proc) > 1)
  <2>1. isTalkExtProtocol(p.Protocol)
    BY Zenon, <1>4, <1>5, <1>8, Dashes
  <2>2. packetOf(id, i).Id = id /\ packetOf(id, i).SeqNum = i - 1 /\ packetOf(id, i).LastSeqNum = k
    BY Zenon, Fields
  <2>3. conns' = [c \in DOMAIN conns \cup {id} |->
                    IF c = id THEN withPacket(packetOf(id, i)) ELSE conns[c]]
    BY Zenon, <1>4, <2>1, <2>2 DEF handleTalkExt
  <2>4. id \in DOMAIN conns' /\ conns'[id] = withPacket(packetOf(id, i))
    BY Zenon, <2>3
  <2>5. /\ id \in DOMAIN conns <=> got(id) # {}
        /\ got(id) # {} => connected(id)
    BY Zenon, <1>6, <1>8 DEF taken
  <2> DEFINE old == IF id \notin DOMAIN conns THEN <<>> ELSE conns[id].Packets
             last == IF id \notin DOMAIN conns THEN k ELSE conns[id].LastSeqNum
  <2>6. withPacket(packetOf(id, i)) =
          [LastSeqNum |-> last,
           Packets |-> [s \in DOMAIN old \cup {i - 1} |-> IF s = i - 1 THEN packetOf(id, i) ELSE old[s]]]
    BY Zenon, <2>2 DEF withPacket
  <2>7. last = k /\ DOMAIN old = got(id) /\ \A s \in got(id) : old[s] = packetOf(id, s + 1)
    <3>1. CASE got(id) = {}
      <4>1. DOMAIN <<>> = {}
        OBVIOUS
      <4> QED
        BY Zenon, <2>5, <3>1, <4>1
    <3>2. CASE got(id) # {}
      BY Zenon, <2>5, <3>2 DEF connected
    <3> QED
      BY Zenon, <3>1, <3>2
  <2> HIDE DEF old, last
  <2> DEFINE new == [s \in DOMAIN old \cup {i - 1} |-> IF s = i - 1 THEN packetOf(id, i) ELSE old[s]]
  <2>8. conns'[id].LastSeqNum = last /\ conns'[id].Packets = new
    <3>1. conns'[id] = [LastSeqNum |-> last, Packets |-> new]
      BY Zenon, <2>4, <2>6
    <3> HIDE DEF new
    <3> QED
      BY <3>1
  <2>9. \A s \in 0 .. k - 1 : request(id, s + 1)' \in arrived' <=>
                                request(id, s + 1) \in arrived \/ s = i - 1
    <3>1. ASSUME NEW s \in 0 .. k - 1, request(id, s + 1) = p PROVE s = i - 1
      <4>1. /\ request(id, s + 1).Message = packetOf(id, s + 1)
            /\ packetOf(id, s + 1).SeqNum = (s + 1) - 1
        BY Zenon, Fields
      <4>2. (s + 1) - 1 = i - 1
        BY Zenon, <1>4, <2>2, <3>1, <4>1
      <4> QED
        BY <1>5, <4>2
    <3>2. (i - 1) + 1 = i
      BY <1>5
    <3> QED
      BY Zenon, <1>1, <1>2, <1>3, <3>1, <3>2
  <2>10. got(id)' = got(id) \cup {i - 1}
    <3>1. i - 1 \in 0 .. k - 1
      BY <1>5
    <3> QED
      BY Zenon, <1>1, <2>9, <3>1 DEF got
  <2>11. connected(id)'
    <3>1. (i - 1) + 1 = i
      BY <1>5
    <3>2. DOMAIN conns'[id].Packets = got(id)'
      BY Zenon, <2>7, <2>8, <2>10
    <3>3. \A s \in got(id)' : conns'[id].Packets[s] = packetOf(id, s + 1)
      BY Zenon, <2>7, <2>8, <2>10, <3>1
    <3> QED
      BY ZenonT(30), <1>1, <1>2, <2>7, <2>8, <3>2, <3>3 DEF connected
  <2> QED
    BY Zenon, <1>1, <1>8, <2>4, <2>10, <2>11 DEF taken
<1> QED
  BY Zenon, <1>7, <1>8

(* A new message has no packets at the receiver.                           *)
LEMMA MessageSent ==
  ASSUME TalkInv, NEW proc \in Protocol, NEW n \in Length, newMessage(proc, n)
  PROVE  TalkInv'
<1> DEFINE M == [of : Nat, len : Length, proc : Protocol]
           m == [of |-> Len(messages) + 1, len |-> n, proc |-> proc]
<1>0. PICK new : new = Len(messages) + 1
  BY Zenon
<1>1. messages \in Seq(M)
  BY Zenon DEF TalkInv
<1>2. messages' = Append(messages, m) /\ UNCHANGED <<TalkExtConnections, plain, arrived>>
  BY Zenon DEF newMessage
<1>3. m \in M
  <2>1. Len(messages) + 1 \in Nat
    BY <1>1
  <2> QED
    BY Zenon, <2>1
<1> HIDE DEF M, m
<1>4. messages' \in Seq(M)
  BY <1>1, <1>2, <1>3
<1>5. /\ DOMAIN messages' = DOMAIN messages \cup {new} /\ new \notin DOMAIN messages
      /\ \A id \in DOMAIN messages : messages'[id] = messages[id]
  BY <1>0, <1>1, <1>2
<1>6. ASSUME NEW id \in DOMAIN messages PROVE taken(id)'
  <2>1. messages'[id] = messages[id]
    BY Zenon, <1>5
  <2>2. /\ requestsOf(id)' = requestsOf(id)
        /\ \A i : packetOf(id, i)' = packetOf(id, i)
    BY Zenon, <2>1 DEF requestsOf, packetOf
  <2>3. \A i : request(id, i)' = request(id, i)
    BY Zenon, <2>1, <2>2 DEF request
  <2>4. got(id)' = got(id)
    <3>1. \A s : request(id, s + 1)' \in arrived' <=> request(id, s + 1) \in arrived
      BY Zenon, <1>2, <2>3
    <3> QED
      BY Zenon, <2>1, <3>1 DEF got
  <2>5. connected(id)' <=> connected(id)
    BY Zenon, <1>2, <2>1, <2>2, <2>4 DEF connected
  <2> QED
    BY Zenon, <1>2, <2>1, <2>2, <2>4, <2>5 DEF TalkInv, taken
<1>7. \A p \in arrived' : p.Message.Id \in DOMAIN messages
  BY Zenon, <1>2 DEF TalkInv
<1>8. DOMAIN TalkExtConnections' \subseteq DOMAIN messages
  BY Zenon, <1>2 DEF TalkInv
<1>9. taken(new)'
  <2>1. \A i : request(new, i)'.Message.Id = new
    <3>1. ASSUME NEW i PROVE request(new, i)'.Message.Id = new
      <4>1. request(new, i)'.Message = packetOf(new, i)'
        BY Zenon DEF request
      <4>2. packetOf(new, i)'.Id = new
        BY DEF packetOf
      <4> QED
        BY Zenon, <4>1, <4>2
    <3> QED
      BY Zenon, <3>1
  <2>2. \A i : request(new, i)' \notin arrived'
    BY Zenon, <1>5, <1>7, <2>1
  <2>3. got(new)' = {}
    BY Zenon, <2>2 DEF got
  <2>4. requestsOf(new)' \cap arrived' = {}
    <3>1. \A p \in requestsOf(new)' : \E i : p = request(new, i)'
      BY DEF requestsOf, request, packetOf, splitMessage, Range
    <3> QED
      BY Zenon, <2>2, <3>1
  <2>5. new \notin DOMAIN TalkExtConnections'
    BY Zenon, <1>5, <1>8
  <2> QED
    BY Zenon, <2>3, <2>4, <2>5 DEF taken
<1> QED
  <2>1. /\ messages' \in Seq([of : Nat, len : Length, proc : Protocol])
        /\ \A p \in arrived' : p.Message.Id \in DOMAIN messages'
        /\ DOMAIN TalkExtConnections' \subseteq DOMAIN messages'
    BY Zenon, <1>4, <1>5, <1>7, <1>8 DEF M
  <2>2. \A id \in DOMAIN messages' : taken(id)'
    BY Zenon, <1>5, <1>6, <1>9
  <2> QED
    BY Zenon, <2>1, <2>2 DEF TalkInv

LEMMA TalkInvariance == TalkSpec => []TalkInv
<1>1. TalkInit => TalkInv
  <2>1. /\ <<>> \in Seq([of : Nat, len : Length, proc : Protocol])
        /\ DOMAIN <<>> = {}
    OBVIOUS
  <2> QED
    BY Zenon, <2>1 DEF TalkInit, TalkInv
<1>2. TalkInv /\ [TalkNext]_talkVars => TalkInv'
  <2>1. SUFFICES ASSUME TalkInv, [TalkNext]_talkVars PROVE TalkInv'
    BY Zenon
  <2>2. ASSUME NEW proc \in Protocol, NEW n \in Length, newMessage(proc, n) PROVE TalkInv'
    BY Zenon, <2>1, <2>2, MessageSent
  <2>3. ASSUME NEW id \in DOMAIN messages, NEW p \in requestsOf(id), handleTalkExt(p)
        PROVE  TalkInv'
    <3>1. messages' = messages /\ arrived' = arrived \cup {p}
      BY Zenon, <2>3 DEF handleTalkExt
    <3>2. p.Message.Id = id
      <4>1. PICK i \in 1 .. size(messages[id].len) : p = request(id, i)
        BY Zenon, <2>1, Requests
      <4>2. request(id, i).Message = packetOf(id, i) /\ packetOf(id, i).Id = id
        BY Zenon, Fields
      <4> QED
        BY Zenon, <4>1, <4>2
    <3>3. DOMAIN TalkExtConnections' \subseteq DOMAIN messages
      <4>1. DOMAIN TalkExtConnections \subseteq DOMAIN messages
        BY Zenon, <2>1 DEF TalkInv
      <4>2. DOMAIN TalkExtConnections' \subseteq DOMAIN TalkExtConnections \cup {id}
        BY Zenon, <2>3, <3>2 DEF handleTalkExt
      <4> QED
        BY Zenon, <4>1, <4>2
    <3>4. \A o \in DOMAIN messages : taken(o)'
      BY Zenon, <2>1, <2>3, OthersStay, PacketTaken
    <3>5. \A q \in arrived' : q.Message.Id \in DOMAIN messages
      BY Zenon, <2>1, <3>1, <3>2 DEF TalkInv
    <3> QED
      BY Zenon, <2>1, <3>1, <3>3, <3>4, <3>5 DEF TalkInv
  <2>4. CASE UNCHANGED talkVars
    <3>1. UNCHANGED <<messages, TalkExtConnections, plain, arrived>>
      BY Zenon, <2>4 DEF talkVars
    <3>2. ASSUME NEW id PROVE taken(id)' <=> taken(id)
      BY Zenon, <3>1 DEF taken, connected, got, request, packetOf, requestsOf
    <3> QED
      BY Zenon, <2>1, <3>1, <3>2 DEF TalkInv
  <2> QED
    BY Zenon, <2>1, <2>2, <2>3, <2>4 DEF TalkNext
<1> QED
  BY <1>1, <1>2, PTL DEF TalkSpec

(* All packets have arrived if there are as many as the message has.       *)
LEMMA AllArrived ==
  ASSUME TalkInv, NEW id \in DOMAIN messages, connected(id)
  PROVE  LET all == 0 .. size(messages[id].len) - 1
         IN /\ completed(TalkExtConnections[id]) <=> got(id) = all
            /\ requestsOf(id) \cap arrived = requestsOf(id) <=> got(id) = all
<1> DEFINE k == size(messages[id].len)
           all == 0 .. k - 1
<1>1. k \in Nat \ {0}
  BY Zenon, Requests
<1>2. \A p : p \in requestsOf(id) <=> \E i \in 1 .. k : p = request(id, i)
  BY Zenon, Requests
<1>3. got(id) \subseteq all
  BY Zenon DEF got
<1>4. completed(TalkExtConnections[id]) <=> Cardinality(got(id)) = k
  BY Zenon DEF completed, connected
<1>5. IsFiniteSet(all) /\ Cardinality(all) = k
  <2>1. 0 \in Int /\ k - 1 \in Int
    BY <1>1
  <2>2. IsFiniteSet(all) /\ Cardinality(all) = IF 0 > k - 1 THEN 0 ELSE (k - 1) - 0 + 1
    BY Zenon, <2>1, FS_Interval
  <2> HIDE DEF all
  <2> QED
    BY <1>1, <2>2
<1>6. \A s \in all : s \in got(id) <=> request(id, s + 1) \in arrived
  BY Zenon DEF got
<1>7. /\ \A i \in 1 .. k : i - 1 \in all /\ (i - 1) + 1 = i
      /\ \A s \in all : s + 1 \in 1 .. k
  BY <1>1
<1> HIDE DEF all, k
<1>8. Cardinality(got(id)) = k <=> got(id) = all
  BY Zenon, <1>3, <1>5, FS_Subset
<1>9. requestsOf(id) \subseteq arrived <=> got(id) = all
  <2>1. ASSUME requestsOf(id) \subseteq arrived PROVE got(id) = all
    BY Zenon, <1>2, <1>3, <1>6, <1>7, <2>1
  <2>2. ASSUME got(id) = all PROVE requestsOf(id) \subseteq arrived
    <3>1. \A i \in 1 .. k : request(id, i) \in arrived
      BY Zenon, <1>6, <1>7, <2>2
    <3> QED
      BY Zenon, <1>2, <3>1
  <2> QED
    BY Zenon, <2>1, <2>2
<1> QED
  BY Zenon, <1>4, <1>8, <1>9 DEF all, k

(* What a connection has is the message if and only if all have arrived.   *)
LEMMA JoinedIsMessage ==
  ASSUME TalkInv, NEW id \in DOMAIN messages, connected(id)
  PROVE  isMessage(constructResponse(TalkExtConnections[id]), messages[id]) <=>
           got(id) = 0 .. size(messages[id].len) - 1
<1> DEFINE msg == messages[id]
           k == size(msg.len)
           all == 0 .. k - 1
           conn == TalkExtConnections[id]
           cs == [j \in 1 .. k |-> IF j - 1 \in got(id) THEN chunk(msg, j - 1) ELSE noBytes]
           bytes == constructResponse(conn)
           X == {chunk(msg, i) : i \in all} \cup {noBytes}
<1>1. k \in Nat \ {0} /\ msg.len \in Nat \ {0}
  BY Zenon, Requests
<1>2. /\ \A i \in all : /\ chunk(msg, i).of = msg.of /\ chunk(msg, i).left = i * step
                        /\ chunk(msg, i).left < chunk(msg, i).right
      /\ \A i \in 0 .. k - 2 : /\ chunk(msg, i).right = (i + 1) * step
                               /\ (i + 1) * step < msg.len
      /\ chunk(msg, k - 1).right = msg.len
  BY Zenon, <1>1, Chunks
<1>3. got(id) \subseteq all
  BY Zenon DEF got
<1>4. bytes = combinePackets(cs)
  <2>1. conn.LastSeqNum = k /\ DOMAIN conn.Packets = got(id)
    BY Zenon DEF connected
  <2>2. ASSUME NEW s \in got(id) PROVE conn.Packets[s].Packet = chunk(msg, s)
    <3>1. conn.Packets[s] = packetOf(id, s + 1)
      BY Zenon DEF connected
    <3>2. packetOf(id, s + 1).Packet = chunk(msg, (s + 1) - 1)
      BY Zenon, Fields
    <3>3. (s + 1) - 1 = s
      BY <1>1, <1>3
    <3> QED
      BY Zenon, <3>1, <3>2, <3>3
  <2>3. [j \in 1 .. conn.LastSeqNum |->
           IF j - 1 \in DOMAIN conn.Packets THEN conn.Packets[j - 1].Packet ELSE noBytes] = cs
    BY Zenon, <2>1, <2>2
  <2> HIDE DEF cs, conn
  <2> QED
    BY Zenon, <2>3 DEF constructResponse, conn
<1>5. \A j \in 1 .. k : j - 1 \in all /\ (j < k => j - 1 \in 0 .. k - 2) /\ (j - 1) + 1 = j
  BY <1>1
<1>6. /\ DOMAIN cs = 1 .. k
      /\ \A j \in 1 .. k : cs[j] = IF j - 1 \in got(id) THEN chunk(msg, j - 1) ELSE noBytes
  BY Zenon
<1>7. cs \in Seq(X) /\ Len(cs) = k
  <2> HIDE DEF cs
  <2>1. \A j \in 1 .. k : cs[j] \in X
    BY Zenon, <1>5, <1>6
  <2>2. cs = [j \in 1 .. k |-> cs[j]]
    BY Zenon DEF cs
  <2> HIDE DEF X
  <2> QED
    BY <1>1, <2>1, <2>2
<1> HIDE DEF cs, X, k, bytes, msg
<1>8. ~(noBytes.left < noBytes.right)
  BY DEF noBytes
<1>9. /\ bytes \in Seq(X)
      /\ \A b \in 1 .. Len(bytes) : \E j \in 1 .. k : bytes[b] = cs[j] /\ cs[j].left < cs[j].right
      /\ (\A j \in 1 .. k : cs[j].left < cs[j].right) => bytes = cs
  BY Zenon, <1>4, <1>7, CombinedPackets
<1>10. ASSUME NEW b \in 1 .. Len(bytes)
       PROVE  \E i \in got(id) : bytes[b] = chunk(msg, i)
  BY ZenonT(30), <1>6, <1>8, <1>9
<1>11. ASSUME NEW i \in all, NEW j \in all, i * step = j * step PROVE i = j
  BY <1>1, <1>11 DEF step
<1>12. ASSUME got(id) = all PROVE isMessage(bytes, msg)
  <2>1. \A j \in 1 .. k : cs[j] = chunk(msg, j - 1)
    BY Zenon, <1>5, <1>6, <1>12
  <2>2. bytes = cs
    BY Zenon, <1>2, <1>5, <1>9, <2>1
  <2>3. bytes # <<>> /\ DOMAIN bytes = 1 .. k /\ 1 \in 1 .. k /\ k \in 1 .. k
    BY <1>1, <1>6, <1>7, <2>2
  <2>4. ASSUME NEW b \in 1 .. k PROVE bytes[b].of = msg.of
    <3>1. bytes[b] = chunk(msg, b - 1) /\ b - 1 \in all
      BY Zenon, <1>5, <2>1, <2>2
    <3>2. chunk(msg, b - 1).of = msg.of
      BY Zenon, <1>2, <3>1
    <3> QED
      BY Zenon, <3>1, <3>2
  <2>5. bytes[1].left = 0
    <3>1. bytes[1].left = (1 - 1) * step
      BY Zenon, <1>2, <1>5, <2>1, <2>2, <2>3
    <3> QED
      BY <3>1 DEF step
  <2>6. ASSUME NEW b \in 1 .. Len(bytes) - 1 PROVE bytes[b + 1].left = bytes[b].right
    <3>1. b \in 1 .. k /\ b < k /\ b + 1 \in 1 .. k /\ (b + 1) - 1 = b
      BY <1>1, <1>7, <2>2
    <3>2. bytes[b] = chunk(msg, b - 1) /\ bytes[b + 1] = chunk(msg, b)
      BY Zenon, <2>1, <2>2, <3>1
    <3>3. bytes[b].right = b * step
      BY Zenon, <1>2, <1>5, <3>1, <3>2
    <3>4. bytes[b + 1].left = b * step
      BY Zenon, <1>2, <1>5, <3>1, <3>2
    <3> QED
      BY Zenon, <3>3, <3>4
  <2>7. bytes[Len(bytes)].right = msg.len
    BY Zenon, <1>2, <1>7, <2>1, <2>2, <2>3
  <2> QED
    BY Zenon, <2>3, <2>4, <2>5, <2>6, <2>7 DEF isMessage
<1>13. ASSUME isMessage(bytes, msg) PROVE got(id) = all
  <2> DEFINE S == {b \in 0 .. k : b = 0 \/ (b <= Len(bytes) /\ bytes[b] = chunk(msg, b - 1)
                                                           /\ b - 1 \in got(id))}
  <2>1. /\ bytes # <<>> /\ bytes[1].left = 0
        /\ \A b \in 1 .. Len(bytes) - 1 : bytes[b + 1].left = bytes[b].right
        /\ bytes[Len(bytes)].right = msg.len
    BY Zenon, <1>13 DEF isMessage
  <2>2. Len(bytes) \in Nat /\ Len(bytes) > 0
    BY <1>9, <2>1
  <2>3. 0 \in S
    BY <1>1
  <2>4. ASSUME NEW b \in 1 .. k, b - 1 \in S PROVE b \in S
    <3>1. b <= Len(bytes) /\ bytes[b].left = (b - 1) * step
      <4>1. CASE b = 1
        <5>1. (1 - 1) * step = 0 /\ 1 <= Len(bytes)
          BY <2>2 DEF step
        <5> QED
          BY Zenon, <2>1, <4>1, <5>1
      <4>2. CASE b # 1
        <5>1. b - 1 # 0 /\ b - 1 \in 1 .. k /\ b - 1 < k /\ (b - 1) + 1 = b
          BY <1>1, <4>2
        <5>2. b - 1 <= Len(bytes) /\ bytes[b - 1] = chunk(msg, (b - 1) - 1)
          BY Zenon, <2>4, <5>1
        <5>3. bytes[b - 1].right = (b - 1) * step /\ (b - 1) * step < msg.len
          BY Zenon, <1>2, <1>5, <5>1, <5>2
        <5>4. (b - 1) * step # msg.len
          BY <1>1, <5>1, <5>3 DEF step
        <5>5. b - 1 # Len(bytes)
          BY Zenon, <2>1, <5>3, <5>4
        <5>6. b <= Len(bytes) /\ b - 1 \in 1 .. Len(bytes) - 1
          BY <1>1, <2>2, <5>1, <5>2, <5>5
        <5> QED
          BY Zenon, <2>1, <5>1, <5>3, <5>6
      <4> QED
        BY Zenon, <4>1, <4>2
    <3>2. b \in 1 .. Len(bytes) /\ b \in 0 .. k
      BY <1>1, <2>2, <3>1
    <3>3. PICK i \in got(id) : bytes[b] = chunk(msg, i)
      BY Zenon, <1>10, <3>2
    <3>4. i * step = (b - 1) * step
      BY Zenon, <1>2, <1>3, <3>1, <3>3
    <3>5. i = b - 1
      BY Zenon, <1>3, <1>5, <1>11, <3>4
    <3> QED
      BY Zenon, <3>1, <3>2, <3>3, <3>5
  <2> HIDE DEF S
  <2>5. \A b \in 0 .. k : b \in S
    BY Zenon, <1>1, <2>3, <2>4, Induction
  <2>6. ASSUME NEW i \in all PROVE i \in got(id)
    <3>1. i + 1 \in 0 .. k /\ i + 1 # 0 /\ (i + 1) - 1 = i
      BY <1>1
    <3> QED
      BY Zenon, <2>5, <3>1 DEF S
  <2> QED
    BY Zenon, <1>3, <2>6
<1> QED
  BY Zenon, <1>12, <1>13 DEF bytes, msg, k

(* handleTalkExt, completed and constructResponse work for messages of any *)
(* number and length: the receiver takes a connection for complete exactly *)
(* when all packets have arrived, and it then has the message.             *)
THEOREM CompletedAreWhole == TalkSpec => []CompletedIsWhole
<1>1. ASSUME TalkInv, NEW id \in DOMAIN messages
      PROVE  LET here == requestsOf(id) \cap arrived
             IN IF Len(messages[id].proc) > 1
                  THEN id \notin DOMAIN TalkExtConnections /\ here \subseteq plain
                  ELSE /\ id \in DOMAIN TalkExtConnections <=> here # {}
                       /\ here # {} =>
                            LET conn == TalkExtConnections[id]
                            IN /\ completed(conn) <=> here = requestsOf(id)
                               /\ completed(conn) <=> isMessage(constructResponse(conn), messages[id])
  <2> DEFINE k == size(messages[id].len)
             here == requestsOf(id) \cap arrived
  <2>1. taken(id)
    BY Zenon, <1>1 DEF TalkInv
  <2>2. here # {} <=> got(id) # {}
    <3>1. \A p : p \in requestsOf(id) <=> \E i \in 1 .. k : p = request(id, i)
      BY Zenon, <1>1, Requests
    <3>2. k \in Nat \ {0}
      BY Zenon, <1>1, Requests
    <3>3. /\ \A i \in 1 .. k : i - 1 \in 0 .. k - 1 /\ (i - 1) + 1 = i
          /\ \A s \in 0 .. k - 1 : s + 1 \in 1 .. k
      BY <3>2
    <3>4. ASSUME NEW p \in here PROVE got(id) # {}
      <4>1. PICK i \in 1 .. k : p = request(id, i)
        BY Zenon, <3>1
      <4>2. i - 1 \in got(id)
        BY Zenon, <3>3, <3>4, <4>1 DEF got
      <4> QED
        BY Zenon, <4>2
    <3>5. ASSUME NEW s \in got(id) PROVE here # {}
      <4>1. s \in 0 .. k - 1 /\ request(id, s + 1) \in arrived
        BY Zenon DEF got
      <4>2. request(id, s + 1) \in here
        BY Zenon, <3>1, <3>3, <4>1
      <4> QED
        BY Zenon, <4>2
    <3> QED
      BY Zenon, <3>4, <3>5
  <2>3. CASE Len(messages[id].proc) > 1
    BY Zenon, <2>1, <2>3 DEF taken
  <2>4. CASE ~(Len(messages[id].proc) > 1)
    <3>1. id \in DOMAIN TalkExtConnections <=> here # {}
      BY Zenon, <2>1, <2>2, <2>4 DEF taken
    <3>2. ASSUME here # {}
          PROVE  LET conn == TalkExtConnections[id]
                 IN /\ completed(conn) <=> here = requestsOf(id)
                    /\ completed(conn) <=> isMessage(constructResponse(conn), messages[id])
      <4>1. connected(id)
        BY Zenon, <2>1, <2>2, <2>4, <3>2 DEF taken
      <4> QED
        BY Zenon, <1>1, <4>1, AllArrived, JoinedIsMessage
    <3> QED
      BY Zenon, <2>4, <3>1, <3>2
  <2> QED
    BY Zenon, <2>3, <2>4
<1>2. TalkInv => CompletedIsWhole
  BY Zenon, <1>1 DEF CompletedIsWhole
<1> QED
  BY <1>2, TalkInvariance, PTL
====
