------------------------------ MODULE TalkExt -----------------------------
(***************************************************************************)
(* The talk extension (talk_ext.go): a message too long for one TALK       *)
(* request is cut into packets of 500 bytes, each sent as a request of its *)
(* own; the receiver keeps the packets of a connection until all of them   *)
(* have arrived.  UDP loses, repeats and reorders the requests.            *)
(*                                                                         *)
(* A message is [of, len, proc], whose it is, its length and its protocol; *)
(* a chunk of it [of, left, right].  Packets travel as JSON, which keeps   *)
(* their fields.  The parts of a protocol name between dashes are a        *)
(* sequence, and md5 has no collisions.                                    *)
(***************************************************************************)
EXTENDS Integers, Sequences, FiniteSetsExt

CONSTANTS
  Length,                 \* of messages
  Protocol,               \* names of protocols
  MaxMessages             \* bound: messages sent

ASSUME TalkAssumption ==
  /\ Length \subseteq Nat \ {0}
  /\ Protocol \subseteq Seq(STRING) \ {<<>>}

VARIABLES
  messages,               \* that were sent, by the number of the connection
  TalkExtConnections,     \* of the receiver
  plain,                  \* requests it passed on to handleTalkRequest
  arrived                 \* history: the requests that have arrived

talkVars == <<messages, TalkExtConnections, plain, arrived>>

TalkInit ==
  /\ messages = <<>>
  /\ TalkExtConnections = <<>>
  /\ plain = {}
  /\ arrived = {}

---------------------------------------------------------------------------
(* Cutting and joining *)

step == 500

(* Mutant: the bytes that do not fill a packet are left out.               *)
sizeFloor(n) == n \div step

size(n) == IF (n \div step) * step < n THEN n \div step + 1 ELSE n \div step

chunk(msg, i) ==
  [of |-> msg.of, left |-> i * step,
   right |-> IF msg.len < (i + 1) * step THEN msg.len ELSE (i + 1) * step]

splitMessage(id, msg) ==
  [i \in 1 .. size(msg.len) |->
     [Id |-> id, SeqNum |-> i - 1, LastSeqNum |-> size(msg.len), Packet |-> chunk(msg, i - 1)]]

(* A packet that is missing from the map is the zero packet, of no bytes.  *)
noBytes == [of |-> "none", left |-> 0, right |-> 0]

combinePackets(chunks) ==
  LET out[i \in 0 .. Len(chunks)] ==
        IF i = 0 THEN <<>>
        ELSE IF chunks[i].left < chunks[i].right THEN Append(out[i - 1], chunks[i])
        ELSE out[i - 1]
  IN out[Len(chunks)]

constructResponse(conn) ==
  combinePackets([k \in 1 .. conn.LastSeqNum |->
                    IF k - 1 \in DOMAIN conn.Packets THEN conn.Packets[k - 1].Packet ELSE noBytes])

completed(conn) == Cardinality(DOMAIN conn.Packets) = conn.LastSeqNum

---------------------------------------------------------------------------
(* Protocol names *)

toTalkExtProtocol(proc) == Append(proc, [md5 |-> proc])

isTalkExtProtocol(proc) == toTalkExtProtocol(<<proc[1]>>) = proc

---------------------------------------------------------------------------
(* The two sides *)

(* The packets of a message, each in a request of its own.                 *)
requestsOf(id) ==
  LET msg == messages[id]
  IN {[Protocol |-> toTalkExtProtocol(msg.proc), Message |-> packet] :
        packet \in Range(splitMessage(id, msg))}

(* A requester, which sends all packets of a message, on its own.  The     *)
(* TalkRequestExt of this program waits for a TALK response after each     *)
(* packet; handleTalkExt sends none, and so it ends with log.Fatal after   *)
(* the first.                                                              *)
newMessage(proc, n) ==
  /\ Len(messages) < MaxMessages
  /\ messages' = Append(messages, [of |-> Len(messages) + 1, len |-> n, proc |-> proc])
  /\ UNCHANGED <<TalkExtConnections, plain, arrived>>

(* The connection packet belongs to, or a new one, with packet in it.      *)
withPacket(packet) ==
  LET isNew == packet.Id \notin DOMAIN TalkExtConnections
      last == IF isNew THEN packet.LastSeqNum ELSE TalkExtConnections[packet.Id].LastSeqNum
      old == IF isNew THEN <<>> ELSE TalkExtConnections[packet.Id].Packets
  IN [LastSeqNum |-> last,
      Packets |-> [s \in DOMAIN old \cup {packet.SeqNum} |->
                     IF s = packet.SeqNum THEN packet ELSE old[s]]]

(* UDP delivers a request of any message at any time, again or never.      *)
handleTalkExt(p) ==
  /\ IF isTalkExtProtocol(p.Protocol)
       THEN /\ TalkExtConnections' =
                 [id \in DOMAIN TalkExtConnections \cup {p.Message.Id} |->
                    IF id = p.Message.Id THEN withPacket(p.Message) ELSE TalkExtConnections[id]]
            /\ UNCHANGED plain
       ELSE plain' = plain \cup {p} /\ UNCHANGED TalkExtConnections
  /\ arrived' = arrived \cup {p}
  /\ UNCHANGED messages

TalkNext ==
  \/ \E proc \in Protocol, n \in Length : newMessage(proc, n)
  \/ \E id \in DOMAIN messages : \E p \in requestsOf(id) : handleTalkExt(p)

TalkSpec == TalkInit /\ [][TalkNext]_talkVars

---------------------------------------------------------------------------
(* Properties *)

(* Joined chunks are the message if they are all its bytes, in order.      *)
isMessage(bytes, msg) ==
  /\ bytes # <<>>
  /\ \A k \in DOMAIN bytes : bytes[k].of = msg.of
  /\ bytes[1].left = 0
  /\ \A k \in 1 .. Len(bytes) - 1 : bytes[k + 1].left = bytes[k].right
  /\ bytes[Len(bytes)].right = msg.len

(* Whatever packets of several messages arrive, in whatever order and      *)
(* however often, the receiver takes a connection for complete exactly     *)
(* when every packet of it has arrived, and what it then has is the        *)
(* message; unless the name of the protocol has a dash, when no packet is  *)
(* taken at all and each is handled as a plain talk request.               *)
CompletedIsWhole ==
  \A id \in DOMAIN messages :
    LET here == requestsOf(id) \cap arrived
    IN IF Len(messages[id].proc) > 1
         THEN id \notin DOMAIN TalkExtConnections /\ here \subseteq plain
         ELSE /\ id \in DOMAIN TalkExtConnections <=> here # {}
              /\ here # {} =>
                   LET conn == TalkExtConnections[id]
                   IN /\ completed(conn) <=> here = requestsOf(id)
                      /\ completed(conn) <=> isMessage(constructResponse(conn), messages[id])
===========================================================================
