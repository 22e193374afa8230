--------------------------- MODULE UDPv4Replies ---------------------------
(***************************************************************************)
(* Requests and replies of the v4 transport (pkg/discover/v4_udp.go): the  *)
(* goroutines that make a request and wait for its reply matcher, UDPv4.   *)
(* loop, which owns the list of matchers and one timer for all of them,    *)
(* readLoop with the handlers it calls, and Close.                         *)
(*                                                                         *)
(* A request is its matcher.  A pong or an ENR response names the request  *)
(* whose hash it echoes; a neighbors packet names none and brings a number *)
(* of nodes.  Deadlines are set in the order of the list, so that of two   *)
(* matchers in it the first one's passes first.  Go's clock is monotonic,  *)
(* so that resetTimeout never finds a deadline too far ahead.              *)
(***************************************************************************)
EXTENDS Integers, Sequences, FiniteSets

CONSTANTS
  Node,
  Request,
  NodeOf,           \* the node a request goes to
  KindOf,           \* "ping", "enr" or "findnode"
  PingBack,         \* the pings that handlePing makes; nobody awaits them
  NoRequest,
  Known,            \* nodes whose pong an earlier run left in the database
  bucketSize,       \* nodes that complete a findnode
  MaxPackets,       \* bound: packets the reader reads
  MayClose

(* Packets that readLoop passes to loop: the request a pong or an ENR      *)
(* response echoes, or NoRequest when it echoes anything else; the nodes   *)
(* of a neighbors packet.                                                  *)
Reply ==
  [from : Node, kind : {"pong"}, tok : {c \in Request : KindOf[c] = "ping"} \cup {NoRequest}]
    \cup [from : Node, kind : {"enrResponse"},
          tok : {c \in Request : KindOf[c] = "enr"} \cup {NoRequest}]
    \cup [from : Node, kind : {"neighbors"}, count : 0 .. bucketSize]

ASSUME RepliesAssumption ==
  /\ NodeOf \in [Request -> Node]
  /\ KindOf \in [Request -> {"ping", "enr", "findnode"}]
  /\ PingBack \subseteq {c \in Request : KindOf[c] = "ping"}
  /\ NoRequest \notin Request
  /\ Known \subseteq Node
  /\ bucketSize \in Nat \ {0} /\ MaxPackets \in Nat /\ MayClose \in BOOLEAN

(* The kind of packet a matcher waits for.                                 *)
ptype(c) ==
  CASE KindOf[c] = "ping" -> "pong"
    [] KindOf[c] = "enr" -> "enrResponse"
    [] OTHER -> "neighbors"

VARIABLES
  pc,               \* a requester: "idle", "adding", "waiting", "returned"
  errc,             \* what is in the channel of a matcher
  nreceived,        \* neighbors a findnode has received
  replied,          \* matchers with a reply
  plist,            \* loop's list of matchers
  expired,          \* matchers whose deadline has passed
  nextTimeout,      \* the matcher the timer was last set for
  timer,            \* the matcher whose deadline the running timer awaits
  ticked,           \* timeout.C, a time as the matchers expired by then
  rpc,              \* readLoop: "reading", at a select "adding" or
                    \* "replying", having the "verdict", or "ended"
  packet,           \* the reply it handles, or the ping it adds
  matched,          \* the verdict of loop
  bonded,           \* nodes with a recent pong in the database
  verified,         \* nodes given to addVerifiedNode
  proven,           \* nodes that have sent the hash of a ping to them
  served,           \* nodes whose findnode has been answered
  closed,           \* closeCtx is done
  lpc,              \* loop: "loop" or "returned"
  packets           \* packets read so far

requestVars == <<pc, errc, nreceived, replied>>
timerVars == <<nextTimeout, timer, ticked>>
readVars == <<rpc, packet, matched, packets>>
bondVars == <<bonded, verified, proven, served>>
vars == <<requestVars, plist, expired, timerVars, readVars, bondVars, closed, lpc>>

Init ==
  /\ pc = [c \in Request |-> "idle"] /\ errc = [c \in Request |-> "empty"]
  /\ nreceived = [c \in Request |-> 0] /\ replied = {}
  /\ plist = <<>> /\ expired = {}
  /\ nextTimeout = NoRequest /\ timer = NoRequest /\ ticked = <<>>
  /\ rpc = "reading" /\ packet = NoRequest /\ matched = FALSE /\ packets = 0
  /\ bonded = Known /\ verified = {} /\ proven = Known /\ served = {}
  /\ closed = FALSE /\ lpc = "loop"

---------------------------------------------------------------------------
(* Requesters: ping, findnode, RequestENR *)

request(c) ==
  /\ c \notin PingBack /\ pc[c] = "idle"
  /\ pc' = [pc EXCEPT ![c] = "adding"]
  /\ UNCHANGED <<errc, nreceived, replied, plist, expired, timerVars, readVars,
                 bondVars, closed, lpc>>

(* pending, after Close.                                                   *)
pendingClosed(c) ==
  /\ pc[c] = "adding" /\ closed
  /\ pc' = [pc EXCEPT ![c] = "waiting"] /\ errc' = [errc EXCEPT ![c] = "closed"]
  /\ IF packet = c THEN rpc' = "reading" /\ packet' = NoRequest
                   ELSE UNCHANGED <<rpc, packet>>
  /\ UNCHANGED <<nreceived, replied, plist, expired, timerVars, matched, packets,
                 bondVars, closed, lpc>>

(* A findnode that has a reply returns what it got when it times out.      *)
receive(c) ==
  /\ c \notin PingBack /\ pc[c] = "waiting" /\ errc[c] # "empty"
  /\ pc' = [pc EXCEPT ![c] = "returned"]
  /\ errc' = IF KindOf[c] = "findnode" /\ errc[c] = "timeout" /\ c \in replied
              THEN [errc EXCEPT ![c] = "nil"] ELSE errc
  /\ UNCHANGED <<nreceived, replied, plist, expired, timerVars, readVars,
                 bondVars, closed, lpc>>

---------------------------------------------------------------------------
(* The timer *)

inList(c) == \E i \in 1 .. Len(plist) : plist[i] = c

deadlinePasses(c) ==
  /\ c \notin expired
  /\ \/ \E i \in 1 .. Len(plist) :
          plist[i] = c /\ \A j \in 1 .. i - 1 : plist[j] \in expired
     \/ timer = c /\ ~inList(c)
  /\ expired' = expired \cup {c}
  /\ UNCHANGED <<requestVars, plist, timerVars, readVars, bondVars, closed, lpc>>

(* A time that nobody has taken from the channel yet stays there.          *)
timerFires ==
  /\ timer \in expired
  /\ ticked' = IF ticked = <<>> THEN <<expired>> ELSE ticked
  /\ timer' = NoRequest
  /\ UNCHANGED <<requestVars, plist, expired, nextTimeout, readVars, bondVars,
                 closed, lpc>>

(* resetTimeout, with which every turn of the loop begins, after a turn    *)
(* that left this list and this nextTimeout.                               *)
resetTimeout(list, next) ==
  IF list = <<>> \/ (list # <<>> /\ next = list[1])
    THEN nextTimeout' = next /\ UNCHANGED timer
    ELSE nextTimeout' = list[1] /\ timer' = list[1]

---------------------------------------------------------------------------
(* loop *)

removeAt(list, k) ==
  [j \in 1 .. Len(list) - 1 |-> IF j < k THEN list[j] ELSE list[j + 1]]

first(S) == CHOOSE i \in S : \A j \in S : i <= j

(* The matcher comes from a requester, or from readLoop in handlePing.     *)
addReplyMatcher(c) ==
  /\ lpc = "loop" /\ pc[c] = "adding"
  /\ pc' = [pc EXCEPT ![c] = "waiting"]
  /\ plist' = Append(plist, c)
  /\ resetTimeout(plist', nextTimeout)
  /\ IF packet = c THEN rpc' = "reading" /\ packet' = NoRequest
                   ELSE UNCHANGED <<rpc, packet>>
  /\ UNCHANGED <<errc, nreceived, replied, expired, ticked, matched, packets,
                 bondVars, closed, lpc>>

(* The callbacks: is the reply acceptable, is the request done?            *)
acceptable(c, r) == KindOf[c] = "findnode" \/ r.tok = c

done(c, r) ==
  IF KindOf[c] = "findnode" THEN nreceived[c] + r.count >= bucketSize ELSE r.tok = c

(* The errc of the matcher gets a value and the matcher leaves the list.   *)
finish(k, err) ==
  /\ errc' = [errc EXCEPT ![plist[k]] = err]
  /\ plist' = removeAt(plist, k)

(* list.Remove clears the links of the element, so that el.Next() is nil   *)
(* and the matchers after the first that is done do not see the reply.     *)
gotReply ==
  LET hits == {i \in 1 .. Len(plist) : /\ NodeOf[plist[i]] = packet.from
                                       /\ ptype(plist[i]) = packet.kind}
      completed == {i \in hits : done(plist[i], packet)}
      called == {i \in hits : \A k \in completed : i <= k}
  IN /\ lpc = "loop" /\ rpc = "replying"
     /\ rpc' = "verdict"
     /\ matched' = \E i \in called : acceptable(plist[i], packet)
     /\ replied' = replied \cup {plist[i] : i \in called}
     /\ nreceived' = [c \in Request |->
          IF KindOf[c] = "findnode" /\ \E i \in called : plist[i] = c
            THEN nreceived[c] + packet.count ELSE nreceived[c]]
     /\ IF completed = {}
          THEN UNCHANGED <<errc, plist, verified>>
          ELSE /\ finish(first(completed), "nil")
               /\ verified' = IF plist[first(completed)] \in PingBack
                               THEN verified \cup {packet.from} ELSE verified
     /\ resetTimeout(plist', nextTimeout)
     /\ UNCHANGED <<pc, expired, ticked, packet, packets, bonded, proven, served,
                    closed, lpc>>

(* Mutant: the head of the list is given up whatever its deadline.         *)
timeoutHead ==
  /\ lpc = "loop" /\ ticked # <<>>
  /\ ticked' = <<>>
  /\ IF plist = <<>> THEN UNCHANGED <<errc, plist>> ELSE finish(1, "timeout")
  /\ resetTimeout(plist', NoRequest)
  /\ UNCHANGED <<pc, nreceived, replied, expired, readVars, bondVars, closed, lpc>>

(* Mutant: nextTimeout is not cleared, and resetTimeout leaves the timer.  *)
timeoutNotCleared ==
  LET late == {i \in 1 .. Len(plist) : plist[i] \in ticked[1]}
  IN /\ lpc = "loop" /\ ticked # <<>>
     /\ ticked' = <<>>
     /\ IF late = {} THEN UNCHANGED <<errc, plist>> ELSE finish(first(late), "timeout")
     /\ resetTimeout(plist', nextTimeout)
     /\ UNCHANGED <<pc, nreceived, replied, expired, readVars, bondVars, closed, lpc>>

(* Of the matchers whose deadline has passed one is removed, for the same  *)
(* reason; resetTimeout sets the timer for the next at once.               *)
timeout ==
  LET late == {i \in 1 .. Len(plist) : plist[i] \in ticked[1]}
  IN /\ lpc = "loop" /\ ticked # <<>>
     /\ ticked' = <<>>
     /\ IF late = {} THEN UNCHANGED <<errc, plist>> ELSE finish(first(late), "timeout")
     /\ resetTimeout(plist', NoRequest)
     /\ UNCHANGED <<pc, nreceived, replied, expired, readVars, bondVars, closed, lpc>>

loopClosed ==
  /\ lpc = "loop" /\ closed
  /\ errc' = [c \in Request |-> IF inList(c) THEN "closed" ELSE errc[c]]
  /\ plist' = <<>> /\ lpc' = "returned"
  /\ UNCHANGED <<pc, nreceived, replied, expired, timerVars, readVars, bondVars,
                 closed>>

---------------------------------------------------------------------------
(* readLoop *)

(* A pong, an ENR response or a neighbors packet; only requests that have  *)
(* been made can be echoed.                                                *)
readReply(r) ==
  /\ rpc = "reading" /\ packets < MaxPackets
  /\ r.kind # "neighbors" /\ r.tok # NoRequest => pc[r.tok] \in {"waiting", "returned"}
  /\ rpc' = "replying" /\ packet' = r /\ packets' = packets + 1
  /\ proven' = IF r.kind = "pong" /\ r.tok # NoRequest
                   /\ KindOf[r.tok] = "ping" /\ NodeOf[r.tok] = r.from
                 THEN proven \cup {r.from} ELSE proven
  /\ UNCHANGED <<requestVars, plist, expired, timerVars, matched, bonded, verified,
                 served, closed, lpc>>

(* Mutant: handleReply waits for loop alone.                               *)
replyClosedNot ==
  /\ rpc = "replying" /\ closed /\ lpc = "loop"
  /\ rpc' = "reading" /\ packet' = NoRequest
  /\ UNCHANGED <<requestVars, plist, expired, timerVars, matched, packets, bondVars,
                 closed, lpc>>

(* handleReply, after Close.                                               *)
replyClosed ==
  /\ rpc = "replying" /\ closed
  /\ rpc' = "reading" /\ packet' = NoRequest
  /\ UNCHANGED <<requestVars, plist, expired, timerVars, matched, packets, bondVars,
                 closed, lpc>>

(* The rest of verifyPong, verifyNeighbors and verifyENRResponse.          *)
verdict ==
  /\ rpc = "verdict"
  /\ rpc' = "reading" /\ packet' = NoRequest /\ matched' = FALSE
  /\ bonded' = IF matched /\ packet.kind = "pong"
                 THEN bonded \cup {packet.from} ELSE bonded
  /\ UNCHANGED <<requestVars, plist, expired, timerVars, packets, verified, proven,
                 served, closed, lpc>>

(* handlePing answers; a node without a recent pong is pinged back.        *)
handlePing(n) ==
  /\ rpc = "reading" /\ packets < MaxPackets
  /\ packets' = packets + 1
  /\ \/ /\ n \in bonded
        /\ verified' = verified \cup {n}
        /\ UNCHANGED <<pc, rpc, packet>>
     \/ /\ n \notin bonded
        /\ \E c \in PingBack :
             /\ NodeOf[c] = n /\ pc[c] = "idle"
             /\ pc' = [pc EXCEPT ![c] = "adding"]
             /\ rpc' = "adding" /\ packet' = c
        /\ UNCHANGED verified
  /\ UNCHANGED <<errc, nreceived, replied, plist, expired, timerVars, matched,
                 bonded, proven, served, closed, lpc>>

(* Mutant: the endpoint proof is not asked for.                            *)
handleFindnodeAny(n) ==
  /\ rpc = "reading" /\ packets < MaxPackets
  /\ packets' = packets + 1 /\ served' = served \cup {n}
  /\ UNCHANGED <<requestVars, plist, expired, timerVars, rpc, packet, matched,
                 bonded, verified, proven, closed, lpc>>

(* handleFindnode and handleENRRequest answer nodes with a recent pong.    *)
handleFindnode(n) ==
  /\ rpc = "reading" /\ packets < MaxPackets
  /\ n \in bonded
  /\ packets' = packets + 1 /\ served' = served \cup {n}
  /\ UNCHANGED <<requestVars, plist, expired, timerVars, rpc, packet, matched,
                 bonded, verified, proven, closed, lpc>>

(* A permanent read error: Close, or any other.                            *)
readEnds ==
  /\ rpc = "reading"
  /\ rpc' = "ended"
  /\ UNCHANGED <<requestVars, plist, expired, timerVars, packet, matched, packets,
                 bondVars, closed, lpc>>

(* bondExpiration passes.                                                  *)
bondExpires(n) ==
  /\ n \in bonded
  /\ bonded' = bonded \ {n}
  /\ UNCHANGED <<requestVars, plist, expired, timerVars, readVars, verified, proven,
                 served, closed, lpc>>

Close ==
  /\ MayClose /\ ~closed
  /\ closed' = TRUE
  /\ UNCHANGED <<requestVars, plist, expired, timerVars, readVars, bondVars, lpc>>

---------------------------------------------------------------------------
RequestStep ==
  \E c \in Request : request(c) \/ pendingClosed(c) \/ receive(c)

TimerStep == timerFires \/ \E c \in Request : deadlinePasses(c)

LoopStep ==
  gotReply \/ timeout \/ loopClosed \/ \E c \in Request : addReplyMatcher(c)

ReadStep ==
  \/ \E r \in Reply : readReply(r)
  \/ \E n \in Node : handlePing(n) \/ handleFindnode(n) \/ bondExpires(n)
  \/ replyClosed \/ verdict \/ readEnds

Next == RequestStep \/ TimerStep \/ LoopStep \/ ReadStep \/ Close

Spec == Init /\ [][Next]_vars

(* Every goroutine that can go on does, time passes, and no case of loop's *)
(* select that stays ready is passed over for ever.                        *)
Fairness ==
  /\ \A c \in Request : /\ WF_vars(pendingClosed(c)) /\ WF_vars(receive(c))
                        /\ WF_vars(deadlinePasses(c)) /\ WF_vars(addReplyMatcher(c))
  /\ WF_vars(timerFires)
  /\ WF_vars(gotReply) /\ WF_vars(timeout) /\ WF_vars(loopClosed)
  /\ WF_vars(replyClosed) /\ WF_vars(verdict) /\ WF_vars(closed /\ readEnds)

FairSpec == Spec /\ Fairness

---------------------------------------------------------------------------
(* Properties *)

TypeOK ==
  /\ pc \in [Request -> {"idle", "adding", "waiting", "returned"}]
  /\ errc \in [Request -> {"empty", "nil", "timeout", "closed"}]
  /\ nreceived \in [Request -> Nat] /\ replied \subseteq Request
  /\ plist \in Seq(Request) /\ expired \subseteq Request
  /\ nextTimeout \in Request \cup {NoRequest} /\ timer \in Request \cup {NoRequest}
  /\ ticked \in Seq(SUBSET Request) /\ Len(ticked) <= 1
  /\ rpc \in {"reading", "adding", "replying", "verdict", "ended"}
  /\ packet \in Reply \cup Request \cup {NoRequest}
  /\ matched \in BOOLEAN /\ packets \in 0 .. MaxPackets
  /\ bonded \subseteq Node /\ verified \subseteq Node /\ proven \subseteq Node
  /\ served \subseteq Node
  /\ closed \in BOOLEAN /\ lpc \in {"loop", "returned"}

(* loop never blocks on errc, which has room for one value: a matcher is   *)
(* in the list once, and until it leaves it nothing has been sent.         *)
MatchersCanBeAnswered ==
  /\ \A i \in 1 .. Len(plist) : errc[plist[i]] = "empty"
  /\ \A i, j \in 1 .. Len(plist) : plist[i] = plist[j] => i = j

(* A requester that waits has its matcher in the list or a value to read,  *)
(* although a reply, a timeout and Close may each take it from the list.   *)
NoRequestLost ==
  \A c \in Request : pc[c] = "waiting" /\ errc[c] = "empty" => inList(c)

(* Whenever loop waits, the timer runs for the head of the list or a tick  *)
(* is in its channel, a stale one perhaps: no deadline is slept through.   *)
TimerRunsForHead ==
  lpc = "loop" /\ plist # <<>> => timer = plist[1] \/ ticked # <<>>

(* No request is given up before its deadline, not even by a tick that     *)
(* was meant for a matcher that is gone, and no findnode returns before it *)
(* with fewer nodes than it waits for.                                     *)
NoEarlyTimeout ==
  \A c \in Request :
    \/ errc[c] = "timeout"
    \/ errc[c] = "nil" /\ KindOf[c] = "findnode" /\ nreceived[c] < bucketSize
    => c \in expired

(* Endpoint proof: only a node that has echoed the hash of a ping sent to  *)
(* it, in this run or in the one that wrote the database, counts as        *)
(* bonded, gets into the table as verified, or has its findnode answered.  *)
EndpointProof == bonded \cup verified \cup served \subseteq proven

(* Every request returns: with its reply, a timeout, or errClosed.         *)
EveryRequestReturns ==
  \A c \in Request \ PingBack : pc[c] = "adding" ~> pc[c] = "returned"

(* Close returns: both goroutines it waits for end.                        *)
CloseReturns == closed ~> lpc = "returned" /\ rpc = "ended"
===========================================================================
