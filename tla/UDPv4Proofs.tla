---------------------------- MODULE UDPv4Proofs ----------------------------
(***************************************************************************)
(* Safety of the v4 transport's reply matchers, for any nodes, requests    *)
(* and numbers of packets.                                                 *)
(***************************************************************************)
EXTENDS UDPv4Replies, WellFoundedInduction, TLAPS

(* Matchers in the list are waited for, unanswered and there once; and the *)
(* other way round, who waits is in the list or has its answer.            *)
ListInv ==
  /\ \A i \in 1 .. Len(plist) : pc[plist[i]] = "waiting"
  /\ \A c \in Request : pc[c] \in {"idle", "adding"} => errc[c] = "empty"
  /\ MatchersCanBeAnswered
  /\ NoRequestLost

(* nextTimeout is the head of a list that is not empty, and a matcher that *)
(* is still to be added is not mistaken for it.                            *)
TimerInv ==
  /\ nextTimeout # NoRequest => pc[nextTimeout] \in {"waiting", "returned"}
  /\ lpc = "loop" /\ plist # <<>> => nextTimeout = plist[1]
  /\ ticked # <<>> => ticked[1] \subseteq expired
  /\ TimerRunsForHead

(* The reply that readLoop holds, and what its verdict is worth.           *)
ReplyInv ==
  /\ rpc \in {"replying", "verdict"} => packet \in Reply
  /\ rpc \in {"replying", "verdict"} /\ packet.kind = "pong"
       /\ packet.tok # NoRequest /\ NodeOf[packet.tok] = packet.from
     => packet.from \in proven
  /\ rpc = "verdict" /\ matched /\ packet.kind = "pong" => packet.from \in proven

Inv ==
  TypeOK /\ ListInv /\ TimerInv /\ ReplyInv /\ NoEarlyTimeout /\ EndpointProof

---------------------------------------------------------------------------
(* Helpers *)

(* first picks the least element.                                          *)
LEMMA FirstIsLeast ==
  ASSUME NEW S, S \subseteq Nat, S # {}
  PROVE  first(S) \in S /\ \A j \in S : first(S) <= j
<1>1. PICK x \in S : \A y \in S : ~(<<y, x>> \in OpToRel(<, Nat))
  BY Zenon, NatLessThanWellFounded, WFMin
<1>2. \A y \in S : x <= y
  <2> SUFFICES ASSUME NEW y \in S, y < x PROVE FALSE
    BY SMT
  <2>1. <<y, x>> \in OpToRel(<, Nat)
    BY Zenon DEF OpToRel
  <2> QED
    BY Zenon, <2>1, <1>1
<1> QED
  BY <1>2, Zenon DEF first

(* removeAt takes out one element and keeps the order of the others.       *)
LEMMA RemoveAtList ==
  ASSUME NEW list \in Seq(Request), NEW k \in 1 .. Len(list)
  PROVE  /\ removeAt(list, k) \in Seq(Request)
         /\ Len(removeAt(list, k)) = Len(list) - 1
         /\ \A j \in 1 .. Len(list) - 1 :
              /\ j < k => removeAt(list, k)[j] = list[j]
              /\ j >= k => removeAt(list, k)[j] = list[j + 1]
BY DEF removeAt

(* Without repetitions in the list, r is the list with exactly its element *)
(* at k gone.                                                              *)
Removed(list, k, r) ==
  /\ \A i, j \in 1 .. Len(r) : r[i] = r[j] => i = j
  /\ \A i \in 1 .. Len(r) : /\ r[i] # list[k]
                            /\ \E j \in 1 .. Len(list) : r[i] = list[j]
  /\ \A j \in 1 .. Len(list) : j # k => \E i \in 1 .. Len(r) : r[i] = list[j]
  /\ k # 1 => r # <<>> /\ r[1] = list[1]
  /\ k = 1 /\ r # <<>> => r[1] # list[1]

Distinct(list) == \A i, j \in 1 .. Len(list) : list[i] = list[j] => i = j

(* removeAt does what its name says.                                       *)
LEMMA RemoveAtMembers ==
  ASSUME NEW list \in Seq(Request), NEW k \in 1 .. Len(list), Distinct(list)
  PROVE  Removed(list, k, removeAt(list, k))
<1> DEFINE r == removeAt(list, k)
<1>1. /\ r \in Seq(Request) /\ Len(r) = Len(list) - 1
  BY Zenon, RemoveAtList
<1>2. \A j \in 1 .. Len(list) - 1 :
        /\ j < k => r[j] = list[j]
        /\ j >= k => r[j] = list[j + 1]
  BY Zenon, RemoveAtList
<1> HIDE DEF r
<1> USE DEF Distinct
<1>3. \A i, j \in 1 .. Len(r) : r[i] = r[j] => i = j
  <2> SUFFICES ASSUME NEW i \in 1 .. Len(r), NEW j \in 1 .. Len(r), i < j
               PROVE  r[i] # r[j]
    OBVIOUS
  <2>1. CASE j < k
    <3>1. r[i] = list[i] /\ r[j] = list[j] /\ i \in 1 .. Len(list) /\ j \in 1 .. Len(list)
      BY <2>1, <1>1, <1>2
    <3> QED
      BY <3>1
  <2>2. CASE i >= k
    <3>1. /\ r[i] = list[i + 1] /\ r[j] = list[j + 1]
          /\ i + 1 \in 1 .. Len(list) /\ j + 1 \in 1 .. Len(list) /\ i + 1 # j + 1
      BY <2>2, <1>1, <1>2
    <3> QED
      BY <3>1, Zenon
  <2>3. CASE i < k /\ j >= k
    <3>1. r[i] = list[i] /\ i \in 1 .. Len(list)
      BY SMTT(30), <2>3, <1>1, <1>2
    <3>2. r[j] = list[j + 1] /\ j + 1 \in 1 .. Len(list)
      BY <2>3, <1>1, <1>2
    <3>3. i # j + 1
      BY <2>3
    <3> QED
      BY Zenon, <3>1, <3>2, <3>3
  <2> QED
    BY <2>1, <2>2, <2>3
<1>4. \A i \in 1 .. Len(r) : r[i] # list[k] /\ \E j \in 1 .. Len(list) : r[i] = list[j]
  BY <1>1, <1>2
<1>5. \A j \in 1 .. Len(list) : j # k => \E i \in 1 .. Len(r) : r[i] = list[j]
  <2> SUFFICES ASSUME NEW j \in 1 .. Len(list), j # k
               PROVE  \E i \in 1 .. Len(r) : r[i] = list[j]
    BY Zenon
  <2>1. CASE j < k
    <3>1. j \in 1 .. Len(r) /\ r[j] = list[j]
      BY <2>1, <1>1, <1>2
    <3> QED
      BY Zenon, <3>1
  <2>2. CASE j > k
    <3>1. j - 1 \in 1 .. Len(r) /\ r[j - 1] = list[j]
      BY <2>2, <1>1, <1>2
    <3> QED
      BY <3>1, Zenon
  <2> QED
    BY <2>1, <2>2
<1>6. k # 1 => r # <<>> /\ r[1] = list[1]
  BY <1>1, <1>2
<1>7. k = 1 /\ r # <<>> => r[1] # list[1]
  BY <1>1, <1>4
<1> QED
  BY Zenon, <1>3, <1>4, <1>5, <1>6, <1>7 DEF r, Removed

---------------------------------------------------------------------------
(* The list *)

(* finish answers a matcher and removes it: nobody else is disturbed.      *)
LEMMA FinishList ==
  ASSUME TypeOK, ListInv, NEW k \in 1 .. Len(plist), NEW err \in {"nil", "timeout"},
         finish(k, err), UNCHANGED pc
  PROVE  /\ ListInv'
         /\ plist' \in Seq(Request) /\ errc' \in [Request -> {"empty", "nil", "timeout", "closed"}]
         /\ k # 1 => plist' # <<>> /\ plist'[1] = plist[1]
         /\ k = 1 /\ plist' # <<>> => plist'[1] # plist[1]
<1>1. /\ plist \in Seq(Request) /\ plist[k] \in Request
      /\ errc \in [Request -> {"empty", "nil", "timeout", "closed"}]
      /\ pc \in [Request -> {"idle", "adding", "waiting", "returned"}]
  BY DEF TypeOK
<1>2. plist' = removeAt(plist, k) /\ errc' = [errc EXCEPT ![plist[k]] = err]
  BY Zenon DEF finish
<1>3. plist' \in Seq(Request)
  BY Zenon, <1>1, <1>2, RemoveAtList
<1>4. Removed(plist, k, plist')
  <2>1. Distinct(plist)
    BY Zenon DEF ListInv, MatchersCanBeAnswered, Distinct
  <2>2. Removed(plist, k, removeAt(plist, k))
    BY Zenon, <2>1, <1>1, RemoveAtMembers
  <2> QED
    BY <2>2, <1>2, Zenon
<1>5. \A i \in 1 .. Len(plist') : pc'[plist'[i]] = "waiting" /\ errc'[plist'[i]] = "empty"
  BY <1>1, <1>2, <1>4 DEF Removed, ListInv, MatchersCanBeAnswered
<1>6. \A c \in Request : pc'[c] \in {"idle", "adding"} => errc'[c] = "empty"
  BY Zenon, <1>1, <1>2 DEF ListInv
<1>7. NoRequestLost'
  <2> SUFFICES ASSUME NEW c \in Request, pc'[c] = "waiting", errc'[c] = "empty"
               PROVE  \E i \in 1 .. Len(plist') : plist'[i] = c
    BY Zenon DEF NoRequestLost, inList
  <2>1. c # plist[k] /\ errc[c] = "empty"
    BY Zenon, <1>1, <1>2
  <2>2. PICK j \in 1 .. Len(plist) : plist[j] = c
    BY Zenon, <2>1 DEF ListInv, NoRequestLost, inList
  <2> QED
    BY Zenon, <2>1, <2>2, <1>4 DEF Removed
<1>8. errc' \in [Request -> {"empty", "nil", "timeout", "closed"}]
  BY Zenon, <1>1, <1>2
<1> QED
  BY Zenon, <1>3, <1>4, <1>5, <1>6, <1>7, <1>8 DEF Removed, ListInv, MatchersCanBeAnswered

(* What gotReply and timeout do to the list and to errc.                   *)
LEMMA GotReplyList ==
  ASSUME TypeOK, gotReply
  PROVE  \/ UNCHANGED <<errc, plist, verified>>
         \/ \E k \in 1 .. Len(plist) :
              /\ NodeOf[plist[k]] = packet.from /\ ptype(plist[k]) = packet.kind
              /\ done(plist[k], packet)
              /\ finish(k, "nil")
              /\ verified' = IF plist[k] \in PingBack
                              THEN verified \cup {packet.from} ELSE verified
              /\ KindOf[plist[k]] = "findnode" =>
                   nreceived'[plist[k]] = nreceived[plist[k]] + packet.count
<1> DEFINE hits == {i \in 1 .. Len(plist) : /\ NodeOf[plist[i]] = packet.from
                                            /\ ptype(plist[i]) = packet.kind}
           completed == {i \in hits : done(plist[i], packet)}
           called == {i \in hits : \A k \in completed : i <= k}
           k == first(completed)
<1> SUFFICES ASSUME completed # {}
             PROVE  \E i \in 1 .. Len(plist) :
              /\ NodeOf[plist[i]] = packet.from /\ ptype(plist[i]) = packet.kind
              /\ done(plist[i], packet)
              /\ finish(i, "nil")
              /\ verified' = IF plist[i] \in PingBack
                              THEN verified \cup {packet.from} ELSE verified
              /\ KindOf[plist[i]] = "findnode" =>
                   nreceived'[plist[i]] = nreceived[plist[i]] + packet.count
  BY Zenon DEF gotReply
<1>1. completed \subseteq Nat
  BY DEF TypeOK
<1>2. k \in completed /\ \A j \in completed : k <= j
  BY <1>1, FirstIsLeast, Zenon
<1>3. finish(k, "nil") /\ verified' = IF plist[k] \in PingBack
                              THEN verified \cup {packet.from} ELSE verified
  BY Zenon DEF gotReply
<1>4. nreceived' = [c \in Request |->
          IF KindOf[c] = "findnode" /\ \E i \in called : plist[i] = c
            THEN nreceived[c] + packet.count ELSE nreceived[c]]
  BY Zenon DEF gotReply
<1>5. k \in called /\ k \in 1 .. Len(plist)
  BY <1>2, Zenon
<1>6. plist[k] \in Request
  BY <1>5 DEF TypeOK
<1> HIDE DEF k, called, completed
<1>7. KindOf[plist[k]] = "findnode" => nreceived'[plist[k]] = nreceived[plist[k]] + packet.count
  BY <1>4, <1>5, <1>6, Zenon
<1>8. k \in hits /\ done(plist[k], packet)
  BY Zenon, <1>2 DEF completed
<1> QED
  BY <1>3, <1>5, <1>7, <1>8, Zenon

(* case now := <-timeout: loop gives up one late matcher, or nothing.      *)
LEMMA TimeoutList ==
  ASSUME TypeOK, timeout
  PROVE  \/ UNCHANGED <<errc, plist>>
         \/ \E k \in 1 .. Len(plist) : plist[k] \in ticked[1] /\ finish(k, "timeout")
<1> DEFINE late == {i \in 1 .. Len(plist) : plist[i] \in ticked[1]}
<1> SUFFICES ASSUME late # {}
             PROVE  \E k \in 1 .. Len(plist) : plist[k] \in ticked[1] /\ finish(k, "timeout")
  BY Zenon DEF timeout
<1>1. late \subseteq Nat
  BY DEF TypeOK
<1>2. first(late) \in late
  BY <1>1, FirstIsLeast, Zenon
<1>3. finish(first(late), "timeout")
  BY Zenon DEF timeout
<1> QED
  BY <1>2, <1>3, Zenon

(* Every step keeps the list in order.                                     *)
LEMMA ListStep ==
  ASSUME TypeOK, ListInv, [Next]_vars
  PROVE  ListInv'
<1> USE DEF TypeOK, ListInv, MatchersCanBeAnswered, NoRequestLost, inList
<1>1. ASSUME NEW c \in Request, request(c) PROVE ListInv'
  BY <1>1 DEF request
<1>2. ASSUME NEW c \in Request, pendingClosed(c) PROVE ListInv'
  BY SMTT(30), <1>2 DEF pendingClosed
<1>3. ASSUME NEW c \in Request, receive(c) PROVE ListInv'
  <2>1. /\ pc' = [pc EXCEPT ![c] = "returned"] /\ plist' = plist
        /\ pc[c] = "waiting" /\ errc[c] # "empty"
        /\ errc' = errc \/ errc' = [errc EXCEPT ![c] = "nil"]
    BY Zenon, <1>3 DEF receive
  <2> QED
    BY SMTT(30), <2>1
<1>4. ASSUME NEW c \in Request, addReplyMatcher(c) PROVE ListInv'
  <2>1. /\ pc' = [pc EXCEPT ![c] = "waiting"] /\ plist' = Append(plist, c)
        /\ pc[c] = "adding" /\ errc' = errc
    BY Zenon, <1>4 DEF addReplyMatcher
  <2>2. /\ Len(plist') = Len(plist) + 1 /\ plist'[Len(plist')] = c
        /\ \A i \in 1 .. Len(plist) : plist'[i] = plist[i] /\ plist[i] # c
    BY <2>1
  <2>3. \A i \in 1 .. Len(plist') : pc'[plist'[i]] = "waiting" /\ errc'[plist'[i]] = "empty"
    BY <2>1, <2>2
  <2>4. \A i, j \in 1 .. Len(plist') : plist'[i] = plist'[j] => i = j
    <3>1. \A i \in 1 .. Len(plist') : i \in 1 .. Len(plist) \/ i = Len(plist')
      BY <2>2
    <3>2. \A i, j \in 1 .. Len(plist) : plist'[i] = plist'[j] => i = j
      BY <2>2
    <3>3. \A i \in 1 .. Len(plist) : plist'[i] # plist'[Len(plist')]
      BY Zenon, <2>2
    <3> QED
      BY <3>1, <3>2, <3>3, Zenon
  <2>5. NoRequestLost'
    <3> SUFFICES ASSUME NEW d \in Request, pc'[d] = "waiting", errc'[d] = "empty"
                 PROVE  \E i \in 1 .. Len(plist') : plist'[i] = d
      BY Zenon
    <3>1. CASE d = c
      <4>1. Len(plist') \in 1 .. Len(plist')
        BY SMTT(30), <2>2
      <4> QED
        BY Zenon, <2>2, <3>1, <4>1
    <3>2. CASE d # c
      <4>1. PICK i \in 1 .. Len(plist) : plist[i] = d
        BY Zenon, <2>1, <3>2
      <4> QED
        BY <4>1, <2>2
    <3> QED
      BY Zenon, <3>1, <3>2
  <2>6. \A d \in Request : pc'[d] \in {"idle", "adding"} => errc'[d] = "empty"
    BY SMTT(30), <2>1
  <2> QED
    BY Zenon, <2>3, <2>4, <2>5, <2>6
<1>5. CASE gotReply
  <2>1. UNCHANGED pc
    BY Zenon, <1>5 DEF gotReply
  <2>2. CASE UNCHANGED <<errc, plist, verified>>
    BY <2>1, <2>2
  <2>3. ASSUME NEW k \in 1 .. Len(plist), finish(k, "nil") PROVE ListInv'
    BY Zenon, <2>1, <2>3, FinishList
  <2> QED
    BY <1>5, <2>2, <2>3, GotReplyList, Zenon
<1>6. CASE timeout
  <2>1. UNCHANGED pc
    BY Zenon, <1>6 DEF timeout
  <2>2. CASE UNCHANGED <<errc, plist>>
    BY <2>1, <2>2
  <2>3. ASSUME NEW k \in 1 .. Len(plist), finish(k, "timeout") PROVE ListInv'
    BY Zenon, <2>1, <2>3, FinishList
  <2> QED
    BY <1>6, <2>2, <2>3, TimeoutList, Zenon
<1>7. CASE loopClosed
  <2>1. /\ plist' = <<>> /\ pc' = pc
        /\ errc' = [c \in Request |-> IF inList(c) THEN "closed" ELSE errc[c]]
    BY <1>7, Zenon DEF loopClosed
  <2>2. \A c \in Request : pc'[c] \in {"idle", "adding"} => errc'[c] = "empty"
    BY Zenon, <2>1
  <2>3. NoRequestLost'
    BY Zenon, <2>1
  <2> QED
    BY <2>1, <2>2, <2>3
<1>8. ASSUME NEW n \in Node, handlePing(n) PROVE ListInv'
  <2>1. CASE pc' = pc
    BY <1>8, <2>1 DEF handlePing
  <2>2. ASSUME NEW c \in PingBack, pc[c] = "idle", pc' = [pc EXCEPT ![c] = "adding"]
        PROVE  ListInv'
    BY <1>8, <2>2, RepliesAssumption DEF handlePing
  <2> QED
    BY Zenon, <1>8, <2>1, <2>2 DEF handlePing
<1>9. CASE UNCHANGED <<pc, errc, plist>>
  BY <1>9
<1> QED
  BY <1>1, <1>2, <1>3, <1>4, <1>5, <1>6, <1>7, <1>8, <1>9, Zenon
  DEF Next, RequestStep, TimerStep, LoopStep, ReadStep, vars, requestVars,
      deadlinePasses, timerFires, readReply, replyClosed, verdict, handleFindnode,
      readEnds, bondExpires, Close

---------------------------------------------------------------------------
(* The timer *)

(* A turn of the loop that left another head than nextTimeout, or none,    *)
(* ends with the timer set; one that left the same leaves it running.      *)
LEMMA ResetSetsTimer ==
  ASSUME NEW list \in Seq(Request), NEW next, resetTimeout(list, next),
         list # <<>> /\ next = list[1] => timer = list[1] \/ ticked' # <<>>
  PROVE  /\ list # <<>> => nextTimeout' = list[1] /\ (timer' = list[1] \/ ticked' # <<>>)
         /\ nextTimeout' = next \/ (list # <<>> /\ nextTimeout' = list[1])
         /\ timer' = timer \/ (list # <<>> /\ timer' = list[1])
<1>1. CASE list = <<>> \/ (list # <<>> /\ next = list[1])
  BY <1>1, Zenon DEF resetTimeout
<1>2. CASE ~(list = <<>> \/ (list # <<>> /\ next = list[1]))
  BY <1>2, Zenon DEF resetTimeout
<1> QED
  BY Zenon, <1>1, <1>2

(* Every step keeps the timer running for the head of the list.            *)
LEMMA TimerStepInv ==
  ASSUME TypeOK, ListInv, TimerInv, ListInv', [Next]_vars
  PROVE  TimerInv'
<1> USE DEF TimerInv, TimerRunsForHead
<1>0. /\ plist \in Seq(Request) /\ nextTimeout \in Request \cup {NoRequest}
      /\ pc \in [Request -> {"idle", "adding", "waiting", "returned"}]
      /\ ticked \in Seq(SUBSET Request)
      /\ \A i \in 1 .. Len(plist) : pc[plist[i]] = "waiting"
      /\ plist # <<>> => 1 \in 1 .. Len(plist)
  BY DEF TypeOK, ListInv
<1>1. ASSUME NEW c \in Request, request(c) PROVE TimerInv'
  BY Zenon, <1>0, <1>1, RepliesAssumption DEF request, timerVars
<1>2. ASSUME NEW c \in Request, pendingClosed(c) PROVE TimerInv'
  BY Zenon, <1>0, <1>2, RepliesAssumption DEF pendingClosed, timerVars
<1>3. ASSUME NEW c \in Request, receive(c) PROVE TimerInv'
  BY Zenon, <1>0, <1>3, RepliesAssumption DEF receive, timerVars
<1>4. ASSUME NEW c \in Request, addReplyMatcher(c) PROVE TimerInv'
  <2>1. /\ pc' = [pc EXCEPT ![c] = "waiting"] /\ plist' = Append(plist, c)
        /\ pc[c] = "adding" /\ UNCHANGED <<ticked, expired, lpc>> /\ lpc = "loop"
        /\ resetTimeout(plist', nextTimeout)
    BY Zenon, <1>4 DEF addReplyMatcher
  <2>2. /\ plist' \in Seq(Request) /\ plist' # <<>>
        /\ plist # <<>> => plist'[1] = plist[1]
        /\ plist = <<>> => plist'[1] = c
        /\ plist'[1] \in Request
    BY <1>0, <2>1
  <2>3. nextTimeout = plist'[1] => plist # <<>>
    BY <1>0, <2>1, <2>2, RepliesAssumption
  <2>4. /\ nextTimeout' = plist'[1] /\ (timer' = plist'[1] \/ ticked' # <<>>)
    BY Zenon, <2>1, <2>2, <2>3, ResetSetsTimer
  <2>5. pc'[plist'[1]] = "waiting"
    BY Zenon, <1>0, <2>1, <2>2
  <2> QED
    BY Zenon, <2>1, <2>2, <2>4, <2>5
<1>5. CASE gotReply
  <2>1. /\ UNCHANGED <<pc, ticked, expired, lpc>> /\ lpc = "loop"
        /\ resetTimeout(plist', nextTimeout)
    BY <1>5, Zenon DEF gotReply
  <2>2. /\ plist' \in Seq(Request)
        /\ plist' # <<>> /\ nextTimeout = plist'[1] => plist # <<>> /\ plist'[1] = plist[1]
    <3>1. CASE UNCHANGED <<errc, plist, verified>>
      BY Zenon, <1>0, <3>1
    <3>2. ASSUME NEW k \in 1 .. Len(plist), finish(k, "nil")
          PROVE  /\ plist' \in Seq(Request)
                 /\ plist' # <<>> /\ nextTimeout = plist'[1]
                      => plist # <<>> /\ plist'[1] = plist[1]
      <4>1. /\ plist' \in Seq(Request)
            /\ k # 1 => plist' # <<>> /\ plist'[1] = plist[1]
            /\ k = 1 /\ plist' # <<>> => plist'[1] # plist[1]
        BY Zenon, <3>2, <2>1, FinishList
      <4>2. plist # <<>> /\ nextTimeout = plist[1]
        BY <1>0, <2>1
      <4> QED
        BY Zenon, <4>1, <4>2
    <3> QED
      BY <1>5, <3>1, <3>2, GotReplyList, Zenon
  <2>3. /\ plist' # <<>> =>
             nextTimeout' = plist'[1] /\ (timer' = plist'[1] \/ ticked' # <<>>)
        /\ nextTimeout' = nextTimeout \/ (plist' # <<>> /\ nextTimeout' = plist'[1])
    BY Zenon, <2>1, <2>2, ResetSetsTimer
  <2>4. plist' # <<>> => pc'[plist'[1]] = "waiting"
    BY <2>2 DEF ListInv
  <2> QED
    BY Zenon, <2>1, <2>3, <2>4
<1>6. CASE timeout
  <2>1. /\ UNCHANGED <<pc, expired, lpc>> /\ ticked' = <<>> /\ lpc = "loop"
        /\ resetTimeout(plist', NoRequest)
    BY <1>6, Zenon DEF timeout
  <2>2. plist' \in Seq(Request)
    <3>1. CASE UNCHANGED <<errc, plist>>
      BY Zenon, <1>0, <3>1
    <3>2. ASSUME NEW k \in 1 .. Len(plist), finish(k, "timeout") PROVE plist' \in Seq(Request)
      BY Zenon, <3>2, <2>1, FinishList
    <3> QED
      BY <1>6, <3>1, <3>2, TimeoutList, Zenon
  <2>3. plist' # <<>> => plist'[1] \in Request
    BY <2>2
  <2>4. /\ plist' # <<>> =>
             nextTimeout' = plist'[1] /\ (timer' = plist'[1] \/ ticked' # <<>>)
        /\ nextTimeout' = NoRequest \/ (plist' # <<>> /\ nextTimeout' = plist'[1])
    BY Zenon, <2>1, <2>2, <2>3, ResetSetsTimer, RepliesAssumption
  <2>5. plist' # <<>> => pc'[plist'[1]] = "waiting"
    BY <2>2 DEF ListInv
  <2> QED
    BY Zenon, <2>1, <2>4, <2>5
<1>7. CASE loopClosed
  BY Zenon, <1>7 DEF loopClosed, timerVars
<1>8. ASSUME NEW n \in Node, handlePing(n) PROVE TimerInv'
  <2>0. UNCHANGED <<plist, expired, nextTimeout, timer, ticked, lpc>>
    BY Zenon, <1>8 DEF handlePing, timerVars
  <2>1. CASE pc' = pc
    BY Zenon, <2>0, <2>1
  <2>2. ASSUME NEW c \in PingBack, pc[c] = "idle", pc' = [pc EXCEPT ![c] = "adding"]
        PROVE  TimerInv'
    <3>1. nextTimeout # NoRequest => nextTimeout # c /\ nextTimeout \in Request
      BY Zenon, <1>0, <2>2
    <3>2. nextTimeout # NoRequest => pc'[nextTimeout] = pc[nextTimeout]
      BY Zenon, <1>0, <2>2, <3>1
    <3> QED
      BY Zenon, <2>0, <3>2
  <2> QED
    BY Zenon, <1>8, <2>1, <2>2 DEF handlePing
<1>9. CASE timerFires
  <2>1. /\ UNCHANGED <<pc, plist, expired, nextTimeout, lpc>>
        /\ ticked' = IF ticked = <<>> THEN <<expired>> ELSE ticked
    BY Zenon, <1>9 DEF timerFires, requestVars
  <2>2. ticked' # <<>> /\ ticked'[1] \subseteq expired'
    BY Zenon, <1>0, <2>1
  <2> QED
    BY Zenon, <2>1, <2>2
<1>10. ASSUME NEW c \in Request, deadlinePasses(c) PROVE TimerInv'
  BY Zenon, <1>0, <1>10 DEF deadlinePasses, requestVars, timerVars
<1>11. CASE UNCHANGED <<pc, plist, expired, nextTimeout, timer, ticked, lpc>>
  BY Zenon, <1>11
<1> QED
  BY <1>1, <1>2, <1>3, <1>4, <1>5, <1>6, <1>7, <1>8, <1>9, <1>10, <1>11, Zenon
  DEF Next, RequestStep, TimerStep, LoopStep, ReadStep, vars, requestVars, timerVars,
      readReply, replyClosed, verdict, handleFindnode, readEnds, bondExpires, Close

---------------------------------------------------------------------------
(* Replies, types, deadlines and endpoint proofs *)

(* A matcher that waits for a pong belongs to a ping.                      *)
LEMMA PongIsForPing ==
  ASSUME NEW c \in Request, NEW r \in Reply, ptype(c) = r.kind
  PROVE  /\ r.kind = "pong" => KindOf[c] = "ping"
         /\ r.kind # "neighbors" => KindOf[c] # "findnode"
         /\ KindOf[c] = "findnode" => r.kind = "neighbors" /\ r.count \in 0 .. bucketSize
         /\ r.from \in Node
<1>1. KindOf[c] \in {"ping", "enr", "findnode"}
  BY Zenon, RepliesAssumption
<1>2. /\ KindOf[c] = "ping" => ptype(c) = "pong"
      /\ KindOf[c] = "enr" => ptype(c) = "enrResponse"
      /\ KindOf[c] = "findnode" => ptype(c) = "neighbors"
  BY Zenon, <1>1 DEF ptype
<1>3. /\ r.from \in Node
      /\ r.kind = "neighbors" => r.count \in 0 .. bucketSize
  BY Zenon DEF Reply
<1> QED
  BY Zenon, <1>1, <1>2, <1>3

(* What loop does with a reply: the verdict on a pong is positive only if  *)
(* a ping to its sender is the one it echoes.                              *)
LEMMA GotReplyVerdict ==
  ASSUME TypeOK, ReplyInv, gotReply
  PROVE  /\ packet \in Reply /\ packet' = packet /\ proven' = proven /\ rpc' = "verdict"
         /\ packet.kind = "pong" /\ packet.tok # NoRequest
              /\ NodeOf[packet.tok] = packet.from => packet.from \in proven
         /\ matched' /\ packet.kind = "pong" => packet.from \in proven
         /\ matched' \in BOOLEAN
<1> DEFINE hits == {i \in 1 .. Len(plist) : /\ NodeOf[plist[i]] = packet.from
                                            /\ ptype(plist[i]) = packet.kind}
<1>1. /\ rpc = "replying" /\ packet' = packet /\ proven' = proven /\ rpc' = "verdict"
      /\ matched' \in BOOLEAN
  BY Zenon DEF gotReply
<1>2. matched' => \E i \in hits : acceptable(plist[i], packet)
  BY Zenon DEF gotReply
<1>3. packet \in Reply
  BY Zenon, <1>1 DEF ReplyInv
<1>4. ASSUME NEW i \in hits, acceptable(plist[i], packet), packet.kind = "pong"
      PROVE  packet.from \in proven
  <2>1. plist[i] \in Request /\ NodeOf[plist[i]] = packet.from /\ ptype(plist[i]) = packet.kind
    BY DEF TypeOK
  <2>2. packet.tok = plist[i]
    BY Zenon, <1>3, <1>4, <2>1, PongIsForPing DEF acceptable
  <2> QED
    BY Zenon, <1>1, <1>4, <2>1, <2>2, RepliesAssumption DEF ReplyInv
<1> QED
  BY <1>1, <1>2, <1>3, <1>4, Zenon DEF ReplyInv

(* What the read loop knows about its packet stays true.                   *)
LEMMA ReplyStep ==
  ASSUME TypeOK, ReplyInv, [Next]_vars
  PROVE  ReplyInv'
<1>1. CASE gotReply
  BY Zenon, <1>1, GotReplyVerdict DEF ReplyInv
<1>2. ASSUME NEW r \in Reply, readReply(r) PROVE ReplyInv'
  <2>1. /\ rpc' = "replying" /\ packet' = r
        /\ proven' = IF r.kind = "pong" /\ r.tok # NoRequest
                   /\ KindOf[r.tok] = "ping" /\ NodeOf[r.tok] = r.from
                 THEN proven \cup {r.from} ELSE proven
    BY <1>2, Zenon DEF readReply
  <2>2. r.kind = "pong" /\ r.tok # NoRequest => KindOf[r.tok] = "ping"
    BY Zenon DEF Reply
  <2> QED
    BY Zenon, <2>1, <2>2 DEF ReplyInv
<1>3. CASE rpc' \in {"reading", "adding", "ended"}
  BY Zenon, <1>3 DEF ReplyInv
<1>4. CASE UNCHANGED <<rpc, packet, matched, proven>>
  BY Zenon, <1>4 DEF ReplyInv
<1>5. ASSUME NEW c \in Request, pendingClosed(c) PROVE ReplyInv'
  BY Zenon, <1>3, <1>4, <1>5 DEF pendingClosed, bondVars
<1>6. ASSUME NEW c \in Request, addReplyMatcher(c) PROVE ReplyInv'
  BY Zenon, <1>3, <1>4, <1>6 DEF addReplyMatcher, bondVars
<1>7. ASSUME NEW n \in Node, handlePing(n) PROVE ReplyInv'
  BY Zenon, <1>3, <1>4, <1>7 DEF handlePing
<1>8. CASE replyClosed \/ verdict \/ readEnds
  BY Zenon, <1>3, <1>8 DEF replyClosed, verdict, readEnds
<1> QED
  BY <1>1, <1>2, <1>4, <1>5, <1>6, <1>7, <1>8, Zenon
  DEF Next, RequestStep, TimerStep, LoopStep, ReadStep, vars, readVars, bondVars,
      request, receive, deadlinePasses, timerFires, timeout, loopClosed,
      handleFindnode, bondExpires, Close

(* gotReply only adds to what a findnode has received.                     *)
LEMMA ReceivedGrows ==
  ASSUME TypeOK, ReplyInv, gotReply
  PROVE  /\ nreceived' \in [Request -> Nat] /\ replied' \subseteq Request
         /\ \A c \in Request : nreceived'[c] >= nreceived[c]
<1> DEFINE hits == {i \in 1 .. Len(plist) : /\ NodeOf[plist[i]] = packet.from
                                            /\ ptype(plist[i]) = packet.kind}
           completed == {i \in hits : done(plist[i], packet)}
           called == {i \in hits : \A k \in completed : i <= k}
<1>1. /\ replied' = replied \cup {plist[i] : i \in called}
      /\ nreceived' = [c \in Request |->
          IF KindOf[c] = "findnode" /\ \E i \in called : plist[i] = c
            THEN nreceived[c] + packet.count ELSE nreceived[c]]
  BY Zenon DEF gotReply
<1>2. packet \in Reply
  BY Zenon, GotReplyVerdict
<1>3. \A i \in called : plist[i] \in Request /\ ptype(plist[i]) = packet.kind
  BY DEF TypeOK
<1> HIDE DEF called
<1>4. replied' \subseteq Request
  BY <1>1, <1>3 DEF TypeOK
<1>5. ASSUME NEW c \in Request
      PROVE  nreceived'[c] \in Nat /\ nreceived'[c] >= nreceived[c]
  <2>0. nreceived[c] \in Nat
    BY Zenon DEF TypeOK
  <2>1. CASE KindOf[c] = "findnode" /\ \E i \in called : plist[i] = c
    <3>1. packet.count \in Nat
      BY <2>1, <1>2, <1>3, PongIsForPing, RepliesAssumption
    <3>2. nreceived'[c] = nreceived[c] + packet.count
      BY <2>1, <1>1, Zenon
    <3> QED
      BY <2>0, <3>1, <3>2
  <2>2. CASE ~(KindOf[c] = "findnode" /\ \E i \in called : plist[i] = c)
    <3>1. nreceived'[c] = nreceived[c]
      BY <2>2, <1>1, Zenon
    <3> QED
      BY SMTT(30), <2>0, <3>1
  <2> QED
    BY Zenon, <2>1, <2>2
<1>6. nreceived' = [c \in Request |-> nreceived'[c]]
  BY <1>1, Zenon
<1> QED
  BY Zenon, <1>4, <1>5, <1>6

(* Deadlines pass before loop gives up, and nreceived only grows.          *)
LEMMA DeadlineStep ==
  ASSUME TypeOK, TimerInv, ReplyInv, NoEarlyTimeout, [Next]_vars
  PROVE  NoEarlyTimeout'
<1> USE DEF NoEarlyTimeout
<1>0. /\ errc \in [Request -> {"empty", "nil", "timeout", "closed"}]
      /\ nreceived \in [Request -> Nat] /\ plist \in Seq(Request)
      /\ bucketSize \in Nat
  BY Zenon, RepliesAssumption DEF TypeOK
<1>1. ASSUME NEW c \in Request, pendingClosed(c) PROVE NoEarlyTimeout'
  BY Zenon, <1>0, <1>1 DEF pendingClosed
<1>2. ASSUME NEW c \in Request, receive(c) PROVE NoEarlyTimeout'
  BY Zenon, <1>0, <1>2 DEF receive
<1>3. CASE gotReply
  <2>1. /\ \A c \in Request : nreceived'[c] \in Nat /\ nreceived'[c] >= nreceived[c]
        /\ expired' = expired
    BY Zenon, <1>3, ReceivedGrows DEF gotReply
  <2>2. CASE errc' = errc
    BY <1>0, <2>1, <2>2
  <2>3. ASSUME NEW k \in 1 .. Len(plist), ptype(plist[k]) = packet.kind,
               done(plist[k], packet), finish(k, "nil"),
               KindOf[plist[k]] = "findnode" =>
                   nreceived'[plist[k]] = nreceived[plist[k]] + packet.count
        PROVE  NoEarlyTimeout'
    <3>1. errc' = [errc EXCEPT ![plist[k]] = "nil"]
      BY Zenon, <2>3 DEF finish
    <3>2. KindOf[plist[k]] = "findnode" => nreceived'[plist[k]] >= bucketSize
      BY Zenon, <2>3 DEF done
    <3>3. ASSUME NEW c \in Request, c # plist[k] PROVE errc'[c] = errc[c]
      BY Zenon, <1>0, <3>1, <3>3
    <3>4. errc'[plist[k]] = "nil" /\ plist[k] \in Request
      BY <1>0, <3>1
    <3> SUFFICES ASSUME NEW c \in Request,
                        \/ errc'[c] = "timeout"
                        \/ errc'[c] = "nil" /\ KindOf[c] = "findnode" /\ nreceived'[c] < bucketSize
                 PROVE  c \in expired
      BY Zenon, <2>1
    <3>5. c # plist[k]
      BY SMTT(30), <1>0, <2>1, <3>2, <3>4
    <3> QED
      BY <1>0, <2>1, <3>3, <3>5
  <2> QED
    BY <1>3, <2>2, <2>3, GotReplyList, Zenon
<1>4. CASE timeout
  <2>1. UNCHANGED <<nreceived, expired>> /\ ticked # <<>>
    BY <1>4, Zenon DEF timeout
  <2>2. CASE errc' = errc
    BY Zenon, <2>1, <2>2
  <2>3. ASSUME NEW k \in 1 .. Len(plist), plist[k] \in ticked[1], finish(k, "timeout")
        PROVE  NoEarlyTimeout'
    <3>1. errc' = [errc EXCEPT ![plist[k]] = "timeout"] /\ plist[k] \in expired
      BY Zenon, <2>1, <2>3 DEF finish, TimerInv
    <3> QED
      BY Zenon, <1>0, <2>1, <3>1
  <2> QED
    BY <1>4, <2>2, <2>3, TimeoutList, Zenon
<1>5. CASE loopClosed
  BY Zenon, <1>0, <1>5 DEF loopClosed
<1>6. ASSUME NEW c \in Request, deadlinePasses(c) PROVE NoEarlyTimeout'
  BY Zenon, <1>6 DEF deadlinePasses, requestVars
<1>7. CASE UNCHANGED <<errc, nreceived, expired>>
  BY Zenon, <1>7
<1> QED
  BY <1>1, <1>2, <1>3, <1>4, <1>5, <1>6, <1>7, Zenon
  DEF Next, RequestStep, TimerStep, LoopStep, ReadStep, vars, requestVars,
      request, timerFires, addReplyMatcher, readReply, replyClosed, verdict,
      handlePing, handleFindnode, readEnds, bondExpires, Close

(* Bonds stay proven: handlePong needs the matcher of its ping.            *)
LEMMA EndpointStep ==
  ASSUME TypeOK, ReplyInv, EndpointProof, [Next]_vars
  PROVE  EndpointProof'
<1> USE DEF EndpointProof
<1>1. CASE gotReply
  <2>1. UNCHANGED <<bonded, served, proven>>
    BY <1>1, Zenon DEF gotReply
  <2>2. CASE verified' = verified
    BY Zenon, <2>1, <2>2
  <2>3. ASSUME NEW k \in 1 .. Len(plist), NodeOf[plist[k]] = packet.from,
               done(plist[k], packet), ptype(plist[k]) = packet.kind,
               verified' = IF plist[k] \in PingBack
                             THEN verified \cup {packet.from} ELSE verified
        PROVE  EndpointProof'
    <3>1. CASE plist[k] \notin PingBack
      BY Zenon, <2>1, <2>3, <3>1
    <3>2. CASE plist[k] \in PingBack
      <4>1. KindOf[plist[k]] = "ping" /\ plist[k] \in Request
        BY Zenon, <3>2, RepliesAssumption
      <4>2. packet.kind = "pong" /\ packet.tok = plist[k] /\ packet.tok # NoRequest
        BY Zenon, <2>3, <4>1, RepliesAssumption DEF ptype, done
      <4>3. packet.from \in proven
        BY Zenon, <1>1, <2>3, <4>2, GotReplyVerdict
      <4> QED
        BY Zenon, <2>1, <2>3, <3>2, <4>3
    <3> QED
      BY Zenon, <3>1, <3>2
  <2> QED
    BY <1>1, <2>2, <2>3, GotReplyList, Zenon
<1>2. ASSUME NEW r \in Reply, readReply(r) PROVE EndpointProof'
  <2>1. UNCHANGED <<bonded, verified, served>> /\ proven \subseteq proven'
    BY Zenon, <1>2 DEF readReply
  <2> QED
    BY Zenon, <2>1
<1>3. CASE verdict
  <2>1. UNCHANGED <<verified, served, proven>> /\ rpc = "verdict"
        /\ bonded' = IF matched /\ packet.kind = "pong"
                       THEN bonded \cup {packet.from} ELSE bonded
    BY <1>3, Zenon DEF verdict
  <2> QED
    BY Zenon, <2>1 DEF ReplyInv
<1>4. ASSUME NEW n \in Node, handlePing(n) \/ handleFindnode(n) \/ bondExpires(n)
      PROVE  EndpointProof'
  BY Zenon, <1>4 DEF handlePing, handleFindnode, bondExpires
<1>5. CASE UNCHANGED <<bonded, verified, proven, served>>
  BY Zenon, <1>5
<1> QED
  BY <1>1, <1>2, <1>3, <1>4, <1>5, Zenon
  DEF Next, RequestStep, TimerStep, LoopStep, ReadStep, vars, bondVars, request,
      pendingClosed, receive, deadlinePasses, timerFires, timeout, loopClosed,
      addReplyMatcher, replyClosed, readEnds, Close

(* Types are preserved.                                                    *)
LEMMA TypeStep ==
  ASSUME TypeOK, ListInv, ReplyInv, [Next]_vars
  PROVE  TypeOK'
<1>1. ASSUME NEW c \in Request, request(c) PROVE TypeOK'
  BY SMTT(30), <1>1 DEF TypeOK, request, timerVars, readVars, bondVars
<1>2. ASSUME NEW c \in Request, pendingClosed(c) PROVE TypeOK'
  BY Zenon, <1>2 DEF TypeOK, pendingClosed, timerVars, bondVars
<1>3. ASSUME NEW c \in Request, receive(c) PROVE TypeOK'
  BY SMTT(30), <1>3 DEF TypeOK, receive, timerVars, readVars, bondVars
<1>4. ASSUME NEW c \in Request, addReplyMatcher(c) PROVE TypeOK'
  <2>1. plist' \in Seq(Request) /\ plist' # <<>> /\ plist'[1] \in Request
    BY <1>4 DEF TypeOK, addReplyMatcher
  <2>2. nextTimeout' \in Request \cup {NoRequest} /\ timer' \in Request \cup {NoRequest}
    BY Zenon, <1>4, <2>1 DEF TypeOK, addReplyMatcher, resetTimeout
  <2> QED
    BY Zenon, <1>4, <2>1, <2>2 DEF TypeOK, addReplyMatcher, bondVars
<1>5. ASSUME plist' \in Seq(Request), NEW next \in Request \cup {NoRequest},
             resetTimeout(plist', next)
      PROVE  nextTimeout' \in Request \cup {NoRequest} /\ timer' \in Request \cup {NoRequest}
  <2>1. plist' # <<>> => plist'[1] \in Request
    BY <1>5
  <2> QED
    BY Zenon, <1>5, <2>1 DEF TypeOK, resetTimeout
<1>6. CASE gotReply
  <2>1. /\ UNCHANGED <<pc, expired, ticked, packet, packets, bonded, proven, served,
                       closed, lpc>>
        /\ resetTimeout(plist', nextTimeout)
    BY <1>6, Zenon DEF gotReply
  <2>2. rpc' = "verdict" /\ matched' \in BOOLEAN /\ packet \in Reply
    BY Zenon, <1>6, GotReplyVerdict
  <2>3. nreceived' \in [Request -> Nat] /\ replied' \subseteq Request
    BY Zenon, <1>6, ReceivedGrows
  <2>4. /\ plist' \in Seq(Request) /\ verified' \subseteq Node
        /\ errc' \in [Request -> {"empty", "nil", "timeout", "closed"}]
    <3>1. CASE UNCHANGED <<errc, plist, verified>>
      BY Zenon, <3>1 DEF TypeOK
    <3>2. ASSUME NEW k \in 1 .. Len(plist), finish(k, "nil"),
                 verified' = IF plist[k] \in PingBack
                               THEN verified \cup {packet.from} ELSE verified
          PROVE  /\ plist' \in Seq(Request) /\ verified' \subseteq Node
                 /\ errc' \in [Request -> {"empty", "nil", "timeout", "closed"}]
      <4>1. packet.from \in Node
        BY Zenon, <2>2 DEF Reply
      <4>2. /\ plist' \in Seq(Request)
            /\ errc' \in [Request -> {"empty", "nil", "timeout", "closed"}]
        BY Zenon, <3>2, <2>1, FinishList
      <4> QED
        BY Zenon, <3>2, <4>1, <4>2 DEF TypeOK
    <3> QED
      BY <1>6, <3>1, <3>2, GotReplyList, Zenon
  <2>5. nextTimeout' \in Request \cup {NoRequest} /\ timer' \in Request \cup {NoRequest}
    BY Zenon, <1>5, <2>1, <2>4 DEF TypeOK
  <2> QED
    BY Zenon, <2>1, <2>2, <2>3, <2>4, <2>5 DEF TypeOK
<1>7. CASE timeout
  <2>1. /\ UNCHANGED <<pc, nreceived, replied, expired, readVars, bondVars, closed, lpc>>
        /\ ticked' = <<>> /\ resetTimeout(plist', NoRequest)
    BY <1>7, Zenon DEF timeout
  <2>2. /\ plist' \in Seq(Request)
        /\ errc' \in [Request -> {"empty", "nil", "timeout", "closed"}]
    <3>1. CASE UNCHANGED <<errc, plist>>
      BY Zenon, <3>1 DEF TypeOK
    <3>2. ASSUME NEW k \in 1 .. Len(plist), finish(k, "timeout")
          PROVE  /\ plist' \in Seq(Request)
                 /\ errc' \in [Request -> {"empty", "nil", "timeout", "closed"}]
      BY Zenon, <3>2, <2>1, FinishList
    <3> QED
      BY <1>7, <3>1, <3>2, TimeoutList, Zenon
  <2>3. nextTimeout' \in Request \cup {NoRequest} /\ timer' \in Request \cup {NoRequest}
    BY Zenon, <1>5, <2>1, <2>2
  <2> QED
    BY SMTT(30), <2>1, <2>2, <2>3 DEF TypeOK, readVars, bondVars
<1>8. CASE loopClosed
  BY SMTT(30), <1>8 DEF TypeOK, loopClosed, timerVars, readVars, bondVars
<1>9. ASSUME NEW n \in Node, handlePing(n) PROVE TypeOK'
  <2>1. /\ packets' \in 0 .. MaxPackets /\ verified' \subseteq Node
        /\ UNCHANGED <<errc, nreceived, replied, plist, expired, timerVars, matched,
                       bonded, proven, served, closed, lpc>>
    BY <1>9, RepliesAssumption DEF TypeOK, handlePing
  <2>2. CASE UNCHANGED <<pc, rpc, packet>>
    BY Zenon, <2>1, <2>2 DEF TypeOK, timerVars
  <2>3. ASSUME NEW c \in PingBack, pc' = [pc EXCEPT ![c] = "adding"],
               rpc' = "adding", packet' = c
        PROVE  TypeOK'
    <3>1. c \in Request
      BY Zenon, RepliesAssumption
    <3> QED
      BY Zenon, <2>1, <2>3, <3>1 DEF TypeOK, timerVars
  <2> QED
    BY Zenon, <1>9, <2>2, <2>3 DEF handlePing
<1>10. ASSUME NEW n \in Node, handleFindnode(n) PROVE TypeOK'
  BY SMTT(30), <1>10, RepliesAssumption DEF TypeOK, handleFindnode, requestVars, timerVars
<1>11. ASSUME NEW n \in Node, bondExpires(n) PROVE TypeOK'
  BY Zenon, <1>11 DEF TypeOK, bondExpires, requestVars, timerVars, readVars
<1>12. ASSUME NEW r \in Reply, readReply(r) PROVE TypeOK'
  <2>1. r.from \in Node
    BY Zenon DEF Reply
  <2>2. proven' \subseteq Node
    BY Zenon, <1>12, <2>1 DEF TypeOK, readReply
  <2> QED
    BY SMTT(30), <1>12, <2>2, RepliesAssumption DEF TypeOK, readReply, requestVars, timerVars
<1>13. CASE verdict
  <2>1. bonded' \subseteq Node
    <3>1. packet.kind = "pong" => packet.from \in Node
      BY Zenon, <1>13 DEF verdict, ReplyInv, Reply
    <3> QED
      BY Zenon, <1>13, <3>1 DEF TypeOK, verdict
  <2> QED
    BY Zenon, <1>13, <2>1 DEF TypeOK, verdict, requestVars, timerVars
<1>14. CASE replyClosed \/ readEnds
  BY Zenon, <1>14 DEF TypeOK, replyClosed, readEnds, requestVars, timerVars, bondVars
<1>15. CASE timerFires
  <2>1. ticked' \in Seq(SUBSET Request) /\ Len(ticked') <= 1
    <3>1. <<expired>> \in Seq(SUBSET Request) /\ Len(<<expired>>) <= 1
      BY DEF TypeOK
    <3>2. ticked' = <<expired>> \/ ticked' = ticked
      BY <1>15, Zenon DEF timerFires
    <3>3. CASE ticked' = <<expired>>
      BY <3>1, <3>3, Zenon
    <3>4. CASE ticked' = ticked
      BY Zenon, <3>4 DEF TypeOK
    <3> QED
      BY Zenon, <3>2, <3>3, <3>4
  <2> QED
    BY Zenon, <1>15, <2>1 DEF TypeOK, timerFires, requestVars, readVars, bondVars
<1>16. ASSUME NEW c \in Request, deadlinePasses(c) PROVE TypeOK'
  BY <1>16 DEF TypeOK, deadlinePasses, requestVars, timerVars, readVars, bondVars
<1>17. CASE Close
  BY Zenon, <1>17 DEF TypeOK, Close, requestVars, timerVars, readVars, bondVars
<1>18. CASE UNCHANGED vars
  BY <1>18 DEF TypeOK, vars, requestVars, timerVars, readVars, bondVars
<1> QED
  BY Zenon, <1>1, <1>2, <1>3, <1>4, <1>6, <1>7, <1>8, <1>9, <1>10, <1>11, <1>12, <1>13,
     <1>14, <1>15, <1>16, <1>17, <1>18, Zenon
  DEF Next, RequestStep, TimerStep, LoopStep, ReadStep

---------------------------------------------------------------------------
(* Theorems *)

(* The invariant holds before the first request.                           *)
LEMMA InitInv == Init => Inv
<1> SUFFICES ASSUME Init PROVE Inv
  BY Zenon
<1>1. TypeOK
  <2>1. <<>> \in Seq(Request) /\ <<>> \in Seq(SUBSET Request) /\ Len(<<>>) = 0
    OBVIOUS
  <2>2. /\ plist \in Seq(Request) /\ ticked \in Seq(SUBSET Request) /\ Len(ticked) <= 1
    BY <2>1 DEF Init
  <2>3. 0 \in 0 .. MaxPackets
    BY RepliesAssumption
  <2>4. Known \subseteq Node
    BY Zenon, RepliesAssumption
  <2> QED
    BY Zenon, <2>2, <2>3, <2>4 DEF Init, TypeOK
<1>2. ListInv
  BY DEF Init, ListInv, MatchersCanBeAnswered, NoRequestLost
<1>3. TimerInv /\ ReplyInv
  BY Zenon DEF Init, TimerInv, ReplyInv, TimerRunsForHead
<1>4. NoEarlyTimeout /\ EndpointProof
  BY Zenon DEF Init, NoEarlyTimeout, EndpointProof
<1> QED
  BY Zenon, <1>1, <1>2, <1>3, <1>4 DEF Inv

(* The invariant is inductive.                                             *)
LEMMA NextInv == Inv /\ [Next]_vars => Inv'
BY Zenon, ListStep, TimerStepInv, ReplyStep, DeadlineStep, EndpointStep, TypeStep DEF Inv

(* The invariant holds of every behaviour of the transport.                *)
LEMMA Invariance == Spec => []Inv
BY InitInv, NextInv, PTL DEF Spec

(* The variables of the v4 transport keep their types; of loop's timer     *)
(* channel, that it never holds more than one time.                        *)
THEOREM TypeCorrect == Spec => []TypeOK
<1>1. Inv => TypeOK
  BY Zenon DEF Inv
<1> QED
  BY <1>1, Invariance, PTL

(* Whatever replies, timeouts and Close do in whatever order, loop sends   *)
(* on the errc of a matcher once, so that the send never blocks it.        *)
THEOREM LoopNeverBlocks == Spec => []MatchersCanBeAnswered
<1>1. Inv => MatchersCanBeAnswered
  BY Zenon DEF Inv, ListInv
<1> QED
  BY <1>1, Invariance, PTL

(* A requester blocked on its errc is still in loop's list, to be answered *)
(* or to time out.                                                         *)
THEOREM NobodyForgotten == Spec => []NoRequestLost
<1>1. Inv => NoRequestLost
  BY Zenon DEF Inv, ListInv
<1> QED
  BY <1>1, Invariance, PTL

(* When loop waits in its select with matchers in the list, its one timer  *)
(* is set for the first of them or has fired already.                      *)
THEOREM TimerIsSet == Spec => []TimerRunsForHead
<1>1. Inv => TimerRunsForHead
  BY Zenon DEF Inv, TimerInv
<1> QED
  BY <1>1, Invariance, PTL

(* A stale tick of loop's timer times nobody out before the deadline, and  *)
(* a findnode that returns before it has the nodes it waits for.           *)
THEOREM DeadlinesAreKept == Spec => []NoEarlyTimeout
<1>1. Inv => NoEarlyTimeout
  BY Zenon DEF Inv
<1> QED
  BY <1>1, Invariance, PTL

(* verifyPong, handlePing and handleFindnode treat a node as bonded only   *)
(* after it has echoed the hash of a ping that was sent to it.             *)
THEOREM BondsAreProven == Spec => []EndpointProof
<1>1. Inv => EndpointProof
  BY Zenon DEF Inv
<1> QED
  BY <1>1, Invariance, PTL
=============================================================================
