---------------------------- MODULE UDPv5Proofs ----------------------------
(***************************************************************************)
(* The inductive invariant of UDPv5Dispatch, and that the transport        *)
(* implements SerialCalls, for any sets of nodes and calls, any number of  *)
(* packets, failing encodings, temporary read errors and Close.  First     *)
(* that every step keeps the types, what the steps do to the queues, and   *)
(* what sending a call does to the tables of dispatch.  Then that every    *)
(* step keeps the queues, the active calls and the callers in order: one   *)
(* lemma for each of these three conjuncts, with one case per action,      *)
(* after the lemmas about a call that enters, leaves or is sent again.     *)
(* Then the other conjuncts, and the theorems: what the invariant says of  *)
(* the calls, the tables of dispatch, the timers and the read buffer.      *)
(* Last the refinement, with what each step does to the line of a node.    *)
(***************************************************************************)
EXTENDS UDPv5Refinement, TLAPS

(* Call c waits in the queue of its node.                                  *)
Queued(c) == \E i \in 1 .. Len(callQueue[NodeOf[c]]) : callQueue[NodeOf[c]][i] = c

Active(c) == activeCallByNode[NodeOf[c]] = c

(* The queues hold each call once, at its node, with nothing to receive;   *)
(* the active call is not among them.                                      *)
QueueOK(queue, active, p) ==
  \A n \in Node :
    /\ \A i \in 1 .. Len(queue[n]) :
         /\ NodeOf[queue[n][i]] = n
         /\ p[queue[n][i]] = "waiting"
         /\ nonce[queue[n][i]] = 0
         /\ ~ch[queue[n][i]]
         /\ err[queue[n][i]] = "none"
         /\ queue[n][i] # active[n]
    /\ \A i, j \in 1 .. Len(queue[n]) : queue[n][i] = queue[n][j] => i = j

QueueInv == QueueOK(callQueue, activeCallByNode, pc)

(* An active call is at its node, and its goroutine has not returned       *)
(* unless closeCtx is done.                                                *)
ActiveOK(active, p) ==
  \A n \in Node : active[n] # NoCall =>
    /\ NodeOf[active[n]] = n
    /\ p[active[n]] \in {"waiting", "done", "returned"}
    /\ p[active[n]] = "returned" => closed

ActiveInv == ActiveOK(activeCallByNode, pc)

(* Where the call of a goroutine is.                                       *)
CallerOK(c) ==
  /\ pc[c] \in {"idle", "calling"} => ~ch[c] /\ err[c] = "none" /\ nonce[c] = 0
  /\ pc[c] = "waiting" => err[c] # "none" \/ Active(c) \/ Queued(c)
  /\ pc[c] = "waiting" /\ ~closed /\ (ch[c] \/ err[c] # "none") => Active(c)
  /\ pc[c] = "done" /\ ~closed => Active(c)

CallerInv == \A c \in Call : CallerOK(c)

(* What dispatch is doing.                                                 *)
DispatchInv ==
  /\ dpc # "panicked"
  /\ dpc \in {"putErr", "putCh"} => Active(dcall)
  /\ dpc \in {"closing", "returned"} => closed
  /\ dpc = "returned" =>
       \A n \in Node : callQueue[n] = <<>> /\ activeCallByNode[n] = NoCall

(* A call that has had its handshake is active, or over: it is in no queue *)
(* and will not be sent as a new one.                                      *)
HandshakeInv ==
  \A c \in Call : handshakeCount[c] # 0 =>
    Active(c) \/ err[c] # "none" \/ pc[c] \in {"done", "returned"}

(* An entry of activeCallByAuth is a call under a nonce in use, or left    *)
(* under the zero nonce by one that has had its handshake.                 *)
EntryOK(e, active) ==
  \/ active[NodeOf[e[2]]] = e[2] /\ nonce[e[2]] = e[1]
  \/ e[1] = 0 /\ handshakeCount[e[2]] = 1

(* The active call of node n has its entry, unless its Encode failed.      *)
CallOK(n, auth, active) ==
  \/ <<nonce[active[n]], active[n]>> \in auth
  \/ nonce[active[n]] = 0 /\ EncodeErrors

(* activeCallByAuth is a map, and only a failed Encode puts anything under *)
(* the zero nonce.                                                         *)
AuthOK(auth, active) ==
  /\ \A e \in auth : EntryOK(e, active) /\ (e[1] = 0 => EncodeErrors)
  /\ \A e, f \in auth : e[1] = f[1] => e[2] = f[2]
  /\ \A n \in Node : active[n] # NoCall => CallOK(n, auth, active)

AuthInv ==
  /\ AuthOK(activeCallByAuth, activeCallByNode)
  /\ \A c \in Call : nonce[c] < nextNonce

(* A running timer is the current one of its call; a timer that has fired  *)
(* runs no more.                                                           *)
TimerOK(running) ==
  /\ running \cap firing = {}
  /\ \A t \in firing : t[2] <= timeout[t[1]]
  /\ \A t \in running : t[2] = timeout[t[1]]

(* As long as dispatch is not shutting down, the call is active.           *)
TimerInv ==
  /\ TimerOK(armed)
  /\ dpc \notin {"closing", "returned"} => \A t \in armed : Active(t[1])
  /\ TimeoutIsCurrent

(* At most one of these: a token in readNextCh, a read in progress, a      *)
(* packet in packetInCh, a packet in dispatch.                             *)
ReadInv ==
  /\ readNextCh => rpc \notin {"read", "send"} /\ ~packetInCh
                     /\ dpc \notin {"putCh", "rearm"}
  /\ rpc \in {"read", "send"} => ~packetInCh /\ dpc \notin {"putCh", "rearm"}
  /\ packetInCh => dpc \notin {"putCh", "rearm"}

Inv ==
  /\ TypeOK /\ QueueInv /\ ActiveInv /\ CallerInv /\ DispatchInv
  /\ HandshakeInv /\ AuthInv /\ TimerInv /\ ReadInv

---------------------------------------------------------------------------
(* Types *)

(* forgetNonce only removes entries.                                       *)
LEMMA ForgetType ==
  ASSUME NEW auth \in SUBSET (Nat \X Call), NEW n
  PROVE  forgetNonce(auth, n) \in SUBSET (Nat \X Call)
BY Zenon DEF forgetNonce

(* startResponseTimeout keeps the timers well typed.                       *)
LEMMA TimeoutType ==
  ASSUME TypeOK, NEW c \in Call, NEW running \in SUBSET Timer,
         startResponseTimeout(c, running)
  PROVE  timeout' \in [Call -> Nat] /\ armed' \subseteq Timer
BY DEF TypeOK, startResponseTimeout, Timer

(* sendCall keeps the state it touches well typed.                         *)
LEMMA SendType ==
  ASSUME TypeOK, NEW c \in Call,
         NEW auth \in SUBSET (Nat \X Call), NEW running \in SUBSET Timer,
         sendCall(c, auth, running)
  PROVE  /\ nonce' \in [Call -> Nat]
         /\ activeCallByAuth' \subseteq Nat \X Call
         /\ nextNonce' \in Nat \ {0}
         /\ timeout' \in [Call -> Nat]
         /\ armed' \subseteq Timer
<1>1. PICK n \in {nextNonce} \cup (IF EncodeErrors THEN {0} ELSE {}) :
        /\ nonce' = [nonce EXCEPT ![c] = n]
        /\ activeCallByAuth' =
             forgetNonce(IF nonce[c] # 0 THEN forgetNonce(auth, nonce[c]) ELSE auth, n)
               \cup {<<n, c>>}
        /\ nextNonce' = IF n = 0 THEN nextNonce ELSE nextNonce + 1
  BY Zenon DEF sendCall
<1>2. n \in Nat
  BY <1>1 DEF TypeOK
<1>3. forgetNonce(IF nonce[c] # 0 THEN forgetNonce(auth, nonce[c]) ELSE auth, n)
        \in SUBSET (Nat \X Call)
  BY Zenon, ForgetType
<1>4. nonce' \in [Call -> Nat] /\ nextNonce' \in Nat \ {0}
  BY <1>1, <1>2 DEF TypeOK
<1>5. activeCallByAuth' \subseteq Nat \X Call
  BY <1>1, <1>2, <1>3
<1>6. startResponseTimeout(c, running)
  BY Zenon DEF sendCall
<1> QED
  BY Zenon, <1>4, <1>5, <1>6, TimeoutType

(* sendNextCall keeps the call tables well typed.                          *)
LEMMA SendNextType ==
  ASSUME TypeOK, NEW n \in Node,
         NEW queue \in [Node -> Seq(Call)],
         NEW active \in [Node -> Call \cup {NoCall}],
         NEW auth \in SUBSET (Nat \X Call), NEW running \in SUBSET Timer,
         sendNextCall(n, queue, active, auth, running)
  PROVE  /\ callQueue' \in [Node -> Seq(Call)]
         /\ activeCallByNode' \in [Node -> Call \cup {NoCall}]
         /\ nonce' \in [Call -> Nat]
         /\ activeCallByAuth' \subseteq Nat \X Call
         /\ nextNonce' \in Nat \ {0}
         /\ timeout' \in [Call -> Nat]
         /\ armed' \subseteq Timer
<1>1. CASE queue[n] = <<>> \/ active[n] # NoCall
  BY Zenon, <1>1 DEF sendNextCall, TypeOK
<1>2. CASE ~(queue[n] = <<>> \/ active[n] # NoCall)
  <2>1. Head(queue[n]) \in Call /\ Tail(queue[n]) \in Seq(Call)
    BY <1>2
  <2>2. /\ activeCallByNode' = [active EXCEPT ![n] = Head(queue[n])]
        /\ callQueue' = [queue EXCEPT ![n] = Tail(queue[n])]
        /\ sendCall(Head(queue[n]), auth, running)
    BY Zenon, <1>2 DEF sendNextCall
  <2> QED
    BY Zenon, <2>1, <2>2, SendType
<1> QED
  BY Zenon, <1>1, <1>2

(* Every step keeps the types.                                             *)
LEMMA TypeStep == TypeOK /\ [Next]_vars => TypeOK'
<1> SUFFICES ASSUME TypeOK, [Next]_vars PROVE TypeOK'
  BY Zenon
<1> USE DispatchAssumption
<1>1. ASSUME NEW c \in Call, call(c) PROVE TypeOK'
  BY SMTT(30), <1>1 DEF TypeOK, call, callVars, readVars
<1>2. ASSUME NEW c \in Call, callClosed(c) PROVE TypeOK'
  BY Zenon, <1>2 DEF TypeOK, callClosed, callVars, readVars
<1>3. ASSUME NEW c \in Call, receiveResponse(c) PROVE TypeOK'
  BY <1>3 DEF TypeOK, receiveResponse, callVars, readVars
<1>4. ASSUME NEW c \in Call, receiveError(c) PROVE TypeOK'
  BY ZenonT(30), <1>4 DEF TypeOK, receiveError, callVars, readVars
<1>5. ASSUME NEW c \in Call, discardResponse(c) PROVE TypeOK'
  BY <1>5 DEF TypeOK, discardResponse, callVars, readVars
<1>6. ASSUME NEW c \in Call, discardError(c) PROVE TypeOK'
  BY <1>6 DEF TypeOK, discardError, callVars, readVars
<1>7. ASSUME NEW c \in Call, callDoneClosed(c) PROVE TypeOK'
  BY <1>7 DEF TypeOK, callDoneClosed, callVars, readVars
<1>8. ASSUME NEW c \in Call, timerExpires(c) PROVE TypeOK'
  BY SMTT(30), <1>8 DEF TypeOK, timerExpires, callVars, readVars, Timer
<1>9. ASSUME NEW c \in Call, dispatchCall(c) PROVE TypeOK'
  <2>1. [callQueue EXCEPT ![NodeOf[c]] = Append(@, c)] \in [Node -> Seq(Call)]
    BY DEF TypeOK
  <2>2. /\ callQueue' \in [Node -> Seq(Call)]
        /\ activeCallByNode' \in [Node -> Call \cup {NoCall}]
        /\ nonce' \in [Call -> Nat]
        /\ activeCallByAuth' \subseteq Nat \X Call
        /\ nextNonce' \in Nat \ {0}
        /\ timeout' \in [Call -> Nat]
        /\ armed' \subseteq Timer
    BY Zenon, <1>9, <2>1, SendNextType DEF TypeOK, dispatchCall
  <2> QED
    BY Zenon, <1>9, <2>2 DEF TypeOK, dispatchCall, readVars
<1>10. ASSUME NEW c \in Call, dispatchCallDone(c) PROVE TypeOK'
  <2>1. CASE activeCallByNode[NodeOf[c]] # c
    BY Zenon, <1>10, <2>1 DEF TypeOK, dispatchCallDone, callVars, readVars
  <2>2. CASE activeCallByNode[NodeOf[c]] = c
    <3>1. [activeCallByNode EXCEPT ![NodeOf[c]] = NoCall]
            \in [Node -> Call \cup {NoCall}]
      BY Zenon DEF TypeOK
    <3>2. forgetNonce(activeCallByAuth, nonce[c]) \in SUBSET (Nat \X Call)
      BY Zenon, ForgetType DEF TypeOK
    <3>3. armed \ {<<c, timeout[c]>>} \in SUBSET Timer
      BY Zenon DEF TypeOK
    <3>4. /\ callQueue' \in [Node -> Seq(Call)]
          /\ activeCallByNode' \in [Node -> Call \cup {NoCall}]
          /\ nonce' \in [Call -> Nat]
          /\ activeCallByAuth' \subseteq Nat \X Call
          /\ nextNonce' \in Nat \ {0}
          /\ timeout' \in [Call -> Nat]
          /\ armed' \subseteq Timer
      BY Zenon, <1>10, <2>2, <3>1, <3>2, <3>3, SendNextType DEF TypeOK, dispatchCallDone
    <3> QED
      BY Zenon, <1>10, <2>2, <3>4 DEF TypeOK, dispatchCallDone, readVars
  <2> QED
    BY Zenon, <2>1, <2>2
<1>11. ASSUME NEW t \in firing, timerClosed(t) PROVE TypeOK'
  BY <1>11 DEF TypeOK, timerClosed, callVars, readVars
<1>12. ASSUME NEW t \in firing, dispatchTimeout(t) PROVE TypeOK'
  BY ZenonT(30), <1>12 DEF TypeOK, dispatchTimeout, callVars, readVars, Timer
<1>13. ASSUME NEW c \in Call, handleCallResponse(c) PROVE TypeOK'
  <2>1. timeout' \in [Call -> Nat] /\ armed' \subseteq Timer
    BY Zenon, <1>13, TimeoutType DEF TypeOK, handleCallResponse
  <2> QED
    BY Zenon, <1>13, <2>1 DEF TypeOK, handleCallResponse, takePacket
<1>14. ASSUME NEW n \in 0 .. nextNonce - 1, handleWhoareyou(n) PROVE TypeOK'
  <2>1. PICK c \in matchWithCall(n) :
          /\ handshakeCount' = [handshakeCount EXCEPT ![c] = @ + 1]
          /\ sendCall(c, activeCallByAuth, armed)
    BY Zenon, <1>14 DEF handleWhoareyou
  <2>2. c \in Call /\ handshakeCount[c] = 0
    BY Zenon DEF matchWithCall
  <2>3. handshakeCount' \in [Call -> 0 .. 1]
    BY <2>1, <2>2 DEF TypeOK
  <2>4. /\ nonce' \in [Call -> Nat]
        /\ activeCallByAuth' \subseteq Nat \X Call
        /\ nextNonce' \in Nat \ {0}
        /\ timeout' \in [Call -> Nat]
        /\ armed' \subseteq Timer
    BY Zenon, <2>1, <2>2, SendType DEF TypeOK
  <2> QED
    BY Zenon, <1>14, <2>3, <2>4 DEF TypeOK, handleWhoareyou, takePacket
<1>15. ASSUME NEW n \in Node, closeQueued(n) PROVE TypeOK'
  <2>1. Head(callQueue[n]) \in Call /\ Tail(callQueue[n]) \in Seq(Call)
    BY <1>15 DEF TypeOK, closeQueued
  <2> QED
    BY Zenon, <1>15, <2>1 DEF TypeOK, closeQueued, readVars
<1>16. ASSUME NEW n \in Node, closeActive(n) PROVE TypeOK'
  BY Zenon, <1>16, ForgetType DEF TypeOK, closeActive, readVars
<1>17. CASE putErr
  BY Zenon, <1>17 DEF TypeOK, putErr, callVars, readVars
<1>18. CASE putCh
  BY Zenon, <1>18 DEF TypeOK, putCh, callVars, readVars
<1>19. CASE handleOther
  BY Zenon, <1>19 DEF TypeOK, handleOther, callVars, readVars, takePacket
<1>20. CASE rearm
  BY Zenon, <1>20 DEF TypeOK, rearm, callVars, readVars
<1>21. CASE dispatchClosed
  BY Zenon, <1>21 DEF TypeOK, dispatchClosed, callVars, readVars
<1>22. CASE dispatchReturn
  BY Zenon, <1>22 DEF TypeOK, dispatchReturn, callVars, readVars
<1>23. CASE readNext
  BY Zenon, <1>23 DEF TypeOK, readNext, callVars, readVars
<1>24. CASE readLoopEnds
  BY Zenon, <1>24 DEF TypeOK, readLoopEnds, callVars, readVars
<1>25. CASE readPacket
  BY <1>25 DEF TypeOK, readPacket, callVars, readVars
<1>26. CASE readTemporaryError
  BY Zenon, <1>26 DEF TypeOK, readTemporaryError, callVars, readVars
<1>27. CASE dispatchReadPacket
  BY Zenon, <1>27 DEF TypeOK, dispatchReadPacket, callVars, readVars
<1>28. CASE Close
  BY Zenon, <1>28 DEF TypeOK, Close, callVars, readVars
<1>29. CASE UNCHANGED vars
  BY <1>29 DEF TypeOK, vars, callVars, readVars
<1> QED
  BY Zenon, <1>1, <1>2, <1>3, <1>4, <1>5, <1>6, <1>7, <1>8, <1>9, <1>10, <1>11,
     <1>12, <1>13, <1>14, <1>15, <1>16, <1>17, <1>18, <1>19, <1>20,
     <1>21, <1>22, <1>23, <1>24, <1>25, <1>26, <1>27, <1>28, <1>29
     DEF Next, CallerStep, TimerStep, PacketStep, DispatchStep, ReadStep

---------------------------------------------------------------------------
(* The queues *)

(* What a queue holds are calls.                                           *)
LEMMA QueueElements ==
  ASSUME NEW queue \in [Node -> Seq(Call)], NEW n \in Node,
         NEW i \in 1 .. Len(queue[n])
  PROVE  queue[n][i] \in Call
OBVIOUS

(* A call that is not waiting for its first answer is in no queue.         *)
LEMMA NotQueued ==
  ASSUME Inv, NEW c \in Call,
         pc[c] # "waiting" \/ ch[c] \/ err[c] # "none" \/ Active(c) \/ nonce[c] # 0
  PROVE  \A n \in Node : \A i \in 1 .. Len(callQueue[n]) : callQueue[n][i] # c
BY DEF Inv, QueueInv, QueueOK, Active

(* A step of one goroutine whose call is in no queue leaves the queues in  *)
(* order.                                                                  *)
LEMMA QueueKept ==
  ASSUME Inv, NEW c \in Call,
         \A n \in Node : \A i \in 1 .. Len(callQueue[n]) : callQueue[n][i] # c,
         callQueue' = callQueue,
         \A n \in Node : activeCallByNode'[n] \in {activeCallByNode[n], NoCall, c},
         \A d \in Call \ {c} :
            pc'[d] = pc[d] /\ nonce'[d] = nonce[d] /\ ch'[d] = ch[d] /\ err'[d] = err[d]
  PROVE  QueueInv'
<1>1. ASSUME NEW n \in Node, NEW i \in 1 .. Len(callQueue[n])
      PROVE  callQueue[n][i] \in Call \ {c}
  BY Zenon, QueueElements DEF Inv, TypeOK
<1>2. ASSUME NEW n \in Node, NEW i \in 1 .. Len(callQueue[n])
      PROVE  /\ NodeOf[callQueue[n][i]] = n
             /\ pc'[callQueue[n][i]] = "waiting"
             /\ nonce'[callQueue[n][i]] = 0
             /\ ~ch'[callQueue[n][i]]
             /\ err'[callQueue[n][i]] = "none"
             /\ callQueue[n][i] # activeCallByNode'[n]
  <2> DEFINE d == callQueue[n][i]
  <2>1. /\ NodeOf[d] = n /\ pc[d] = "waiting" /\ nonce[d] = 0
        /\ ~ch[d] /\ err[d] = "none" /\ d # activeCallByNode[n]
    BY DEF Inv, QueueInv, QueueOK
  <2>2. pc'[d] = pc[d] /\ nonce'[d] = nonce[d] /\ ch'[d] = ch[d] /\ err'[d] = err[d]
    BY Zenon, <1>1
  <2>3. d # activeCallByNode'[n]
    BY <1>1, <2>1, DispatchAssumption
  <2> QED
    BY <2>1, <2>2, <2>3, Zenon
<1> QED
  BY <1>2 DEF Inv, QueueInv, QueueOK

(* The first call of a queue, and what remains.                            *)
LEMMA FirstOfQueue ==
  ASSUME NEW queue \in [Node -> Seq(Call)], NEW n \in Node, queue[n] # <<>>
  PROVE  /\ Head(queue[n]) = queue[n][1] /\ 1 \in 1 .. Len(queue[n])
         /\ Head(queue[n]) \in Call
         /\ Tail(queue[n]) \in Seq(Call)
         /\ Len(Tail(queue[n])) = Len(queue[n]) - 1
         /\ \A i \in 1 .. Len(Tail(queue[n])) :
              i + 1 \in 1 .. Len(queue[n]) /\ Tail(queue[n])[i] = queue[n][i + 1]
OBVIOUS

(* Taking the first call out of a queue leaves the queues in order, even   *)
(* if it is given a nonce or an error, or becomes active.                  *)
LEMMA QueueShrinks ==
  ASSUME NEW queue \in [Node -> Seq(Call)], NEW active, NEW p,
         NEW n \in Node, queue[n] # <<>>,
         QueueOK(queue, active, p),
         callQueue' = [queue EXCEPT ![n] = Tail(queue[n])],
         \A m \in Node : activeCallByNode'[m] \in {active[m], Head(queue[n])},
         \A d \in Call \ {Head(queue[n])} :
            pc'[d] = p[d] /\ nonce'[d] = nonce[d] /\ ch'[d] = ch[d] /\ err'[d] = err[d]
  PROVE  QueueInv'
<1> DEFINE h == Head(queue[n])
<1>1. /\ h = queue[n][1] /\ 1 \in 1 .. Len(queue[n]) /\ h \in Call
      /\ Tail(queue[n]) \in Seq(Call)
      /\ Len(Tail(queue[n])) = Len(queue[n]) - 1
      /\ \A i \in 1 .. Len(Tail(queue[n])) :
           i + 1 \in 1 .. Len(queue[n]) /\ Tail(queue[n])[i] = queue[n][i + 1]
  BY Zenon, FirstOfQueue
<1>2. ASSUME NEW m \in Node, NEW i \in 1 .. Len(callQueue'[m])
      PROVE  \E k \in 1 .. Len(queue[m]) :
               /\ callQueue'[m][i] = queue[m][k]
               /\ m = n => k = i + 1
               /\ m # n => k = i
  <2>1. CASE m = n
    BY Zenon, <1>1, <2>1
  <2>2. CASE m # n
    BY Zenon, <2>2
  <2> QED
    BY Zenon, <2>1, <2>2
<1>3. ASSUME NEW m \in Node, NEW k \in 1 .. Len(queue[m]), m = n => k # 1
      PROVE  queue[m][k] \in Call \ {h}
  <2>1. queue[m][k] \in Call
    BY Zenon, QueueElements
  <2>2. CASE m = n
    BY <1>1, <1>3, <2>1, <2>2 DEF QueueOK
  <2>3. CASE m # n
    <3>1. NodeOf[queue[m][k]] = m
      BY DEF QueueOK
    <3>2. NodeOf[queue[n][1]] = n
      BY SMTT(30), <1>1 DEF QueueOK
    <3> QED
      BY Zenon, <1>1, <2>1, <2>3, <3>1, <3>2
  <2> QED
    BY Zenon, <2>2, <2>3
<1>4. ASSUME NEW m \in Node, NEW i \in 1 .. Len(callQueue'[m])
      PROVE  /\ NodeOf[callQueue'[m][i]] = m
             /\ pc'[callQueue'[m][i]] = "waiting"
             /\ nonce'[callQueue'[m][i]] = 0
             /\ ~ch'[callQueue'[m][i]]
             /\ err'[callQueue'[m][i]] = "none"
             /\ callQueue'[m][i] # activeCallByNode'[m]
  <2>1. PICK k \in 1 .. Len(queue[m]) :
          /\ callQueue'[m][i] = queue[m][k]
          /\ m = n => k = i + 1
          /\ m # n => k = i
    BY Zenon, <1>2
  <2>2. i \in Nat \ {0}
    <3>1. callQueue'[m] \in Seq(Call)
      BY Zenon, <1>1
    <3> QED
      BY <3>1
  <2>3. queue[m][k] \in Call \ {h}
    BY <1>3, <2>1, <2>2
  <2> DEFINE d == queue[m][k]
  <2>4. /\ NodeOf[d] = m /\ p[d] = "waiting" /\ nonce[d] = 0
        /\ ~ch[d] /\ err[d] = "none" /\ d # active[m]
    BY DEF QueueOK
  <2>5. pc'[d] = p[d] /\ nonce'[d] = nonce[d] /\ ch'[d] = ch[d] /\ err'[d] = err[d]
    BY Zenon, <2>3
  <2>6. d # activeCallByNode'[m]
    BY Zenon, <2>3, <2>4
  <2> QED
    BY <2>1, <2>4, <2>5, <2>6, Zenon
<1>5. ASSUME NEW m \in Node, NEW i \in 1 .. Len(callQueue'[m]),
             NEW j \in 1 .. Len(callQueue'[m]),
             callQueue'[m][i] = callQueue'[m][j]
      PROVE  i = j
  <2>1. PICK k \in 1 .. Len(queue[m]) :
          callQueue'[m][i] = queue[m][k] /\ (m = n => k = i + 1) /\ (m # n => k = i)
    BY Zenon, <1>2
  <2>2. PICK l \in 1 .. Len(queue[m]) :
          callQueue'[m][j] = queue[m][l] /\ (m = n => l = j + 1) /\ (m # n => l = j)
    BY Zenon, <1>2
  <2>3. k = l
    BY <1>5, <2>1, <2>2 DEF QueueOK
  <2>4. i \in Nat /\ j \in Nat
    <3>1. callQueue'[m] \in Seq(Call)
      BY Zenon, <1>1
    <3> QED
      BY <3>1
  <2> QED
    BY <2>1, <2>2, <2>3, <2>4
<1> QED
  BY Zenon, <1>4, <1>5 DEF QueueInv, QueueOK

---------------------------------------------------------------------------
(* Sending *)

(* startResponseTimeout leaves the call with one running timer, its        *)
(* current one.                                                            *)
LEMMA TimeoutRestarted ==
  ASSUME TypeOK, NEW c \in Call, NEW running \in SUBSET Timer, TimerOK(running),
         startResponseTimeout(c, running), firing' = firing
  PROVE  /\ TimerOK(armed)'
         /\ \A t \in armed' : t \in running \/ t[1] = c
BY DEF TypeOK, TimerOK, startResponseTimeout, Timer

(* sendCall changes the nonce of the call it sends, and no other.          *)
LEMMA NoncesKept ==
  ASSUME TypeOK, NEW c \in Call, NEW auth, NEW running, sendCall(c, auth, running)
  PROVE  \A d \in Call \ {c} : nonce'[d] = nonce[d]
BY Zenon DEF TypeOK, sendCall

(* sendCall keeps activeCallByAuth in order, if the entries of the call    *)
(* are under its old nonce, and only a handshake leaves one behind.        *)
LEMMA AuthSent ==
  ASSUME TypeOK, NEW c \in Call,
         NEW auth \in SUBSET (Nat \X Call), NEW running,
         NEW active \in [Node -> Call \cup {NoCall}],
         AuthOK(auth, active),
         \A m \in Node : active[m] # NoCall => NodeOf[active[m]] = m,
         \A d \in Call : nonce[d] < nextNonce,
         nonce[c] # 0 => <<nonce[c], c>> \in auth,
         \A e \in auth : e[2] = c =>
           e[1] = nonce[c] /\ (nonce[c] = 0 => handshakeCount'[c] = 1),
         \A d \in Call \ {c} : handshakeCount'[d] = handshakeCount[d],
         sendCall(c, auth, running),
         activeCallByNode' = [active EXCEPT ![NodeOf[c]] = c],
         active[NodeOf[c]] \in {c, NoCall}
  PROVE  AuthInv'
<1> USE DispatchAssumption
<1>1. PICK n \in {nextNonce} \cup (IF EncodeErrors THEN {0} ELSE {}) :
        /\ nonce' = [nonce EXCEPT ![c] = n]
        /\ activeCallByAuth' =
             forgetNonce(IF nonce[c] # 0 THEN forgetNonce(auth, nonce[c]) ELSE auth, n)
               \cup {<<n, c>>}
        /\ nextNonce' = IF n = 0 THEN nextNonce ELSE nextNonce + 1
  BY Zenon DEF sendCall
<1>2. n \in Nat /\ nextNonce \in Nat \ {0} /\ nonce \in [Call -> Nat]
  BY DEF TypeOK
<1>3. \A e \in activeCallByAuth' :
        e = <<n, c>> \/ (e \in auth /\ e[1] # n /\ (nonce[c] # 0 => e[1] # nonce[c]))
  BY Zenon, <1>1 DEF forgetNonce
<1>4. \A e \in activeCallByAuth' :
        e = <<n, c>> \/ (e \in auth /\ e[1] # n /\ (e[2] = c => e[1] = 0 /\ handshakeCount'[c] = 1))
  BY Zenon, <1>3
<1>5. n = 0 => EncodeErrors
  BY Zenon, <1>1, <1>2
<1>6. ASSUME NEW e \in activeCallByAuth'
      PROVE  EntryOK(e, activeCallByNode)' /\ (e[1] = 0 => EncodeErrors)
  <2>1. CASE e = <<n, c>>
    BY Zenon, <1>1, <1>2, <1>5, <2>1 DEF EntryOK
  <2>2. CASE e # <<n, c>>
    <3>1. /\ e \in auth /\ e[2] \in Call /\ EntryOK(e, active) /\ (e[1] = 0 => EncodeErrors)
          /\ e[2] = c => e[1] = 0 /\ handshakeCount'[c] = 1
      BY Zenon, <1>4, <2>2 DEF AuthOK
    <3>2. CASE e[2] = c
      BY Zenon, <3>1, <3>2 DEF EntryOK
    <3>3. CASE e[2] # c
      <4>1. nonce'[e[2]] = nonce[e[2]] /\ handshakeCount'[e[2]] = handshakeCount[e[2]]
        BY Zenon, <1>1, <1>2, <3>1, <3>3
      <4>2. active[NodeOf[e[2]]] = e[2] => activeCallByNode'[NodeOf[e[2]]] = e[2]
        BY Zenon, <3>1, <3>3
      <4> QED
        BY Zenon, <3>1, <4>1, <4>2 DEF EntryOK
    <3> QED
      BY Zenon, <3>2, <3>3
  <2> QED
    BY Zenon, <2>1, <2>2
<1>7. \A e, f \in activeCallByAuth' : e[1] = f[1] => e[2] = f[2]
  BY <1>4 DEF AuthOK
<1>8. ASSUME NEW m \in Node, activeCallByNode'[m] # NoCall
      PROVE  CallOK(m, activeCallByAuth, activeCallByNode)'
  <2>1. CASE m = NodeOf[c]
    BY Zenon, <1>1, <1>2, <2>1 DEF CallOK
  <2>2. CASE m # NodeOf[c]
    <3> DEFINE d == active[m]
    <3>1. d \in Call /\ d # c /\ activeCallByNode'[m] = d /\ CallOK(m, auth, active)
      BY Zenon, <1>8, <2>2 DEF AuthOK
    <3>2. nonce'[d] = nonce[d] /\ nonce[d] \in Nat /\ nonce[d] < nextNonce
      BY Zenon, <1>1, <1>2, <3>1
    <3>3. CASE nonce[d] = 0 /\ EncodeErrors
      BY Zenon, <3>1, <3>2, <3>3 DEF CallOK
    <3>4. CASE <<nonce[d], d>> \in auth /\ ~(nonce[d] = 0 /\ EncodeErrors)
      <4>1. nonce[d] # n
        BY <1>1, <1>2, <1>5, <3>2, <3>4
      <4>2. nonce[c] # 0 => nonce[d] # nonce[c]
        BY Zenon, <3>1, <3>4 DEF AuthOK
      <4>3. <<nonce[d], d>> \in activeCallByAuth'
        BY Zenon, <1>1, <3>4, <4>1, <4>2 DEF forgetNonce
      <4> QED
        BY Zenon, <3>1, <3>2, <4>3 DEF CallOK
    <3> QED
      BY Zenon, <3>1, <3>3, <3>4 DEF CallOK
  <2> QED
    BY Zenon, <2>1, <2>2
<1>9. \A d \in Call : nonce'[d] < nextNonce'
  BY <1>1, <1>2
<1> QED
  BY Zenon, <1>6, <1>7, <1>8, <1>9 DEF AuthInv, AuthOK

(* sendNextCall leaves the queues in order.                                *)
LEMMA SendNextQueue ==
  ASSUME TypeOK, NEW n \in Node,
         NEW queue \in [Node -> Seq(Call)],
         NEW active \in [Node -> Call \cup {NoCall}], NEW auth, NEW running,
         QueueOK(queue, active, pc'),
         sendNextCall(n, queue, active, auth, running),
         UNCHANGED <<ch, err>>
  PROVE  QueueInv'
<1>1. CASE queue[n] = <<>> \/ active[n] # NoCall
  BY <1>1 DEF sendNextCall, QueueInv, QueueOK
<1>2. CASE ~(queue[n] = <<>> \/ active[n] # NoCall)
  <2>1. /\ activeCallByNode' = [active EXCEPT ![n] = Head(queue[n])]
        /\ callQueue' = [queue EXCEPT ![n] = Tail(queue[n])]
        /\ sendCall(Head(queue[n]), auth, running)
        /\ queue[n] # <<>>
    BY Zenon, <1>2 DEF sendNextCall
  <2>2. Head(queue[n]) \in Call
    BY Zenon, <2>1, FirstOfQueue
  <2>3. \A d \in Call \ {Head(queue[n])} : nonce'[d] = nonce[d]
    BY Zenon, <2>1, <2>2, NoncesKept
  <2>4. \A m \in Node : activeCallByNode'[m] \in {active[m], Head(queue[n])}
    BY Zenon, <2>1
  <2> QED
    BY Zenon, <2>1, <2>3, <2>4, QueueShrinks
<1> QED
  BY Zenon, <1>1, <1>2

(* The call sendNextCall makes active, if any, is at its node, and its     *)
(* goroutine waits.                                                        *)
LEMMA SendNextActive ==
  ASSUME NEW n \in Node,
         NEW queue \in [Node -> Seq(Call)],
         NEW active \in [Node -> Call \cup {NoCall}], NEW auth, NEW running,
         QueueOK(queue, active, pc'), ActiveOK(active, pc'),
         sendNextCall(n, queue, active, auth, running),
         closed' = closed
  PROVE  ActiveInv'
<1>1. CASE queue[n] = <<>> \/ active[n] # NoCall
  BY Zenon, <1>1 DEF sendNextCall, ActiveInv, ActiveOK
<1>2. CASE ~(queue[n] = <<>> \/ active[n] # NoCall)
  <2>1. activeCallByNode' = [active EXCEPT ![n] = Head(queue[n])]
    BY Zenon, <1>2 DEF sendNextCall
  <2>2. NodeOf[Head(queue[n])] = n /\ pc'[Head(queue[n])] = "waiting"
    BY <1>2, FirstOfQueue DEF QueueOK
  <2> QED
    BY Zenon, <2>1, <2>2 DEF ActiveInv, ActiveOK
<1> QED
  BY Zenon, <1>1, <1>2

(* sendNextCall loses no call: one that was active stays so, one that was  *)
(* queued stays queued or becomes active.                                  *)
LEMMA SendNextPlaces ==
  ASSUME NEW n \in Node,
         NEW queue \in [Node -> Seq(Call)],
         NEW active \in [Node -> Call \cup {NoCall}], NEW auth, NEW running,
         sendNextCall(n, queue, active, auth, running), NEW d \in Call
  PROVE  /\ active[NodeOf[d]] = d => Active(d)'
         /\ (\E i \in 1 .. Len(queue[NodeOf[d]]) : queue[NodeOf[d]][i] = d)
              => Active(d)' \/ Queued(d)'
<1> USE DispatchAssumption
<1>1. CASE queue[n] = <<>> \/ active[n] # NoCall
  BY Zenon, <1>1 DEF sendNextCall, Active, Queued
<1>2. CASE ~(queue[n] = <<>> \/ active[n] # NoCall)
  <2>1. /\ activeCallByNode' = [active EXCEPT ![n] = Head(queue[n])]
        /\ callQueue' = [queue EXCEPT ![n] = Tail(queue[n])]
    BY Zenon, <1>2 DEF sendNextCall
  <2>2. active[NodeOf[d]] = d => Active(d)'
    BY Zenon, <1>2, <2>1 DEF Active
  <2>3. ASSUME NEW i \in 1 .. Len(queue[NodeOf[d]]), queue[NodeOf[d]][i] = d
        PROVE  Active(d)' \/ Queued(d)'
    <3>1. CASE NodeOf[d] # n
      BY Zenon, <2>1, <2>3, <3>1 DEF Queued
    <3>2. CASE NodeOf[d] = n /\ i = 1
      BY Zenon, <1>2, <2>1, <2>3, <3>2, FirstOfQueue DEF Active
    <3>3. CASE NodeOf[d] = n /\ i # 1
      <4>1. /\ i - 1 \in 1 .. Len(Tail(queue[n]))
            /\ Tail(queue[n])[i - 1] = queue[n][i]
        BY <1>2, <3>3
      <4> QED
        BY Zenon, <2>1, <2>3, <3>3, <4>1 DEF Queued
    <3> QED
      BY Zenon, <3>1, <3>2, <3>3
  <2> QED
    BY Zenon, <2>2, <2>3
<1> QED
  BY Zenon, <1>1, <1>2

(* sendNextCall keeps activeCallByAuth a map to the active calls.          *)
LEMMA SendNextAuth ==
  ASSUME TypeOK, NEW n \in Node,
         NEW queue \in [Node -> Seq(Call)],
         NEW active \in [Node -> Call \cup {NoCall}],
         NEW auth \in SUBSET (Nat \X Call), NEW running,
         QueueOK(queue, active, pc'), ActiveOK(active, pc'), AuthOK(auth, active),
         \A d \in Call : nonce[d] < nextNonce,
         \A i \in 1 .. Len(queue[n]) : handshakeCount[queue[n][i]] = 0,
         handshakeCount' = handshakeCount,
         sendNextCall(n, queue, active, auth, running)
  PROVE  AuthInv'
<1>1. CASE queue[n] = <<>> \/ active[n] # NoCall
  BY Zenon, <1>1 DEF sendNextCall, AuthInv, AuthOK, EntryOK, CallOK
<1>2. CASE ~(queue[n] = <<>> \/ active[n] # NoCall)
  <2> DEFINE h == Head(queue[n])
  <2>1. /\ activeCallByNode' = [active EXCEPT ![n] = h]
        /\ sendCall(h, auth, running)
    BY Zenon, <1>2 DEF sendNextCall
  <2>2. h \in Call /\ NodeOf[h] = n /\ nonce[h] = 0 /\ handshakeCount[h] = 0
    BY <1>2, FirstOfQueue DEF QueueOK
  <2>3. ASSUME NEW e \in auth, e[2] = h PROVE FALSE
    <3> HIDE DEF h
    <3>1. EntryOK(e, active)
      BY Zenon DEF AuthOK
    <3>2. active[NodeOf[h]] # h
      BY Zenon, <1>2, <2>2, DispatchAssumption
    <3> QED
      BY <2>2, <2>3, <3>1, <3>2 DEF EntryOK
  <2>4. \A m \in Node : active[m] # NoCall => NodeOf[active[m]] = m
    BY Zenon DEF ActiveOK
  <2> HIDE DEF h
  <2> QED
    BY Zenon, <1>2, <2>1, <2>2, <2>3, <2>4, AuthSent
<1> QED
  BY Zenon, <1>1, <1>2

(* sendNextCall keeps the timers those of active calls.                    *)
LEMMA SendNextTimers ==
  ASSUME TypeOK, NEW n \in Node,
         NEW queue \in [Node -> Seq(Call)],
         NEW active \in [Node -> Call \cup {NoCall}],
         NEW auth, NEW running \in SUBSET Timer,
         QueueOK(queue, active, pc'), TimerOK(running),
         \A t \in running : active[NodeOf[t[1]]] = t[1],
         sendNextCall(n, queue, active, auth, running), firing' = firing
  PROVE  TimerOK(armed)' /\ \A t \in armed' : Active(t[1])'
<1> USE DispatchAssumption
<1>1. CASE queue[n] = <<>> \/ active[n] # NoCall
  BY Zenon, <1>1 DEF sendNextCall, TimerOK, Active
<1>2. CASE ~(queue[n] = <<>> \/ active[n] # NoCall)
  <2> DEFINE h == Head(queue[n])
  <2>1. /\ activeCallByNode' = [active EXCEPT ![n] = h]
        /\ startResponseTimeout(h, running)
    BY Zenon, <1>2 DEF sendNextCall, sendCall
  <2>2. h \in Call /\ NodeOf[h] = n
    BY <1>2, FirstOfQueue DEF QueueOK
  <2>3. TimerOK(armed)' /\ \A t \in armed' : t \in running \/ t[1] = h
    BY Zenon, <2>1, <2>2, TimeoutRestarted
  <2>4. \A t \in running : t[1] \in Call
    BY Zenon DEF Timer
  <2> HIDE DEF h
  <2> QED
    BY Zenon, <1>2, <2>1, <2>2, <2>3, <2>4 DEF Active
<1> QED
  BY Zenon, <1>1, <1>2

(* The only nonce sendNextCall changes is that of a call that waited.      *)
LEMMA SendNextNonce ==
  ASSUME TypeOK, NEW n \in Node,
         NEW queue \in [Node -> Seq(Call)],
         NEW active \in [Node -> Call \cup {NoCall}], NEW auth, NEW running,
         QueueOK(queue, active, pc'),
         sendNextCall(n, queue, active, auth, running)
  PROVE  \A d \in Call : nonce'[d] # nonce[d] => pc'[d] = "waiting"
<1>1. CASE queue[n] = <<>> \/ active[n] # NoCall
  BY Zenon, <1>1 DEF sendNextCall
<1>2. CASE ~(queue[n] = <<>> \/ active[n] # NoCall)
  <2>1. sendCall(Head(queue[n]), auth, running)
    BY Zenon, <1>2 DEF sendNextCall
  <2>2. Head(queue[n]) \in Call /\ pc'[Head(queue[n])] = "waiting"
    BY <1>2, FirstOfQueue DEF QueueOK
  <2> QED
    BY Zenon, <2>1, <2>2, NoncesKept
<1> QED
  BY Zenon, <1>1, <1>2

(* After call c is appended to its queue, c and the calls queued before    *)
(* are in their queues.                                                    *)
LEMMA EnqueuedIndex ==
  ASSUME TypeOK, NEW c \in Call, NEW d \in Call, Queued(d) \/ d = c
  PROVE  LET queue == [callQueue EXCEPT ![NodeOf[c]] = Append(@, c)]
         IN \E i \in 1 .. Len(queue[NodeOf[d]]) : queue[NodeOf[d]][i] = d
<1> USE DispatchAssumption
<1> DEFINE n == NodeOf[c]
           queue == [callQueue EXCEPT ![n] = Append(@, c)]
<1>1. n \in Node /\ NodeOf[d] \in Node /\ callQueue \in [Node -> Seq(Call)]
  BY Zenon DEF TypeOK
<1>2. CASE d = c
  <2>1. /\ Len(callQueue[n]) + 1 \in 1 .. Len(queue[n])
        /\ queue[n][Len(callQueue[n]) + 1] = c
    BY <1>1
  <2> QED
    BY Zenon, <1>2, <2>1
<1>3. CASE Queued(d)
  <2>1. PICK i \in 1 .. Len(callQueue[NodeOf[d]]) : callQueue[NodeOf[d]][i] = d
    BY Zenon, <1>3 DEF Queued
  <2>2. i \in 1 .. Len(queue[NodeOf[d]]) /\ queue[NodeOf[d]][i] = d
    BY <1>1, <2>1
  <2> QED
    BY Zenon, <2>2
<1> QED
  BY Zenon, <1>2, <1>3

(* A new call at the end of its queue.                                     *)
LEMMA Enqueued ==
  ASSUME Inv, NEW c \in Call, pc[c] = "calling", pc' = [pc EXCEPT ![c] = "waiting"]
  PROVE  /\ QueueOK([callQueue EXCEPT ![NodeOf[c]] = Append(@, c)], activeCallByNode, pc')
         /\ ActiveOK(activeCallByNode, pc')
<1> USE DispatchAssumption DEF Inv
<1> DEFINE n == NodeOf[c]
           queue == [callQueue EXCEPT ![n] = Append(@, c)]
<1>1. ~ch[c] /\ err[c] = "none" /\ nonce[c] = 0
  BY Zenon DEF CallerInv, CallerOK
<1>2. \A m \in Node : activeCallByNode[m] # c
  BY Zenon DEF ActiveInv, ActiveOK
<1>3. \A m \in Node : \A i \in 1 .. Len(callQueue[m]) : callQueue[m][i] # c
  BY Zenon, NotQueued
<1>4. n \in Node /\ callQueue \in [Node -> Seq(Call)]
  BY Zenon DEF TypeOK
<1>5. /\ Len(queue[n]) = Len(callQueue[n]) + 1
      /\ queue[n][Len(callQueue[n]) + 1] = c
      /\ \A i \in 1 .. Len(callQueue[n]) : queue[n][i] = callQueue[n][i]
  BY <1>4
<1>6. \A m \in Node \ {n} : queue[m] = callQueue[m]
  BY Zenon, <1>4
<1>7. \A m \in Node : \A i \in 1 .. Len(queue[m]) :
        \/ m = n /\ i = Len(callQueue[n]) + 1 /\ queue[m][i] = c
        \/ i \in 1 .. Len(callQueue[m]) /\ queue[m][i] = callQueue[m][i]
  BY <1>4, <1>5, <1>6
<1> HIDE DEF queue
<1>8. \A m \in Node : \A i \in 1 .. Len(callQueue[m]) : callQueue[m][i] \in Call
  BY <1>4
<1>9. QueueOK(queue, activeCallByNode, pc')
  <2>1. \A d \in Call \ {c} : pc'[d] = pc[d]
    BY Zenon DEF TypeOK
  <2>2. pc'[c] = "waiting"
    BY Zenon DEF TypeOK
  <2>3. ASSUME NEW m \in Node, NEW i \in 1 .. Len(queue[m])
        PROVE  /\ NodeOf[queue[m][i]] = m
               /\ pc'[queue[m][i]] = "waiting"
               /\ nonce[queue[m][i]] = 0
               /\ ~ch[queue[m][i]]
               /\ err[queue[m][i]] = "none"
               /\ queue[m][i] # activeCallByNode[m]
    <3>1. CASE m = n /\ queue[m][i] = c
      BY <1>1, <1>2, <2>2, <3>1, Zenon
    <3>2. CASE i \in 1 .. Len(callQueue[m]) /\ queue[m][i] = callQueue[m][i]
      <4> DEFINE d == callQueue[m][i]
      <4>1. d \in Call \ {c} /\ queue[m][i] = d
        BY Zenon, <1>3, <1>8, <3>2
      <4>2. /\ NodeOf[d] = m /\ pc[d] = "waiting" /\ nonce[d] = 0
            /\ ~ch[d] /\ err[d] = "none" /\ d # activeCallByNode[m]
        BY SMTT(30), <3>2 DEF QueueInv, QueueOK
      <4> HIDE DEF d
      <4> QED
        BY <2>1, <4>1, <4>2, Zenon
    <3> QED
      BY Zenon, <1>7, <3>1, <3>2
  <2>4. ASSUME NEW m \in Node, NEW i \in 1 .. Len(queue[m]), NEW j \in 1 .. Len(queue[m]),
               queue[m][i] = queue[m][j]
        PROVE  i = j
    BY SMTT(30), <1>3, <1>7, <2>4 DEF QueueInv, QueueOK
  <2> QED
    BY Zenon, <2>3, <2>4 DEF QueueOK
<1>10. ActiveOK(activeCallByNode, pc')
  BY <1>2 DEF TypeOK, ActiveInv, ActiveOK
<1> QED
  BY Zenon, <1>9, <1>10 DEF queue

(* A call that waits for its turn has not been challenged.                 *)
LEMMA Unchallenged ==
  ASSUME Inv, NEW c \in Call, ~Active(c), err[c] = "none",
         pc[c] \notin {"done", "returned"}
  PROVE  handshakeCount[c] = 0
BY Zenon DEF Inv, HandshakeInv

(* That goes for every call of a queue.                                    *)
LEMMA QueueUnchallenged ==
  ASSUME Inv, NEW queue \in [Node -> Seq(Call)], NEW p,
         QueueOK(queue, activeCallByNode, p),
         \A c \in Call : p[c] = "waiting" => pc[c] \notin {"done", "returned"},
         NEW n \in Node, NEW i \in 1 .. Len(queue[n])
  PROVE  handshakeCount[queue[n][i]] = 0
<1> DEFINE q == queue[n][i]
<1>1. q \in Call
  BY Zenon, QueueElements
<1>2. NodeOf[q] = n /\ q # activeCallByNode[n] /\ err[q] = "none" /\ p[q] = "waiting"
  BY DEF QueueOK
<1> HIDE DEF q
<1>3. ~Active(q) /\ pc[q] \notin {"done", "returned"}
  BY Zenon, <1>1, <1>2 DEF Active
<1>4. handshakeCount[q] = 0
  BY Zenon, <1>1, <1>2, <1>3, Unchallenged
<1> QED
  BY Zenon, <1>4 DEF q

(* Nor has one that dispatch has not received yet.                         *)
LEMMA Unstarted ==
  ASSUME Inv, NEW c \in Call, pc[c] \in {"idle", "calling"}
  PROVE  handshakeCount[c] = 0
<1>1. ASSUME Active(c) PROVE FALSE
  <2>1. NodeOf[c] \in Node /\ activeCallByNode[NodeOf[c]] = c /\ c # NoCall
    BY Zenon, <1>1, DispatchAssumption DEF Active
  <2>2. pc[c] \in {"waiting", "done", "returned"}
    BY Zenon, <2>1 DEF Inv, ActiveInv, ActiveOK
  <2> QED
    BY Zenon, <2>2
<1>2. err[c] = "none"
  BY Zenon DEF Inv, CallerInv, CallerOK
<1> QED
  BY Zenon, <1>1, <1>2, Unchallenged

(* Forgetting the nonce of one active call loses no other active call but  *)
(* one whose Encode failed.                                                *)
LEMMA OthersKept ==
  ASSUME AuthOK(activeCallByAuth, activeCallByNode), NEW n \in Node, NEW m \in Node,
         activeCallByNode[n] # NoCall, activeCallByNode[m] # NoCall,
         activeCallByNode[m] # activeCallByNode[n]
  PROVE  CallOK(m, forgetNonce(activeCallByAuth, nonce[activeCallByNode[n]]), activeCallByNode)
<1> DEFINE c == activeCallByNode[n]
           d == activeCallByNode[m]
<1>1. CallOK(n, activeCallByAuth, activeCallByNode) /\ CallOK(m, activeCallByAuth, activeCallByNode)
  BY Zenon DEF AuthOK
<1>2. CASE <<nonce[d], d>> \in activeCallByAuth /\ ~(nonce[d] = 0 /\ EncodeErrors)
  <2>1. nonce[d] # nonce[c]
    BY Zenon, <1>1, <1>2 DEF AuthOK, CallOK
  <2> QED
    BY Zenon, <1>2, <2>1 DEF CallOK, forgetNonce
<1> QED
  BY Zenon, <1>1, <1>2 DEF CallOK

(* The tables between the end of a call and the next one.                  *)
LEMMA Finished ==
  ASSUME Inv, NEW c \in Call, pc' = [pc EXCEPT ![c] = "returned"],
         dpc = "select", Active(c)
  PROVE  LET active == [activeCallByNode EXCEPT ![NodeOf[c]] = NoCall]
             auth == forgetNonce(activeCallByAuth, nonce[c])
             running == armed \ {<<c, timeout[c]>>}
         IN /\ QueueOK(callQueue, active, pc') /\ ActiveOK(active, pc')
            /\ AuthOK(auth, active)
            /\ TimerOK(running) /\ \A t \in running : active[NodeOf[t[1]]] = t[1]
<1> USE DispatchAssumption DEF Inv
<1> DEFINE n == NodeOf[c]
           active == [activeCallByNode EXCEPT ![n] = NoCall]
           auth == forgetNonce(activeCallByAuth, nonce[c])
           running == armed \ {<<c, timeout[c]>>}
<1>1. n \in Node /\ activeCallByNode[n] = c
  BY Zenon DEF Active
<1>2. /\ active[n] = NoCall
      /\ \A m \in Node \ {n} : active[m] = activeCallByNode[m]
  BY Zenon, <1>1 DEF TypeOK
<1>3. \A d \in Call \ {c} : pc'[d] = pc[d]
  BY Zenon DEF TypeOK
<1>4. \A d \in Call : activeCallByNode[NodeOf[d]] = d /\ d # c => NodeOf[d] # n
  BY Zenon, <1>1
<1>5. QueueOK(callQueue, active, pc')
  <2>1. \A m \in Node : \A i \in 1 .. Len(callQueue[m]) : callQueue[m][i] \in Call \ {c}
    BY Zenon, NotQueued, QueueElements DEF TypeOK
  <2> QED
    BY <1>2, <1>3, <2>1 DEF QueueInv, QueueOK
<1>6. ActiveOK(active, pc')
  BY SMTT(30), <1>1, <1>2, <1>3 DEF TypeOK, ActiveInv, ActiveOK
<1>7. AuthOK(auth, active)
  <2>1. \A e \in auth : e \in activeCallByAuth /\ e[1] # nonce[c]
    BY Zenon DEF forgetNonce
  <2>2. \A e \in auth : activeCallByNode[NodeOf[e[2]]] = e[2] /\ nonce[e[2]] = e[1] =>
          active[NodeOf[e[2]]] = e[2]
    BY SMTT(30), <1>2, <1>4, <2>1 DEF TypeOK
  <2>3. \A e \in auth : EntryOK(e, active) /\ (e[1] = 0 => EncodeErrors)
    BY Zenon, <2>1, <2>2 DEF AuthInv, AuthOK, EntryOK
  <2>4. \A e, f \in auth : e[1] = f[1] => e[2] = f[2]
    BY Zenon, <2>1 DEF AuthInv, AuthOK
  <2>5. ASSUME NEW m \in Node, active[m] # NoCall
        PROVE  CallOK(m, auth, active)
    <3>1. m # n /\ active[m] = activeCallByNode[m] /\ active[m] # c
      BY Zenon, <1>2, <2>5 DEF ActiveInv, ActiveOK
    <3> QED
      BY Zenon, <1>1, <2>5, <3>1, OthersKept DEF CallOK, AuthInv
  <2> QED
    BY Zenon, <2>3, <2>4, <2>5 DEF AuthOK
<1>8. TimerOK(running)
  BY Zenon DEF TimerInv, TimerOK
<1>9. \A t \in running : active[NodeOf[t[1]]] = t[1]
  <2>1. \A t \in running : t[1] \in Call /\ t[1] # c /\ Active(t[1])
    BY DEF TypeOK, Timer, TimerInv, TimerOK
  <2> QED
    BY Zenon, <1>2, <1>4, <2>1 DEF Active
<1> QED
  BY Zenon, <1>5, <1>6, <1>7, <1>8, <1>9

---------------------------------------------------------------------------
(* The queues, the active calls and the callers *)

(* A step that concerns call c, and at most gives another waiting call a   *)
(* new nonce or makes it active, leaves the other callers as they were.    *)
LEMMA CallerKept ==
  ASSUME Inv, NEW c \in Call, CallerOK(c)', closed' <=> closed,
         \A d \in Call \ {c} : pc'[d] = pc[d] /\ ch'[d] = ch[d] /\ err'[d] = err[d],
         \A d \in Call \ {c} : nonce'[d] # nonce[d] => pc'[d] = "waiting",
         \A d \in Call \ {c} : /\ Active(d) => Active(d)'
                               /\ Queued(d) => Active(d)' \/ Queued(d)'
  PROVE  CallerInv'
<1>1. ASSUME NEW d \in Call \ {c} PROVE CallerOK(d)'
  <2>1. CallerOK(d)
    BY Zenon DEF Inv, CallerInv
  <2>2. /\ pc'[d] = pc[d] /\ ch'[d] = ch[d] /\ err'[d] = err[d] /\ (closed' <=> closed)
        /\ nonce'[d] # nonce[d] => pc'[d] = "waiting"
        /\ Active(d) => Active(d)'
        /\ Queued(d) => Active(d)' \/ Queued(d)'
    BY Zenon
  <2>3. pc'[d] = "waiting" => pc'[d] \notin {"idle", "calling"}
    BY Zenon
  <2>4. pc'[d] \in {"idle", "calling"} => ~ch'[d] /\ err'[d] = "none" /\ nonce'[d] = 0
    BY <2>1, <2>2, <2>3, Zenon DEF CallerOK
  <2>5. pc'[d] = "waiting" => err'[d] # "none" \/ Active(d)' \/ Queued(d)'
    BY <2>1, <2>2, Zenon DEF CallerOK
  <2>6. pc'[d] = "waiting" /\ ~closed' /\ (ch'[d] \/ err'[d] # "none") => Active(d)'
    BY <2>1, <2>2, Zenon DEF CallerOK
  <2>7. pc'[d] = "done" /\ ~closed' => Active(d)'
    BY <2>1, <2>2, Zenon DEF CallerOK
  <2> QED
    BY <2>4, <2>5, <2>6, <2>7, Zenon DEF CallerOK
<1> QED
  BY Zenon, <1>1 DEF CallerInv

(* As long as queues and active calls stay, so do the places of calls.     *)
LEMMA PlacesKept ==
  ASSUME callQueue' = callQueue, activeCallByNode' = activeCallByNode, NEW d \in Call
  PROVE  (Queued(d)' <=> Queued(d)) /\ (Active(d)' <=> Active(d))
BY Zenon DEF Queued, Active

(* A new call: it is queued and, when its node has no active call, sent.   *)
LEMMA CallEnters ==
  ASSUME Inv, TypeOK', NEW c \in Call, dispatchCall(c)
  PROVE  QueueInv' /\ ActiveInv' /\ CallerInv' /\ HandshakeInv' /\ AuthInv' /\ TimerInv'
<1> USE DispatchAssumption DEF Inv
<1> DEFINE n == NodeOf[c]
           queue == [callQueue EXCEPT ![n] = Append(@, c)]
<1>1. /\ sendNextCall(n, queue, activeCallByNode, activeCallByAuth, armed)
      /\ pc[c] = "calling" /\ pc' = [pc EXCEPT ![c] = "waiting"]
      /\ UNCHANGED <<ch, err, handshakeCount, closed, dpc, firing>>
      /\ dpc = "select"
  BY Zenon DEF dispatchCall
<1>2. /\ n \in Node /\ queue \in [Node -> Seq(Call)]
      /\ activeCallByNode \in [Node -> Call \cup {NoCall}]
  BY DEF TypeOK
<1>3. QueueOK(queue, activeCallByNode, pc') /\ ActiveOK(activeCallByNode, pc')
  BY Zenon, Enqueued DEF dispatchCall
<1> HIDE DEF n, queue
<1>4. QueueInv'
  BY ZenonT(30), <1>1, <1>2, <1>3, SendNextQueue DEF TypeOK
<1>5. ActiveInv'
  BY ZenonT(30), <1>1, <1>2, <1>3, SendNextActive DEF TypeOK
<1>6. \A d \in Call : Active(d) => Active(d)'
  <2>1. \A d \in Call : Active(d) => activeCallByNode[NodeOf[d]] = d
    BY Zenon DEF Active
  <2> QED
    BY Zenon, <1>1, <1>2, <2>1, SendNextPlaces
<1>7. CallerInv'
  <2>1. \A d \in Call : nonce'[d] # nonce[d] => pc'[d] = "waiting"
    BY Zenon, <1>1, <1>2, <1>3, SendNextNonce DEF TypeOK
  <2>2. \A d \in Call : Queued(d) \/ d = c => Active(d)' \/ Queued(d)'
    <3>1. \A d \in Call : Queued(d) \/ d = c =>
            \E i \in 1 .. Len(queue[NodeOf[d]]) : queue[NodeOf[d]][i] = d
      BY Zenon, EnqueuedIndex DEF queue, n
    <3> QED
      BY ZenonT(30), <1>1, <1>2, <3>1, SendNextPlaces
  <2>3. ~ch[c] /\ err[c] = "none"
    BY Zenon, <1>1 DEF CallerInv, CallerOK
  <2> QED
    <3>1. pc'[c] = "waiting" /\ \A d \in Call \ {c} : pc'[d] = pc[d]
      BY <1>1 DEF TypeOK
    <3>2. CallerOK(c)'
      BY Zenon, <1>1, <2>2, <2>3, <3>1 DEF CallerOK
    <3> QED
      BY Zenon, <1>1, <1>6, <2>1, <2>2, <3>1, <3>2, CallerKept
<1>8. HandshakeInv' /\ AuthInv'
  <2>1. pc'[c] = "waiting" /\ \A d \in Call \ {c} : pc'[d] = pc[d]
    BY <1>1 DEF TypeOK
  <2>2. handshakeCount[c] = 0
    BY Zenon, <1>1, Unstarted
  <2>3. HandshakeInv'
    BY Zenon, <1>1, <1>6, <2>1, <2>2 DEF HandshakeInv
  <2>4. \A i \in 1 .. Len(queue[n]) : handshakeCount[queue[n][i]] = 0
    <3>1. \A d \in Call : pc'[d] = "waiting" => pc[d] \notin {"done", "returned"}
      BY Zenon, <1>1, <2>1
    <3> QED
      BY Zenon, <1>2, <1>3, <3>1, QueueUnchallenged
  <2> QED
    BY ZenonT(30), <1>1, <1>2, <1>3, <2>3, <2>4, SendNextAuth DEF TypeOK, AuthInv
<1>9. TimerInv'
  <2>1. TimerOK(armed) /\ \A t \in armed : activeCallByNode[NodeOf[t[1]]] = t[1]
    BY ZenonT(30), <1>1 DEF TimerInv, Active
  <2>2. TimerOK(armed)' /\ \A t \in armed' : Active(t[1])'
    BY ZenonT(30), <1>1, <1>2, <1>3, <2>1, SendNextTimers DEF TypeOK
  <2> QED
    BY ZenonT(30), <1>1, <2>2 DEF TimerInv, TimeoutIsCurrent
<1> QED
  BY Zenon, <1>4, <1>5, <1>7, <1>8, <1>9

(* A call is done: it leaves the tables, and the next one is sent.         *)
LEMMA CallLeaves ==
  ASSUME Inv, TypeOK', NEW c \in Call, dispatchCallDone(c)
  PROVE  QueueInv' /\ ActiveInv' /\ CallerInv' /\ HandshakeInv' /\ AuthInv' /\ TimerInv'
<1> USE DispatchAssumption DEF Inv
<1> DEFINE n == NodeOf[c]
           active == [activeCallByNode EXCEPT ![n] = NoCall]
           auth == forgetNonce(activeCallByAuth, nonce[c])
           running == armed \ {<<c, timeout[c]>>}
<1>1. /\ sendNextCall(n, callQueue, active, auth, running)
      /\ pc' = [pc EXCEPT ![c] = "returned"]
      /\ UNCHANGED <<ch, err, handshakeCount, closed, dpc, firing>>
      /\ dpc = "select"
      /\ activeCallByNode[n] = c
  BY Zenon DEF dispatchCallDone, CallerInv, CallerOK, Active
<1>2. /\ n \in Node /\ callQueue \in [Node -> Seq(Call)]
      /\ active \in [Node -> Call \cup {NoCall}]
      /\ auth \in SUBSET (Nat \X Call)
      /\ running \in SUBSET Timer
  BY Zenon, ForgetType DEF TypeOK
<1>3. /\ QueueOK(callQueue, active, pc') /\ ActiveOK(active, pc')
      /\ AuthOK(auth, active)
      /\ TimerOK(running) /\ \A t \in running : active[NodeOf[t[1]]] = t[1]
  BY Zenon, <1>1, Finished DEF Active
<1> HIDE DEF n, active, auth, running
<1>4. QueueInv'
  BY Zenon, <1>1, <1>2, <1>3, SendNextQueue
<1>5. ActiveInv'
  BY Zenon, <1>1, <1>2, <1>3, SendNextActive
<1>6. \A d \in Call \ {c} : Active(d) => Active(d)'
  <2>1. \A d \in Call \ {c} : Active(d) => active[NodeOf[d]] = d
    BY <1>1 DEF TypeOK, Active, active, n
  <2> QED
    BY Zenon, <1>1, <1>2, <2>1, SendNextPlaces
<1>7. CallerInv'
  <2>1. \A d \in Call : nonce'[d] # nonce[d] => pc'[d] = "waiting"
    BY Zenon, <1>1, <1>2, <1>3, SendNextNonce
  <2>2. \A d \in Call : Queued(d) => Active(d)' \/ Queued(d)'
    BY Zenon, <1>1, <1>2, SendNextPlaces DEF Queued
  <2> QED
    <3>1. pc'[c] = "returned" /\ \A d \in Call \ {c} : pc'[d] = pc[d]
      BY <1>1 DEF TypeOK
    <3>2. CallerOK(c)'
      BY Zenon, <3>1 DEF CallerOK
    <3> QED
      BY Zenon, <1>1, <1>6, <2>1, <2>2, <3>1, <3>2, CallerKept
<1>8. HandshakeInv' /\ AuthInv'
  <2>1. pc'[c] = "returned" /\ \A d \in Call \ {c} : pc'[d] = pc[d]
    BY <1>1 DEF TypeOK
  <2>2. HandshakeInv'
    BY Zenon, <1>1, <1>6, <2>1 DEF HandshakeInv
  <2>3. \A i \in 1 .. Len(callQueue[n]) : handshakeCount[callQueue[n][i]] = 0
    <3>1. \A d \in Call : pc[d] = "waiting" => pc[d] \notin {"done", "returned"}
      BY Zenon
    <3> QED
      BY Zenon, <1>2, <3>1, QueueUnchallenged DEF QueueInv
  <2> QED
    BY Zenon, <1>1, <1>2, <1>3, <2>2, <2>3, SendNextAuth DEF AuthInv
<1>9. TimerInv'
  <2>1. TimerOK(armed)' /\ \A t \in armed' : Active(t[1])'
    BY Zenon, <1>1, <1>2, <1>3, SendNextTimers
  <2> QED
    BY Zenon, <1>1, <2>1 DEF TimerInv, TimeoutIsCurrent
<1> QED
  BY Zenon, <1>4, <1>5, <1>7, <1>8, <1>9

(* A challenged call is sent again under a new nonce and a new timer.      *)
LEMMA CallResent ==
  ASSUME Inv, TypeOK', NEW m \in 0 .. nextNonce - 1, handleWhoareyou(m)
  PROVE  QueueInv' /\ CallerInv' /\ HandshakeInv' /\ AuthInv' /\ TimerInv'
<1> USE DispatchAssumption DEF Inv
<1>1. PICK c \in matchWithCall(m) :
        /\ handshakeCount' = [handshakeCount EXCEPT ![c] = @ + 1]
        /\ sendCall(c, activeCallByAuth, armed)
  BY Zenon DEF handleWhoareyou
<1>2. /\ c \in Call /\ Active(c) /\ nonce[c] = m /\ <<nonce[c], c>> \in activeCallByAuth
      /\ handshakeCount[c] = 0 /\ handshakeCount' = [handshakeCount EXCEPT ![c] = 1]
  <2>1. c \in Call /\ <<m, c>> \in activeCallByAuth /\ handshakeCount[c] = 0
    BY Zenon, <1>1 DEF matchWithCall
  <2>2. EntryOK(<<m, c>>, activeCallByNode)
    BY Zenon, <2>1 DEF AuthInv, AuthOK
  <2>3. activeCallByNode[NodeOf[c]] = c /\ nonce[c] = m
    BY <2>1, <2>2 DEF EntryOK
  <2>4. handshakeCount' = [handshakeCount EXCEPT ![c] = 1]
    BY <1>1, <2>1 DEF TypeOK
  <2> QED
    BY Zenon, <2>1, <2>3, <2>4 DEF Active
<1>3. QueueInv'
  <2>1. \A d \in Call \ {c} : nonce'[d] = nonce[d]
    BY Zenon, <1>1, <1>2, NoncesKept
  <2>2. \A n \in Node : \A i \in 1 .. Len(callQueue[n]) : callQueue[n][i] # c
    BY Zenon, <1>2, NotQueued
  <2> QED
    BY Zenon, <1>2, <2>1, <2>2, QueueKept DEF handleWhoareyou
<1>4. CallerInv'
  <2>1. \A d \in Call \ {c} : nonce'[d] = nonce[d]
    BY Zenon, <1>1, <1>2, NoncesKept
  <2>2. /\ closed' = closed /\ callQueue' = callQueue /\ pc' = pc /\ ch' = ch /\ err' = err
        /\ activeCallByNode' = activeCallByNode
    BY Zenon DEF handleWhoareyou
  <2>3. CallerOK(c)'
    <3>1. Active(c)'
      BY Zenon, <1>2, <2>2, PlacesKept
    <3>2. pc'[c] \in {"waiting", "done", "returned"}
      BY Zenon, <1>2, <2>2 DEF ActiveInv, ActiveOK, Active
    <3> QED
      BY Zenon, <3>1, <3>2 DEF CallerOK
  <2> QED
    BY Zenon, <1>2, <2>1, <2>2, <2>3, PlacesKept, CallerKept
<1>5. HandshakeInv' /\ AuthInv'
  <2>1. activeCallByNode' = [activeCallByNode EXCEPT ![NodeOf[c]] = c]
    BY Zenon, <1>2 DEF TypeOK, Active, handleWhoareyou
  <2>2. \A k \in Node : activeCallByNode[k] # NoCall => NodeOf[activeCallByNode[k]] = k
    BY Zenon DEF ActiveInv, ActiveOK
  <2>3. /\ handshakeCount'[c] = 1
        /\ \A d \in Call \ {c} : handshakeCount'[d] = handshakeCount[d]
    BY Zenon, <1>2 DEF TypeOK
  <2>4. \A e \in activeCallByAuth : e[2] = c => e[1] = nonce[c]
    BY <1>2 DEF AuthInv, AuthOK, EntryOK
  <2>5. HandshakeInv'
    BY Zenon, <1>2, <2>3 DEF HandshakeInv, Active, handleWhoareyou
  <2>6. AuthInv'
    <3>1. TypeOK /\ c \in Call /\ sendCall(c, activeCallByAuth, armed)
      BY Zenon, <1>1, <1>2
    <3>2. /\ activeCallByNode \in [Node -> Call \cup {NoCall}]
          /\ activeCallByAuth \in SUBSET (Nat \X Call)
          /\ activeCallByNode[NodeOf[c]] \in {c, NoCall}
      BY Zenon, <1>2 DEF TypeOK, Active
    <3>3. /\ AuthOK(activeCallByAuth, activeCallByNode)
          /\ \A d \in Call : nonce[d] < nextNonce
      BY Zenon DEF AuthInv
    <3>4. \A e \in activeCallByAuth : e[2] = c =>
            e[1] = nonce[c] /\ (nonce[c] = 0 => handshakeCount'[c] = 1)
      BY Zenon, <2>3, <2>4
    <3>5. nonce[c] # 0 => <<nonce[c], c>> \in activeCallByAuth
      BY Zenon, <1>2
    <3> HIDE DEF Inv
    <3> QED
      BY ZenonT(30), <2>1, <2>2, <2>3, <3>1, <3>2, <3>3, <3>4, <3>5, AuthSent
  <2> QED
    BY Zenon, <2>5, <2>6
<1>6. TimerInv'
  <2>1. startResponseTimeout(c, armed) /\ armed \in SUBSET Timer
    BY Zenon, <1>1 DEF sendCall, TypeOK
  <2>2. TimerOK(armed)' /\ \A t \in armed' : t \in armed \/ t[1] = c
    BY Zenon, <1>2, <2>1, TimeoutRestarted DEF TimerInv, handleWhoareyou
  <2>3. dpc = "select" /\ dpc' = "rearm" /\ activeCallByNode' = activeCallByNode
    BY Zenon DEF handleWhoareyou, takePacket
  <2> QED
    BY Zenon, <1>2, <2>2, <2>3 DEF TimerInv, TimeoutIsCurrent, Active
<1> QED
  BY Zenon, <1>3, <1>4, <1>5, <1>6

---------------------------------------------------------------------------
(* One lemma for each conjunct of the invariant *)

(* Every step leaves the queues in order.                                  *)
LEMMA QueueInvStep ==
  ASSUME Inv, [Next]_vars, TypeOK'
  PROVE  QueueInv'
<1> USE DispatchAssumption DEF Inv
<1>1. ASSUME UNCHANGED <<callQueue, activeCallByNode, pc, nonce, ch, err>> PROVE QueueInv'
  BY SMTT(30), <1>1 DEF QueueInv, QueueOK
<1>2. ASSUME NEW c \in Call, call(c) PROVE QueueInv'
  <2>1. \A n \in Node : \A i \in 1 .. Len(callQueue[n]) : callQueue[n][i] # c
    BY Zenon, <1>2, NotQueued DEF call
  <2>2. /\ callQueue' = callQueue /\ activeCallByNode' = activeCallByNode
        /\ \A d \in Call \ {c} :
             pc'[d] = pc[d] /\ nonce'[d] = nonce[d] /\ ch'[d] = ch[d] /\ err'[d] = err[d]
    BY <1>2 DEF TypeOK, call, callVars
  <2> QED
    BY Zenon, <2>1, <2>2, QueueKept
<1>3. ASSUME NEW c \in Call, dispatchCall(c) PROVE QueueInv'
  BY Zenon, <1>3, CallEnters
<1>4. ASSUME NEW c \in Call, callClosed(c) PROVE QueueInv'
  <2>1. \A n \in Node : \A i \in 1 .. Len(callQueue[n]) : callQueue[n][i] # c
    BY Zenon, <1>4, NotQueued DEF callClosed
  <2>2. /\ callQueue' = callQueue /\ activeCallByNode' = activeCallByNode
        /\ \A d \in Call \ {c} :
             pc'[d] = pc[d] /\ nonce'[d] = nonce[d] /\ ch'[d] = ch[d] /\ err'[d] = err[d]
    BY <1>4 DEF TypeOK, callClosed, callVars
  <2> QED
    BY Zenon, <2>1, <2>2, QueueKept
<1>5. ASSUME NEW c \in Call, receiveResponse(c) PROVE QueueInv'
  <2>1. \A n \in Node : \A i \in 1 .. Len(callQueue[n]) : callQueue[n][i] # c
    BY Zenon, <1>5, NotQueued DEF receiveResponse
  <2>2. /\ callQueue' = callQueue /\ activeCallByNode' = activeCallByNode
        /\ \A d \in Call \ {c} :
             pc'[d] = pc[d] /\ nonce'[d] = nonce[d] /\ ch'[d] = ch[d] /\ err'[d] = err[d]
    BY <1>5 DEF TypeOK, receiveResponse, callVars
  <2> QED
    BY Zenon, <2>1, <2>2, QueueKept
<1>6. ASSUME NEW c \in Call, receiveError(c) PROVE QueueInv'
  <2>1. \A n \in Node : \A i \in 1 .. Len(callQueue[n]) : callQueue[n][i] # c
    BY Zenon, <1>6, NotQueued DEF receiveError
  <2>2. /\ callQueue' = callQueue /\ activeCallByNode' = activeCallByNode
        /\ \A d \in Call \ {c} :
             pc'[d] = pc[d] /\ nonce'[d] = nonce[d] /\ ch'[d] = ch[d] /\ err'[d] = err[d]
    BY <1>6 DEF TypeOK, receiveError, callVars
  <2> QED
    BY Zenon, <2>1, <2>2, QueueKept
<1>7. ASSUME NEW c \in Call, discardResponse(c) PROVE QueueInv'
  <2>1. \A n \in Node : \A i \in 1 .. Len(callQueue[n]) : callQueue[n][i] # c
    BY Zenon, <1>7, NotQueued DEF discardResponse
  <2>2. /\ callQueue' = callQueue /\ activeCallByNode' = activeCallByNode
        /\ \A d \in Call \ {c} :
             pc'[d] = pc[d] /\ nonce'[d] = nonce[d] /\ ch'[d] = ch[d] /\ err'[d] = err[d]
    BY <1>7 DEF TypeOK, discardResponse, callVars
  <2> QED
    BY Zenon, <2>1, <2>2, QueueKept
<1>8. ASSUME NEW c \in Call, discardError(c) PROVE QueueInv'
  <2>1. \A n \in Node : \A i \in 1 .. Len(callQueue[n]) : callQueue[n][i] # c
    BY Zenon, <1>8, NotQueued DEF discardError
  <2>2. /\ callQueue' = callQueue /\ activeCallByNode' = activeCallByNode
        /\ \A d \in Call \ {c} :
             pc'[d] = pc[d] /\ nonce'[d] = nonce[d] /\ ch'[d] = ch[d] /\ err'[d] = err[d]
    BY <1>8 DEF TypeOK, discardError, callVars
  <2> QED
    BY Zenon, <2>1, <2>2, QueueKept
<1>9. ASSUME NEW c \in Call, callDoneClosed(c) PROVE QueueInv'
  <2>1. \A n \in Node : \A i \in 1 .. Len(callQueue[n]) : callQueue[n][i] # c
    BY Zenon, <1>9, NotQueued DEF callDoneClosed
  <2>2. /\ callQueue' = callQueue /\ activeCallByNode' = activeCallByNode
        /\ \A d \in Call \ {c} :
             pc'[d] = pc[d] /\ nonce'[d] = nonce[d] /\ ch'[d] = ch[d] /\ err'[d] = err[d]
    BY <1>9 DEF TypeOK, callDoneClosed, callVars
  <2> QED
    BY Zenon, <2>1, <2>2, QueueKept
<1>10. ASSUME NEW c \in Call, dispatchCallDone(c) PROVE QueueInv'
  BY Zenon, <1>10, CallLeaves
<1>11. CASE putErr
  <2>1. dcall \in Call /\ Active(dcall)
    BY Zenon, <1>11 DEF TypeOK, DispatchInv, putErr
  <2>2. \A n \in Node : \A i \in 1 .. Len(callQueue[n]) : callQueue[n][i] # dcall
    BY Zenon, <2>1, NotQueued
  <2>3. /\ callQueue' = callQueue /\ activeCallByNode' = activeCallByNode
        /\ \A d \in Call \ {dcall} :
             pc'[d] = pc[d] /\ nonce'[d] = nonce[d] /\ ch'[d] = ch[d] /\ err'[d] = err[d]
    BY <1>11 DEF TypeOK, putErr, callVars
  <2> QED
    BY Zenon, <2>1, <2>2, <2>3, QueueKept
<1>12. CASE putCh
  <2>1. dcall \in Call /\ Active(dcall)
    BY Zenon, <1>12 DEF TypeOK, DispatchInv, putCh
  <2>2. \A n \in Node : \A i \in 1 .. Len(callQueue[n]) : callQueue[n][i] # dcall
    BY Zenon, <2>1, NotQueued
  <2>3. /\ callQueue' = callQueue /\ activeCallByNode' = activeCallByNode
        /\ \A d \in Call \ {dcall} :
             pc'[d] = pc[d] /\ nonce'[d] = nonce[d] /\ ch'[d] = ch[d] /\ err'[d] = err[d]
    BY <1>12 DEF TypeOK, putCh, callVars
  <2> QED
    BY Zenon, <2>1, <2>2, <2>3, QueueKept
<1>13. ASSUME NEW m \in 0 .. nextNonce - 1, handleWhoareyou(m) PROVE QueueInv'
  BY Zenon, <1>13, CallResent
<1>14. ASSUME NEW n \in Node, closeQueued(n) PROVE QueueInv'
  <2>1. Head(callQueue[n]) \in Call
    BY Zenon, <1>14, FirstOfQueue DEF TypeOK, closeQueued
  <2> QED
    BY Zenon, <1>14, <2>1, QueueShrinks DEF TypeOK, QueueInv, closeQueued
<1>15. ASSUME NEW n \in Node, closeActive(n) PROVE QueueInv'
  <2> DEFINE c == activeCallByNode[n]
  <2>1. c \in Call /\ Active(c)
    BY <1>15 DEF TypeOK, ActiveInv, ActiveOK, Active, closeActive
  <2>2. \A k \in Node : \A i \in 1 .. Len(callQueue[k]) : callQueue[k][i] # c
    BY Zenon, <2>1, NotQueued
  <2>3. /\ callQueue' = callQueue
        /\ \A k \in Node : activeCallByNode'[k] \in {activeCallByNode[k], NoCall, c}
        /\ \A d \in Call \ {c} :
             pc'[d] = pc[d] /\ nonce'[d] = nonce[d] /\ ch'[d] = ch[d] /\ err'[d] = err[d]
    BY <1>15 DEF TypeOK, closeActive
  <2> QED
    BY Zenon, <2>1, <2>2, <2>3, QueueKept
<1> QED
  BY Zenon, <1>1, <1>2, <1>3, <1>4, <1>5, <1>6, <1>7, <1>8, <1>9, <1>10, <1>11,
     <1>12, <1>13, <1>14, <1>15
     DEF Next, CallerStep, TimerStep, PacketStep, DispatchStep, ReadStep,
         timerExpires, timerClosed, dispatchTimeout, handleCallResponse,
         handleOther, rearm, Close, dispatchClosed, dispatchReturn, readNext,
         readLoopEnds, readPacket, readTemporaryError, dispatchReadPacket,
         takePacket, vars, callVars, readVars

(* Every step leaves the active calls at their nodes.                      *)
LEMMA ActiveInvStep ==
  ASSUME Inv, [Next]_vars, TypeOK'
  PROVE  ActiveInv'
<1> USE DispatchAssumption DEF Inv
<1>1. ASSUME UNCHANGED <<activeCallByNode, pc, closed>> PROVE ActiveInv'
  BY Zenon, <1>1 DEF ActiveInv, ActiveOK
<1>2. ASSUME NEW c \in Call, call(c) PROVE ActiveInv'
  BY <1>2 DEF TypeOK, ActiveInv, ActiveOK, call, callVars, readVars
<1>3. ASSUME NEW c \in Call, dispatchCall(c) PROVE ActiveInv'
  BY Zenon, <1>3, CallEnters
<1>4. ASSUME NEW c \in Call, callClosed(c) PROVE ActiveInv'
  BY <1>4 DEF TypeOK, ActiveInv, ActiveOK, callClosed, callVars, readVars
<1>5. ASSUME NEW c \in Call, receiveResponse(c) PROVE ActiveInv'
  BY <1>5 DEF TypeOK, ActiveInv, ActiveOK, receiveResponse, callVars, readVars
<1>6. ASSUME NEW c \in Call, receiveError(c) PROVE ActiveInv'
  BY <1>6 DEF TypeOK, ActiveInv, ActiveOK, receiveError, callVars, readVars
<1>7. ASSUME NEW c \in Call, callDoneClosed(c) PROVE ActiveInv'
  BY <1>7 DEF TypeOK, ActiveInv, ActiveOK, callDoneClosed, callVars, readVars
<1>8. ASSUME NEW c \in Call, dispatchCallDone(c) PROVE ActiveInv'
  BY Zenon, <1>8, CallLeaves
<1>9. CASE Close
  BY Zenon, <1>9 DEF TypeOK, ActiveInv, ActiveOK, Close, callVars, readVars
<1>10. ASSUME NEW n \in Node, closeActive(n) PROVE ActiveInv'
  BY <1>10 DEF TypeOK, ActiveInv, ActiveOK, closeActive, callVars, readVars
<1> QED
  BY ZenonT(30), <1>1, <1>2, <1>3, <1>4, <1>5, <1>6, <1>7, <1>8, <1>9, <1>10
     DEF Next, CallerStep, TimerStep, PacketStep, DispatchStep, ReadStep,
         discardResponse, discardError, timerExpires, timerClosed,
         dispatchTimeout, putErr, handleCallResponse, putCh, handleWhoareyou,
         handleOther, rearm, dispatchClosed, closeQueued, dispatchReturn,
         readNext, readLoopEnds, readPacket, readTemporaryError,
         dispatchReadPacket, takePacket, vars, callVars, readVars

(* Every step leaves each caller with its call where it expects it.        *)
LEMMA CallerInvStep ==
  ASSUME Inv, [Next]_vars, TypeOK'
  PROVE  CallerInv'
<1> USE DispatchAssumption DEF Inv
<1>1. ASSUME UNCHANGED <<pc, ch, err, nonce, callQueue, activeCallByNode, closed>> PROVE CallerInv'
  BY ZenonT(30), <1>1 DEF CallerInv, CallerOK, Queued, Active
<1>2. ASSUME NEW c \in Call, call(c) PROVE CallerInv'
  BY SMTT(30), <1>2 DEF TypeOK, CallerInv, CallerOK, Queued, Active, call, callVars,
     readVars
<1>3. ASSUME NEW c \in Call, dispatchCall(c) PROVE CallerInv'
  BY Zenon, <1>3, CallEnters
<1>4. ASSUME NEW c \in Call, callClosed(c) PROVE CallerInv'
  BY SMTT(30), <1>4 DEF TypeOK, CallerInv, CallerOK, Queued, Active, callClosed,
     callVars, readVars
<1>5. ASSUME NEW c \in Call, receiveResponse(c) PROVE CallerInv'
  <2>1. /\ closed' = closed /\ callQueue' = callQueue
        /\ activeCallByNode' = activeCallByNode /\ nonce' = nonce
    BY ZenonT(30), <1>5 DEF receiveResponse, callVars
  <2>2. \A d \in Call \ {c} : pc'[d] = pc[d] /\ ch'[d] = ch[d] /\ err'[d] = err[d]
    BY SMTT(30), <1>5 DEF TypeOK, receiveResponse
  <2>3. CallerOK(c)'
    <3>1. /\ pc[c] = "waiting" /\ ch[c] /\ pc'[c] \in {"waiting", "done"}
          /\ err'[c] = err[c] /\ closed' = closed
      BY <1>5 DEF TypeOK, receiveResponse
    <3>2. CallerOK(c)
      BY Zenon DEF CallerInv
    <3>3. ~closed => Active(c)
      BY Zenon, <3>1, <3>2 DEF CallerOK
    <3>4. err[c] # "none" \/ Active(c) \/ Queued(c)
      BY Zenon, <3>1, <3>2 DEF CallerOK
    <3>5. (Queued(c)' <=> Queued(c)) /\ (Active(c)' <=> Active(c))
      BY Zenon, <2>1, PlacesKept
    <3>6. pc'[c] \notin {"idle", "calling"}
      BY Zenon, <3>1
    <3> QED
      BY <3>1, <3>3, <3>4, <3>5, <3>6, ZenonT(30) DEF CallerOK
  <2> QED
    BY Zenon, <2>1, <2>2, <2>3, PlacesKept, CallerKept
<1>6. ASSUME NEW c \in Call, receiveError(c) PROVE CallerInv'
  <2>1. /\ closed' = closed /\ callQueue' = callQueue
        /\ activeCallByNode' = activeCallByNode /\ nonce' = nonce
    BY ZenonT(30), <1>6 DEF receiveError, callVars
  <2>2. \A d \in Call \ {c} : pc'[d] = pc[d] /\ ch'[d] = ch[d] /\ err'[d] = err[d]
    BY <1>6 DEF TypeOK, receiveError
  <2>3. CallerOK(c)'
    <3>1. pc[c] = "waiting" /\ err[c] # "none" /\ pc'[c] = "done"
      BY SMTT(30), <1>6 DEF TypeOK, receiveError
    <3>2. ~closed => Active(c)
      BY Zenon, <3>1 DEF CallerInv, CallerOK
    <3>3. Active(c)' <=> Active(c)
      BY ZenonT(30), <2>1, PlacesKept
    <3> QED
      BY Zenon, <2>1, <3>1, <3>2, <3>3 DEF CallerOK
  <2> QED
    BY Zenon, <2>1, <2>2, <2>3, PlacesKept, CallerKept
<1>7. ASSUME NEW c \in Call, discardResponse(c) PROVE CallerInv'
  BY SMTT(30), <1>7 DEF TypeOK, CallerInv, CallerOK, Queued, Active, discardResponse,
     callVars, readVars
<1>8. ASSUME NEW c \in Call, discardError(c) PROVE CallerInv'
  BY SMTT(30), <1>8 DEF TypeOK, CallerInv, CallerOK, Queued, Active, discardError,
     callVars, readVars
<1>9. ASSUME NEW c \in Call, callDoneClosed(c) PROVE CallerInv'
  BY SMTT(30), <1>9 DEF TypeOK, CallerInv, CallerOK, Queued, Active, callDoneClosed,
     callVars, readVars
<1>10. ASSUME NEW c \in Call, dispatchCallDone(c) PROVE CallerInv'
  BY Zenon, <1>10, CallLeaves
<1>11. CASE putErr
  <2>1. PICK c \in Call : c = dcall /\ Active(c)
    BY Zenon, <1>11 DEF TypeOK, DispatchInv, putErr
  <2>2. pc[c] \in {"waiting", "done", "returned"}
    BY <2>1 DEF ActiveInv, ActiveOK, Active
  <2>3. /\ closed' = closed /\ callQueue' = callQueue /\ pc' = pc
        /\ activeCallByNode' = activeCallByNode /\ nonce' = nonce
    BY Zenon, <1>11 DEF putErr, callVars
  <2>4. \A d \in Call \ {c} : pc'[d] = pc[d] /\ ch'[d] = ch[d] /\ err'[d] = err[d]
    BY Zenon, <1>11, <2>1 DEF TypeOK, putErr
  <2>5. CallerOK(c)'
    <3>1. Active(c)'
      BY Zenon, <2>1, <2>3, PlacesKept
    <3>2. pc'[c] \notin {"idle", "calling"}
      BY Zenon, <2>2, <2>3
    <3> QED
      BY Zenon, <3>1, <3>2 DEF CallerOK
  <2> QED
    BY Zenon, <2>3, <2>4, <2>5, PlacesKept, CallerKept
<1>12. CASE putCh
  <2>1. PICK c \in Call : c = dcall /\ Active(c)
    BY Zenon, <1>12 DEF TypeOK, DispatchInv, putCh
  <2>2. pc[c] \in {"waiting", "done", "returned"}
    BY <2>1 DEF ActiveInv, ActiveOK, Active
  <2>3. /\ closed' = closed /\ callQueue' = callQueue /\ pc' = pc
        /\ activeCallByNode' = activeCallByNode /\ nonce' = nonce
    BY Zenon, <1>12 DEF putCh, callVars
  <2>4. \A d \in Call \ {c} : pc'[d] = pc[d] /\ ch'[d] = ch[d] /\ err'[d] = err[d]
    BY ZenonT(30), <1>12, <2>1 DEF TypeOK, putCh
  <2>5. CallerOK(c)'
    <3>1. Active(c)'
      BY Zenon, <2>1, <2>3, PlacesKept
    <3>2. pc'[c] \notin {"idle", "calling"}
      BY Zenon, <2>2, <2>3
    <3> QED
      BY Zenon, <3>1, <3>2 DEF CallerOK
  <2> QED
    BY Zenon, <2>3, <2>4, <2>5, PlacesKept, CallerKept
<1>13. ASSUME NEW m \in 0 .. nextNonce - 1, handleWhoareyou(m) PROVE CallerInv'
  BY Zenon, <1>13, CallResent
<1>14. CASE Close
  BY SMTT(30), <1>14 DEF TypeOK, CallerInv, CallerOK, Queued, Active, Close, callVars,
     readVars
<1>15. ASSUME NEW n \in Node, closeQueued(n) PROVE CallerInv'
  <2>1. PICK h \in Call :
          h = Head(callQueue[n]) /\ h = callQueue[n][1] /\ pc[h] = "waiting"
    BY SMTT(30), <1>15, FirstOfQueue DEF TypeOK, QueueInv, QueueOK, closeQueued
  <2>2. \A d \in Call : Active(d)' <=> Active(d)
    BY Zenon, <1>15 DEF Active, closeQueued
  <2>3. \A d \in Call \ {h} : Queued(d) => Queued(d)'
    <3> SUFFICES ASSUME NEW d \in Call \ {h}, Queued(d) PROVE Queued(d)'
      BY Zenon
    <3>1. PICK i \in 1 .. Len(callQueue[NodeOf[d]]) : callQueue[NodeOf[d]][i] = d
      BY Zenon DEF Queued
    <3>2. CASE NodeOf[d] # n
      BY SMTT(30), <1>15, <3>1, <3>2 DEF TypeOK, Queued, closeQueued
    <3>3. CASE NodeOf[d] = n
      <4>1. i # 1
        BY Zenon, <2>1, <3>1, <3>3
      <4>2. /\ i - 1 \in 1 .. Len(Tail(callQueue[n]))
            /\ Tail(callQueue[n])[i - 1] = callQueue[n][i]
        <5>1. callQueue[n] \in Seq(Call) /\ callQueue[n] # <<>>
          BY Zenon, <1>15 DEF TypeOK, closeQueued
        <5> QED
          BY SMTT(30), <3>1, <3>3, <4>1, <5>1
      <4> QED
        BY ZenonT(30), <1>15, <3>1, <3>3, <4>2 DEF TypeOK, Queued, closeQueued
    <3> QED
      BY Zenon, <3>2, <3>3
  <2>4. closed /\ closed'
    BY Zenon, <1>15 DEF DispatchInv, closeQueued
  <2>5. /\ err' = [err EXCEPT ![h] = "closed"]
        /\ UNCHANGED <<pc, ch, nonce>>
    BY ZenonT(30), <1>15, <2>1 DEF closeQueued
  <2>6. \A d \in Call \ {h} : pc'[d] = pc[d] /\ ch'[d] = ch[d] /\ err'[d] = err[d]
    BY SMTT(30), <2>5 DEF TypeOK
  <2>7. pc'[h] = "waiting" /\ err'[h] = "closed"
    BY SMTT(30), <2>1, <2>5 DEF TypeOK
  <2>8. CallerOK(h)'
    BY Zenon, <2>4, <2>7 DEF CallerOK
  <2> QED
    BY ZenonT(30), <2>1, <2>2, <2>3, <2>4, <2>5, <2>6, <2>8, CallerKept
<1>16. ASSUME NEW n \in Node, closeActive(n) PROVE CallerInv'
  <2>1. PICK c \in Call : c = activeCallByNode[n]
    BY Zenon, <1>16 DEF TypeOK, closeActive
  <2>2. NodeOf[c] = n /\ pc[c] \in {"waiting", "done", "returned"}
    BY Zenon, <2>1 DEF ActiveInv, ActiveOK
  <2>3. closed /\ closed'
    BY Zenon, <1>16 DEF DispatchInv, closeActive
  <2>4. /\ err' = [err EXCEPT ![c] = "closed"]
        /\ activeCallByNode' = [activeCallByNode EXCEPT ![n] = NoCall]
        /\ UNCHANGED <<pc, ch, nonce, callQueue>>
    BY Zenon, <1>16, <2>1 DEF closeActive
  <2>5. \A d \in Call \ {c} : (Queued(d)' <=> Queued(d)) /\ (Active(d) => Active(d)')
    BY SMTT(30), <2>1, <2>4 DEF TypeOK, Queued, Active
  <2>6. \A d \in Call \ {c} : pc'[d] = pc[d] /\ ch'[d] = ch[d] /\ err'[d] = err[d]
    BY SMTT(30), <2>4 DEF TypeOK
  <2>7. pc'[c] \in {"waiting", "done", "returned"} /\ err'[c] = "closed"
    BY Zenon, <2>1, <2>2, <2>4 DEF TypeOK
  <2>8. CallerOK(c)'
    BY Zenon, <2>3, <2>7 DEF CallerOK
  <2> QED
    BY ZenonT(30), <2>1, <2>3, <2>4, <2>5, <2>6, <2>8, CallerKept
<1> QED
  BY ZenonT(30), <1>1, <1>2, <1>3, <1>4, <1>5, <1>6, <1>7, <1>8, <1>9, <1>10, <1>11,
     <1>12, <1>13, <1>14, <1>15, <1>16
     DEF Next, CallerStep, TimerStep, PacketStep, DispatchStep, ReadStep,
         timerExpires, timerClosed, dispatchTimeout, handleCallResponse,
         handleOther, rearm, dispatchClosed, dispatchReturn, readNext,
         readLoopEnds, readPacket, readTemporaryError, dispatchReadPacket,
         takePacket, vars, callVars, readVars

---------------------------------------------------------------------------
(* The other conjuncts, and the theorems *)

(* No step makes dispatch panic or serve an inactive call.                 *)
LEMMA DispatchInvStep ==
  ASSUME Inv, [Next]_vars, TypeOK'
  PROVE  DispatchInv'
<1> USE DispatchAssumption DEF Inv
<1>1. ASSUME UNCHANGED <<dpc, dcall, closed, callQueue, activeCallByNode>> PROVE DispatchInv'
  BY Zenon, <1>1 DEF DispatchInv, Active
<1>2. ASSUME NEW c \in Call, dispatchCall(c) PROVE DispatchInv'
  BY Zenon, <1>2 DEF DispatchInv, dispatchCall
<1>3. ASSUME NEW c \in Call, dispatchCallDone(c) PROVE DispatchInv'
  BY Zenon, <1>3 DEF DispatchInv, CallerInv, CallerOK, Active, dispatchCallDone
<1>4. ASSUME NEW t \in firing, dispatchTimeout(t) PROVE DispatchInv'
  BY Zenon, <1>4 DEF TypeOK, DispatchInv, Active, dispatchTimeout, callVars, readVars
<1>5. CASE putErr
  BY Zenon, <1>5 DEF TypeOK, DispatchInv, Active, putErr, callVars, readVars
<1>6. ASSUME NEW c \in Call, handleCallResponse(c) PROVE DispatchInv'
  BY Zenon, <1>6 DEF TypeOK, DispatchInv, Active, handleCallResponse, callVars,
     readVars, takePacket
<1>7. CASE putCh
  BY Zenon, <1>7 DEF TypeOK, DispatchInv, Active, putCh, callVars, readVars
<1>8. ASSUME NEW m \in 0 .. nextNonce - 1, handleWhoareyou(m) PROVE DispatchInv'
  BY Zenon, <1>8 DEF DispatchInv, Active, handleWhoareyou, takePacket
<1>9. CASE handleOther
  BY Zenon, <1>9 DEF TypeOK, DispatchInv, Active, handleOther, callVars, readVars,
     takePacket
<1>10. CASE rearm
  BY Zenon, <1>10 DEF TypeOK, DispatchInv, Active, rearm, callVars, readVars
<1>11. CASE Close
  BY Zenon, <1>11 DEF TypeOK, DispatchInv, Active, Close, callVars, readVars
<1>12. CASE dispatchClosed
  BY Zenon, <1>12 DEF TypeOK, DispatchInv, Active, dispatchClosed, callVars, readVars
<1>13. ASSUME NEW n \in Node, closeQueued(n) PROVE DispatchInv'
  BY Zenon, <1>13 DEF TypeOK, DispatchInv, Active, closeQueued, callVars, readVars
<1>14. ASSUME NEW n \in Node, closeActive(n) PROVE DispatchInv'
  BY Zenon, <1>14 DEF TypeOK, DispatchInv, Active, closeActive, callVars, readVars
<1>15. CASE dispatchReturn
  BY Zenon, <1>15 DEF TypeOK, DispatchInv, Active, dispatchReturn, callVars, readVars
<1> QED
  BY ZenonT(30), <1>1, <1>2, <1>3, <1>4, <1>5, <1>6, <1>7, <1>8, <1>9, <1>10, <1>11,
     <1>12, <1>13, <1>14, <1>15
     DEF Next, CallerStep, TimerStep, PacketStep, DispatchStep, ReadStep,
         call, callClosed, receiveResponse, receiveError, discardResponse,
         discardError, callDoneClosed, timerExpires, timerClosed, readNext,
         readLoopEnds, readPacket, readTemporaryError, dispatchReadPacket,
         takePacket, vars, callVars, readVars

(* No step brings a call that has had its handshake back to the queue.     *)
LEMMA HandshakeInvStep ==
  ASSUME Inv, [Next]_vars, TypeOK'
  PROVE  HandshakeInv'
<1> USE DispatchAssumption DEF Inv
<1>1. ASSUME UNCHANGED <<handshakeCount, activeCallByNode, err, pc>> PROVE HandshakeInv'
  BY Zenon, <1>1 DEF HandshakeInv, Active
<1>2. ASSUME NEW c \in Call, dispatchCall(c) PROVE HandshakeInv'
  BY Zenon, <1>2, CallEnters
<1>3. ASSUME NEW c \in Call, dispatchCallDone(c) PROVE HandshakeInv'
  BY Zenon, <1>3, CallLeaves
<1>4. ASSUME NEW m \in 0 .. nextNonce - 1, handleWhoareyou(m) PROVE HandshakeInv'
  BY Zenon, <1>4, CallResent
<1>5. ASSUME NEW c \in Call, UNCHANGED <<handshakeCount, activeCallByNode>>,
             \A d \in Call \ {c} : pc'[d] = pc[d] /\ err'[d] = err[d],
             \/ pc'[c] \in {"done", "returned"} \/ err'[c] # "none" \/ pc[c] = "idle"
             \/ pc'[c] = pc[c] /\ err'[c] = err[c]
      PROVE  HandshakeInv'
  <2>1. pc[c] = "idle" => handshakeCount[c] = 0
    BY Zenon, Unstarted
  <2> QED
    BY Zenon, <1>5, <2>1 DEF HandshakeInv, Active
<1>6. ASSUME NEW c \in Call, call(c) PROVE HandshakeInv'
  BY Zenon, <1>5, <1>6 DEF TypeOK, call, callVars
<1>7. ASSUME NEW c \in Call, callClosed(c) PROVE HandshakeInv'
  BY <1>5, <1>7 DEF TypeOK, callClosed, callVars
<1>8. ASSUME NEW c \in Call, receiveResponse(c) PROVE HandshakeInv'
  BY <1>5, <1>8 DEF TypeOK, receiveResponse, callVars
<1>9. ASSUME NEW c \in Call, receiveError(c) PROVE HandshakeInv'
  BY <1>5, <1>9 DEF TypeOK, receiveError, callVars
<1>10. ASSUME NEW c \in Call, discardError(c) PROVE HandshakeInv'
  BY <1>5, <1>10 DEF TypeOK, discardError, callVars
<1>11. ASSUME NEW c \in Call, callDoneClosed(c) PROVE HandshakeInv'
  BY <1>5, <1>11 DEF TypeOK, callDoneClosed, callVars
<1>12. CASE putErr
  <2>1. dcall \in Call
    BY Zenon, <1>12 DEF TypeOK, putErr
  <2> QED
    BY <1>5, <1>12, <2>1 DEF TypeOK, putErr, callVars
<1>13. ASSUME NEW n \in Node, closeQueued(n) PROVE HandshakeInv'
  <2>1. Head(callQueue[n]) \in Call
    BY <1>13, FirstOfQueue DEF TypeOK, closeQueued
  <2> QED
    BY <1>5, <1>13, <2>1 DEF TypeOK, closeQueued
<1>14. ASSUME NEW n \in Node, closeActive(n) PROVE HandshakeInv'
  <2> DEFINE c == activeCallByNode[n]
  <2>1. c \in Call /\ NodeOf[c] = n
    <3>1. c # NoCall /\ c \in Call
      BY Zenon, <1>14 DEF TypeOK, closeActive
    <3> QED
      BY Zenon, <3>1 DEF ActiveInv, ActiveOK
  <2>2. /\ UNCHANGED <<handshakeCount, pc>> /\ err'[c] # "none"
        /\ \A d \in Call \ {c} : err'[d] = err[d] /\ (Active(d) => Active(d)')
    BY <1>14, <2>1 DEF TypeOK, closeActive, Active
  <2> QED
    BY Zenon, <2>2 DEF HandshakeInv
<1> QED
  BY ZenonT(30), <1>1, <1>2, <1>3, <1>4, <1>6, <1>7, <1>8, <1>9, <1>10, <1>11, <1>12,
     <1>13, <1>14
     DEF Next, CallerStep, TimerStep, PacketStep, DispatchStep, ReadStep,
         discardResponse, timerExpires, timerClosed, dispatchTimeout,
         handleCallResponse, putCh, handleOther, rearm, Close, dispatchClosed,
         dispatchReturn, readNext, readLoopEnds, readPacket, readTemporaryError,
         dispatchReadPacket, takePacket, vars, callVars, readVars

(* Every step keeps activeCallByAuth in order.                             *)
LEMMA AuthInvStep ==
  ASSUME Inv, [Next]_vars, TypeOK'
  PROVE  AuthInv'
<1> USE DispatchAssumption DEF Inv
<1>1. ASSUME UNCHANGED <<activeCallByAuth, activeCallByNode, nonce, nextNonce, handshakeCount>>
      PROVE  AuthInv'
  BY Zenon, <1>1 DEF AuthInv, AuthOK, EntryOK, CallOK
<1>2. ASSUME NEW c \in Call, dispatchCall(c) PROVE AuthInv'
  BY Zenon, <1>2, CallEnters
<1>3. ASSUME NEW c \in Call, dispatchCallDone(c) PROVE AuthInv'
  BY Zenon, <1>3, CallLeaves
<1>4. ASSUME NEW m \in 0 .. nextNonce - 1, handleWhoareyou(m) PROVE AuthInv'
  BY Zenon, <1>4, CallResent
<1>5. ASSUME NEW n \in Node, closeActive(n) PROVE AuthInv'
  <2> DEFINE c == activeCallByNode[n]
  <2>1. c \in Call /\ NodeOf[c] = n
    <3>1. c # NoCall /\ c \in Call
      BY Zenon, <1>5 DEF TypeOK, closeActive
    <3> QED
      BY Zenon, <3>1 DEF ActiveInv, ActiveOK
  <2>2. /\ activeCallByNode' = [activeCallByNode EXCEPT ![n] = NoCall]
        /\ activeCallByAuth' = forgetNonce(activeCallByAuth, nonce[c])
        /\ UNCHANGED <<nonce, nextNonce, handshakeCount>>
    BY ZenonT(30), <1>5 DEF closeActive
  <2>3. \A e \in activeCallByAuth' : e \in activeCallByAuth /\ e[1] # nonce[c]
    BY Zenon, <2>2 DEF forgetNonce
  <2>4. ASSUME NEW e \in activeCallByAuth'
        PROVE  EntryOK(e, activeCallByNode)' /\ (e[1] = 0 => EncodeErrors)
    <3>1. e[2] \in Call /\ EntryOK(e, activeCallByNode) /\ (e[1] = 0 => EncodeErrors)
      BY Zenon, <2>3 DEF TypeOK, AuthInv, AuthOK
    <3>2. ASSUME activeCallByNode[NodeOf[e[2]]] = e[2], nonce[e[2]] = e[1]
          PROVE  activeCallByNode'[NodeOf[e[2]]] = e[2]
      BY <2>2, <2>3, <3>1, <3>2 DEF TypeOK
    <3> QED
      BY Zenon, <2>2, <3>1, <3>2 DEF EntryOK
  <2>5. ASSUME NEW k \in Node, activeCallByNode'[k] # NoCall
        PROVE  CallOK(k, activeCallByAuth, activeCallByNode)'
    <3>1. k # n /\ activeCallByNode'[k] = activeCallByNode[k]
      BY Zenon, <2>2, <2>5 DEF TypeOK
    <3>2. activeCallByNode[n] # NoCall /\ activeCallByNode[k] # activeCallByNode[n]
      BY Zenon, <1>5, <2>1, <2>5, <3>1 DEF ActiveInv, ActiveOK, closeActive
    <3> QED
      BY Zenon, <2>2, <2>5, <3>1, <3>2, OthersKept DEF CallOK, AuthInv
  <2>6. \A e, f \in activeCallByAuth' : e[1] = f[1] => e[2] = f[2]
    BY Zenon, <2>3 DEF AuthInv, AuthOK
  <2>7. \A d \in Call : nonce'[d] < nextNonce'
    BY Zenon, <2>2 DEF AuthInv
  <2> QED
    BY Zenon, <2>4, <2>5, <2>6, <2>7 DEF AuthInv, AuthOK
<1> QED
  BY ZenonT(30), <1>1, <1>2, <1>3, <1>4, <1>5
     DEF Next, CallerStep, TimerStep, PacketStep, DispatchStep, ReadStep,
         call, callClosed, receiveResponse, receiveError, discardResponse,
         discardError, callDoneClosed, timerExpires, timerClosed,
         dispatchTimeout, putErr, handleCallResponse, putCh, handleOther,
         rearm, Close, dispatchClosed, closeQueued, dispatchReturn, readNext,
         readLoopEnds, readPacket, readTemporaryError, dispatchReadPacket,
         takePacket, vars, callVars, readVars

(* Every step keeps the running timers current.                            *)
LEMMA TimerInvStep ==
  ASSUME Inv, [Next]_vars, TypeOK'
  PROVE  TimerInv'
<1> USE DispatchAssumption DEF Inv
<1>1. ASSUME UNCHANGED <<armed, firing, timeout, dpc, dcall, activeCallByNode>> PROVE TimerInv'
  BY Zenon, <1>1 DEF TimerInv, TimerOK, Active, TimeoutIsCurrent
<1>2. ASSUME NEW c \in Call, dispatchCall(c) PROVE TimerInv'
  BY Zenon, <1>2, CallEnters
<1>3. ASSUME NEW c \in Call, dispatchCallDone(c) PROVE TimerInv'
  BY Zenon, <1>3, CallLeaves
<1>4. ASSUME NEW c \in Call, timerExpires(c) PROVE TimerInv'
  <2>1. /\ armed' = armed \ {<<c, timeout[c]>>}
        /\ firing' = firing \cup {<<c, timeout[c]>>}
        /\ <<c, timeout[c]>> \in armed
        /\ UNCHANGED <<timeout, activeCallByNode, dpc, dcall>>
    BY ZenonT(30), <1>4 DEF timerExpires
  <2>2. TimerOK(armed)'
    BY <2>1 DEF TypeOK, TimerInv, TimerOK
  <2>3. dpc' \notin {"closing", "returned"} => \A t \in armed' : Active(t[1])'
    BY Zenon, <2>1 DEF TimerInv, Active
  <2>4. TimeoutIsCurrent'
    BY ZenonT(30), <2>1 DEF TimerInv, TimeoutIsCurrent
  <2> QED
    BY Zenon, <2>2, <2>3, <2>4 DEF TimerInv
<1>5. ASSUME NEW t \in firing, timerClosed(t) PROVE TimerInv'
  BY <1>5 DEF TypeOK, TimerInv, TimerOK, Active, TimeoutIsCurrent,
     timerClosed, callVars, readVars, Timer
<1>6. ASSUME NEW t \in firing, dispatchTimeout(t) PROVE TimerInv'
  <2>1. /\ firing' = firing \ {t} /\ UNCHANGED <<armed, timeout, activeCallByNode>>
        /\ dpc = "select" /\ dpc' \in {"select", "putErr"}
        /\ dpc' = "putErr" => dcall' = t[1] /\ t[2] = timeout[t[1]]
    BY Zenon, <1>6 DEF dispatchTimeout, callVars
  <2>2. t = <<t[1], t[2]>>
    BY SMTT(30) DEF TypeOK, Timer
  <2>3. TimerOK(armed)' /\ \A u \in armed' : Active(u[1])'
    BY Zenon, <2>1 DEF TimerInv, TimerOK, Active
  <2>4. t \notin armed
    BY Zenon DEF TimerInv, TimerOK
  <2> QED
    BY Zenon, <2>1, <2>2, <2>3, <2>4 DEF TimerInv, TimeoutIsCurrent
<1>7. CASE putErr
  BY Zenon, <1>7 DEF TypeOK, TimerInv, TimerOK, Active, TimeoutIsCurrent, putErr,
     callVars, readVars
<1>8. ASSUME NEW c \in Call, handleCallResponse(c) PROVE TimerInv'
  <2>1. /\ dpc = "select" /\ dpc' \in {"putCh", "rearm"}
        /\ UNCHANGED <<activeCallByNode, firing>>
    BY Zenon, <1>8 DEF handleCallResponse, takePacket
  <2>2. CASE Active(c)
    <3>1. startResponseTimeout(c, armed) /\ armed \in SUBSET Timer
      BY Zenon, <1>8, <2>2 DEF handleCallResponse, Active, TypeOK
    <3>2. TimerOK(armed)' /\ \A t \in armed' : t \in armed \/ t[1] = c
      BY Zenon, <2>1, <3>1, TimeoutRestarted DEF TimerInv
    <3> QED
      BY Zenon, <2>1, <2>2, <3>2 DEF TimerInv, TimeoutIsCurrent, Active
  <2>3. CASE ~Active(c)
    <3>1. UNCHANGED <<timeout, armed>>
      BY Zenon, <1>8, <2>3 DEF handleCallResponse, Active
    <3> QED
      BY Zenon, <2>1, <3>1 DEF TimerInv, TimerOK, TimeoutIsCurrent, Active
  <2> QED
    BY Zenon, <2>2, <2>3
<1>9. CASE putCh
  BY Zenon, <1>9 DEF TypeOK, TimerInv, TimerOK, Active, TimeoutIsCurrent, putCh,
     callVars, readVars
<1>10. ASSUME NEW m \in 0 .. nextNonce - 1, handleWhoareyou(m) PROVE TimerInv'
  BY Zenon, <1>10, CallResent
<1>11. CASE handleOther
  BY ZenonT(30), <1>11 DEF TypeOK, TimerInv, TimerOK, Active, TimeoutIsCurrent,
     handleOther, callVars, readVars, takePacket
<1>12. CASE rearm
  BY ZenonT(30), <1>12 DEF TypeOK, TimerInv, TimerOK, Active, TimeoutIsCurrent, rearm,
     callVars, readVars
<1>13. CASE dispatchClosed
  BY ZenonT(30), <1>13 DEF TypeOK, TimerInv, TimerOK, Active, TimeoutIsCurrent,
     dispatchClosed, callVars, readVars
<1>14. ASSUME NEW n \in Node, closeActive(n) PROVE TimerInv'
  BY ZenonT(30), <1>14 DEF TypeOK, TimerInv, TimerOK, Active, TimeoutIsCurrent,
     closeActive, callVars, readVars
<1>15. CASE dispatchReturn
  BY Zenon, <1>15 DEF TypeOK, TimerInv, TimerOK, Active, TimeoutIsCurrent,
     dispatchReturn, callVars, readVars
<1> QED
  BY ZenonT(30), <1>1, <1>2, <1>3, <1>4, <1>5, <1>6, <1>7, <1>8, <1>9, <1>10, <1>11,
     <1>12, <1>13, <1>14, <1>15
     DEF Next, CallerStep, TimerStep, PacketStep, DispatchStep, ReadStep,
         call, callClosed, receiveResponse, receiveError, discardResponse,
         discardError, callDoneClosed, Close, closeQueued, readNext,
         readLoopEnds, readPacket, readTemporaryError, dispatchReadPacket,
         takePacket, vars, callVars, readVars

(* Every step keeps the read token unique.                                 *)
LEMMA ReadInvStep ==
  ASSUME Inv, [Next]_vars, TypeOK'
  PROVE  ReadInv'
<1> USE DispatchAssumption DEF Inv
<1>1. ASSUME UNCHANGED <<readNextCh, rpc, packetInCh, dpc>> PROVE ReadInv'
  BY Zenon, <1>1 DEF ReadInv
<1>2. ASSUME NEW c \in Call, dispatchCallDone(c) PROVE ReadInv'
  BY ZenonT(30), <1>2 DEF ReadInv, CallerInv, CallerOK, Active, dispatchCallDone, readVars
<1>3. ASSUME NEW t \in firing, dispatchTimeout(t) PROVE ReadInv'
  BY Zenon, <1>3 DEF TypeOK, ReadInv, dispatchTimeout, callVars, readVars
<1>4. CASE putErr
  BY Zenon, <1>4 DEF TypeOK, ReadInv, putErr, callVars, readVars
<1>5. ASSUME NEW c \in Call, handleCallResponse(c) PROVE ReadInv'
  BY Zenon, <1>5 DEF TypeOK, ReadInv, handleCallResponse, callVars, readVars,
     takePacket
<1>6. CASE putCh
  BY Zenon, <1>6 DEF TypeOK, ReadInv, putCh, callVars, readVars
<1>7. ASSUME NEW m \in 0 .. nextNonce - 1, handleWhoareyou(m) PROVE ReadInv'
  BY ZenonT(30), <1>7 DEF TypeOK, ReadInv, handleWhoareyou, callVars, readVars, takePacket
<1>8. CASE handleOther
  BY Zenon, <1>8 DEF TypeOK, ReadInv, handleOther, callVars, readVars, takePacket
<1>9. CASE rearm
  BY Zenon, <1>9 DEF TypeOK, ReadInv, rearm, callVars, readVars
<1>10. CASE dispatchClosed
  BY Zenon, <1>10 DEF TypeOK, ReadInv, dispatchClosed, callVars, readVars
<1>11. CASE dispatchReturn
  BY Zenon, <1>11 DEF TypeOK, ReadInv, dispatchReturn, callVars, readVars
<1>12. CASE readNext
  BY Zenon, <1>12 DEF TypeOK, ReadInv, readNext, callVars, readVars
<1>13. CASE readLoopEnds
  BY Zenon, <1>13 DEF TypeOK, ReadInv, readLoopEnds, callVars, readVars
<1>14. CASE readPacket
  BY Zenon, <1>14 DEF TypeOK, ReadInv, readPacket, callVars, readVars
<1>15. CASE readTemporaryError
  BY Zenon, <1>15 DEF TypeOK, ReadInv, readTemporaryError, callVars, readVars
<1>16. CASE dispatchReadPacket
  BY Zenon, <1>16 DEF TypeOK, ReadInv, dispatchReadPacket, callVars, readVars
<1> QED
  BY ZenonT(30), <1>1, <1>2, <1>3, <1>4, <1>5, <1>6, <1>7, <1>8, <1>9, <1>10, <1>11,
     <1>12, <1>13, <1>14, <1>15, <1>16
     DEF Next, CallerStep, TimerStep, PacketStep, DispatchStep, ReadStep,
         call, dispatchCall, callClosed, receiveResponse, receiveError,
         discardResponse, discardError, callDoneClosed, timerExpires,
         timerClosed, Close, closeQueued, closeActive, takePacket, vars,
         callVars, readVars

---------------------------------------------------------------------------
(* The invariant *)

(* The invariant holds when the transport starts.                          *)
LEMMA InitInv == Init => Inv
<1> SUFFICES ASSUME Init PROVE Inv
  BY Zenon
<1> USE DispatchAssumption
<1>1. TypeOK
  <2>1. callQueue \in [Node -> Seq(Call)]
    BY DEF Init
  <2>2. activeCallByNode \in [Node -> Call \cup {NoCall}]
    BY Zenon DEF Init
  <2>3. handshakeCount \in [Call -> 0 .. 1]
    BY DEF Init
  <2>4. /\ pc \in [Call -> {"idle", "calling", "waiting", "done", "returned"}]
        /\ err \in [Call -> {"none", "timeout", "closed"}]
        /\ nonce \in [Call -> Nat] /\ timeout \in [Call -> Nat]
    BY Zenon DEF Init
  <2>5. ch \in [Call -> BOOLEAN]
    BY Zenon DEF Init
  <2>6. activeCallByAuth \subseteq Nat \X Call /\ armed \subseteq Timer /\ firing \subseteq Timer
    BY Zenon DEF Init
  <2>7. /\ nextNonce \in Nat \ {0} /\ packets \in Nat
        /\ dpc = "rearm" /\ dcall = NoCall /\ rpc = "wait"
        /\ readNextCh = FALSE /\ readNextClosed = FALSE /\ packetInCh = FALSE
        /\ closed = FALSE
    BY DEF Init
  <2> QED
    BY Zenon, <2>1, <2>2, <2>3, <2>4, <2>5, <2>6, <2>7 DEF TypeOK
<1>2. QueueInv /\ ActiveInv
  BY DEF Init, QueueInv, QueueOK, ActiveInv, ActiveOK
<1>3. CallerInv
  BY Zenon DEF Init, CallerInv, CallerOK
<1>4. DispatchInv /\ HandshakeInv /\ AuthInv
  BY DEF Init, DispatchInv, HandshakeInv, AuthInv, AuthOK
<1>5. TimerInv /\ ReadInv
  BY Zenon DEF Init, TimerInv, TimerOK, TimeoutIsCurrent, ReadInv
<1> QED
  BY Zenon, <1>1, <1>2, <1>3, <1>4, <1>5 DEF Inv

(* Every step keeps it.                                                    *)
LEMMA NextInv == Inv /\ [Next]_vars => Inv'
<1> SUFFICES ASSUME Inv, [Next]_vars PROVE Inv'
  BY Zenon
<1>1. TypeOK'
  BY Zenon, TypeStep DEF Inv
<1> QED
  BY Zenon, <1>1, QueueInvStep, ActiveInvStep, CallerInvStep, DispatchInvStep,
     HandshakeInvStep, AuthInvStep, TimerInvStep, ReadInvStep DEF Inv

(* Inv holds in every state of the transport.                              *)
LEMMA AlwaysInv == Spec => []Inv
BY InitInv, NextInv, PTL DEF Spec

---------------------------------------------------------------------------
(* Theorems *)

(* Type correctness; in particular matchWithCall lets no call be           *)
(* challenged twice.                                                       *)
THEOREM TypesKept == Spec => []TypeOK
<1>1. Inv => TypeOK
  BY Zenon DEF Inv
<1> QED
  BY <1>1, AlwaysInv, PTL

(* dispatch never panics with "BUG: callDone for inactive call", and every *)
(* goroutine in callDone owns the active call of its node.                 *)
THEOREM DispatchNeverPanics == Spec => []DoneCallIsActive
<1>1. Inv => DoneCallIsActive
  BY Zenon DEF Inv, DoneCallIsActive, DispatchInv, CallerInv, CallerOK, Active
<1> QED
  BY <1>1, AlwaysInv, PTL

(* sendCall, the end of a call and Close leave no entry in                 *)
(* activeCallByAuth that a WHOAREYOU could turn into a call that is not    *)
(* active, and take none away that a WHOAREYOU about a packet that was     *)
(* sent would need, also when failed encodings share the zero nonce.       *)
THEOREM AuthTableExact == Spec => []AuthNamesActiveCall
<1>1. Inv => AuthNamesActiveCall
  BY ZenonT(30) DEF Inv, AuthInv, AuthOK, EntryOK, CallOK, AuthNamesActiveCall
<1> QED
  BY <1>1, AlwaysInv, PTL

(* Before Close, the goroutine whose channel dispatch sends to is waiting  *)
(* for its call or in callDone, which drains the channels.                 *)
THEOREM ReceiverIsThere == Spec => []DispatchWaitsForReceiver
<1>1. Inv => DispatchWaitsForReceiver
  <2> SUFFICES ASSUME Inv, dpc \in {"putErr", "putCh"}, ~closed
               PROVE  pc[dcall] \in {"waiting", "done"}
    BY Zenon DEF DispatchWaitsForReceiver
  <2>1. dcall \in Call /\ activeCallByNode[NodeOf[dcall]] = dcall
    BY Zenon DEF Inv, TypeOK, DispatchInv, Active
  <2> QED
    BY <2>1, DispatchAssumption DEF Inv, ActiveInv, ActiveOK
<1> QED
  BY <1>1, AlwaysInv, PTL

(* When dispatch sends errTimeout, no newer timer of the call is running   *)
(* or has fired: stale timers are recognised at the receive.               *)
THEOREM TimeoutsAreCurrent == Spec => []TimeoutIsCurrent
<1>1. Inv => TimeoutIsCurrent
  BY Zenon DEF Inv, TimerInv
<1> QED
  BY <1>1, AlwaysInv, PTL

(* The token in readNextCh keeps readLoop from overwriting a packet that   *)
(* dispatch has not finished with, and "Arm next read" never blocks.       *)
THEOREM BufferOwned == Spec => []BufferIsExclusive
<1>1. Inv => BufferIsExclusive
  BY Zenon DEF Inv, ReadInv, BufferIsExclusive
<1> QED
  BY <1>1, AlwaysInv, PTL

(* Between calls the queues, the map of active calls and the set of        *)
(* running timers are empty, and activeCallByAuth but for one entry that a *)
(* failed Encode may leave behind, which matchWithCall refuses.            *)
THEOREM TablesDrain == Spec => []NothingLeftBehind
<1>1. Inv => NothingLeftBehind
  <2> SUFFICES ASSUME Inv, ~closed,
                      \A c \in Call : pc[c] \in {"idle", "calling", "returned"}
               PROVE  /\ \A n \in Node : callQueue[n] = <<>> /\ activeCallByNode[n] = NoCall
                      /\ \A e, f \in activeCallByAuth :
                           e = f /\ e[1] = 0 /\ EncodeErrors /\ handshakeCount[e[2]] = 1
                      /\ armed = {}
    BY Zenon DEF NothingLeftBehind
  <2> USE DispatchAssumption DEF Inv
  <2>1. \A n \in Node : activeCallByNode[n] = NoCall
    <3> SUFFICES ASSUME NEW n \in Node, activeCallByNode[n] # NoCall PROVE FALSE
      BY Zenon
    <3>1. activeCallByNode[n] \in Call
      BY Zenon DEF TypeOK
    <3> QED
      BY Zenon, <3>1 DEF ActiveInv, ActiveOK
  <2>2. \A n \in Node : callQueue[n] = <<>>
    <3> SUFFICES ASSUME NEW n \in Node, callQueue[n] # <<>> PROVE FALSE
      BY Zenon
    <3>1. callQueue[n][1] \in Call /\ 1 \in 1 .. Len(callQueue[n])
      BY FirstOfQueue DEF TypeOK
    <3>2. pc[callQueue[n][1]] = "waiting"
      BY Zenon, <3>1 DEF QueueInv, QueueOK
    <3> QED
      BY Zenon, <3>1, <3>2
  <2>3. \A e \in activeCallByAuth : e[1] = 0 /\ EncodeErrors /\ handshakeCount[e[2]] = 1
    <3>1. \A e \in activeCallByAuth : e[2] \in Call /\ activeCallByNode[NodeOf[e[2]]] # e[2]
      BY <2>1 DEF TypeOK
    <3> QED
      BY Zenon, <3>1 DEF AuthInv, AuthOK, EntryOK
  <2>4. ASSUME NEW e \in activeCallByAuth, NEW f \in activeCallByAuth PROVE e = f
    <3>1. e \in Nat \X Call /\ f \in Nat \X Call
      BY Zenon DEF TypeOK
    <3>2. e[1] = f[1]
      BY <2>3
    <3>3. e[2] = f[2]
      BY Zenon, <3>2 DEF AuthInv, AuthOK
    <3> QED
      BY <3>1, <3>2, <3>3
  <2>5. \A t \in Timer : t \notin armed
    BY <2>1 DEF DispatchInv, TimerInv, Active, Timer
  <2> QED
    BY Zenon, <2>1, <2>2, <2>3, <2>4, <2>5 DEF TypeOK
<1> QED
  BY <1>1, AlwaysInv, PTL

(* Close reaches every waiting goroutine: when dispatch has returned, each *)
(* has errClosed, or an earlier error, in its channel.                     *)
THEOREM CloseReachesEveryone == Spec => []NoWaiterForgotten
<1>1. Inv => NoWaiterForgotten
  <2> SUFFICES ASSUME Inv, dpc = "returned", NEW c \in Call, pc[c] = "waiting"
               PROVE  err[c] # "none"
    BY Zenon DEF NoWaiterForgotten
  <2>1. NodeOf[c] \in Node /\ c # NoCall
    BY Zenon, DispatchAssumption
  <2>2. ~Active(c) /\ ~Queued(c)
    BY <2>1 DEF Inv, DispatchInv, Active, Queued
  <2> QED
    BY Zenon, <2>2 DEF Inv, CallerInv, CallerOK
<1> QED
  BY <1>1, AlwaysInv, PTL

---------------------------------------------------------------------------
(* The lines of SerialCalls *)

(* No call waits in the queue of a node that has no active call: only      *)
(* sendNextCall takes calls out of a queue before Close, and Close empties *)
(* the queues first.                                                       *)
Served == \A n \in Node : activeCallByNode[n] = NoCall => callQueue[n] = <<>>

---------------------------------------------------------------------------
(* Lines *)

(* Sequences with the same calls are the same.                             *)
LEMMA SameCalls ==
  ASSUME NEW s \in Seq(Call), NEW t \in Seq(Call), Len(s) = Len(t),
         \A i \in 1 .. Len(s) : s[i] = t[i]
  PROVE  s = t
OBVIOUS

(* What remains of a queue without its first.                              *)
LEMMA Rest ==
  ASSUME NEW q \in Seq(Call), q # <<>>
  PROVE  /\ Tail(q) \in Seq(Call) /\ Len(Tail(q)) = Len(q) - 1
         /\ \A i \in 1 .. Len(Tail(q)) : Tail(q)[i] = q[i + 1]
OBVIOUS

(* A call that stands before a queue.                                      *)
LEMMA LineValue ==
  ASSUME NEW a \in Call, NEW q \in Seq(Call)
  PROVE  /\ <<a>> \o q \in Seq(Call)
         /\ Len(<<a>> \o q) = Len(q) + 1
         /\ (<<a>> \o q)[1] = a
         /\ \A i \in 1 .. Len(q) : (<<a>> \o q)[i + 1] = q[i]
<1>1. <<a>> \in Seq(Call) /\ Len(<<a>>) = 1 /\ <<a>>[1] = a
  OBVIOUS
<1>2. Len(q) \in Nat
  OBVIOUS
<1> QED
  BY <1>1, <1>2

(* It is the first, and the queue is what remains.                         *)
LEMMA LineFirst ==
  ASSUME NEW a \in Call, NEW q \in Seq(Call)
  PROVE  /\ <<a>> \o q # <<>> /\ Head(<<a>> \o q) = a
         /\ Tail(<<a>> \o q) = q
<1> DEFINE s == <<a>> \o q
<1>1. s \in Seq(Call) /\ Len(s) = Len(q) + 1 /\ s[1] = a
  BY Zenon, LineValue
<1>2. \A i \in 1 .. Len(q) : s[i + 1] = q[i]
  BY Zenon, LineValue
<1>3. Len(q) \in Nat
  OBVIOUS
<1> HIDE DEF s
<1>4. s # <<>>
  BY <1>1, <1>3
<1>5. /\ Tail(s) \in Seq(Call) /\ Len(Tail(s)) = Len(s) - 1
      /\ \A i \in 1 .. Len(Tail(s)) : Tail(s)[i] = s[i + 1]
  BY Zenon, <1>1, <1>4, Rest
<1>6. Tail(s) = q
  <2>1. Len(Tail(s)) = Len(q)
    BY <1>1, <1>3, <1>5
  <2>2. \A i \in 1 .. Len(q) : Tail(s)[i] = q[i]
    BY Zenon, <1>2, <1>5, <2>1
  <2> QED
    BY Zenon, <1>5, <2>1, <2>2, SameCalls
<1>7. Head(s) = s[1]
  BY <1>1, <1>4
<1> QED
  BY Zenon, <1>1, <1>4, <1>6, <1>7 DEF s

(* The end of the queue is the end of the line.                            *)
LEMMA LineAppend ==
  ASSUME NEW a \in Call, NEW q \in Seq(Call), NEW c \in Call
  PROVE  <<a>> \o Append(q, c) = Append(<<a>> \o q, c)
<1> DEFINE s == <<a>> \o q
           t == Append(q, c)
           u == <<a>> \o t
<1>1. /\ s \in Seq(Call) /\ Len(s) = Len(q) + 1 /\ s[1] = a
      /\ \A i \in 1 .. Len(q) : s[i + 1] = q[i]
  BY Zenon, LineValue
<1>2. /\ t \in Seq(Call) /\ Len(t) = Len(q) + 1 /\ t[Len(q) + 1] = c /\ Len(q) \in Nat
      /\ \A i \in 1 .. Len(q) : t[i] = q[i]
  OBVIOUS
<1> HIDE DEF t
<1>3. /\ u \in Seq(Call) /\ Len(u) = Len(t) + 1 /\ u[1] = a
      /\ \A i \in 1 .. Len(t) : u[i + 1] = t[i]
  BY Zenon, <1>2, LineValue
<1> HIDE DEF s, u
<1>4. /\ Append(s, c) \in Seq(Call) /\ Len(Append(s, c)) = Len(s) + 1
      /\ Append(s, c)[Len(s) + 1] = c /\ \A i \in 1 .. Len(s) : Append(s, c)[i] = s[i]
  BY <1>1
<1>5. ASSUME NEW i \in 1 .. Len(u) PROVE u[i] = Append(s, c)[i]
  <2>1. CASE i = 1
    BY <1>1, <1>2, <1>3, <1>4, <2>1
  <2>2. CASE i # 1
    <3>1. i - 1 \in 1 .. Len(t) /\ (i - 1) + 1 = i
      BY <1>2, <1>3, <2>2
    <3>2. u[i] = t[i - 1]
      BY Zenon, <1>3, <3>1
    <3>3. CASE i = Len(u)
      BY <1>1, <1>2, <1>3, <1>4, <3>2, <3>3
    <3>4. CASE i # Len(u)
      <4>1. i - 1 \in 1 .. Len(q) /\ i \in 1 .. Len(s)
        BY <1>1, <1>2, <1>3, <2>2, <3>4
      <4> QED
        BY Zenon, <1>1, <1>2, <1>4, <3>1, <3>2, <4>1
    <3> QED
      BY Zenon, <3>3, <3>4
  <2> QED
    BY Zenon, <2>1, <2>2
<1>6. Len(u) = Len(Append(s, c))
  BY <1>1, <1>2, <1>3, <1>4
<1> QED
  BY Zenon, <1>3, <1>4, <1>5, <1>6, SameCalls DEF s, t, u

(* Drop takes out the first of the line, or the one behind it.             *)
LEMMA LineDrop ==
  ASSUME NEW a \in Call, NEW q \in Seq(Call)
  PROVE  /\ Calls!without(<<a>> \o q, 1) = q
         /\ q # <<>> => Calls!without(<<a>> \o q, 2) = <<a>> \o Tail(q)
<1> DEFINE s == <<a>> \o q
<1>1. s \in Seq(Call) /\ Len(s) = Len(q) + 1 /\ s[1] = a
  BY Zenon, LineValue
<1>2. \A i \in 1 .. Len(q) : s[i + 1] = q[i]
  BY Zenon, LineValue
<1>3. Len(q) \in Nat /\ q = [i \in 1 .. Len(q) |-> q[i]]
  OBVIOUS
<1>4. Calls!without(s, 1) = q
  <2>1. Calls!without(s, 1) = [j \in 1 .. Len(q) |-> IF j < 1 THEN s[j] ELSE s[j + 1]]
    BY <1>1, <1>3 DEF Calls!without
  <2> HIDE DEF s
  <2> QED
    BY <1>2, <1>3, <2>1
<1>5. ASSUME q # <<>> PROVE Calls!without(s, 2) = <<a>> \o Tail(q)
  <2> DEFINE u == <<a>> \o Tail(q)
  <2>1. Tail(q) \in Seq(Call) /\ Len(Tail(q)) = Len(q) - 1
    BY Zenon, <1>5, Rest
  <2>2. u \in Seq(Call) /\ Len(u) = Len(q) /\ u[1] = a
    BY <1>1, <1>3, <2>1, LineValue
  <2>3. \A i \in 1 .. Len(q) - 1 : u[i + 1] = Tail(q)[i] /\ Tail(q)[i] = q[i + 1]
    BY <1>1, <1>3, <1>5, <2>1, LineValue, Rest
  <2>4. Calls!without(s, 2) = [j \in 1 .. Len(q) |-> IF j < 2 THEN s[j] ELSE s[j + 1]]
    BY <1>1, <1>3 DEF Calls!without
  <2>5. u = [i \in 1 .. Len(q) |-> u[i]]
    BY <2>2
  <2> HIDE DEF s, u
  <2>6. ASSUME NEW i \in 1 .. Len(q)
        PROVE  u[i] = IF i < 2 THEN s[i] ELSE s[i + 1]
    <3>1. CASE i = 1
      BY <1>1, <1>3, <2>2, <3>1
    <3>2. CASE i # 1
      <4>1. i - 1 \in 1 .. Len(q) - 1 /\ (i - 1) + 1 = i /\ ~(i < 2)
        BY <1>3, <3>2
      <4>2. u[i] = q[i]
        BY Zenon, <2>3, <4>1
      <4> QED
        BY Zenon, <1>2, <4>1, <4>2
    <3> QED
      BY Zenon, <3>1, <3>2
  <2>7. u = Calls!without(s, 2)
    BY <2>4, <2>5, <2>6, Zenon
  <2> QED
    BY Zenon, <2>7 DEF u
<1> QED
  BY Zenon, <1>4, <1>5 DEF s

---------------------------------------------------------------------------
(* sendNextCall *)

(* sendNextCall leaves no queue unserved, and the calls of a node in the   *)
(* same order; line is what the tables it is given amount to.              *)
LEMMA SendNextLine ==
  ASSUME NEW n \in Node,
         NEW queue \in [Node -> Seq(Call)],
         NEW active \in [Node -> Call \cup {NoCall}], NEW auth, NEW running,
         \A m \in Node \ {n} : active[m] = NoCall => queue[m] = <<>>,
         sendNextCall(n, queue, active, auth, running)
  PROVE  /\ Served'
         /\ \A m \in Node : lineOf(m)' = IF active[m] = NoCall THEN queue[m]
                                         ELSE <<active[m]>> \o queue[m]
<1>1. CASE queue[n] = <<>> \/ active[n] # NoCall
  <2>1. callQueue' = queue /\ activeCallByNode' = active
    BY Zenon, <1>1 DEF sendNextCall
  <2> QED
    BY Zenon, <1>1, <2>1 DEF Served, lineOf
<1>2. CASE ~(queue[n] = <<>> \/ active[n] # NoCall)
  <2>1. /\ activeCallByNode' = [active EXCEPT ![n] = Head(queue[n])]
        /\ callQueue' = [queue EXCEPT ![n] = Tail(queue[n])]
        /\ queue[n] # <<>> /\ active[n] = NoCall
    BY Zenon, <1>2 DEF sendNextCall
  <2>2. Head(queue[n]) \in Call /\ Head(queue[n]) # NoCall
    BY Zenon, <2>1, FirstOfQueue, DispatchAssumption
  <2>3. <<Head(queue[n])>> \o Tail(queue[n]) = queue[n]
    <3> DEFINE q == queue[n]
    <3>1. q \in Seq(Call) /\ q # <<>> /\ Head(q) = q[1] /\ Head(q) \in Call
      BY Zenon, <2>1, FirstOfQueue
    <3> HIDE DEF q
    <3>2. Len(q) \in Nat
      BY <3>1
    <3>3. /\ Tail(q) \in Seq(Call) /\ Len(Tail(q)) = Len(q) - 1
          /\ \A i \in 1 .. Len(Tail(q)) : Tail(q)[i] = q[i + 1]
      BY Zenon, <3>1, Rest
    <3> DEFINE s == <<Head(q)>> \o Tail(q)
    <3>4. /\ s \in Seq(Call) /\ Len(s) = Len(Tail(q)) + 1 /\ s[1] = Head(q)
          /\ \A i \in 1 .. Len(Tail(q)) : s[i + 1] = Tail(q)[i]
      BY Zenon, <3>1, <3>3, LineValue
    <3> HIDE DEF s
    <3>5. Len(s) = Len(q)
      BY <3>2, <3>3, <3>4
    <3>6. ASSUME NEW i \in 1 .. Len(s) PROVE s[i] = q[i]
      <4>1. i # 1 => i - 1 \in 1 .. Len(Tail(q)) /\ (i - 1) + 1 = i
        BY <3>2, <3>3, <3>4
      <4> QED
        BY Zenon, <3>1, <3>3, <3>4, <4>1
    <3> QED
      BY Zenon, <3>1, <3>4, <3>5, <3>6, SameCalls DEF s, q
  <2>4. \A m \in Node \ {n} :
          activeCallByNode'[m] = active[m] /\ callQueue'[m] = queue[m]
    BY Zenon, <2>1
  <2>5. activeCallByNode'[n] = Head(queue[n]) /\ callQueue'[n] = Tail(queue[n])
    BY Zenon, <2>1
  <2>6. Served'
    BY Zenon, <2>2, <2>4, <2>5 DEF Served
  <2>7. lineOf(n)' = queue[n]
    BY Zenon, <2>2, <2>3, <2>5 DEF lineOf
  <2>8. \A m \in Node \ {n} : lineOf(m)' = IF active[m] = NoCall THEN queue[m]
                                           ELSE <<active[m]>> \o queue[m]
    BY Zenon, <2>4 DEF lineOf
  <2> QED
    BY Zenon, <2>1, <2>6, <2>7, <2>8
<1> QED
  BY Zenon, <1>1, <1>2

(* dispatchCall puts the call at the end of its line.                      *)
LEMMA AcceptLine ==
  ASSUME Inv, Served, NEW c \in Call, dispatchCall(c)
  PROVE  /\ Served'
         /\ lineOf(NodeOf[c])' = Append(lineOf(NodeOf[c]), c)
         /\ \A m \in Node \ {NodeOf[c]} : lineOf(m)' = lineOf(m)
<1> DEFINE n == NodeOf[c]
           queue == [callQueue EXCEPT ![n] = Append(@, c)]
<1>1. n \in Node
  BY Zenon, DispatchAssumption
<1>2. /\ callQueue \in [Node -> Seq(Call)]
      /\ activeCallByNode \in [Node -> Call \cup {NoCall}]
  BY Zenon DEF Inv, TypeOK
<1>3. sendNextCall(n, queue, activeCallByNode, activeCallByAuth, armed)
  BY Zenon DEF dispatchCall
<1>4. queue \in [Node -> Seq(Call)]
  BY <1>1, <1>2
<1>5. queue[n] = Append(callQueue[n], c) /\ \A m \in Node \ {n} : queue[m] = callQueue[m]
  BY Zenon, <1>1, <1>2
<1> HIDE DEF n, queue
<1>6. /\ Served'
      /\ \A m \in Node : lineOf(m)' = IF activeCallByNode[m] = NoCall THEN queue[m]
                                      ELSE <<activeCallByNode[m]>> \o queue[m]
  <2>1. \A m \in Node \ {n} : activeCallByNode[m] = NoCall => queue[m] = <<>>
    BY Zenon, <1>5 DEF Served
  <2> QED
    BY Zenon, <1>1, <1>2, <1>3, <1>4, <2>1, SendNextLine
<1>7. lineOf(n)' = Append(lineOf(n), c)
  <2>1. CASE activeCallByNode[n] = NoCall
    BY Zenon, <1>1, <1>5, <1>6, <2>1 DEF lineOf
  <2>2. CASE activeCallByNode[n] # NoCall
    <3>1. activeCallByNode[n] \in Call /\ callQueue[n] \in Seq(Call)
      BY Zenon, <1>1, <1>2, <2>2
    <3> QED
      BY Zenon, <1>1, <1>5, <1>6, <2>2, <3>1, LineAppend DEF lineOf
  <2> QED
    BY Zenon, <2>1, <2>2
<1>8. \A m \in Node \ {n} : lineOf(m)' = lineOf(m)
  BY Zenon, <1>5, <1>6 DEF lineOf
<1> QED
  BY Zenon, <1>6, <1>7, <1>8 DEF n

(* dispatchCallDone takes the first call out of its line, and the next     *)
(* one moves up.                                                           *)
LEMMA LeaveLine ==
  ASSUME Inv, Served, NEW c \in Call, dispatchCallDone(c)
  PROVE  /\ Served'
         /\ lineOf(NodeOf[c]) # <<>> /\ Head(lineOf(NodeOf[c])) = c
         /\ lineOf(NodeOf[c])' = Tail(lineOf(NodeOf[c]))
         /\ \A m \in Node \ {NodeOf[c]} : lineOf(m)' = lineOf(m)
<1> DEFINE n == NodeOf[c]
           active == [activeCallByNode EXCEPT ![n] = NoCall]
<1>1. n \in Node
  BY Zenon, DispatchAssumption
<1>2. /\ callQueue \in [Node -> Seq(Call)]
      /\ activeCallByNode \in [Node -> Call \cup {NoCall}]
  BY Zenon DEF Inv, TypeOK
<1>3. activeCallByNode[n] = c
  BY Zenon DEF Inv, CallerInv, CallerOK, Active, dispatchCallDone
<1>4. sendNextCall(n, callQueue, active, forgetNonce(activeCallByAuth, nonce[c]),
                   armed \ {<<c, timeout[c]>>})
  BY Zenon, <1>3 DEF dispatchCallDone
<1>5. /\ active \in [Node -> Call \cup {NoCall}] /\ active[n] = NoCall
      /\ \A m \in Node \ {n} : active[m] = activeCallByNode[m]
  BY Zenon, <1>1, <1>2
<1>6. c # NoCall
  BY Zenon, DispatchAssumption
<1> HIDE DEF n, active
<1>7. /\ Served'
      /\ \A m \in Node : lineOf(m)' = IF active[m] = NoCall THEN callQueue[m]
                                      ELSE <<active[m]>> \o callQueue[m]
  <2>1. \A m \in Node \ {n} : active[m] = NoCall => callQueue[m] = <<>>
    BY Zenon, <1>5 DEF Served
  <2> QED
    BY <1>1, <1>2, <1>4, <1>5, <2>1, SendNextLine
<1>8. lineOf(n) = <<c>> \o callQueue[n]
  BY Zenon, <1>3, <1>6 DEF lineOf
<1>9. lineOf(n)' = callQueue[n]
  BY Zenon, <1>1, <1>5, <1>7
<1>10. \A m \in Node \ {n} : lineOf(m)' = lineOf(m)
  BY Zenon, <1>5, <1>7 DEF lineOf
<1>11. callQueue[n] \in Seq(Call)
  BY Zenon, <1>1, <1>2
<1> QED
  BY SMTT(30), <1>7, <1>8, <1>9, <1>10, <1>11, LineFirst DEF n

(* The shutdown of dispatch takes the second of a line out while calls are *)
(* queued, and the first when none are.                                    *)
LEMMA DropQueued ==
  ASSUME Inv, Served, NEW n \in Node, closeQueued(n)
  PROVE  /\ Served'
         /\ \E i \in 1 .. Len(lineOf(n)) :
              /\ lineOf(n)[i] = Head(callQueue[n])
              /\ lineOf(n)' = Calls!without(lineOf(n), i)
         /\ \A m \in Node \ {n} : lineOf(m)' = lineOf(m)
<1> DEFINE a == activeCallByNode[n]
           q == callQueue[n]
<1>1. /\ callQueue \in [Node -> Seq(Call)]
      /\ activeCallByNode \in [Node -> Call \cup {NoCall}]
  BY Zenon DEF Inv, TypeOK
<1>2. /\ q # <<>> /\ callQueue' = [callQueue EXCEPT ![n] = Tail(@)]
      /\ activeCallByNode' = activeCallByNode
  BY Zenon DEF closeQueued
<1>3. q \in Seq(Call) /\ a \in Call /\ a # NoCall
  BY Zenon, <1>1, <1>2 DEF Served
<1>4. callQueue'[n] = Tail(q) /\ \A m \in Node \ {n} : callQueue'[m] = callQueue[m]
  BY Zenon, <1>1, <1>2
<1>5. Served'
  BY Zenon, <1>2, <1>3, <1>4 DEF Served
<1>6. lineOf(n) = <<a>> \o q /\ lineOf(n)' = <<a>> \o Tail(q)
  BY Zenon, <1>2, <1>3, <1>4 DEF lineOf
<1>7. Head(q) = q[1] /\ 1 \in 1 .. Len(q) /\ Len(q) \in Nat
  BY <1>1, <1>2, FirstOfQueue
<1>8. \A m \in Node \ {n} : lineOf(m)' = lineOf(m)
  BY <1>2, <1>4 DEF lineOf
<1> HIDE DEF a, q
<1>9. Len(<<a>> \o q) = Len(q) + 1 /\ (<<a>> \o q)[1 + 1] = q[1]
  BY <1>3, <1>7, LineValue
<1>10. 2 \in 1 .. Len(<<a>> \o q) /\ (<<a>> \o q)[2] = Head(q)
  BY <1>7, <1>9
<1>11. Calls!without(<<a>> \o q, 2) = <<a>> \o Tail(q)
  BY Zenon, <1>2, <1>3, LineDrop
<1> QED
  BY <1>5, <1>6, <1>8, <1>10, <1>11, Zenon DEF q

(* As before, for the active call.                                         *)
LEMMA DropActive ==
  ASSUME Inv, NEW n \in Node, closeActive(n)
  PROVE  /\ Served'
         /\ 1 \in 1 .. Len(lineOf(n)) /\ lineOf(n)[1] = activeCallByNode[n]
         /\ lineOf(n)' = Calls!without(lineOf(n), 1)
         /\ \A m \in Node \ {n} : lineOf(m)' = lineOf(m)
<1> DEFINE a == activeCallByNode[n]
           q == callQueue[n]
<1>1. /\ callQueue \in [Node -> Seq(Call)]
      /\ activeCallByNode \in [Node -> Call \cup {NoCall}]
  BY Zenon DEF Inv, TypeOK
<1>2. /\ a # NoCall /\ callQueue' = callQueue
      /\ activeCallByNode' = [activeCallByNode EXCEPT ![n] = NoCall]
      /\ \A m \in Node : callQueue[m] = <<>>
  BY Zenon DEF closeActive
<1>3. q \in Seq(Call) /\ a \in Call
  BY Zenon, <1>1, <1>2
<1>4. /\ activeCallByNode'[n] = NoCall
      /\ \A m \in Node \ {n} : activeCallByNode'[m] = activeCallByNode[m]
  BY Zenon, <1>1, <1>2
<1>5. Served'
  BY Zenon, <1>2 DEF Served
<1>6. lineOf(n) = <<a>> \o q /\ lineOf(n)' = q
  BY Zenon, <1>2, <1>4 DEF lineOf
<1>7. \A m \in Node \ {n} : lineOf(m)' = lineOf(m)
  BY <1>2, <1>4 DEF lineOf
<1> HIDE DEF a, q
<1>8. Len(q) \in Nat /\ Len(<<a>> \o q) = Len(q) + 1 /\ (<<a>> \o q)[1] = a
  BY <1>3, LineValue
<1>9. Calls!without(<<a>> \o q, 1) = q
  BY Zenon, <1>3, LineDrop
<1> QED
  BY <1>5, <1>6, <1>7, <1>8, <1>9 DEF a

---------------------------------------------------------------------------
(* Steps *)

(* The call dispatch sends to is the first in its line, and its caller is  *)
(* there before Close.                                                     *)
LEMMA Attended ==
  ASSUME Inv, dpc \in {"putErr", "putCh"}
  PROVE  dcall \in Call /\ Calls!attended(dcall)
<1>1. dcall \in Call /\ activeCallByNode[NodeOf[dcall]] = dcall
  BY Zenon DEF Inv, TypeOK, DispatchInv, Active
<1>2. NodeOf[dcall] \in Node /\ dcall # NoCall
  BY Zenon, <1>1, DispatchAssumption
<1>3. closed \/ pc[dcall] \in {"waiting", "done"}
  BY <1>1, <1>2 DEF Inv, ActiveInv, ActiveOK
<1>4. callQueue[NodeOf[dcall]] \in Seq(Call)
  BY Zenon, <1>2 DEF Inv, TypeOK
<1>5. /\ lineOf(NodeOf[dcall]) # <<>> /\ Head(lineOf(NodeOf[dcall])) = dcall
  BY Zenon, <1>1, <1>2, <1>4, LineFirst DEF lineOf
<1> QED
  BY Zenon, <1>1, <1>2, <1>3, <1>5 DEF Calls!attended, Calls!first

(* The lines of the mapping change at one node.                            *)
LEMMA LineUpdate ==
  ASSUME NEW n \in Node, \A m \in Node \ {n} : lineOf(m)' = lineOf(m)
  PROVE  [m \in Node |-> lineOf(m)]' = [[m \in Node |-> lineOf(m)] EXCEPT ![n] = lineOf(n)']
BY Zenon

(* Every step of the transport is a step of SerialCalls, or changes        *)
(* nothing that SerialCalls sees.                                          *)
LEMMA StepRefines ==
  ASSUME Inv, Served, [Next]_vars
  PROVE  Served' /\ [Calls!Next]_(Calls!vars)
<1> DEFINE Line == [m \in Node |-> lineOf(m)]
<1>1. ASSUME UNCHANGED <<callQueue, activeCallByNode>>
      PROVE  Served' /\ Line' = Line
  BY Zenon, <1>1 DEF Served, lineOf
<1>2. ASSUME UNCHANGED <<pc, ch, err, callQueue, activeCallByNode, closed>>
      PROVE  Served' /\ UNCHANGED Calls!vars
  BY Zenon, <1>1, <1>2 DEF Calls!vars
<1>3. ASSUME NEW c \in Call, call(c) PROVE Served' /\ Calls!Make(c)
  BY Zenon, <1>1, <1>3 DEF call, callVars, Calls!Make
<1>4. ASSUME NEW c \in Call, dispatchCall(c) PROVE Served' /\ Calls!Accept(c)
  <2>1. /\ pc[c] = "calling" /\ ~closed /\ pc' = [pc EXCEPT ![c] = "waiting"]
        /\ UNCHANGED <<ch, err, closed>>
    BY Zenon, <1>4 DEF dispatchCall
  <2>2. NodeOf[c] \in Node
    BY Zenon, DispatchAssumption
  <2>3. Line' = [Line EXCEPT ![NodeOf[c]] = Append(@, c)]
    BY Zenon, <1>4, <2>2, AcceptLine, LineUpdate
  <2> QED
    BY Zenon, <1>4, <2>1, <2>3, AcceptLine DEF Calls!Accept
<1>5. ASSUME NEW c \in Call, callClosed(c) PROVE Served' /\ Calls!Refuse(c)
  BY Zenon, <1>1, <1>5 DEF callClosed, callVars, Calls!Refuse
<1>6. ASSUME NEW c \in Call, receiveResponse(c) PROVE Served' /\ Calls!TakeResponse(c)
  <2>1. /\ pc[c] = "waiting" /\ ch[c] /\ ch' = [ch EXCEPT ![c] = FALSE]
        /\ UNCHANGED <<err, callQueue, activeCallByNode, closed>>
    BY Zenon, <1>6 DEF receiveResponse, callVars
  <2>2. \/ pc' = [pc EXCEPT ![c] = "done"]
        \/ c \in Multi /\ pc' = [pc EXCEPT ![c] = "waiting"]
    BY Zenon, <1>6 DEF receiveResponse
  <2>3. [pc EXCEPT ![c] = "waiting"] = pc
    BY Zenon, <2>1 DEF Inv, TypeOK
  <2> QED
    BY Zenon, <1>1, <2>1, <2>2, <2>3 DEF Calls!TakeResponse
<1>7. ASSUME NEW c \in Call, receiveError(c) PROVE Served' /\ Calls!TakeError(c)
  BY Zenon, <1>1, <1>7 DEF receiveError, callVars, Calls!TakeError
<1>8. ASSUME NEW c \in Call, discardResponse(c) PROVE Served' /\ Calls!DiscardResponse(c)
  BY Zenon, <1>1, <1>8 DEF discardResponse, callVars, Calls!DiscardResponse
<1>9. ASSUME NEW c \in Call, discardError(c) PROVE Served' /\ Calls!DiscardError(c)
  BY Zenon, <1>1, <1>9 DEF discardError, callVars, Calls!DiscardError
<1>10. ASSUME NEW c \in Call, callDoneClosed(c) PROVE Served' /\ Calls!Leave(c)
  BY Zenon, <1>1, <1>10 DEF callDoneClosed, callVars, Calls!Leave
<1>11. ASSUME NEW c \in Call, dispatchCallDone(c) PROVE Served' /\ Calls!Leave(c)
  <2>1. /\ pc[c] = "done" /\ ~closed /\ pc' = [pc EXCEPT ![c] = "returned"]
        /\ UNCHANGED <<ch, err, closed>>
    BY Zenon, <1>11 DEF dispatchCallDone
  <2>2. NodeOf[c] \in Node
    BY Zenon, DispatchAssumption
  <2>3. Line' = [Line EXCEPT ![NodeOf[c]] = Tail(@)]
    BY Zenon, <1>11, <2>2, LeaveLine, LineUpdate
  <2>4. Calls!first(c)
    BY Zenon, <1>11, <2>2, LeaveLine DEF Calls!first
  <2> QED
    BY Zenon, <1>11, <2>1, <2>3, <2>4, LeaveLine DEF Calls!Leave
<1>12. CASE putErr
  <2>1. /\ err[dcall] = "none" /\ err' = [err EXCEPT ![dcall] = "timeout"]
        /\ UNCHANGED <<pc, ch, callQueue, activeCallByNode, closed>>
        /\ dpc \in {"putErr", "putCh"}
    BY Zenon, <1>12 DEF putErr, callVars
  <2>2. dcall \in Call /\ Calls!TimeOut(dcall)
    BY Zenon, <1>1, <2>1, Attended DEF Calls!TimeOut
  <2> QED
    BY Zenon, <1>1, <2>1, <2>2 DEF Calls!Next
<1>13. CASE putCh
  <2>1. /\ ~ch[dcall] /\ ch' = [ch EXCEPT ![dcall] = TRUE]
        /\ UNCHANGED <<pc, err, callQueue, activeCallByNode, closed>>
        /\ dpc \in {"putErr", "putCh"}
    BY Zenon, <1>13 DEF putCh, callVars
  <2>2. dcall \in Call /\ Calls!Respond(dcall)
    BY Zenon, <1>1, <2>1, Attended DEF Calls!Respond
  <2> QED
    BY Zenon, <1>1, <2>1, <2>2 DEF Calls!Next
<1>14. CASE Close
  BY Zenon, <1>1, <1>14 DEF Close, callVars, Calls!Close, Calls!Next
<1>15. ASSUME NEW n \in Node, closeQueued(n) PROVE Served' /\ Calls!Next
  <2>1. PICK i \in 1 .. Len(lineOf(n)) :
          /\ lineOf(n)[i] = Head(callQueue[n])
          /\ lineOf(n)' = Calls!without(lineOf(n), i)
    BY Zenon, <1>15, DropQueued
  <2>2. /\ closed /\ err[lineOf(n)[i]] = "none"
        /\ err' = [err EXCEPT ![lineOf(n)[i]] = "closed"]
        /\ UNCHANGED <<pc, ch, closed>>
    BY Zenon, <1>15, <2>1 DEF closeQueued, Inv, DispatchInv
  <2>3. Line' = [Line EXCEPT ![n] = Calls!without(@, i)]
    BY Zenon, <1>15, <2>1, DropQueued, LineUpdate
  <2>4. Line[n] = lineOf(n)
    BY Zenon
  <2>5. Calls!Drop(n, i)
    BY Zenon, <2>2, <2>3, <2>4 DEF Calls!Drop
  <2> QED
    BY Zenon, <1>15, <2>4, <2>5, DropQueued DEF Calls!Next
<1>16. ASSUME NEW n \in Node, closeActive(n) PROVE Served' /\ Calls!Next
  <2>1. /\ 1 \in 1 .. Len(lineOf(n)) /\ lineOf(n)[1] = activeCallByNode[n]
        /\ lineOf(n)' = Calls!without(lineOf(n), 1)
    BY Zenon, <1>16, DropActive
  <2>2. /\ closed /\ err[lineOf(n)[1]] = "none"
        /\ err' = [err EXCEPT ![lineOf(n)[1]] = "closed"]
        /\ UNCHANGED <<pc, ch, closed>>
    BY Zenon, <1>16, <2>1 DEF closeActive, Inv, DispatchInv
  <2>3. Line' = [Line EXCEPT ![n] = Calls!without(@, 1)]
    BY Zenon, <1>16, <2>1, DropActive, LineUpdate
  <2>4. Line[n] = lineOf(n)
    BY Zenon
  <2>5. Calls!Drop(n, 1)
    BY Zenon, <2>2, <2>3, <2>4 DEF Calls!Drop
  <2> QED
    BY Zenon, <1>16, <2>1, <2>4, <2>5, DropActive DEF Calls!Next
<1>17. ASSUME NEW m \in 0 .. nextNonce - 1, handleWhoareyou(m)
       PROVE  UNCHANGED <<pc, ch, err, callQueue, activeCallByNode, closed>>
  BY Zenon, <1>17 DEF handleWhoareyou
<1>18. ASSUME NEW c \in Call, CallerStep(c) PROVE Served' /\ Calls!Next
  BY <1>4, <1>5, <1>6, <1>7, <1>8, <1>9, <1>10, <1>11, <1>18, Zenon
     DEF CallerStep, Calls!Next
<1>19. CASE DispatchStep
  BY <1>2, <1>12, <1>13, <1>15, <1>16, <1>17, <1>19, ZenonT(30)
     DEF DispatchStep, PacketStep, handleCallResponse, handleOther, rearm,
         dispatchClosed, dispatchReturn, takePacket, callVars
<1>20. ASSUME \/ UNCHANGED vars \/ TimerStep \/ ReadStep \/ readPacket \/ readTemporaryError
              \/ \E c \in Call : timerExpires(c)
       PROVE  UNCHANGED <<pc, ch, err, callQueue, activeCallByNode, closed>>
  BY <1>20, ZenonT(30)
     DEF TimerStep, ReadStep, timerExpires, timerClosed, dispatchTimeout, readNext,
         readLoopEnds, readPacket, readTemporaryError, dispatchReadPacket, vars, callVars
<1> QED
  BY <1>2, <1>3, <1>14, <1>18, <1>19, <1>20, ZenonT(30) DEF Next, Calls!Next

---------------------------------------------------------------------------
(* The transport implements SerialCalls: to the goroutines that make       *)
(* calls, dispatch with its queue, its two maps of active calls, nonces,   *)
(* timers and channels is one line of calls per node, served in order.     *)
THEOREM TransportSerialisesCalls == Spec => ImplementsSerialCalls
<1>1. Init => Served /\ Calls!Init
  <2> SUFFICES ASSUME Init PROVE Served /\ Calls!Init
    BY Zenon
  <2>1. \A n \in Node : callQueue[n] = <<>> /\ activeCallByNode[n] = NoCall
    BY Zenon DEF Init
  <2>2. [n \in Node |-> lineOf(n)] = [n \in Node |-> <<>>]
    BY Zenon, <2>1 DEF lineOf
  <2> QED
    BY Zenon, <2>1, <2>2 DEF Init, Served, Calls!Init
<1>2. Inv /\ Served /\ [Next]_vars => Served' /\ [Calls!Next]_(Calls!vars)
  BY Zenon, StepRefines
<1> QED
  BY <1>1, <1>2, AlwaysInv, PTL DEF Spec, ImplementsSerialCalls, Calls!Spec
===========================================================================
