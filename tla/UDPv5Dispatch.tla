--------------------------- MODULE UDPv5Dispatch ---------------------------
(***************************************************************************)
(* The discv5 transport (pkg/discover/v5_udp.go): the goroutines that make *)
(* calls, the dispatch goroutine that owns the call tables, the readLoop   *)
(* goroutine, the response timers, and Close.                              *)
(*                                                                         *)
(* A channel operation that can block is a step of its own, enabled when   *)
(* the operation can proceed.  callCh, callDoneCh and respTimeoutCh are    *)
(* unbuffered: a transfer is one step of both goroutines.  Once closeCtx   *)
(* is done no such transfer happens any more, because every sender selects *)
(* on closeCtx too and never parks again; buffered packets still may be    *)
(* received.                                                               *)
(*                                                                         *)
(* A nonce is a number, 0 the zero Nonce{} that a failed Encode returns.   *)
(* Of a packet that arrives only what it does to a call matters.  Each     *)
(* element of Call is one call of call(), made at most once.               *)
(***************************************************************************)
EXTENDS Naturals, Sequences

CONSTANTS
  Node,          \* remote nodes
  Call,          \* calls
  NodeOf,        \* the node a call is made to
  Multi,         \* the FINDNODE calls, which may await several responses
  NoCall,        \* a nil *callV5
  EncodeErrors,  \* whether codec.Encode may fail
  TempErrors,    \* whether ReadFromUDP may return a temporary error
  MayClose,      \* whether Close may be called
  MaxPackets     \* bound on the packets that arrive

ASSUME DispatchAssumption ==
  /\ NodeOf \in [Call -> Node]
  /\ Multi \subseteq Call
  /\ NoCall \notin Call
  /\ EncodeErrors \in BOOLEAN /\ TempErrors \in BOOLEAN /\ MayClose \in BOOLEAN
  /\ MaxPackets \in Nat

VARIABLES
  pc,                \* of each call: where the goroutine that made it is
  ch,                \* c.ch, capacity 1: whether it holds a response
  err,               \* c.err, capacity 1: the error it holds
  nonce,             \* c.nonce
  handshakeCount,    \* c.handshakeCount
  timeout,           \* c.timeout: which timer of the call is the current one
  callQueue,         \* t.callQueue
  activeCallByNode,  \* t.activeCallByNode
  activeCallByAuth,  \* t.activeCallByAuth, as a set of pairs
  nextNonce,         \* the codec's next nonce
  armed,             \* timers that run
  firing,            \* timers that expired and wait to send on respTimeoutCh
  dpc,               \* where dispatch is
  dcall,             \* the call whose channel dispatch is sending to
  rpc,               \* where readLoop is
  readNextCh,        \* capacity 1: whether it holds a token
  readNextClosed,    \* dispatch closed readNextCh
  packetInCh,        \* capacity 1: whether it holds a packet
  packets,           \* packets read so far
  closed             \* closeCtx is done

callVars == <<nonce, handshakeCount, timeout, callQueue, activeCallByNode,
              activeCallByAuth, nextNonce, armed>>
readVars == <<rpc, readNextCh, readNextClosed, packetInCh, packets>>
vars == <<pc, ch, err, callVars, firing, dpc, dcall, readVars, closed>>

Timer == Call \X Nat

Init ==
  /\ pc = [c \in Call |-> "idle"]
  /\ ch = [c \in Call |-> FALSE]
  /\ err = [c \in Call |-> "none"]
  /\ nonce = [c \in Call |-> 0]
  /\ handshakeCount = [c \in Call |-> 0]
  /\ timeout = [c \in Call |-> 0]
  /\ callQueue = [n \in Node |-> <<>>]
  /\ activeCallByNode = [n \in Node |-> NoCall]
  /\ activeCallByAuth = {}
  /\ nextNonce = 1
  /\ armed = {}
  /\ firing = {}
  /\ dpc = "rearm"            \* "Arm first read."
  /\ dcall = NoCall
  /\ rpc = "wait"
  /\ readNextCh = FALSE
  /\ readNextClosed = FALSE
  /\ packetInCh = FALSE
  /\ packets = 0
  /\ closed = FALSE

---------------------------------------------------------------------------
(* Sending a call *)

(* Mutant: the entry stays.                                                *)
forgetNonceNot(auth, n) == auth

forgetNonce(auth, n) == {e \in auth : e[1] # n}

(* Mutant: the timer is stopped and never started again.                   *)
startResponseTimeoutOnce(c, running) ==
  /\ timeout' = [timeout EXCEPT ![c] = @ + 1]
  /\ armed' = IF timeout[c] = 0 THEN running \cup {<<c, 1>>}
                                ELSE running \ {<<c, timeout[c]>>}

(* Of the timers in `running', the call's old one is stopped and a new one *)
(* starts.  A timer that has fired already is not recalled.                *)
startResponseTimeout(c, running) ==
  /\ timeout' = [timeout EXCEPT ![c] = @ + 1]
  /\ armed' = (running \ {<<c, timeout[c]>>}) \cup {<<c, timeout[c] + 1>>}

(* A failed Encode leaves the zero nonce, and is otherwise ignored.        *)
sendCall(c, auth, running) ==
  /\ \E n \in {nextNonce} \cup (IF EncodeErrors THEN {0} ELSE {}) :
       /\ nonce' = [nonce EXCEPT ![c] = n]
       /\ activeCallByAuth' =
            forgetNonce(IF nonce[c] # 0 THEN forgetNonce(auth, nonce[c]) ELSE auth, n)
              \cup {<<n, c>>}
       /\ nextNonce' = IF n = 0 THEN nextNonce ELSE nextNonce + 1
  /\ startResponseTimeout(c, running)

(* The tables as the caller left them; the queue of node n may now have a  *)
(* call to make active.                                                    *)
sendNextCall(n, queue, active, auth, running) ==
  IF queue[n] = <<>> \/ active[n] # NoCall
    THEN /\ callQueue' = queue
         /\ activeCallByNode' = active
         /\ activeCallByAuth' = auth
         /\ armed' = running
         /\ UNCHANGED <<nonce, nextNonce, timeout>>
    ELSE /\ activeCallByNode' = [active EXCEPT ![n] = Head(queue[n])]
         /\ callQueue' = [queue EXCEPT ![n] = Tail(queue[n])]
         /\ sendCall(Head(queue[n]), auth, running)

---------------------------------------------------------------------------
(* The goroutines that make calls *)

(* call(): the goroutine is about to hand its call to dispatch.            *)
call(c) ==
  /\ pc[c] = "idle"
  /\ pc' = [pc EXCEPT ![c] = "calling"]
  /\ UNCHANGED <<ch, err, callVars, firing, dpc, dcall, readVars, closed>>

(* The transfer on callCh, and what dispatch does with it.                 *)
dispatchCall(c) ==
  /\ pc[c] = "calling"
  /\ dpc = "select"
  /\ ~closed
  /\ pc' = [pc EXCEPT ![c] = "waiting"]
  /\ LET n == NodeOf[c]
     IN sendNextCall(n, [callQueue EXCEPT ![n] = Append(@, c)],
                     activeCallByNode, activeCallByAuth, armed)
  /\ UNCHANGED <<ch, err, handshakeCount, firing, dpc, dcall, readVars, closed>>

callClosed(c) ==
  /\ pc[c] = "calling"
  /\ closed
  /\ err[c] = "none"
  /\ err' = [err EXCEPT ![c] = "closed"]
  /\ pc' = [pc EXCEPT ![c] = "waiting"]
  /\ UNCHANGED <<ch, callVars, firing, dpc, dcall, readVars, closed>>

(* ping, TalkRequest and waitForNodes receive a response; waitForNodes     *)
(* goes on until it has as many as the first one announced.                *)
receiveResponse(c) ==
  /\ pc[c] = "waiting"
  /\ ch[c]
  /\ ch' = [ch EXCEPT ![c] = FALSE]
  /\ \E next \in {"done"} \cup (IF c \in Multi THEN {"waiting"} ELSE {}) :
       pc' = [pc EXCEPT ![c] = next]
  /\ UNCHANGED <<err, callVars, firing, dpc, dcall, readVars, closed>>

receiveError(c) ==
  /\ pc[c] = "waiting"
  /\ err[c] # "none"
  /\ err' = [err EXCEPT ![c] = "none"]
  /\ pc' = [pc EXCEPT ![c] = "done"]
  /\ UNCHANGED <<ch, callVars, firing, dpc, dcall, readVars, closed>>

(* callDone: "late response, discard", "late error, discard".              *)
discardResponse(c) ==
  /\ pc[c] = "done"
  /\ ch[c]
  /\ ch' = [ch EXCEPT ![c] = FALSE]
  /\ UNCHANGED <<pc, err, callVars, firing, dpc, dcall, readVars, closed>>

discardError(c) ==
  /\ pc[c] = "done"
  /\ err[c] # "none"
  /\ err' = [err EXCEPT ![c] = "none"]
  /\ UNCHANGED <<pc, ch, callVars, firing, dpc, dcall, readVars, closed>>

callDoneClosed(c) ==
  /\ pc[c] = "done"
  /\ closed
  /\ pc' = [pc EXCEPT ![c] = "returned"]
  /\ UNCHANGED <<ch, err, callVars, firing, dpc, dcall, readVars, closed>>

(* The transfer on callDoneCh; dispatch panics if the call is not active.  *)
dispatchCallDone(c) ==
  /\ pc[c] = "done"
  /\ dpc = "select"
  /\ ~closed
  /\ pc' = [pc EXCEPT ![c] = "returned"]
  /\ LET n == NodeOf[c]
     IN IF activeCallByNode[n] # c
          THEN dpc' = "panicked" /\ UNCHANGED callVars
          ELSE /\ sendNextCall(n, callQueue,
                               [activeCallByNode EXCEPT ![n] = NoCall],
                               forgetNonce(activeCallByAuth, nonce[c]),
                               armed \ {<<c, timeout[c]>>})
               /\ UNCHANGED <<dpc, handshakeCount>>
  /\ UNCHANGED <<ch, err, firing, dcall, readVars, closed>>

---------------------------------------------------------------------------
(* The response timers *)

timerExpires(c) ==
  /\ <<c, timeout[c]>> \in armed
  /\ armed' = armed \ {<<c, timeout[c]>>}
  /\ firing' = firing \cup {<<c, timeout[c]>>}
  /\ UNCHANGED <<pc, ch, err, nonce, handshakeCount, timeout, callQueue,
                 activeCallByNode, activeCallByAuth, nextNonce, dpc, dcall,
                 readVars, closed>>

timerClosed(t) ==
  /\ closed
  /\ firing' = firing \ {t}
  /\ UNCHANGED <<pc, ch, err, callVars, dpc, dcall, readVars, closed>>

(* Mutant: any timer of the active call ends it.                           *)
dispatchTimeoutStale(t) ==
  /\ dpc = "select"
  /\ ~closed
  /\ firing' = firing \ {t}
  /\ IF activeCallByNode[NodeOf[t[1]]] = t[1]
       THEN dpc' = "putErr" /\ dcall' = t[1]
       ELSE UNCHANGED <<dpc, dcall>>
  /\ UNCHANGED <<pc, ch, err, callVars, readVars, closed>>

(* The transfer on respTimeoutCh: a timer that is not the current one of   *)
(* an active call is ignored.                                              *)
dispatchTimeout(t) ==
  /\ dpc = "select"
  /\ ~closed
  /\ firing' = firing \ {t}
  /\ IF activeCallByNode[NodeOf[t[1]]] = t[1] /\ t[2] = timeout[t[1]]
       THEN dpc' = "putErr" /\ dcall' = t[1]
       ELSE UNCHANGED <<dpc, dcall>>
  /\ UNCHANGED <<pc, ch, err, callVars, readVars, closed>>

putErr ==
  /\ dpc = "putErr"
  /\ err[dcall] = "none"
  /\ err' = [err EXCEPT ![dcall] = "timeout"]
  /\ dpc' = "select"
  /\ dcall' = NoCall
  /\ UNCHANGED <<pc, ch, callVars, firing, readVars, closed>>

---------------------------------------------------------------------------
(* Packets in dispatch *)

takePacket ==
  /\ dpc = "select"
  /\ packetInCh
  /\ packetInCh' = FALSE
  /\ UNCHANGED <<rpc, readNextCh, readNextClosed, packets>>

(* Under its present nonce or, if the handshake could not be encoded,      *)
(* under the one before.                                                   *)
wasSent(c) == nonce[c] # 0 \/ handshakeCount[c] > 0

(* Mutant: a late response is passed on as well.                           *)
handleCallResponseLate(c) ==
  /\ takePacket
  /\ wasSent(c)
  /\ startResponseTimeout(c, armed)
  /\ dpc' = "putCh"
  /\ dcall' = c
  /\ UNCHANGED <<pc, ch, err, nonce, handshakeCount, callQueue, activeCallByNode,
                 activeCallByAuth, nextNonce, firing, closed>>

(* A response of the right type from the right endpoint to a call that was *)
(* sent; to dispatch it is late when another call is active, or none.      *)
handleCallResponse(c) ==
  /\ takePacket
  /\ wasSent(c)
  /\ IF activeCallByNode[NodeOf[c]] = c
       THEN /\ startResponseTimeout(c, armed)
            /\ dpc' = "putCh"
            /\ dcall' = c
       ELSE /\ dpc' = "rearm"
            /\ UNCHANGED <<timeout, armed, dcall>>
  /\ UNCHANGED <<pc, ch, err, nonce, handshakeCount, callQueue, activeCallByNode,
                 activeCallByAuth, nextNonce, firing, closed>>

putCh ==
  /\ dpc = "putCh"
  /\ ~ch[dcall]
  /\ ch' = [ch EXCEPT ![dcall] = TRUE]
  /\ dpc' = "rearm"
  /\ dcall' = NoCall
  /\ UNCHANGED <<pc, err, callVars, firing, readVars, closed>>

(* The call whose handshake a WHOAREYOU with this nonce may start.         *)
matchWithCall(n) == {c \in Call : <<n, c>> \in activeCallByAuth /\ handshakeCount[c] = 0}

(* A WHOAREYOU packet about the packet with nonce n.  With the zero nonce  *)
(* it finds a call that was never sent, and the call's entry stays.        *)
handleWhoareyou(n) ==
  /\ takePacket
  /\ \E c \in matchWithCall(n) :
       /\ handshakeCount' = [handshakeCount EXCEPT ![c] = @ + 1]
       /\ sendCall(c, activeCallByAuth, armed)
  /\ dpc' = "rearm"
  /\ UNCHANGED <<pc, ch, err, callQueue, activeCallByNode, firing, dcall, closed>>

(* Mutant: the next read is not armed.                                     *)
handleOtherNoRearm ==
  /\ takePacket
  /\ UNCHANGED <<pc, ch, err, callVars, firing, dpc, dcall, closed>>

(* Every other packet: undecodable, a request (which is answered), a       *)
(* response that does not fit, a WHOAREYOU that matches no call.           *)
handleOther ==
  /\ takePacket
  /\ dpc' = "rearm"
  /\ UNCHANGED <<pc, ch, err, callVars, firing, dcall, closed>>

(* "Arm next read."                                                        *)
rearm ==
  /\ dpc = "rearm"
  /\ ~readNextCh
  /\ readNextCh' = TRUE
  /\ dpc' = "select"
  /\ UNCHANGED <<pc, ch, err, callVars, firing, dcall, rpc, readNextClosed,
                 packetInCh, packets, closed>>

---------------------------------------------------------------------------
(* Shutdown *)

Close ==
  /\ MayClose
  /\ ~closed
  /\ closed' = TRUE
  /\ UNCHANGED <<pc, ch, err, callVars, firing, dpc, dcall, readVars>>

dispatchClosed ==
  /\ dpc = "select"
  /\ closed
  /\ readNextClosed' = TRUE
  /\ dpc' = "closing"
  /\ UNCHANGED <<pc, ch, err, callVars, firing, dcall, rpc, readNextCh,
                 packetInCh, packets, closed>>

(* Lines 555-560: the first call of some queue.                            *)
closeQueued(n) ==
  /\ dpc = "closing"
  /\ callQueue[n] # <<>>
  /\ err[Head(callQueue[n])] = "none"
  /\ err' = [err EXCEPT ![Head(callQueue[n])] = "closed"]
  /\ callQueue' = [callQueue EXCEPT ![n] = Tail(@)]
  /\ UNCHANGED <<pc, ch, nonce, handshakeCount, timeout, activeCallByNode,
                 activeCallByAuth, nextNonce, armed, firing, dpc, dcall,
                 readVars, closed>>

(* Lines 561-565, once the queues are empty.                               *)
closeActive(n) ==
  /\ dpc = "closing"
  /\ \A m \in Node : callQueue[m] = <<>>
  /\ activeCallByNode[n] # NoCall
  /\ err[activeCallByNode[n]] = "none"
  /\ err' = [err EXCEPT ![activeCallByNode[n]] = "closed"]
  /\ activeCallByNode' = [activeCallByNode EXCEPT ![n] = NoCall]
  /\ activeCallByAuth' = forgetNonce(activeCallByAuth, nonce[activeCallByNode[n]])
  /\ UNCHANGED <<pc, ch, nonce, handshakeCount, timeout, callQueue, nextNonce,
                 armed, firing, dpc, dcall, readVars, closed>>

(* Mutant: the active calls are forgotten.                                 *)
dispatchReturnActive ==
  /\ dpc = "closing"
  /\ \A n \in Node : callQueue[n] = <<>>
  /\ dpc' = "returned"
  /\ UNCHANGED <<pc, ch, err, callVars, firing, dcall, readVars, closed>>

dispatchReturn ==
  /\ dpc = "closing"
  /\ \A n \in Node : callQueue[n] = <<>> /\ activeCallByNode[n] = NoCall
  /\ dpc' = "returned"
  /\ UNCHANGED <<pc, ch, err, callVars, firing, dcall, readVars, closed>>

---------------------------------------------------------------------------
(* readLoop *)

readNext ==
  /\ rpc = "wait"
  /\ readNextCh
  /\ readNextCh' = FALSE
  /\ rpc' = "read"
  /\ UNCHANGED <<pc, ch, err, callVars, firing, dpc, dcall, readNextClosed,
                 packetInCh, packets, closed>>

(* The loop ends when the channel is closed and empty, or on a read error, *)
(* which the closed connection causes.                                     *)
readLoopEnds ==
  /\ \/ rpc = "wait" /\ ~readNextCh /\ readNextClosed
     \/ rpc = "read" /\ closed
  /\ rpc' = "returned"
  /\ UNCHANGED <<pc, ch, err, callVars, firing, dpc, dcall, readNextCh,
                 readNextClosed, packetInCh, packets, closed>>

(* ReadFromUDP fills buf.  Close cancels before it closes the connection,  *)
(* so a packet may still be read in between.                               *)
readPacket ==
  /\ rpc = "read"
  /\ packets < MaxPackets
  /\ packets' = packets + 1
  /\ rpc' = "send"
  /\ UNCHANGED <<pc, ch, err, callVars, firing, dpc, dcall, readNextCh,
                 readNextClosed, packetInCh, closed>>

(* "Ignore temporary read errors."                                         *)
readTemporaryError ==
  /\ TempErrors
  /\ rpc = "read"
  /\ rpc' = "wait"
  /\ UNCHANGED <<pc, ch, err, callVars, firing, dpc, dcall, readNextCh,
                 readNextClosed, packetInCh, packets, closed>>

(* Mutant: readLoop reads on without a token.                              *)
dispatchReadPacketNoWait ==
  /\ rpc = "send"
  /\ \/ ~packetInCh /\ packetInCh' = TRUE
     \/ closed /\ UNCHANGED packetInCh
  /\ rpc' = "read"
  /\ UNCHANGED <<pc, ch, err, callVars, firing, dpc, dcall, readNextCh,
                 readNextClosed, packets, closed>>

(* The packet shares its bytes with buf.                                   *)
dispatchReadPacket ==
  /\ rpc = "send"
  /\ \/ ~packetInCh /\ packetInCh' = TRUE
     \/ closed /\ UNCHANGED packetInCh
  /\ rpc' = "wait"
  /\ UNCHANGED <<pc, ch, err, callVars, firing, dpc, dcall, readNextCh,
                 readNextClosed, packets, closed>>

---------------------------------------------------------------------------
CallerStep(c) ==
  \/ dispatchCall(c) \/ callClosed(c)
  \/ receiveResponse(c) \/ receiveError(c)
  \/ discardResponse(c) \/ discardError(c)
  \/ callDoneClosed(c) \/ dispatchCallDone(c)

TimerStep == \E t \in firing : timerClosed(t) \/ dispatchTimeout(t)

PacketStep ==
  \/ \E c \in Call : handleCallResponse(c)
  \/ \E n \in 0 .. nextNonce - 1 : handleWhoareyou(n)
  \/ handleOther

DispatchStep ==
  \/ PacketStep \/ putErr \/ putCh \/ rearm
  \/ dispatchClosed
  \/ \E n \in Node : closeQueued(n) \/ closeActive(n)
  \/ dispatchReturn

ReadStep == readNext \/ readLoopEnds \/ dispatchReadPacket

Next ==
  \/ \E c \in Call : call(c) \/ CallerStep(c) \/ timerExpires(c)
  \/ TimerStep
  \/ DispatchStep
  \/ ReadStep \/ readPacket \/ readTemporaryError
  \/ Close

Spec == Init /\ [][Next]_vars

(* Every goroutine that can take a step takes one in the end, and timers   *)
(* expire.  Nobody has to start a call, send a packet or close.            *)
Fairness ==
  /\ \A c \in Call : WF_vars(CallerStep(c)) /\ WF_vars(timerExpires(c))
  /\ \A c \in Call : WF_vars(callDoneClosed(c) \/ dispatchCallDone(c))
  /\ WF_vars(TimerStep)
  /\ WF_vars(DispatchStep)
  /\ WF_vars(ReadStep)

FairSpec == Spec /\ Fairness

---------------------------------------------------------------------------
(* Properties *)

(* The type invariant; matchWithCall lets a call be challenged once.       *)
TypeOK ==
  /\ pc \in [Call -> {"idle", "calling", "waiting", "done", "returned"}]
  /\ ch \in [Call -> BOOLEAN]
  /\ err \in [Call -> {"none", "timeout", "closed"}]
  /\ nonce \in [Call -> Nat]
  /\ handshakeCount \in [Call -> 0 .. 1]
  /\ timeout \in [Call -> Nat]
  /\ callQueue \in [Node -> Seq(Call)]
  /\ activeCallByNode \in [Node -> Call \cup {NoCall}]
  /\ activeCallByAuth \subseteq Nat \X Call
  /\ nextNonce \in Nat \ {0}
  /\ armed \subseteq Timer
  /\ firing \subseteq Timer
  /\ dpc \in {"select", "putErr", "putCh", "rearm", "closing", "returned", "panicked"}
  /\ dcall \in Call \cup {NoCall}
  /\ dpc \in {"putErr", "putCh"} <=> dcall # NoCall
  /\ rpc \in {"wait", "read", "send", "returned"}
  /\ readNextCh \in BOOLEAN
  /\ readNextClosed \in BOOLEAN
  /\ packetInCh \in BOOLEAN
  /\ packets \in Nat
  /\ closed \in BOOLEAN

(* A goroutine in callDone owns the active call of its node until Close,   *)
(* so "BUG: callDone for inactive call" cannot happen: no answer, timeout  *)
(* or queue order makes a second call active before the first is done.     *)
DoneCallIsActive ==
  /\ dpc # "panicked"
  /\ \A c \in Call : pc[c] = "done" /\ ~closed => activeCallByNode[NodeOf[c]] = c

(* What a WHOAREYOU finds in activeCallByAuth.  An entry is an active call *)
(* under its present nonce, or one that sendCall left under the zero nonce *)
(* of a failed Encode; its call has had its handshake and is never sent    *)
(* again.  And an active call has its entry unless its Encode failed: what *)
(* is deleted under a shared zero nonce is never a call that was sent.     *)
AuthNamesActiveCall ==
  /\ \A e \in activeCallByAuth :
       \/ activeCallByNode[NodeOf[e[2]]] = e[2] /\ nonce[e[2]] = e[1]
       \/ e[1] = 0 /\ EncodeErrors /\ handshakeCount[e[2]] = 1
  /\ \A n \in Node : activeCallByNode[n] # NoCall =>
       \/ <<nonce[activeCallByNode[n]], activeCallByNode[n]>> \in activeCallByAuth
       \/ nonce[activeCallByNode[n]] = 0 /\ EncodeErrors

(* Before Close, dispatch only ever waits for a goroutine that is still    *)
(* receiving from the channel dispatch sends to.                           *)
DispatchWaitsForReceiver ==
  dpc \in {"putErr", "putCh"} /\ ~closed => pc[dcall] \in {"waiting", "done"}

(* The error dispatch sends for a call is about its current timer: a timer *)
(* that expired before the last response or handshake does not end it.     *)
TimeoutIsCurrent ==
  dpc = "putErr" =>
    <<dcall, timeout[dcall]>> \notin armed \cup firing

(* readLoop reads into its only buffer when neither packetInCh nor         *)
(* dispatch holds a packet that shares it, and dispatch never blocks when  *)
(* it asks for the next read.                                              *)
BufferIsExclusive ==
  /\ rpc \in {"read", "send"} => ~packetInCh /\ dpc \notin {"putCh", "rearm"}
  /\ dpc = "rearm" => ~readNextCh

(* When no call is in progress, no earlier one is left in the queues or    *)
(* active, and no timer runs.  All that may be left is one entry under the *)
(* zero nonce, if Encode has failed, of a call that no WHOAREYOU can have  *)
(* sent again.                                                             *)
NothingLeftBehind ==
  (~closed /\ \A c \in Call : pc[c] \in {"idle", "calling", "returned"}) =>
    /\ \A n \in Node : callQueue[n] = <<>> /\ activeCallByNode[n] = NoCall
    /\ \A e, f \in activeCallByAuth :
         e = f /\ e[1] = 0 /\ EncodeErrors /\ handshakeCount[e[2]] = 1
    /\ armed = {}

(* Once dispatch has returned after Close, every goroutine that still      *)
(* waits for its call has an error to receive: no call is lost between     *)
(* call(), the queues and the active calls.                                *)
NoWaiterForgotten ==
  dpc = "returned" =>
    \A c \in Call : pc[c] = "waiting" => err[c] # "none"

(* Every call that is made returns, by its responses or by a timeout, also *)
(* the ones that wait in a queue.                                          *)
EveryCallReturns ==
  \A c \in Call : pc[c] = "calling" ~> pc[c] = "returned"

(* Without temporary errors, readLoop always comes to read again.          *)
ReadingGoesOn ==
  rpc = "wait" ~> rpc # "wait"

---------------------------------------------------------------------------
(* What comments of the code say, and the code does not do *)

(* "Ignore temporary read errors": reading goes on after one.              *)
TemporaryErrorsIgnored == rpc = "wait" ~> rpc # "wait"

(* callDone discards responses "in order to avoid blocking the dispatch    *)
(* loop": dispatch ends after Close.                                       *)
CloseEndsDispatch == closed ~> dpc = "returned"
===========================================================================
