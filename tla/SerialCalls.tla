---------------------------- MODULE SerialCalls ----------------------------
(***************************************************************************)
(* What call and callDone of the discv5 transport (pkg/discover/v5_udp.go) *)
(* promise the goroutines that use them, without packets, nonces, timers   *)
(* and buffers: the calls to a node stand in line, only the first of them  *)
(* gets responses or an error, and the next moves up when it has left.     *)
(***************************************************************************)
EXTENDS Naturals, Sequences

CONSTANTS
  Node, Call,
  NodeOf,        \* the node a call is made to
  Multi          \* the calls that may take several responses

VARIABLES
  state,         \* of each call: idle, calling, waiting, done, returned
  answered,      \* whether a response awaits the caller
  error,         \* the error that does, if any
  line,          \* of each node: its calls in the order they were accepted
  closed

vars == <<state, answered, error, line, closed>>

Init ==
  /\ state = [c \in Call |-> "idle"]
  /\ answered = [c \in Call |-> FALSE]
  /\ error = [c \in Call |-> "none"]
  /\ line = [n \in Node |-> <<>>]
  /\ closed = FALSE

first(c) == line[NodeOf[c]] # <<>> /\ Head(line[NodeOf[c]]) = c

Make(c) ==
  /\ state[c] = "idle"
  /\ state' = [state EXCEPT ![c] = "calling"]
  /\ UNCHANGED <<answered, error, line, closed>>

Accept(c) ==
  /\ state[c] = "calling" /\ ~closed
  /\ state' = [state EXCEPT ![c] = "waiting"]
  /\ line' = [line EXCEPT ![NodeOf[c]] = Append(@, c)]
  /\ UNCHANGED <<answered, error, closed>>

(* call() on a closed transport.                                           *)
Refuse(c) ==
  /\ state[c] = "calling" /\ closed
  /\ state' = [state EXCEPT ![c] = "waiting"]
  /\ error' = [error EXCEPT ![c] = "closed"]
  /\ UNCHANGED <<answered, line, closed>>

(* A call is only sent to while its caller is there to receive.            *)
attended(c) == first(c) /\ (closed \/ state[c] \in {"waiting", "done"})

Respond(c) ==
  /\ ~answered[c]
  /\ answered' = [answered EXCEPT ![c] = TRUE]
  /\ attended(c)
  /\ UNCHANGED <<state, error, line, closed>>

TimeOut(c) ==
  /\ error[c] = "none"
  /\ error' = [error EXCEPT ![c] = "timeout"]
  /\ attended(c)
  /\ UNCHANGED <<state, answered, line, closed>>

(* The caller takes a response; one of them may be enough.                 *)
TakeResponse(c) ==
  /\ state[c] = "waiting" /\ answered[c]
  /\ answered' = [answered EXCEPT ![c] = FALSE]
  /\ \/ state' = [state EXCEPT ![c] = "done"]
     \/ c \in Multi /\ UNCHANGED state
  /\ UNCHANGED <<error, line, closed>>

TakeError(c) ==
  /\ state[c] = "waiting" /\ error[c] # "none"
  /\ error' = [error EXCEPT ![c] = "none"]
  /\ state' = [state EXCEPT ![c] = "done"]
  /\ UNCHANGED <<answered, line, closed>>

(* What comes after the caller has enough is thrown away.                  *)
DiscardResponse(c) ==
  /\ state[c] = "done" /\ answered[c]
  /\ answered' = [answered EXCEPT ![c] = FALSE]
  /\ UNCHANGED <<state, error, line, closed>>

DiscardError(c) ==
  /\ state[c] = "done" /\ error[c] # "none"
  /\ error' = [error EXCEPT ![c] = "none"]
  /\ UNCHANGED <<state, answered, line, closed>>

(* The first in line leaves; after Close nobody moves up.                  *)
Leave(c) ==
  /\ state[c] = "done"
  /\ state' = [state EXCEPT ![c] = "returned"]
  /\ \/ ~closed /\ first(c) /\ line' = [line EXCEPT ![NodeOf[c]] = Tail(@)]
     \/ closed /\ UNCHANGED line
  /\ UNCHANGED <<answered, error, closed>>

Close ==
  /\ ~closed
  /\ closed' = TRUE
  /\ UNCHANGED <<state, answered, error, line>>

without(s, i) == [j \in 1 .. Len(s) - 1 |-> IF j < i THEN s[j] ELSE s[j + 1]]

(* After Close, calls are taken out of their lines with an error.          *)
Drop(n, i) ==
  /\ closed /\ error[line[n][i]] = "none"
  /\ error' = [error EXCEPT ![line[n][i]] = "closed"]
  /\ line' = [line EXCEPT ![n] = without(@, i)]
  /\ UNCHANGED <<state, answered, closed>>

Next ==
  \/ \E c \in Call :
       \/ Make(c) \/ Accept(c) \/ Refuse(c) \/ Respond(c) \/ TimeOut(c)
       \/ TakeResponse(c) \/ TakeError(c)
       \/ DiscardResponse(c) \/ DiscardError(c) \/ Leave(c)
  \/ Close
  \/ \E n \in Node : \E i \in 1 .. Len(line[n]) : Drop(n, i)

Spec == Init /\ [][Next]_vars
===========================================================================
