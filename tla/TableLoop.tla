---------------------------- MODULE TableLoop ----------------------------
(***************************************************************************)
(* The node table at work (pkg/discover/table.go): Table.loop, the         *)
(* goroutines it starts for doRefresh and doRevalidate, the callers of     *)
(* refresh and close, and the nodes that lookups and the transport add     *)
(* and delete.  tab.mutex makes every change of the table one step; the    *)
(* ping of doRevalidate is made without it, and a query that deletes a     *)
(* node (lookup.go) looks at the size of the bucket before it takes it.    *)
(*                                                                         *)
(* A copyLiveNodes only reads the table.                                   *)
(***************************************************************************)
EXTENDS TableStore, FiniteSets

CONSTANTS
  Waiter,           \* calls of refresh; each stands for its done channel
  initDone,         \* the channel that opens the table to verified nodes
  None,             \* no node
  MayClose,         \* close is called at some time
  maxQueries        \* queries that are about to delete a node: at most alpha

ASSUME LoopAssumption ==
  /\ initDone \notin Waiter
  /\ None \notin [node : Node, bi : Bucket]
  /\ MayClose \in BOOLEAN
  /\ maxQueries \in Nat

VARIABLES
  tab,              \* the table
  doomed,           \* nodes that query has found bad enough to delete
  revalidate,       \* the timer is "set"; doRevalidate is "started",
                    \* "pinging", or "done": sending on revalidateDone
  last,             \* the node doRevalidate pings and its bucket, or none
  refreshDone,      \* the channel of doRefresh: "nil", "open", "closed"
  requests,         \* callers of refresh at its select
  waiting,          \* channels the loop closes when doRefresh is done
  closedChs,        \* channels that are closed
  closeReq,         \* closeReq is closed
  lpc               \* loop is at "select", "drainRefresh",
                    \* "drainRevalidate", or has "returned"

tableVars == <<tab, doomed>>
revalidateVars == <<revalidate, last>>
refreshVars == <<refreshDone, requests, waiting, closedChs>>
loopVars == <<closeReq, lpc>>
vars == <<tableVars, revalidateVars, refreshVars, loopVars>>

Init ==
  /\ tab = emptyTable /\ doomed = {}
  /\ revalidate = "set" /\ last = None
  /\ refreshDone = "open" /\ requests = {} /\ waiting = {initDone}
  /\ closedChs = {}
  /\ closeReq = FALSE /\ lpc = "select"

isInitDone == initDone \in closedChs

---------------------------------------------------------------------------
(* Nodes that others add and delete *)

(* By loadSeedNodes, by a lookup, by a finished handshake.                 *)
addSeen(n) ==
  /\ tab' = addSeenNode(tab, n)
  /\ UNCHANGED <<doomed, revalidateVars, refreshVars, loopVars>>

(* By the v4 handler of a ping.                                            *)
addVerified(n) ==
  /\ isInitDone
  /\ tab' = addVerifiedNode(tab, n)
  /\ UNCHANGED <<doomed, revalidateVars, refreshVars, loopVars>>

(* query has got too many empty answers from n, a node of some reply, and  *)
(* finds enough other nodes in the bucket.                                 *)
queryFails(n) ==
  /\ Cardinality(doomed) < maxQueries
  /\ Len(tab.entries[bucket(n)]) >= bucketSize \div 2
  /\ doomed' = doomed \cup {n}
  /\ UNCHANGED <<tab, revalidateVars, refreshVars, loopVars>>

delete(n) ==
  /\ n \in doomed
  /\ doomed' = doomed \ {n}
  /\ tab' = deleteInBucket(tab, bucket(n), n)
  /\ UNCHANGED <<revalidateVars, refreshVars, loopVars>>

---------------------------------------------------------------------------
(* doRevalidate *)

nodeToRevalidate(b) ==
  /\ revalidate = "started"
  /\ tab.entries[b] # <<>>
  /\ last' = [node |-> tab.entries[b][Len(tab.entries[b])], bi |-> b]
  /\ revalidate' = "pinging"
  /\ UNCHANGED <<tableVars, refreshVars, loopVars>>

nothingToRevalidate ==
  /\ revalidate = "started"
  /\ \A b \in Bucket : tab.entries[b] = <<>>
  /\ revalidate' = "done"
  /\ UNCHANGED <<tableVars, last, refreshVars, loopVars>>

(* The node replies; n is its record, or the newer one RequestENR got.     *)
pong(n) ==
  /\ revalidate = "pinging"
  /\ n.id = last.node.id
  /\ tab' = bumpInBucket(tab, last.bi, n)
  /\ revalidate' = "done" /\ last' = None
  /\ UNCHANGED <<doomed, refreshVars, loopVars>>

noPong(r) ==
  /\ revalidate = "pinging"
  /\ r = 1 \/ r \in 1 .. Len(tab.replacements[last.bi])
  /\ tab' = replace(tab, last.bi, last.node, r)
  /\ revalidate' = "done" /\ last' = None
  /\ UNCHANGED <<doomed, refreshVars, loopVars>>

---------------------------------------------------------------------------
(* doRefresh ends, its lookups done; refresh and close.                    *)

refreshEnds ==
  /\ refreshDone = "open"
  /\ refreshDone' = "closed"
  /\ UNCHANGED <<tableVars, revalidateVars, requests, waiting, closedChs, loopVars>>

refresh(w) ==
  /\ w \notin requests \cup waiting \cup closedChs
  /\ requests' = requests \cup {w}
  /\ UNCHANGED <<tableVars, revalidateVars, refreshDone, waiting, closedChs, loopVars>>

refreshClosed(w) ==
  /\ w \in requests /\ closeReq
  /\ requests' = requests \ {w}
  /\ closedChs' = closedChs \cup {w}
  /\ UNCHANGED <<tableVars, revalidateVars, refreshDone, waiting, loopVars>>

close ==
  /\ MayClose /\ ~closeReq
  /\ closeReq' = TRUE
  /\ UNCHANGED <<tableVars, revalidateVars, refreshVars, lpc>>

---------------------------------------------------------------------------
(* loop *)

started == IF refreshDone = "nil" THEN "open" ELSE refreshDone

refreshTick ==
  /\ lpc = "select"
  /\ refreshDone' = started
  /\ UNCHANGED <<tableVars, revalidateVars, requests, waiting, closedChs, loopVars>>

(* Mutant: a request that finds doRefresh running is taken for answered.   *)
refreshReqLost(w) ==
  /\ lpc = "select" /\ w \in requests
  /\ requests' = requests \ {w}
  /\ waiting' = IF refreshDone = "nil" THEN waiting \cup {w} ELSE waiting
  /\ refreshDone' = started
  /\ UNCHANGED <<tableVars, revalidateVars, closedChs, loopVars>>

refreshReq(w) ==
  /\ lpc = "select" /\ w \in requests
  /\ requests' = requests \ {w}
  /\ waiting' = waiting \cup {w}
  /\ refreshDone' = started
  /\ UNCHANGED <<tableVars, revalidateVars, closedChs, loopVars>>

(* Mutant: the list of waiting callers is kept.                            *)
releaseKept ==
  /\ closedChs' = closedChs \cup waiting
  /\ UNCHANGED waiting

release ==
  /\ closedChs' = closedChs \cup waiting
  /\ waiting' = {}

refreshFinished ==
  /\ lpc = "select" /\ refreshDone = "closed"
  /\ release
  /\ refreshDone' = "nil"
  /\ UNCHANGED <<tableVars, revalidateVars, requests, loopVars>>

revalidateTick ==
  /\ lpc = "select" /\ revalidate = "set"
  /\ revalidate' = "started"
  /\ UNCHANGED <<tableVars, last, refreshVars, loopVars>>

(* Mutant: the timer is not set again.                                     *)
revalidateFinishedNoReset ==
  /\ lpc = "select" /\ revalidate = "done"
  /\ revalidate' = "stopped"
  /\ UNCHANGED <<tableVars, last, refreshVars, loopVars>>

revalidateFinished ==
  /\ lpc = "select" /\ revalidate = "done"
  /\ revalidate' = "set"
  /\ UNCHANGED <<tableVars, last, refreshVars, loopVars>>

loopCloses ==
  /\ lpc = "select" /\ closeReq
  /\ lpc' = "drainRefresh"
  /\ UNCHANGED <<tableVars, revalidateVars, refreshVars, closeReq>>

drainRefresh ==
  /\ lpc = "drainRefresh" /\ refreshDone # "open"
  /\ release
  /\ lpc' = "drainRevalidate"
  /\ UNCHANGED <<tableVars, revalidateVars, refreshDone, requests, closeReq>>

(* Mutant: loop waits for doRevalidate also when none is running.          *)
drainRevalidateAlways ==
  /\ lpc = "drainRevalidate" /\ revalidate = "done"
  /\ lpc' = "returned"
  /\ revalidate' = "set"
  /\ UNCHANGED <<tableVars, last, refreshVars, closeReq>>

drainRevalidate ==
  /\ lpc = "drainRevalidate" /\ revalidate \in {"set", "done"}
  /\ lpc' = "returned"
  /\ revalidate' = "set"
  /\ UNCHANGED <<tableVars, last, refreshVars, closeReq>>

---------------------------------------------------------------------------
TableStep ==
  \E n \in Node : addSeen(n) \/ addVerified(n) \/ queryFails(n) \/ delete(n)

RevalidateStep ==
  \/ \E b \in Bucket : nodeToRevalidate(b)
  \/ nothingToRevalidate
  \/ \E n \in Node : pong(n)
  \/ \E r \in 1 .. maxReplacements : noPong(r)

RefreshStep == refreshEnds \/ \E w \in Waiter : refresh(w) \/ refreshClosed(w)

LoopStep ==
  \/ refreshTick \/ (\E w \in Waiter : refreshReq(w)) \/ refreshFinished
  \/ revalidateTick \/ revalidateFinished
  \/ loopCloses \/ drainRefresh \/ drainRevalidate

Next == TableStep \/ RevalidateStep \/ RefreshStep \/ close \/ LoopStep

Spec == Init /\ [][Next]_vars

(* Lookups and pings end, timers fire, and no case of a select that stays  *)
(* ready is passed over for ever.                                          *)
Fairness ==
  /\ WF_vars(RevalidateStep) /\ WF_vars(refreshEnds)
  /\ \A w \in Waiter : WF_vars(refreshClosed(w)) /\ WF_vars(refreshReq(w))
  /\ WF_vars(refreshFinished) /\ WF_vars(revalidateTick)
  /\ WF_vars(revalidateFinished)
  /\ WF_vars(loopCloses) /\ WF_vars(drainRefresh) /\ WF_vars(drainRevalidate)

FairSpec == Spec /\ Fairness

---------------------------------------------------------------------------
(* Properties *)

(* The lists keep their bounds, the counters theirs.                       *)
TypeOK ==
  /\ tab \in Table
  /\ \A b \in Bucket : /\ Len(tab.entries[b]) <= bucketSize
                       /\ Len(tab.replacements[b]) <= maxReplacements
  /\ doomed \subseteq Node
  /\ revalidate \in {"set", "started", "pinging", "done"}
  /\ last \in [node : Node, bi : Bucket] \cup {None}
  /\ revalidate = "pinging" <=> last # None
  /\ refreshDone \in {"nil", "open", "closed"}
  /\ requests \subseteq Waiter /\ waiting \subseteq Waiter \cup {initDone}
  /\ closedChs \subseteq Waiter \cup {initDone}
  /\ closeReq \in BOOLEAN
  /\ lpc \in {"select", "drainRefresh", "drainRevalidate", "returned"}

ids(list) == {list[i].id : i \in 1 .. Len(list)}

distinct(list) == \A i, j \in 1 .. Len(list) : list[i].id = list[j].id => i = j

(* A node is in the table once: in its bucket, as an entry or as a         *)
(* replacement.  addVerifiedNode goes on to insert a node that is already  *)
(* there when bumpInBucket refuses its new IP; only the limit that made    *)
(* bumpInBucket refuse keeps it from being added twice.                    *)
OncePerTable ==
  \A b \in Bucket :
    /\ distinct(tab.entries[b]) /\ distinct(tab.replacements[b])
    /\ ids(tab.entries[b]) \cap ids(tab.replacements[b]) = {}
    /\ \A id \in ids(tab.entries[b]) \cup ids(tab.replacements[b]) : bucketOf[id] = b

(* doRevalidate gives up waiting for a pong.                               *)
pingFails == \E r \in 1 .. maxReplacements : noPong(r)

(* An entry leaves the table only when its own ping was not answered, or   *)
(* when a query deletes it: the entry that took the last place while       *)
(* doRevalidate was waiting for another one's pong stays.                  *)
EvictionHasCause ==
  [][\A b \in Bucket : \A id \in ids(tab.entries[b]) \ ids(tab'.entries[b]) :
       \/ pingFails /\ last.node.id = id
       \/ \E n \in doomed \ doomed' : n.id = id]_vars

inNet(list, s) == Cardinality({i \in 1 .. Len(list) : netOf[list[i].ip] = s})

(* The nodes of bucket b that are in network s.                            *)
members(t, b, s) == inNet(t.entries[b], s) + inNet(t.replacements[b], s)

(* What the IP set of bucket b counts beyond the nodes that are there.     *)
slack(t, b, s) == t.bucketIPs[b][s] - members(t, b, s)

(* The entry with the ID of n has the IP of n.                             *)
current(t, b, n) == \E i \in 1 .. Len(t.entries[b]) : t.entries[b][i] = n

(* The IP set of a bucket starts to miss a node only in the two steps that *)
(* remove an IP taken from a record read earlier: query deleting a node    *)
(* that is not an entry with that IP, and doRevalidate removing an entry   *)
(* whose IP has changed since the ping.  All other steps, replacements and *)
(* refused IPs included, count each node they add.                         *)
UncountedOnlyWhenStale ==
  [][\A b \in Bucket, s \in Subnet : slack(tab', b, s) < slack(tab, b, s) =>
       \/ \E n \in doomed \ doomed' : bucket(n) = b /\ ~current(tab, b, n)
       \/ pingFails /\ ~current(tab, last.bi, last.node)]_vars

(* The loop never closes a channel twice, which would be a panic: a        *)
(* caller's channel and initDone are closed by one release, or, after      *)
(* close, by refresh itself.                                               *)
NoDoubleClose == waiting \cap closedChs = {} /\ requests \cap closedChs = {}

(* Every call of refresh returns a channel that gets closed, whatever      *)
(* order requests, ticks, the end of doRefresh and close come in.          *)
RefreshReturns == \A w \in Waiter : w \in requests ~> w \in closedChs

(* close returns: the loop waits for the goroutines it started, and both   *)
(* finish.                                                                 *)
CloseReturns == closeReq ~> lpc = "returned"

(* Until close, revalidation goes on for ever.                             *)
RevalidationGoesOn == []<>(revalidate = "started" \/ lpc # "select")
==========================================================================
