------------------------------ MODULE Lookup ------------------------------
(***************************************************************************)
(* The iterative search for the nodes close to a target, and the iterator  *)
(* that hands out what a series of searches finds (pkg/discover/lookup.go):*)
(* the goroutine that calls Next, and one goroutine per query.             *)
(*                                                                         *)
(* A node is its distance to the target, a natural number: different nodes *)
(* have different distances.  What a query does to the table and to the    *)
(* failure counts is in TableLoop.  The nodes of a reply are looked at in  *)
(* any order.                                                              *)
(***************************************************************************)
EXTENDS Integers, Sequences, FiniteSets

CONSTANTS
  Node,             \* all nodes but the local one
  Self,             \* the local node
  Known,            \* the nodes the table may hold
  Neighbours,       \* what each node may answer with
  alpha, bucketSize,
  MaxLookups        \* bound: searches the iterator starts

Reply == SUBSET (Node \cup {Self})

ASSUME LookupAssumption ==
  /\ Node \subseteq Nat /\ Self \in Nat \ Node
  /\ Known \subseteq Node
  /\ Neighbours \in [Node -> Reply]
  /\ alpha \in Nat \ {0} /\ bucketSize \in Nat \ {0}
  /\ MaxLookups \in Nat

VARIABLES
  asked, seen, result, queries,
  queryfunc,        \* it.queryfunc is not nil
  replyCh,          \* the replies in the channel
  spawned,          \* query goroutines that have not read it.queryfunc yet
  calling,          \* query goroutines that wait for their answer
  incoming,         \* what is left of the reply that advance looks at
  replyBuffer,
  lookup,           \* the iterator has a search
  buffer,           \* the nodes after the current one
  delivered,        \* nodes of this search that have been the current one
  lookups,          \* searches started so far
  cancelled,        \* the context is done
  pc                \* the caller of Next is "idle", or Next is at "fill",
                    \* advance at "start", "select", "reading", "shutdown",
                    \* or Next has returned false: "stopped"

searchVars == <<asked, seen, result, queries, queryfunc, incoming, replyBuffer>>
queryVars == <<replyCh, spawned, calling>>
iterVars == <<lookup, buffer, delivered, lookups>>
vars == <<searchVars, queryVars, iterVars, cancelled, pc>>

Init ==
  /\ asked = {} /\ seen = {} /\ result = <<>> /\ queries = -1
  /\ queryfunc = FALSE /\ incoming = {} /\ replyBuffer = {}
  /\ replyCh = <<>> /\ spawned = {} /\ calling = {}
  /\ lookup = FALSE /\ buffer = {} /\ delivered = {} /\ lookups = 0
  /\ cancelled = FALSE /\ pc = "idle"

---------------------------------------------------------------------------
(* nodesByDistance.push *)

(* sort.Search: how many entries are not farther than n.                   *)
closer(list, n) == Cardinality({i \in 1 .. Len(list) : list[i] <= n})

(* Mutant: nothing is inserted into a full list.                           *)
pushIfRoom(list, n, maxElems) ==
  LET ix == closer(list, n)
  IN IF Len(list) >= maxElems
       THEN list
       ELSE [i \in 1 .. Len(list) + 1 |->
               IF i <= ix THEN list[i] ELSE IF i = ix + 1 THEN n ELSE list[i - 1]]

push(list, n, maxElems) ==
  LET ix == closer(list, n)
      size == IF Len(list) < maxElems THEN Len(list) + 1 ELSE Len(list)
  IN [i \in 1 .. size |->
        IF i <= ix THEN list[i] ELSE IF i = ix + 1 THEN n ELSE list[i - 1]]

---------------------------------------------------------------------------
(* lookupIterator *)

(* Next, with nodes left in the buffer.                                    *)
nextBuffered(n) ==
  /\ pc = "idle" /\ n \in buffer
  /\ buffer' = buffer \ {n} /\ delivered' = delivered \cup {n}
  /\ UNCHANGED <<searchVars, queryVars, lookup, lookups, cancelled, pc>>

nextEmpty ==
  /\ pc = "idle" /\ buffer = {}
  /\ pc' = "fill"
  /\ UNCHANGED <<searchVars, queryVars, iterVars, cancelled>>

nextCancelled ==
  /\ pc = "fill" /\ cancelled
  /\ lookup' = FALSE /\ pc' = "stopped"
  /\ UNCHANGED <<searchVars, queryVars, buffer, delivered, lookups, cancelled>>

newLookup ==
  /\ pc = "fill" /\ ~cancelled /\ ~lookup
  /\ lookups < MaxLookups
  /\ lookup' = TRUE /\ lookups' = lookups + 1 /\ delivered' = {}
  /\ asked' = {Self} /\ seen' = {} /\ result' = <<>> /\ queries' = -1
  /\ queryfunc' = TRUE /\ replyBuffer' = {} /\ replyCh' = <<>>
  /\ UNCHANGED <<incoming, spawned, calling, buffer, cancelled, pc>>

nextAdvance ==
  /\ pc = "fill" /\ ~cancelled /\ lookup
  /\ pc' = "start"
  /\ UNCHANGED <<searchVars, queryVars, iterVars, cancelled>>

Close ==
  /\ ~cancelled
  /\ cancelled' = TRUE
  /\ UNCHANGED <<searchVars, queryVars, iterVars, pc>>

---------------------------------------------------------------------------
(* startQueries *)

(* The first reply is what the table knows; slowdown, when that is         *)
(* nothing, only takes time.                                               *)
askTable(closest) ==
  /\ pc = "start" /\ queryfunc /\ queries = -1
  /\ Cardinality(closest) <= bucketSize
  /\ queries' = 1 /\ replyCh' = Append(replyCh, closest)
  /\ pc' = "select"
  /\ UNCHANGED <<asked, seen, result, queryfunc, incoming, replyBuffer,
                 spawned, calling, iterVars, cancelled>>

(* Mutant: only the alpha closest nodes are considered.                    *)
toAskNearest ==
  {result[i] : i \in {i \in 1 .. Len(result) :
     /\ i <= alpha /\ result[i] \notin asked
     /\ Cardinality({j \in 1 .. i - 1 : result[j] \notin asked}) < alpha - queries}}

(* The closest nodes not asked yet, as many as alpha leaves room for.      *)
toAsk ==
  {result[i] : i \in {i \in 1 .. Len(result) :
     /\ result[i] \notin asked
     /\ Cardinality({j \in 1 .. i - 1 : result[j] \notin asked}) < alpha - queries}}

(* Mutant: startQueries returns true also when no query is running.        *)
askNodesForever ==
  /\ pc = "start" /\ queryfunc /\ queries # -1
  /\ asked' = asked \cup toAsk
  /\ spawned' = spawned \cup toAsk
  /\ queries' = queries + Cardinality(toAsk)
  /\ pc' = "select"
  /\ UNCHANGED <<seen, result, queryfunc, incoming, replyBuffer, replyCh,
                 calling, iterVars, cancelled>>

askNodes ==
  /\ pc = "start" /\ queryfunc /\ queries # -1
  /\ asked' = asked \cup toAsk
  /\ spawned' = spawned \cup toAsk
  /\ queries' = queries + Cardinality(toAsk)
  /\ IF queries' > 0
       THEN pc' = "select" /\ UNCHANGED lookup
       ELSE pc' = "fill" /\ lookup' = FALSE
  /\ UNCHANGED <<seen, result, queryfunc, incoming, replyBuffer, replyCh,
                 calling, buffer, delivered, lookups, cancelled>>

noQueryfunc ==
  /\ pc = "start" /\ ~queryfunc
  /\ pc' = "fill" /\ lookup' = FALSE
  /\ UNCHANGED <<searchVars, queryVars, buffer, delivered, lookups, cancelled>>

---------------------------------------------------------------------------
(* advance *)

(* Mutant: what the last reply left in the buffer stays there.             *)
receiveKeeps ==
  /\ pc = "select" /\ replyCh # <<>>
  /\ incoming' = Head(replyCh) /\ replyCh' = Tail(replyCh)
  /\ pc' = "reading"
  /\ UNCHANGED <<asked, seen, result, queries, queryfunc, replyBuffer, spawned,
                 calling, iterVars, cancelled>>

receive ==
  /\ pc = "select" /\ replyCh # <<>>
  /\ incoming' = Head(replyCh) /\ replyCh' = Tail(replyCh)
  /\ replyBuffer' = {}
  /\ pc' = "reading"
  /\ UNCHANGED <<asked, seen, result, queries, queryfunc, spawned, calling,
                 iterVars, cancelled>>

takeNode(n) ==
  /\ pc = "reading" /\ n \in incoming
  /\ incoming' = incoming \ {n}
  /\ IF n \in seen
       THEN UNCHANGED <<seen, result, replyBuffer>>
       ELSE /\ seen' = seen \cup {n}
            /\ result' = push(result, n, bucketSize)
            /\ replyBuffer' = replyBuffer \cup {n}
  /\ UNCHANGED <<asked, queries, queryfunc, queryVars, iterVars, cancelled, pc>>

(* Mutant: a reply with nothing new is not counted.                        *)
nothingNewUncounted ==
  /\ pc = "reading" /\ incoming = {} /\ replyBuffer = {}
  /\ pc' = "start"
  /\ UNCHANGED <<searchVars, queryVars, iterVars, cancelled>>

(* advance goes round again, or returns true and Next with it.             *)
nothingNew ==
  /\ pc = "reading" /\ incoming = {} /\ replyBuffer = {}
  /\ queries' = queries - 1
  /\ pc' = "start"
  /\ UNCHANGED <<asked, seen, result, queryfunc, incoming, replyBuffer,
                 queryVars, iterVars, cancelled>>

found(n) ==
  /\ pc = "reading" /\ incoming = {} /\ n \in replyBuffer
  /\ queries' = queries - 1
  /\ buffer' = replyBuffer \ {n} /\ delivered' = delivered \cup {n}
  /\ pc' = "idle"
  /\ UNCHANGED <<asked, seen, result, queryfunc, incoming, replyBuffer,
                 queryVars, lookup, lookups, cancelled>>

selectCancelled ==
  /\ pc = "select" /\ cancelled
  /\ pc' = "shutdown"
  /\ UNCHANGED <<searchVars, queryVars, iterVars, cancelled>>

shutdownReceive ==
  /\ pc = "shutdown" /\ queries > 0 /\ replyCh # <<>>
  /\ replyCh' = Tail(replyCh) /\ queries' = queries - 1
  /\ UNCHANGED <<asked, seen, result, queryfunc, incoming, replyBuffer,
                 spawned, calling, iterVars, cancelled, pc>>

shutdownEnds ==
  /\ pc = "shutdown" /\ queries <= 0
  /\ queryfunc' = FALSE /\ replyBuffer' = {}
  /\ pc' = "start"
  /\ UNCHANGED <<asked, seen, result, queries, incoming, queryVars, iterVars,
                 cancelled>>

---------------------------------------------------------------------------
(* query *)

queryCalls(n) ==
  /\ n \in spawned
  /\ spawned' = spawned \ {n} /\ calling' = calling \cup {n}
  /\ UNCHANGED <<searchVars, replyCh, iterVars, cancelled, pc>>

(* Mutant: the channel has no buffer.                                      *)
queryRepliesUnbuffered(n, r) ==
  /\ n \in calling
  /\ pc \in {"select", "shutdown"} /\ replyCh = <<>>
  /\ replyCh' = Append(replyCh, r)
  /\ calling' = calling \ {n}
  /\ UNCHANGED <<searchVars, spawned, iterVars, cancelled, pc>>

(* The answer, or nothing when the call failed or the transport is closed. *)
queryReplies(n, r) ==
  /\ n \in calling
  /\ Len(replyCh) < alpha
  /\ replyCh' = Append(replyCh, r)
  /\ calling' = calling \ {n}
  /\ UNCHANGED <<searchVars, spawned, iterVars, cancelled, pc>>

---------------------------------------------------------------------------
IteratorStep ==
  nextEmpty \/ nextCancelled \/ newLookup \/ nextAdvance
    \/ \E n \in Node \cup {Self} : nextBuffered(n)

AdvanceStep ==
  \/ \E closest \in SUBSET Known : askTable(closest)
  \/ askNodes \/ noQueryfunc \/ receive \/ nothingNew
  \/ \E n \in Node \cup {Self} : takeNode(n) \/ found(n)
  \/ selectCancelled \/ shutdownReceive \/ shutdownEnds

QueryStep(n) == queryCalls(n) \/ \E r \in SUBSET Neighbours[n] : queryReplies(n, r)

Next == IteratorStep \/ AdvanceStep \/ Close \/ \E n \in Node : QueryStep(n)

Spec == Init /\ [][Next]_vars

(* Every goroutine that can go on does, and queries are answered or time   *)
(* out; the caller may stop calling Next.                                  *)
Fairness ==
  /\ WF_vars(AdvanceStep) /\ WF_vars(nextCancelled) /\ WF_vars(newLookup)
  /\ WF_vars(nextAdvance)
  /\ \A n \in Node : WF_vars(QueryStep(n))

FairSpec == Spec /\ Fairness

---------------------------------------------------------------------------
(* Properties *)

TypeOK ==
  /\ asked \subseteq Node \cup {Self} /\ seen \subseteq Node \cup {Self}
  /\ result \in Seq(Node \cup {Self}) /\ queries \in -1 .. alpha
  /\ queryfunc \in BOOLEAN
  /\ replyCh \in Seq(Reply) /\ spawned \subseteq Node /\ calling \subseteq Node
  /\ incoming \in Reply /\ replyBuffer \in Reply
  /\ lookup \in BOOLEAN /\ buffer \in Reply /\ delivered \in Reply
  /\ lookups \in 0 .. MaxLookups /\ cancelled \in BOOLEAN
  /\ pc \in {"idle", "fill", "start", "select", "reading", "shutdown", "stopped"}

(* it.queries counts the query goroutines and the replies nobody has read, *)
(* so that the channel, made with room for alpha replies, never blocks a   *)
(* query and no receive waits for a reply that will not come.  No query    *)
(* finds it.queryfunc nil, and a search that has ended has left no         *)
(* goroutine and no reply behind.  Next may drop a search without draining *)
(* it, but only when the context is done.                                  *)
QueriesAccounted ==
  /\ queries # -1 =>
       queries = Cardinality(spawned) + Cardinality(calling) + Len(replyCh)
                   + (IF pc = "reading" THEN 1 ELSE 0)
  /\ spawned # {} => queryfunc
  /\ ~lookup /\ ~cancelled => spawned = {} /\ calling = {} /\ replyCh = <<>>

(* push keeps the bucketSize closest of all nodes seen, in order.          *)
ResultIsClosest ==
  /\ \A i, j \in 1 .. Len(result) : i < j => result[i] < result[j]
  /\ \A i \in 1 .. Len(result) : result[i] \in seen
  /\ \A n \in seen : (\A i \in 1 .. Len(result) : result[i] # n) =>
       Len(result) = bucketSize /\ \A i \in 1 .. Len(result) : result[i] < n

(* A search that was not cancelled ends only when the closest nodes it has *)
(* seen have all been asked.                                               *)
SearchIsComplete ==
  ~lookup /\ queryfunc /\ pc # "stopped" =>
    \A i \in 1 .. Len(result) : result[i] \in asked

(* A node the search has seen was handed out, or waits for it, not both.   *)
handedOut ==
  /\ buffer \cap delivered = {}
  /\ seen = delivered \cup buffer \cup (IF pc = "reading" THEN replyBuffer ELSE {})

(* The iterator hands out each node of a search once, and by the end of    *)
(* the search all of them; and advance writes a reply to replyBuffer, whose*)
(* array is that of the iterator's buffer, only when that buffer is used   *)
(* up.                                                                     *)
EachNodeOnce ==
  /\ handedOut
  /\ pc = "reading" => buffer = {}

(* No query goroutine is left waiting, not even by a search that Next has  *)
(* dropped: the channel has room for its reply.                            *)
QueriesEnd == \A n \in Node : n \in calling ~> n \notin calling

(* advance returns.                                                        *)
AdvanceReturns == pc = "start" ~> pc \in {"idle", "fill"}
===========================================================================
