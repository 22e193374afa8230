# Verification of go-light-eth

TLA+ models of the light node (`internal/consensus`) and of its peer-discovery
transport (`pkg/discover`), model-checked with TLC and, for the safety
properties that matter most, proved with TLAPS for every value of the
constants.  `PROJECT.json` lists the components, the runs, the map from
definitions to source lines, the hazards, the findings and the theorems.

## The system

A *light node* (`cmd/consensus`, `internal/consensus/node`) registers two
services that start concurrently: the *sync service*, which follows the beacon
chain with the help of one full node, and the *RPC server*, which answers
`Head` and `FinalizedHead` from the sync service's store without a lock.  The
sync service initialises its store from a trusted sync-committee root
(`initStore`), jumps from committee to committee until it reaches the present
one (`skipSync`), and then applies one update per slot (`sync`).

`pkg/discover` is a fork of go-ethereum's discovery: two UDP transports
(`v4_udp.go`, `v5_udp.go`), each with goroutines for callers, a loop that owns
the state, and a reader; the node table (`table.go`); the iterative search
(`lookup.go`); the v5 wire format with its session cache (`v5wire`); and an
extension that hands TALK requests to sub-protocols (`talk_ext.go`), which the
portal-network prototype (`pkg/portalnet`) uses.  `pkg/encoding` holds
generalized indices, Merkle branches and byte helpers.

| component | source | modelled in |
|---|---|---|
| store, validation and application of updates | `sync/update.go`, `unsorted.go`, `verify.go` | `LightClientStore` |
| sync service, restart, shutdown, RPC reads | `sync/service.go`, `node/node.go`, `rpc/server.go` | `LightClientSync` |
| generalized indices, Merkle branches | `encoding/ssz/ztype`, `encoding/ssz/tree` | `MerkleBranches` |
| discv5 calls, timers, reading, Close | `discover/v5_udp.go` | `UDPv5Dispatch`, which implements `SerialCalls` |
| discv5 FINDNODE and NODES, Resolve | `discover/v5_udp.go` | `Findnode` |
| TALK extension | `discover/talk_ext.go` | `TalkExt` |
| node table | `discover/table.go` | `TableStore`, `TableLoop` |
| lookup | `discover/lookup.go` | `Lookup` |
| discv4 requests, reply matchers, endpoint proof | `discover/v4_udp.go` | `UDPv4Replies` |
| sessions and handshakes of discv5 | `discover/v5wire` | `Handshake` |

What is left out is listed under "Not modelled".

## Light client

### Model

`LightClientStore` has no variables: it translates the functions on the store.
A header is the slot of a canonical block (0 is the empty header), a committee
the number of the period it serves in, a bit vector the number of its set
bits, a Merkle proof whether it verifies, a signature the committee that made
it.  `processLightClientUpdate` is the composition of the stages of the Go
function in their order; each stage sees the store the one before it left.
The verdict of `validateLightClientUpdate` has no influence, as in the code,
which drops it; the threshold of a normal update is `Len() * 3 / 2`, as in the
code, and is therefore never reached.

`LightClientSync` is the process: `pc` is where the goroutine is that runs
`Start()` and then `sync()`; a gRPC call ends a step, so that the clock,
shutdown, RPC clients and other failures interleave with it.

| action | code |
|---|---|
| `initStore`, `initStoreFails` | `initStore`, `lookupSkipSync` |
| `skipSyncStart`, `skipSyncTurn`, `skipSyncDone`, and their failures | `skipSync` |
| `syncTick`, `syncUpdate`, `syncUpdateFails`, `saveSnapshotFails`, `syncReturn` | `sync`, `saveSnapshot` |
| `rpcBeforeInit` | `Head`, `FinalizedHead` while the store is nil |
| `Close`, `Exit`, `Restart` | `LightNode.Close`, end and start of the process |

External, modelled from how the code uses them: the full node (it follows one
canonical chain, serves headers up to `StaleBy` slots old, and finalizes
`FinalityLag` slots late), the slot ticker (every slot once, in order,
possibly late), the service registry.  The constant `Faults` switches on what
may go wrong: non-final updates, bad branches, the answer to another key,
failing calls, a failing disk, early RPC clients.  The snapshot file is only
written (the call of `tryRecoverStore` is commented out), so it is not state
of the model; that writing it may fail is.

### Properties

* `NextCommitteePinned`: while `sync()` runs, the next committee is the one
  `skipSync` reached, and the current one that or its predecessor,
  whatever is applied: `applyLightClientUpdate` never sets the next committee,
  so a second rotation changes nothing.
* `HeaderAges` (proved, in no run): no header is ahead of the chain; the
  update kept for a forced update is `initStore`'s or at most the full node's
  jitter older than the finalized header.
* `RegressionIsToAnchor`: the finalized header goes back by at most the
  jitter, or exactly to where `initStore` began.  It does go back: the forced
  update applies the update that `initStore` left behind, although
  `verify.go:115` says "Verify update slot is larger than slot of current best
  finalized header", because the verdict of that check is dropped.
* `StaleFinalityHeals`: the slot after a forced update ends with a finalized
  header no older than `UpdateTimeout`.
* `HeadNotBehindFinalized`, and `HeadNeverMovesBack` (proved, in no run): what
  RPC clients see.
* `ValidUpdateIsSafe`: what the dropped verdict is worth.  If the update that
  replaces the finalized header passes `validateLightClientUpdate`, the header
  moves forward and the current committee is then the one that signed it: the
  committee `validateLightClientUpdate` picks and the rotation of
  `applyLightClientUpdate` agree.
* `SkipSyncEnds`: `skipSync` ends if the committee it waits for is not behind
  the store's.

### Merkle branches

The branches that `LightClientStore` reduces to a verdict are in
`MerkleBranches`: a tree is a nested pair, the hash function is pairing (it
has no collisions), and the types are those of `types.go` with their numbers
of fields.  A behaviour makes one branch, for a field of the state by
`CalculateGIndex` and `GetBranch` or by `Proof`, or receives any sequence of
nodes of a small tree, and then verifies it; each turn of the loop that
`Verify` and `VerifyProof` have is a step.

* `IndexLeadsToField`: for every field of the Altair state, nested ones
  included, the index leads to the node that holds the field.
* `BranchesProve`: along a branch that was made, the hash is that of the node
  the index has come to, up to the root; and whatever branch
  verifies a leaf shows that the leaf is in the tree, at the node that as many
  bits of the index lead to as the branch is long.  `Verify` does not compare
  that length with the depth of the index; its callers get branches of fixed
  length.

Both are checked in the run `findnode`, of which a behaviour has either a
FINDNODE, TALK requests or a branch: the three share no state.  Small trees have up to nine nodes, and received branches up to three
elements, one more than some of the indices are deep.  A test in `gindex_test.go`
expects `GetPowerOfTwoCeil(5)` to be 5; the code, its comment and the model
say 8.

### Runs

* `light_client_honest`: four periods of four slots, participation 2 or 3 of
  3, answers up to one slot old; fairness on.  It checks what holds of an honest
  full node only.
* `light_client_faults` checks the others: all faults and one restart, participation 1 or 2 of
  2, slots 6 to 11.  Old starting points are possible because the full node
  may answer another key, so that the timeout, the forced update and the
  regression happen within these slots.

Periods of four slots give a safety threshold period of two, so the resets of
the participation maxima fall inside and at the ends of periods; three or four
periods are what a skip, a rotation and a timeout after it need.

Fairness: the clock advances, and the goroutine in `skipSync` is scheduled.
`skipSync` blocks only on a call, and an honest full node answers it.

## discv5 transport

### Model

`UDPv5Dispatch` models the goroutines of `UDPv5`: one per call (`call`, the
receive in `ping`, `TalkRequest` and `waitForNodes`, `callDone`), `dispatch`,
`readLoop`, one per response timer, and `Close`.  Every channel operation that
can block is a step.  A transfer on the unbuffered `callCh`, `callDoneCh` and
`respTimeoutCh` is one step of both sides and includes all that `dispatch`
does before it selects again, except for its own sends on `c.ch` and `c.err`
(`putCh`, `putErr`), on which it can block.  `activeCallByAuth` is a set of
pairs, so that it is a theorem and not an assumption that it is a map.  A
failed `Encode` yields the zero nonce, which several calls may then share.  A
timer is a call and a number; `c.timeout` holds the number of the current one,
and timers that have fired wait in `firing` until `dispatch` receives them.

Of a packet only its effect matters: a response to a call that was sent,
possibly late; WHOAREYOU for a nonce, the zero nonce included; anything else.

`SerialCalls` is what `call` and `callDone` promise: the calls to a node stand
in line, only the first gets responses or an error, and only while its caller
is there to receive; the next moves up when it has left; after `Close` each
waiting call is dropped with an error.  It has no packets, nonces, timers or
buffers.  `UDPv5Refinement` maps the transport to it: the line of a node is
its active call followed by its queue, the rest is the same state.

### Properties

* `ImplementsSerialCalls`: `UDPv5Dispatch` implements `SerialCalls`.  It is in
  the run without `Close` and errors; TLC takes several minutes to confirm it
  with the constants of `udpv5_faults`, and the proof has all cases.
* `DoneCallIsActive`: the panic "BUG: callDone for inactive call" is
  unreachable.
* `AuthNamesActiveCall`: `activeCallByAuth` holds active calls under their
  present nonces, and every active call that has a nonce; so no delete hits
  the entry of another call that was sent.  There is one exception, for which
  `Encode` must have failed: `sendCall` says "Remove the entry for the old
  nonce because we're about to generate a new nonce for this call"
  (`v5_udp.go:610`), but leaves the entry alone when that nonce is zero.  A
  WHOAREYOU with the zero nonce then finds the call, and when the handshake is
  sent under a nonce of its own the entry under zero stays behind, also after
  the call has ended.  The property pins down how far this goes: only the zero
  nonce, and only a call that was challenged, so `matchWithCall` refuses it
  from then on.
* `DispatchWaitsForReceiver`: before `Close`, `dispatch` blocks only on a
  goroutine that is receiving.
* `TimeoutIsCurrent`: a timer that fired before the last response or handshake
  does not end the call.
* `BufferIsExclusive`: `readLoop` never writes into a packet still in use, and
  "Arm next read" never blocks.
* `NothingLeftBehind`: between calls all tables and timers are gone, but for
  at most that one entry under the zero nonce.
* `NoWaiterForgotten`: when `dispatch` has returned, whoever waits has an
  error to receive.
* `EveryCallReturns`, `ReadingGoesOn`: progress.

`DoneCallIsActive`, `DispatchWaitsForReceiver` and `NothingLeftBehind` are
proved and in no run: the first two are part of what `SerialCalls` demands,
and they were model-checked before they were proved.

### TALK extension

`TalkExt` has the functions that cut a message into packets and join them, the
names of protocols, and the receiver, `handleTalkExt`, with its connections.
`CompletedIsWhole`: the packets of two messages, of lengths around one and two
packets, arrive in any order, once, several times or never; a connection is
complete exactly when all its packets are there, and joined they are the
message.  A protocol name with a dash, as the default `talk-sctp`, is not
recognised by `isTalkExtProtocol`, and its packets are handled as plain TALK
requests; the property says so.  It is checked in the run `findnode`, beside
the FINDNODE requests.

### Runs

* `udpv5_faults`: three calls, two of them to the same node, temporary read
  errors, failing encodings, and `Close` at any moment; one packet.
* `udpv5_progress`: two calls to one node, one of them with several responses,
  three packets, fairness.  `TimeoutIsCurrent`, which needs handshakes and
  late timers, is checked here.
* Two disagreements: `udpv5_temporary_errors` (after a temporary read error
  the token is gone and nothing is read any more) and `udpv5_close` (a caller
  leaves `callDone` because of `closeCtx` with a full channel, and `dispatch`
  hangs).

Two calls to one node are what queueing, hand-over and late answers need; the
third, to another node, is what a nonce shared by active calls needs.  Three
packets are a challenge, a response and a late one.

Fairness: every goroutine that stays able to step does so, and timers expire.
Beyond that, a goroutine in `callDone` that keeps offering its call on
`callDoneCh` is served although `c.ch` or `c.err` could be drained first.

## FINDNODE

`Findnode` models one request of a node and its answer: `lookupWorker` and
`Resolve` with `RequestENR` on the one side, `handleFindnode` on the other,
NODES packets between them.  `collectTableNodes` takes the mutex of the table
once for each distance, so each distance is a step and the table may change
between two of them.  Packets are lost, doubled and reordered; the call may
fail at any moment.  IDs and distances are those of the code with fewer bits.

* `AnswerIsWhole`: a call that succeeds has the whole answer.  Two cases are
  excepted: a packet that comes twice stands for one that has not come, since
  `waitForNodes` counts, and an answer may take more packets than
  `waitForNodes` waits for.
* `CloserNodesArrive`: a successful `lookupWorker` returns every node that is
  closer to the target than the node asked and stayed in its table.
* `ResolvedIsNewest`: `Resolve` returns no record older than one it had, nor
  than the node's own if the node answered.

The run `findnode` starts from every table of up to six nodes in a space of four
bits.  The three smallest distances share a bucket, as the first 240 do in the
code; five nodes make three packets where two are waited for, and three
targets give distances at both ends and in the middle.  One packet is lost or
doubled, and the table changes once.  One request is made, after which the
system stops.  The comment at `v5_udp.go:349` gives "[255, 256, 254]" as the
distances for 255; the code never adds 256, and asks for 255, 254 and 253.

## Node table

### Model

`TableStore` translates the functions that run under `tab.mutex` as operators
on the table: the entries and replacements of each bucket, and the counters of
`netutil.DistinctNetSet` per bucket and for the whole table.  Of a record the
ID and the IP are kept; a node whose record changes has another IP.  `addIP`
and `removeIP` are done where the code does them, with the IP the code passes,
which need not be the IP of the entry that leaves.

`TableLoop` has the steps: `addSeen`, `addVerified` (after `isInitDone`),
`queryFails` and `delete` (a query looks at the length of the bucket, then
deletes the node in a second critical section), `doRevalidate` in two steps
around its ping, `doRefresh`, the callers of `refresh`, `close`, and one
action for each case of the `select` in `loop` and each wait after it.

### Properties

* `OncePerTable`: a node is in its bucket once, as an entry or as a
  replacement.
* `EvictionHasCause`: an entry leaves only when its own ping was not answered
  or a query deletes it; a pong, of whatever record, loses none.
* `UncountedOnlyWhenStale`: the counters start to miss a node only in the two
  steps that remove an IP read earlier.  They do drift in those steps, and
  then a bucket may take more nodes of a network than "at most 2 addresses from
  the same /24" (`table.go:53`).  `table_test.go:177` expects that "ip limit
  sets contain an entry for every node in the table and no extra entries"; the
  tests that check it add nodes and do not delete, and the property says that
  no other step breaks the first half.
* `NoDoubleClose`, `RefreshReturns`, `CloseReturns`, `RevalidationGoesOn`: the
  channels of `loop`.

### Runs

* `table_nodes`: five nodes, buckets of two with one replacement, a second
  bucket that shares the table's limit; one network with room for two nodes in
  a bucket and three in the table, and a LAN, which is not counted; one node
  moves between them.  So a bucket, its replacements and both limits are full
  in some states and not in others.
* `table_loop`: one node, two callers of `refresh`, `close`; fairness.

Fairness: lookups and pings end, timers fire, and no case of a `select` that
stays ready is passed over for ever.

## Lookup

`Lookup` models the goroutine that calls `Next` of a `lookupIterator`, the
search it advances, and one goroutine per query, which reads `it.queryfunc`,
waits for its answer and sends on a channel with room for `alpha` replies.  A
node is its distance to the target.  `Close` may come at any moment.

* `QueriesAccounted`: `it.queries` is the number of goroutines and unread
  replies, so no send blocks and no receive waits in vain; no query finds
  `it.queryfunc` nil (`shutdown` clears it without a lock), and a finished
  search leaves nothing behind.
* `ResultIsClosest`: `push` keeps the closest nodes seen, in order.
* `SearchIsComplete`: a search ends when all its closest nodes were asked.
* `EachNodeOnce`: the iterator hands out every node seen once.  Its buffer and
  the search's reply buffer are one array; the model has two sets, which is
  exact because, as the property also says, a reply is written only when the
  iterator's buffer is used up.
* `QueriesEnd`, `AdvanceReturns`: progress, also after `Close`.

The run `lookup` has five nodes, a result of three and two queries at a time,
so that nodes are pushed out of the result and found after they were dropped;
two searches, so that the state of the first meets the second.  Fairness:
every goroutine that can go on does, and queries are answered or time out;
whoever calls `Next` may stop.

## discv4 transport

`UDPv4Replies` models the goroutines that make a request and wait for its
matcher, `loop`, which owns the list of matchers and one timer for all of
them, `readLoop` with the handlers it calls, and `Close`.  Deadlines are set
in the order of the list.  Three details of the code matter:

* `plist.Remove` clears the links of an element, so an iteration ends at the
  first matcher it removes: later ones see neither the reply nor the timeout
  in that turn.  The comment at `v4_udp.go:91` says that incoming packets are
  dispatched to all matchers.
* a tick may be left in `timeout.C` when the timer is set again, so a timeout
  may be handled that was meant for a matcher that is gone;
* `resetTimeout` is called at the head of each turn, and compares the first
  matcher with the one the timer was set for.

`MatchersCanBeAnswered`, `NoRequestLost`, `TimerRunsForHead` and
`NoEarlyTimeout` say that in spite of that no send blocks `loop`, no requester
is forgotten, no deadline is slept through and no request is given up early.
`EndpointProof`: a node is bonded, verified or served only after it echoed the
hash of a ping to it, in this run or, for the nodes of the constant `Known`,
in the one that wrote the database.  `EveryRequestReturns` and `CloseReturns`
are progress.
The first three are proved and in no run: `EveryRequestReturns` and
`CloseReturns` would fail without them.

The run `udpv4_replies` has two findnodes and a ping back, which nobody waits
for, to one node; a second node, which is not asked, but whose pong of an
earlier run is in the database; two packets and `Close`.  One neighbor ends a
findnode.  So a reply without nodes goes to both findnodes, one with a node
ends the first and never reaches the second, and the head of the list can be
answered, time out or be overtaken.  Fairness:
every goroutine that can go on does, time passes, and no case of a `select`
that stays ready is passed over for ever.  Reading is fair only after `Close`,
which closes the connection.

## Sessions and handshakes

`Handshake` models two or more nodes with their `SessionCache`s.  `dispatch`
owns the codec, so encoding a packet, and decoding and handling one, are
single steps.  A key is named by the ephemeral key and the challenge it is
derived from; a message can be read with the key it was written with; a
signature is good for its challenge.  Nonces are new; the counter in them is
kept.  Packets under way are a set; they are delivered in any order, lost and
duplicated.  Sessions are evicted, challenges time out, a node restarts with
its database but without its cache, calls time out early, records change, and
tables drop them.

* `CountersNeverReused`: no key is used with the same counter twice.  It rests
  on `decodeHandshakeMessage` deleting the challenge it accepts.
* `UndisturbedCallSucceeds`: from any state of sessions and challenges that
  the faults have left, a call is answered if no packet is under way when it
  is made, nothing goes wrong during it and no handshake of the other node
  crosses its own.  Crossing handshakes do make both calls fail, and leave the
  nodes with different keys; the next call repairs them.
* `RecordIsCurrent`: the answer to a challenge brings the record the
  challenger lacks, and never fails for want of one.

The run `handshake` has two calls from one node and one from the other, so
that handshakes cross and a call follows one that failed; a record changes
once and one fault of any kind happens.  The calls are finite, so the system
may stop.

## What is proved

`LightClientProofs` (for every period length, committee size, clock, set of
faults and number of restarts): `TypeCorrect`, `CommitteesPinned`,
`AgesBounded`, `RegressionBounded`, `StalenessHeals`, `HeadCatchesUp`,
`ValidUpdatesAreSafe`, `HeadMonotone`.  The inductive invariant is `TypeOK`, `NextCommitteePinned`
and `HeaderAges` together; the action properties follow from it and from
lemmas about each stage of `processLightClientUpdate`.  `HeaderAges` says more
than a reader of the store needs, because a forced update copies the kept
update into the finalized header: to bound one, both must be bounded.

`UDPv5Proofs` (for any sets of nodes and calls, any number of packets,
with and without failing encodings, temporary errors and `Close`):
`TypesKept`, `DispatchNeverPanics`, `AuthTableExact`, `ReceiverIsThere`, `TimeoutsAreCurrent`, `BufferOwned`, `TablesDrain`,
`CloseReachesEveryone`.  None of these invariants is inductive by itself.
`Inv` adds where each call is: queued calls are waiting, have neither nonce
nor message, and occur once (`QueueInv`); an active call is at its node and
its goroutine has not returned unless `closeCtx` is done (`ActiveInv`); a
goroutine that waits finds its call active or queued, or an error, and one
with something to receive owns the active call (`CallerInv`); running timers
are the current ones of active calls (`TimerInv`); there is at most one read
token, wherever it is (`ReadInv`).  `AuthInv` needs to know that a call is
challenged only when it was sent, and once (`HandshakeInv`): of the entry that
a resent call leaves under the zero nonce there can then be only one.  One lemma per conjunct shows that every
action keeps it; `CallEnters`, `CallLeaves` and `CallResent` treat the three
actions that send.

Its last part is `TransportSerialisesCalls`, that every behaviour of the
transport is one of `SerialCalls`, for the same constants.  Each action is
shown, from `Inv`, to be a step of the abstract specification or a stutter;
the lemmas about lines say what accepting a call, finishing one and sending
the next do to `lineOf`.

`UDPv4Proofs` (for any requests, nodes, number of packets, with and without
`Close`): `TypeCorrect`, `LoopNeverBlocks`, `NobodyForgotten`, `TimerIsSet`,
`DeadlinesAreKept`, `BondsAreProven`.  `Inv` adds to the properties what they
rest on: matchers in the list are awaited, and nothing is in the channel of
one that is not added yet (`ListInv`); the timer was last set for the head of
the list, and a tick counts no deadline as passed that has not
(`TimerInv`); a pong that echoes a ping comes from a proven node at every
point between its arrival and the verdict of `loop` (`ReplyInv`).  Each
conjunct has a lemma with one step per action.

`HandshakeProofs` (for any nodes and calls, and any number of faults):
`TypeCorrect`, `CountersAreSafe`, `RecordsArrive`, `UndisturbedCallsSucceed`.  That counters are new is
not inductive: a key must also never be made again.  `UsedInv` says why not.
The call of an initiator's key has made its only handshake, and the challenge
of a recipient's key is gone from every cache for good, since challenges are
numbered without repetition (`ChallengeInv`).  `SessionInv` gives every key
one pair of nodes.  `AnswerInv` relates packets to challenges: a WHOAREYOU
says what the challenge kept by its sender says, so the record that
`makeHandshakeAuth` adds or leaves out is the right one.  `SessionKinds`
reduces the actions to two cases, sessions lost and one session used once.

`UndisturbedCallsSucceed` needs an invariant about the packets, `CallInv`.
While nothing interferes with an active call, exactly one packet carries it
(`carried`): the request, the WHOAREYOU that answers it, the handshake that
answers that, or the response; what else is under way between the two nodes
either cannot be mistaken for it or is written with keys both have
(`inTouch`).  `PairInv` says that the two keys of a session are a pair, and
`OneActive` that a node has one call to another at a time.  The lemmas
`Carried...` show for each action that a carried call stays carried or is
answered; `CarriedHandshake` and `CarriedWhoareyou` are the cases in which the
carrying packet is another one afterwards.

`LookupProofs` (for any nodes, `alpha`, `bucketSize` and number of searches):
`TypeCorrect`, `QueriesAreCounted`, `ResultClosest`, `SearchCompletes`,
`NodesAreDeliveredOnce`.  `PushKeepsClosest` says what `push` does to a sorted
list, full or not, from `CloserIsPlace`, that `sort.Search` finds the place;
`ToAskFits` and `NobodyToAsk` what `startQueries` picks.  `Inv` adds to the
properties that a search is there while the goroutine is in `advance`
(`ControlInv`), that the queries under way are for different nodes that have
been asked (`QueryInv`), and that a reply being read has not been handed out
(`DeliveryInv`).  One lemma per goroutine, one step per action.

`TableProofs` (for any nodes, addresses, networks, buckets, limits and callers
of `refresh`): `TableTypeCorrect`, `OncePerTableHolds`, `NoDoubleCloseHolds`,
`EvictionHasItsCause`, `UncountedNeedsStaleRecord`.  `TableInv` is the type
invariant, that entries and replacements of a bucket are distinct and belong
there (`goodTable`), and that the channels that are waited for, requested and
closed are apart (`apart`).  What each operation may do to a table is said by
two predicates: it `keeps` the entries and counts every node it adds, or it
`takes` one node from one bucket; a lemma per operation (`AddSeenKeeps`,
`AddVerifiedKeeps`, `DeleteTakes`, `ReplaceTakes`) shows which.  The counts of
nodes in a network are cardinalities of sets of places; of them only four facts
are used (`Counts`), which `CountsHold` proves.

`FindnodeProofs` (for any number of bits and buckets, any nodes, targets and
limits, any number of changes of the table, new records, and lost and doubled
packets): `AnswersAreWhole`, `CloserNodesDoArrive`, `ResolvedAreNewest`.  The
invariant has one part for each thing the properties rest on.  Packets under
way are those `packNodes` made, no two alike (`NetInv`), and one request gets
one answer unless something is doubled (`ControlInv`).  `waitForNodes` only
counts packets; that the count is enough is `GatherInv`, which names the set of
packets that have been received, and `FewAreMissing`, which bounds what the
others hold.  `CloserInv` says that the closer nodes are in one bucket and come
with the first distance asked for: `CloserIsAsFar` shows that a node closer to
the target than the node asked is as far from that node as the target is, and
`FirstDistance`, `ValidDistances`, `RelayableNodes` what the loops of
`lookupDistances` and `collectTableNodes` do with it.  `ResolveInv` is about
records: the answer to `Resolve` is one packet with at most one node, and what
it carries is no older than what was published when the request was made.

`TalkProofs` (for any protocol names, and any number of messages of any
length): `CompletedAreWhole`.  `TalkInv` says that the connection of a message
holds exactly the packets that have arrived, each in its place and of the
length `splitMessage` gave it.  `Chunks` shows that the chunks follow each
other from the first byte to the last, also when the last packet is full,
`CombinedPackets` what `combinePackets` returns, and `JoinedIsMessage` that
what is joined is the message only if no packet is missing.

Both modules reason about loops.  Their functions are recursive over the
number of turns.  `Recursion` shows that such a function exists, and
`Induction` that what each turn keeps holds after the last; both come from
`LeastElement`, that a set of numbers that is not empty has a least element,
and so need no induction over a predicate.

The assumptions are `StoreAssumption`, `SyncAssumption`, `DispatchAssumption`,
`RepliesAssumption`, `HandshakeAssumption`, `LookupAssumption`,
`TableAssumption`, `LoopAssumption`, `FindnodeAssumption` and
`TalkAssumption`, which type the constants, exclude division by zero, empty
limits, empty messages and calls of a node to itself, and separate nil from
calls, requests, updates, nodes, sessions, keys, nonces and challenges.
`FindnodeAssumption` relates two limits besides: a bucket holds no more than
an answer, as in the code, where both are 16; else the first bucket could be
cut off, and nodes of it would be missing.

`ThresholdOutOfReach` in `LightClientProofs` is about the comment "Normal
update: 2/3 threshold" (`update.go:40`): for no committee size does an update
reach the threshold the code computes, so the finalized header moves only by
`skipSync` and the forced update.

The type invariants of these specifications, but for the table's, are proved
and in no run.

Only model-checked: the liveness properties (TLAPS does not handle fairness
and ENABLED); and `IndexLeadsToField` and `BranchesProve` of `MerkleBranches`,
whose types and trees are nested to any depth, so that its operators are
RECURSIVE, for which the proof system has no support.

## Not modelled

* Cryptography and encodings (RLP, ECDSA, AES, BLS, SSZ hashing of a whole
  state): only what a packet, signature or branch proves is modelled.
* `TalkRequestExt`: the receiver's answer is not written (it is a comment in
  `handleTalkExt`, which sends no TALK response), so its first packet times
  out and the function ends the process with `log.Fatal`.  There is no
  exchange to state a property of; `TalkExt` has requesters that send all
  their packets.  `Ping` and `TalkRequest` are single calls
  of `UDPv5Dispatch`.
* Discv4's `Resolve`, `ensureBond` and `RequestENR`: sequences of the requests
  that `UDPv4Replies` models, with the same conclusions; the bonds they
  establish are `EndpointProof`'s.
* `pkg/portalnet`: start-up code and an experiment that nothing imports.  Its
  connection is driven by the SCTP library, and its queue never gives out the
  last packet it holds (`Dequeue` needs two), so what the connection does is
  not determined by code of this repository.
* Reads of the table that change nothing (`findnodeByID`, `ReadRandomNodes`),
  the NTP check, byte helpers, the SCTP demo, debug commands, flags, logging.
