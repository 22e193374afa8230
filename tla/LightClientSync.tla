-------------------------- MODULE LightClientSync --------------------------
(***************************************************************************)
(* The sync service of the light node (internal/consensus/sync/service.go) *)
(* inside its process: initStore, skipSync and the sync() goroutine, the   *)
(* RPC server that reads the store (internal/consensus/rpc/server.go), and *)
(* shutdown (internal/consensus/node/node.go).                             *)
(*                                                                         *)
(* Outside the repository, and modelled from how the code uses them:       *)
(*  - the full node behind lightUpdateClient, which follows one canonical  *)
(*    chain whose head is at slot `clock' and whose finalized header is    *)
(*    FinalityLag slots behind the header that attests to it;              *)
(*  - the slot ticker, which delivers every slot once and in order, late   *)
(*    if the receiver was busy;                                            *)
(*  - the service registry, which starts the services concurrently, and    *)
(*    whoever starts the process again after it ended.                     *)
(***************************************************************************)
EXTENDS LightClientStore

CONSTANTS
  TrustedCommittee,   \* the committee named by --trusted-current-committee-root
  StartSlot,          \* the slot in which the process first starts
  MaxSlot,            \* bound on the clock
  MaxRestarts,        \* bound on the number of restarts
  FinalityLag,        \* slots from a finalized header to its attested header
  StaleBy,            \* how far behind the clock a served header may be
  MinBits,            \* the least participation the full node ever serves
  Faults              \* what may go wrong around the process, of FaultKinds

(* nonfinal: the full node sends an update whose finality header is empty; *)
(* branch:   it sends an update whose Merkle branches do not verify;       *)
(* key:      it answers a skip-sync request with another period's update;  *)
(* call:     a call fails, or answers nothing, while its context is live;  *)
(* disk:     writing the snapshot fails;                                   *)
(* rpc:      a client calls the RPC server before the store is set.        *)
FaultKinds == {"nonfinal", "branch", "key", "call", "disk", "rpc"}

ASSUME SyncAssumption ==
  /\ TrustedCommittee \in Nat
  /\ StartSlot \in Nat /\ MaxSlot \in Nat /\ MaxRestarts \in Nat
  /\ FinalityLag \in Nat /\ StaleBy \in Nat
  /\ StartSlot > FinalityLag + StaleBy
  /\ MinBits \in 0 .. CommitteeSize
  /\ Faults \subseteq FaultKinds

VARIABLES
  clock,      \* the slot of the wall clock and of the chain's head
  pc,         \* where the goroutine that runs Start(), then sync(), is
  store,      \* s.Store
  expected,   \* expectedNextSyncComm of skipSync
  nextTick,   \* the slot the ticker delivers next
  stopping,   \* the context is cancelled
  restarts,   \* number of restarts so far
  anchor      \* history: the active header initStore started from

vars == <<clock, pc, store, expected, nextTick, stopping, restarts, anchor>>

Running == {"init", "skipStart", "skip", "sync", "fetch", "returned"}
Ended == {"panicked", "exited"}

Init ==
  /\ clock = StartSlot
  /\ pc = "init"
  /\ store = Nil
  /\ expected = 0
  /\ nextTick = 0
  /\ stopping = FALSE
  /\ restarts = 0
  /\ anchor = 0

---------------------------------------------------------------------------
(* The full node *)

(* Well-formed answers about a header pair of the canonical chain.         *)
ServedAt(attested) ==
  [attested : {attested},
   finality : {attested - FinalityLag}
                \cup (IF "nonfinal" \in Faults THEN {EmptyHeader} ELSE {}),
   bits : MinBits .. CommitteeSize,
   merkle : IF "branch" \in Faults THEN BOOLEAN ELSE {TRUE},
   signer : {Period(attested)}]

(* GetUpdates: something recent.                                           *)
ServedUpdates == UNION {ServedAt(a) : a \in (clock - StaleBy) .. clock}

(* GetSkipSyncUpdate: something of the period the key names.  The client   *)
(* never compares the answer with the key it asked for.                    *)
ServedSkipSync(key) ==
  {u \in UNION {ServedAt(a) : a \in (FinalityLag + 1) .. clock} :
     "key" \in Faults \/ Period(getActiveHeader(u)) = key}

(* A call also fails when the context is cancelled while it runs.          *)
CallMayFail == "call" \in Faults \/ stopping

---------------------------------------------------------------------------
(* service.go *)

Panic ==
  /\ pc' = "panicked"
  /\ UNCHANGED <<clock, store, expected, nextTick, stopping, restarts, anchor>>

(* The store always starts from the trusted committee root.                *)
initStore ==
  /\ pc = "init"
  /\ \E u \in ServedSkipSync(TrustedCommittee) :
       /\ u.merkle
       /\ store' = initialStore(u)
       /\ anchor' = getActiveHeader(u)
  /\ pc' = "skipStart"
  /\ UNCHANGED <<clock, expected, nextTick, stopping, restarts>>

(* "cannot find", any other error, and a failed validation all panic.      *)
initStoreFails ==
  /\ pc = "init"
  /\ \/ CallMayFail
     \/ \E u \in ServedSkipSync(TrustedCommittee) : ~u.merkle
     \/ ServedSkipSync(TrustedCommittee) = {}
  /\ Panic

(* Lines 199-217: the committee to reach, asked for once.                  *)
skipSyncStart ==
  /\ pc = "skipStart"
  /\ \E u \in ServedUpdates :
       /\ validateMerkleLightClientUpdate(u)
       /\ expected' = Period(getActiveHeader(u)) + 1
  /\ pc' = "skip"
  /\ UNCHANGED <<clock, store, nextTick, stopping, restarts, anchor>>

skipSyncStartFails ==
  /\ pc = "skipStart"
  /\ \/ CallMayFail
     \/ \E u \in ServedUpdates : ~validateMerkleLightClientUpdate(u)
  /\ Panic

(* Mutant: skipSync stops before the committees agree.                     *)
skipSyncDoneEarly ==
  /\ pc = "skip"
  /\ nextTick' = clock + 1
  /\ pc' = "sync"
  /\ UNCHANGED <<clock, store, expected, stopping, restarts, anchor>>

(* Lines 221-229, then line 146: sync() creates its ticker.                *)
skipSyncDone ==
  /\ pc = "skip"
  /\ store.next = expected
  /\ nextTick' = clock + 1
  /\ pc' = "sync"
  /\ UNCHANGED <<clock, store, expected, stopping, restarts, anchor>>

(* One turn of the loop that applies a skip-sync update.                   *)
skipSyncTurn ==
  /\ pc = "skip"
  /\ store.next # expected
  /\ \E u \in ServedSkipSync(store.next) :
       /\ u.merkle
       /\ store' = simpleProcessSkipSyncUpdate(store, u)
  /\ UNCHANGED <<clock, pc, expected, nextTick, stopping, restarts, anchor>>

(* The turn that finds nothing ("cannot find", lines 236-241) sleeps and   *)
(* changes nothing; any other failure panics.                              *)
skipSyncTurnFails ==
  /\ pc = "skip"
  /\ store.next # expected
  /\ \/ CallMayFail
     \/ \E u \in ServedSkipSync(store.next) : ~u.merkle
  /\ Panic

(* Lines 291-293: a slot arrives; the goroutine then waits in GetUpdates.  *)
syncTick ==
  /\ pc = "sync"
  /\ nextTick <= clock
  /\ store' = processSlotForLightClientStore(store, nextTick)
  /\ nextTick' = nextTick + 1
  /\ pc' = "fetch"
  /\ UNCHANGED <<clock, expected, stopping, restarts, anchor>>

(* The slot sync() is processing.                                          *)
currSlot == nextTick - 1

(* Lines 299-302: apply the first update, then save the store to a file    *)
(* that nothing reads: the call of tryRecoverStore is commented out.       *)
syncUpdate ==
  /\ pc = "fetch"
  /\ \E u \in ServedUpdates : store' = processLightClientUpdate(store, u, currSlot)
  /\ pc' = "sync"
  /\ UNCHANGED <<clock, expected, nextTick, stopping, restarts, anchor>>

(* Lines 296-299: an error, or an answer without updates, panics.          *)
syncUpdateFails ==
  /\ pc = "fetch"
  /\ CallMayFail
  /\ Panic

(* Lines 358-369: the store was updated, but its snapshot is not written.  *)
saveSnapshotFails ==
  /\ pc = "fetch"
  /\ "disk" \in Faults
  /\ \E u \in ServedUpdates : store' = processLightClientUpdate(store, u, currSlot)
  /\ pc' = "panicked"
  /\ UNCHANGED <<clock, expected, nextTick, stopping, restarts, anchor>>

(* Lines 321-324. *)
syncReturn ==
  /\ pc = "sync"
  /\ stopping
  /\ pc' = "returned"
  /\ UNCHANGED <<clock, store, expected, nextTick, stopping, restarts, anchor>>

---------------------------------------------------------------------------
(* rpc/server.go: Head and FinalizedHead dereference the store; before     *)
(* initStore has set it they panic, otherwise they change nothing.         *)
rpcBeforeInit ==
  /\ pc = "init"
  /\ "rpc" \in Faults
  /\ Panic

(* node.go Close: StopAll cancels the service's context ...                *)
Close ==
  /\ pc \in Running
  /\ ~stopping
  /\ stopping' = TRUE
  /\ UNCHANGED <<clock, pc, store, expected, nextTick, restarts, anchor>>

(* ... and closing ln.stop lets Start return and the process end.          *)
Exit ==
  /\ pc \in Running
  /\ stopping
  /\ pc' = "exited"
  /\ UNCHANGED <<clock, store, expected, nextTick, stopping, restarts, anchor>>

(* A new process starts from nothing.                                      *)
Restart ==
  /\ pc \in Ended
  /\ restarts < MaxRestarts
  /\ restarts' = restarts + 1
  /\ pc' = "init"
  /\ store' = Nil
  /\ expected' = 0
  /\ nextTick' = 0
  /\ stopping' = FALSE
  /\ anchor' = 0
  /\ UNCHANGED clock

advanceClock ==
  /\ clock < MaxSlot
  /\ clock' = clock + 1
  /\ UNCHANGED <<pc, store, expected, nextTick, stopping, restarts, anchor>>

Next ==
  \/ initStore \/ initStoreFails
  \/ skipSyncStart \/ skipSyncStartFails
  \/ skipSyncDone \/ skipSyncTurn \/ skipSyncTurnFails
  \/ syncTick \/ syncUpdate \/ syncUpdateFails
  \/ saveSnapshotFails \/ syncReturn
  \/ rpcBeforeInit
  \/ Close \/ Exit \/ Restart
  \/ advanceClock

Spec == Init /\ [][Next]_vars

(* Time passes, and the goroutine that runs skipSync is scheduled: it      *)
(* sleeps a second between turns and blocks on nothing but a call, which   *)
(* the full node answers the same way for as long as the chain grows.      *)
Fairness ==
  /\ WF_vars(advanceClock)
  /\ WF_vars(skipSyncTurn)
  /\ WF_vars(skipSyncDone)

FairSpec == Spec /\ Fairness

---------------------------------------------------------------------------
(* Properties *)

(* The type invariant: the store is nil exactly until initStore is done,   *)
(* and the ticker never runs ahead of the clock.                           *)
TypeOK ==
  /\ clock \in Nat /\ clock >= StartSlot
  /\ pc \in Running \cup Ended
  /\ store \in Store \cup {Nil}
  /\ pc \in Running => (store = Nil <=> pc = "init")
  /\ expected \in Committee
  /\ nextTick \in Nat /\ nextTick <= clock + 1
  /\ pc = "fetch" => nextTick >= 1
  /\ stopping \in BOOLEAN
  /\ restarts \in Nat
  /\ anchor \in Header

(* While sync() runs, the next committee is the one skipSync reached, and  *)
(* the current committee is that one or its predecessor: whatever updates  *)
(* are applied, and whatever the full node sends, applyLightClientUpdate   *)
(* invents no committee, and once it has rotated them a further rotation   *)
(* finds both the same and changes neither.                                *)
NextCommitteePinned ==
  pc \in {"sync", "fetch", "returned"} =>
    /\ store.next = expected
    /\ store.current \in {expected - 1, expected}

(* The least distance from the clock to an active header that is served.   *)
MinLag == IF "nonfinal" \in Faults THEN 0 ELSE FinalityLag

(* How much later the active header of an update may be than that of an    *)
(* update the full node sends after it.                                    *)
Jitter == StaleBy + FinalityLag - MinLag

(* The ages of the headers in the store: none is ahead of what the chain   *)
(* has finalized, and the update kept for a forced update is initStore's   *)
(* or was served after the finalized header was.  While skipSync runs it   *)
(* is initStore's, and the committees are those of successive periods.     *)
HeaderAges ==
  /\ pc \in {"skipStart", "skip"} =>
       /\ store.next = store.current + 1
       /\ store.best # Nil
       /\ getActiveHeader(store.best) = anchor
  /\ store # Nil =>
       /\ store.finalized + MinLag <= clock
       /\ store.best # Nil =>
            /\ getActiveHeader(store.best) + MinLag <= clock
            /\ \/ getActiveHeader(store.best) = anchor
               \/ getActiveHeader(store.best) + Jitter >= store.finalized

(* A step of sync() that moves the finalized header back by more than the  *)
(* jitter of the full node moves it to where initStore began: only the     *)
(* update initStore left in BestValidUpdate is ever that old.              *)
RegressionIsToAnchor ==
  [][pc = "fetch" /\ pc' = "sync" =>
       \/ store'.finalized + Jitter >= store.finalized
       \/ store'.finalized = anchor]_vars

(* A tick that begins without a BestValidUpdate, which is how a forced     *)
(* update leaves the store, ends with a finalized header no older than     *)
(* UpdateTimeout: a stale forced update lasts one slot.                    *)
StaleFinalityHeals ==
  [][(/\ pc = "fetch" /\ pc' = "sync"
      /\ store.best = Nil
      /\ StaleBy + FinalityLag <= UpdateTimeout)
     => currSlot <= store'.finalized + UpdateTimeout]_vars

(* When every update has more than half of the committee behind it, the    *)
(* header that Head returns is not behind the one FinalizedHead returns    *)
(* once sync() has processed a slot, although skipSync, which advances     *)
(* only the finalized header, may have left it behind.                     *)
HeadNotBehindFinalized ==
  [][(/\ pc = "fetch" /\ pc' = "sync"
      /\ 2 * MinBits > CommitteeSize
      /\ StaleBy <= MinLag)
     => store'.optimistic >= store'.finalized]_vars

(* Within one run of the process, Head never goes back: skipSync and a     *)
(* forced update leave the optimistic header alone.                        *)
HeadNeverMovesBack ==
  [][store # Nil /\ store' # Nil => store'.optimistic >= store.optimistic]_vars

(* skipSync ends if the committee it waits for is not behind the store's.  *)
SkipSyncEnds ==
  (pc = "skip" /\ store.next <= expected) ~> pc # "skip"

(* What the verdict of validateLightClientUpdate, which processLightClient-*)
(* Update drops, is worth: if the update that replaces the finalized       *)
(* header, the served or the forced one, passes, the header does not go    *)
(* back, and the current committee is then the one that signed the update. *)
ValidUpdateIsSafe ==
  [][(/\ pc = "fetch" /\ pc' = "sync"
      /\ store'.finalized # store.finalized)
     => \A u \in ServedUpdates \cup ({store.best} \ {Nil}) :
          /\ getActiveHeader(u) = store'.finalized
          /\ validateLightClientUpdate(store, u, currSlot)
          => store'.finalized > store.finalized /\ store'.current = u.signer]_vars

===========================================================================
