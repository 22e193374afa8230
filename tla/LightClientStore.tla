------------------------- MODULE LightClientStore -------------------------
(***************************************************************************)
(* The light-client store and the pure functions that validate an update   *)
(* and apply it (internal/consensus/sync: update.go, unsorted.go,          *)
(* verify.go, and the store helpers of service.go).                        *)
(*                                                                         *)
(* A header is the slot of a block of the canonical chain; the empty       *)
(* header, whose Slot field is 0, is 0.  A sync committee is the number of *)
(* the period it serves in, so the state of the header at slot s commits   *)
(* to the committees Period(s) (current) and Period(s) + 1 (next).  Of the *)
(* bit vector an update carries only the number of set bits matters; of    *)
(* its Merkle branches only whether they verify; of its signature only     *)
(* the committee that made it.                                             *)
(***************************************************************************)
EXTENDS Integers

CONSTANTS
  SlotsPerPeriod,      \* SlotsPerEpoch * EpochsPerSyncCommitteePeriod
  CommitteeSize,       \* SyncCommitteeBits.Len()
  MinSyncCommitteeParticipants,
  Nil                  \* the nil pointer

EmptyHeader == 0

Header == Nat
Committee == Nat

LightClientUpdate ==
  [attested : Header, finality : Header, bits : 0 .. CommitteeSize,
   merkle : BOOLEAN, signer : Committee]

Store ==
  [finalized : Header, optimistic : Header,
   current : Committee, next : Committee,
   prevMax : 0 .. CommitteeSize, curMax : 0 .. CommitteeSize,
   best : LightClientUpdate \cup {Nil}]

(* SafetyThresholdPeriod = SlotsPerPeriod / 2 is a divisor, hence the 2;   *)
(* the bit vector has 512 bits, and nil is neither a store nor an update.  *)
ASSUME StoreAssumption ==
  /\ SlotsPerPeriod \in Nat /\ SlotsPerPeriod >= 2
  /\ CommitteeSize \in Nat /\ CommitteeSize >= 2
  /\ MinSyncCommitteeParticipants \in Nat
  /\ Nil \notin Store
  /\ Nil \notin LightClientUpdate

UpdateTimeout == SlotsPerPeriod
SafetyThresholdPeriod == SlotsPerPeriod \div 2

(* slots.ToEpoch(slot) / EpochsPerSyncCommitteePeriod                      *)
Period(slot) == slot \div SlotsPerPeriod

---------------------------------------------------------------------------
(* unsorted.go *)

IsEmptyHeader(header) == header = EmptyHeader

(* Mutant: the finality header even when it is empty.                      *)
getActiveHeaderUnchecked(update) == update.finality

getActiveHeader(update) ==
  IF IsEmptyHeader(update.finality) THEN update.attested ELSE update.finality

getSafetyThreshold(store) ==
  (IF store.curMax > store.prevMax THEN store.curMax ELSE store.prevMax) \div 2

---------------------------------------------------------------------------
(* verify.go.  The caller in update.go drops the verdict.                  *)

validateMerkleLightClientUpdate(update) == update.merkle

(* verifySign: the aggregate signature is the one of this committee.       *)
verifySign(committee, update) == update.signer = committee

validateLightClientUpdate(store, update, currentSlot) ==
  LET active == getActiveHeader(update)
      rotates == Period(active) = Period(store.finalized) + 1
  IN /\ validateMerkleLightClientUpdate(update)
     /\ currentSlot >= active
     /\ active >= store.finalized
     /\ Period(active) = Period(store.finalized) \/ rotates
     /\ update.bits >= MinSyncCommitteeParticipants
     /\ verifySign(IF rotates THEN store.next ELSE store.current, update)

---------------------------------------------------------------------------
(* update.go *)

(* Mutant: the committees do not rotate.                                   *)
applyLightClientUpdateNoRotation(store, update) ==
  [store EXCEPT !.finalized = getActiveHeader(update)]

(* The next committee of the store is left as it was.                      *)
applyLightClientUpdate(store, update) ==
  LET active == getActiveHeader(update)
  IN [store EXCEPT
        !.current = IF Period(active) = Period(store.finalized) + 1
                      THEN store.next ELSE @,
        !.finalized = active]

(* Mutant: a missing best update is never replaced.                        *)
keepBestUpdateNoNil(store, update) ==
  IF store.best # Nil /\ update.bits > store.best.bits
    THEN [store EXCEPT !.best = update]
    ELSE store

(* Lines 20-24: the update kept for a forced update.                       *)
keepBestUpdate(store, update) ==
  IF store.best = Nil
    THEN [store EXCEPT !.best = update]
    ELSE IF update.bits > store.best.bits
           THEN [store EXCEPT !.best = update]
           ELSE store

(* Lines 26-29. *)
raiseMaxParticipants(store, update) ==
  IF store.curMax < update.bits
    THEN [store EXCEPT !.curMax = update.bits]
    ELSE store

(* Mutant: the threshold is the maximum itself, not half of it.            *)
advanceOptimisticFull(store, update) ==
  IF update.bits > 2 * getSafetyThreshold(store) /\ update.attested > store.optimistic
    THEN [store EXCEPT !.optimistic = update.attested]
    ELSE store

(* Lines 31-35. *)
advanceOptimistic(store, update) ==
  IF update.bits > getSafetyThreshold(store) /\ update.attested > store.optimistic
    THEN [store EXCEPT !.optimistic = update.attested]
    ELSE store

(* Line 39: Len() * 3.0 / 2.0 in uint64 arithmetic.                        *)
normalUpdateThreshold == (CommitteeSize * 3) \div 2

(* Lines 37-48: the normal update, or the forced one after the timeout.    *)
advanceFinalized(store, update, currentSlot) ==
  IF ~IsEmptyHeader(update.finality) /\ update.bits >= normalUpdateThreshold
    THEN applyLightClientUpdate(store, update)
    ELSE IF currentSlot > store.finalized + UpdateTimeout /\ store.best # Nil
           THEN [applyLightClientUpdate(store, store.best) EXCEPT !.best = Nil]
           ELSE store

(* The verdict of validateLightClientUpdate is ignored (line 16), and each *)
(* stage sees the store the stage before it left.                          *)
processLightClientUpdate(store, update, currentSlot) ==
  advanceFinalized(
    advanceOptimistic(
      raiseMaxParticipants(keepBestUpdate(store, update), update),
      update),
    update, currentSlot)

---------------------------------------------------------------------------
(* The store helpers of service.go.  A skip-sync update is a light-client  *)
(* update together with the current committee, Period of its active header.*)

initialStore(update) ==
  [finalized |-> update.finality, optimistic |-> update.attested,
   current |-> Period(getActiveHeader(update)),
   next |-> Period(getActiveHeader(update)) + 1,
   prevMax |-> update.bits, curMax |-> update.bits,
   best |-> update]

(* Mutant: the next committee is left as it was.                           *)
simpleProcessSkipSyncUpdateNoNext(store, update) ==
  [store EXCEPT
     !.finalized = update.finality,
     !.current = Period(getActiveHeader(update))]

simpleProcessSkipSyncUpdate(store, update) ==
  [store EXCEPT
     !.finalized = update.finality,
     !.current = Period(getActiveHeader(update)),
     !.next = Period(getActiveHeader(update)) + 1]

processSlotForLightClientStore(store, currentSlot) ==
  IF currentSlot % SafetyThresholdPeriod = 0
    THEN [store EXCEPT !.prevMax = store.curMax, !.curMax = 0]
    ELSE store
===========================================================================
