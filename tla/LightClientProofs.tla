------------------------- MODULE LightClientProofs -------------------------
(***************************************************************************)
(* Proofs about the sync service, for every period length, committee size, *)
(* clock, number of restarts and set of faults.                            *)
(***************************************************************************)
EXTENDS LightClientSync, TLAPS

---------------------------------------------------------------------------
(* Lemmas about the store's operators *)

(* A period number is a natural number.                                    *)
LEMMA PeriodType ==
  ASSUME NEW slot \in Nat
  PROVE  Period(slot) \in Nat
BY StoreAssumption DEF Period

(* The active header of an update is one of its two headers.               *)
LEMMA ActiveType ==
  ASSUME NEW u \in LightClientUpdate
  PROVE  /\ getActiveHeader(u) \in Nat
         /\ u.finality # EmptyHeader => getActiveHeader(u) = u.finality
         /\ u.finality = EmptyHeader => getActiveHeader(u) = u.attested
BY Zenon DEF getActiveHeader, IsEmptyHeader, LightClientUpdate, Header

(* No update reaches the threshold of a normal update: Len() * 3 / 2 is    *)
(* more than the number of bits there are.                                 *)
THEOREM ThresholdOutOfReach ==
  ASSUME NEW u \in LightClientUpdate
  PROVE  ~(u.bits >= normalUpdateThreshold)
BY StoreAssumption DEF normalUpdateThreshold, LightClientUpdate

(* Keeping the best update leaves one, the new one or the old one.         *)
LEMMA KeepBest ==
  ASSUME NEW s \in Store, NEW u \in LightClientUpdate
  PROVE  /\ keepBestUpdate(s, u) \in Store
         /\ keepBestUpdate(s, u).best # Nil
         /\ keepBestUpdate(s, u).best \in {u, s.best}
         /\ s.best = Nil => keepBestUpdate(s, u).best = u
         /\ keepBestUpdate(s, u).finalized = s.finalized
         /\ keepBestUpdate(s, u).optimistic = s.optimistic
         /\ keepBestUpdate(s, u).current = s.current
         /\ keepBestUpdate(s, u).next = s.next
BY Zenon, StoreAssumption DEF keepBestUpdate, Store

(* Raising the maximum touches nothing else.                               *)
LEMMA RaiseMax ==
  ASSUME NEW s \in Store, NEW u \in LightClientUpdate
  PROVE  LET r == raiseMaxParticipants(s, u)
         IN /\ r \in Store
            /\ r.best = s.best /\ r.finalized = s.finalized
            /\ r.optimistic = s.optimistic
            /\ r.current = s.current /\ r.next = s.next
BY Zenon, StoreAssumption DEF raiseMaxParticipants, Store, LightClientUpdate

(* The optimistic header only advances, and does advance to the attested   *)
(* header of an update that most of the committee signed.                  *)
LEMMA AdvanceOptimistic ==
  ASSUME NEW s \in Store, NEW u \in LightClientUpdate
  PROVE  LET r == advanceOptimistic(s, u)
         IN /\ r \in Store
            /\ r.best = s.best /\ r.finalized = s.finalized
            /\ r.optimistic >= s.optimistic
            /\ 2 * u.bits > CommitteeSize => r.optimistic >= u.attested
            /\ r.current = s.current /\ r.next = s.next
BY StoreAssumption
DEF advanceOptimistic, getSafetyThreshold, Store, LightClientUpdate, Header

(* The current committee after an update with this active header.          *)
rotated(s, active) ==
  IF Period(active) = Period(s.finalized) + 1 THEN s.next ELSE s.current

(* A forced update moves the finalized header to that of the best update,  *)
(* drops it, and rotates the committees if its period is the next one.     *)
LEMMA AdvanceFinalized ==
  ASSUME NEW s \in Store, NEW u \in LightClientUpdate, NEW slot \in Nat,
         s.best # Nil
  PROVE  LET r == advanceFinalized(s, u, slot)
         IN /\ r \in Store
            /\ r.optimistic = s.optimistic /\ r.next = s.next
            /\ r.current \in {s.current, s.next}
            /\ slot <= s.finalized + UpdateTimeout =>
                 r.finalized = s.finalized /\ r.best = s.best
            /\ slot > s.finalized + UpdateTimeout =>
                 /\ r.finalized = getActiveHeader(s.best) /\ r.best = Nil
                 /\ r.current = rotated(s, getActiveHeader(s.best))
<1>1. s.best \in LightClientUpdate
  BY Zenon DEF Store
<1>2. getActiveHeader(s.best) \in Nat
  BY Zenon, <1>1, ActiveType
<1>3. ~(u.bits >= normalUpdateThreshold)
  BY Zenon, ThresholdOutOfReach
<1>4. DEFINE a == applyLightClientUpdate(s, s.best)
<1>5. /\ a \in Store
      /\ a.optimistic = s.optimistic /\ a.next = s.next
      /\ a.current \in {s.current, s.next}
      /\ a.finalized = getActiveHeader(s.best)
      /\ a.current = rotated(s, getActiveHeader(s.best))
  BY Zenon, <1>2 DEF applyLightClientUpdate, Store, Header, rotated
<1>6. advanceFinalized(s, u, slot) =
        IF slot > s.finalized + UpdateTimeout
          THEN [a EXCEPT !.best = Nil] ELSE s
  BY Zenon, <1>3 DEF advanceFinalized
<1>7. UpdateTimeout \in Nat /\ s.finalized \in Nat
  BY Zenon, StoreAssumption DEF UpdateTimeout, Store, Header
<1> HIDE DEF a
<1>8. CASE slot > s.finalized + UpdateTimeout
  <2>1. advanceFinalized(s, u, slot) = [a EXCEPT !.best = Nil]
    BY Zenon, <1>6, <1>8
  <2>2. [a EXCEPT !.best = Nil] \in Store
    BY Zenon, <1>5 DEF Store
  <2>3. LET r == [a EXCEPT !.best = Nil]
        IN /\ r.optimistic = a.optimistic /\ r.next = a.next
           /\ r.current = a.current /\ r.finalized = a.finalized
           /\ r.best = Nil
    BY Zenon, <1>5 DEF Store
  <2>4. QED
    BY <1>5, <1>7, <1>8, <2>1, <2>2, <2>3
<1>9. CASE ~(slot > s.finalized + UpdateTimeout)
  <2>1. advanceFinalized(s, u, slot) = s
    BY Zenon, <1>6, <1>9
  <2>2. QED
    BY Zenon, <2>1, <1>7, <1>9
<1>10. QED
  BY Zenon, <1>8, <1>9

(* What processing an update does to a store, all stages together.         *)
LEMMA ProcessEffect ==
  ASSUME NEW s \in Store, NEW u \in LightClientUpdate, NEW slot \in Nat
  PROVE  LET r == processLightClientUpdate(s, u, slot)
             k == keepBestUpdate(s, u).best
         IN /\ r \in Store
            /\ r.next = s.next /\ r.current \in {s.current, s.next}
            /\ r.optimistic >= s.optimistic
            /\ 2 * u.bits > CommitteeSize => r.optimistic >= u.attested
            /\ k \in LightClientUpdate
            /\ slot <= s.finalized + UpdateTimeout =>
                 r.finalized = s.finalized /\ r.best = k
            /\ slot > s.finalized + UpdateTimeout =>
                 /\ r.finalized = getActiveHeader(k) /\ r.best = Nil
                 /\ r.current = rotated(s, getActiveHeader(k))
<1> DEFINE s1 == keepBestUpdate(s, u)
           s2 == raiseMaxParticipants(s1, u)
           s3 == advanceOptimistic(s2, u)
           r  == advanceFinalized(s3, u, slot)
<1>1. /\ s1 \in Store /\ s1.best # Nil
      /\ s1.finalized = s.finalized /\ s1.optimistic = s.optimistic
      /\ s1.current = s.current /\ s1.next = s.next
  BY Zenon, KeepBest
<1>2. s1.best \in LightClientUpdate
  BY Zenon, <1>1 DEF Store
<1>3. /\ s2 \in Store /\ s2.best = s1.best /\ s2.finalized = s1.finalized
      /\ s2.optimistic = s1.optimistic
      /\ s2.current = s1.current /\ s2.next = s1.next
  BY Zenon, <1>1, RaiseMax
<1>4. /\ s3 \in Store /\ s3.best = s2.best /\ s3.finalized = s2.finalized
      /\ s3.optimistic >= s2.optimistic
      /\ 2 * u.bits > CommitteeSize => s3.optimistic >= u.attested
      /\ s3.current = s2.current /\ s3.next = s2.next
  BY Zenon, <1>3, AdvanceOptimistic
<1>5. /\ r \in Store
      /\ r.optimistic = s3.optimistic /\ r.next = s3.next
      /\ r.current \in {s3.current, s3.next}
      /\ slot <= s3.finalized + UpdateTimeout =>
           r.finalized = s3.finalized /\ r.best = s3.best
      /\ slot > s3.finalized + UpdateTimeout =>
           /\ r.finalized = getActiveHeader(s3.best) /\ r.best = Nil
           /\ r.current = rotated(s3, getActiveHeader(s3.best))
  BY Zenon, <1>1, <1>3, <1>4, AdvanceFinalized
<1>6. processLightClientUpdate(s, u, slot) = r
  BY Zenon DEF processLightClientUpdate
<1> HIDE DEF s1, s2, s3, r
<1>7. keepBestUpdate(s, u) = s1
  BY Zenon DEF s1
<1>8. rotated(s3, getActiveHeader(s3.best)) = rotated(s, getActiveHeader(s1.best))
  BY Zenon, <1>1, <1>3, <1>4 DEF rotated
<1>9. QED
  BY Zenon, <1>1, <1>2, <1>3, <1>4, <1>5, <1>6, <1>7, <1>8

---------------------------------------------------------------------------
(* Lemmas about the full node *)

(* An update about the header at slot a, in range, is well formed and its  *)
(* active header is between FinalityLag and MinLag slots older.            *)
LEMMA ServedAtRange ==
  ASSUME NEW a \in Nat, a > FinalityLag, NEW u \in ServedAt(a)
  PROVE  /\ u \in LightClientUpdate
         /\ u.attested = a
         /\ u.bits >= MinBits
         /\ getActiveHeader(u) + MinLag <= a
         /\ getActiveHeader(u) + FinalityLag >= a
         /\ "nonfinal" \notin Faults => u.finality = getActiveHeader(u)
<1>1. /\ u.attested = a
      /\ u.finality = a - FinalityLag
           \/ ("nonfinal" \in Faults /\ u.finality = EmptyHeader)
      /\ u.bits \in MinBits .. CommitteeSize
      /\ u.merkle \in BOOLEAN
      /\ u.signer = Period(a)
  BY Zenon DEF ServedAt
<1>2. u = [attested |-> u.attested, finality |-> u.finality, bits |-> u.bits,
           merkle |-> u.merkle, signer |-> u.signer]
  BY Zenon DEF ServedAt
<1>3. Period(a) \in Nat
  BY Zenon, PeriodType
<1>4. u \in LightClientUpdate
  BY <1>1, <1>2, <1>3, SyncAssumption, StoreAssumption
  DEF LightClientUpdate, Header, Committee, EmptyHeader
<1>5. QED
  BY <1>1, <1>4, ActiveType, SyncAssumption DEF MinLag, EmptyHeader

(* The same for the answer to GetUpdates at the present clock.             *)
LEMMA ServedUpdatesRange ==
  ASSUME TypeOK, NEW u \in ServedUpdates
  PROVE  /\ u \in LightClientUpdate
         /\ u.bits >= MinBits
         /\ u.attested + StaleBy >= clock
         /\ getActiveHeader(u) + MinLag <= clock
         /\ getActiveHeader(u) + FinalityLag + StaleBy >= clock
<1>1. PICK a \in (clock - StaleBy) .. clock : u \in ServedAt(a)
  BY Zenon DEF ServedUpdates
<1>2. a \in Nat /\ a > FinalityLag
  BY <1>1, SyncAssumption DEF TypeOK
<1>3. MinLag \in Nat
  BY Zenon, SyncAssumption DEF MinLag
<1>4. /\ u \in LightClientUpdate
      /\ u.attested = a
      /\ u.bits >= MinBits
      /\ getActiveHeader(u) + MinLag <= a
      /\ getActiveHeader(u) + FinalityLag >= a
  BY Zenon, <1>1, <1>2, ServedAtRange
<1>5. getActiveHeader(u) \in Nat
  BY Zenon, <1>4, ActiveType
<1>6. QED
  BY <1>1, <1>2, <1>3, <1>4, <1>5, SyncAssumption DEF TypeOK

(* The same for the answer to GetSkipSyncUpdate, whatever the key.         *)
LEMMA ServedSkipSyncRange ==
  ASSUME TypeOK, NEW key, NEW u \in ServedSkipSync(key)
  PROVE  /\ u \in LightClientUpdate
         /\ getActiveHeader(u) \in Nat
         /\ getActiveHeader(u) + MinLag <= clock
         /\ u.finality + MinLag <= clock
<1>1. PICK a \in (FinalityLag + 1) .. clock : u \in ServedAt(a)
  BY Zenon DEF ServedSkipSync
<1>2. a \in Nat /\ a > FinalityLag
  BY <1>1, SyncAssumption DEF TypeOK
<1>3. MinLag \in Nat
  BY Zenon, SyncAssumption DEF MinLag
<1>4. /\ u \in LightClientUpdate
      /\ getActiveHeader(u) + MinLag <= a
  BY Zenon, <1>1, <1>2, ServedAtRange
<1>5. getActiveHeader(u) \in Nat /\ u.finality \in Nat
  BY Zenon, <1>4, ActiveType DEF LightClientUpdate, Header
<1>6. u.finality = EmptyHeader \/ u.finality = getActiveHeader(u)
  BY Zenon, <1>4, ActiveType
<1>7. "nonfinal" \notin Faults => u.finality = getActiveHeader(u)
  BY Zenon, <1>1, <1>2, ServedAtRange
<1>8. QED
  BY <1>1, <1>2, <1>3, <1>4, <1>5, <1>6, <1>7, SyncAssumption
  DEF TypeOK, EmptyHeader, MinLag

---------------------------------------------------------------------------
(* The inductive invariant *)

Inv == TypeOK /\ NextCommitteePinned /\ HeaderAges

(* initStore's store is well formed and as old as its update.              *)
LEMMA InitialStore ==
  ASSUME NEW u \in LightClientUpdate
  PROVE  /\ initialStore(u) \in Store
         /\ initialStore(u).finalized = u.finality
         /\ initialStore(u).best = u
         /\ initialStore(u).next = initialStore(u).current + 1
<1>1. getActiveHeader(u) \in Nat /\ Period(getActiveHeader(u)) \in Nat
  BY Zenon, ActiveType, PeriodType
<1>2. QED
  BY <1>1 DEF initialStore, Store, LightClientUpdate, Header, Committee

(* A skip-sync update replaces the finalized header and the committees.    *)
LEMMA SkipSyncStore ==
  ASSUME NEW s \in Store, NEW u \in LightClientUpdate
  PROVE  LET r == simpleProcessSkipSyncUpdate(s, u)
         IN /\ r \in Store
            /\ r.finalized = u.finality
            /\ r.best = s.best /\ r.optimistic = s.optimistic
            /\ r.next = r.current + 1
<1>1. getActiveHeader(u) \in Nat /\ Period(getActiveHeader(u)) \in Nat
  BY Zenon, ActiveType, PeriodType
<1> DEFINE p == Period(getActiveHeader(u))
           r == [s EXCEPT !.finalized = u.finality, !.current = p, !.next = p + 1]
<1>2. simpleProcessSkipSyncUpdate(s, u) = r
  BY Zenon DEF simpleProcessSkipSyncUpdate
<1>3. p \in Committee /\ p + 1 \in Committee /\ u.finality \in Header
  BY <1>1 DEF LightClientUpdate, Committee
<1> HIDE DEF p
<1>4. /\ r \in Store
      /\ r.finalized = u.finality
      /\ r.best = s.best /\ r.optimistic = s.optimistic
      /\ r.current = p /\ r.next = p + 1
  BY <1>3, Zenon DEF Store
<1>5. QED
  BY Zenon, <1>2, <1>4

(* The start of a slot touches only the participation maxima.              *)
LEMMA SlotStore ==
  ASSUME NEW s \in Store, NEW slot
  PROVE  LET r == processSlotForLightClientStore(s, slot)
         IN /\ r \in Store
            /\ r.finalized = s.finalized /\ r.optimistic = s.optimistic
            /\ r.best = s.best /\ r.current = s.current /\ r.next = s.next
<1> DEFINE t == [s EXCEPT !.prevMax = s.curMax, !.curMax = 0]
<1>1. /\ t \in Store
      /\ t.finalized = s.finalized /\ t.optimistic = s.optimistic
      /\ t.best = s.best /\ t.current = s.current /\ t.next = s.next
  <2>1. 0 \in 0 .. CommitteeSize
    BY StoreAssumption
  <2>2. QED
    BY <2>1, Zenon DEF Store
<1>2. processSlotForLightClientStore(s, slot) \in {s, t}
  BY Zenon DEF processSlotForLightClientStore
<1> HIDE DEF t
<1>3. QED
  BY Zenon, <1>1, <1>2

(* What a processed update does to a store whose header ages are right:    *)
(* the ages stay right, and the headers move as the properties say.        *)
LEMMA UpdateAges ==
  ASSUME Inv, pc = "fetch", NEW u \in ServedUpdates
  PROVE  LET r == processLightClientUpdate(store, u, currSlot)
         IN /\ r \in Store
            /\ r.next = store.next /\ r.current \in {store.current, store.next}
            /\ r.optimistic >= store.optimistic
            /\ 2 * MinBits > CommitteeSize => r.optimistic + StaleBy >= clock
            /\ r.finalized + MinLag <= clock
            /\ r.best # Nil =>
                 /\ getActiveHeader(r.best) + MinLag <= clock
                 /\ \/ getActiveHeader(r.best) = anchor
                    \/ getActiveHeader(r.best) + Jitter >= r.finalized
            /\ \/ r.finalized + Jitter >= store.finalized
               \/ r.finalized = anchor
            /\ (store.best = Nil /\ StaleBy + FinalityLag <= UpdateTimeout)
                 => currSlot <= r.finalized + UpdateTimeout
<1> DEFINE r == processLightClientUpdate(store, u, currSlot)
           k == keepBestUpdate(store, u).best
<1>1. /\ store \in Store /\ store # Nil
      /\ clock \in Nat
      /\ currSlot \in Nat /\ currSlot <= clock
      /\ MinLag \in Nat /\ Jitter \in Int /\ Jitter >= 0
      /\ StaleBy \in Nat /\ FinalityLag \in Nat
      /\ MinBits \in Nat /\ CommitteeSize \in Nat
      /\ UpdateTimeout \in Nat
  BY SyncAssumption, StoreAssumption
  DEF Inv, TypeOK, Running, currSlot, MinLag, Jitter, UpdateTimeout
<1>2. store.finalized \in Nat /\ store.optimistic \in Nat
  BY Zenon, <1>1 DEF Store, Header
<1>3. /\ u \in LightClientUpdate
      /\ u.bits >= MinBits
      /\ u.attested + StaleBy >= clock
      /\ getActiveHeader(u) + MinLag <= clock
      /\ getActiveHeader(u) + FinalityLag + StaleBy >= clock
  BY Zenon, ServedUpdatesRange DEF Inv
<1>4. u.bits \in Nat /\ u.attested \in Nat /\ getActiveHeader(u) \in Nat
  BY <1>1, <1>3, ActiveType DEF LightClientUpdate, Header
<1>5. /\ store.finalized + MinLag <= clock
      /\ store.best # Nil =>
           /\ getActiveHeader(store.best) + MinLag <= clock
           /\ \/ getActiveHeader(store.best) = anchor
              \/ getActiveHeader(store.best) + Jitter >= store.finalized
  BY Zenon, <1>1 DEF Inv, HeaderAges
<1>6. k \in {u, store.best} /\ (store.best = Nil => k = u) /\ k # Nil
  BY Zenon, <1>1, <1>3, KeepBest
<1>7. /\ r \in Store
      /\ r.next = store.next /\ r.current \in {store.current, store.next}
      /\ r.optimistic >= store.optimistic
      /\ 2 * u.bits > CommitteeSize => r.optimistic >= u.attested
      /\ k \in LightClientUpdate
      /\ currSlot <= store.finalized + UpdateTimeout =>
           r.finalized = store.finalized /\ r.best = k
      /\ currSlot > store.finalized + UpdateTimeout =>
           r.finalized = getActiveHeader(k) /\ r.best = Nil
  BY ZenonT(30), <1>1, <1>3, ProcessEffect
<1>8. r.finalized \in Nat /\ r.optimistic \in Nat /\ getActiveHeader(k) \in Nat
  BY Zenon, <1>7, ActiveType DEF Store, Header
<1>9. getActiveHeader(u) + Jitter >= store.finalized
  BY <1>1, <1>2, <1>3, <1>4, <1>5 DEF Jitter
<1>10. /\ getActiveHeader(k) + MinLag <= clock
       /\ \/ getActiveHeader(k) = anchor
          \/ getActiveHeader(k) + Jitter >= store.finalized
  BY Zenon, <1>3, <1>5, <1>6, <1>9
<1> HIDE DEF r, k
<1>11. 2 * MinBits > CommitteeSize => r.optimistic + StaleBy >= clock
  BY <1>1, <1>3, <1>4, <1>7, <1>8
<1>12. CASE currSlot <= store.finalized + UpdateTimeout
  BY <1>1, <1>2, <1>5, <1>7, <1>8, <1>10, <1>11, <1>12 DEF r
<1>13. CASE currSlot > store.finalized + UpdateTimeout
  <2>1. store.best = Nil => r.finalized = getActiveHeader(u)
    BY Zenon, <1>6, <1>7, <1>13
  <2>2. (store.best = Nil /\ StaleBy + FinalityLag <= UpdateTimeout)
          => currSlot <= r.finalized + UpdateTimeout
    BY <1>1, <1>3, <1>4, <2>1
  <2>3. QED
    BY Zenon, <1>1, <1>2, <1>7, <1>8, <1>10, <1>11, <1>13, <2>2 DEF r
<1>14. QED
  BY <1>1, <1>2, <1>12, <1>13

---------------------------------------------------------------------------
(* The invariant is preserved by every step *)

(* It holds when the process first starts.                                 *)
LEMMA InitInv == Init => Inv
<1> SUFFICES ASSUME Init PROVE Inv
  BY Zenon
<1>1. TypeOK
  <2>1. stopping \in BOOLEAN /\ store \in Store \cup {Nil}
    BY Zenon DEF Init
  <2>2. QED
    BY <2>1, SyncAssumption DEF Init, TypeOK, Running, Ended, Committee, Header
<1>2. NextCommitteePinned
  BY Zenon DEF Init, NextCommitteePinned
<1>3. HeaderAges
  BY Zenon DEF Init, HeaderAges
<1>4. QED
  BY Zenon, <1>1, <1>2, <1>3 DEF Inv

(* A panic, whatever its cause, leaves all but the control state alone.    *)
LEMMA PanicInv ==
  ASSUME Inv, Panic
  PROVE  Inv'
<1>1. TypeOK'
  BY Zenon DEF Inv, Panic, TypeOK, Running, Ended
<1>2. NextCommitteePinned'
  BY Zenon DEF Panic, NextCommitteePinned
<1>3. HeaderAges'
  BY Zenon DEF Inv, Panic, HeaderAges
<1>4. QED
  BY Zenon, <1>1, <1>2, <1>3 DEF Inv

(* initStore sets the store up from an update it also keeps as the best.   *)
LEMMA InitStoreInv ==
  ASSUME Inv, initStore
  PROVE  Inv'
<1>1. PICK u \in ServedSkipSync(TrustedCommittee) :
        store' = initialStore(u) /\ anchor' = getActiveHeader(u)
  BY Zenon DEF initStore
<1>2. /\ u \in LightClientUpdate
      /\ getActiveHeader(u) \in Nat
      /\ getActiveHeader(u) + MinLag <= clock
      /\ u.finality + MinLag <= clock
  BY Zenon, ServedSkipSyncRange DEF Inv
<1>3. /\ store' \in Store
      /\ store'.finalized = u.finality
      /\ store'.best = u
      /\ store'.next = store'.current + 1
  BY Zenon, <1>1, <1>2, InitialStore
<1>4. store' # Nil /\ u # Nil
  BY Zenon, <1>2, <1>3, StoreAssumption
<1>5. TypeOK'
  BY Zenon, <1>1, <1>2, <1>3, <1>4 DEF Inv, TypeOK, initStore, Running, Header
<1>6. NextCommitteePinned'
  BY Zenon DEF initStore, NextCommitteePinned
<1>7. HeaderAges'
  BY Zenon, <1>1, <1>2, <1>3, <1>4 DEF initStore, HeaderAges
<1>8. QED
  BY Zenon, <1>5, <1>6, <1>7 DEF Inv

(* skipSync's first call only chooses the committee to reach.              *)
LEMMA SkipSyncStartInv ==
  ASSUME Inv, skipSyncStart
  PROVE  Inv'
<1>1. PICK u \in ServedUpdates : expected' = Period(getActiveHeader(u)) + 1
  BY Zenon DEF skipSyncStart
<1>2. u \in LightClientUpdate
  BY Zenon, ServedUpdatesRange DEF Inv
<1>3. expected' \in Nat
  BY <1>1, <1>2, ActiveType, PeriodType
<1>4. TypeOK'
  BY Zenon, <1>3 DEF Inv, TypeOK, skipSyncStart, Running, Committee
<1>5. NextCommitteePinned'
  BY Zenon DEF skipSyncStart, NextCommitteePinned
<1>6. HeaderAges'
  BY Zenon DEF Inv, skipSyncStart, HeaderAges
<1>7. QED
  BY Zenon, <1>4, <1>5, <1>6 DEF Inv

(* When skipSync ends, the committees are those of successive periods and  *)
(* the next one is the expected one.                                       *)
LEMMA SkipSyncDoneInv ==
  ASSUME Inv, skipSyncDone
  PROVE  Inv'
<1>1. store \in Store
  BY Zenon DEF Inv, TypeOK, Running, skipSyncDone
<1>2. TypeOK'
  BY DEF Inv, TypeOK, skipSyncDone, Running
<1>3. NextCommitteePinned'
  BY <1>1 DEF Inv, skipSyncDone, NextCommitteePinned, HeaderAges, Store, Committee
<1>4. HeaderAges'
  BY Zenon DEF Inv, skipSyncDone, HeaderAges
<1>5. QED
  BY Zenon, <1>2, <1>3, <1>4 DEF Inv

(* A turn of skipSync replaces header and committees and keeps the best    *)
(* update, which is still initStore's.                                     *)
LEMMA SkipSyncTurnInv ==
  ASSUME Inv, skipSyncTurn
  PROVE  Inv'
<1>1. PICK u \in ServedSkipSync(store.next) :
        store' = simpleProcessSkipSyncUpdate(store, u)
  BY Zenon DEF skipSyncTurn
<1>2. store \in Store
  BY Zenon DEF Inv, TypeOK, Running, skipSyncTurn
<1>3. u \in LightClientUpdate /\ u.finality + MinLag <= clock
  BY Zenon, ServedSkipSyncRange DEF Inv
<1>4. /\ store' \in Store
      /\ store'.finalized = u.finality
      /\ store'.best = store.best
      /\ store'.next = store'.current + 1
  BY Zenon, <1>1, <1>2, <1>3, SkipSyncStore
<1>5. store' # Nil
  BY Zenon, <1>4, StoreAssumption
<1>6. TypeOK'
  BY Zenon, <1>4, <1>5 DEF Inv, TypeOK, skipSyncTurn, Running
<1>7. NextCommitteePinned'
  BY Zenon DEF skipSyncTurn, NextCommitteePinned
<1>8. store # Nil
  BY Zenon, <1>2, StoreAssumption
<1>9. HeaderAges'
  BY Zenon, <1>3, <1>4, <1>5, <1>8 DEF Inv, skipSyncTurn, HeaderAges
<1>10. QED
  BY Zenon, <1>6, <1>7, <1>9 DEF Inv

(* A tick moves the participation maxima only.                             *)
LEMMA SyncTickInv ==
  ASSUME Inv, syncTick
  PROVE  Inv'
<1>1. store \in Store /\ store # Nil
  BY Zenon, StoreAssumption DEF Inv, TypeOK, Running, syncTick
<1>2. /\ store' \in Store
      /\ store'.finalized = store.finalized /\ store'.best = store.best
      /\ store'.current = store.current /\ store'.next = store.next
  BY Zenon, <1>1, SlotStore DEF syncTick
<1>3. store' # Nil
  BY Zenon, <1>2, StoreAssumption
<1>4. TypeOK'
  BY <1>2, <1>3 DEF Inv, TypeOK, syncTick, Running
<1>5. NextCommitteePinned'
  BY Zenon, <1>2 DEF Inv, syncTick, NextCommitteePinned
<1>6. HeaderAges'
  BY Zenon, <1>1, <1>2, <1>3 DEF Inv, syncTick, HeaderAges
<1>7. QED
  BY Zenon, <1>4, <1>5, <1>6 DEF Inv

(* A processed update, saved or not, keeps the ages right.                 *)
LEMMA ProcessedInv ==
  ASSUME Inv, pc = "fetch", pc' \in {"sync", "panicked"},
         NEW u \in ServedUpdates,
         store' = processLightClientUpdate(store, u, currSlot),
         UNCHANGED <<clock, expected, nextTick, stopping, restarts, anchor>>
  PROVE  Inv'
<1>1. store \in Store
  BY Zenon DEF Inv, TypeOK, Running
<1>2. /\ store' \in Store
      /\ store'.next = store.next
      /\ store'.current \in {store.current, store.next}
      /\ store'.finalized + MinLag <= clock
      /\ store'.best # Nil =>
           /\ getActiveHeader(store'.best) + MinLag <= clock
           /\ \/ getActiveHeader(store'.best) = anchor
              \/ getActiveHeader(store'.best) + Jitter >= store'.finalized
  BY Zenon, UpdateAges
<1>3. store' # Nil
  BY Zenon, <1>2, StoreAssumption
<1>4. TypeOK'
  BY Zenon, <1>2, <1>3 DEF Inv, TypeOK, Running, Ended
<1>5. NextCommitteePinned'
  BY Zenon, <1>2 DEF Inv, NextCommitteePinned
<1>6. HeaderAges'
  BY Zenon, <1>2 DEF HeaderAges
<1>7. QED
  BY Zenon, <1>4, <1>5, <1>6 DEF Inv

(* The steps that touch neither the store nor what it is compared with.    *)
LEMMA ControlInv ==
  ASSUME Inv, syncReturn \/ Close \/ Exit
  PROVE  Inv'
<1>1. TypeOK'
  BY Zenon DEF Inv, TypeOK, Running, Ended, syncReturn, Close, Exit
<1>2. NextCommitteePinned'
  BY Zenon DEF Inv, NextCommitteePinned, syncReturn, Close, Exit
<1>3. HeaderAges'
  BY Zenon DEF Inv, HeaderAges, syncReturn, Close, Exit
<1>4. QED
  BY Zenon, <1>1, <1>2, <1>3 DEF Inv

(* A restart forgets the store.                                            *)
LEMMA RestartInv ==
  ASSUME Inv, Restart
  PROVE  Inv'
<1>1. TypeOK'
  <2>1. stopping' \in BOOLEAN /\ store' \in Store \cup {Nil}
    BY Zenon DEF Restart
  <2>2. QED
    BY <2>1, SyncAssumption DEF Inv, TypeOK, Running, Ended, Restart, Committee, Header
<1>2. NextCommitteePinned'
  BY Zenon DEF Restart, NextCommitteePinned
<1>3. HeaderAges'
  BY Zenon DEF Restart, HeaderAges
<1>4. QED
  BY Zenon, <1>1, <1>2, <1>3 DEF Inv

(* The headers only get older as time passes.                              *)
LEMMA ClockInv ==
  ASSUME Inv, advanceClock
  PROVE  Inv'
<1>1. TypeOK'
  BY SyncAssumption DEF Inv, TypeOK, advanceClock
<1>2. NextCommitteePinned'
  BY Zenon DEF Inv, NextCommitteePinned, advanceClock
<1>3. HeaderAges'
  <2>1. MinLag \in Nat /\ clock \in Nat /\ clock' = clock + 1
    BY Zenon, SyncAssumption DEF MinLag, advanceClock, Inv, TypeOK
  <2>2. store # Nil => store.finalized \in Nat
    BY Zenon DEF Inv, TypeOK, Store, Header
  <2>3. store # Nil /\ store.best # Nil => getActiveHeader(store.best) \in Nat
    BY Zenon, ActiveType DEF Inv, TypeOK, Store
  <2>4. UNCHANGED <<pc, store, anchor>>
    BY Zenon DEF advanceClock
  <2>5. QED
    BY <2>1, <2>2, <2>3, <2>4 DEF Inv, HeaderAges
<1>4. QED
  BY Zenon, <1>1, <1>2, <1>3 DEF Inv

(* Stuttering changes nothing.                                             *)
LEMMA StutterInv ==
  ASSUME Inv, UNCHANGED vars
  PROVE  Inv'
BY Zenon DEF Inv, TypeOK, NextCommitteePinned, HeaderAges, vars

(* One step of the process, of its environment, or a stutter.              *)
LEMMA NextInv == Inv /\ [Next]_vars => Inv'
<1> SUFFICES ASSUME Inv, [Next]_vars PROVE Inv'
  BY Zenon
<1>1. CASE initStore
  BY Zenon, <1>1, InitStoreInv
<1>2. CASE skipSyncStart
  BY Zenon, <1>2, SkipSyncStartInv
<1>3. CASE skipSyncDone
  BY Zenon, <1>3, SkipSyncDoneInv
<1>4. CASE skipSyncTurn
  BY Zenon, <1>4, SkipSyncTurnInv
<1>5. CASE syncTick
  BY Zenon, <1>5, SyncTickInv
<1>6. CASE syncUpdate
  BY Zenon, <1>6, ProcessedInv DEF syncUpdate
<1>7. CASE saveSnapshotFails
  BY Zenon, <1>7, ProcessedInv DEF saveSnapshotFails
<1>8. CASE initStoreFails \/ skipSyncStartFails \/ skipSyncTurnFails
             \/ syncUpdateFails \/ rpcBeforeInit
  <2>1. Panic
    BY Zenon, <1>8 DEF initStoreFails, skipSyncStartFails, skipSyncTurnFails,
                syncUpdateFails, rpcBeforeInit
  <2>2. QED
    BY Zenon, <2>1, PanicInv
<1>9. CASE syncReturn \/ Close \/ Exit
  BY Zenon, <1>9, ControlInv
<1>10. CASE Restart
  BY Zenon, <1>10, RestartInv
<1>11. CASE advanceClock
  BY Zenon, <1>11, ClockInv
<1>12. CASE UNCHANGED vars
  BY Zenon, <1>12, StutterInv
<1>13. QED
  BY Zenon, <1>1, <1>2, <1>3, <1>4, <1>5, <1>6, <1>7, <1>8, <1>9, <1>10, <1>11, <1>12
  DEF Next

---------------------------------------------------------------------------
(* The theorems *)

(* The state is always well typed; in particular the service never runs    *)
(* skipSync or sync() on a nil store.                                      *)
THEOREM TypeCorrect == Spec => []TypeOK
<1>1. Inv => TypeOK
  BY Zenon DEF Inv
<1>2. QED
  BY <1>1, InitInv, NextInv, PTL DEF Spec

(* While sync() runs the next committee is the one skipSync reached and    *)
(* the current one is at most one period behind it.                        *)
THEOREM CommitteesPinned == Spec => []NextCommitteePinned
<1>1. Inv => NextCommitteePinned
  BY Zenon DEF Inv
<1>2. QED
  BY <1>1, InitInv, NextInv, PTL DEF Spec

(* The bounds on the ages of the headers hold of every reachable store.    *)
THEOREM AgesBounded == Spec => []HeaderAges
<1>1. Inv => HeaderAges
  BY Zenon DEF Inv
<1>2. QED
  BY <1>1, InitInv, NextInv, PTL DEF Spec

(* A step from waiting for an update to waiting for a slot is the one that *)
(* processes an update.                                                    *)
LEMMA OnlySyncUpdate ==
  ASSUME Next, pc = "fetch", pc' = "sync"
  PROVE  syncUpdate
BY Zenon DEF Next, initStore, skipSyncStart, skipSyncDone, skipSyncTurn, syncTick,
     saveSnapshotFails, initStoreFails, skipSyncStartFails, skipSyncTurnFails,
     syncUpdateFails, rpcBeforeInit, Panic, syncReturn, Close, Exit, Restart,
     advanceClock

(* sync() moves the finalized header back by more than the full node's     *)
(* jitter only to the header initStore began with.                         *)
THEOREM RegressionBounded == Spec => RegressionIsToAnchor
<1>1. ASSUME Inv, syncUpdate
      PROVE  \/ store'.finalized + Jitter >= store.finalized
             \/ store'.finalized = anchor
  BY Zenon, <1>1, UpdateAges DEF syncUpdate
<1>2. Inv /\ [Next]_vars =>
        [pc = "fetch" /\ pc' = "sync" =>
           \/ store'.finalized + Jitter >= store.finalized
           \/ store'.finalized = anchor]_vars
  BY Zenon, <1>1, OnlySyncUpdate
<1>3. QED
  BY <1>2, InitInv, NextInv, PTL DEF Spec, RegressionIsToAnchor

(* A tick that starts without a best update ends with a finalized header   *)
(* no older than the timeout.                                              *)
THEOREM StalenessHeals == Spec => StaleFinalityHeals
<1> DEFINE P == (/\ pc = "fetch" /\ pc' = "sync"
                 /\ store.best = Nil
                 /\ StaleBy + FinalityLag <= UpdateTimeout)
                => currSlot <= store'.finalized + UpdateTimeout
<1>1. ASSUME Inv, syncUpdate
      PROVE  P
  BY Zenon, <1>1, UpdateAges DEF syncUpdate
<1>2. Inv /\ [Next]_vars => [P]_vars
  BY Zenon, <1>1, OnlySyncUpdate
<1>3. QED
  BY <1>2, InitInv, NextInv, PTL DEF Spec, StaleFinalityHeals

(* Under a participation of more than half, Head is not behind             *)
(* FinalizedHead once an update has been processed.                        *)
THEOREM HeadCatchesUp == Spec => HeadNotBehindFinalized
<1> DEFINE P == (/\ pc = "fetch" /\ pc' = "sync"
                 /\ 2 * MinBits > CommitteeSize
                 /\ StaleBy <= MinLag)
                => store'.optimistic >= store'.finalized
<1>1. ASSUME Inv, syncUpdate
      PROVE  P
  <2>1. /\ store' \in Store
        /\ 2 * MinBits > CommitteeSize => store'.optimistic + StaleBy >= clock
        /\ store'.finalized + MinLag <= clock
    BY Zenon, <1>1, UpdateAges DEF syncUpdate
  <2>2. /\ store'.optimistic \in Nat /\ store'.finalized \in Nat
        /\ StaleBy \in Nat /\ MinLag \in Nat /\ clock \in Nat
    BY Zenon, <1>1, <2>1, SyncAssumption DEF Store, Header, MinLag, Inv, TypeOK
  <2>3. QED
    BY <2>1, <2>2
<1>2. Inv /\ [Next]_vars => [P]_vars
  BY Zenon, <1>1, OnlySyncUpdate
<1>3. QED
  BY <1>2, InitInv, NextInv, PTL DEF Spec, HeadNotBehindFinalized

(* If the update whose header becomes the finalized one passes             *)
(* validateLightClientUpdate, whose verdict processLightClientUpdate       *)
(* drops, the finalized header advances, and the current committee is then *)
(* the one that signed the update.                                         *)
THEOREM ValidUpdatesAreSafe == Spec => ValidUpdateIsSafe
<1> DEFINE P == (/\ pc = "fetch" /\ pc' = "sync"
                 /\ store'.finalized # store.finalized)
                => \A u \in ServedUpdates \cup ({store.best} \ {Nil}) :
                     /\ getActiveHeader(u) = store'.finalized
                     /\ validateLightClientUpdate(store, u, currSlot)
                     => store'.finalized > store.finalized /\ store'.current = u.signer
<1>1. ASSUME Inv, syncUpdate
      PROVE  P
  <2> SUFFICES ASSUME store'.finalized # store.finalized,
                      NEW u, getActiveHeader(u) = store'.finalized,
                      validateLightClientUpdate(store, u, currSlot)
               PROVE  store'.finalized > store.finalized /\ store'.current = u.signer
    BY Zenon
  <2>1. store \in Store /\ store.finalized \in Nat /\ currSlot \in Nat
    <3>1. store \in Store /\ nextTick \in Nat /\ nextTick >= 1
      BY Zenon, <1>1 DEF Inv, TypeOK, syncUpdate, Running
    <3> QED
      BY <3>1 DEF currSlot, Store, Header
  <2>2. PICK v \in ServedUpdates : store' = processLightClientUpdate(store, v, currSlot)
    BY Zenon, <1>1 DEF syncUpdate
  <2>3. v \in LightClientUpdate
    BY Zenon, <1>1, ServedUpdatesRange DEF Inv
  <2>4. UpdateTimeout \in Nat
    BY Zenon, StoreAssumption DEF UpdateTimeout
  <2>5. ~(currSlot <= store.finalized + UpdateTimeout)
    BY Zenon, <2>1, <2>2, <2>3, ProcessEffect
  <2>6. currSlot > store.finalized + UpdateTimeout
    BY <2>1, <2>4, <2>5
  <2>7. store' \in Store /\ store'.current = rotated(store, store'.finalized)
    <3> DEFINE k == keepBestUpdate(store, v).best
    <3>1. /\ store' \in Store /\ store'.finalized = getActiveHeader(k)
          /\ store'.current = rotated(store, getActiveHeader(k))
      BY Zenon, <2>1, <2>2, <2>3, <2>6, ProcessEffect
    <3> QED
      BY Zenon, <3>1
  <2>8. store'.finalized \in Nat
    BY Zenon, <2>7 DEF Store, Header
  <2>9. store'.finalized >= store.finalized /\ u.signer = rotated(store, store'.finalized)
    BY Zenon DEF validateLightClientUpdate, verifySign, rotated
  <2> QED
    BY <2>1, <2>7, <2>8, <2>9
<1>2. Inv /\ [Next]_vars => [P]_vars
  BY Zenon, <1>1, OnlySyncUpdate
<1>3. QED
  BY <1>2, InitInv, NextInv, PTL DEF Spec, ValidUpdateIsSafe

(* Head never goes back while the process lives.                           *)
THEOREM HeadMonotone == Spec => HeadNeverMovesBack
<1> DEFINE P == store # Nil /\ store' # Nil => store'.optimistic >= store.optimistic
<1>1. ASSUME Inv, Next, store # Nil, store' # Nil
      PROVE  store'.optimistic >= store.optimistic
  <2>1. store \in Store /\ store.optimistic \in Nat
    BY Zenon, <1>1 DEF Inv, TypeOK, Store, Header
  <2>2. CASE syncUpdate \/ saveSnapshotFails
    BY Zenon, <1>1, <2>2, UpdateAges DEF syncUpdate, saveSnapshotFails
  <2>3. CASE skipSyncTurn
    <3>1. PICK u \in ServedSkipSync(store.next) :
            store' = simpleProcessSkipSyncUpdate(store, u)
      BY Zenon, <2>3 DEF skipSyncTurn
    <3>2. u \in LightClientUpdate
      BY Zenon, <1>1, ServedSkipSyncRange DEF Inv
    <3>3. QED
      BY <2>1, <3>1, <3>2, SkipSyncStore
  <2>4. CASE syncTick
    BY <2>1, <2>4, SlotStore DEF syncTick
  <2>5. CASE initStore
    BY Zenon, <1>1, <2>5 DEF initStore, Inv, TypeOK, Running
  <2>6. CASE Restart
    BY Zenon, <1>1, <2>6 DEF Restart
  <2>7. CASE \/ initStoreFails \/ skipSyncStart \/ skipSyncStartFails
             \/ skipSyncDone \/ skipSyncTurnFails \/ syncUpdateFails
             \/ syncReturn \/ rpcBeforeInit \/ Close \/ Exit \/ advanceClock
    <3>1. store' = store
      BY Zenon, <2>7 DEF initStoreFails, skipSyncStart, skipSyncStartFails, skipSyncDone,
         skipSyncTurnFails, syncUpdateFails, syncReturn, rpcBeforeInit, Close,
         Exit, advanceClock, Panic
    <3>2. QED
      BY <2>1, <3>1
  <2>8. QED
    BY Zenon, <1>1, <2>2, <2>3, <2>4, <2>5, <2>6, <2>7 DEF Next
<1>2. Inv /\ [Next]_vars => [P]_vars
  BY Zenon, <1>1
<1>3. QED
  BY <1>2, InitInv, NextInv, PTL DEF Spec, HeadNeverMovesBack
===========================================================================
