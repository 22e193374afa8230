--------------------------- MODULE LookupProofs ---------------------------
(***************************************************************************)
(* Safety of the iterative search and its iterator, for any nodes, any     *)
(* answers, any alpha and bucketSize and any number of searches.           *)
(***************************************************************************)
EXTENDS Lookup, FiniteSetTheorems, WellFoundedInduction, TLAPS

(* Who runs when: advance works on a search, Next has an empty buffer then,*)
(* and shutdown only follows the end of the context.                       *)
ControlInv ==
  /\ pc \in {"start", "select", "reading", "shutdown"} => lookup
  /\ pc # "idle" => buffer = {}
  /\ pc \in {"select", "reading"} => queries >= 1
  /\ pc = "shutdown" => queries >= 0 /\ cancelled
  /\ lookup => Self \in asked
  /\ lookup /\ ~queryfunc => cancelled

(* The query goroutines are for different nodes, all of them asked.        *)
QueryInv ==
  /\ IsFiniteSet(spawned) /\ IsFiniteSet(calling)
  /\ spawned \cap calling = {}
  /\ spawned \cup calling \subseteq asked
  /\ queries = -1 => spawned = {} /\ calling = {} /\ replyCh = <<>>
  /\ QueriesAccounted

ResultInv ==
  /\ Len(result) <= bucketSize
  /\ ResultIsClosest
  /\ SearchIsComplete

DeliveryInv ==
  /\ handedOut
  /\ pc = "reading" => replyBuffer \cap delivered = {}

Inv == TypeOK /\ ControlInv /\ QueryInv /\ ResultInv /\ DeliveryInv

---------------------------------------------------------------------------
(* Counting *)

(* A set of numbers that is not empty has a least element.                 *)
LEMMA LeastElement ==
  ASSUME NEW S, S \subseteq Nat, S # {}
  PROVE  \E x \in S : \A y \in S : x <= y
<1>1. PICK x \in S : \A y \in S : ~(<<y, x>> \in OpToRel(<, Nat))
  BY Zenon, NatLessThanWellFounded, WFMin
<1>2. ASSUME NEW y \in S, y < x PROVE FALSE
  BY Zenon, <1>1, <1>2, <<y, x>> \in OpToRel(<, Nat) DEF OpToRel
<1> QED
  BY <1>2, SMT

(* And a greatest one, if it is bounded.                                   *)
LEMMA GreatestElement ==
  ASSUME NEW n \in Nat, NEW S, S \subseteq 1 .. n, S # {}
  PROVE  \E x \in S : \A y \in S : y <= x
<1> DEFINE D == {n - i : i \in S}
<1>1. D \subseteq Nat /\ D # {}
  <2>1. \A i \in S : n - i \in Nat
    BY SMTT(30)
  <2> QED
    BY Zenon, <2>1
<1>2. PICK d \in D : \A e \in D : d <= e
  BY <1>1, LeastElement, Zenon
<1>3. PICK x \in S : d = n - x
  BY Zenon, <1>2
<1>4. ASSUME NEW y \in S PROVE y <= x
  <2>1. n - y \in D
    BY Zenon
  <2> QED
    BY <2>1, <1>2, <1>3
<1> QED
  BY Zenon, <1>4

(* A set of numbers up to n is finite.                                     *)
LEMMA BoundedSet ==
  ASSUME NEW n \in Nat, NEW S, S \subseteq 1 .. n
  PROVE  IsFiniteSet(S) /\ Cardinality(S) \in Nat
<1>1. 1 \in Int /\ n \in Int
  OBVIOUS
<1>2. IsFiniteSet(1 .. n)
  BY Zenon, <1>1, FS_Interval
<1>3. S \in SUBSET (1 .. n)
  BY Zenon
<1>4. IsFiniteSet(S)
  BY Zenon, <1>2, <1>3, FS_Subset
<1> QED
  BY Zenon, <1>4, FS_CardinalityType

(* If fewer than k elements come before each element of T, it has at most  *)
(* k of them.                                                              *)
LEMMA FirstFew ==
  ASSUME NEW n \in Nat, NEW k \in Nat, NEW T, T \subseteq 1 .. n, NEW before,
         \A i \in T : before[i] \subseteq 1 .. n /\ Cardinality(before[i]) < k,
         \A i, j \in T : j < i => j \in before[i]
  PROVE  IsFiniteSet(T) /\ Cardinality(T) \in 0 .. k
<1>1. IsFiniteSet(T) /\ Cardinality(T) \in Nat
  BY Zenon, BoundedSet
<1>2. CASE T = {}
  <2>1. Cardinality(T) = 0
    BY Zenon, <1>2, FS_EmptySet
  <2> QED
    BY <1>1, <2>1
<1>3. CASE T # {}
  <2>1. PICK m \in T : \A y \in T : y <= m
    BY Zenon, <1>3, GreatestElement
  <2>2. T \ {m} \in SUBSET before[m]
    BY <2>1
  <2>3. IsFiniteSet(before[m]) /\ Cardinality(before[m]) \in Nat
    BY Zenon, BoundedSet
  <2>4. Cardinality(T \ {m}) <= Cardinality(before[m])
    BY Zenon, <2>2, <2>3, FS_Subset
  <2>5. Cardinality(T \ {m}) = Cardinality(T) - 1
    BY Zenon, <1>1, <2>1, FS_RemoveElement
  <2> QED
    BY <1>1, <2>3, <2>4, <2>5
<1> QED
  BY Zenon, <1>2, <1>3

(* A set that holds, with each of its numbers, all before it is counted by *)
(* its greatest.                                                           *)
LEMMA InitialSegment ==
  ASSUME NEW n \in Nat, NEW S, S \subseteq 1 .. n,
         \A i \in S : \A j \in 1 .. i : j \in S
  PROVE  Cardinality(S) \in 0 .. n /\ S = 1 .. Cardinality(S)
<1>1. CASE S = {}
  BY <1>1, FS_EmptySet
<1>2. CASE S # {}
  <2>1. PICK m \in S : \A y \in S : y <= m
    BY Zenon, <1>2, GreatestElement
  <2>2. m \in 1 .. n /\ S \subseteq 1 .. m /\ 1 .. m \subseteq S
    BY <2>1
  <2>3. Cardinality(1 .. m) = m
    BY <2>2, FS_Interval
  <2>4. S = 1 .. m
    BY Zenon, <2>2
  <2> QED
    BY <2>2, <2>3, <2>4
<1> QED
  BY Zenon, <1>1, <1>2

---------------------------------------------------------------------------
(* startQueries *)

(* startQueries asks nodes that have not been asked, no more than alpha    *)
(* leaves room for.                                                        *)
LEMMA ToAskFits ==
  ASSUME TypeOK, queries >= 0
  PROVE  /\ IsFiniteSet(toAsk) /\ Cardinality(toAsk) \in 0 .. alpha - queries
         /\ toAsk \subseteq Node \cup {Self}
         /\ toAsk \cap asked = {}
<1> PICK k : k = alpha - queries
  BY Zenon
<1> PICK before : before = [i \in 1 .. Len(result) |->
                              {j \in 1 .. i - 1 : result[j] \notin asked}]
  BY Zenon
<1> PICK T : T = {i \in 1 .. Len(result) : result[i] \notin asked /\ Cardinality(before[i]) < k}
  BY Zenon
<1>1. Len(result) \in Nat /\ T \subseteq 1 .. Len(result) /\ k \in Nat
  BY LookupAssumption DEF TypeOK
<1>2. IsFiniteSet(T) /\ Cardinality(T) \in 0 .. k
  <2>1. \A i \in T : before[i] \subseteq 1 .. Len(result) /\ Cardinality(before[i]) < k
    BY <1>1
  <2>2. \A i, j \in T : j < i => j \in before[i]
    BY <1>1
  <2> QED
    BY Zenon, <1>1, <2>1, <2>2, FirstFew
<1>3. \A i \in 1 .. Len(result) : before[i] = {j \in 1 .. i - 1 : result[j] \notin asked}
  BY Zenon
<1>4. toAsk = {result[i] : i \in T}
  BY Zenon, <1>3 DEF toAsk
<1>5. [i \in T |-> result[i]] \in Surjection(T, toAsk)
  BY Zenon, <1>4 DEF Surjection
<1>6. IsFiniteSet(toAsk) /\ Cardinality(toAsk) <= Cardinality(T)
  BY Zenon, <1>2, <1>5, FS_Surjection
<1>7. Cardinality(toAsk) \in Nat
  BY Zenon, <1>6, FS_CardinalityType
<1>8. toAsk \subseteq Node \cup {Self}
  <2>1. \A i \in T : result[i] \in Node \cup {Self}
    BY <1>1 DEF TypeOK
  <2> QED
    BY Zenon, <1>4, <2>1
<1>9. toAsk \cap asked = {}
  BY Zenon, <1>4
<1> QED
  BY <1>1, <1>2, <1>6, <1>7, <1>8, <1>9

(* If it asks nobody although no query runs, all have been asked.          *)
LEMMA NobodyToAsk ==
  ASSUME TypeOK, queries = 0, toAsk = {}
  PROVE  \A i \in 1 .. Len(result) : result[i] \in asked
<1> SUFFICES ASSUME NEW k \in 1 .. Len(result), result[k] \notin asked PROVE FALSE
  BY Zenon
<1> PICK S : S = {i \in 1 .. Len(result) : result[i] \notin asked}
  BY Zenon
<1>1. S \subseteq Nat /\ S # {}
  OBVIOUS
<1>2. PICK x \in S : \A y \in S : x <= y
  BY Zenon, <1>1, LeastElement
<1>3. {j \in 1 .. x - 1 : result[j] \notin asked} = {}
  BY <1>2 DEF TypeOK
<1>4. Cardinality({j \in 1 .. x - 1 : result[j] \notin asked}) = 0
  BY Zenon, <1>3, FS_EmptySet
<1>5. 0 < alpha - queries
  BY LookupAssumption
<1>6. result[x] \in toAsk
  BY Zenon, <1>2, <1>4, <1>5 DEF toAsk
<1> QED
  BY Zenon, <1>6

---------------------------------------------------------------------------
(* push *)

(* The nodes a search can meet.                                            *)
Id == Node \cup {Self}

Sorted(list) == \A i, j \in 1 .. Len(list) : i < j => list[i] < list[j]

In(n, list) == \E i \in 1 .. Len(list) : list[i] = n

(* In a sorted list that n is not in, n belongs after the first ix.        *)
LEMMA CloserIsPlace ==
  ASSUME NEW list, NEW n \in Nat, Len(list) \in Nat,
         \A i \in 1 .. Len(list) : list[i] \in Nat,
         Sorted(list), ~In(n, list)
  PROVE  /\ closer(list, n) \in 0 .. Len(list)
         /\ \A i \in 1 .. Len(list) : i <= closer(list, n) <=> list[i] < n
<1> PICK S : S = {i \in 1 .. Len(list) : list[i] <= n}
  BY Zenon
<1>1. closer(list, n) = Cardinality(S)
  BY Zenon DEF closer
<1>2. \A i \in S : \A j \in 1 .. i : j \in S
  <2> SUFFICES ASSUME NEW i \in S, NEW j \in 1 .. i PROVE j \in S
    BY Zenon
  <2>1. i \in 1 .. Len(list) /\ list[i] <= n
    BY Zenon
  <2>2. j \in 1 .. Len(list) /\ (j = i \/ j < i)
    BY <2>1
  <2>3. list[i] \in Nat /\ list[j] \in Nat
    BY Zenon, <2>1, <2>2
  <2>4. list[j] <= list[i]
    BY <2>1, <2>2, <2>3 DEF Sorted
  <2> QED
    BY <2>1, <2>2, <2>3, <2>4
<1>3. Cardinality(S) \in 0 .. Len(list) /\ S = 1 .. Cardinality(S)
  <2>1. Len(list) \in Nat /\ S \subseteq 1 .. Len(list)
    BY Zenon
  <2> QED
    BY Zenon, <1>2, <2>1, InitialSegment
<1>4. ASSUME NEW i \in 1 .. Len(list)
      PROVE  i <= Cardinality(S) <=> list[i] < n
  <2>1. i \in S <=> i <= Cardinality(S)
    BY <1>3
  <2>2. list[i] \in Nat /\ list[i] # n
    BY Zenon DEF In
  <2> QED
    BY <2>1, <2>2
<1> QED
  BY Zenon, <1>1, <1>3, <1>4

(* push keeps the list sorted and within max, drops at most one element,   *)
(* from a full list, farther than all that stay, and makes no entry of a   *)
(* full list worse.                                                        *)
LEMMA PushKeepsClosest ==
  ASSUME result \in Seq(Id), Sorted(result), Len(result) <= bucketSize,
         NEW n \in Id, ~In(n, result),
         NEW p, p = push(result, n, bucketSize)
  PROVE  /\ p \in Seq(Id) /\ Sorted(p) /\ Len(p) <= bucketSize /\ Len(p) >= Len(result)
         /\ Len(result) = bucketSize => \A i \in 1 .. bucketSize : p[i] <= result[i]
         /\ \A i \in 1 .. Len(p) : p[i] = n \/ In(p[i], result)
         /\ \A m \in Id : (m = n \/ In(m, result)) /\ ~In(m, p) =>
              Len(p) = bucketSize /\ \A i \in 1 .. bucketSize : p[i] < m
<1>0. bucketSize \in Nat \ {0} /\ Id \subseteq Nat /\ n \in Nat
  BY Zenon, LookupAssumption DEF Id
<1> PICK ix : ix = closer(result, n)
  BY Zenon
<1> PICK size : size = IF Len(result) < bucketSize THEN Len(result) + 1 ELSE Len(result)
  BY Zenon
<1>1. Len(result) \in Nat /\ \A i \in 1 .. Len(result) : result[i] \in Id
  OBVIOUS
<1>2. \A i \in 1 .. Len(result) : result[i] \in Nat /\ result[i] # n
  BY Zenon, <1>0, <1>1 DEF In
<1>3. ix \in 0 .. Len(result) /\ \A i \in 1 .. Len(result) : i <= ix <=> result[i] < n
  BY Zenon, <1>0, <1>1, <1>2, CloserIsPlace
<1>4. p = [i \in 1 .. size |->
             IF i <= ix THEN result[i] ELSE IF i = ix + 1 THEN n ELSE result[i - 1]]
  BY Zenon DEF push
<1>5. Len(result) \in Nat /\ size \in 1 .. bucketSize /\ size >= Len(result)
  BY <1>0
<1>6. ASSUME NEW i \in 1 .. size
      PROVE  /\ i <= ix => i \in 1 .. Len(result) /\ p[i] = result[i]
             /\ i = ix + 1 => p[i] = n
             /\ i > ix + 1 => i - 1 \in 1 .. Len(result) /\ p[i] = result[i - 1]
  BY <1>3, <1>4, <1>5
<1>7. ASSUME NEW i \in 1 .. size PROVE p[i] \in Id /\ p[i] \in Nat
  <2>1. CASE i <= ix
    BY Zenon, <1>0, <1>1, <1>6, <2>1
  <2>2. CASE i = ix + 1
    BY Zenon, <1>0, <1>6, <2>2
  <2>3. CASE i > ix + 1
    BY Zenon, <1>0, <1>1, <1>6, <2>3
  <2> QED
    BY <1>3, <2>1, <2>2, <2>3
<1>8. p \in Seq(Id) /\ Len(p) = size
  <2>1. size \in Nat
    BY <1>5
  <2>2. DOMAIN p = 1 .. size /\ p = [i \in 1 .. size |-> p[i]]
    BY Zenon, <1>4
  <2>3. \A i \in 1 .. size : p[i] \in Id
    BY Zenon, <1>7
  <2>4. p \in [1 .. size -> Id]
    BY ONLY <2>2, <2>3, Zenon
  <2>5. Len(p) = size
    BY ONLY <2>1, <2>2
  <2>6. p \in Seq(Id)
    BY ONLY <2>1, <2>4
  <2> QED
    BY Zenon, <2>5, <2>6
<1>9. ASSUME NEW i \in 1 .. size, NEW j \in 1 .. size, i < j
      PROVE  p[i] < p[j]
  <2>1. CASE j <= ix
    BY <1>3, <1>6, <1>9, <2>1 DEF Sorted
  <2>2. CASE j = ix + 1
    <3>1. i <= ix
      BY <1>3, <1>9, <2>2
    <3>2. i \in 1 .. Len(result) /\ p[i] = result[i] /\ p[j] = n
      BY Zenon, <1>6, <2>2, <3>1
    <3> QED
      BY Zenon, <1>3, <3>1, <3>2
  <2>3. CASE j > ix + 1 /\ i <= ix
    <3>1. i \in 1 .. Len(result) /\ p[i] = result[i] /\ j - 1 \in 1 .. Len(result) /\ p[j] = result[j - 1]
      BY Zenon, <1>6, <2>3
    <3> QED
      BY <3>1, <1>3, <2>3 DEF Sorted
  <2>4. CASE j > ix + 1 /\ i = ix + 1
    <3>1. p[i] = n /\ j - 1 \in 1 .. Len(result) /\ p[j] = result[j - 1]
      BY Zenon, <1>6, <2>4
    <3> QED
      BY <1>0, <3>1, <1>3, <1>2, <2>4
  <2>5. CASE j > ix + 1 /\ i > ix + 1
    <3>1. /\ i - 1 \in 1 .. Len(result) /\ p[i] = result[i - 1]
          /\ j - 1 \in 1 .. Len(result) /\ p[j] = result[j - 1]
      BY Zenon, <1>6, <2>5
    <3> QED
      BY <3>1, <1>9 DEF Sorted
  <2> QED
    BY <1>3, <2>1, <2>2, <2>3, <2>4, <2>5
<1>10. \A i \in 1 .. size : p[i] = n \/ In(p[i], result)
  BY SMTT(30), <1>3, <1>6 DEF In
<1>11. ASSUME NEW m \in Id, m = n \/ In(m, result), ~In(m, p)
       PROVE  size = bucketSize /\ \A i \in 1 .. size : p[i] < m
  <2>1. \A i \in 1 .. size : p[i] # m
    BY Zenon, <1>8, <1>11 DEF In
  <2>2. CASE m = n
    <3>1. ix >= size
      <4> SUFFICES ASSUME ix < size PROVE FALSE
        BY <1>3, <1>5
      <4>1. ix + 1 \in 1 .. size
        BY <1>3, <1>5
      <4>2. p[ix + 1] = n
        BY Zenon, <4>1, <1>6
      <4> QED
        BY Zenon, <2>1, <2>2, <4>1, <4>2
    <3> QED
      BY <1>0, <3>1, <1>3, <1>5, <1>6, <2>2
  <2>3. CASE m # n
    <3>1. PICK k \in 1 .. Len(result) : result[k] = m
      BY Zenon, <1>11, <2>3 DEF In
    <3>2. k > ix
      BY <1>3, <1>5, <1>6, <2>1, <3>1
    <3>3. k + 1 > size
      <4> SUFFICES ASSUME k + 1 \in 1 .. size PROVE FALSE
        BY <1>5
      <4>1. p[k + 1] = result[(k + 1) - 1] /\ (k + 1) - 1 = k
        BY <1>3, <1>6, <3>1, <3>2
      <4> QED
        BY Zenon, <2>1, <3>1, <4>1
    <3>4. k = size /\ size = Len(result) /\ size = bucketSize
      BY <1>0, <1>5, <3>3
    <3>5. ASSUME NEW i \in 1 .. size PROVE p[i] < m
      <4>1. CASE i <= ix
        BY <1>3, <1>6, <3>1, <3>2, <4>1 DEF Sorted
      <4>2. CASE i = ix + 1
        BY SMTT(30), <1>0, <1>3, <1>2, <1>6, <3>1, <3>2, <4>2
      <4>3. CASE i > ix + 1
        <5>1. i - 1 \in 1 .. Len(result) /\ p[i] = result[i - 1] /\ i - 1 < k
          BY <1>6, <3>4, <4>3
        <5> QED
          BY Zenon, <5>1, <3>1 DEF Sorted
      <4> QED
        BY <1>3, <4>1, <4>2, <4>3
    <3> QED
      BY Zenon, <3>4, <3>5
  <2> QED
    BY Zenon, <2>2, <2>3
<1>12. Sorted(p)
  BY Zenon, <1>8, <1>9 DEF Sorted
<1>13. ASSUME Len(result) = bucketSize, NEW i \in 1 .. bucketSize PROVE p[i] <= result[i]
  <2>1. i \in 1 .. size /\ i \in 1 .. Len(result)
    BY <1>5, <1>13
  <2>2. CASE i <= ix
    BY <1>2, <1>6, <2>1, <2>2
  <2>3. CASE i = ix + 1
    BY <1>0, <1>2, <1>3, <1>6, <2>1, <2>3
  <2>4. CASE i > ix + 1
    <3>1. i - 1 \in 1 .. Len(result) /\ p[i] = result[i - 1]
      BY Zenon, <1>6, <2>1, <2>4
    <3>2. result[i - 1] < result[i]
      BY <2>1, <3>1 DEF Sorted
    <3> QED
      BY <1>2, <2>1, <3>1, <3>2
  <2> QED
    BY <1>3, <2>2, <2>3, <2>4
<1> QED
  BY <1>5, <1>8, <1>10, <1>11, <1>12, <1>13

(* What push makes of the result of a search.                              *)
LEMMA PushResult ==
  ASSUME Inv, NEW n \in Id, n \notin seen,
         NEW r, r = push(result, n, bucketSize)
  PROVE  /\ r \in Seq(Id)
         /\ Sorted(r)
         /\ Len(r) <= bucketSize
         /\ \A i \in 1 .. Len(r) : r[i] \in seen \cup {n}
         /\ \A m \in seen \cup {n} : ~In(m, r) =>
              Len(r) = bucketSize /\ \A i \in 1 .. Len(r) : r[i] < m
<1>1. Id \subseteq Nat /\ n \in Id /\ bucketSize \in Nat \ {0}
  BY Zenon, LookupAssumption DEF Id
<1>2. result \in Seq(Id) /\ seen \subseteq Id
  BY Zenon DEF Inv, TypeOK, Id
<1>3. /\ Sorted(result) /\ Len(result) <= bucketSize
      /\ \A i \in 1 .. Len(result) : result[i] \in seen
      /\ \A m \in seen : ~In(m, result) =>
           Len(result) = bucketSize /\ \A i \in 1 .. Len(result) : result[i] < m
  BY Zenon DEF Inv, ResultInv, ResultIsClosest, Sorted, In
<1>4. ~In(n, result)
  BY Zenon, <1>3 DEF In
<1>5. /\ r \in Seq(Id) /\ Sorted(r) /\ Len(r) <= bucketSize /\ Len(r) >= Len(result)
      /\ Len(result) = bucketSize => \A i \in 1 .. bucketSize : r[i] <= result[i]
      /\ \A i \in 1 .. Len(r) : r[i] = n \/ In(r[i], result)
      /\ \A m \in Id : (m = n \/ In(m, result)) /\ ~In(m, r) =>
           Len(r) = bucketSize /\ \A i \in 1 .. bucketSize : r[i] < m
  <2>1. r = push(result, n, bucketSize)
    BY Zenon
  <2> QED
    BY ONLY Zenon, <1>1, <1>2, <1>3, <1>4, <2>1, PushKeepsClosest
<1>6. \A i \in 1 .. Len(r) : r[i] \in seen \cup {n}
  BY Zenon, <1>3, <1>5 DEF In
<1>7. ASSUME NEW m \in seen \cup {n}, ~In(m, r)
      PROVE  Len(r) = bucketSize /\ \A i \in 1 .. Len(r) : r[i] < m
  <2>1. CASE m = n \/ In(m, result)
    BY Zenon, <1>1, <1>2, <1>5, <1>7, <2>1
  <2>2. CASE m # n /\ ~In(m, result)
    <3>1. Len(result) = bucketSize /\ \A i \in 1 .. Len(result) : result[i] < m
      BY Zenon, <1>3, <1>7, <2>2
    <3>2. Len(r) = bucketSize
      BY <1>1, <1>2, <1>5, <3>1
    <3>3. ASSUME NEW i \in 1 .. Len(r) PROVE r[i] < m
      <4>1. r[i] <= result[i] /\ result[i] < m
        BY Zenon, <1>5, <3>1, <3>2
      <4>2. r[i] \in Id /\ result[i] \in Id /\ m \in Id
        BY <1>1, <1>2, <1>5, <3>1, <3>2
      <4>3. r[i] \in Nat /\ result[i] \in Nat /\ m \in Nat
        BY ONLY Zenon, <1>1, <4>2
      <4> QED
        BY <4>1, <4>3
    <3> QED
      BY Zenon, <3>2, <3>3
  <2> QED
    BY Zenon, <2>1, <2>2
<1> QED
  BY Zenon, <1>5, <1>6, <1>7

---------------------------------------------------------------------------
(* The steps.  What each action leaves of the types, of the control, of    *)
(* the accounts of the queries, of the result and of the deliveries.       *)

LEMMA InitHolds == Init => Inv
<1> SUFFICES ASSUME Init PROVE Inv
  BY Zenon
<1>1. TypeOK
  <2>1. queries \in -1 .. alpha /\ lookups \in 0 .. MaxLookups
    BY LookupAssumption DEF Init
  <2>2. result \in Seq(Node \cup {Self}) /\ replyCh \in Seq(Reply)
    BY DEF Init
  <2>3. {} \in Reply
    BY Zenon DEF Reply
  <2> QED
    BY Zenon, <2>1, <2>2, <2>3 DEF Init, TypeOK
<1>2. ControlInv
  BY Zenon DEF Init, ControlInv
<1>3. QueryInv
  BY Zenon, FS_EmptySet DEF Init, QueryInv, QueriesAccounted
<1>4. ResultInv
  BY LookupAssumption DEF Init, ResultInv, ResultIsClosest, SearchIsComplete
<1>5. DeliveryInv
  BY Zenon DEF Init, DeliveryInv, handedOut
<1> QED
  BY Zenon, <1>1, <1>2, <1>3, <1>4, <1>5 DEF Inv

(* The actions of the caller of Next.                                      *)
LEMMA IteratorKeeps == Inv /\ IteratorStep => Inv'
<1> SUFFICES ASSUME Inv, IteratorStep PROVE Inv'
  BY Zenon
<1> USE DEF Inv
<1>1. CASE nextEmpty
  <2> USE DEF nextEmpty, searchVars, queryVars, iterVars
  <2>1. TypeOK'
    BY Zenon, <1>1 DEF TypeOK
  <2>2. ControlInv'
    BY Zenon, <1>1 DEF ControlInv
  <2>3. QueryInv'
    BY Zenon, <1>1 DEF QueryInv, QueriesAccounted
  <2>4. ResultInv'
    BY Zenon, <1>1 DEF ResultInv, ResultIsClosest, SearchIsComplete
  <2>5. DeliveryInv'
    BY Zenon, <1>1 DEF DeliveryInv, handedOut
  <2> QED
    BY Zenon, <2>1, <2>2, <2>3, <2>4, <2>5
<1>2. CASE nextCancelled
  <2> USE DEF nextCancelled, searchVars, queryVars
  <2>1. TypeOK'
    BY Zenon, <1>2 DEF TypeOK
  <2>2. ControlInv'
    BY Zenon, <1>2 DEF ControlInv
  <2>3. QueryInv'
    BY Zenon, <1>2 DEF QueryInv, QueriesAccounted
  <2>4. ResultInv'
    BY Zenon, <1>2 DEF ResultInv, ResultIsClosest, SearchIsComplete
  <2>5. DeliveryInv'
    BY Zenon, <1>2 DEF DeliveryInv, handedOut
  <2> QED
    BY Zenon, <2>1, <2>2, <2>3, <2>4, <2>5
<1>3. CASE newLookup
  <2> USE DEF newLookup
  <2>1. TypeOK'
    BY <1>3, LookupAssumption DEF TypeOK, Reply
  <2>2. ControlInv'
    BY Zenon, <1>3 DEF ControlInv
  <2>3. QueryInv'
    BY Zenon, <1>3 DEF QueryInv, QueriesAccounted
  <2>4. ResultInv'
    BY <1>3, LookupAssumption DEF ResultInv, ResultIsClosest, SearchIsComplete
  <2>5. DeliveryInv'
    BY Zenon, <1>3 DEF DeliveryInv, handedOut, ControlInv
  <2> QED
    BY Zenon, <2>1, <2>2, <2>3, <2>4, <2>5
<1>4. CASE nextAdvance
  <2> USE DEF nextAdvance, searchVars, queryVars, iterVars
  <2>1. TypeOK'
    BY Zenon, <1>4 DEF TypeOK
  <2>2. ControlInv'
    BY Zenon, <1>4 DEF ControlInv
  <2>3. QueryInv'
    BY Zenon, <1>4 DEF QueryInv, QueriesAccounted
  <2>4. ResultInv'
    BY Zenon, <1>4 DEF ResultInv, ResultIsClosest, SearchIsComplete
  <2>5. DeliveryInv'
    BY Zenon, <1>4 DEF DeliveryInv, handedOut
  <2> QED
    BY Zenon, <2>1, <2>2, <2>3, <2>4, <2>5
<1>5. ASSUME NEW n \in Node \cup {Self}, nextBuffered(n) PROVE Inv'
  <2> USE DEF nextBuffered, searchVars, queryVars
  <2>1. TypeOK'
    BY Zenon, <1>5 DEF TypeOK, Reply
  <2>2. ControlInv'
    BY Zenon, <1>5 DEF ControlInv
  <2>3. QueryInv'
    BY Zenon, <1>5 DEF QueryInv, QueriesAccounted
  <2>4. ResultInv'
    BY Zenon, <1>5 DEF ResultInv, ResultIsClosest, SearchIsComplete
  <2>5. DeliveryInv'
    BY Zenon, <1>5 DEF DeliveryInv, handedOut
  <2> QED
    BY Zenon, <2>1, <2>2, <2>3, <2>4, <2>5
<1> QED
  BY Zenon, <1>1, <1>2, <1>3, <1>4, <1>5 DEF IteratorStep

(* The actions of startQueries.                                            *)
LEMMA StartKeeps ==
  ASSUME Inv, \/ \E closest \in SUBSET Known : askTable(closest)
              \/ askNodes \/ noQueryfunc
  PROVE  Inv'
<1> USE DEF Inv
<1>1. ASSUME NEW closest \in SUBSET Known, askTable(closest) PROVE Inv'
  <2> USE DEF askTable, iterVars
  <2>1. closest \in Reply /\ Append(replyCh, closest) \in Seq(Reply)
        /\ Len(Append(replyCh, closest)) = Len(replyCh) + 1 /\ 1 \in -1 .. alpha
    BY LookupAssumption DEF TypeOK, Reply
  <2>2. TypeOK'
    BY Zenon, <1>1, <2>1 DEF TypeOK
  <2>3. ControlInv'
    BY <1>1 DEF ControlInv
  <2>4. QueryInv'
    <3>1. Len(replyCh) = 0 /\ Cardinality(spawned) = 0 /\ Cardinality(calling) = 0
      BY Zenon, <1>1, FS_EmptySet DEF QueryInv
    <3>2. queries' = 1 /\ Len(replyCh') = 1 /\ pc' # "reading"
      BY <1>1, <2>1, <3>1
    <3> QED
      BY <1>1, <3>1, <3>2 DEF QueryInv, QueriesAccounted, ControlInv
  <2>5. ResultInv'
    BY Zenon, <1>1 DEF ResultInv, ResultIsClosest, SearchIsComplete, ControlInv
  <2>6. DeliveryInv'
    BY Zenon, <1>1 DEF DeliveryInv, handedOut
  <2> QED
    BY Zenon, <2>2, <2>3, <2>4, <2>5, <2>6
<1>2. CASE askNodes
  <2> USE DEF askNodes
  <2>1. queries \in 0 .. alpha /\ lookup /\ Self \in asked /\ alpha \in Nat
    BY <1>2, LookupAssumption DEF TypeOK, ControlInv
  <2>2. /\ IsFiniteSet(toAsk) /\ Cardinality(toAsk) \in 0 .. alpha - queries
        /\ toAsk \subseteq Node /\ toAsk \cap asked = {}
    BY <2>1, ToAskFits
  <2>3. queries' = queries + Cardinality(toAsk) /\ queries' \in 0 .. alpha
    BY <1>2, <2>1, <2>2
  <2>3a. \/ queries' > 0 /\ pc' = "select" /\ lookup'
         \/ queries' = 0 /\ pc' = "fill" /\ lookup' = FALSE
    <3>1. CASE queries' > 0
      BY Zenon, <1>2, <2>1, <3>1
    <3>2. CASE ~(queries' > 0)
      BY <1>2, <2>3, <3>2
    <3> QED
      BY Zenon, <3>1, <3>2
  <2>4. TypeOK'
    <3>1. asked' \subseteq Node \cup {Self} /\ spawned' \subseteq Node
      BY Zenon, <1>2, <2>2 DEF TypeOK
    <3>2. queries' \in -1 .. alpha
      BY <2>1, <2>3
    <3>3. lookup' \in BOOLEAN
      BY Zenon, <1>2, <2>3a DEF TypeOK
    <3> QED
      BY Zenon, <1>2, <2>3a, <3>1, <3>2, <3>3 DEF TypeOK
  <2>5. ControlInv'
    BY <1>2, <2>1, <2>3a DEF ControlInv
  <2>6. /\ spawned' = spawned \cup toAsk /\ spawned \cap toAsk = {}
        /\ IsFiniteSet(spawned') /\ Cardinality(spawned') = Cardinality(spawned) + Cardinality(toAsk)
    <3>1. spawned' = spawned \cup toAsk /\ spawned \cap toAsk = {} /\ IsFiniteSet(spawned)
      BY Zenon, <1>2, <2>2 DEF QueryInv
    <3>2. Cardinality(spawned \cap toAsk) = 0
      BY Zenon, <3>1, FS_EmptySet
    <3>3. Cardinality(spawned) \in Nat /\ Cardinality(toAsk) \in Nat
      BY Zenon, <2>2, <3>1, FS_CardinalityType
    <3>4. /\ IsFiniteSet(spawned \cup toAsk)
          /\ Cardinality(spawned \cup toAsk) =
               Cardinality(spawned) + Cardinality(toAsk) - Cardinality(spawned \cap toAsk)
      BY Zenon, <2>2, <3>1, FS_Union
    <3> QED
      BY <3>1, <3>2, <3>3, <3>4
  <2>7. /\ queries = Cardinality(spawned) + Cardinality(calling) + Len(replyCh)
        /\ Cardinality(spawned) \in Nat /\ Cardinality(calling) \in Nat /\ Len(replyCh) \in Nat
    BY SMTT(30), <1>2, <2>1, FS_CardinalityType DEF QueryInv, QueriesAccounted, TypeOK
  <2>8. queries' = Cardinality(spawned') + Cardinality(calling') + Len(replyCh')
    BY SMTT(30), <1>2, <2>2, <2>3, <2>6, <2>7
  <2>9. queries' = 0 => spawned' = {} /\ calling' = {} /\ replyCh' = <<>>
    <3> SUFFICES ASSUME queries' = 0 PROVE spawned' = {} /\ calling' = {} /\ replyCh' = <<>>
      BY Zenon
    <3>1. Cardinality(spawned') = 0 /\ Cardinality(calling) = 0 /\ Len(replyCh) = 0
      BY SMTT(30), <1>2, <2>2, <2>6, <2>7, <2>8
    <3>2. spawned' = {} /\ calling = {}
      BY Zenon, <2>6, <3>1, FS_EmptySet DEF QueryInv
    <3>3. replyCh = <<>>
      BY <3>1 DEF TypeOK
    <3> QED
      BY Zenon, <1>2, <3>2, <3>3
  <2>10. QueryInv'
    <3>1. IsFiniteSet(calling') /\ spawned' \cap calling' = {} /\ spawned' \cup calling' \subseteq asked'
      BY Zenon, <1>2, <2>2, <2>6 DEF QueryInv
    <3>2. pc' # "reading" /\ queryfunc' /\ (~lookup' => queries' = 0) /\ queries' # -1
      BY <1>2, <2>1, <2>3, <2>3a
    <3> QED
      BY <2>6, <2>8, <2>9, <3>1, <3>2 DEF QueryInv, QueriesAccounted
  <2>11. ResultInv'
    <3>1. ASSUME ~lookup' PROVE \A i \in 1 .. Len(result) : result[i] \in asked
      <4>1. queries = 0 /\ Cardinality(toAsk) = 0
        BY <2>1, <2>2, <2>3, <2>3a, <3>1
      <4>2. toAsk = {}
        BY Zenon, <2>2, <4>1, FS_EmptySet
      <4> QED
        BY Zenon, <4>1, <4>2, NobodyToAsk
    <3> QED
      BY Zenon, <1>2, <3>1 DEF ResultInv, ResultIsClosest, SearchIsComplete
  <2>12. DeliveryInv'
    BY Zenon, <1>2 DEF DeliveryInv, handedOut
  <2> QED
    BY Zenon, <2>4, <2>5, <2>10, <2>11, <2>12
<1>3. CASE noQueryfunc
  <2> USE DEF noQueryfunc, searchVars, queryVars
  <2>1. TypeOK'
    BY Zenon, <1>3 DEF TypeOK
  <2>2. ControlInv'
    BY Zenon, <1>3 DEF ControlInv
  <2>3. QueryInv'
    BY Zenon, <1>3 DEF QueryInv, QueriesAccounted, ControlInv
  <2>4. ResultInv'
    BY Zenon, <1>3 DEF ResultInv, ResultIsClosest, SearchIsComplete
  <2>5. DeliveryInv'
    BY Zenon, <1>3 DEF DeliveryInv, handedOut
  <2> QED
    BY Zenon, <2>1, <2>2, <2>3, <2>4, <2>5
<1> QED
  BY Zenon, <1>1, <1>2, <1>3

(* The actions of advance after startQueries, and of shutdown.             *)
LEMMA SelectKeeps ==
  ASSUME Inv, receive \/ nothingNew \/ selectCancelled \/ shutdownReceive \/ shutdownEnds
  PROVE  Inv'
<1> USE DEF Inv
<1>1. replyCh # <<>> =>
        /\ Head(replyCh) \in Reply /\ Tail(replyCh) \in Seq(Reply)
        /\ Len(Tail(replyCh)) = Len(replyCh) - 1
  BY DEF TypeOK
<1>2. /\ Cardinality(spawned) \in Nat /\ Cardinality(calling) \in Nat
      /\ Len(replyCh) \in Nat /\ queries \in Int /\ alpha \in Nat \ {0}
  BY FS_CardinalityType, LookupAssumption DEF QueryInv, TypeOK
<1>3. CASE receive
  <2> USE DEF receive, iterVars
  <2>1. TypeOK'
    BY Zenon, <1>1, <1>3 DEF TypeOK, Reply
  <2>2. ControlInv'
    BY Zenon, <1>3 DEF ControlInv
  <2>3. QueryInv'
    BY SMTT(30), <1>1, <1>2, <1>3 DEF QueryInv, QueriesAccounted, ControlInv
  <2>4. ResultInv'
    BY Zenon, <1>3 DEF ResultInv, ResultIsClosest, SearchIsComplete
  <2>5. DeliveryInv'
    BY Zenon, <1>3 DEF DeliveryInv, handedOut
  <2> QED
    BY Zenon, <2>1, <2>2, <2>3, <2>4, <2>5
<1>4. CASE nothingNew
  <2> USE DEF nothingNew, queryVars, iterVars
  <2>1. queries >= 1 /\ queries' = queries - 1
    BY Zenon, <1>4 DEF ControlInv
  <2>2. TypeOK'
    BY <1>2, <1>4, <2>1 DEF TypeOK
  <2>3. ControlInv'
    BY Zenon, <1>4, <2>1 DEF ControlInv
  <2>4. QueryInv'
    BY <1>2, <1>4, <2>1 DEF QueryInv, QueriesAccounted, ControlInv
  <2>5. ResultInv'
    BY Zenon, <1>4 DEF ResultInv, ResultIsClosest, SearchIsComplete
  <2>6. DeliveryInv'
    BY Zenon, <1>4 DEF DeliveryInv, handedOut
  <2> QED
    BY Zenon, <2>2, <2>3, <2>4, <2>5, <2>6
<1>5. CASE selectCancelled
  <2> USE DEF selectCancelled, searchVars, queryVars, iterVars
  <2>1. TypeOK'
    BY Zenon, <1>5 DEF TypeOK
  <2>2. ControlInv'
    BY <1>2, <1>5 DEF ControlInv
  <2>3. QueryInv'
    BY Zenon, <1>5 DEF QueryInv, QueriesAccounted
  <2>4. ResultInv'
    BY Zenon, <1>5 DEF ResultInv, ResultIsClosest, SearchIsComplete
  <2>5. DeliveryInv'
    BY Zenon, <1>5 DEF DeliveryInv, handedOut
  <2> QED
    BY Zenon, <2>1, <2>2, <2>3, <2>4, <2>5
<1>6. CASE shutdownReceive
  <2> USE DEF shutdownReceive, iterVars
  <2>1. queries >= 1 /\ queries' = queries - 1
    BY <1>2, <1>6
  <2>2. TypeOK'
    BY SMTT(30), <1>1, <1>2, <1>6, <2>1 DEF TypeOK
  <2>3. ControlInv'
    BY <1>2, <1>6, <2>1 DEF ControlInv
  <2>4. QueryInv'
    <3>1. Len(replyCh') = Len(replyCh) - 1
      BY <1>6 DEF TypeOK
    <3>2. /\ spawned' = spawned /\ calling' = calling /\ asked' = asked /\ pc' = pc
          /\ queryfunc' = queryfunc /\ pc = "shutdown" /\ lookup /\ queries' # -1
      BY <1>6, <2>1 DEF ControlInv
    <3>3. queries' = Cardinality(spawned') + Cardinality(calling') + Len(replyCh')
                       + (IF pc' = "reading" THEN 1 ELSE 0)
      <4>1. queries # -1 /\ pc # "reading"
        BY <1>2, <2>1, <3>2
      <4>2. queries = Cardinality(spawned) + Cardinality(calling) + Len(replyCh)
        BY <1>2, <4>1 DEF QueryInv, QueriesAccounted
      <4> QED
        BY SMTT(30), <1>2, <2>1, <3>1, <3>2, <4>1, <4>2
    <3>4. lookup'
      BY Zenon, <1>6, <3>2
    <3>5. spawned' # {} => queryfunc'
      BY Zenon, <3>2 DEF QueryInv, QueriesAccounted
    <3> QED
      BY Zenon, <3>2, <3>3, <3>4, <3>5 DEF QueryInv, QueriesAccounted
  <2>5. ResultInv'
    BY Zenon, <1>6 DEF ResultInv, ResultIsClosest, SearchIsComplete
  <2>6. DeliveryInv'
    BY Zenon, <1>6 DEF DeliveryInv, handedOut
  <2> QED
    BY Zenon, <2>2, <2>3, <2>4, <2>5, <2>6
<1>7. CASE shutdownEnds
  <2> USE DEF shutdownEnds, queryVars, iterVars
  <2>1. queries = 0 /\ cancelled /\ lookup
    BY <1>2, <1>7 DEF ControlInv
  <2>2. spawned = {}
    <3>1. Cardinality(spawned) = 0
      BY <1>2, <1>7, <2>1 DEF QueryInv, QueriesAccounted
    <3> QED
      BY Zenon, <3>1, FS_EmptySet DEF QueryInv
  <2>3. TypeOK'
    BY Zenon, <1>7 DEF TypeOK, Reply
  <2>4. ControlInv'
    BY Zenon, <1>7, <2>1 DEF ControlInv
  <2>5. QueryInv'
    <3>1. /\ UNCHANGED <<spawned, calling, replyCh, queries, asked, lookup>>
          /\ pc # "reading" /\ pc' # "reading"
      BY Zenon, <1>7
    <3>2. QueriesAccounted'
      BY Zenon, <2>1, <2>2, <3>1 DEF QueryInv, QueriesAccounted
    <3> QED
      BY Zenon, <2>1, <3>1, <3>2 DEF QueryInv
  <2>6. ResultInv'
    BY Zenon, <1>7, <2>1 DEF ResultInv, ResultIsClosest, SearchIsComplete
  <2>7. DeliveryInv'
    BY Zenon, <1>7 DEF DeliveryInv, handedOut
  <2> QED
    BY Zenon, <2>3, <2>4, <2>5, <2>6, <2>7
<1> QED
  BY Zenon, <1>3, <1>4, <1>5, <1>6, <1>7

(* advance looks at a reply, and returns with one that has new nodes.      *)
LEMMA ReadingKeeps ==
  ASSUME Inv, NEW n \in Node \cup {Self}, takeNode(n) \/ found(n)
  PROVE  Inv'
<1> USE DEF Inv
<1>1. CASE takeNode(n) /\ n \in seen
  <2> USE DEF takeNode, queryVars, iterVars
  <2>1. TypeOK'
    BY Zenon, <1>1 DEF TypeOK, Reply
  <2>2. ControlInv'
    BY Zenon, <1>1 DEF ControlInv
  <2>3. QueryInv'
    BY Zenon, <1>1 DEF QueryInv, QueriesAccounted
  <2>4. ResultInv'
    BY SMTT(30), <1>1 DEF ResultInv, ResultIsClosest, SearchIsComplete
  <2>5. DeliveryInv'
    BY Zenon, <1>1 DEF DeliveryInv, handedOut
  <2> QED
    BY Zenon, <2>1, <2>2, <2>3, <2>4, <2>5
<1>2. CASE takeNode(n) /\ n \notin seen
  <2> USE DEF takeNode, queryVars, iterVars
  <2> PICK r : r = push(result, n, bucketSize)
    BY Zenon
  <2>1. /\ r \in Seq(Node \cup {Self})
        /\ Sorted(r)
        /\ Len(r) <= bucketSize
        /\ \A i \in 1 .. Len(r) : r[i] \in seen \cup {n}
        /\ \A m \in seen \cup {n} : ~In(m, r) =>
             Len(r) = bucketSize /\ \A i \in 1 .. Len(r) : r[i] < m
    BY Zenon, <1>2, PushResult DEF Id
  <2>2. /\ seen' = seen \cup {n} /\ result' = r /\ replyBuffer' = replyBuffer \cup {n}
        /\ pc = "reading" /\ pc' = pc /\ lookup /\ lookup' = lookup
    BY Zenon, <1>2 DEF ControlInv
  <2>3. TypeOK'
    BY Zenon, <1>2, <2>1, <2>2 DEF TypeOK, Reply
  <2>4. ControlInv'
    BY Zenon, <1>2 DEF ControlInv
  <2>5. QueryInv'
    BY Zenon, <1>2 DEF QueryInv, QueriesAccounted
  <2>6. ResultInv'
    BY Zenon, <2>1, <2>2 DEF ResultInv, ResultIsClosest, SearchIsComplete, Sorted, In
  <2>7. DeliveryInv'
    BY Zenon, <1>2, <2>2 DEF DeliveryInv, handedOut
  <2> QED
    BY Zenon, <2>3, <2>4, <2>5, <2>6, <2>7
<1>3. CASE found(n)
  <2> USE DEF found, queryVars
  <2>1. queries >= 1 /\ queries' = queries - 1 /\ buffer = {}
    BY Zenon, <1>3 DEF ControlInv
  <2>2. /\ Cardinality(spawned) \in Nat /\ Cardinality(calling) \in Nat
        /\ Len(replyCh) \in Nat /\ queries \in Int /\ alpha \in Nat \ {0}
    BY FS_CardinalityType, LookupAssumption DEF QueryInv, TypeOK
  <2>3. TypeOK'
    <3>1. queries' \in -1 .. alpha
      BY <2>1, <2>2 DEF TypeOK
    <3>2. buffer' \in Reply /\ delivered' \in Reply
      BY Zenon, <1>3 DEF TypeOK, Reply
    <3> QED
      BY Zenon, <1>3, <3>1, <3>2 DEF TypeOK
  <2>4. ControlInv'
    BY Zenon, <1>3 DEF ControlInv
  <2>5. QueryInv'
    <3>1. /\ spawned' = spawned /\ calling' = calling /\ asked' = asked
          /\ queryfunc' = queryfunc /\ replyCh' = replyCh
          /\ pc = "reading" /\ pc' # "reading" /\ lookup /\ lookup'
      BY Zenon, <1>3, <2>1, <2>2 DEF ControlInv
    <3>2. queries = Cardinality(spawned) + Cardinality(calling) + Len(replyCh) + 1
      BY SMTT(30), <2>1, <2>2, <3>1 DEF QueryInv, QueriesAccounted
    <3>3. queries' = Cardinality(spawned') + Cardinality(calling') + Len(replyCh')
                       + (IF pc' = "reading" THEN 1 ELSE 0)
      BY ONLY <2>1, <2>2, <3>1, <3>2
    <3>4. queries' # -1 /\ (spawned' # {} => queryfunc')
      BY <2>1, <2>2, <3>1 DEF QueryInv, QueriesAccounted
    <3> QED
      BY Zenon, <3>1, <3>3, <3>4 DEF QueryInv, QueriesAccounted
  <2>6. ResultInv'
    BY Zenon, <1>3 DEF ResultInv, ResultIsClosest, SearchIsComplete, ControlInv
  <2>7. DeliveryInv'
    BY Zenon, <1>3, <2>1 DEF DeliveryInv, handedOut
  <2> QED
    BY Zenon, <2>3, <2>4, <2>5, <2>6, <2>7
<1> QED
  BY Zenon, <1>1, <1>2, <1>3

(* The query goroutines.                                                   *)
LEMMA QueryKeeps ==
  ASSUME Inv, NEW n \in Node, QueryStep(n)
  PROVE  Inv'
<1> USE DEF Inv
<1>1. /\ IsFiniteSet(spawned) /\ IsFiniteSet(calling)
      /\ Cardinality(spawned) \in Nat /\ Cardinality(calling) \in Nat
      /\ Len(replyCh) \in Nat /\ queries \in Int
  BY FS_CardinalityType DEF QueryInv, TypeOK
<1>2. /\ n \in spawned => Cardinality(spawned \ {n}) = Cardinality(spawned) - 1
      /\ n \in calling => Cardinality(calling \ {n}) = Cardinality(calling) - 1
      /\ n \notin calling => Cardinality(calling \cup {n}) = Cardinality(calling) + 1
      /\ IsFiniteSet(spawned \ {n}) /\ IsFiniteSet(calling \ {n})
      /\ IsFiniteSet(calling \cup {n})
  BY Zenon, <1>1, FS_RemoveElement, FS_AddElement
<1>3. CASE queryCalls(n)
  <2> USE DEF queryCalls, searchVars, iterVars
  <2>1. TypeOK'
    BY Zenon, <1>3 DEF TypeOK
  <2>2. ControlInv'
    BY Zenon, <1>3 DEF ControlInv
  <2>3. n \in spawned /\ n \notin calling /\ queries # -1 /\ queryfunc
    BY Zenon, <1>3 DEF QueryInv, QueriesAccounted
  <2>4. QueryInv'
    <3>1. /\ spawned' = spawned \ {n} /\ calling' = calling \cup {n} /\ asked' = asked
          /\ queries' = queries /\ pc' = pc /\ queryfunc' = queryfunc
          /\ replyCh' = replyCh /\ cancelled' = cancelled /\ lookup' = lookup
      BY Zenon, <1>3
    <3>2. queries = Cardinality(spawned) + Cardinality(calling) + Len(replyCh)
                      + (IF pc = "reading" THEN 1 ELSE 0)
      BY Zenon, <2>3 DEF QueryInv, QueriesAccounted
    <3>3. queries' = Cardinality(spawned') + Cardinality(calling') + Len(replyCh')
                       + (IF pc' = "reading" THEN 1 ELSE 0)
      <4>1. /\ Cardinality(spawned') = Cardinality(spawned) - 1
            /\ Cardinality(calling') = Cardinality(calling) + 1
        BY Zenon, <1>2, <2>3, <3>1
      <4> QED
        BY ONLY <1>1, <3>1, <3>2, <4>1
    <3>4. lookup' \/ cancelled'
      BY Zenon, <2>3, <3>1 DEF QueryInv, QueriesAccounted
    <3>5. /\ IsFiniteSet(spawned') /\ IsFiniteSet(calling') /\ spawned' \cap calling' = {}
          /\ spawned' \cup calling' \subseteq asked' /\ queries' # -1 /\ queryfunc'
      BY Zenon, <1>2, <2>3, <3>1 DEF QueryInv
    <3> QED
      BY Zenon, <3>3, <3>4, <3>5 DEF QueryInv, QueriesAccounted
  <2>5. ResultInv'
    BY Zenon, <1>3 DEF ResultInv, ResultIsClosest, SearchIsComplete
  <2>6. DeliveryInv'
    BY Zenon, <1>3 DEF DeliveryInv, handedOut
  <2> QED
    BY Zenon, <2>1, <2>2, <2>4, <2>5, <2>6
<1>4. ASSUME NEW r \in SUBSET Neighbours[n], queryReplies(n, r) PROVE Inv'
  <2> USE DEF queryReplies, searchVars, iterVars
  <2>1. r \in Reply /\ Append(replyCh, r) \in Seq(Reply)
        /\ Len(Append(replyCh, r)) = Len(replyCh) + 1
    BY LookupAssumption DEF TypeOK, Reply
  <2>2. TypeOK'
    BY Zenon, <1>4, <2>1 DEF TypeOK
  <2>3. ControlInv'
    BY Zenon, <1>4 DEF ControlInv
  <2>4. n \in calling /\ queries # -1 /\ (lookup \/ cancelled)
    BY Zenon, <1>4 DEF QueryInv, QueriesAccounted
  <2>5. QueryInv'
    <3>1. /\ calling' = calling \ {n} /\ spawned' = spawned /\ asked' = asked
          /\ queries' = queries /\ pc' = pc /\ queryfunc' = queryfunc
          /\ replyCh' = Append(replyCh, r) /\ cancelled' = cancelled
          /\ lookup' = lookup
      BY Zenon, <1>4
    <3>2. queries = Cardinality(spawned) + Cardinality(calling) + Len(replyCh)
                      + (IF pc = "reading" THEN 1 ELSE 0)
      BY Zenon, <2>4 DEF QueryInv, QueriesAccounted
    <3>3. queries' = Cardinality(spawned') + Cardinality(calling') + Len(replyCh')
                       + (IF pc' = "reading" THEN 1 ELSE 0)
      <4>1. /\ Cardinality(calling') = Cardinality(calling) - 1
            /\ Len(replyCh') = Len(replyCh) + 1
            /\ Cardinality(spawned') = Cardinality(spawned)
            /\ queries' = queries /\ pc' = pc
        BY Zenon, <1>2, <2>1, <2>4, <3>1
      <4>2. Cardinality(spawned) \in Nat /\ Cardinality(calling) \in Nat /\ Len(replyCh) \in Nat
        BY Zenon, <1>1
      <4>3. CASE pc = "reading"
        BY ONLY SMTT(30), <3>2, <4>1, <4>2, <4>3
      <4>4. CASE pc # "reading"
        BY ONLY <3>2, <4>1, <4>2, <4>4
      <4> QED
        BY Zenon, <4>3, <4>4
    <3>4. spawned' # {} => queryfunc'
      BY Zenon, <3>1 DEF QueryInv, QueriesAccounted
    <3>5. /\ IsFiniteSet(spawned') /\ IsFiniteSet(calling') /\ spawned' \cap calling' = {}
          /\ spawned' \cup calling' \subseteq asked' /\ queries' # -1
      BY Zenon, <1>2, <2>4, <3>1 DEF QueryInv
    <3>6. lookup' \/ cancelled'
      BY Zenon, <2>4, <3>1
    <3> QED
      BY Zenon, <3>3, <3>4, <3>5, <3>6 DEF QueryInv, QueriesAccounted
  <2>6. ResultInv'
    BY Zenon, <1>4 DEF ResultInv, ResultIsClosest, SearchIsComplete
  <2>7. DeliveryInv'
    BY Zenon, <1>4 DEF DeliveryInv, handedOut
  <2> QED
    BY Zenon, <2>2, <2>3, <2>5, <2>6, <2>7
<1> QED
  BY Zenon, <1>3, <1>4 DEF QueryStep

(* Close, and steps that change nothing.                                   *)
LEMMA CloseKeeps ==
  ASSUME Inv, Close \/ UNCHANGED vars
  PROVE  Inv'
<1> USE DEF Inv
<1>1. UNCHANGED <<searchVars, queryVars, iterVars, pc>> /\ (cancelled' = cancelled \/ cancelled' = TRUE)
  BY Zenon DEF Close, vars
<1> USE DEF searchVars, queryVars, iterVars
<1>2. TypeOK'
  BY Zenon, <1>1 DEF TypeOK
<1>3. ControlInv'
  BY Zenon, <1>1 DEF ControlInv
<1>4. QueryInv'
  BY Zenon, <1>1 DEF QueryInv, QueriesAccounted
<1>5. ResultInv'
  BY Zenon, <1>1 DEF ResultInv, ResultIsClosest, SearchIsComplete
<1>6. DeliveryInv'
  BY Zenon, <1>1 DEF DeliveryInv, handedOut
<1> QED
  BY Zenon, <1>2, <1>3, <1>4, <1>5, <1>6

LEMMA StepKeepsInv == Inv /\ [Next]_vars => Inv'
<1> SUFFICES ASSUME Inv, [Next]_vars PROVE Inv'
  BY Zenon
<1>1. CASE IteratorStep
  BY Zenon, <1>1, IteratorKeeps
<1>2. CASE AdvanceStep
  BY Zenon, <1>2, StartKeeps, SelectKeeps, ReadingKeeps DEF AdvanceStep
<1>3. CASE Close \/ UNCHANGED vars
  BY Zenon, <1>3, CloseKeeps
<1>4. CASE \E n \in Node : QueryStep(n)
  BY Zenon, <1>4, QueryKeeps
<1> QED
  BY Zenon, <1>1, <1>2, <1>3, <1>4 DEF Next

LEMMA Invariance == Spec => []Inv
BY InitHolds, StepKeepsInv, PTL DEF Spec

---------------------------------------------------------------------------
(* Theorems *)

(* Types; in particular no more than alpha queries run at a time.          *)
THEOREM TypeCorrect == Spec => []TypeOK
<1>1. Inv => TypeOK
  BY Zenon DEF Inv
<1> QED
  BY <1>1, Invariance, PTL

(* it.queries counts the query goroutines and the unread replies, no query *)
(* finds it.queryfunc nil, and a search that ends leaves nothing behind,   *)
(* for any alpha, any nodes and any number of searches.                    *)
THEOREM QueriesAreCounted == Spec => []QueriesAccounted
<1>1. Inv => QueriesAccounted
  BY Zenon DEF Inv, QueryInv
<1> QED
  BY <1>1, Invariance, PTL

(* push leaves in the result of a search the closest of all nodes seen, in *)
(* order, for any bucketSize.                                              *)
THEOREM ResultClosest == Spec => []ResultIsClosest
<1>1. Inv => ResultIsClosest
  BY Zenon DEF Inv, ResultInv
<1> QED
  BY <1>1, Invariance, PTL

(* advance gives a search up only when all nodes of the result have been   *)
(* asked, unless the context is done.                                      *)
THEOREM SearchCompletes == Spec => []SearchIsComplete
<1>1. Inv => SearchIsComplete
  BY Zenon DEF Inv, ResultInv
<1> QED
  BY <1>1, Invariance, PTL

(* Next hands out every node that a search has seen, and each once; the    *)
(* array it shares with the search is free when a reply is written to it.  *)
THEOREM NodesAreDeliveredOnce == Spec => []EachNodeOnce
<1>1. Inv => EachNodeOnce
  BY Zenon DEF Inv, ControlInv, DeliveryInv, EachNodeOnce
<1> QED
  BY <1>1, Invariance, PTL
===========================================================================
