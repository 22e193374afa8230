---------------------------- MODULE TableProofs ----------------------------
(***************************************************************************)
(* The node table holds every node once and within its limits, gives up an *)
(* entry and stops counting an address only for the reasons the code       *)
(* intends, and its loop closes no channel twice: for any sets of nodes,   *)
(* buckets and networks, any limits and any number of callers.             *)
(***************************************************************************)
EXTENDS TableLoop, SequenceTheorems, TLAPS

---------------------------------------------------------------------------
(* Lists.  What the functions of TableStore do to a list of nodes, told by *)
(* its length, its values, its IDs and whether these are distinct.         *)

(* A sequence has a length and values.                                     *)
LEMMA ListValue ==
  ASSUME NEW list \in Seq(Node)
  PROVE  /\ Len(list) \in Nat
         /\ \A i \in 1 .. Len(list) : list[i] \in Node /\ list[i].id \in ID /\ list[i].ip \in IP
<1>1. Len(list) \in Nat /\ \A i \in 1 .. Len(list) : list[i] \in Node
  BY Zenon, LenProperties
<1> QED
  BY Zenon, <1>1 DEF Node

(* A function on 1 .. k whose values are nodes is a list of k nodes.       *)
LEMMA MakesList ==
  ASSUME NEW k \in Nat, NEW f \in [1 .. k -> Node]
  PROVE  f \in Seq(Node) /\ Len(f) = k
<1>1. f \in Seq(Node)
  BY Zenon, SeqDef
<1>2. DOMAIN f = 1 .. k /\ DOMAIN f = 1 .. Len(f) /\ Len(f) \in Nat
  BY Zenon, <1>1, LenProperties
<1> QED
  BY <1>1, <1>2

(* In a list without doubles, indexOf finds the node of an ID.             *)
LEMMA IndexFound ==
  ASSUME NEW list \in Seq(Node), NEW id, distinct(list), contains(list, id)
  PROVE  indexOf(list, id) \in 1 .. Len(list) /\ list[indexOf(list, id)].id = id
<1>1. PICK i \in 1 .. Len(list) : list[i].id = id
  BY Zenon DEF contains
<1>2. Len(list) \in Nat
  BY Zenon, ListValue
<1>3. \A j \in 1 .. i - 1 : list[j].id # id
  BY <1>1, <1>2 DEF distinct
<1> QED
  BY Zenon, <1>1, <1>3 DEF indexOf

(* removeAt closes the gap.                                                *)
LEMMA RemoveAtValue ==
  ASSUME NEW list \in Seq(Node), NEW i \in 1 .. Len(list)
  PROVE  /\ removeAt(list, i) \in Seq(Node)
         /\ Len(removeAt(list, i)) = Len(list) - 1
         /\ \A j \in 1 .. Len(list) - 1 :
              removeAt(list, i)[j] = IF j < i THEN list[j] ELSE list[j + 1]
<1>1. Len(list) \in Nat /\ \A j \in 1 .. Len(list) : list[j] \in Node
  BY Zenon, ListValue
<1>2. Len(list) - 1 \in Nat
  BY <1>1
<1>3. removeAt(list, i) \in [1 .. Len(list) - 1 -> Node]
  BY <1>1 DEF removeAt
<1>4. removeAt(list, i) \in Seq(Node) /\ Len(removeAt(list, i)) = Len(list) - 1
  BY Zenon, <1>2, <1>3, MakesList
<1> QED
  BY Zenon, <1>4 DEF removeAt

(* It takes one ID from a list without doubles.                            *)
LEMMA RemoveAtIds ==
  ASSUME NEW list \in Seq(Node), NEW i \in 1 .. Len(list), distinct(list)
  PROVE  /\ distinct(removeAt(list, i))
         /\ ids(removeAt(list, i)) = ids(list) \ {list[i].id}
<1> DEFINE m == removeAt(list, i)
<1>1. /\ Len(list) \in Nat /\ Len(m) = Len(list) - 1
      /\ \A j \in 1 .. Len(list) - 1 : m[j] = IF j < i THEN list[j] ELSE list[j + 1]
  BY Zenon, ListValue, RemoveAtValue
<1> HIDE DEF m
<1>2. distinct(m)
  <2>1. SUFFICES ASSUME NEW j \in 1 .. Len(list) - 1, NEW k \in 1 .. Len(list) - 1,
                        m[j].id = m[k].id
                 PROVE  j = k
    BY Zenon, <1>1 DEF distinct
  <2> DEFINE before(a) == IF a < i THEN a ELSE a + 1
  <2>2. ASSUME NEW a \in 1 .. Len(list) - 1
        PROVE  before(a) \in 1 .. Len(list) /\ m[a] = list[before(a)]
    <3>1. CASE a < i
      BY <1>1, <3>1
    <3>2. CASE ~(a < i)
      BY <1>1, <3>2
    <3> QED
      BY Zenon, <3>1, <3>2
  <2>3. before(j) = before(k)
    <3> HIDE DEF before
    <3> QED
      BY <2>1, <2>2 DEF distinct
  <2> QED
    BY <1>1, <2>3
<1>3. ASSUME NEW id \in ids(m) PROVE id \in ids(list) \ {list[i].id}
  <2>1. PICK j \in 1 .. Len(list) - 1 : id = m[j].id
    BY Zenon, <1>1 DEF ids
  <2>2. PICK k \in 1 .. Len(list) : k # i /\ id = list[k].id
    BY SMTT(30), <1>1, <2>1
  <2> QED
    BY Zenon, <2>2 DEF ids, distinct
<1>4. ASSUME NEW id \in ids(list) \ {list[i].id} PROVE id \in ids(m)
  <2>1. PICK k \in 1 .. Len(list) : id = list[k].id
    BY Zenon DEF ids
  <2>2. k # i
    BY Zenon, <2>1
  <2>3. \E j \in 1 .. Len(list) - 1 : id = m[j].id
    <3>1. CASE k < i
      <4>1. k \in 1 .. Len(list) - 1 /\ m[k] = list[k]
        BY <1>1, <3>1
      <4> QED
        BY Zenon, <2>1, <4>1
    <3>2. CASE k > i
      <4>1. k - 1 \in 1 .. Len(list) - 1 /\ m[k - 1] = list[k]
        BY <1>1, <3>2
      <4> QED
        BY Zenon, <2>1, <4>1
    <3>3. k < i \/ k > i
      BY <1>1, <2>2
    <3> QED
      BY Zenon, <3>1, <3>2, <3>3
  <2> QED
    BY Zenon, <1>1, <2>3 DEF ids
<1> QED
  BY Zenon, <1>2, <1>3, <1>4 DEF m

(* deleteNode takes the ID of n from a list without doubles.               *)
LEMMA DeleteNodeValue ==
  ASSUME NEW list \in Seq(Node), NEW n \in Node, distinct(list)
  PROVE  /\ deleteNode(list, n) \in Seq(Node)
         /\ Len(deleteNode(list, n)) \in Nat /\ Len(deleteNode(list, n)) <= Len(list)
         /\ distinct(deleteNode(list, n))
         /\ ids(deleteNode(list, n)) = ids(list) \ {n.id}
<1>0. Len(list) \in Nat
  BY Zenon, ListValue
<1>1. CASE contains(list, n.id)
  <2> DEFINE i == indexOf(list, n.id)
  <2>1. i \in 1 .. Len(list) /\ list[i].id = n.id
    BY Zenon, <1>1, IndexFound
  <2>2. deleteNode(list, n) = removeAt(list, i)
    BY Zenon, <1>1 DEF deleteNode
  <2> HIDE DEF i
  <2>3. /\ removeAt(list, i) \in Seq(Node) /\ Len(removeAt(list, i)) = Len(list) - 1
        /\ distinct(removeAt(list, i)) /\ ids(removeAt(list, i)) = ids(list) \ {n.id}
    BY Zenon, <2>1, RemoveAtValue, RemoveAtIds
  <2> QED
    BY <1>0, <2>1, <2>2, <2>3
<1>2. CASE ~contains(list, n.id)
  <2>1. n.id \notin ids(list)
    BY Zenon, <1>2 DEF contains, ids
  <2> QED
    BY <1>0, <1>2, <2>1 DEF deleteNode
<1> QED
  BY Zenon, <1>1, <1>2
(* m is list with n at the front, ...                                      *)
pushedOn(m, list, n) ==
  /\ Len(m) = Len(list) + 1 /\ m[1] = n
  /\ \A j \in 1 .. Len(list) : m[j + 1] = list[j]

(* ... or with n at the front and the last node gone.                      *)
pushedOver(m, list, n) ==
  /\ Len(m) = Len(list) /\ Len(list) > 0 /\ m[1] = n
  /\ \A j \in 1 .. Len(list) - 1 : m[j + 1] = list[j]

(* m is list with n at the end.                                            *)
appendedTo(m, list, n) ==
  /\ Len(m) = Len(list) + 1 /\ m[Len(list) + 1] = n
  /\ \A j \in 1 .. Len(list) : m[j] = list[j]

(* m is list with another node at place k.                                 *)
exchanged(m, list, k) ==
  /\ Len(m) = Len(list) /\ \A j \in 1 .. Len(list) : j # k => m[j] = list[j]

(* A new node pushed to the front of a list that is not full.              *)
LEMMA PushValue ==
  ASSUME NEW list \in Seq(Node), NEW n \in Node, NEW max \in Nat, Len(list) < max
  PROVE  /\ pushNode(list, n, max) \in Seq(Node)
         /\ pushedOn(pushNode(list, n, max), list, n)
<1>1. Len(list) \in Nat /\ \A j \in 1 .. Len(list) : list[j] \in Node
  BY Zenon, ListValue
<1>2. pushNode(list, n, max) = [j \in 1 .. Len(list) + 1 |-> IF j = 1 THEN n ELSE list[j - 1]]
  BY Zenon DEF pushNode
<1>3. pushNode(list, n, max) \in [1 .. Len(list) + 1 -> Node]
  BY <1>1, <1>2
<1>4. pushNode(list, n, max) \in Seq(Node) /\ Len(pushNode(list, n, max)) = Len(list) + 1
  BY <1>1, <1>3, MakesList
<1> QED
  BY <1>1, <1>2, <1>4 DEF pushedOn

(* And to the front of a full one: the last falls off.                     *)
LEMMA PushFullValue ==
  ASSUME NEW list \in Seq(Node), NEW n \in Node, NEW max \in Nat, Len(list) = max, max > 0
  PROVE  /\ pushNode(list, n, max) \in Seq(Node)
         /\ pushedOver(pushNode(list, n, max), list, n)
<1>1. Len(list) \in Nat /\ \A j \in 1 .. Len(list) : list[j] \in Node
  BY Zenon, ListValue
<1>2. pushNode(list, n, max) = [j \in 1 .. Len(list) |-> IF j = 1 THEN n ELSE list[j - 1]]
  BY DEF pushNode
<1>3. pushNode(list, n, max) \in [1 .. Len(list) -> Node]
  BY <1>1, <1>2
<1>4. pushNode(list, n, max) \in Seq(Node) /\ Len(pushNode(list, n, max)) = Len(list)
  BY Zenon, <1>1, <1>3, MakesList
<1> QED
  BY <1>1, <1>2, <1>4 DEF pushedOver

(* A new first node makes one more ID.                                     *)
LEMMA NewFirst ==
  ASSUME NEW list \in Seq(Node), NEW m \in Seq(Node), NEW n \in Node,
         pushedOn(m, list, n), distinct(list), n.id \notin ids(list)
  PROVE  distinct(m) /\ ids(m) = ids(list) \cup {n.id}
<1> USE DEF pushedOn
<1>0. Len(list) \in Nat
  BY Zenon, ListValue
<1>1. \A j \in 1 .. Len(m) : j # 1 => j - 1 \in 1 .. Len(list) /\ m[j] = list[j - 1]
  BY <1>0
<1>2. ASSUME NEW i \in 1 .. Len(m), NEW j \in 1 .. Len(m), m[i].id = m[j].id PROVE i = j
  <2>1. CASE i # 1 /\ j # 1
    <3>1. /\ i - 1 \in 1 .. Len(list) /\ j - 1 \in 1 .. Len(list)
          /\ list[i - 1].id = list[j - 1].id
      BY Zenon, <1>1, <1>2, <2>1
    <3>2. i - 1 = j - 1
      BY Zenon, <3>1 DEF distinct
    <3> QED
      BY <1>0, <3>2
  <2>2. CASE i = 1 /\ j # 1
    BY Zenon, <1>1, <1>2, <2>2 DEF ids
  <2>3. CASE i # 1 /\ j = 1
    BY Zenon, <1>1, <1>2, <2>3 DEF ids
  <2> QED
    BY Zenon, <2>1, <2>2, <2>3
<1>3. ASSUME NEW id \in ids(m) PROVE id \in ids(list) \cup {n.id}
  <2>1. PICK j \in 1 .. Len(m) : id = m[j].id
    BY Zenon DEF ids
  <2>2. CASE j # 1
    <3>1. j - 1 \in 1 .. Len(list) /\ id = list[j - 1].id
      BY Zenon, <1>1, <2>1, <2>2
    <3> QED
      BY Zenon, <3>1 DEF ids
  <2> QED
    BY Zenon, <2>1, <2>2
<1>4. ASSUME NEW id \in ids(list) PROVE id \in ids(m)
  <2>1. PICK j \in 1 .. Len(list) : id = list[j].id
    BY Zenon DEF ids
  <2>2. j + 1 \in 1 .. Len(m) /\ m[j + 1].id = id
    BY <1>0, <2>1
  <2> QED
    BY Zenon, <2>2 DEF ids
<1>5. n.id \in ids(m)
  <2>1. 1 \in 1 .. Len(m)
    BY <1>0
  <2> QED
    BY Zenon, <2>1 DEF ids
<1> QED
  BY Zenon, <1>2, <1>3, <1>4, <1>5 DEF distinct
(* A new first node that pushes the last one off: no ID comes twice.       *)
LEMMA NewFirstFull ==
  ASSUME NEW list \in Seq(Node), NEW m \in Seq(Node), NEW n \in Node,
         pushedOver(m, list, n), distinct(list), n.id \notin ids(list)
  PROVE  distinct(m) /\ ids(m) \subseteq ids(list) \cup {n.id}
<1> USE DEF pushedOver
<1>0. Len(list) \in Nat
  BY Zenon, ListValue
<1>1. \A j \in 1 .. Len(m) : j # 1 => j - 1 \in 1 .. Len(list) /\ m[j] = list[j - 1]
  BY <1>0
<1>2. ASSUME NEW i \in 1 .. Len(m), NEW j \in 1 .. Len(m), m[i].id = m[j].id PROVE i = j
  <2>1. CASE i # 1 /\ j # 1
    <3>1. /\ i - 1 \in 1 .. Len(list) /\ j - 1 \in 1 .. Len(list)
          /\ list[i - 1].id = list[j - 1].id
      BY Zenon, <1>1, <1>2, <2>1
    <3>2. i - 1 = j - 1
      BY Zenon, <3>1 DEF distinct
    <3> QED
      BY <1>0, <3>2
  <2>2. CASE i = 1 /\ j # 1
    BY Zenon, <1>1, <1>2, <2>2 DEF ids
  <2>3. CASE i # 1 /\ j = 1
    BY <1>1, <1>2, <2>3 DEF ids
  <2> QED
    BY Zenon, <2>1, <2>2, <2>3
<1>3. ASSUME NEW id \in ids(m) PROVE id \in ids(list) \cup {n.id}
  <2>1. PICK j \in 1 .. Len(m) : id = m[j].id
    BY Zenon DEF ids
  <2>2. CASE j # 1
    <3>1. j - 1 \in 1 .. Len(list) /\ id = list[j - 1].id
      BY Zenon, <1>1, <2>1, <2>2
    <3> QED
      BY Zenon, <3>1 DEF ids
  <2> QED
    BY Zenon, <2>1, <2>2
<1> QED
  BY Zenon, <1>2, <1>3 DEF distinct

(* An appended node makes one more ID.                                     *)
LEMMA NewLast ==
  ASSUME NEW list \in Seq(Node), NEW n \in Node, distinct(list), n.id \notin ids(list)
  PROVE  /\ Append(list, n) \in Seq(Node)
         /\ appendedTo(Append(list, n), list, n)
         /\ distinct(Append(list, n))
         /\ ids(Append(list, n)) = ids(list) \cup {n.id}
<1> DEFINE m == Append(list, n)
<1>0. /\ Len(list) \in Nat /\ m \in Seq(Node) /\ Len(m) = Len(list) + 1
      /\ \A j \in 1 .. Len(list) : m[j] = list[j]
      /\ m[Len(list) + 1] = n
  BY ListValue, AppendProperties
<1> HIDE DEF m
<1>1. \A j \in 1 .. Len(m) : j \in 1 .. Len(list) \/ j = Len(list) + 1
  BY <1>0
<1>2. ASSUME NEW i \in 1 .. Len(m), NEW j \in 1 .. Len(m), m[i].id = m[j].id PROVE i = j
  BY <1>0, <1>1, <1>2 DEF distinct, ids
<1>3. ASSUME NEW id \in ids(m) PROVE id \in ids(list) \cup {n.id}
  BY Zenon, <1>0, <1>1 DEF ids
<1>4. ASSUME NEW id \in ids(list) PROVE id \in ids(m)
  <2>1. PICK j \in 1 .. Len(list) : id = list[j].id
    BY Zenon DEF ids
  <2>2. j \in 1 .. Len(m) /\ m[j].id = id
    BY <1>0, <2>1
  <2> QED
    BY Zenon, <2>2 DEF ids
<1>5. n.id \in ids(m)
  <2>1. Len(list) + 1 \in 1 .. Len(m)
    BY <1>0
  <2> QED
    BY Zenon, <1>0, <2>1 DEF ids
<1>6. distinct(m) /\ ids(m) = ids(list) \cup {n.id}
  BY <1>2, <1>3, <1>4, <1>5 DEF distinct
<1> QED
  BY Zenon, <1>0, <1>6 DEF m, appendedTo

(* A node in place of another one.                                         *)
LEMMA Replaced ==
  ASSUME NEW list \in Seq(Node), NEW n \in Node, NEW k \in 1 .. Len(list),
         distinct(list), n.id \notin ids(list)
  PROVE  LET m == [list EXCEPT ![k] = n]
         IN /\ m \in Seq(Node) /\ exchanged(m, list, k) /\ m[k] = n
            /\ distinct(m)
            /\ ids(m) = (ids(list) \ {list[k].id}) \cup {n.id}
<1> DEFINE m == [list EXCEPT ![k] = n]
<1>0. /\ Len(list) \in Nat /\ m \in Seq(Node) /\ Len(m) = Len(list)
      /\ \A j \in 1 .. Len(list) : m[j] = IF j = k THEN n ELSE list[j]
  BY ListValue, ExceptSeq
<1> HIDE DEF m
<1>1. distinct(m)
  BY <1>0 DEF distinct, ids
<1>2. ASSUME NEW id \in ids(m) PROVE id \in (ids(list) \ {list[k].id}) \cup {n.id}
  BY <1>0 DEF ids, distinct
<1>3. ASSUME NEW id \in ids(list) \ {list[k].id} PROVE id \in ids(m)
  <2>1. PICK j \in 1 .. Len(list) : id = list[j].id
    BY Zenon DEF ids
  <2>2. m[j].id = id
    BY Zenon, <1>0, <2>1
  <2> QED
    BY Zenon, <1>0, <2>2 DEF ids
<1>4. n.id \in ids(m)
  BY Zenon, <1>0 DEF ids
<1> QED
  BY Zenon, <1>0, <1>1, <1>2, <1>3, <1>4 DEF m, exchanged
(* An entry that moves to the front with a new record of the same ID.      *)
LEMMA Bumped ==
  ASSUME NEW list \in Seq(Node), NEW n \in Node, NEW i \in 1 .. Len(list),
         distinct(list), list[i].id = n.id
  PROVE  LET m == <<n>> \o removeAt(list, i)
         IN /\ m \in Seq(Node) /\ Len(m) = Len(list) /\ pushedOn(m, removeAt(list, i), n)
            /\ distinct(m) /\ ids(m) = ids(list)
<1> DEFINE rest == removeAt(list, i)
           m == <<n>> \o rest
<1>1. /\ rest \in Seq(Node) /\ Len(list) \in Nat /\ Len(rest) = Len(list) - 1
      /\ distinct(rest) /\ ids(rest) = ids(list) \ {n.id}
  BY Zenon, ListValue, RemoveAtValue, RemoveAtIds
<1> HIDE DEF rest
<1>2. <<n>> \in Seq(Node) /\ Len(<<n>>) = 1 /\ <<n>>[1] = n
  OBVIOUS
<1>3. /\ m \in Seq(Node) /\ Len(m) = Len(rest) + 1
      /\ \A j \in 1 .. Len(rest) + 1 : m[j] = IF j <= 1 THEN n ELSE rest[j - 1]
  BY <1>1, <1>2, ConcatProperties
<1> HIDE DEF m
<1>4. pushedOn(m, rest, n)
  <2>1. m[1] = n
    BY <1>1, <1>3
  <2>2. ASSUME NEW j \in 1 .. Len(rest) PROVE m[j + 1] = rest[j]
    <3>1. j + 1 \in 1 .. Len(rest) + 1 /\ ~(j + 1 <= 1) /\ (j + 1) - 1 = j
      BY <1>1
    <3> QED
      BY Zenon, <1>3, <3>1
  <2> QED
    BY Zenon, <1>3, <2>1, <2>2 DEF pushedOn
<1>5. distinct(m) /\ ids(m) = ids(rest) \cup {n.id}
  BY <1>1, <1>3, <1>4, NewFirst
<1>6. n.id \in ids(list)
  BY Zenon DEF ids
<1>7. Len(m) = Len(list) /\ ids(m) = ids(list)
  BY <1>1, <1>3, <1>5, <1>6
<1> QED
  BY Zenon, <1>3, <1>4, <1>5, <1>7 DEF m, rest

---------------------------------------------------------------------------
(* Counting.  How many nodes of a network a list holds.                    *)

(* 1 if n is in network s.                                                 *)
one(n, s) == IF netOf[n.ip] = s THEN 1 ELSE 0

(* The places of list, but those in X, that hold a node of network s.      *)
places(list, X, s) == {i \in (1 .. Len(list)) \ X : netOf[list[i].ip] = s}

(* f matches the places of list, but those in X, with those of m, but those *)
(* in Y, and the values there.                                             *)
matches(f, list, X, m, Y) ==
  /\ f \in [(1 .. Len(list)) \ X -> (1 .. Len(m)) \ Y]
  /\ \A i \in (1 .. Len(list)) \ X : m[f[i]] = list[i]
  /\ \A i, j \in (1 .. Len(list)) \ X : f[i] = f[j] => i = j
  /\ \A k \in (1 .. Len(m)) \ Y : \E i \in (1 .. Len(list)) \ X : f[i] = k

(* What is needed of the number of nodes in a list: it is a natural        *)
(* number, one place makes a difference of one, and lists that match have  *)
(* as many.  This is proved last, from the theorems about finite sets; the *)
(* lemmas in between assume it.                                            *)
Counts ==
  /\ \A list \in Seq(Node) : \A X, s : Cardinality(places(list, X, s)) \in Nat
  /\ \A list \in Seq(Node) : \A s : inNet(list, s) \in Nat
  /\ \A list \in Seq(Node) : \A k \in 1 .. Len(list) : \A s :
       /\ inNet(list, s) = Cardinality(places(list, {k}, s)) + one(list[k], s)
       /\ inNet(list, s) = Cardinality(places(list, {}, s))
  /\ \A list, m \in Seq(Node) : \A X, Y, s, f : matches(f, list, X, m, Y) =>
       Cardinality(places(list, X, s)) = Cardinality(places(m, Y, s))

LEMMA PlacesCount ==
  ASSUME Counts, NEW list \in Seq(Node), NEW X, NEW s
  PROVE  Cardinality(places(list, X, s)) \in Nat
  BY Zenon DEF Counts

LEMMA CountIsNat ==
  ASSUME Counts, NEW list \in Seq(Node), NEW s
  PROVE  inNet(list, s) \in Nat
  BY Zenon DEF Counts

LEMMA CountSplit ==
  ASSUME Counts, NEW list \in Seq(Node), NEW k \in 1 .. Len(list), NEW s
  PROVE  /\ inNet(list, s) = Cardinality(places(list, {k}, s)) + one(list[k], s)
         /\ inNet(list, s) = Cardinality(places(list, {}, s))
         /\ inNet(list, s) \in Nat
  BY Zenon DEF Counts

LEMMA CountMatch ==
  ASSUME Counts, NEW list \in Seq(Node), NEW m \in Seq(Node), NEW X, NEW Y, NEW s,
         NEW f, matches(f, list, X, m, Y)
  PROVE  Cardinality(places(list, X, s)) = Cardinality(places(m, Y, s))
  BY DEF Counts

(* A node more, at the front or at the end.                                *)
LEMMA CountFirst ==
  ASSUME Counts, NEW list \in Seq(Node), NEW m \in Seq(Node), NEW n \in Node, NEW s,
         pushedOn(m, list, n)
  PROVE  /\ inNet(m, s) = inNet(list, s) + one(n, s)
         /\ inNet(list, s) \in Nat /\ inNet(m, s) \in Nat
<1> USE DEF pushedOn
<1> DEFINE f == [j \in (1 .. Len(list)) \ {} |-> j + 1]
<1>0. Len(list) \in Nat /\ 1 \in 1 .. Len(m)
  BY ListValue
<1>1. f \in [(1 .. Len(list)) \ {} -> (1 .. Len(m)) \ {1}]
  BY <1>0
<1>2. \A i, j \in (1 .. Len(list)) \ {} : f[i] = f[j] => i = j
  BY <1>0
<1>3. ASSUME NEW k \in (1 .. Len(m)) \ {1} PROVE \E i \in (1 .. Len(list)) \ {} : f[i] = k
  <2>1. k - 1 \in (1 .. Len(list)) \ {} /\ f[k - 1] = k
    BY <1>0
  <2> QED
    BY Zenon, <2>1
<1>4. \A i \in (1 .. Len(list)) \ {} : m[f[i]] = list[i]
  BY Zenon
<1>5. Cardinality(places(list, {}, s)) = Cardinality(places(m, {1}, s))
  <2>1. matches(f, list, {}, m, {1})
    <3> HIDE DEF f
    <3> QED
      BY Zenon, <1>1, <1>2, <1>3, <1>4 DEF matches
  <2> HIDE DEF f
  <2> QED
    BY <2>1, CountMatch
<1>6. inNet(m, s) = Cardinality(places(m, {1}, s)) + one(n, s) /\ inNet(m, s) \in Nat
  BY Zenon, <1>0, CountSplit
<1>7. inNet(list, s) = Cardinality(places(list, {}, s))
  BY Zenon DEF inNet, places
<1> QED
  BY Zenon, <1>5, <1>6, <1>7, PlacesCount

LEMMA CountLast ==
  ASSUME Counts, NEW list \in Seq(Node), NEW m \in Seq(Node), NEW n \in Node, NEW s,
         appendedTo(m, list, n)
  PROVE  /\ inNet(m, s) = inNet(list, s) + one(n, s)
         /\ inNet(list, s) \in Nat /\ inNet(m, s) \in Nat
<1> USE DEF appendedTo
<1> DEFINE k == Len(list) + 1
<1>0. Len(list) \in Nat /\ k \in 1 .. Len(m)
  BY ListValue
<1>1. places(list, {}, s) = places(m, {k}, s)
  BY <1>0 DEF places
<1> HIDE DEF k
<1>2. inNet(m, s) = Cardinality(places(m, {k}, s)) + one(m[k], s) /\ inNet(m, s) \in Nat
  BY Zenon, <1>0, CountSplit
<1>3. inNet(list, s) = Cardinality(places(list, {}, s))
  BY Zenon DEF inNet, places
<1> QED
  BY Zenon, <1>1, <1>2, <1>3, PlacesCount DEF k

(* A node at the front of a full list: the last one is no longer counted.  *)
LEMMA CountFirstFull ==
  ASSUME Counts, NEW list \in Seq(Node), NEW m \in Seq(Node), NEW n \in Node, NEW s,
         pushedOver(m, list, n)
  PROVE  /\ inNet(m, s) + one(list[Len(list)], s) = inNet(list, s) + one(n, s)
         /\ inNet(list, s) \in Nat /\ inNet(m, s) \in Nat
<1> USE DEF pushedOver
<1> DEFINE l == Len(list)
           f == [j \in (1 .. l) \ {l} |-> j + 1]
<1>0. l \in Nat /\ 1 \in 1 .. Len(m) /\ l \in 1 .. Len(list)
  BY ListValue
<1>1. f \in [(1 .. l) \ {l} -> (1 .. Len(m)) \ {1}]
  BY <1>0
<1>2. \A i, j \in (1 .. l) \ {l} : f[i] = f[j] => i = j
  BY <1>0
<1>3. ASSUME NEW k \in (1 .. Len(m)) \ {1} PROVE \E i \in (1 .. l) \ {l} : f[i] = k
  <2>1. k - 1 \in (1 .. l) \ {l} /\ f[k - 1] = k
    BY <1>0
  <2> QED
    BY Zenon, <2>1
<1>4. \A i \in (1 .. l) \ {l} : m[f[i]] = list[i]
  BY <1>0
<1>5. Cardinality(places(list, {l}, s)) = Cardinality(places(m, {1}, s))
  <2>1. matches(f, list, {l}, m, {1})
    <3> HIDE DEF f
    <3> QED
      BY Zenon, <1>1, <1>2, <1>3, <1>4 DEF matches
  <2> HIDE DEF f
  <2> QED
    BY <2>1, CountMatch
<1>6. inNet(m, s) = Cardinality(places(m, {1}, s)) + one(n, s) /\ inNet(m, s) \in Nat
  BY Zenon, <1>0, CountSplit
<1>7. inNet(list, s) = Cardinality(places(list, {l}, s)) + one(list[l], s) /\ inNet(list, s) \in Nat
  <2> HIDE DEF l
  <2> QED
    BY Zenon, <1>0, CountSplit
<1>8. Cardinality(places(list, {l}, s)) \in Nat /\ one(n, s) \in Nat /\ one(list[l], s) \in Nat
  BY Zenon, PlacesCount DEF one
<1> QED
  BY <1>5, <1>6, <1>7, <1>8

(* A node in place of another.                                             *)
LEMMA CountReplaced ==
  ASSUME Counts, NEW list \in Seq(Node), NEW m \in Seq(Node), NEW k \in 1 .. Len(list), NEW s,
         exchanged(m, list, k)
  PROVE  /\ inNet(m, s) + one(list[k], s) = inNet(list, s) + one(m[k], s)
         /\ inNet(list, s) \in Nat /\ inNet(m, s) \in Nat
<1>1. places(list, {k}, s) = places(m, {k}, s) /\ k \in 1 .. Len(m)
  BY Zenon DEF places, exchanged
<1>2. /\ inNet(m, s) = Cardinality(places(m, {k}, s)) + one(m[k], s) /\ inNet(m, s) \in Nat
      /\ inNet(list, s) = Cardinality(places(list, {k}, s)) + one(list[k], s)
      /\ inNet(list, s) \in Nat
  BY Zenon, <1>1, CountSplit
<1>3. Cardinality(places(list, {k}, s)) \in Nat
  BY Zenon, PlacesCount
<1> QED
  BY <1>1, <1>2, <1>3 DEF one

(* A node less.                                                            *)
LEMMA CountRemoved ==
  ASSUME Counts, NEW list \in Seq(Node), NEW i \in 1 .. Len(list), NEW s
  PROVE  /\ inNet(removeAt(list, i), s) + one(list[i], s) = inNet(list, s)
         /\ inNet(list, s) \in Nat /\ inNet(removeAt(list, i), s) \in Nat
<1> DEFINE m == removeAt(list, i)
           f == [j \in (1 .. Len(m)) \ {} |-> IF j < i THEN j ELSE j + 1]
<1>0. /\ Len(list) \in Nat /\ m \in Seq(Node) /\ Len(m) = Len(list) - 1
      /\ \A j \in 1 .. Len(list) - 1 : m[j] = IF j < i THEN list[j] ELSE list[j + 1]
  BY Zenon, ListValue, RemoveAtValue
<1> HIDE DEF m
<1>1. f \in [(1 .. Len(m)) \ {} -> (1 .. Len(list)) \ {i}]
  BY <1>0
<1>2. \A j, k \in (1 .. Len(m)) \ {} : f[j] = f[k] => j = k
  BY <1>0
<1>3. ASSUME NEW k \in (1 .. Len(list)) \ {i} PROVE \E j \in (1 .. Len(m)) \ {} : f[j] = k
  <2>1. CASE k < i
    <3>1. k \in (1 .. Len(m)) \ {} /\ f[k] = k
      BY <1>0, <2>1
    <3> QED
      BY Zenon, <3>1
  <2>2. CASE k > i
    <3>1. k - 1 \in (1 .. Len(m)) \ {} /\ f[k - 1] = k
      BY <1>0, <2>2
    <3> QED
      BY Zenon, <3>1
  <2>3. k < i \/ k > i
    BY <1>0
  <2> QED
    BY Zenon, <2>1, <2>2, <2>3
<1>4. ASSUME NEW j \in (1 .. Len(m)) \ {} PROVE list[f[j]] = m[j]
  BY Zenon, <1>0
<1>5. Cardinality(places(m, {}, s)) = Cardinality(places(list, {i}, s))
  <2>1. matches(f, m, {}, list, {i})
    <3> HIDE DEF f
    <3> QED
      BY Zenon, <1>1, <1>2, <1>3, <1>4 DEF matches
  <2> HIDE DEF f
  <2> QED
    BY <1>0, <2>1, CountMatch
<1>6. inNet(list, s) = Cardinality(places(list, {i}, s)) + one(list[i], s) /\ inNet(list, s) \in Nat
  BY Zenon, CountSplit
<1>7. inNet(m, s) = Cardinality(places(m, {}, s))
  BY Zenon DEF inNet, places
<1> QED
  BY Zenon, <1>0, <1>5, <1>6, <1>7, PlacesCount DEF m
---------------------------------------------------------------------------
(* Counters.  addIP and removeIP change the count of one network, in the   *)
(* table and in one bucket, and nothing else.                              *)

(* t2 has the lists of t, and of the counters only those of b may differ.  *)
recounts(t, t2, b) ==
  /\ t2 \in Table
  /\ t2.entries = t.entries /\ t2.replacements = t.replacements
  /\ \A a \in Bucket \ {b} : t2.bucketIPs[a] = t.bucketIPs[a]

counting(t, b, s, x, y) == [t EXCEPT !.ips[s] = x, !.bucketIPs[b][s] = y]

LEMMA Recounted ==
  ASSUME NEW t \in Table, NEW b \in Bucket, NEW s \in Subnet,
         NEW x \in 0 .. tableIPLimit, NEW y \in 0 .. bucketIPLimit
  PROVE  /\ recounts(t, counting(t, b, s, x, y), b)
         /\ counting(t, b, s, x, y).ips = [t.ips EXCEPT ![s] = x]
         /\ counting(t, b, s, x, y).bucketIPs[b] = [t.bucketIPs[b] EXCEPT ![s] = y]
<1> DEFINE ips2 == [t.ips EXCEPT ![s] = x]
           bips2 == [t.bucketIPs EXCEPT ![b] = [t.bucketIPs[b] EXCEPT ![s] = y]]
           t2 == counting(t, b, s, x, y)
<1>1. /\ t.ips \in [Subnet -> 0 .. tableIPLimit]
      /\ t.bucketIPs \in [Bucket -> [Subnet -> 0 .. bucketIPLimit]]
      /\ t.entries \in [Bucket -> Seq(Node)] /\ t.replacements \in [Bucket -> Seq(Node)]
  BY Zenon DEF Table
<1>2. /\ ips2 \in [Subnet -> 0 .. tableIPLimit]
      /\ bips2 \in [Bucket -> [Subnet -> 0 .. bucketIPLimit]]
      /\ bips2[b] = [t.bucketIPs[b] EXCEPT ![s] = y]
      /\ \A a \in Bucket \ {b} : bips2[a] = t.bucketIPs[a]
  BY Zenon, <1>1
<1>3. t2 = [t EXCEPT !.ips = ips2, !.bucketIPs = bips2]
  BY Zenon, <1>1 DEF Table, counting
<1> HIDE DEF ips2, bips2, t2
<1>5. /\ t2 \in Table /\ t2.entries = t.entries /\ t2.replacements = t.replacements
      /\ t2.bucketIPs = bips2 /\ t2.ips = ips2
  BY Zenon, <1>1, <1>2, <1>3 DEF Table
<1>6. recounts(t, t2, b)
  BY Zenon, <1>2, <1>5 DEF recounts
<1> QED
  BY Zenon, <1>2, <1>5, <1>6 DEF ips2, t2

(* What the counters of t2 differ from those of t by.                      *)
LEMMA AddIPValue ==
  ASSUME NEW t \in Table, NEW b \in Bucket, NEW ip \in IP, fits(t, b, ip)
  PROVE  /\ recounts(t, addIP(t, b, ip), b)
         /\ \A s \in Subnet : addIP(t, b, ip).bucketIPs[b][s]
                              = t.bucketIPs[b][s] + IF netOf[ip] = s THEN 1 ELSE 0
<1>0. /\ t.ips \in [Subnet -> 0 .. tableIPLimit]
      /\ t.bucketIPs \in [Bucket -> [Subnet -> 0 .. bucketIPLimit]]
      /\ tableIPLimit \in Nat /\ bucketIPLimit \in Nat
  BY Zenon, TableAssumption DEF Table
<1>1. CASE netOf[ip] \in Subnet
  <2> DEFINE z == netOf[ip]
             x == t.ips[z] + 1
             y == t.bucketIPs[b][z] + 1
  <2>1. x \in 0 .. tableIPLimit /\ y \in 0 .. bucketIPLimit
    BY <1>0, <1>1 DEF fits
  <2>2. addIP(t, b, ip) = counting(t, b, z, x, y)
    BY Zenon, <1>0, <1>1 DEF addIP, Table, counting
  <2>3. z \in Subnet
    BY Zenon, <1>1
  <2> HIDE DEF x, y, z
  <2> DEFINE t2 == counting(t, b, z, x, y)
  <2>4. /\ recounts(t, t2, b)
        /\ t2.ips = [t.ips EXCEPT ![z] = x]
        /\ t2.bucketIPs[b] = [t.bucketIPs[b] EXCEPT ![z] = y]
    BY <2>1, <2>3, Recounted
  <2> HIDE DEF t2
  <2>5. \A s \in Subnet : addIP(t, b, ip).bucketIPs[b][s] = IF z = s THEN y ELSE t.bucketIPs[b][s]
    BY Zenon, <1>0, <2>2, <2>3, <2>4 DEF t2
  <2>6. \A s \in Subnet : t.bucketIPs[b][s] \in Nat
    BY <1>0
  <2>7. recounts(t, addIP(t, b, ip), b)
    BY Zenon, <2>2, <2>4 DEF t2
  <2>8. ASSUME NEW s \in Subnet
        PROVE  addIP(t, b, ip).bucketIPs[b][s]
                 = t.bucketIPs[b][s] + IF netOf[ip] = s THEN 1 ELSE 0
    BY <2>5, <2>6 DEF y, z
  <2> QED
    BY Zenon, <2>7, <2>8
<1>2. CASE netOf[ip] \notin Subnet
  <2>1. addIP(t, b, ip) = t
    BY Zenon, <1>2 DEF addIP
  <2> QED
    BY <1>0, <1>2, <2>1 DEF recounts
<1> QED
  BY Zenon, <1>1, <1>2

LEMMA RemoveIPValue ==
  ASSUME NEW t \in Table, NEW b \in Bucket, NEW ip \in IP
  PROVE  /\ recounts(t, removeIP(t, b, ip), b)
         /\ \A s \in Subnet :
              /\ removeIP(t, b, ip).bucketIPs[b][s]
                   = IF netOf[ip] = s THEN minusOne(t.bucketIPs[b][s]) ELSE t.bucketIPs[b][s]
              /\ removeIP(t, b, ip).ips[s]
                   = IF netOf[ip] = s THEN minusOne(t.ips[s]) ELSE t.ips[s]
<1>0. /\ t.ips \in [Subnet -> 0 .. tableIPLimit]
      /\ t.bucketIPs \in [Bucket -> [Subnet -> 0 .. bucketIPLimit]]
      /\ tableIPLimit \in Nat /\ bucketIPLimit \in Nat
  BY Zenon, TableAssumption DEF Table
<1>1. CASE netOf[ip] \in Subnet
  <2> DEFINE z == netOf[ip]
             x == minusOne(t.ips[z])
             y == minusOne(t.bucketIPs[b][z])
  <2>1. x \in 0 .. tableIPLimit /\ y \in 0 .. bucketIPLimit
    BY <1>0, <1>1 DEF minusOne
  <2>2. removeIP(t, b, ip) = counting(t, b, z, x, y)
    BY Zenon, <1>0, <1>1 DEF removeIP, Table, counting
  <2>3. z \in Subnet
    BY Zenon, <1>1
  <2> HIDE DEF x, y, z
  <2> DEFINE t2 == counting(t, b, z, x, y)
  <2>4. /\ recounts(t, t2, b)
        /\ t2.bucketIPs[b] = [t.bucketIPs[b] EXCEPT ![z] = y]
        /\ t2.ips = [t.ips EXCEPT ![z] = x]
    BY <2>1, <2>3, Recounted
  <2> HIDE DEF t2
  <2>5. \A s \in Subnet :
           /\ removeIP(t, b, ip).bucketIPs[b][s] = IF z = s THEN y ELSE t.bucketIPs[b][s]
           /\ removeIP(t, b, ip).ips[s] = IF z = s THEN x ELSE t.ips[s]
    BY <1>0, <2>2, <2>3, <2>4 DEF t2
  <2> QED
    BY Zenon, <2>2, <2>4, <2>5 DEF t2, x, y, z
<1>2. CASE netOf[ip] \notin Subnet
  <2>1. removeIP(t, b, ip) = t
    BY Zenon, <1>2 DEF removeIP
  <2> QED
    BY Zenon, <1>0, <1>2, <2>1 DEF recounts
<1> QED
  BY Zenon, <1>1, <1>2
---------------------------------------------------------------------------
(* Tables *)

(* The lists of a bucket: within their bounds, each node once, and only    *)
(* nodes of this bucket.                                                   *)
goodBucket(E, R, b) ==
  /\ E \in Seq(Node) /\ R \in Seq(Node)
  /\ Len(E) <= bucketSize /\ Len(R) <= maxReplacements
  /\ distinct(E) /\ distinct(R) /\ ids(E) \cap ids(R) = {}
  /\ \A id \in ids(E) \cup ids(R) : bucketOf[id] = b

goodTable(t) ==
  /\ t \in Table
  /\ \A b \in Bucket : goodBucket(t.entries[b], t.replacements[b], b)

(* A change that keeps the table good, every entry, and what is counted    *)
(* for the nodes.                                                          *)
keeps(t, t2) ==
  /\ goodTable(t2)
  /\ \A b \in Bucket : ids(t.entries[b]) \subseteq ids(t2.entries[b])
  /\ \A b \in Bucket, s \in Subnet : slack(t, b, s) \in Int /\ slack(t2, b, s) \in Int
                                     /\ slack(t2, b, s) >= slack(t, b, s)

relist(t, b, E, R) == [t EXCEPT !.entries[b] = E, !.replacements[b] = R]

(* t2 has lists E and R in bucket b, and t is the same elsewhere.          *)
becomes(t, t2, b, E, R) ==
  /\ t2 \in Table
  /\ t2.entries = [t.entries EXCEPT ![b] = E]
  /\ t2.replacements = [t.replacements EXCEPT ![b] = R]
  /\ \A a \in Bucket \ {b} : t2.bucketIPs[a] = t.bucketIPs[a]

LEMMA TableValue ==
  ASSUME NEW t \in Table
  PROVE  /\ t.entries \in [Bucket -> Seq(Node)] /\ t.replacements \in [Bucket -> Seq(Node)]
         /\ t.bucketIPs \in [Bucket -> [Subnet -> 0 .. bucketIPLimit]]
         /\ t.ips \in [Subnet -> 0 .. tableIPLimit]
         /\ \A b \in Bucket, s \in Subnet : t.bucketIPs[b][s] \in Nat
         /\ tableIPLimit \in Nat \ {0} /\ bucketIPLimit \in Nat \ {0}
  BY TableAssumption DEF Table

LEMMA RelistValue ==
  ASSUME NEW t \in Table, NEW b \in Bucket, NEW E \in Seq(Node), NEW R \in Seq(Node)
  PROVE  /\ relist(t, b, E, R) \in Table
         /\ relist(t, b, E, R).entries = [t.entries EXCEPT ![b] = E]
         /\ relist(t, b, E, R).replacements = [t.replacements EXCEPT ![b] = R]
         /\ relist(t, b, E, R).bucketIPs = t.bucketIPs
         /\ relist(t, b, E, R).ips = t.ips
<1> DEFINE e == [t.entries EXCEPT ![b] = E]
           r == [t.replacements EXCEPT ![b] = R]
<1>1. /\ e \in [Bucket -> Seq(Node)] /\ r \in [Bucket -> Seq(Node)]
      /\ relist(t, b, E, R) = [t EXCEPT !.entries = e, !.replacements = r]
  BY Zenon, TableValue DEF relist, Table
<1> HIDE DEF e, r
<1>2. /\ relist(t, b, E, R) \in Table
      /\ relist(t, b, E, R).entries = e /\ relist(t, b, E, R).replacements = r
      /\ relist(t, b, E, R).bucketIPs = t.bucketIPs /\ relist(t, b, E, R).ips = t.ips
  BY Zenon, <1>1, TableValue DEF Table
<1> QED
  BY Zenon, <1>2 DEF e, r

(* Only one of the lists, or none.                                         *)
LEMMA CountThenList ==
  ASSUME NEW t \in Table, NEW u, NEW b \in Bucket, recounts(t, u, b),
         NEW E \in Seq(Node), NEW R \in Seq(Node)
  PROVE  /\ becomes(t, relist(u, b, E, R), b, E, R)
         /\ relist(u, b, E, R).bucketIPs = u.bucketIPs
  BY RelistValue DEF becomes, recounts

LEMMA ListThenCount ==
  ASSUME NEW t \in Table, NEW t2, NEW b \in Bucket,
         NEW E \in Seq(Node), NEW R \in Seq(Node), recounts(relist(t, b, E, R), t2, b)
  PROVE  becomes(t, t2, b, E, R)
  BY SMTT(30), RelistValue DEF becomes, recounts

(* One bucket of a good table gets good lists.                             *)
LEMMA BecomesGood ==
  ASSUME NEW t, goodTable(t), NEW t2, NEW b \in Bucket, NEW E, NEW R,
         becomes(t, t2, b, E, R), goodBucket(E, R, b)
  PROVE  /\ goodTable(t2)
         /\ t2.entries[b] = E /\ t2.replacements[b] = R
         /\ \A a \in Bucket \ {b} : /\ t2.entries[a] = t.entries[a]
                                    /\ t2.replacements[a] = t.replacements[a]
                                    /\ t2.bucketIPs[a] = t.bucketIPs[a]
<1>1. t \in Table /\ t2 \in Table
  BY Zenon DEF goodTable, becomes
<1>2. t2.entries[b] = E /\ t2.replacements[b] = R
  BY <1>1, TableValue DEF becomes
<1>3. \A a \in Bucket \ {b} : /\ t2.entries[a] = t.entries[a]
                              /\ t2.replacements[a] = t.replacements[a]
                              /\ t2.bucketIPs[a] = t.bucketIPs[a]
  BY <1>1, TableValue DEF becomes
<1>4. ASSUME NEW a \in Bucket PROVE goodBucket(t2.entries[a], t2.replacements[a], a)
  <2>1. CASE a = b
    BY Zenon, <1>2, <2>1
  <2>2. CASE a # b
    BY Zenon, <1>3, <2>2 DEF goodTable
  <2> QED
    BY Zenon, <2>1, <2>2
<1> QED
  BY Zenon, <1>1, <1>2, <1>3, <1>4 DEF goodTable
LEMMA SlackValue ==
  ASSUME Counts, NEW t, goodTable(t), NEW b \in Bucket, NEW s \in Subnet
  PROVE  /\ slack(t, b, s) = t.bucketIPs[b][s]
                             - (inNet(t.entries[b], s) + inNet(t.replacements[b], s))
         /\ slack(t, b, s) \in Int
<1>1. t.bucketIPs[b][s] \in Nat /\ t.entries[b] \in Seq(Node) /\ t.replacements[b] \in Seq(Node)
  BY Zenon, TableValue DEF goodTable
<1>2. inNet(t.entries[b], s) \in Nat /\ inNet(t.replacements[b], s) \in Nat
  BY Zenon, <1>1, CountIsNat
<1> QED
  BY <1>1, <1>2 DEF slack, members

(* The counter of bucket b does not come closer to what E and R hold.      *)
covers(t, t2, b, E, R) ==
  \A s \in Subnet : t2.bucketIPs[b][s] - (inNet(E, s) + inNet(R, s)) >= slack(t, b, s)

LEMMA BecomesKeeps ==
  ASSUME Counts, NEW t, goodTable(t), NEW t2, NEW b \in Bucket, NEW E, NEW R,
         becomes(t, t2, b, E, R), goodBucket(E, R, b), ids(t.entries[b]) \subseteq ids(E),
         covers(t, t2, b, E, R)
  PROVE  keeps(t, t2)
<1>1. /\ goodTable(t2) /\ t2.entries[b] = E /\ t2.replacements[b] = R
      /\ \A a \in Bucket \ {b} : /\ t2.entries[a] = t.entries[a]
                                 /\ t2.replacements[a] = t.replacements[a]
                                 /\ t2.bucketIPs[a] = t.bucketIPs[a]
  BY BecomesGood
<1>2. ASSUME NEW a \in Bucket PROVE ids(t.entries[a]) \subseteq ids(t2.entries[a])
  BY Zenon, <1>1
<1>3. ASSUME NEW a \in Bucket, NEW s \in Subnet
      PROVE  slack(t, a, s) \in Int /\ slack(t2, a, s) \in Int /\ slack(t2, a, s) >= slack(t, a, s)
  <2>1. slack(t, a, s) \in Int /\ slack(t2, a, s) \in Int
    BY Zenon, <1>1, SlackValue
  <2>2. CASE a = b
    <3>1. slack(t2, b, s) = t2.bucketIPs[b][s] - (inNet(E, s) + inNet(R, s))
      BY Zenon, <1>1, SlackValue
    <3> QED
      BY Zenon, <2>1, <2>2, <3>1 DEF covers
  <2>3. CASE a # b
    <3>1. slack(t2, a, s) = slack(t, a, s)
      BY Zenon, <1>1, <2>3 DEF slack, members
    <3> QED
      BY <2>1, <3>1
  <2> QED
    BY Zenon, <2>1, <2>2, <2>3
<1> QED
  BY Zenon, <1>1, <1>2, <1>3 DEF keeps

LEMMA KeepsItself ==
  ASSUME Counts, NEW t, goodTable(t)
  PROVE  keeps(t, t)
<1>1. \A b \in Bucket, s \in Subnet : slack(t, b, s) \in Int
  BY Zenon, SlackValue
<1> QED
  BY <1>1 DEF keeps

(* What the code relies on when it adds n to bucket b.                     *)
isNew(t, b, n) == n \in Node /\ b = bucket(n) /\ n.id \notin ids(t.entries[b])

LEMMA NodeValue ==
  ASSUME NEW n \in Node
  PROVE  n.id \in ID /\ n.ip \in IP /\ bucket(n) \in Bucket
  BY Zenon, TableAssumption DEF Node, bucket

LEMMA ContainsIds ==
  ASSUME NEW list, NEW id
  PROVE  contains(list, id) <=> id \in ids(list)
  BY Zenon DEF contains, ids

(* addReplacement                                                          *)
LEMMA AddReplacementKeeps ==
  ASSUME Counts, NEW t, goodTable(t), NEW b \in Bucket, NEW n, isNew(t, b, n)
  PROVE  keeps(t, addReplacement(t, b, n))
<1> DEFINE E == t.entries[b]
           R == t.replacements[b]
           R2 == pushNode(R, n, maxReplacements)
           u == addIP(t, b, n.ip)
           pushed == [u EXCEPT !.replacements[b] = R2]
<1>0. /\ t \in Table /\ n \in Node /\ n.ip \in IP /\ b = bucketOf[n.id]
      /\ goodBucket(E, R, b) /\ E \in Seq(Node) /\ R \in Seq(Node) /\ Len(R) \in Nat
      /\ maxReplacements \in Nat \ {0}
  BY Zenon, NodeValue, ListValue, TableAssumption DEF goodTable, goodBucket, isNew, bucket
<1> HIDE DEF E, R
<1>1. CASE contains(R, n.id) \/ ~fits(t, b, n.ip)
  <2>1. addReplacement(t, b, n) = t
    BY Zenon, <1>1 DEF addReplacement, R
  <2> QED
    BY Zenon, <2>1, KeepsItself
<1>2. CASE ~contains(R, n.id) /\ fits(t, b, n.ip)
  <2>1. n.id \notin ids(R) /\ n.id \notin ids(E)
    BY ZenonT(30), <1>2, ContainsIds DEF isNew, E
  <2>2. /\ recounts(t, u, b) /\ u \in Table /\ u.entries[b] = E
        /\ \A s \in Subnet : u.bucketIPs[b][s] = t.bucketIPs[b][s] + one(n, s)
    <3>1. recounts(t, u, b)
      BY Zenon, <1>0, <1>2, AddIPValue
    <3>2. \A s \in Subnet : u.bucketIPs[b][s] = t.bucketIPs[b][s] + one(n, s)
      BY SMTT(30), <1>0, <1>2, AddIPValue DEF one
    <3> HIDE DEF u
    <3> QED
      BY Zenon, <3>1, <3>2 DEF recounts, E
  <2> HIDE DEF u
  <2>3. CASE Len(R) < maxReplacements
    <3>1. R2 \in Seq(Node) /\ pushedOn(R2, R, n)
      BY Zenon, <1>0, <2>3, PushValue
    <3>2. addReplacement(t, b, n) = pushed
      BY Zenon, <1>2, <2>3 DEF addReplacement, u, R
    <3> HIDE DEF R2
    <3>3. distinct(R2) /\ ids(R2) = ids(R) \cup {n.id}
      BY ZenonT(30), <1>0, <2>1, <3>1, NewFirst DEF goodBucket
    <3>4. goodBucket(E, R2, b)
      BY <1>0, <2>1, <2>3, <3>1, <3>3 DEF goodBucket, pushedOn
    <3>5. pushed = relist(u, b, E, R2)
      BY Zenon, <2>2, TableValue DEF relist, Table
    <3> HIDE DEF pushed
    <3>6. becomes(t, pushed, b, E, R2) /\ pushed.bucketIPs = u.bucketIPs
      BY SMTT(30), <1>0, <2>2, <3>1, <3>5, CountThenList
    <3>7. ASSUME NEW s \in Subnet
          PROVE  pushed.bucketIPs[b][s] - (inNet(E, s) + inNet(R2, s)) >= slack(t, b, s)
      <4>1. inNet(R2, s) = inNet(R, s) + one(n, s) /\ inNet(R, s) \in Nat
        BY SMTT(30), <1>0, <3>1, CountFirst
      <4>2. inNet(E, s) \in Nat /\ t.bucketIPs[b][s] \in Nat /\ one(n, s) \in Nat
        BY Zenon, <1>0, CountIsNat, TableValue DEF one
      <4>3. slack(t, b, s) = t.bucketIPs[b][s] - (inNet(E, s) + inNet(R, s))
        BY Zenon, SlackValue DEF E, R
      <4> QED
        BY SMTT(30), <2>2, <3>6, <4>1, <4>2, <4>3
    <3>8. covers(t, pushed, b, E, R2)
      BY Zenon, <3>7 DEF covers
    <3> QED
      BY Zenon, <1>0, <3>2, <3>4, <3>6, <3>8, BecomesKeeps DEF E
  <2>4. CASE ~(Len(R) < maxReplacements)
    <3> DEFINE out == R[Len(R)]
               t2 == removeIP(pushed, b, out.ip)
    <3>0. Len(R) = maxReplacements /\ Len(R) > 0 /\ out \in Node /\ out.ip \in IP
      <4>1. Len(R) = maxReplacements /\ Len(R) \in 1 .. Len(R)
        BY <1>0, <2>4 DEF goodBucket
      <4> QED
        BY <1>0, <4>1, ListValue, NodeValue
    <3>1. R2 \in Seq(Node) /\ pushedOver(R2, R, n)
      BY Zenon, <1>0, <3>0, PushFullValue
    <3>2. addReplacement(t, b, n) = t2
      BY Zenon, <1>2, <2>4 DEF addReplacement, u, R
    <3> HIDE DEF R2, out
    <3>3. distinct(R2) /\ ids(R2) \subseteq ids(R) \cup {n.id}
      BY Zenon, <1>0, <2>1, <3>0, <3>1, NewFirstFull DEF goodBucket
    <3>4. goodBucket(E, R2, b)
      BY SMTT(30), <1>0, <2>1, <3>0, <3>1, <3>3 DEF goodBucket, pushedOver
    <3>5. pushed = relist(u, b, E, R2)
      BY Zenon, <2>2, TableValue DEF relist, Table
    <3> HIDE DEF pushed
    <3>6. becomes(t, pushed, b, E, R2) /\ pushed.bucketIPs = u.bucketIPs
      BY SMTT(30), <1>0, <2>2, <3>1, <3>5, CountThenList
    <3>7. /\ recounts(pushed, t2, b)
          /\ \A s \in Subnet : t2.bucketIPs[b][s] = IF netOf[out.ip] = s
                                                      THEN minusOne(pushed.bucketIPs[b][s])
                                                      ELSE pushed.bucketIPs[b][s]
      BY SMTT(30), <3>0, <3>6, RemoveIPValue DEF becomes
    <3> HIDE DEF t2
    <3>8. becomes(t, t2, b, E, R2)
      BY Zenon, <3>6, <3>7 DEF becomes, recounts
    <3>9. ASSUME NEW s \in Subnet
          PROVE  t2.bucketIPs[b][s] - (inNet(E, s) + inNet(R2, s)) >= slack(t, b, s)
      <4>1. /\ inNet(R2, s) + one(out, s) = inNet(R, s) + one(n, s)
            /\ inNet(R, s) \in Nat /\ inNet(R2, s) \in Nat
        BY Zenon, <1>0, <3>0, <3>1, CountFirstFull DEF out
      <4>2. /\ inNet(E, s) \in Nat /\ t.bucketIPs[b][s] \in Nat
            /\ one(n, s) \in Nat /\ one(out, s) \in Nat
        BY ZenonT(30), <1>0, CountIsNat, TableValue DEF one
      <4>3. slack(t, b, s) = t.bucketIPs[b][s] - (inNet(E, s) + inNet(R, s))
        BY Zenon, SlackValue DEF E, R
      <4>4. t2.bucketIPs[b][s] >= t.bucketIPs[b][s] + one(n, s) - one(out, s)
            /\ t2.bucketIPs[b][s] \in Nat
        BY <2>2, <3>6, <3>7, <4>2 DEF one, minusOne
      <4> QED
        BY SMTT(30), <4>1, <4>2, <4>3, <4>4
    <3>10. covers(t, t2, b, E, R2)
      BY Zenon, <3>9 DEF covers
    <3> QED
      BY Zenon, <1>0, <3>2, <3>4, <3>8, <3>10, BecomesKeeps DEF E
  <2> QED
    BY Zenon, <2>3, <2>4
<1> QED
  BY Zenon, <1>1, <1>2
(* insertNode                                                              *)
LEMMA InsertNodeKeeps ==
  ASSUME Counts, NEW t, goodTable(t), NEW b \in Bucket, NEW n, isNew(t, b, n), NEW front \in BOOLEAN
  PROVE  keeps(t, insertNode(t, b, n, front))
<1> DEFINE E == t.entries[b]
           R == t.replacements[b]
           E2 == IF front THEN pushNode(E, n, bucketSize) ELSE Append(E, n)
           R2 == deleteNode(R, n)
           u == addIP(t, b, n.ip)
           t2 == relist(u, b, E2, R2)
<1>0. /\ t \in Table /\ n \in Node /\ n.ip \in IP /\ b = bucketOf[n.id] /\ n.id \notin ids(E)
      /\ goodBucket(E, R, b) /\ E \in Seq(Node) /\ R \in Seq(Node)
      /\ Len(E) \in Nat /\ Len(R) \in Nat
      /\ bucketSize \in Nat
  BY Zenon, NodeValue, ListValue, TableAssumption DEF goodTable, goodBucket, isNew, bucket
<1> HIDE DEF E, R
<1>1. CASE Len(E) >= bucketSize
  <2>1. insertNode(t, b, n, front) = addReplacement(t, b, n)
    BY Zenon, <1>1 DEF insertNode, E
  <2> QED
    BY Zenon, <2>1, AddReplacementKeeps
<1>2. CASE ~(Len(E) >= bucketSize) /\ ~fits(t, b, n.ip)
  <2>1. insertNode(t, b, n, front) = t
    BY Zenon, <1>2 DEF insertNode, E
  <2> QED
    BY Zenon, <2>1, KeepsItself
<1>3. CASE ~(Len(E) >= bucketSize) /\ fits(t, b, n.ip)
  <2>1. /\ recounts(t, u, b) /\ u \in Table
        /\ u.entries[b] = E /\ u.replacements[b] = R
        /\ \A s \in Subnet : u.bucketIPs[b][s] = t.bucketIPs[b][s] + one(n, s)
    <3>1. /\ recounts(t, u, b)
          /\ \A s \in Subnet : u.bucketIPs[b][s] = t.bucketIPs[b][s] + one(n, s)
      BY <1>0, <1>3, AddIPValue DEF one
    <3> QED
      BY Zenon, <3>1 DEF recounts, E, R
  <2> HIDE DEF u
  <2>2. insertNode(t, b, n, front) = t2
    <3>1. insertNode(t, b, n, front)
            = [u EXCEPT !.entries[b] = E2, !.replacements[b] = deleteNode(@, n)]
      BY Zenon, <1>3 DEF insertNode, E, u
    <3> QED
      BY Zenon, <2>1, <3>1 DEF relist
  <2>3. /\ R2 \in Seq(Node) /\ Len(R2) \in Nat /\ Len(R2) <= Len(R)
        /\ distinct(R2) /\ ids(R2) = ids(R) \ {n.id}
    BY Zenon, <1>0, DeleteNodeValue DEF goodBucket
  <2>4. /\ E2 \in Seq(Node) /\ Len(E2) = Len(E) + 1
        /\ distinct(E2) /\ ids(E2) = ids(E) \cup {n.id}
        /\ \A s : inNet(E2, s) = inNet(E, s) + one(n, s)
    <3>1. CASE front
      <4>1. E2 = pushNode(E, n, bucketSize)
        BY Zenon, <3>1
      <4>2. Len(E) < bucketSize /\ distinct(E)
        BY SMTT(30), <1>0, <1>3 DEF goodBucket
      <4> HIDE DEF E2
      <4>3. E2 \in Seq(Node) /\ pushedOn(E2, E, n)
        BY Zenon, <1>0, <4>1, <4>2, PushValue
      <4>4. distinct(E2) /\ ids(E2) = ids(E) \cup {n.id}
        BY Zenon, <1>0, <4>2, <4>3, NewFirst
      <4>5. \A s : inNet(E2, s) = inNet(E, s) + one(n, s)
        BY SMTT(30), <1>0, <4>3, CountFirst
      <4> QED
        BY Zenon, <4>3, <4>4, <4>5 DEF pushedOn
    <3>2. CASE ~front
      <4>1. E2 = Append(E, n)
        BY Zenon, <3>2
      <4>2. distinct(E)
        BY Zenon, <1>0 DEF goodBucket
      <4> HIDE DEF E2
      <4>3. /\ E2 \in Seq(Node) /\ appendedTo(E2, E, n)
            /\ distinct(E2) /\ ids(E2) = ids(E) \cup {n.id}
        BY Zenon, <1>0, <4>1, <4>2, NewLast
      <4>5. \A s : inNet(E2, s) = inNet(E, s) + one(n, s)
        BY <1>0, <4>3, CountLast
      <4> QED
        BY Zenon, <4>3, <4>5 DEF appendedTo
    <3> QED
      BY Zenon, <3>1, <3>2
  <2>5. \A s : inNet(R2, s) \in Nat /\ inNet(R2, s) <= inNet(R, s)
    <3>1. CASE contains(R, n.id)
      <4> DEFINE i == indexOf(R, n.id)
      <4>1. i \in 1 .. Len(R) /\ R2 = removeAt(R, i)
        BY Zenon, <1>0, <3>1, IndexFound DEF goodBucket, deleteNode
      <4> HIDE DEF i, R2
      <4>2. ASSUME NEW s PROVE inNet(R2, s) \in Nat /\ inNet(R2, s) <= inNet(R, s)
        <5>1. inNet(R2, s) + one(R[i], s) = inNet(R, s) /\ inNet(R2, s) \in Nat
          BY Zenon, <1>0, <4>1, CountRemoved
        <5> QED
          BY SMTT(30), <5>1 DEF one
      <4> QED
        BY Zenon, <4>2
    <3>2. CASE ~contains(R, n.id)
      <4>1. R2 = R
        BY ZenonT(30), <3>2 DEF deleteNode
      <4> QED
        BY <1>0, <4>1, CountIsNat
    <3> QED
      BY Zenon, <3>1, <3>2
  <2> HIDE DEF E2, R2
  <2>6. becomes(t, t2, b, E2, R2) /\ t2.bucketIPs = u.bucketIPs
    BY SMTT(30), <1>0, <2>1, <2>3, <2>4, CountThenList
  <2> HIDE DEF t2
  <2>7. goodBucket(E2, R2, b)
    <3>1. Len(E2) <= bucketSize /\ Len(R2) <= maxReplacements
      BY SMTT(30), <1>0, <1>3, <2>3, <2>4, TableAssumption DEF goodBucket
    <3> QED
      BY <1>0, <2>3, <2>4, <3>1 DEF goodBucket
  <2>8. ASSUME NEW s \in Subnet
        PROVE  t2.bucketIPs[b][s] - (inNet(E2, s) + inNet(R2, s)) >= slack(t, b, s)
    <3>1. /\ inNet(E, s) \in Nat /\ inNet(R, s) \in Nat
          /\ t.bucketIPs[b][s] \in Nat /\ one(n, s) \in Nat
      BY Zenon, <1>0, CountIsNat, TableValue DEF one
    <3>2. slack(t, b, s) = t.bucketIPs[b][s] - (inNet(E, s) + inNet(R, s))
      BY Zenon, SlackValue DEF E, R
    <3>3. t2.bucketIPs[b][s] = t.bucketIPs[b][s] + one(n, s)
      BY Zenon, <2>1, <2>6
    <3>4. inNet(E2, s) = inNet(E, s) + one(n, s) /\ inNet(R2, s) \in Nat /\ inNet(R2, s) <= inNet(R, s)
      BY Zenon, <2>4, <2>5
    <3> QED
      BY SMTT(30), <3>1, <3>2, <3>3, <3>4
  <2>9. covers(t, t2, b, E2, R2)
    BY Zenon, <2>8 DEF covers
  <2>10. ids(t.entries[b]) \subseteq ids(E2)
    BY Zenon, <2>4 DEF E
  <2> QED
    BY Zenon, <2>2, <2>6, <2>7, <2>9, <2>10, BecomesKeeps
<1> QED
  BY Zenon, <1>1, <1>2, <1>3

(* addSeenNode                                                             *)
LEMMA AddSeenKeeps ==
  ASSUME Counts, NEW t, goodTable(t), NEW n \in Node
  PROVE  keeps(t, addSeenNode(t, n))
<1> DEFINE b == bucket(n)
<1>1. b \in Bucket
  BY Zenon, NodeValue
<1>2. CASE contains(t.entries[b], n.id)
  <2>1. addSeenNode(t, n) = t
    BY Zenon, <1>2 DEF addSeenNode
  <2> QED
    BY Zenon, <2>1, KeepsItself
<1>3. CASE ~contains(t.entries[b], n.id)
  <2>1. addSeenNode(t, n) = insertNode(t, b, n, FALSE)
    BY Zenon, <1>3 DEF addSeenNode
  <2>2. isNew(t, b, n)
    BY Zenon, <1>3, ContainsIds DEF isNew
  <2> HIDE DEF b
  <2> QED
    BY Zenon, <1>1, <2>1, <2>2, InsertNodeKeeps
<1> QED
  BY Zenon, <1>2, <1>3
(* The IP of an entry is taken out, and its own put back.                  *)
LEMMA PutBackValue ==
  ASSUME NEW t \in Table, NEW b \in Bucket, NEW ip \in IP
  PROVE  LET u == removeIP(t, b, ip)
             v == addIP(u, b, ip)
         IN /\ recounts(t, v, b)
            /\ \A s \in Subnet : v.bucketIPs[b][s] >= t.bucketIPs[b][s]
            /\ \A s \in Subnet : v.ips[s] >= u.ips[s] /\ v.bucketIPs[b][s] >= u.bucketIPs[b][s]
<1> DEFINE u == removeIP(t, b, ip)
           v == addIP(u, b, ip)
<1>0. /\ \A a \in Bucket, s \in Subnet : t.bucketIPs[a][s] \in 0 .. bucketIPLimit
      /\ \A s \in Subnet : t.ips[s] \in 0 .. tableIPLimit
      /\ tableIPLimit \in Nat \ {0} /\ bucketIPLimit \in Nat \ {0}
  BY SMTT(30), TableValue
<1>1. /\ recounts(t, u, b) /\ u \in Table
      /\ \A s \in Subnet :
           /\ u.bucketIPs[b][s] = IF netOf[ip] = s THEN minusOne(t.bucketIPs[b][s])
                                                   ELSE t.bucketIPs[b][s]
           /\ u.ips[s] = IF netOf[ip] = s THEN minusOne(t.ips[s]) ELSE t.ips[s]
  BY SMTT(30), RemoveIPValue DEF recounts
<1> HIDE DEF u
<1>2. fits(u, b, ip)
  BY SMTT(30), <1>0, <1>1 DEF fits, minusOne
<1>3. /\ recounts(u, v, b)
      /\ \A s \in Subnet : v.bucketIPs[b][s] = u.bucketIPs[b][s] + IF netOf[ip] = s THEN 1 ELSE 0
  BY SMTT(30), <1>1, <1>2, AddIPValue
<1>4. \A s \in Subnet : v.ips[s] = u.ips[s] + IF netOf[ip] = s THEN 1 ELSE 0
  <2>1. u.ips \in [Subnet -> 0 .. tableIPLimit]
    BY Zenon, <1>1, TableValue
  <2>2. CASE netOf[ip] \in Subnet
    <3>1. v.ips = [u.ips EXCEPT ![netOf[ip]] = @ + 1]
      BY Zenon, <1>1, <2>2 DEF addIP, Table
    <3> QED
      BY <1>0, <2>1, <2>2, <3>1
  <2>3. CASE netOf[ip] \notin Subnet
    BY SMTT(30), <1>0, <2>1, <2>3 DEF addIP
  <2> QED
    BY Zenon, <2>2, <2>3
<1> HIDE DEF v
<1>5. recounts(t, v, b)
  BY Zenon, <1>1, <1>3 DEF recounts
<1>6. \A s \in Subnet : u.ips[s] \in Nat /\ u.bucketIPs[b][s] \in Nat
  BY SMTT(30), <1>0, <1>1, TableValue
<1>7. \A s \in Subnet : v.ips[s] >= u.ips[s] /\ v.bucketIPs[b][s] >= u.bucketIPs[b][s]
  BY SMTT(30), <1>3, <1>4, <1>6
<1>8. \A s \in Subnet : v.bucketIPs[b][s] >= t.bucketIPs[b][s]
  BY <1>0, <1>1, <1>3 DEF minusOne
<1> QED
  BY Zenon, <1>5, <1>7, <1>8 DEF u, v

(* bumpInBucket of an entry whose record fits.                             *)
LEMMA BumpMovesKeeps ==
  ASSUME Counts, NEW t, goodTable(t), NEW b \in Bucket, NEW n \in Node,
         contains(t.entries[b], n.id), moves(t, b, n)
  PROVE  keeps(t, bumpInBucket(t, b, n))
<1> DEFINE E == t.entries[b]
           R == t.replacements[b]
           i == indexOf(E, n.id)
           old == E[i]
           rest == removeAt(E, i)
           E2 == <<n>> \o rest
           u == removeIP(t, b, old.ip)
           v == IF n.ip = old.ip THEN t ELSE addIP(u, b, n.ip)
           t2 == relist(v, b, E2, R)
<1>0. /\ t \in Table /\ n.ip \in IP
      /\ goodBucket(E, R, b) /\ E \in Seq(Node) /\ R \in Seq(Node) /\ distinct(E)
      /\ contains(E, n.id)
  BY Zenon, NodeValue DEF goodTable, goodBucket
<1> HIDE DEF E, R
<1>1. i \in 1 .. Len(E) /\ E[i].id = n.id
  BY Zenon, <1>0, IndexFound
<1> HIDE DEF i
<1>2. E[i] \in Node /\ old \in Node /\ old.ip \in IP
  BY Zenon, <1>0, <1>1, ListValue
<1>3. /\ E2 \in Seq(Node) /\ Len(E2) = Len(E) /\ pushedOn(E2, rest, n)
      /\ distinct(E2) /\ ids(E2) = ids(E)
  BY Zenon, <1>0, <1>1, Bumped
<1>4. rest \in Seq(Node) /\ \A s : inNet(rest, s) + one(old, s) = inNet(E, s)
                                   /\ inNet(rest, s) \in Nat
  BY Zenon, <1>0, <1>1, RemoveAtValue, CountRemoved
<1> HIDE DEF rest, E2
<1>5. \A s : inNet(E2, s) = inNet(rest, s) + one(n, s)
  BY <1>3, <1>4, CountFirst
<1>6. /\ recounts(t, v, b)
      /\ \A s \in Subnet : /\ v.bucketIPs[b][s] >= t.bucketIPs[b][s] - one(old, s) + one(n, s)
                           /\ v.bucketIPs[b][s] \in Nat
  <2>0. \A s \in Subnet : t.bucketIPs[b][s] \in Nat
    BY ZenonT(30), <1>0, TableValue
  <2>1. CASE n.ip = old.ip
    <3>1. v = t /\ \A s : one(old, s) = one(n, s) /\ one(n, s) \in Nat
      BY Zenon, <2>1 DEF one
    <3>2. recounts(t, t, b)
      BY Zenon, <1>0 DEF recounts
    <3>3. \A s \in Subnet : t.bucketIPs[b][s] >= t.bucketIPs[b][s] - one(n, s) + one(n, s)
      BY <2>0, <3>1
    <3> QED
      BY Zenon, <2>0, <3>1, <3>2, <3>3
  <2>2. CASE n.ip # old.ip
    <3>1. fits(u, b, n.ip)
      BY ZenonT(30), <2>2 DEF moves, i, E
    <3>2. /\ recounts(t, u, b) /\ u \in Table
          /\ \A s \in Subnet : u.bucketIPs[b][s] = IF netOf[old.ip] = s
                                                     THEN minusOne(t.bucketIPs[b][s])
                                                     ELSE t.bucketIPs[b][s]
      <4>1. recounts(t, u, b)
        BY Zenon, <1>0, <1>2, RemoveIPValue
      <4>2. \A s \in Subnet : u.bucketIPs[b][s] = IF netOf[old.ip] = s
                                                     THEN minusOne(t.bucketIPs[b][s])
                                                     ELSE t.bucketIPs[b][s]
        BY SMTT(30), <1>0, <1>2, RemoveIPValue
      <4> QED
        BY Zenon, <4>1, <4>2 DEF recounts
    <3> HIDE DEF u, old
    <3>3. /\ recounts(u, addIP(u, b, n.ip), b)
          /\ \A s \in Subnet : addIP(u, b, n.ip).bucketIPs[b][s] = u.bucketIPs[b][s] + one(n, s)
      BY SMTT(30), <1>0, <3>1, <3>2, AddIPValue DEF one
    <3>4. v = addIP(u, b, n.ip)
      BY Zenon, <2>2
    <3> HIDE DEF v
    <3>5. recounts(t, v, b)
      BY ZenonT(30), <3>2, <3>3, <3>4 DEF recounts
    <3>6. \A s \in Subnet : /\ v.bucketIPs[b][s] >= t.bucketIPs[b][s] - one(old, s) + one(n, s)
                            /\ v.bucketIPs[b][s] \in Nat
      BY <2>0, <3>2, <3>3, <3>4 DEF one, minusOne
    <3> QED
      BY Zenon, <3>5, <3>6
  <2> QED
    BY Zenon, <2>1, <2>2
<1>7. bumpInBucket(t, b, n) = t2
  <2>1. bumpInBucket(t, b, n) = [v EXCEPT !.entries[b] = E2]
    BY Zenon, <1>0 DEF bumpInBucket, E, i, E2, rest
  <2>2. v \in Table /\ v.replacements[b] = R
    BY ZenonT(30), <1>6 DEF recounts, R
  <2> HIDE DEF v
  <2> QED
    BY Zenon, <2>1, <2>2, TableValue DEF relist, Table
<1> HIDE DEF v, old
<1>8. becomes(t, t2, b, E2, R) /\ t2.bucketIPs = v.bucketIPs
  BY SMTT(30), <1>0, <1>3, <1>6, CountThenList
<1> HIDE DEF t2
<1>9. goodBucket(E2, R, b)
  BY Zenon, <1>0, <1>3 DEF goodBucket
<1>10. ASSUME NEW s \in Subnet
       PROVE  t2.bucketIPs[b][s] - (inNet(E2, s) + inNet(R, s)) >= slack(t, b, s)
  <2>1. /\ inNet(E, s) \in Nat /\ inNet(R, s) \in Nat /\ t.bucketIPs[b][s] \in Nat
        /\ one(n, s) \in Nat /\ one(old, s) \in Nat
    BY Zenon, <1>0, CountIsNat, TableValue DEF one
  <2>2. slack(t, b, s) = t.bucketIPs[b][s] - (inNet(E, s) + inNet(R, s))
    BY Zenon, SlackValue DEF E, R
  <2>3. /\ inNet(rest, s) + one(old, s) = inNet(E, s) /\ inNet(rest, s) \in Nat
        /\ inNet(E2, s) = inNet(rest, s) + one(n, s)
    BY Zenon, <1>4, <1>5
  <2>4. /\ t2.bucketIPs[b][s] >= t.bucketIPs[b][s] - one(old, s) + one(n, s)
        /\ t2.bucketIPs[b][s] \in Nat
    BY Zenon, <1>6, <1>8
  <2> QED
    BY <2>1, <2>2, <2>3, <2>4
<1>11. covers(t, t2, b, E2, R) /\ ids(t.entries[b]) \subseteq ids(E2)
  BY Zenon, <1>3, <1>10 DEF covers, E
<1> QED
  BY Zenon, <1>7, <1>8, <1>9, <1>11, BecomesKeeps
(* bumpInBucket of an entry whose record does not fit: the limit that      *)
(* refuses it is still reached when the old IP is back.                    *)
LEMMA BumpRefused ==
  ASSUME Counts, NEW t, goodTable(t), NEW b \in Bucket, NEW n \in Node,
         contains(t.entries[b], n.id), ~moves(t, b, n)
  PROVE  keeps(t, bumpInBucket(t, b, n)) /\ ~fits(bumpInBucket(t, b, n), b, n.ip)
<1> DEFINE E == t.entries[b]
           R == t.replacements[b]
           i == indexOf(E, n.id)
           old == E[i]
           u == removeIP(t, b, old.ip)
           v == addIP(u, b, old.ip)
<1>0. /\ t \in Table /\ n.ip \in IP
      /\ goodBucket(E, R, b) /\ E \in Seq(Node) /\ R \in Seq(Node) /\ distinct(E)
      /\ contains(E, n.id)
  BY ZenonT(30), NodeValue DEF goodTable, goodBucket
<1> HIDE DEF E, R
<1>1. i \in 1 .. Len(E) /\ old \in Node /\ old.ip \in IP
  BY Zenon, <1>0, IndexFound, ListValue
<1>2. bumpInBucket(t, b, n) = v /\ ~fits(u, b, n.ip)
  BY Zenon, <1>0 DEF bumpInBucket, moves, E
<1> HIDE DEF i, old
<1>3. /\ recounts(t, v, b)
      /\ \A s \in Subnet : v.bucketIPs[b][s] >= t.bucketIPs[b][s]
      /\ \A s \in Subnet : v.ips[s] >= u.ips[s] /\ v.bucketIPs[b][s] >= u.bucketIPs[b][s]
  BY ZenonT(30), <1>0, <1>1, PutBackValue
<1>4. /\ \A s \in Subnet : u.ips[s] \in Nat /\ u.bucketIPs[b][s] \in Nat
      /\ \A s \in Subnet : v.ips[s] \in Nat /\ v.bucketIPs[b][s] \in Nat
      /\ tableIPLimit \in Nat /\ bucketIPLimit \in Nat
  <2>1. u \in Table /\ v \in Table
    BY ZenonT(30), <1>0, <1>1, <1>3, RemoveIPValue DEF recounts
  <2> HIDE DEF u, v
  <2> QED
    BY <2>1, TableValue
<1> HIDE DEF u, v
<1>5. ~fits(v, b, n.ip)
  BY SMTT(30), <1>2, <1>3, <1>4 DEF fits
<1>6. becomes(t, v, b, E, R)
  BY ZenonT(30), <1>0, <1>3, TableValue DEF becomes, recounts, E, R
<1>7. ASSUME NEW s \in Subnet
      PROVE  v.bucketIPs[b][s] - (inNet(E, s) + inNet(R, s)) >= slack(t, b, s)
  <2>1. inNet(E, s) \in Nat /\ inNet(R, s) \in Nat /\ t.bucketIPs[b][s] \in Nat
    BY ZenonT(30), <1>0, CountIsNat, TableValue
  <2>2. slack(t, b, s) = t.bucketIPs[b][s] - (inNet(E, s) + inNet(R, s))
    BY Zenon, SlackValue DEF E, R
  <2>3. v.bucketIPs[b][s] >= t.bucketIPs[b][s] /\ v.bucketIPs[b][s] \in Nat
    BY Zenon, <1>3, <1>4
  <2> QED
    BY <2>1, <2>2, <2>3
<1>8. covers(t, v, b, E, R)
  BY Zenon, <1>7 DEF covers
<1>9. keeps(t, v)
  BY Zenon, <1>0, <1>6, <1>8, BecomesKeeps DEF E
<1> QED
  BY Zenon, <1>2, <1>5, <1>9

LEMMA BumpKeeps ==
  ASSUME Counts, NEW t, goodTable(t), NEW b \in Bucket, NEW n \in Node
  PROVE  keeps(t, bumpInBucket(t, b, n))
<1>1. CASE ~contains(t.entries[b], n.id)
  <2>1. bumpInBucket(t, b, n) = t
    BY Zenon, <1>1 DEF bumpInBucket
  <2> QED
    BY Zenon, <2>1, KeepsItself
<1> QED
  BY Zenon, <1>1, BumpMovesKeeps, BumpRefused

(* addVerifiedNode.  The node that bumpInBucket refuses is not inserted a  *)
(* second time, since its IP does not fit.                                 *)
LEMMA AddVerifiedKeeps ==
  ASSUME Counts, NEW t, goodTable(t), NEW n \in Node
  PROVE  keeps(t, addVerifiedNode(t, n))
<1>0. PICK b \in Bucket : b = bucket(n)
  BY Zenon, NodeValue
<1> DEFINE u == bumpInBucket(t, b, n)
<1>1. CASE bumps(t, b, n)
  <2>1. addVerifiedNode(t, n) = u
    BY Zenon, <1>0, <1>1 DEF addVerifiedNode
  <2> QED
    BY Zenon, <2>1, BumpKeeps
<1>2. CASE ~contains(t.entries[b], n.id)
  <2>1. u = t /\ addVerifiedNode(t, n) = insertNode(t, b, n, TRUE)
    BY Zenon, <1>0, <1>2 DEF addVerifiedNode, bumps, bumpInBucket
  <2>2. isNew(t, b, n)
    BY Zenon, <1>0, <1>2, ContainsIds DEF isNew
  <2> QED
    BY Zenon, <2>1, <2>2, InsertNodeKeeps
<1>3. CASE contains(t.entries[b], n.id) /\ ~moves(t, b, n)
  <2>1. keeps(t, u) /\ ~fits(u, b, n.ip)
    BY Zenon, <1>3, BumpRefused
  <2>2. addVerifiedNode(t, n) = insertNode(u, b, n, TRUE)
    BY Zenon, <1>0, <1>3 DEF addVerifiedNode, bumps
  <2> HIDE DEF u
  <2>3. insertNode(u, b, n, TRUE) = u
    BY Zenon, <2>1 DEF insertNode, addReplacement
  <2> QED
    BY Zenon, <2>1, <2>2, <2>3
<1> QED
  BY Zenon, <1>1, <1>2, <1>3 DEF bumps
(* A change of bucket b that takes at most the entry of id, and lets the   *)
(* set of b miss a node at most when node is not an entry with its IP.     *)
takes(t, t2, b, node) ==
  /\ goodTable(t2)
  /\ \A a \in Bucket : ids(t.entries[a]) \ ids(t2.entries[a]) \subseteq {node.id}
  /\ \A a \in Bucket, s \in Subnet :
       /\ slack(t, a, s) \in Int /\ slack(t2, a, s) \in Int
       /\ a # b \/ current(t, b, node) => slack(t2, a, s) >= slack(t, a, s)

LEMMA BecomesTakes ==
  ASSUME Counts, NEW t, goodTable(t), NEW t2, NEW b \in Bucket, NEW E, NEW R, NEW node,
         becomes(t, t2, b, E, R), goodBucket(E, R, b),
         ids(t.entries[b]) \ ids(E) \subseteq {node.id},
         current(t, b, node) => covers(t, t2, b, E, R)
  PROVE  takes(t, t2, b, node)
<1>1. /\ goodTable(t2) /\ t2.entries[b] = E /\ t2.replacements[b] = R
      /\ \A a \in Bucket \ {b} : /\ t2.entries[a] = t.entries[a]
                                 /\ t2.replacements[a] = t.replacements[a]
                                 /\ t2.bucketIPs[a] = t.bucketIPs[a]
  BY SMTT(30), BecomesGood
<1>2. ASSUME NEW a \in Bucket PROVE ids(t.entries[a]) \ ids(t2.entries[a]) \subseteq {node.id}
  BY Zenon, <1>1
<1>3. ASSUME NEW a \in Bucket, NEW s \in Subnet
      PROVE  /\ slack(t, a, s) \in Int /\ slack(t2, a, s) \in Int
             /\ a # b \/ current(t, b, node) => slack(t2, a, s) >= slack(t, a, s)
  <2>1. slack(t, a, s) \in Int /\ slack(t2, a, s) \in Int
    BY Zenon, <1>1, SlackValue
  <2>2. CASE a = b
    <3>1. slack(t2, b, s) = t2.bucketIPs[b][s] - (inNet(E, s) + inNet(R, s))
      BY Zenon, <1>1, SlackValue
    <3> QED
      BY Zenon, <2>1, <2>2, <3>1 DEF covers
  <2>3. CASE a # b
    <3>1. slack(t2, a, s) = slack(t, a, s)
      BY Zenon, <1>1, <2>3 DEF slack, members
    <3> QED
      BY <2>1, <3>1
  <2> QED
    BY Zenon, <2>1, <2>2, <2>3
<1> QED
  BY ZenonT(30), <1>1, <1>2, <1>3 DEF takes

(* removeIP after a change of the lists.                                   *)
LEMMA RelistThenRemove ==
  ASSUME NEW t \in Table, NEW b \in Bucket, NEW E \in Seq(Node), NEW R \in Seq(Node),
         NEW n \in Node
  PROVE  LET t2 == removeIP(relist(t, b, E, R), b, n.ip)
         IN /\ becomes(t, t2, b, E, R)
            /\ \A s \in Subnet : /\ t2.bucketIPs[b][s] \in Nat
                                 /\ t2.bucketIPs[b][s] >= t.bucketIPs[b][s] - one(n, s)
<1> DEFINE u == relist(t, b, E, R)
           t2 == removeIP(u, b, n.ip)
<1>1. u \in Table /\ u.bucketIPs = t.bucketIPs
  <2>1. becomes(t, u, b, E, R) /\ u.bucketIPs = t.bucketIPs
    BY CountThenList DEF recounts
  <2> QED
    BY Zenon, <2>1 DEF becomes
<1>0. n.ip \in IP
  BY Zenon, NodeValue
<1> HIDE DEF u
<1>2. /\ recounts(u, t2, b)
      /\ \A s \in Subnet : t2.bucketIPs[b][s] = IF netOf[n.ip] = s
                                                  THEN minusOne(u.bucketIPs[b][s])
                                                  ELSE u.bucketIPs[b][s]
  BY SMTT(30), <1>0, <1>1, RemoveIPValue
<1> HIDE DEF t2
<1>3. becomes(t, t2, b, E, R)
  BY Zenon, <1>2, ListThenCount DEF u
<1>4. \A s \in Subnet : t.bucketIPs[b][s] \in Nat
  BY Zenon, TableValue
<1>5. ASSUME NEW s \in Subnet
      PROVE  t2.bucketIPs[b][s] \in Nat /\ t2.bucketIPs[b][s] >= t.bucketIPs[b][s] - one(n, s)
  <2> DEFINE c == t.bucketIPs[b][s]
  <2>1. c \in Nat /\ t2.bucketIPs[b][s] = IF netOf[n.ip] = s THEN minusOne(c) ELSE c
    BY Zenon, <1>1, <1>2, <1>4
  <2> HIDE DEF c
  <2>2. t2.bucketIPs[b][s] \in Nat /\ t2.bucketIPs[b][s] >= c - one(n, s)
    BY SMTT(30), <2>1 DEF one, minusOne
  <2> QED
    BY Zenon, <2>2 DEF c
<1> QED
  BY Zenon, <1>3, <1>5 DEF t2, u

(* In a good bucket the entry with the ID of a current node is that node.  *)
LEMMA CurrentIsEntry ==
  ASSUME NEW t, goodTable(t), NEW b \in Bucket, NEW n \in Node, current(t, b, n),
         NEW i \in 1 .. Len(t.entries[b]), t.entries[b][i].id = n.id
  PROVE  t.entries[b][i] = n
  BY DEF current, goodTable, goodBucket, distinct

(* deleteInBucket                                                          *)
LEMMA DeleteTakes ==
  ASSUME Counts, NEW t, goodTable(t), NEW b \in Bucket, NEW n \in Node
  PROVE  takes(t, deleteInBucket(t, b, n), b, n)
<1> DEFINE E == t.entries[b]
           R == t.replacements[b]
           E2 == deleteNode(E, n)
           t2 == removeIP(relist(t, b, E2, R), b, n.ip)
<1>0. /\ t \in Table /\ goodBucket(E, R, b)
      /\ E \in Seq(Node) /\ R \in Seq(Node) /\ distinct(E) /\ Len(E) \in Nat /\ bucketSize \in Nat
  BY Zenon, ListValue, TableAssumption DEF goodTable, goodBucket
<1>1. deleteInBucket(t, b, n) = t2
  BY ZenonT(30), <1>0, TableValue DEF deleteInBucket, relist, Table
<1> HIDE DEF E, R
<1>2. /\ E2 \in Seq(Node) /\ Len(E2) \in Nat /\ Len(E2) <= Len(E)
      /\ distinct(E2) /\ ids(E2) = ids(E) \ {n.id}
  BY Zenon, <1>0, DeleteNodeValue
<1>3. goodBucket(E2, R, b)
  BY <1>0, <1>2 DEF goodBucket
<1>4. /\ becomes(t, t2, b, E2, R)
      /\ \A s \in Subnet : /\ t2.bucketIPs[b][s] \in Nat
                           /\ t2.bucketIPs[b][s] >= t.bucketIPs[b][s] - one(n, s)
  <2> HIDE DEF E2
  <2> QED
    BY Zenon, <1>0, <1>2, RelistThenRemove
<1> HIDE DEF t2
<1>5. ASSUME current(t, b, n), NEW s \in Subnet
      PROVE  t2.bucketIPs[b][s] - (inNet(E2, s) + inNet(R, s)) >= slack(t, b, s)
  <2> DEFINE i == indexOf(E, n.id)
  <2>1. contains(E, n.id)
    BY Zenon, <1>5 DEF current, contains, E
  <2>2. i \in 1 .. Len(E) /\ E[i].id = n.id /\ E2 = removeAt(E, i)
    BY Zenon, <1>0, <2>1, IndexFound DEF deleteNode
  <2> HIDE DEF i, E2
  <2>3. E[i] = n
    BY Zenon, <1>5, <2>2, CurrentIsEntry DEF E
  <2>4. inNet(E2, s) + one(n, s) = inNet(E, s) /\ inNet(E2, s) \in Nat
    BY Zenon, <1>0, <2>2, <2>3, CountRemoved
  <2>5. /\ inNet(E, s) \in Nat /\ inNet(R, s) \in Nat /\ t.bucketIPs[b][s] \in Nat
        /\ one(n, s) \in Nat
    BY Zenon, <1>0, CountIsNat, TableValue DEF one
  <2>6. slack(t, b, s) = t.bucketIPs[b][s] - (inNet(E, s) + inNet(R, s))
    BY Zenon, SlackValue DEF E, R
  <2>7. t2.bucketIPs[b][s] \in Nat /\ t2.bucketIPs[b][s] >= t.bucketIPs[b][s] - one(n, s)
    BY Zenon, <1>4
  <2> QED
    BY SMTT(30), <2>4, <2>5, <2>6, <2>7
<1>6. current(t, b, n) => covers(t, t2, b, E2, R)
  BY Zenon, <1>5 DEF covers
<1>7. ids(t.entries[b]) \ ids(E2) \subseteq {n.id}
  BY Zenon, <1>2 DEF E
<1> HIDE DEF E2
<1> QED
  BY Zenon, <1>1, <1>3, <1>4, <1>6, <1>7, BecomesTakes
(* One node for another: x counted, e and r in the lists, o out and c in.  *)
LEMMA ExchangeSum ==
  ASSUME NEW x \in Nat, NEW x2 \in Nat, NEW e \in Nat, NEW e2 \in Nat,
         NEW r \in Nat, NEW r2 \in Nat, NEW o \in Nat, NEW c \in Nat,
         e2 + o = e + c, r2 + c = r, x2 >= x - o
  PROVE  x2 - (e2 + r2) >= x - (e + r)
  BY SMTT(30)

(* A replacement takes the place of the last entry.                        *)
LEMMA ExchangeTakes ==
  ASSUME Counts, NEW t, goodTable(t), NEW b \in Bucket, NEW node \in Node,
         t.entries[b] # <<>>, t.entries[b][Len(t.entries[b])].id = node.id,
         NEW r \in 1 .. Len(t.replacements[b])
  PROVE  takes(t, replace(t, b, node, r), b, node)
<1> DEFINE E == t.entries[b]
           R == t.replacements[b]
           k == Len(E)
           c == R[r]
           E2 == [E EXCEPT ![k] = c]
           R2 == deleteNode(R, c)
           t2 == removeIP(relist(t, b, E2, R2), b, node.ip)
<1>0. /\ t \in Table /\ goodBucket(E, R, b) /\ E \in Seq(Node) /\ R \in Seq(Node)
      /\ distinct(E) /\ distinct(R) /\ ids(E) \cap ids(R) = {}
      /\ E # <<>> /\ E[k].id = node.id /\ r \in 1 .. Len(R)
      /\ bucketSize \in Nat /\ maxReplacements \in Nat
  BY Zenon, TableAssumption DEF goodTable, goodBucket
<1>1. /\ k \in Nat /\ k \in 1 .. Len(E) /\ Len(R) \in Nat /\ R # <<>> /\ c \in Node
  <2>1. k \in Nat \ {0} /\ Len(R) \in Nat /\ c \in Node
    BY Zenon, <1>0, EmptySeq, ListValue
  <2> QED
    BY SMTT(30), <1>0, <2>1
<1>2. replace(t, b, node, r) = t2
  <2>1. replace(t, b, node, r) =
          removeIP([t EXCEPT !.replacements[b] = R2, !.entries[b][k] = c], b, node.ip)
    BY Zenon, <1>0, <1>1, TableValue DEF replace, Table
  <2>2. [t EXCEPT !.replacements[b] = R2, !.entries[b][k] = c] = relist(t, b, E2, R2)
    <3> HIDE DEF R2, c, k
    <3> QED
      BY Zenon, <1>0, TableValue DEF relist, Table
  <2> QED
    BY Zenon, <2>1, <2>2
<1> HIDE DEF E, R, k
<1>3. c.id \in ids(R) /\ c.id \notin ids(E)
  BY Zenon, <1>0 DEF ids
<1> HIDE DEF c
<1>4. /\ E2 \in Seq(Node) /\ exchanged(E2, E, k) /\ E2[k] = c
      /\ distinct(E2) /\ ids(E2) = (ids(E) \ {E[k].id}) \cup {c.id}
  <2>1. E \in Seq(Node) /\ c \in Node /\ k \in 1 .. Len(E) /\ distinct(E) /\ c.id \notin ids(E)
    BY Zenon, <1>0, <1>1, <1>3
  <2> QED
    BY ONLY ZenonT(30), <2>1, Replaced
<1>5. /\ R2 \in Seq(Node) /\ Len(R2) \in Nat /\ Len(R2) <= Len(R)
      /\ distinct(R2) /\ ids(R2) = ids(R) \ {c.id}
  BY Zenon, <1>0, <1>1, DeleteNodeValue
<1>6. goodBucket(E2, R2, b)
  <2>1. Len(E2) <= bucketSize /\ Len(R2) <= maxReplacements
    BY <1>0, <1>1, <1>4, <1>5 DEF goodBucket, exchanged, k
  <2>2. ids(E2) \cap ids(R2) = {}
    BY Zenon, <1>0, <1>4, <1>5
  <2>3. \A id \in ids(E2) \cup ids(R2) : bucketOf[id] = b
    BY Zenon, <1>0, <1>3, <1>4, <1>5 DEF goodBucket
  <2> QED
    BY Zenon, <1>4, <1>5, <2>1, <2>2, <2>3 DEF goodBucket
<1>7. /\ becomes(t, t2, b, E2, R2)
      /\ \A s \in Subnet : /\ t2.bucketIPs[b][s] \in Nat
                           /\ t2.bucketIPs[b][s] >= t.bucketIPs[b][s] - one(node, s)
  <2> HIDE DEF E2, R2
  <2> QED
    BY ZenonT(30), <1>0, <1>4, <1>5, RelistThenRemove
<1> HIDE DEF t2
<1>8. ASSUME current(t, b, node), NEW s \in Subnet
      PROVE  t2.bucketIPs[b][s] - (inNet(E2, s) + inNet(R2, s)) >= slack(t, b, s)
  <2>1. E[k] = node
    BY ZenonT(30), <1>0, <1>1, <1>8, CurrentIsEntry DEF E
  <2>2. inNet(E2, s) + one(node, s) = inNet(E, s) + one(c, s) /\ inNet(E2, s) \in Nat
    <3> HIDE DEF E2
    <3> QED
      BY SMTT(30), <1>0, <1>1, <1>4, <2>1, CountReplaced
  <2>3. inNet(R2, s) + one(c, s) = inNet(R, s) /\ inNet(R2, s) \in Nat
    <3> DEFINE i == indexOf(R, c.id)
    <3>1. contains(R, c.id)
      BY Zenon, <1>3, ContainsIds
    <3>2. i \in 1 .. Len(R) /\ R[i].id = c.id /\ R2 = removeAt(R, i)
      BY Zenon, <1>0, <3>1, IndexFound DEF deleteNode
    <3> HIDE DEF i, R2
    <3>3. R[i] = c
      BY Zenon, <1>0, <3>2 DEF distinct, c
    <3> QED
      BY Zenon, <1>0, <3>2, <3>3, CountRemoved
  <2>4. /\ inNet(E, s) \in Nat /\ inNet(R, s) \in Nat /\ t.bucketIPs[b][s] \in Nat
        /\ one(node, s) \in Nat /\ one(c, s) \in Nat
    BY Zenon, <1>0, CountIsNat, TableValue DEF one
  <2>5. slack(t, b, s) = t.bucketIPs[b][s] - (inNet(E, s) + inNet(R, s))
    BY Zenon, SlackValue DEF E, R
  <2>6. t2.bucketIPs[b][s] \in Nat /\ t2.bucketIPs[b][s] >= t.bucketIPs[b][s] - one(node, s)
    BY Zenon, <1>7
  <2> HIDE DEF E2, R2
  <2>7. t2.bucketIPs[b][s] - (inNet(E2, s) + inNet(R2, s))
          >= t.bucketIPs[b][s] - (inNet(E, s) + inNet(R, s))
    BY ONLY Zenon, <2>2, <2>3, <2>4, <2>6, ExchangeSum
  <2> QED
    BY Zenon, <2>5, <2>7
<1>9. current(t, b, node) => covers(t, t2, b, E2, R2)
  BY Zenon, <1>8 DEF covers
<1>10. ids(t.entries[b]) \ ids(E2) \subseteq {node.id}
  BY Zenon, <1>0, <1>4 DEF E
<1> HIDE DEF E2, R2
<1> QED
  BY <1>2, <1>6, <1>7, <1>9, <1>10, BecomesTakes

(* replace                                                                 *)
LEMMA ReplaceTakes ==
  ASSUME Counts, NEW t, goodTable(t), NEW b \in Bucket, NEW node \in Node, NEW r,
         r = 1 \/ r \in 1 .. Len(t.replacements[b])
  PROVE  takes(t, replace(t, b, node, r), b, node)
<1> DEFINE E == t.entries[b]
           R == t.replacements[b]
<1>0. E \in Seq(Node) /\ R \in Seq(Node)
  BY Zenon DEF goodTable, goodBucket
<1>1. CASE E = <<>> \/ E[Len(E)].id # node.id
  <2>1. replace(t, b, node, r) = t
    BY Zenon, <1>1 DEF replace
  <2>2. \A a \in Bucket, s \in Subnet : slack(t, a, s) \in Int
    BY Zenon, SlackValue
  <2> QED
    BY <2>1, <2>2 DEF takes
<1>2. CASE E # <<>> /\ E[Len(E)].id = node.id /\ R = <<>>
  <2>1. replace(t, b, node, r) = deleteInBucket(t, b, node)
    BY Zenon, <1>2 DEF replace
  <2> QED
    BY Zenon, <2>1, DeleteTakes
<1>3. CASE E # <<>> /\ E[Len(E)].id = node.id /\ R # <<>>
  <2>1. r \in 1 .. Len(R)
    BY <1>0, <1>3, EmptySeq
  <2> QED
    BY Zenon, <1>3, <2>1, ExchangeTakes
<1> QED
  BY Zenon, <1>1, <1>2, <1>3

---------------------------------------------------------------------------
(* The inductive invariant *)

(* The three places a done channel can be in: with a caller at its select, *)
(* on the loop's list, or closed.                                          *)
apart == /\ waiting \cap closedChs = {} /\ requests \cap closedChs = {}
         /\ requests \cap waiting = {}

(* What every step of the loop, its goroutines and the callers keeps.      *)
TableInv == TypeOK /\ goodTable(tab) /\ apart

(* TypeOK without what it says of the table.                               *)
loopType ==
  /\ doomed \subseteq Node
  /\ revalidate \in {"set", "started", "pinging", "done"}
  /\ last \in [node : Node, bi : Bucket] \cup {None}
  /\ revalidate = "pinging" <=> last # None
  /\ refreshDone \in {"nil", "open", "closed"}
  /\ requests \subseteq Waiter /\ waiting \subseteq Waiter \cup {initDone}
  /\ closedChs \subseteq Waiter \cup {initDone}
  /\ closeReq \in BOOLEAN
  /\ lpc \in {"select", "drainRefresh", "drainRevalidate", "returned"}

LEMMA TableInvParts == TableInv <=> loopType /\ goodTable(tab) /\ apart
  BY Zenon DEF TableInv, TypeOK, loopType, goodTable, goodBucket

LEMMA TableInvPartsPrime == TableInv' <=> loopType' /\ goodTable(tab') /\ apart'
  BY Zenon DEF TableInv, TypeOK, loopType, goodTable, goodBucket

(* doRevalidate at its ping has a node and a bucket.                       *)
LEMMA PingedNode ==
  ASSUME loopType, revalidate = "pinging"
  PROVE  last.node \in Node /\ last.bi \in Bucket
  BY Zenon DEF loopType

LEMMA TableInit == Init => TableInv
<1> SUFFICES ASSUME Init PROVE TableInv
  BY Zenon
<1>1. loopType /\ apart
  BY Zenon DEF Init, loopType, apart
<1>2. goodTable(tab)
  <2>1. tab = emptyTable /\ emptyTable \in Table
    <3>1. <<>> \in Seq(Node) /\ 0 \in 0 .. bucketIPLimit /\ 0 \in 0 .. tableIPLimit
      BY TableAssumption
    <3> QED
      BY <3>1, Zenon DEF Init, emptyTable, Table
  <2>2. \A b \in Bucket : tab.entries[b] = <<>> /\ tab.replacements[b] = <<>>
    BY Zenon DEF Init, emptyTable
  <2>3. bucketSize \in Nat /\ maxReplacements \in Nat
    BY Zenon, TableAssumption
  <2>4. ASSUME NEW b \in Bucket PROVE goodBucket(<<>>, <<>>, b)
    <3>1. <<>> \in Seq(Node) /\ Len(<<>>) = 0
      OBVIOUS
    <3> QED
      BY <2>3, <3>1 DEF goodBucket, ids, distinct
  <2> QED
    BY Zenon, <2>1, <2>2, <2>4 DEF goodTable
<1> QED
  BY Zenon, <1>1, <1>2, TableInvParts

(* What a step does to the table, and to what may lose an entry.           *)
changes ==
  \/ keeps(tab, tab')
  \/ \E n \in doomed \ doomed' : n \in Node /\ takes(tab, tab', bucket(n), n)
  \/ /\ pingFails
     /\ last.bi \in Bucket /\ takes(tab, tab', last.bi, last.node)

LEMMA ChangesGood == changes => goodTable(tab')
  BY Zenon DEF changes, keeps, takes

LEMMA SameTable ==
  ASSUME Counts, goodTable(tab), UNCHANGED tab
  PROVE  changes
  BY Zenon, KeepsItself DEF changes

LEMMA TableStepChanges ==
  ASSUME Counts, loopType, apart, goodTable(tab), TableStep
  PROVE  changes /\ loopType' /\ apart'
<1> PICK n \in Node : addSeen(n) \/ addVerified(n) \/ queryFails(n) \/ delete(n)
  BY Zenon DEF TableStep
<1>1. CASE addSeen(n)
  <2>1. changes
    BY Zenon, <1>1, AddSeenKeeps DEF addSeen, changes
  <2> QED
    BY Zenon, <1>1, <2>1
       DEF addSeen, loopType, apart, revalidateVars, refreshVars, loopVars
<1>2. CASE addVerified(n)
  <2>1. changes
    BY Zenon, <1>2, AddVerifiedKeeps DEF addVerified, changes
  <2> QED
    BY Zenon, <1>2, <2>1
       DEF addVerified, loopType, apart, revalidateVars, refreshVars, loopVars
<1>3. CASE queryFails(n)
  <2>1. changes
    BY Zenon, <1>3, SameTable DEF queryFails
  <2> QED
    BY Zenon, <1>3, <2>1
       DEF queryFails, loopType, apart, revalidateVars, refreshVars, loopVars
<1>4. CASE delete(n)
  <2>1. n \in doomed \ doomed' /\ tab' = deleteInBucket(tab, bucket(n), n)
    BY Zenon, <1>4 DEF delete
  <2>2. takes(tab, tab', bucket(n), n)
    BY Zenon, <2>1, NodeValue, DeleteTakes
  <2>3. changes
    BY Zenon, <2>1, <2>2 DEF changes
  <2> QED
    BY Zenon, <1>4, <2>3
       DEF delete, loopType, apart, revalidateVars, refreshVars, loopVars
<1> QED
  BY Zenon, <1>1, <1>2, <1>3, <1>4

LEMMA RevalidateStepChanges ==
  ASSUME Counts, loopType, apart, goodTable(tab), RevalidateStep
  PROVE  changes /\ loopType' /\ apart'
<1>0. apart'
  BY ZenonT(30) DEF RevalidateStep, nodeToRevalidate, nothingToRevalidate, pong, noPong,
               refreshVars, apart
<1>1. ASSUME NEW b \in Bucket, nodeToRevalidate(b) PROVE changes /\ loopType'
  <2>1. changes
    BY ZenonT(30), <1>1, SameTable DEF nodeToRevalidate, tableVars
  <2>2. last' \in [node : Node, bi : Bucket] /\ last' # None
    <3>1. tab.entries[b] \in Seq(Node) /\ tab.entries[b] # <<>>
      BY Zenon, <1>1 DEF goodTable, goodBucket, nodeToRevalidate
    <3>2. tab.entries[b][Len(tab.entries[b])] \in Node
      BY SMTT(30), <3>1
    <3> QED
      BY <1>1, <3>2, LoopAssumption DEF nodeToRevalidate
  <2> QED
    BY Zenon, <1>1, <2>1, <2>2 DEF nodeToRevalidate, loopType, tableVars, refreshVars, loopVars
<1>2. CASE nothingToRevalidate
  <2>1. changes
    BY Zenon, <1>2, SameTable DEF nothingToRevalidate, tableVars
  <2> QED
    BY Zenon, <1>0, <1>2, <2>1 DEF nothingToRevalidate, loopType, tableVars, refreshVars, loopVars
<1>3. ASSUME NEW n \in Node, pong(n) PROVE changes /\ loopType'
  <2>1. changes
    BY Zenon, <1>3, PingedNode, BumpKeeps DEF pong, changes
  <2> QED
    BY Zenon, <1>3, <2>1 DEF pong, loopType, refreshVars, loopVars
<1>4. ASSUME NEW r \in 1 .. maxReplacements, noPong(r) PROVE changes /\ loopType'
  <2>1. takes(tab, tab', last.bi, last.node)
    BY Zenon, <1>4, PingedNode, ReplaceTakes DEF noPong
  <2>2. changes
    BY Zenon, <1>4, <2>1, PingedNode DEF noPong, pingFails, changes
  <2> QED
    BY Zenon, <1>4, <2>2 DEF noPong, loopType, refreshVars, loopVars
<1> QED
  BY Zenon, <1>0, <1>1, <1>2, <1>3, <1>4 DEF RevalidateStep

(* The steps that leave the table and doRevalidate alone, or only start    *)
(* and end the latter: channels.                                           *)
LEMMA ChannelStepChanges ==
  ASSUME Counts, loopType, apart, goodTable(tab), RefreshStep \/ close \/ LoopStep
  PROVE  changes /\ loopType' /\ apart'
<1>1. UNCHANGED tableVars
  BY Zenon DEF RefreshStep, LoopStep, refreshEnds, refresh, refreshClosed, close, refreshTick,
       refreshReq, refreshFinished, revalidateTick, revalidateFinished, loopCloses,
       drainRefresh, drainRevalidate
<1>2. changes
  BY ZenonT(30), <1>1, SameTable DEF tableVars
<1>3. CASE RefreshStep
  BY SMTT(30), <1>2, <1>3 DEF RefreshStep, refreshEnds, refresh, refreshClosed, loopType, apart,
       tableVars, revalidateVars, loopVars
<1>4. CASE close
  BY Zenon, <1>2, <1>4 DEF close, loopType, apart, tableVars, revalidateVars, refreshVars
<1>5. CASE LoopStep
  <2>1. CASE refreshTick
    BY Zenon, <1>2, <2>1 DEF refreshTick, started, loopType, apart, tableVars, revalidateVars, loopVars
  <2>2. ASSUME NEW w \in Waiter, refreshReq(w) PROVE loopType' /\ apart'
    BY Zenon, <2>2 DEF refreshReq, started, loopType, apart, tableVars, revalidateVars, loopVars
  <2>3. CASE refreshFinished
    BY Zenon, <1>2, <2>3 DEF refreshFinished, release, loopType, apart, tableVars, revalidateVars, loopVars
  <2>4. CASE revalidateTick \/ revalidateFinished
    BY Zenon, <1>2, <2>4 DEF revalidateTick, revalidateFinished, loopType, apart, tableVars, refreshVars,
                loopVars
  <2>5. CASE loopCloses
    BY Zenon, <1>2, <2>5 DEF loopCloses, loopType, apart, tableVars, revalidateVars, refreshVars
  <2>6. CASE drainRefresh
    BY Zenon, <1>2, <2>6 DEF drainRefresh, release, loopType, apart, tableVars, revalidateVars
  <2>7. CASE drainRevalidate
    BY Zenon, <1>2, <2>7 DEF drainRevalidate, loopType, apart, tableVars, refreshVars
  <2> QED
    BY ZenonT(30), <1>2, <1>5, <2>1, <2>2, <2>3, <2>4, <2>5, <2>6, <2>7 DEF LoopStep
<1> QED
  BY Zenon, <1>3, <1>4, <1>5

(* A step, or none at all.                                                 *)
LEMMA TableNext ==
  ASSUME Counts, TableInv, [Next]_vars
  PROVE  TableInv' /\ changes
<1>0. loopType /\ goodTable(tab) /\ apart
  BY Zenon, TableInvParts
<1>1. changes /\ loopType' /\ apart'
  <2>1. CASE UNCHANGED vars
    <3>1. changes
      BY Zenon, <1>0, <2>1, SameTable DEF vars, tableVars
    <3> QED
      BY Zenon, <1>0, <2>1, <3>1
         DEF vars, tableVars, revalidateVars, refreshVars, loopVars, loopType, apart
  <2>2. CASE Next
    BY ZenonT(30), <1>0, <2>2, TableStepChanges, RevalidateStepChanges, ChannelStepChanges DEF Next
  <2> QED
    BY Zenon, <2>1, <2>2
<1> QED
  BY Zenon, <1>1, ChangesGood, TableInvPartsPrime

---------------------------------------------------------------------------
(* Counting, from the theorems about finite sets.                          *)
INSTANCE FiniteSetTheorems

LEMMA PlacesFinite ==
  ASSUME NEW list \in Seq(Node), NEW X, NEW s
  PROVE  IsFiniteSet(places(list, X, s)) /\ Cardinality(places(list, X, s)) \in Nat
<1>1. Len(list) \in Nat
  BY Zenon, ListValue
<1>2. IsFiniteSet(1 .. Len(list))
  BY SMTT(30), <1>1, FS_Interval
<1>3. places(list, X, s) \in SUBSET (1 .. Len(list))
  BY ZenonT(30) DEF places
<1> QED
  BY SMTT(30), <1>2, <1>3, FS_Subset, FS_CardinalityType

(* One place makes a difference of one.                                    *)
LEMMA SplitCounted ==
  ASSUME NEW list \in Seq(Node), NEW k \in 1 .. Len(list), NEW s
  PROVE  /\ inNet(list, s) = Cardinality(places(list, {k}, s)) + one(list[k], s)
         /\ inNet(list, s) = Cardinality(places(list, {}, s))
         /\ inNet(list, s) \in Nat
<1>1. inNet(list, s) = Cardinality(places(list, {}, s))
  BY Zenon DEF inNet, places
<1>2. places(list, {k}, s) = places(list, {}, s) \ {k}
  BY Zenon DEF places
<1>3. k \in places(list, {}, s) <=> netOf[list[k].ip] = s
  BY Zenon DEF places
<1>4. IsFiniteSet(places(list, {}, s)) /\ Cardinality(places(list, {}, s)) \in Nat
  BY Zenon, PlacesFinite
<1>5. Cardinality(places(list, {k}, s)) =
        IF k \in places(list, {}, s) THEN Cardinality(places(list, {}, s)) - 1
                                     ELSE Cardinality(places(list, {}, s))
  BY ZenonT(30), <1>2, <1>4, FS_RemoveElement
<1> QED
  BY SMTT(30), <1>1, <1>3, <1>4, <1>5 DEF one

(* Such lists have as many nodes of a network there.                       *)
LEMMA MatchCounted ==
  ASSUME NEW list \in Seq(Node), NEW m \in Seq(Node), NEW X, NEW Y, NEW s,
         NEW f, matches(f, list, X, m, Y)
  PROVE  Cardinality(places(list, X, s)) = Cardinality(places(m, Y, s))
<1> DEFINE A == places(list, X, s)
           B == places(m, Y, s)
           g == [i \in A |-> f[i]]
<1>1. A \subseteq (1 .. Len(list)) \ X
  BY Zenon DEF places
<1>2. \A i \in A : f[i] \in B
  BY Zenon DEF places, matches
<1>3. \A k \in B : \E i \in A : f[i] = k
  BY DEF places, matches
<1>4. IsFiniteSet(A)
  BY Zenon, PlacesFinite
<1> HIDE DEF A, B
<1>5. g \in [A -> B] /\ DOMAIN g = A
  BY Zenon, <1>2
<1>6. g \in Injection(A, B)
  BY Zenon, <1>1, <1>5 DEF Injection, IsInjective, matches
<1>7. g \in Surjection(A, B)
  BY Zenon, <1>3, <1>5 DEF Surjection
<1>8. ExistsBijection(A, B)
  BY Zenon, <1>6, <1>7 DEF ExistsBijection, Bijection
<1> QED
  BY SMTT(30), <1>4, <1>8, FS_Bijection DEF A, B

LEMMA NatCounted ==
  ASSUME NEW list \in Seq(Node), NEW s
  PROVE  inNet(list, s) \in Nat
<1>1. inNet(list, s) = Cardinality(places(list, {}, s))
  BY Zenon DEF inNet, places
<1> QED
  BY Zenon, <1>1, PlacesFinite

LEMMA CountsHold == Counts
  BY ZenonT(30), PlacesFinite, NatCounted, SplitCounted, MatchCounted DEF Counts

---------------------------------------------------------------------------
(* The theorems *)

LEMMA TableInvariant == Spec => []TableInv
<1>1. TableInv /\ [Next]_vars => TableInv'
  BY Zenon, TableNext, CountsHold
<1> QED
  BY <1>1, TableInit, PTL DEF Spec

(* The buckets and their replacement lists keep their sizes, the counters  *)
(* of IPs theirs, and doRevalidate has a node exactly while it pings,      *)
(* whatever lookups, pings and the loop do in between.                     *)
THEOREM TableTypeCorrect == Spec => []TypeOK
<1>1. TableInv => TypeOK
  BY ZenonT(30) DEF TableInv
<1> QED
  BY <1>1, TableInvariant, PTL

(* No node is twice in the table: addSeenNode, addVerifiedNode,            *)
(* bumpInBucket and replace, in any order and on records of any age, put a *)
(* node only where its ID is not yet, and only in the bucket of its ID.    *)
THEOREM OncePerTableHolds == Spec => []OncePerTable
<1>1. TableInv => OncePerTable
  BY Zenon DEF TableInv, goodTable, goodBucket, OncePerTable
<1> QED
  BY <1>1, TableInvariant, PTL

(* Neither the loop nor refresh closes a channel a second time.            *)
THEOREM NoDoubleCloseHolds == Spec => []NoDoubleClose
<1>1. TableInv => NoDoubleClose
  BY Zenon DEF TableInv, apart, NoDoubleClose
<1> QED
  BY <1>1, TableInvariant, PTL

(* A step of the model that loses an entry is the deletion of that node by *)
(* query, or the end of doRevalidate whose ping that node did not answer.  *)
THEOREM EvictionHasItsCause == Spec => EvictionHasCause
<1>1. ASSUME TableInv, [Next]_vars,
             NEW b \in Bucket, NEW id \in ids(tab.entries[b]) \ ids(tab'.entries[b])
      PROVE  \/ pingFails /\ last.node.id = id
             \/ \E n \in doomed \ doomed' : n.id = id
  <2>1. changes
    BY Zenon, <1>1, TableNext, CountsHold
  <2>2. ~keeps(tab, tab')
    BY Zenon, <1>1 DEF keeps
  <2>3. \A n : (\E a \in Bucket : takes(tab, tab', a, n)) => n.id = id
    BY Zenon, <1>1 DEF takes
  <2>4. \A n \in Node : bucket(n) \in Bucket
    BY Zenon, NodeValue
  <2> QED
    BY ZenonT(30), <2>1, <2>2, <2>3, <2>4 DEF changes
<1>2. TableInv /\ [Next]_vars =>
        [\A b \in Bucket : \A id \in ids(tab.entries[b]) \ ids(tab'.entries[b]) :
           \/ pingFails /\ last.node.id = id
           \/ \E n \in doomed \ doomed' : n.id = id]_vars
  BY Zenon, <1>1
<1> QED
  BY <1>2, TableInvariant, PTL DEF Spec, EvictionHasCause

(* A bucket's IP set falls behind its nodes only when deleteInBucket or    *)
(* replace removes the IP of a record that is no longer the entry.         *)
THEOREM UncountedNeedsStaleRecord == Spec => UncountedOnlyWhenStale
<1>1. ASSUME TableInv, [Next]_vars, NEW b \in Bucket, NEW s \in Subnet,
             slack(tab', b, s) < slack(tab, b, s)
      PROVE  \/ \E n \in doomed \ doomed' : bucket(n) = b /\ ~current(tab, b, n)
             \/ pingFails /\ ~current(tab, last.bi, last.node)
  <2>1. changes
    BY ZenonT(30), <1>1, TableNext, CountsHold
  <2>2. ~keeps(tab, tab')
    BY <1>1 DEF keeps
  <2>3. ASSUME NEW a, NEW n, takes(tab, tab', a, n)
        PROVE  a = b /\ ~current(tab, b, n) /\ ~current(tab, a, n)
    BY <1>1, <2>3 DEF takes
  <2>4. CASE \E n \in doomed \ doomed' : n \in Node /\ takes(tab, tab', bucket(n), n)
    <3>1. PICK n \in doomed \ doomed' : takes(tab, tab', bucket(n), n)
      BY Zenon, <2>4
    <3>2. bucket(n) = b /\ ~current(tab, b, n)
      BY ZenonT(30), <3>1, <2>3
    <3> QED
      BY Zenon, <3>2
  <2>5. CASE /\ pingFails
             /\ last.bi \in Bucket /\ takes(tab, tab', last.bi, last.node)
    BY ZenonT(30), <2>3, <2>5
  <2> QED
    BY ZenonT(30), <2>1, <2>2, <2>4, <2>5 DEF changes
<1>2. TableInv /\ [Next]_vars =>
        [\A b \in Bucket, s \in Subnet : slack(tab', b, s) < slack(tab, b, s) =>
           \/ \E n \in doomed \ doomed' : bucket(n) = b /\ ~current(tab, b, n)
           \/ pingFails /\ ~current(tab, last.bi, last.node)]_vars
  BY Zenon, <1>1
<1> QED
  BY <1>2, TableInvariant, PTL DEF Spec, UncountedOnlyWhenStale
============================================================================
