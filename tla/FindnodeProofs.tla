--------------------------- MODULE FindnodeProofs --------------------------
(***************************************************************************)
(* Proofs for FINDNODE: the three properties of Findnode hold for every    *)
(* size of the IDs, of the table and of the packets.                       *)
(*                                                                         *)
(* What the loops of the code compute is proved by an induction over their *)
(* turns, in the form of a least turn at which it would be wrong.          *)
(***************************************************************************)
EXTENDS Findnode, FiniteSetTheorems, TLAPS

---------------------------------------------------------------------------
(* Induction and recursion *)

(* A set of numbers that is not empty has a least element.                 *)
LEMMA LeastElement ==
  ASSUME NEW S, S \subseteq Nat, S # {}
  PROVE  \E x \in S : \A y \in S : x <= y
<1>1. PICK x \in S : \A y \in S : ~(<<y, x>> \in OpToRel(<, Nat))
  BY Zenon, NatLessThanWellFounded, WFMin
<1>2. ASSUME NEW y \in S, y < x PROVE FALSE
  BY Zenon, <1>1, <1>2, <<y, x>> \in OpToRel(<, Nat) DEF OpToRel
<1> QED
  BY <1>2, SMT

(* A set that has 0, and each number up to n after the one before it, has  *)
(* all numbers up to n.                                                    *)
LEMMA Induction ==
  ASSUME NEW n \in Nat, NEW S, 0 \in S, \A i \in 1 .. n : i - 1 \in S => i \in S
  PROVE  \A i \in 0 .. n : i \in S
<1> DEFINE Bad == {i \in 0 .. n : i \notin S}
<1>1. SUFFICES ASSUME Bad # {} PROVE FALSE
  BY Zenon
<1>2. Bad \subseteq Nat
  OBVIOUS
<1>3. PICK m \in Bad : \A y \in Bad : m <= y
  BY Zenon, <1>1, <1>2, LeastElement
<1>4. m \in 1 .. n /\ m - 1 \in 0 .. n /\ m \notin S
  BY <1>3
<1>5. m - 1 \notin Bad
  BY <1>3, <1>4
<1> QED
  BY Zenon, <1>4, <1>5

(* g makes a value of V from one, in each of n turns.                      *)
turns(n, V, g) == \A i \in 1 .. n : \A v \in V : g[<<i, v>>] \in V

(* f starts with b and goes on with g.                                     *)
follows(f, n, b, g) == f[0] = b /\ \A i \in 1 .. n : f[i] = g[<<i, f[i - 1]>>]

(* There is such a function.                                               *)
LEMMA Recursion ==
  ASSUME NEW n \in Nat, NEW V, NEW b \in V, NEW g, turns(n, V, g)
  PROVE  \E f \in [0 .. n -> V] : follows(f, n, b, g)
<1> USE DEF turns
<1> DEFINE fits(m, f) == f[0] = b /\ \A i \in 1 .. m : f[i] = g[<<i, f[i - 1]>>]
           S == {m \in 0 .. n : \E f \in [0 .. m -> V] : fits(m, f)}
<1>1. 0 \in S
  <2> DEFINE f == [i \in 0 .. 0 |-> b]
  <2>1. f \in [0 .. 0 -> V] /\ fits(0, f)
    OBVIOUS
  <2>2. 0 \in 0 .. n
    OBVIOUS
  <2> HIDE DEF f
  <2> QED
    BY Zenon, <2>1, <2>2
<1>2. ASSUME NEW m \in 1 .. n, m - 1 \in S PROVE m \in S
  <2>1. PICK f \in [0 .. m - 1 -> V] : fits(m - 1, f)
    BY Zenon, <1>2
  <2> DEFINE h == [i \in 0 .. m |-> IF i = m THEN g[<<m, f[m - 1]>>] ELSE f[i]]
  <2>2. g[<<m, f[m - 1]>>] \in V
    BY <2>1
  <2>3. h \in [0 .. m -> V]
    BY <2>1, <2>2
  <2>4. h[0] = b
    BY <2>1
  <2>5. ASSUME NEW i \in 1 .. m PROVE h[i] = g[<<i, h[i - 1]>>]
    <3>1. i - 1 \in 0 .. m /\ i - 1 # m /\ i \in 0 .. m
      OBVIOUS
    <3>2. h[i - 1] = f[i - 1] /\ h[i] = IF i = m THEN g[<<m, f[m - 1]>>] ELSE f[i]
      BY Zenon, <3>1
    <3>3. i # m => f[i] = g[<<i, f[i - 1]>>]
      BY <2>1
    <3> HIDE DEF h
    <3> QED
      BY Zenon, <3>2, <3>3
  <2> HIDE DEF h
  <2> QED
    <3>1. m \in 0 .. n
      OBVIOUS
    <3> QED
      BY Zenon, <2>3, <2>4, <2>5, <3>1
<1> HIDE DEF S
<1>3. n \in S
  <2>1. \A i \in 0 .. n : i \in S
    BY Zenon, <1>1, <1>2, Induction
  <2> QED
    BY <2>1
<1> QED
  BY Zenon, <1>3 DEF S, follows

---------------------------------------------------------------------------
(* Sequences *)

(* What is joined to a sequence comes after it.                            *)
LEMMA Joined ==
  ASSUME NEW X, NEW s \in Seq(X), NEW m \in Seq(X)
  PROVE  /\ s \o m \in Seq(X) /\ Len(s \o m) = Len(s) + Len(m)
         /\ \A i \in 1 .. Len(s) : (s \o m)[i] = s[i]
         /\ s # <<>> => s \o m # <<>> /\ (s \o m)[1] = s[1]
         /\ s = <<>> => s \o m = m
<1>1. s \o m \in Seq(X) /\ Len(s \o m) = Len(s) + Len(m)
  OBVIOUS
<1>2. \A i \in 1 .. Len(s) : (s \o m)[i] = s[i]
  OBVIOUS
<1>3. s # <<>> => 1 \in 1 .. Len(s) /\ Len(s \o m) # 0
  BY <1>1
<1>4. Len(<<>>) = 0
  BY Zenon
<1>5. s # <<>> => s \o m # <<>> /\ (s \o m)[1] = s[1]
  BY Zenon, <1>2, <1>3, <1>4
<1>6. s = <<>> => s \o m = m
  OBVIOUS
<1> QED
  BY Zenon, <1>1, <1>2, <1>5, <1>6

(* The first element and the others.                                       *)
LEMMA HeadAndTail ==
  ASSUME NEW X, NEW s \in Seq(X), s # <<>>
  PROVE  Head(s) \in X /\ Head(s) = s[1] /\ Tail(s) \in Seq(X)
OBVIOUS

(* The elements of a sequence that is cut out of another are elements of   *)
(* that one.                                                               *)
LEMMA CutOut ==
  ASSUME NEW X, NEW s \in Seq(X), NEW a \in Nat \ {0}, NEW b \in 0 .. Len(s)
  PROVE  /\ SubSeq(s, a, b) \in Seq(X)
         /\ Len(SubSeq(s, a, b)) = IF a <= b THEN b - a + 1 ELSE 0
         /\ \A i \in 1 .. Len(SubSeq(s, a, b)) :
              a + i - 1 \in a .. b /\ SubSeq(s, a, b)[i] = s[a + i - 1]
         /\ \A x : x \in Range(SubSeq(s, a, b)) <=> \E i \in a .. b : x = s[i]
<1>1. /\ SubSeq(s, a, b) \in Seq(X)
      /\ Len(SubSeq(s, a, b)) = IF a <= b THEN b - a + 1 ELSE 0
  OBVIOUS
<1>2. \A i \in 1 .. Len(SubSeq(s, a, b)) :
        a + i - 1 \in a .. b /\ SubSeq(s, a, b)[i] = s[a + i - 1]
  OBVIOUS
<1> DEFINE c == SubSeq(s, a, b)
<1>3. ASSUME NEW i \in a .. b PROVE i - a + 1 \in 1 .. Len(c) /\ c[i - a + 1] = s[i]
  OBVIOUS
<1>4. DOMAIN c = 1 .. Len(c)
  BY <1>1
<1> HIDE DEF c
<1>5. \A x : x \in Range(c) <=> \E i \in a .. b : x = s[i]
  <2>1. ASSUME NEW x \in Range(c) PROVE \E i \in a .. b : x = s[i]
    <3>1. PICK i \in 1 .. Len(c) : x = c[i]
      BY Zenon, <1>4 DEF Range
    <3>2. a + i - 1 \in a .. b /\ c[i] = s[a + i - 1]
      BY Zenon, <1>2 DEF c
    <3> QED
      BY Zenon, <3>1, <3>2
  <2>2. ASSUME NEW i \in a .. b PROVE s[i] \in Range(c)
    BY Zenon, <1>3, <1>4 DEF Range
  <2> QED
    BY Zenon, <2>1, <2>2
<1> QED
  BY Zenon, <1>1, <1>2, <1>5 DEF c

(* deleteNode takes out one element and keeps the others.                    *)
LEMMA RemovedOne ==
  ASSUME NEW X, NEW s \in Seq(X), NEW i \in 1 .. Len(s)
  PROVE  /\ deleteNode(s, i) \in Seq(X) /\ Len(deleteNode(s, i)) = Len(s) - 1
         /\ \A x \in Range(s) : x # s[i] => x \in Range(deleteNode(s, i))
<1> DEFINE l == SubSeq(s, 1, i - 1)
           r == SubSeq(s, i + 1, Len(s))
<1>1. deleteNode(s, i) = l \o r
  BY Zenon DEF deleteNode
<1>2. l \in Seq(X) /\ Len(l) = i - 1 /\ \A j \in 1 .. i - 1 : l[j] = s[j]
  OBVIOUS
<1>3. r \in Seq(X) /\ Len(r) = Len(s) - i /\ \A j \in 1 .. Len(s) - i : r[j] = s[i + j]
  OBVIOUS
<1> HIDE DEF l, r
<1>4. l \o r \in Seq(X) /\ Len(l \o r) = Len(s) - 1
  <2>0. l \in Seq(X) /\ r \in Seq(X)
    BY Zenon, <1>2, <1>3
  <2>1. l \o r \in Seq(X) /\ Len(l \o r) = Len(l) + Len(r)
    BY Zenon, <2>0, Joined
  <2>2. (i - 1) + (Len(s) - i) = Len(s) - 1
    OBVIOUS
  <2> QED
    BY Zenon, <1>2, <1>3, <2>1, <2>2
<1>5. ASSUME NEW x \in Range(s), x # s[i] PROVE x \in Range(l \o r)
  <2>1. PICK j \in 1 .. Len(s) : x = s[j]
    BY DEF Range
  <2>2. DOMAIN (l \o r) = 1 .. Len(s) - 1
    BY <1>4
  <2>3. CASE j < i
    <3>1. j \in 1 .. Len(s) - 1 /\ (l \o r)[j] = l[j] /\ l[j] = s[j]
      BY <1>2, <1>3, <2>3
    <3> QED
      BY Zenon, <2>1, <2>2, <3>1 DEF Range
  <2>4. CASE j > i
    <3>1. j - 1 \in 1 .. Len(s) - 1 /\ j - i \in 1 .. Len(s) - i /\ i + (j - i) = j
      BY <2>4
    <3>2. (l \o r)[j - 1] = r[j - i]
      BY SMTT(30), <1>2, <1>3, <2>4
    <3> QED
      BY Zenon, <1>3, <2>1, <2>2, <3>1, <3>2 DEF Range
  <2>5. j # i
    BY Zenon, <1>5, <2>1
  <2> QED
    BY <2>3, <2>4, <2>5
<1> QED
  BY Zenon, <1>1, <1>4, <1>5

---------------------------------------------------------------------------
(* Distances *)

(* What the definition of the powers of 2 says.                            *)
LEMMA Powers ==
  /\ pow2 \in [0 .. hashBits -> Nat \ {0}]
  /\ pow2[0] = 1
  /\ \A d \in 1 .. hashBits : pow2[d] = 2 * pow2[d - 1]
<1> DEFINE P == Nat \ {0}
           g == [x \in (1 .. hashBits) \X P |-> 2 * x[2]]
           def(f) == [d \in 0 .. hashBits |-> IF d = 0 THEN 1 ELSE 2 * f[d - 1]]
<1>1. hashBits \in Nat
  BY Zenon, FindnodeAssumption
<1>2. \A i \in 1 .. hashBits : \A v \in P : g[<<i, v>>] = 2 * v /\ 2 * v \in P
  OBVIOUS
<1>3. 1 \in P
  OBVIOUS
<1> HIDE DEF g, P
<1>4. PICK f \in [0 .. hashBits -> P] : follows(f, hashBits, 1, g)
  <2>1. turns(hashBits, P, g)
    BY Zenon, <1>2 DEF turns
  <2> QED
    BY Zenon, <1>1, <1>3, <2>1, Recursion
<1>5. ASSUME NEW i \in 1 .. hashBits PROVE f[i] = 2 * f[i - 1]
  <2>1. f[i - 1] \in P
    BY <1>1, <1>4
  <2> QED
    BY Zenon, <2>1, <1>2, <1>4 DEF follows
<1>6. f = def(f)
  BY <1>1, <1>4, <1>5 DEF follows
<1>7. pow2 = def(pow2)
  BY Zenon, <1>6 DEF pow2
<1>8. pow2[0] = 1 /\ \A d \in 1 .. hashBits : pow2[d] = 2 * pow2[d - 1]
  BY <1>1, <1>7
<1> DEFINE S == {i \in 0 .. hashBits : pow2[i] \in P}
<1>9. \A i \in 0 .. hashBits : i \in S
  <2>1. 0 \in S
    BY <1>1, <1>3, <1>8
  <2>2. ASSUME NEW i \in 1 .. hashBits, i - 1 \in S PROVE i \in S
    <3>1. i \in 0 .. hashBits
      BY <1>1
    <3>2. pow2[i - 1] \in P
      BY Zenon, <2>2
    <3> QED
      BY Zenon, <1>2, <1>8, <3>1, <3>2
  <2> HIDE DEF S
  <2> QED
    BY Zenon, <1>1, <2>1, <2>2, Induction
<1> QED
  <2> HIDE DEF def
  <2>1. pow2 = [d \in 0 .. hashBits |-> pow2[d]]
    BY Zenon, <1>7 DEF def
  <2> QED
    BY Zenon, <1>8, <1>9, <2>1 DEF P

(* The bits of a and b from d on are the same.                             *)
agree(a, b, d) == a \div pow2[d] = b \div pow2[d]

(* And then those from any later bit on.                                   *)
LEMMA AgreeLonger ==
  ASSUME NEW a \in Nat, NEW b \in Nat, NEW e \in 0 .. hashBits, agree(a, b, e),
         NEW d \in e .. hashBits
  PROVE  agree(a, b, d)
<1> DEFINE S == {i \in 0 .. hashBits : i >= e => agree(a, b, i)}
<1>1. hashBits \in Nat
  BY Zenon, FindnodeAssumption
<1>2. 0 \in S
  BY <1>1
<1>3. ASSUME NEW i \in 1 .. hashBits, i - 1 \in S PROVE i \in S
  <2>1. CASE i - 1 >= e
    <3>1. agree(a, b, i - 1)
      BY Zenon, <1>3, <2>1
    <3>2. pow2[i] = 2 * pow2[i - 1] /\ pow2[i - 1] \in Nat /\ pow2[i - 1] > 0
      BY SMTT(30), <1>1, Powers
    <3>3. \A p \in Nat : p > 0 => \A x \in Nat : x \div (2 * p) = (x \div p) \div 2
      BY SMT
    <3>4. \A x \in Nat : x \div pow2[i] = (x \div pow2[i - 1]) \div 2
      BY Zenon, <3>2, <3>3
    <3>5. agree(a, b, i)
      BY Zenon, <3>1, <3>4 DEF agree
    <3> QED
      BY <1>1, <3>5
  <2>2. CASE ~(i - 1 >= e)
    <3>1. ~(i >= e) \/ i = e
      BY <1>1, <2>2
    <3> QED
      BY <1>1, <3>1
  <2> QED
    BY Zenon, <2>1, <2>2
<1> HIDE DEF S
<1>4. \A i \in 0 .. hashBits : i \in S
  BY Zenon, <1>1, <1>2, <1>3, Induction
<1>5. d \in 0 .. hashBits /\ d >= e
  BY <1>1
<1> QED
  BY Zenon, <1>4, <1>5 DEF S

(* LogDist is the number of bits up to the last one that differs.          *)
LEMMA LogDistance ==
  ASSUME NEW a \in ID, NEW b \in ID
  PROVE  /\ LogDist(a, b) \in 0 .. hashBits
         /\ agree(a, b, LogDist(a, b))
         /\ \A e \in 0 .. LogDist(a, b) - 1 : ~agree(a, b, e)
<1> DEFINE S == {d \in 0 .. hashBits : agree(a, b, d)}
           last(d) == agree(a, b, d) /\ \A e \in 0 .. d - 1 : ~agree(a, b, e)
<1>1. hashBits \in Nat /\ hashBits \in 0 .. hashBits
  BY FindnodeAssumption
<1>2. S # {}
  <2>1. pow2[hashBits] \in Nat
    BY Zenon, <1>1, Powers
  <2>2. \A p \in Nat : \A x \in 0 .. p - 1 : x \div p = 0
    OBVIOUS
  <2>3. agree(a, b, hashBits)
    BY Zenon, <2>1, <2>2 DEF agree, ID
  <2> QED
    BY Zenon, <1>1, <2>3
<1>3. S \subseteq Nat
  BY <1>1
<1> HIDE DEF S
<1>4. PICK d \in S : \A y \in S : d <= y
  BY Zenon, <1>2, <1>3, LeastElement
<1>5. d \in 0 .. hashBits /\ agree(a, b, d)
  BY Zenon DEF S
<1>6. ASSUME NEW e \in 0 .. d - 1, agree(a, b, e) PROVE FALSE
  <2>1. e \in 0 .. hashBits /\ ~(d <= e)
    BY <1>1, <1>5
  <2> QED
    BY Zenon, <1>4, <1>6, <2>1 DEF S
<1>7. \E x \in 0 .. hashBits : last(x)
  BY Zenon, <1>5, <1>6
<1>8. LogDist(a, b) = CHOOSE x \in 0 .. hashBits : last(x)
  BY Zenon DEF LogDist, agree
<1> HIDE DEF last
<1>9. LogDist(a, b) \in 0 .. hashBits /\ last(LogDist(a, b))
  BY Zenon, <1>7, <1>8
<1> QED
  BY Zenon, <1>9 DEF last

(* A node that is closer to the target than Dest is as far from Dest as    *)
(* the target: lookupDistances need only ask for the distance of the       *)
(* target to get it.                                                       *)
LEMMA CloserIsAsFar ==
  ASSUME NEW t \in ID, NEW n \in ID, NEW m \in ID, LogDist(t, n) < LogDist(t, m)
  PROVE  LogDist(m, n) = LogDist(t, m)
<1> DEFINE l == LogDist(t, n)
           d == LogDist(t, m)
           k == LogDist(m, n)
<1>1. hashBits \in Nat /\ t \in Nat /\ n \in Nat /\ m \in Nat
  BY FindnodeAssumption DEF ID
<1>2. l \in 0 .. hashBits /\ d \in 0 .. hashBits /\ k \in 0 .. hashBits
  BY Zenon, LogDistance
<1>3. agree(t, n, l) /\ agree(t, m, d) /\ agree(m, n, k)
  BY Zenon, LogDistance
<1>4. /\ \A e \in 0 .. d - 1 : ~agree(t, m, e)
      /\ \A e \in 0 .. k - 1 : ~agree(m, n, e)
  BY Zenon, LogDistance
<1>5. l < d
  BY Zenon
<1> HIDE DEF l, d, k
<1>6. ~(d < k)
  <2>1. SUFFICES ASSUME d < k PROVE FALSE
    BY Zenon
  <2>2. d \in l .. hashBits /\ d \in 0 .. k - 1
    BY <1>1, <1>2, <1>5, <2>1
  <2>3. agree(t, n, d)
    BY Zenon, <1>1, <1>2, <1>3, <2>2, AgreeLonger
  <2> QED
    BY Zenon, <1>3, <1>4, <2>2, <2>3 DEF agree
<1>7. ~(k < d)
  <2>1. SUFFICES ASSUME k < d PROVE FALSE
    BY Zenon
  <2>2. PICK e \in 0 .. d - 1 : e \in l .. hashBits /\ e \in k .. hashBits
    <3>1. CASE k <= l
      BY <1>1, <1>2, <1>5, <3>1
    <3>2. CASE ~(k <= l)
      BY <1>1, <1>2, <2>1, <3>2
    <3> QED
      BY Zenon, <3>1, <3>2
  <2>3. agree(t, n, e) /\ agree(m, n, e)
    BY Zenon, <1>1, <1>2, <1>3, <2>2, AgreeLonger
  <2> QED
    BY Zenon, <1>4, <2>3 DEF agree
<1>8. k = d
  BY <1>1, <1>2, <1>6, <1>7
<1> QED
  BY Zenon, <1>8 DEF k, d

---------------------------------------------------------------------------
(* What the loops compute *)

(* lookupDistances asks for the distance of the target first.              *)
LEMMA FirstDistance ==
  ASSUME NEW t \in ID
  PROVE  /\ lookupDistances(t, Dest) \in Seq(Nat) /\ lookupDistances(t, Dest) # <<>>
         /\ lookupDistances(t, Dest)[1] = LogDist(t, Dest)
<1> DEFINE td == LogDist(t, Dest)
           more(i) == (IF td + i < hashBits THEN <<td + i>> ELSE <<>>)
                        \o (IF td - i > 0 THEN <<td - i>> ELSE <<>>)
           next(i, s) == IF Len(s) < lookupRequestLimit THEN s \o more(i) ELSE s
           def(f) == [i \in 0 .. hashBits |->
                        IF i = 0 THEN firstDistances(td) ELSE next(i, f[i - 1])]
           V == {s \in Seq(Nat) : s # <<>> /\ s[1] = td}
           g == [x \in (1 .. hashBits) \X V |-> next(x[1], x[2])]
           F == CHOOSE f : f = def(f)
<1>1. hashBits \in Nat /\ td \in Nat
  <2>1. td \in 0 .. hashBits /\ hashBits \in Nat
    BY Zenon, LogDistance, FindnodeAssumption
  <2> QED
    BY <2>1
<1>2. lookupDistances(t, Dest) = F[hashBits]
  BY Zenon DEF lookupDistances
<1> HIDE DEF td
<1>3. firstDistances(td) \in V
  BY <1>1 DEF firstDistances
<1>4. ASSUME NEW i \in 1 .. hashBits, NEW s \in V PROVE next(i, s) \in V
  <2>1. more(i) \in Seq(Nat)
    BY <1>1
  <2> HIDE DEF more
  <2>2. s \in Seq(Nat) /\ s # <<>> /\ s[1] = td
    BY Zenon
  <2>3. s \o more(i) \in Seq(Nat) /\ s \o more(i) # <<>> /\ (s \o more(i))[1] = s[1]
    BY <2>1, <2>2, Joined
  <2>4. s \o more(i) \in V
    BY Zenon, <2>2, <2>3
  <2> QED
    BY Zenon, <2>4
<1> HIDE DEF V, next
<1>5. \A i \in 1 .. hashBits : \A s \in V : g[<<i, s>>] = next(i, s)
  BY Zenon
<1> HIDE DEF g
<1>6. turns(hashBits, V, g)
  BY Zenon, <1>4, <1>5 DEF turns
<1>7. PICK f \in [0 .. hashBits -> V] : follows(f, hashBits, firstDistances(td), g)
  BY Zenon, <1>1, <1>3, <1>6, Recursion
<1>8. \A i \in 1 .. hashBits : f[i] = next(i, f[i - 1])
  <2>1. \A i \in 1 .. hashBits : i - 1 \in 0 .. hashBits
    BY <1>1
  <2> QED
    BY Zenon, <1>5, <1>7, <2>1 DEF follows
<1>9. f = def(f)
  BY <1>1, <1>7, <1>8 DEF follows
<1>10. F = def(F)
  BY Zenon, <1>9
<1> HIDE DEF F
<1>11. F[0] = firstDistances(td) /\ \A i \in 1 .. hashBits : F[i] = next(i, F[i - 1])
  BY <1>1, <1>10
<1> DEFINE S == {i \in 0 .. hashBits : F[i] \in V}
<1>12. \A i \in 0 .. hashBits : i \in S
  <2>1. 0 \in S
    BY <1>1, <1>3, <1>11
  <2>2. ASSUME NEW i \in 1 .. hashBits, i - 1 \in S PROVE i \in S
    <3>1. i \in 0 .. hashBits
      BY <1>1
    <3>2. F[i - 1] \in V
      BY Zenon, <2>2
    <3> QED
      BY Zenon, <1>4, <1>11, <3>1, <3>2
  <2> HIDE DEF S
  <2> QED
    BY Zenon, <1>1, <2>1, <2>2, Induction
<1>13. F[hashBits] \in V
  BY <1>1, <1>12
<1> QED
  BY Zenon, <1>2, <1>13 DEF V, td

(* handleFindnode takes the distances of a request in their order: the     *)
(* first is the first.                                                     *)
LEMMA ValidDistances ==
  ASSUME NEW dists \in Seq(Nat)
  PROVE  /\ valid(dists) \in Seq(0 .. hashBits)
         /\ dists # <<>> /\ dists[1] <= hashBits =>
              valid(dists) # <<>> /\ valid(dists)[1] = dists[1]
         /\ dists = <<0>> => valid(dists) = <<0>>
<1> DEFINE n == Len(dists)
           next(i, s) == IF dists[i] > hashBits \/ dists[i] \in Range(s) THEN s
                         ELSE Append(s, dists[i])
           def(f) == [i \in 0 .. n |-> IF i = 0 THEN <<>> ELSE next(i, f[i - 1])]
           V == Seq(0 .. hashBits)
           g == [x \in (1 .. n) \X V |-> next(x[1], x[2])]
           F == CHOOSE f : f = def(f)
<1>1. hashBits \in Nat /\ n \in Nat
  BY FindnodeAssumption
<1>2. valid(dists) = F[n]
  BY Zenon DEF valid
<1>3. <<>> \in V
  OBVIOUS
<1>4. ASSUME NEW i \in 1 .. n, NEW s \in V PROVE next(i, s) \in V
  <2>1. dists[i] \in Nat
    OBVIOUS
  <2>2. ~(dists[i] > hashBits) => dists[i] \in 0 .. hashBits
    BY <1>1, <2>1
  <2>3. ~(dists[i] > hashBits) => Append(s, dists[i]) \in V
    BY <2>2
  <2> QED
    BY Zenon, <2>3
<1> HIDE DEF V, next
<1>5. \A i \in 1 .. n : \A s \in V : g[<<i, s>>] = next(i, s)
  BY Zenon
<1> HIDE DEF g
<1>6. turns(n, V, g)
  BY Zenon, <1>4, <1>5 DEF turns
<1>7. PICK f \in [0 .. n -> V] : follows(f, n, <<>>, g)
  BY Zenon, <1>1, <1>3, <1>6, Recursion
<1>8. \A i \in 1 .. n : f[i] = next(i, f[i - 1])
  <2>1. \A i \in 1 .. n : i - 1 \in 0 .. n
    BY <1>1
  <2> QED
    BY Zenon, <1>5, <1>7, <2>1 DEF follows
<1>9. f = def(f)
  BY <1>1, <1>7, <1>8 DEF follows
<1>10. F = def(F)
  BY Zenon, <1>9
<1> HIDE DEF F
<1>11. F[0] = <<>> /\ \A i \in 1 .. n : F[i] = next(i, F[i - 1])
  BY SMTT(30), <1>1, <1>10
<1> DEFINE first(s) == s # <<>> /\ s[1] = dists[1]
           S == {i \in 0 .. n : F[i] \in V /\ (i > 0 /\ dists[1] <= hashBits => first(F[i]))}
<1>12. ASSUME n > 0, dists[1] <= hashBits PROVE F[1] = <<dists[1]>>
  <2>1. F[1] = next(1, <<>>)
    BY <1>1, <1>11, <1>12
  <2>2. dists[1] \notin Range(<<>>)
    BY DEF Range
  <2>3. dists[1] \in Nat
    BY <1>1, <1>12
  <2>4. next(1, <<>>) = Append(<<>>, dists[1])
    BY <1>1, <1>12, <2>2, <2>3 DEF next
  <2> QED
    BY <2>1, <2>4
<1>13. \A i \in 0 .. n : i \in S
  <2>1. 0 \in S
    BY <1>1, <1>3, <1>11
  <2>2. ASSUME NEW i \in 1 .. n, i - 1 \in S PROVE i \in S
    <3>1. i \in 0 .. n /\ i > 0 /\ n > 0
      BY <1>1
    <3>2. F[i - 1] \in V /\ F[i] = next(i, F[i - 1])
      BY Zenon, <1>11, <2>2
    <3>3. F[i] \in V
      BY Zenon, <1>4, <3>2
    <3>4. ASSUME dists[1] <= hashBits PROVE first(F[i])
      <4>1. CASE i = 1
        BY Zenon, <1>12, <3>1, <3>4, <4>1, <<dists[1]>> # <<>>, <<dists[1]>>[1] = dists[1]
      <4>2. CASE i # 1
        <5>1. i - 1 > 0
          BY <1>1, <4>2
        <5>2. first(F[i - 1])
          BY Zenon, <2>2, <3>4, <5>1
        <5>3. \A s \in V : first(s) => first(Append(s, dists[i]))
          BY DEF V
        <5> QED
          BY Zenon, <3>2, <5>2, <5>3 DEF next
      <4> QED
        BY Zenon, <4>1, <4>2
    <3> QED
      BY Zenon, <3>1, <3>3, <3>4
  <2> HIDE DEF S
  <2> QED
    BY Zenon, <1>1, <2>1, <2>2, Induction
<1>14. n \in S
  BY <1>1, <1>13
<1>15. dists # <<>> => n > 0
  OBVIOUS
<1>16. ASSUME dists = << 0 >> PROVE F[n] = <<0>>
  BY <1>1, <1>12, <1>16
<1> QED
  BY Zenon, <1>2, <1>14, <1>15, <1>16 DEF V

(* relayable keeps the nodes that CheckRelayIP lets pass, and no others.   *)
LEMMA RelayableNodes ==
  ASSUME NEW X, NEW bn \in Seq(X)
  PROVE  /\ relayable(bn) \in Seq(X)
         /\ Len(relayable(bn)) <= Len(bn)
         /\ \A j \in 1 .. Len(bn) : CheckRelayIP(Self, bn[j]) => bn[j] \in Range(relayable(bn))
<1> DEFINE n == Len(bn)
           next(i, s) == IF CheckRelayIP(Self, bn[i]) THEN Append(s, bn[i]) ELSE s
           def(f) == [i \in 0 .. n |-> IF i = 0 THEN <<>> ELSE next(i, f[i - 1])]
           V == Seq(X)
           g == [x \in (1 .. n) \X V |-> next(x[1], x[2])]
           F == CHOOSE f : f = def(f)
<1>1. n \in Nat
  OBVIOUS
<1>2. relayable(bn) = F[n]
  BY Zenon DEF relayable
<1>3. <<>> \in V
  OBVIOUS
<1>4. ASSUME NEW i \in 1 .. n, NEW s \in V
      PROVE  /\ next(i, s) \in V /\ Len(next(i, s)) <= Len(s) + 1
             /\ Range(s) \subseteq Range(next(i, s))
             /\ CheckRelayIP(Self, bn[i]) => bn[i] \in Range(next(i, s))
  <2>1. Append(s, bn[i]) \in V /\ Len(Append(s, bn[i])) = Len(s) + 1 /\ Len(s) \in Nat
    OBVIOUS
  <2>2. \A j \in 1 .. Len(s) : j \in 1 .. Len(s) + 1 /\ Append(s, bn[i])[j] = s[j]
    OBVIOUS
  <2>3. Len(s) + 1 \in 1 .. Len(s) + 1 /\ Append(s, bn[i])[Len(s) + 1] = bn[i]
    OBVIOUS
  <2>4. DOMAIN s = 1 .. Len(s) /\ DOMAIN Append(s, bn[i]) = 1 .. Len(s) + 1
    OBVIOUS
  <2>5. Range(s) \subseteq Range(Append(s, bn[i])) /\ bn[i] \in Range(Append(s, bn[i]))
    BY Zenon, <2>2, <2>3, <2>4 DEF Range
  <2>6. Len(s) <= Len(s) + 1 /\ Len(s) + 1 <= Len(s) + 1
    BY <2>1
  <2> QED
    BY Zenon, <2>1, <2>5, <2>6
<1> HIDE DEF V, next
<1>5. \A i \in 1 .. n : \A s \in V : g[<<i, s>>] = next(i, s)
  BY Zenon
<1> HIDE DEF g
<1>6. turns(n, V, g)
  BY Zenon, <1>4, <1>5 DEF turns
<1>7. PICK f \in [0 .. n -> V] : follows(f, n, <<>>, g)
  BY Zenon, <1>1, <1>3, <1>6, Recursion
<1>8. \A i \in 1 .. n : f[i] = next(i, f[i - 1])
  <2>1. \A i \in 1 .. n : i - 1 \in 0 .. n
    BY <1>1
  <2> QED
    BY Zenon, <1>5, <1>7, <2>1 DEF follows
<1>9. f = def(f)
  BY <1>1, <1>7, <1>8 DEF follows
<1>10. F = def(F)
  BY Zenon, <1>9
<1> HIDE DEF F
<1>11. F[0] = <<>> /\ \A i \in 1 .. n : F[i] = next(i, F[i - 1])
  BY <1>1, <1>10
<1> DEFINE kept(i) == \A j \in 1 .. i : CheckRelayIP(Self, bn[j]) => bn[j] \in Range(F[i])
           S == {i \in 0 .. n : F[i] \in V /\ Len(F[i]) <= i /\ kept(i)}
<1>12. \A i \in 0 .. n : i \in S
  <2>1. 0 \in S
    BY <1>1, <1>3, <1>11
  <2>2. ASSUME NEW i \in 1 .. n, i - 1 \in S PROVE i \in S
    <3>1. i \in 0 .. n /\ \A j \in 1 .. i : j \in 1 .. i - 1 \/ j = i
      BY <1>1
    <3>2. F[i - 1] \in V /\ F[i] = next(i, F[i - 1]) /\ kept(i - 1)
      BY Zenon, <1>11, <2>2
    <3>3. F[i] \in V
      BY Zenon, <1>4, <3>2
    <3>4. kept(i)
      BY Zenon, <1>4, <3>1, <3>2
    <3>5. Len(F[i]) <= i
      <4>1. Len(F[i]) <= Len(F[i - 1]) + 1 /\ Len(F[i - 1]) <= i - 1
        BY Zenon, <1>4, <2>2, <3>2
      <4>2. Len(F[i]) \in Nat /\ Len(F[i - 1]) \in Nat
        BY <3>2, <3>3 DEF V
      <4> QED
        BY <1>1, <4>1, <4>2
    <3> QED
      BY Zenon, <3>1, <3>3, <3>4, <3>5
  <2> HIDE DEF S
  <2> QED
    BY Zenon, <1>1, <2>1, <2>2, Induction
<1>13. n \in S
  BY <1>1, <1>12
<1> QED
  BY Zenon, <1>2, <1>13 DEF V

---------------------------------------------------------------------------
(* Packets *)

(* The greater and the smaller of two numbers.                             *)
LEMMA OfTwo ==
  ASSUME NEW a \in Int, NEW b \in Int
  PROVE  /\ Max({a, b}) = IF a >= b THEN a ELSE b
         /\ Min({a, b}) = IF a <= b THEN a ELSE b
<1>1. \E x \in {a, b} : \A y \in {a, b} : x >= y
  OBVIOUS
<1>2. Max({a, b}) \in {a, b} /\ \A y \in {a, b} : Max({a, b}) >= y
  BY Zenon, <1>1 DEF Max
<1>3. \E x \in {a, b} : \A y \in {a, b} : x =< y
  OBVIOUS
<1>4. Min({a, b}) \in {a, b} /\ \A y \in {a, b} : Min({a, b}) =< y
  BY Zenon, <1>3 DEF Min
<1> QED
  BY <1>2, <1>4

(* ceilDiv rounds up.                                                      *)
LEMMA RoundsUp ==
  ASSUME NEW n \in Nat
  PROVE  LET c == ceilDiv(n, nodesResponseItemLimit)
         IN /\ c \in Nat
            /\ n <= c * nodesResponseItemLimit
            /\ n > 0 => c > 0 /\ (c - 1) * nodesResponseItemLimit < n
            /\ n = 0 => c = 0
            /\ n = 1 => c = 1
<1> DEFINE L == nodesResponseItemLimit
           c == ceilDiv(n, L)
<1>1. L \in Nat /\ L > 0
  BY FindnodeAssumption
<1> HIDE DEF L
<1>2. n + L - 1 \in Nat
  BY <1>1
<1>3. c \in Int /\ c * L <= n + L - 1 /\ n + L - 1 < c * L + L
  BY <1>1, <1>2 DEF ceilDiv
<1> HIDE DEF c
<1>4. n <= c * L
  BY <1>1, <1>3
<1>5. c \in Nat
  BY <1>1, <1>3, <1>4
<1>6. n > 0 => c > 0
  BY <1>1, <1>3, <1>4, <1>5
<1>7. (c - 1) * L = c * L - L
  BY <1>1, <1>5
<1>8. n > 0 => (c - 1) * L < n
  BY <1>1, <1>3, <1>5, <1>7
<1>9. n = 0 => c = 0
  BY <1>1, <1>3, <1>5
<1>10. n = 1 => c = 1
  BY <1>1, <1>3, <1>5, <1>6
<1> QED
  BY Zenon, <1>4, <1>5, <1>6, <1>8, <1>9, <1>10 DEF c, L

(* The nodes of the packet i of an answer.                                 *)
items(list, i) ==
  SubSeq(list, (i - 1) * nodesResponseItemLimit + 1,
         Min({i * nodesResponseItemLimit, Len(list)}))

(* Each packet has nodes of the answer, and none but the packets that      *)
(* packNodes makes is needed.                                              *)
LEMMA PacketsHoldAll ==
  ASSUME NEW X, NEW list \in Seq(X)
  PROVE  LET k == packets(Len(list))
         IN /\ k \in Nat \ {0}
            /\ \A i \in 1 .. k : items(list, i) \in Seq(X) /\ Range(items(list, i)) \subseteq Range(list)
            /\ \A j \in 1 .. Len(list) : \E i \in 1 .. k :
                 /\ j - (i - 1) * nodesResponseItemLimit \in 1 .. nodesResponseItemLimit
                 /\ list[j] \in Range(items(list, i))
            /\ Len(list) <= 1 => k = 1
<1> DEFINE L == nodesResponseItemLimit
           n == Len(list)
           c == ceilDiv(n, L)
           k == packets(n)
<1>1. L \in Nat /\ L > 0 /\ n \in Nat /\ DOMAIN list = 1 .. n
  BY FindnodeAssumption
<1>2. c \in Nat /\ n <= c * L /\ (n = 0 => c = 0) /\ (n = 1 => c = 1)
  BY Zenon, <1>1, RoundsUp
<1>3. k = IF 1 >= c THEN 1 ELSE c
  <2>1. c \in Int /\ 1 \in Int
    BY <1>2
  <2> HIDE DEF c
  <2>2. Max({1, c}) = IF 1 >= c THEN 1 ELSE c
    BY Zenon, <2>1, OfTwo
  <2> QED
    BY Zenon, <2>2 DEF packets, c
<1> HIDE DEF L, n, c, k
<1>4. k \in Nat \ {0} /\ n <= k * L /\ (n <= 1 => k = 1)
  BY <1>1, <1>2, <1>3
<1>5. ASSUME NEW i \in 1 .. k
      PROVE  /\ items(list, i) \in Seq(X)
             /\ \A x : x \in Range(items(list, i)) <=>
                       \E j \in (i - 1) * L + 1 .. Min({i * L, n}) : x = list[j]
             /\ Min({i * L, n}) = IF i * L <= n THEN i * L ELSE n
             /\ Min({i * L, n}) \in 0 .. n /\ (i - 1) * L + 1 \in Nat \ {0}
  <2>1. i * L \in Nat /\ (i - 1) * L \in Nat
    BY <1>1, <1>4
  <2> DEFINE il == i * L
             jl == (i - 1) * L
  <2> HIDE DEF il, jl
  <2>2. il \in Int /\ n \in Int
    BY <1>1, <2>1 DEF il
  <2>3. Min({il, n}) = IF il <= n THEN il ELSE n
    BY Zenon, <2>2, OfTwo
  <2>4. Min({il, n}) \in 0 .. n
    BY <1>1, <2>1, <2>3 DEF il
  <2>5. jl + 1 \in Nat \ {0}
    BY <2>1 DEF jl
  <2>6. items(list, i) = SubSeq(list, jl + 1, Min({il, n}))
    BY Zenon DEF items, il, jl, L, n
  <2> DEFINE a == jl + 1
             b == Min({il, n})
  <2>a. a \in Nat \ {0} /\ b \in 0 .. Len(list)
    BY Zenon, <2>4, <2>5 DEF n
  <2> HIDE DEF a, b
  <2>7. SubSeq(list, a, b) \in Seq(X)
    BY Zenon, <2>a, CutOut
  <2>8. \A x : x \in Range(SubSeq(list, a, b)) <=> \E j \in a .. b : x = list[j]
    BY <2>a, CutOut
  <2> QED
    BY Zenon, <2>3, <2>4, <2>5, <2>6, <2>7, <2>8 DEF il, jl, a, b
<1>6. ASSUME NEW i \in 1 .. k PROVE Range(items(list, i)) \subseteq Range(list)
  <2>1. \A j \in (i - 1) * L + 1 .. Min({i * L, n}) : j \in 1 .. n
    BY <1>1, <1>5
  <2>2. \A j \in 1 .. n : list[j] \in Range(list)
    BY Zenon, <1>1 DEF Range
  <2>3. ASSUME NEW x \in Range(items(list, i)) PROVE x \in Range(list)
    <3>1. PICK j \in (i - 1) * L + 1 .. Min({i * L, n}) : x = list[j]
      BY Zenon, <1>5
    <3> QED
      BY Zenon, <2>1, <2>2, <3>1
  <2> QED
    BY Zenon, <2>3
<1>7. ASSUME NEW j \in 1 .. n
      PROVE  \E i \in 1 .. k : j - (i - 1) * L \in 1 .. L /\ list[j] \in Range(items(list, i))
  <2> DEFINE i == ceilDiv(j, L)
  <2>1. j \in Nat /\ j > 0
    BY <1>1
  <2>2. i \in Nat /\ j <= i * L /\ i > 0 /\ (i - 1) * L < j
    BY Zenon, <2>1, RoundsUp DEF L
  <2> HIDE DEF i
  <2>3. i <= k
    <3>1. (i - 1) * L < k * L
      BY <1>1, <1>4, <2>2
    <3>2. i - 1 < k
      BY <1>1, <1>4, <2>2, <3>1
    <3> QED
      BY <1>4, <2>2, <3>2
  <2>4. i \in 1 .. k
    BY <1>4, <2>2, <2>3
  <2>5. (i - 1) * L = i * L - L /\ i * L \in Nat
    BY <1>1, <2>2
  <2>6. j - (i - 1) * L \in 1 .. L
    BY <1>1, <2>1, <2>2, <2>5
  <2>7. j \in (i - 1) * L + 1 .. Min({i * L, n})
    BY <1>1, <1>5, <2>1, <2>2, <2>4, <2>5
  <2> QED
    BY Zenon, <1>5, <2>4, <2>6, <2>7
<1> QED
  BY Zenon, <1>4, <1>5, <1>6, <1>7 DEF L, n, k

(* Of the packets that waitForNodes does not wait for, there are as many   *)
(* as excess says.                                                         *)
LEMMA NotWaitedFor ==
  ASSUME NEW X, NEW list \in Seq(X)
  PROVE  LET k == packets(Len(list))
             m == Min({k, totalNodesResponseLimit})
         IN m \in 1 .. k /\ excess(list) = k - m
<1> DEFINE n == Len(list)
           c == ceilDiv(n, nodesResponseItemLimit)
           T == totalNodesResponseLimit
           k == packets(n)
<1>1. T \in Nat /\ T > 0 /\ n \in Nat
  BY FindnodeAssumption
<1>2. c \in Nat
  BY Zenon, <1>1, RoundsUp
<1> HIDE DEF n, c, T
<1>3. k = IF 1 >= c THEN 1 ELSE c
  <2>1. c \in Int /\ 1 \in Int
    BY <1>2
  <2>2. Max({1, c}) = IF 1 >= c THEN 1 ELSE c
    BY Zenon, <2>1, OfTwo
  <2> QED
    BY Zenon, <2>2 DEF packets, c
<1> HIDE DEF k
<1>4. k \in Int /\ c - T \in Int /\ T \in Int /\ 0 \in Int
  BY <1>1, <1>2, <1>3
<1>5. Min({k, T}) = IF k <= T THEN k ELSE T
  BY Zenon, <1>4, OfTwo
<1>6. Max({0, c - T}) = IF 0 >= c - T THEN 0 ELSE c - T
  BY Zenon, <1>4, OfTwo
<1>7. excess(list) = Max({0, c - T})
  BY Zenon DEF excess, c, T, n
<1>8. Min({k, T}) \in 1 .. k /\ Max({0, c - T}) = k - Min({k, T})
  BY <1>1, <1>2, <1>3, <1>5, <1>6
<1> QED
  BY Zenon, <1>7, <1>8 DEF k, n, T

(* When waitForNodes has got as many packets as it waits for, and no       *)
(* packet twice, no more nodes are missing than the other packets hold.    *)
LEMMA FewAreMissing ==
  ASSUME NEW X, NEW list \in Seq(X), NEW R \in SUBSET (1 .. packets(Len(list))),
         Cardinality(R) = Min({packets(Len(list)), totalNodesResponseLimit}),
         NEW P, P \subseteq Range(list), NEW got,
         \A i \in R : \A x \in Range(items(list, i)) : x \in P => x \in got
  PROVE  /\ IsFiniteSet(P \ got)
         /\ Cardinality(P \ got) <= excess(list) * nodesResponseItemLimit
<1> DEFINE L == nodesResponseItemLimit
           n == Len(list)
           k == packets(n)
           M == (1 .. k) \ R
           Box == M \X (1 .. L)
           h == [x \in Box |-> list[(x[1] - 1) * L + x[2]]]
           T == {h[x] : x \in Box}
<1>1. L \in Nat /\ k \in Nat \ {0} /\ n \in Nat /\ DOMAIN list = 1 .. n
  <2>1. k \in Nat \ {0}
    BY Zenon, PacketsHoldAll
  <2> QED
    BY <2>1, FindnodeAssumption
<1>2. Cardinality(R) \in 1 .. k /\ excess(list) = k - Cardinality(R)
  BY Zenon, NotWaitedFor
<1> HIDE DEF L, n, k
<1>3. IsFiniteSet(M) /\ Cardinality(M) = excess(list)
  <2>1. 1 \in Int /\ k \in Int /\ ~(1 > k) /\ k - 1 + 1 = k
    BY <1>1
  <2>2. IsFiniteSet(1 .. k) /\ Cardinality(1 .. k) = IF 1 > k THEN 0 ELSE k - 1 + 1
    BY Zenon, <2>1, FS_Interval
  <2>3. (1 .. k) \cap R = R
    BY Zenon DEF k, n
  <2>4. IsFiniteSet(M) /\ Cardinality(M) = Cardinality(1 .. k) - Cardinality((1 .. k) \cap R)
    BY Zenon, <2>2, FS_Difference
  <2> QED
    BY Zenon, <1>2, <2>1, <2>2, <2>3, <2>4
<1>4. IsFiniteSet(Box) /\ Cardinality(Box) = excess(list) * L
  <2>1. 1 \in Int /\ L \in Int
    BY <1>1
  <2>2. IsFiniteSet(1 .. L) /\ Cardinality(1 .. L) = IF 1 > L THEN 0 ELSE L - 1 + 1
    BY Zenon, <2>1, FS_Interval
  <2>3. Cardinality(1 .. L) = L
    BY <1>1, <2>2
  <2> DEFINE I == 1 .. L
  <2>4. IsFiniteSet(I) /\ Cardinality(I) = L
    BY Zenon, <2>2, <2>3
  <2> HIDE DEF M, I
  <2>5. IsFiniteSet(M \X I) /\ Cardinality(M \X I) = Cardinality(M) * Cardinality(I)
    BY Zenon, <1>3, <2>4, FS_Product
  <2> QED
    BY Zenon, <1>3, <2>4, <2>5 DEF I
<1>5. IsFiniteSet(T) /\ Cardinality(T) <= Cardinality(Box)
  <2>1. h \in Surjection(Box, T)
    BY Zenon DEF Surjection
  <2> HIDE DEF Box, h, T
  <2> QED
    BY Zenon, <1>4, <2>1, FS_Surjection
<1>6. ASSUME NEW x \in P \ got PROVE x \in T
  <2>1. PICK j \in 1 .. n : x = list[j]
    BY Zenon, <1>1 DEF Range
  <2>2. PICK i \in 1 .. k : j - (i - 1) * L \in 1 .. L /\ list[j] \in Range(items(list, i))
    BY Zenon, PacketsHoldAll DEF L, n, k
  <2>3. i \in M
    BY Zenon, <2>1, <2>2
  <2> DEFINE y == <<i, j - (i - 1) * L>>
  <2>4. y \in Box /\ y[1] = i /\ y[2] = j - (i - 1) * L
    <3> HIDE DEF M
    <3> QED
      BY Zenon, <2>2, <2>3
  <2>5. (i - 1) * L + (j - (i - 1) * L) = j
    <3>1. (i - 1) * L \in Int
      BY <1>1
    <3> QED
      BY <1>1, <3>1
  <2>6. h[y] = x
    <3> HIDE DEF Box, y
    <3> QED
      BY Zenon, <2>1, <2>4, <2>5
  <2> HIDE DEF Box, h, y
  <2> QED
    BY Zenon, <2>4, <2>6
<1>7. P \ got \in SUBSET T
  BY Zenon, <1>6
<1> HIDE DEF T, Box
<1>8. IsFiniteSet(P \ got) /\ Cardinality(P \ got) <= Cardinality(T)
  BY Zenon, <1>5, <1>7, FS_Subset
<1>9. Cardinality(P \ got) \in Nat /\ Cardinality(T) \in Nat /\ Cardinality(Box) \in Nat
  BY Zenon, <1>4, <1>5, <1>8, FS_CardinalityType
<1>10. Cardinality(P \ got) <= Cardinality(Box)
  BY <1>5, <1>8, <1>9
<1> QED
  BY Zenon, <1>4, <1>8, <1>10 DEF L

---------------------------------------------------------------------------
(* The inductive invariant *)

TypeInv ==
  /\ entries \in [0 .. nBuckets - 1 -> Seq(Other)]
  /\ \A b \in 0 .. nBuckets - 1 : entries[b] \in Seq(bucketOf(b)) /\ Len(entries[b]) <= bucketSize
  /\ seq \in Nat /\ handling \in BOOLEAN /\ todo \in Seq(0 .. hashBits)
  /\ found \in Seq(ID) /\ Len(found) <= findnodeResultLimit
  /\ seqFound \in Nat /\ answers \in Seq(Seq(ID)) /\ requests \in Nat
  /\ pc \in {"idle", "waiting", "lookup", "returned"}
  /\ op \in {"none", "lookupWorker", "Resolve"} /\ target \in ID
  /\ asked \in Nat /\ given \in Nat /\ published \in Nat
  /\ received \in Nat /\ total \in Int

(* p is a packet of the answer list.                                       *)
isPacket(p, list) ==
  /\ p.no \in 1 .. packets(Len(list)) /\ p.total = packets(Len(list))
  /\ p.nodes = items(list, p.no)

NetInv ==
  /\ \A p \in net : /\ p.answer \in 0 .. Len(answers) - 1
                    /\ isPacket(p, answers[p.answer + 1])
                    /\ p.seq \in Nat
  /\ \A p, q \in net : p.answer = q.answer /\ p.no = q.no => p = q

(* One request gets one answer, unless it is doubled.                      *)
ControlInv ==
  /\ pc = "idle" <=> op = "none"
  /\ pc = "idle" => /\ requests = 0 /\ ~handling /\ answers = <<>>
                    /\ received = 0 /\ total = -1 /\ nodes = {}
  /\ pc = "lookup" => op = "Resolve"
  /\ ~doubled => requests + (IF handling THEN 1 ELSE 0) + Len(answers) <= 1

(* R are the packets of the one answer that have been received: no other   *)
(* copy of them is on its way, and what they hold is among the nodes.      *)
gathered(R) ==
  /\ Cardinality(R) = received
  /\ \A p \in net : p.no \notin R
  /\ \A i \in R : \A n \in Range(items(answers[1], i)) : verifyResponseNode(n) => n \in nodes

GatherInv ==
  pc = "waiting" /\ ~doubled =>
    /\ \/ received = 0 /\ total = -1
       \/ answers # <<>> /\ total = Min({packets(Len(answers[1])), totalNodesResponseLimit})
    /\ answers # <<>> => \E R \in SUBSET (1 .. packets(Len(answers[1]))) : gathered(R)

(* What has been received was sent, and enough of it.                      *)
WholeInv ==
  /\ \A n \in nodes : \E i \in 1 .. Len(answers) : n \in acceptable(answers[i])
  /\ pc \in {"returned", "lookup"} /\ err = "none" /\ ~doubled =>
       /\ answers # <<>> /\ IsFiniteSet(acceptable(answers[1]) \ nodes)
       /\ Cardinality(acceptable(answers[1]) \ nodes)
            <= excess(answers[1]) * nodesResponseItemLimit

(* The nodes that CloserNodesArrive is about.                              *)
closer ==
  {n \in stayed \ {Self} : /\ LogDist(target, n) < LogDist(target, Dest)
                           /\ CheckRelayIP(Self, n) /\ CheckRelayIP(Dest, n)}

(* They are in Dest's table, and once the first distance is done, among    *)
(* the nodes found.                                                        *)
CloserInv ==
  /\ \A n \in stayed : n \in Other /\ n \in Range(entries[bucketIndex(LogDist(Dest, n))])
  /\ op = "lookupWorker" =>
       /\ handling => (todo = valid(distances) /\ found = <<>>) \/ closer \subseteq Range(found)
       /\ \A i \in 1 .. Len(answers) : closer \subseteq Range(answers[i])
       /\ pc = "returned" /\ err = "none" => result = nodes \ {Self}

(* The answer to Resolve is at most Dest itself, in one packet.            *)
onlyDest(list) == Len(list) <= 1 /\ Range(list) \subseteq {Dest}

ResolveInv ==
  op = "Resolve" =>
    /\ given <= asked /\ asked <= published /\ published <= seq
    /\ handling => /\ onlyDest(found)
                   /\ todo = <<>> \/ (todo = <<0>> /\ found = <<>>)
                   /\ found # <<>> => seqFound >= published
    /\ \A i \in 1 .. Len(answers) : onlyDest(answers[i])
    /\ \A p \in net : p.nodes # <<>> => p.seq >= published
    /\ pc = "waiting" => received = 0 /\ total = -1 /\ nodes = {}
    /\ pc = "lookup" /\ err = "none" => nodes = {}
    /\ ResolvedIsNewest

Inv == TypeInv /\ NetInv /\ ControlInv /\ GatherInv /\ WholeInv /\ CloserInv /\ ResolveInv

---------------------------------------------------------------------------
(* Dest's table and what it collects *)

(* Every distance has a bucket.                                            *)
LEMMA BucketIndices ==
  ASSUME NEW d \in 0 .. hashBits
  PROVE  bucketIndex(d) \in 0 .. nBuckets - 1
BY FindnodeAssumption DEF bucketIndex, bucketMinDistance

(* A request is for distances, a lookup's for the target's first.          *)
LEMMA Distances ==
  ASSUME TypeInv
  PROVE  /\ distances \in Seq(Nat)
         /\ op = "Resolve" => distances = <<0>>
         /\ op = "lookupWorker" => distances # <<>> /\ distances[1] = LogDist(target, Dest)
<1>1. target \in ID
  BY Zenon DEF TypeInv
<1>2. CASE op = "Resolve"
  <2>1. <<0>> \in Seq(Nat)
    OBVIOUS
  <2> QED
    BY Zenon, <1>2, <2>1, "Resolve" # "lookupWorker" DEF distances
<1>3. CASE op # "Resolve"
  BY Zenon, <1>1, <1>3, FirstDistance DEF distances
<1> QED
  BY Zenon, <1>2, <1>3

(* The bucket that collectTableNodes reads, or Dest's own record.          *)
bn == IF Head(todo) = 0 THEN <<Dest>> ELSE bucketAtDistance(Head(todo))

(* One turn of collectTableNodes keeps what was found before, and adds the *)
(* nodes of one distance that may be relayed, up to the limit.             *)
LEMMA OneDistance ==
  ASSUME TypeInv, collectTableNodes
  PROVE  /\ bn \in Seq(ID) /\ todo' \in Seq(0 .. hashBits)
         /\ todo' = <<>> \/ todo' = Tail(todo)
         /\ found' \in Seq(ID) /\ Len(found') <= findnodeResultLimit
         /\ Range(found) \subseteq Range(found')
         /\ found = <<>> /\ Len(bn) <= findnodeResultLimit => found' = relayable(bn)
<1> DEFINE all == found \o relayable(bn)
           limit == findnodeResultLimit
           full == Len(all) >= limit
<1>1. Head(todo) \in 0 .. hashBits /\ Tail(todo) \in Seq(0 .. hashBits)
  <2>1. todo \in Seq(0 .. hashBits) /\ todo # <<>>
    BY Zenon DEF TypeInv, collectTableNodes
  <2> QED
    BY Zenon, <2>1, HeadAndTail
<1>2. bn \in Seq(ID)
  <2>1. CASE Head(todo) = 0
    <3>1. <<Dest>> \in Seq(ID)
      BY FindnodeAssumption
    <3> QED
      BY Zenon, <2>1, <3>1 DEF bn
  <2>2. CASE Head(todo) # 0
    <3>1. bucketIndex(Head(todo)) \in 0 .. nBuckets - 1
      BY Zenon, <1>1, BucketIndices
    <3>2. entries[bucketIndex(Head(todo))] \in Seq(Other)
      BY Zenon, <3>1 DEF TypeInv
    <3>3. Other \subseteq ID
      BY Zenon, FindnodeAssumption
    <3>4. entries[bucketIndex(Head(todo))] \in Seq(ID)
      BY <3>2, <3>3
    <3> QED
      BY Zenon, <2>2, <3>4 DEF bn, bucketAtDistance
  <2> QED
    BY Zenon, <2>1, <2>2
<1>3. found \in Seq(ID) /\ Len(found) <= limit /\ limit \in Nat \ {0}
  BY Zenon, FindnodeAssumption DEF TypeInv
<1>4. relayable(bn) \in Seq(ID) /\ Len(relayable(bn)) <= Len(bn)
  BY Zenon, <1>2, RelayableNodes
<1>5. /\ all \in Seq(ID) /\ Len(all) = Len(found) + Len(relayable(bn))
      /\ \A i \in 1 .. Len(found) : all[i] = found[i]
      /\ found = <<>> => all = relayable(bn)
  <2> DEFINE r == relayable(bn)
  <2>1. r \in Seq(ID)
    BY Zenon, <1>4
  <2> HIDE DEF r
  <2>2. found \o r \in Seq(ID) /\ Len(found \o r) = Len(found) + Len(r)
    BY Zenon, <1>3, <2>1, Joined
  <2>3. \A i \in 1 .. Len(found) : (found \o r)[i] = found[i]
    BY <1>3, <2>1
  <2>4. found = <<>> => found \o r = r
    BY Zenon, <1>3, <2>1, Joined
  <2> QED
    BY Zenon, <2>2, <2>3, <2>4 DEF r
<1>6. /\ found' = IF full THEN SubSeq(all, 1, limit) ELSE all
      /\ todo' = IF full THEN <<>> ELSE Tail(todo)
  BY Zenon DEF collectTableNodes, bn
<1>7. Len(bn) \in Nat /\ Len(found) \in Nat /\ Len(all) \in Nat /\ Len(relayable(bn)) \in Nat
  BY <1>2, <1>3, <1>4, <1>5
<1> HIDE DEF all, limit
<1>8. todo' \in Seq(0 .. hashBits) /\ (todo' = <<>> \/ todo' = Tail(todo))
  <2>1. <<>> \in Seq(0 .. hashBits)
    OBVIOUS
  <2> QED
    BY Zenon, <1>1, <1>6, <2>1
<1>9. /\ found' \in Seq(ID) /\ Len(found') <= limit /\ Len(found) <= Len(found')
      /\ \A i \in 1 .. Len(found) : found'[i] = found[i]
  <2>1. CASE full
    <3>1. 1 \in Nat \ {0} /\ limit \in 0 .. Len(all) /\ 1 <= limit /\ limit - 1 + 1 = limit
      BY <1>3, <1>7, <2>1
    <3>2. /\ SubSeq(all, 1, limit) \in Seq(ID) /\ Len(SubSeq(all, 1, limit)) = limit
          /\ \A i \in 1 .. limit : SubSeq(all, 1, limit)[i] = all[i]
      BY <1>5, <3>1
    <3>3. \A i \in 1 .. Len(found) : i \in 1 .. limit
      BY <1>3, <1>7
    <3>4. limit <= limit
      BY <1>3
    <3> QED
      BY ZenonT(30), <1>3, <1>5, <1>6, <2>1, <3>2, <3>3, <3>4
  <2>2. CASE ~full
    <3>1. Len(all) <= limit /\ Len(found) <= Len(all)
      BY <1>3, <1>5, <1>7, <2>2
    <3> QED
      BY Zenon, <1>5, <1>6, <2>2, <3>1
  <2> QED
    BY Zenon, <2>1, <2>2
<1>10. Range(found) \subseteq Range(found')
  <2>1. DOMAIN found = 1 .. Len(found) /\ \A i \in 1 .. Len(found) : i \in DOMAIN found'
    BY <1>3, <1>9
  <2> QED
    BY Zenon, <1>9, <2>1 DEF Range
<1>11. ASSUME found = <<>>, Len(bn) <= limit PROVE found' = relayable(bn)
  <2>1. all = relayable(bn)
    BY Zenon, <1>5, <1>11
  <2>2. CASE full
    <3>1. Len(all) = limit
      BY <1>3, <1>4, <1>7, <1>11, <2>1, <2>2
    <3>2. SubSeq(all, 1, Len(all)) = all
      BY <1>5
    <3> QED
      BY Zenon, <1>6, <2>1, <2>2, <3>1, <3>2
  <2>3. CASE ~full
    BY Zenon, <1>6, <2>1, <2>3
  <2> QED
    BY Zenon, <2>2, <2>3
<1> QED
  BY Zenon, <1>2, <1>8, <1>9, <1>10, <1>11 DEF limit

---------------------------------------------------------------------------
(* The invariant is inductive *)

LEMMA InvInit == Init => Inv
<1> SUFFICES ASSUME Init PROVE Inv
  BY Zenon
<1>1. TypeInv
  <2>1. entries \in [0 .. nBuckets - 1 -> Seq(Other)]
    <3>1. DOMAIN entries = 0 .. nBuckets - 1 /\ entries = [b \in DOMAIN entries |-> entries[b]]
      BY Zenon DEF Init
    <3>2. ASSUME NEW b \in DOMAIN entries PROVE entries[b] \in Seq(Other)
      <4>1. entries[b] \in Seq(bucketOf(b))
        BY Zenon DEF Init
      <4>2. bucketOf(b) \subseteq Other
        BY Zenon DEF bucketOf
      <4> QED
        BY <4>1, <4>2
    <3> QED
      BY Zenon, <3>1, <3>2
  <2>2. ASSUME NEW b \in 0 .. nBuckets - 1
        PROVE  entries[b] \in Seq(bucketOf(b)) /\ Len(entries[b]) <= bucketSize
    BY Zenon, <2>1 DEF Init
  <2>3. <<>> \in Seq(0 .. hashBits) /\ <<>> \in Seq(ID) /\ <<>> \in Seq(Seq(ID))
    OBVIOUS
  <2>4. 0 \in Nat /\ 2 \in Nat /\ -1 \in Int /\ Len(<<>>) <= findnodeResultLimit
    BY FindnodeAssumption
  <2>5. Dest \in ID
    BY Zenon, FindnodeAssumption
  <2> QED
    BY Zenon, <2>1, <2>2, <2>3, <2>4, <2>5 DEF Init, TypeInv
<1>2. requests + (IF handling THEN 1 ELSE 0) + Len(answers) <= 1
  <2>1. requests = 0 /\ ~handling /\ answers = <<>>
    BY Zenon DEF Init
  <2> QED
    BY <2>1
<1>3. NetInv /\ ControlInv
  BY Zenon, <1>2, "idle" # "lookup" DEF Init, NetInv, ControlInv
<1>4. GatherInv /\ WholeInv /\ CloserInv /\ ResolveInv
  BY Zenon DEF Init, GatherInv, WholeInv, CloserInv, ResolveInv
<1> QED
  BY Zenon, <1>1, <1>3, <1>4 DEF Inv

(* The table holds nodes in the buckets they belong to.                    *)
LEMMA TableStep ==
  ASSUME TypeInv, Next
  PROVE  /\ entries' \in [0 .. nBuckets - 1 -> Seq(Other)]
         /\ \A b \in 0 .. nBuckets - 1 : entries'[b] \in Seq(bucketOf(b)) /\ Len(entries'[b]) <= bucketSize
<1> DEFINE B == 0 .. nBuckets - 1
           fits(b, s) == s \in Seq(bucketOf(b)) /\ Len(s) <= bucketSize
<1>0. bucketSize \in Nat
  BY FindnodeAssumption
<1>1. entries \in [B -> Seq(Other)] /\ \A b \in B : fits(b, entries[b])
  BY Zenon DEF TypeInv
<1>2. \A b : \A s : fits(b, s) => s \in Seq(Other)
  <2>1. \A b : bucketOf(b) \subseteq Other
    BY Zenon DEF bucketOf
  <2> QED
    BY <2>1
<1> HIDE DEF fits, B
<1>3. ASSUME NEW b \in B, NEW s, fits(b, s), entries' = [entries EXCEPT ![b] = s]
      PROVE  entries' \in [B -> Seq(Other)] /\ \A c \in B : fits(c, entries'[c])
  <2>1. s \in Seq(Other)
    BY Zenon, <1>2, <1>3
  <2> QED
    BY Zenon, <1>1, <1>3, <2>1
<1>4. CASE \E n \in Other : tableAdds(n)
  <2>1. PICK n \in Other : tableAdds(n)
    BY Zenon, <1>4
  <2> DEFINE b == bucketIndex(LogDist(Dest, n))
             s == Append(entries[b], n)
  <2>2. Len(entries[b]) < bucketSize /\ entries' = [entries EXCEPT ![b] = s]
    BY Zenon, <2>1 DEF tableAdds
  <2>3. b \in B /\ n \in bucketOf(b)
    <3>1. Dest \in ID /\ n \in ID
      BY Zenon, FindnodeAssumption
    <3>2. LogDist(Dest, n) \in 0 .. hashBits
      BY Zenon, <3>1, LogDistance
    <3> QED
      BY Zenon, <3>2, BucketIndices DEF B, bucketOf
  <2> HIDE DEF b
  <2>4. fits(b, s)
    <3>1. entries[b] \in Seq(bucketOf(b)) /\ bucketSize \in Nat
      BY Zenon, <1>0, <1>1, <2>3 DEF fits
    <3> QED
      BY <2>2, <2>3, <3>1 DEF fits
  <2> QED
    BY Zenon, <1>3, <2>2, <2>3, <2>4 DEF fits, B
<1>5. CASE \E n \in Other : tableDrops(n)
  <2>a. PICK b \in DOMAIN entries : \E i \in DOMAIN entries[b] :
          entries' = [entries EXCEPT ![b] = deleteNode(entries[b], i)]
    BY Zenon, <1>5 DEF tableDrops
  <2>1. PICK i \in DOMAIN entries[b] :
          entries' = [entries EXCEPT ![b] = deleteNode(entries[b], i)]
    BY Zenon, <2>a
  <2>2. b \in B
    BY Zenon, <1>1, <2>1
  <2>3. fits(b, deleteNode(entries[b], i))
    <3>1. entries[b] \in Seq(bucketOf(b)) /\ Len(entries[b]) <= bucketSize /\ bucketSize \in Nat
      BY Zenon, <1>0, <1>1, <2>2 DEF fits
    <3>2. i \in 1 .. Len(entries[b])
      BY <3>1
    <3>3. /\ deleteNode(entries[b], i) \in Seq(bucketOf(b))
          /\ Len(deleteNode(entries[b], i)) = Len(entries[b]) - 1
      BY Zenon, <3>1, <3>2, RemovedOne
    <3> QED
      BY <3>1, <3>3 DEF fits
  <2> QED
    BY Zenon, <1>3, <2>1, <2>2, <2>3 DEF fits, B
<1>6. CASE entries' = entries
  BY Zenon, <1>1, <1>6 DEF fits, B
<1>7. \/ entries' = entries
      \/ \E n \in Other : tableAdds(n)
      \/ \E n \in Other : tableDrops(n)
  BY Zenon DEF Next, AskStep, AnswerStep, WaitStep, ChangeStep, FaultStep, lookupWorker, Resolve,
               handleFindnode, collectTableNodes, sendNodes, receiveNodes, callFails,
               resolveLookup, newRecord, loseRequest, doubleRequest, loseNodes, tableVars
<1> QED
  BY Zenon, <1>4, <1>5, <1>6, <1>7

LEMMA TypeStep ==
  ASSUME TypeInv, NetInv, Next
  PROVE  TypeInv'
<1> USE DEF tableVars, destVars, answerVars, netVars, askVars, waitVars
<1>1. /\ entries' \in [0 .. nBuckets - 1 -> Seq(Other)]
      /\ \A b \in 0 .. nBuckets - 1 : entries'[b] \in Seq(bucketOf(b)) /\ Len(entries'[b]) <= bucketSize
  BY Zenon, TableStep
<1>2. ASSUME NEW t \in Target, lookupWorker(t) PROVE TypeInv'
  <2>1. t \in ID /\ 1 \in Nat
    BY Zenon, FindnodeAssumption
  <2> QED
    BY Zenon, <1>1, <1>2, <2>1 DEF TypeInv, lookupWorker
<1>3. ASSUME NEW s \in 1 .. seq, NEW intable \in 0 .. seq, Resolve(s, intable) PROVE TypeInv'
  <2>1. s \in Nat /\ latest(s, intable) \in Nat /\ 1 \in Nat
    BY DEF TypeInv, latest
  <2> QED
    BY Zenon, <1>1, <1>3, <2>1 DEF TypeInv, Resolve
<1>4. CASE handleFindnode
  <2>1. valid(distances) \in Seq(0 .. hashBits)
    BY Zenon, Distances, ValidDistances
  <2>2. requests - 1 \in Nat
    BY <1>4 DEF TypeInv, handleFindnode
  <2>3. <<>> \in Seq(ID) /\ Len(<<>>) <= findnodeResultLimit
    BY FindnodeAssumption
  <2> QED
    BY Zenon, <1>1, <1>4, <2>1, <2>2, <2>3 DEF TypeInv, handleFindnode
<1>5. CASE collectTableNodes
  <2>1. todo' \in Seq(0 .. hashBits) /\ found' \in Seq(ID) /\ Len(found') <= findnodeResultLimit
    BY Zenon, <1>5, OneDistance
  <2>2. seqFound' \in Nat
    BY Zenon, <1>5 DEF TypeInv, collectTableNodes
  <2> QED
    BY Zenon, <1>1, <1>5, <2>1, <2>2 DEF TypeInv, collectTableNodes
<1>6. CASE sendNodes
  <2>1. answers \in Seq(Seq(ID)) /\ found \in Seq(ID)
    BY Zenon DEF TypeInv
  <2>2. Append(answers, found) \in Seq(Seq(ID))
    BY <2>1
  <2> QED
    BY Zenon, <1>1, <1>6, <2>2 DEF TypeInv, sendNodes
<1>7. ASSUME NEW ns, NEW s, NEW e, returns(ns, s, e) PROVE pc' \in {"returned", "lookup"}
  BY Zenon, <1>7 DEF returns
<1>8. ASSUME NEW p \in net, NEW again, receiveNodes(p, again) PROVE TypeInv'
  <2>1. pc' \in {"idle", "waiting", "lookup", "returned"}
    BY Zenon, <1>7, <1>8 DEF receiveNodes, TypeInv
  <2>2. received' \in Nat
    BY <1>8 DEF receiveNodes, TypeInv
  <2>3. total' \in Int
    <3>1. p.total \in Int
      <4>1. p.answer \in 0 .. Len(answers) - 1 /\ p.total = packets(Len(answers[p.answer + 1]))
        BY Zenon, <1>8 DEF NetInv, isPacket
      <4>2. answers[p.answer + 1] \in Seq(ID)
        BY <4>1 DEF TypeInv
      <4>3. p.total \in Nat \ {0}
        BY Zenon, <4>1, <4>2, PacketsHoldAll
      <4> QED
        BY <4>3
    <3>2. totalNodesResponseLimit \in Int
      BY FindnodeAssumption
    <3>3. Min({p.total, totalNodesResponseLimit}) \in Int
      <4> DEFINE a == p.total
                 b == totalNodesResponseLimit
      <4> HIDE DEF a, b
      <4>1. a \in Int /\ b \in Int
        BY Zenon, <3>1, <3>2 DEF a, b
      <4> QED
        BY Zenon, <4>1, OfTwo DEF a, b
    <3> QED
      BY Zenon, <1>8, <3>3 DEF receiveNodes, TypeInv
  <2> QED
    BY Zenon, <1>1, <1>8, <2>1, <2>2, <2>3 DEF TypeInv, receiveNodes
<1>9. ASSUME NEW e, callFails(e) PROVE TypeInv'
  BY Zenon, <1>1, <1>7, <1>9 DEF TypeInv, callFails
<1>10. ASSUME NEW rn, resolveLookup(rn) PROVE TypeInv'
  BY Zenon, <1>1, <1>10 DEF TypeInv, resolveLookup
<1>11. CASE newRecord
  <2>1. seq' \in Nat
    BY <1>11 DEF TypeInv, newRecord
  <2> QED
    BY Zenon, <1>1, <1>11, <2>1 DEF TypeInv, newRecord
<1>12. ASSUME NEW n, tableAdds(n) \/ tableDrops(n) PROVE TypeInv'
  BY Zenon, <1>1, <1>12 DEF TypeInv, tableAdds, tableDrops
<1>13. CASE FaultStep
  <2>1. requests' \in Nat
    BY SMTT(30), <1>13 DEF TypeInv, FaultStep, loseRequest, doubleRequest, loseNodes
  <2> QED
    BY ZenonT(30), <1>1, <1>13, <2>1 DEF TypeInv, FaultStep, loseRequest, doubleRequest, loseNodes
<1> QED
  BY ZenonT(30), <1>2, <1>3, <1>4, <1>5, <1>6, <1>8, <1>9, <1>10, <1>11, <1>12, <1>13
     DEF Next, AskStep, AnswerStep, WaitStep, ChangeStep

(* The packets that sendNodes sends are those of the answer found.         *)
LEMMA Packed ==
  ASSUME TypeInv, NEW p \in packNodes(found)
  PROVE  /\ p.answer = Len(answers) /\ isPacket(p, found) /\ p.seq = seqFound
         /\ \A q \in packNodes(found) : p.no = q.no => p = q
<1> DEFINE k == packets(Len(found))
           packet(i) == [answer |-> Len(answers), no |-> i, total |-> k, seq |-> seqFound,
                         nodes |-> items(found, i)]
<1>1. packNodes(found) = {packet(i) : i \in 1 .. k}
  BY Zenon DEF packNodes, items
<1>2. \A i \in 1 .. k : /\ packet(i).answer = Len(answers) /\ packet(i).no = i
                        /\ packet(i).total = k /\ packet(i).seq = seqFound
                        /\ packet(i).nodes = items(found, i)
  BY Zenon
<1> HIDE DEF packet, k
<1>3. PICK i \in 1 .. k : p = packet(i)
  BY Zenon, <1>1
<1>4. ASSUME NEW q \in packNodes(found), p.no = q.no PROVE p = q
  <2>1. PICK j \in 1 .. k : q = packet(j)
    BY Zenon, <1>1
  <2> QED
    BY Zenon, <1>2, <1>3, <1>4, <2>1
<1>5. isPacket(p, found)
  BY Zenon, <1>2, <1>3 DEF isPacket, k
<1> QED
  BY Zenon, <1>2, <1>3, <1>4, <1>5

LEMMA NetStep ==
  ASSUME TypeInv, NetInv, Next
  PROVE  NetInv'
<1> USE DEF tableVars, destVars, answerVars, netVars, askVars, waitVars
<1>1. CASE net' \subseteq net /\ answers' = answers
  BY Zenon, <1>1 DEF NetInv
<1>2. CASE sendNodes
  <2>1. net' = net \cup packNodes(found) /\ answers' = Append(answers, found)
    BY Zenon, <1>2 DEF sendNodes
  <2>2. answers \in Seq(Seq(ID)) /\ found \in Seq(ID) /\ seqFound \in Nat
    BY Zenon DEF TypeInv
  <2>3. /\ Len(answers') = Len(answers) + 1 /\ Len(answers) \in Nat
        /\ answers'[Len(answers) + 1] = found
        /\ \A i \in 1 .. Len(answers) : answers'[i] = answers[i]
    BY <2>1, <2>2
  <2> DEFINE L == Len(answers)
             M == Len(answers')
  <2>4. L \in 0 .. M - 1 /\ \A a \in 0 .. L - 1 : a \in 0 .. M - 1 /\ a + 1 \in 1 .. L /\ a # L
    BY <2>3
  <2>5. ASSUME NEW p \in net'
        PROVE  p.answer \in 0 .. M - 1 /\ isPacket(p, answers'[p.answer + 1]) /\ p.seq \in Nat
    <3>1. CASE p \in net
      <4>1. p.answer \in 0 .. L - 1 /\ isPacket(p, answers[p.answer + 1]) /\ p.seq \in Nat
        BY Zenon, <3>1 DEF NetInv
      <4> QED
        BY Zenon, <2>3, <2>4, <4>1
    <3>2. CASE p \in packNodes(found)
      <4>1. p.answer = L /\ isPacket(p, found) /\ p.seq = seqFound
        BY Zenon, <3>2, Packed
      <4> QED
        BY Zenon, <2>2, <2>3, <2>4, <4>1
    <3> QED
      BY Zenon, <2>1, <3>1, <3>2
  <2>6. ASSUME NEW p \in net', NEW q \in net', p.answer = q.answer, p.no = q.no PROVE p = q
    <3>1. \A r \in net : r.answer # L
      BY Zenon, <2>4 DEF NetInv
    <3>2. \A r \in packNodes(found) : r.answer = L
      BY Zenon, Packed
    <3>3. CASE p \in net
      BY Zenon, <2>1, <2>6, <3>1, <3>2, <3>3 DEF NetInv
    <3>4. CASE p \in packNodes(found)
      <4>1. q \in packNodes(found)
        BY Zenon, <2>1, <2>6, <3>1, <3>2, <3>4
      <4> QED
        BY Zenon, <2>6, <3>4, <4>1, Packed
    <3> QED
      BY Zenon, <2>1, <3>3, <3>4
  <2> QED
    BY Zenon, <2>5, <2>6 DEF NetInv
<1>3. ASSUME NEW p, NEW again, receiveNodes(p, again) PROVE net' \subseteq net /\ answers' = answers
  BY Zenon, <1>3 DEF receiveNodes
<1>4. CASE AskStep \/ ChangeStep \/ FaultStep
  <2>1. net' \subseteq net /\ answers' = answers
    BY Zenon, <1>4 DEF AskStep, ChangeStep, FaultStep, lookupWorker, Resolve, newRecord, tableAdds,
       tableDrops, loseRequest, doubleRequest, loseNodes
  <2> QED
    BY Zenon, <1>1, <2>1
<1>5. CASE WaitStep
  <2>1. net' \subseteq net /\ answers' = answers
    BY Zenon, <1>3, <1>5 DEF WaitStep, callFails, resolveLookup
  <2> QED
    BY Zenon, <1>1, <2>1
<1>6. CASE handleFindnode \/ collectTableNodes
  <2>1. net' \subseteq net /\ answers' = answers
    BY Zenon, <1>6 DEF handleFindnode, collectTableNodes
  <2> QED
    BY Zenon, <1>1, <2>1
<1> QED
  BY Zenon, <1>2, <1>4, <1>5, <1>6 DEF Next, AnswerStep

LEMMA ControlStep ==
  ASSUME TypeInv, ControlInv, Next
  PROVE  ControlInv'
<1> USE DEF tableVars, destVars, answerVars, netVars, askVars, waitVars
<1> DEFINE one == requests + (IF handling THEN 1 ELSE 0) + Len(answers)
<1>1. /\ requests \in Nat /\ handling \in BOOLEAN /\ Len(answers) \in Nat
      /\ answers \in Seq(Seq(ID)) /\ found \in Seq(ID)
  BY DEF TypeInv
<1>2. CASE AskStep
  <2>1. /\ pc = "idle" /\ pc' = "waiting" /\ op' \in {"lookupWorker", "Resolve"}
        /\ requests' = 1 /\ UNCHANGED <<handling, answers, received, total, nodes>>
    BY Zenon, <1>2 DEF AskStep, lookupWorker, Resolve
  <2>2. ~handling /\ answers = <<>>
    BY Zenon, <2>1 DEF ControlInv
  <2>3. one' <= 1
    BY <1>1, <2>1, <2>2
  <2> QED
    BY Zenon, <2>1, <2>3, "waiting" # "idle", "waiting" # "lookup", "lookupWorker" # "none",
       "Resolve" # "none" DEF ControlInv
<1>3. CASE AnswerStep
  <2>1. UNCHANGED <<pc, op, received, total, nodes, doubled>> /\ pc # "idle"
    <3>1. requests > 0 \/ handling
      BY Zenon, <1>3 DEF AnswerStep, handleFindnode, collectTableNodes, sendNodes
    <3>2. ~(0 > 0)
      OBVIOUS
    <3> QED
      BY Zenon, <1>3, <3>1, <3>2
         DEF ControlInv, AnswerStep, handleFindnode, collectTableNodes, sendNodes
  <2>2. one' = one
    <3>1. CASE handleFindnode
      <4>1. requests' = requests - 1 /\ ~handling /\ handling' = TRUE /\ answers' = answers
        BY Zenon, <3>1 DEF handleFindnode
      <4> QED
        BY <1>1, <4>1
    <3>2. CASE collectTableNodes
      BY Zenon, <3>2 DEF collectTableNodes
    <3>3. CASE sendNodes
      <4>1. requests' = requests /\ handling /\ handling' = FALSE /\ answers' = Append(answers, found)
        BY Zenon, <3>3 DEF sendNodes
      <4>2. Len(answers') = Len(answers) + 1
        BY <1>1, <4>1
      <4> QED
        BY <1>1, <4>1, <4>2
    <3> QED
      BY Zenon, <1>3, <3>1, <3>2, <3>3 DEF AnswerStep
  <2> HIDE DEF one
  <2>3. ~doubled' => one' <= 1
    BY Zenon, <2>1, <2>2 DEF ControlInv, one
  <2> QED
    BY Zenon, <2>1, <2>3 DEF ControlInv, one
<1>4. CASE WaitStep
  <2>1. /\ pc \in {"waiting", "lookup"} /\ UNCHANGED <<op, requests, handling, answers>>
        /\ ~doubled' => ~doubled
    <3>1. ASSUME NEW p, NEW again, receiveNodes(p, again)
          PROVE  /\ pc = "waiting" /\ UNCHANGED <<op, requests, handling, answers>>
                 /\ ~doubled' => ~doubled
      <4>1. doubled' = (doubled \/ again)
        BY Zenon, <3>1 DEF receiveNodes
      <4>2. ~doubled' => ~doubled
        BY Zenon, <4>1
      <4> QED
        BY Zenon, <3>1, <4>2 DEF receiveNodes
    <3>2. ASSUME NEW e, callFails(e) \/ resolveLookup(e)
          PROVE  /\ pc \in {"waiting", "lookup"} /\ UNCHANGED <<op, requests, handling, answers>>
                 /\ ~doubled' => ~doubled
      <4>1. doubled' = doubled
        BY Zenon, <3>2 DEF callFails, resolveLookup
      <4>2. ~doubled' => ~doubled
        BY Zenon, <4>1
      <4> QED
        BY Zenon, <3>2, <4>2 DEF callFails, resolveLookup
    <3> QED
      BY Zenon, <1>4, <3>1, <3>2 DEF WaitStep
  <2>2. pc' # "idle" /\ (pc' = "lookup" => op # "lookupWorker")
    BY Zenon, <1>4, <2>1, "waiting" # "idle", "lookup" # "idle", "returned" # "idle",
       "returned" # "lookup", "waiting" # "lookup"
       DEF WaitStep, receiveNodes, callFails, resolveLookup, returns
  <2>3. op \in {"lookupWorker", "Resolve"}
    BY Zenon, <2>1, "waiting" # "idle", "lookup" # "idle" DEF ControlInv, TypeInv
  <2>4. one' = one
    BY Zenon, <2>1
  <2> QED
    BY Zenon, <2>1, <2>2, <2>3, <2>4, "lookupWorker" # "none", "Resolve" # "none" DEF ControlInv
<1>5. CASE ChangeStep
  <2>1. UNCHANGED <<pc, op, requests, handling, answers, received, total, nodes, doubled>>
    BY Zenon, <1>5 DEF ChangeStep, newRecord, tableAdds, tableDrops
  <2> QED
    BY Zenon, <2>1 DEF ControlInv
<1>6. CASE FaultStep
  <2>1. /\ pc = "waiting" /\ UNCHANGED <<pc, op, handling, answers>>
        /\ \/ doubled'
           \/ doubled' = doubled /\ requests' = requests
           \/ doubled' = doubled /\ requests' = requests - 1
    BY Zenon, <1>6 DEF FaultStep, fault, loseRequest, doubleRequest, loseNodes
  <2>2. ~doubled' => ~doubled /\ one' <= one
    BY <1>1, <2>1
  <2>3. one \in Nat /\ (~doubled' => one' \in Int)
    BY <1>1, <2>1
  <2> HIDE DEF one
  <2>4. ~doubled' => one' <= 1
    <3>1. ~doubled => one <= 1
      BY Zenon DEF ControlInv, one
    <3> QED
      BY <2>2, <2>3, <3>1
  <2> QED
    BY Zenon, <2>1, <2>4, "waiting" # "idle", "waiting" # "lookup" DEF ControlInv, one
<1> QED
  BY Zenon, <1>2, <1>3, <1>4, <1>5, <1>6 DEF Next

(* Unless something is doubled, there is at most one answer.               *)
LEMMA OneAnswer ==
  ASSUME TypeInv, ControlInv, ~doubled
  PROVE  /\ Len(answers) \in {0, 1} /\ (answers # <<>> <=> Len(answers) = 1)
         /\ handling => answers = <<>>
<1>1. requests \in Nat /\ handling \in BOOLEAN /\ answers \in Seq(Seq(ID))
  BY Zenon DEF TypeInv
<1>2. requests + (IF handling THEN 1 ELSE 0) + Len(answers) <= 1
  BY Zenon DEF ControlInv
<1>3. Len(answers) \in Nat /\ (answers = <<>> <=> Len(answers) = 0)
  BY <1>1
<1> DEFINE l == Len(answers)
<1> HIDE DEF l
<1>4. l \in Nat /\ requests + (IF handling THEN 1 ELSE 0) + l <= 1
  BY Zenon, <1>2, <1>3 DEF l
<1>5. l \in {0, 1} /\ (handling => l = 0) /\ (l # 0 <=> l = 1)
  BY <1>1, <1>4
<1> QED
  BY Zenon, <1>3, <1>5 DEF l

(* A packet that is received without a second copy of it to come is one    *)
(* more of the answer.                                                     *)
LEMMA OneMorePacket ==
  ASSUME TypeInv, NetInv, ControlInv, GatherInv, NEW p \in net, NEW again \in BOOLEAN,
         receiveNodes(p, again), ~doubled'
  PROVE  /\ answers # <<>>
         /\ total' = Min({packets(Len(answers[1])), totalNodesResponseLimit})
         /\ \E R \in SUBSET (1 .. packets(Len(answers[1]))) :
              /\ Cardinality(R) = received'
              /\ \A q \in net' : q.no \notin R
              /\ \A i \in R : \A n \in Range(items(answers[1], i)) : verifyResponseNode(n) => n \in nodes'
<1> DEFINE k == packets(Len(answers[1]))
           T == totalNodesResponseLimit
           V(n) == verifyResponseNode(n)
<1>1. ~again /\ ~doubled
  <2>1. doubled' = (doubled \/ again)
    BY Zenon DEF receiveNodes
  <2> QED
    BY Zenon, <2>1
<1>2. /\ pc = "waiting" /\ net' = net \ {p} /\ received' = received + 1
      /\ total' = IF total = -1 THEN Min({p.total, T}) ELSE total
      /\ nodes' = nodes \cup {n \in Range(p.nodes) : V(n)}
  BY Zenon, <1>1 DEF receiveNodes, returns
<1>3. /\ p.answer \in 0 .. Len(answers) - 1 /\ isPacket(p, answers[p.answer + 1])
      /\ \A q \in net : q.answer \in 0 .. Len(answers) - 1
      /\ \A q \in net : p.answer = q.answer /\ p.no = q.no => p = q
  BY Zenon DEF NetInv
<1>4. Len(answers) \in {0, 1} /\ (answers # <<>> <=> Len(answers) = 1)
  BY Zenon, <1>1, OneAnswer
<1>5. Len(answers) = 1 /\ \A x \in 0 .. Len(answers) - 1 : x = 0 /\ x + 1 = 1
  <2> DEFINE l == Len(answers)
  <2> HIDE DEF l
  <2>1. \A x : \A y \in {0, 1} : x \in 0 .. y - 1 => y = 1 /\ x = 0 /\ x + 1 = 1
    OBVIOUS
  <2>2. l \in {0, 1} /\ p.answer \in 0 .. l - 1
    BY Zenon, <1>3, <1>4 DEF l
  <2> QED
    BY Zenon, <2>1, <2>2 DEF l
<1>6. answers # <<>> /\ isPacket(p, answers[1]) /\ \A q \in net : q.no = p.no => q = p
  BY Zenon, <1>3, <1>4, <1>5
<1>7. p.no \in 1 .. k /\ p.total = k /\ p.nodes = items(answers[1], p.no)
  BY Zenon, <1>6 DEF isPacket
<1>8. PICK R \in SUBSET (1 .. k) : gathered(R)
  BY Zenon, <1>1, <1>2, <1>6 DEF GatherInv
<1> DEFINE Q == R \cup {p.no}
<1>9. p.no \notin R
  BY Zenon, <1>8 DEF gathered
<1>10. Cardinality(Q) = received'
  <2>1. answers[1] \in Seq(ID)
    BY <1>5 DEF TypeInv
  <2>2. k \in Nat \ {0}
    BY Zenon, <2>1, PacketsHoldAll
  <2>3. 1 \in Int /\ k \in Int
    BY <2>2
  <2> HIDE DEF k
  <2>4. IsFiniteSet(1 .. k)
    BY Zenon, <2>3, FS_Interval
  <2>5. IsFiniteSet(R)
    BY Zenon, <2>4, FS_Subset
  <2>6. Cardinality(Q) = IF p.no \in R THEN Cardinality(R) ELSE Cardinality(R) + 1
    BY Zenon, <2>5, FS_AddElement
  <2> QED
    BY Zenon, <1>2, <1>8, <1>9, <2>6 DEF gathered
<1>11. \A q \in net' : q.no \notin Q
  BY Zenon, <1>2, <1>6, <1>8 DEF gathered
<1>12. \A i \in Q : \A n \in Range(items(answers[1], i)) : V(n) => n \in nodes'
  BY Zenon, <1>2, <1>7, <1>8 DEF gathered
<1>13. Q \in SUBSET (1 .. k)
  BY Zenon, <1>7
<1>14. total' = Min({k, T})
  <2>1. total = -1 \/ total = Min({k, T})
    BY Zenon, <1>1, <1>2 DEF GatherInv
  <2> QED
    BY Zenon, <1>2, <1>7, <2>1
<1> QED
  BY Zenon, <1>6, <1>10, <1>11, <1>12, <1>13, <1>14

LEMMA GatherFrame ==
  ASSUME GatherInv, net' \subseteq net,
         UNCHANGED <<pc, doubled, received, total, answers, nodes, lowPort, op, target>>
  PROVE  GatherInv'
<1>1. ASSUME NEW n PROVE verifyResponseNode(n)' <=> verifyResponseNode(n)
  BY Zenon DEF verifyResponseNode, distances
<1>2. ASSUME NEW R, gathered(R) PROVE gathered(R)'
  BY Zenon, <1>1, <1>2 DEF gathered
<1> QED
  BY Zenon, <1>2 DEF GatherInv

LEMMA GatherStep ==
  ASSUME TypeInv, NetInv, ControlInv, GatherInv, Next
  PROVE  GatherInv'
<1> USE DEF tableVars, destVars, answerVars, netVars, askVars, waitVars
<1>1. CASE AskStep
  <2>1. pc = "idle" /\ UNCHANGED <<received, total, answers>>
    BY Zenon, <1>1 DEF AskStep, lookupWorker, Resolve
  <2> QED
    BY Zenon, <2>1 DEF GatherInv, ControlInv
<1>2. CASE handleFindnode \/ collectTableNodes
  <2>1. /\ net' \subseteq net
        /\ UNCHANGED <<pc, doubled, received, total, answers, nodes, lowPort, op, target>>
    BY Zenon, <1>2 DEF handleFindnode, collectTableNodes
  <2> QED
    BY Zenon, <2>1, GatherFrame
<1>3. CASE sendNodes
  <2>1. SUFFICES ASSUME pc' = "waiting", ~doubled'
        PROVE  /\ received' = 0 /\ total' = -1
               /\ \E R \in SUBSET (1 .. packets(Len(answers'[1]))) : gathered(R)'
    BY Zenon DEF GatherInv
  <2>2. pc = "waiting" /\ ~doubled /\ handling /\ UNCHANGED <<received, total>>
    BY Zenon, <1>3, <2>1 DEF sendNodes
  <2>3. answers = <<>>
    BY Zenon, <2>2, OneAnswer
  <2>4. received = 0 /\ total = -1
    BY Zenon, <2>2, <2>3 DEF GatherInv
  <2>5. gathered({})'
    BY Zenon, <2>2, <2>4, FS_EmptySet DEF gathered
  <2> QED
    BY Zenon, <2>2, <2>4, <2>5
<1>4. ASSUME NEW p \in net, NEW again \in BOOLEAN, receiveNodes(p, again) PROVE GatherInv'
  <2>1. SUFFICES ASSUME ~doubled'
        PROVE  /\ answers' # <<>>
               /\ total' = Min({packets(Len(answers'[1])), totalNodesResponseLimit})
               /\ \E R \in SUBSET (1 .. packets(Len(answers'[1]))) : gathered(R)'
    BY Zenon DEF GatherInv
  <2>2. UNCHANGED <<answers, lowPort, op, target>>
    BY Zenon, <1>4 DEF receiveNodes
  <2>3. ASSUME NEW n PROVE verifyResponseNode(n)' <=> verifyResponseNode(n)
    BY Zenon, <2>2 DEF verifyResponseNode, distances
  <2>4. PICK R \in SUBSET (1 .. packets(Len(answers[1]))) :
              /\ Cardinality(R) = received'
              /\ \A q \in net' : q.no \notin R
              /\ \A i \in R : \A n \in Range(items(answers[1], i)) : verifyResponseNode(n) => n \in nodes'
    BY Zenon, <1>4, <2>1, OneMorePacket
  <2>5. gathered(R)'
    BY Zenon, <2>2, <2>3, <2>4 DEF gathered
  <2>6. answers # <<>> /\ total' = Min({packets(Len(answers[1])), totalNodesResponseLimit})
    BY Zenon, <1>4, <2>1, OneMorePacket
  <2> QED
    BY Zenon, <2>2, <2>4, <2>5, <2>6
<1>5. ASSUME NEW e, callFails(e) \/ resolveLookup(e) PROVE GatherInv'
  <2>1. pc' # "waiting"
    BY Zenon, <1>5, "returned" # "waiting", "lookup" # "waiting"
       DEF callFails, resolveLookup, returns
  <2> QED
    BY Zenon, <2>1 DEF GatherInv
<1>6. CASE ChangeStep \/ loseRequest \/ \E p \in net : loseNodes(p)
  <2>1. /\ net' \subseteq net
        /\ UNCHANGED <<pc, doubled, received, total, answers, nodes, lowPort, op, target>>
    BY Zenon, <1>6 DEF ChangeStep, newRecord, tableAdds, tableDrops, loseRequest, loseNodes
  <2> QED
    BY Zenon, <2>1, GatherFrame
<1>7. CASE doubleRequest
  BY Zenon, <1>7 DEF doubleRequest, GatherInv
<1> QED
  BY ZenonT(30), <1>1, <1>2, <1>3, <1>4, <1>5, <1>6, <1>7, TRUE \in BOOLEAN, FALSE \in BOOLEAN
     DEF Next, AnswerStep, WaitStep, FaultStep

(* Every node that has been received was in an answer.                     *)
LEMMA SentStep ==
  ASSUME TypeInv, NetInv, ControlInv, WholeInv, Next
  PROVE  \A n \in nodes' : \E i \in 1 .. Len(answers') : n \in acceptable(answers[i])'
<1> USE DEF tableVars, destVars, answerVars, netVars, askVars, waitVars
<1>1. \A n \in nodes : \E i \in 1 .. Len(answers) : n \in acceptable(answers[i])
  BY Zenon DEF WholeInv
<1>2. CASE AskStep
  <2>1. pc = "idle" /\ nodes' = nodes
    BY Zenon, <1>2 DEF AskStep, lookupWorker, Resolve
  <2> QED
    BY Zenon, <2>1 DEF ControlInv
<1>3. CASE UNCHANGED <<lowPort, op, target, answers, nodes>>
  BY Zenon, <1>1, <1>3 DEF acceptable, verifyResponseNode, distances
<1>4. CASE sendNodes
  <2>1. UNCHANGED <<lowPort, op, target, nodes>> /\ answers' = Append(answers, found)
    BY Zenon, <1>4 DEF sendNodes
  <2>2. answers \in Seq(Seq(ID)) /\ found \in Seq(ID)
    BY Zenon DEF TypeInv
  <2>3. \A i \in 1 .. Len(answers) : i \in 1 .. Len(answers') /\ answers'[i] = answers[i]
    BY <2>1, <2>2
  <2> QED
    BY Zenon, <1>1, <2>1, <2>3 DEF acceptable, verifyResponseNode, distances
<1>5. ASSUME NEW p \in net, NEW again, receiveNodes(p, again)
      PROVE  \A n \in nodes' : \E i \in 1 .. Len(answers') : n \in acceptable(answers[i])'
  <2>1. /\ UNCHANGED <<lowPort, op, target, answers>>
        /\ nodes' = nodes \cup {n \in Range(p.nodes) : verifyResponseNode(n)}
    BY Zenon, <1>5 DEF receiveNodes, returns
  <2> DEFINE a == p.answer + 1
  <2>2. p.answer \in 0 .. Len(answers) - 1 /\ isPacket(p, answers[a])
    BY Zenon DEF NetInv
  <2>3. a \in 1 .. Len(answers) /\ answers[a] \in Seq(ID)
    BY SMTT(30), <2>2 DEF TypeInv
  <2> HIDE DEF a
  <2>4. Range(p.nodes) \subseteq Range(answers[a])
    BY Zenon, <2>2, <2>3, PacketsHoldAll DEF isPacket
  <2>5. \A n \in nodes' : \E i \in 1 .. Len(answers) : n \in acceptable(answers[i])
    BY Zenon, <1>1, <2>1, <2>3, <2>4 DEF acceptable
  <2> QED
    BY Zenon, <2>1, <2>5 DEF acceptable, verifyResponseNode, distances
<1>6. CASE handleFindnode \/ collectTableNodes \/ ChangeStep \/ FaultStep
  <2>1. UNCHANGED <<lowPort, op, target, answers, nodes>>
    BY Zenon, <1>6 DEF handleFindnode, collectTableNodes, ChangeStep, newRecord, tableAdds,
       tableDrops, FaultStep, loseRequest, doubleRequest, loseNodes
  <2> QED
    BY Zenon, <1>3, <2>1
<1>7. ASSUME NEW e, callFails(e) \/ resolveLookup(e)
      PROVE  \A n \in nodes' : \E i \in 1 .. Len(answers') : n \in acceptable(answers[i])'
  <2>1. UNCHANGED <<lowPort, op, target, answers, nodes>>
    BY Zenon, <1>7 DEF callFails, resolveLookup, returns
  <2> QED
    BY Zenon, <1>3, <2>1
<1> QED
  BY Zenon, <1>2, <1>4, <1>5, <1>6, <1>7 DEF Next, AnswerStep, WaitStep

LEMMA WholeStep ==
  ASSUME TypeInv, NetInv, ControlInv, GatherInv, WholeInv, Next
  PROVE  WholeInv'
<1> USE DEF tableVars, destVars, answerVars, netVars, askVars, waitVars
<1> DEFINE enough == /\ answers # <<>> /\ IsFiniteSet(acceptable(answers[1]) \ nodes)
                     /\ Cardinality(acceptable(answers[1]) \ nodes)
                          <= excess(answers[1]) * nodesResponseItemLimit
           done == pc \in {"returned", "lookup"} /\ err = "none" /\ ~doubled
<1>1. done => enough
  BY Zenon DEF WholeInv
<1>2. SUFFICES ASSUME done' PROVE enough'
  BY Zenon, SentStep DEF WholeInv
<1>3. CASE done /\ UNCHANGED <<lowPort, op, target, answers, nodes>>
  BY Zenon, <1>1, <1>3 DEF acceptable, verifyResponseNode, distances, excess
<1>4. pc' # "waiting"
  BY Zenon, <1>2, "returned" # "waiting", "lookup" # "waiting"
<1>5. CASE AskStep
  BY Zenon, <1>4, <1>5 DEF AskStep, lookupWorker, Resolve
<1>6. CASE handleFindnode \/ collectTableNodes \/ ChangeStep
  <2>1. UNCHANGED <<lowPort, op, target, answers, nodes, pc, err, doubled>>
    BY Zenon, <1>6 DEF handleFindnode, collectTableNodes, ChangeStep, newRecord, tableAdds, tableDrops
  <2> QED
    BY Zenon, <1>2, <1>3, <2>1
<1>7. CASE sendNodes
  <2>1. UNCHANGED <<pc, err, doubled>> /\ handling
    BY Zenon, <1>7 DEF sendNodes
  <2>2. done
    BY Zenon, <1>2, <2>1
  <2>3. answers = <<>>
    BY Zenon, <2>1, <2>2, OneAnswer
  <2> QED
    BY Zenon, <1>1, <2>2, <2>3
<1>8. ASSUME NEW p \in net, NEW again \in BOOLEAN, receiveNodes(p, again) PROVE enough'
  <2>1. UNCHANGED <<lowPort, op, target, answers>> /\ received' = total'
    BY Zenon, <1>4, <1>8 DEF receiveNodes
  <2>2. /\ answers # <<>>
        /\ total' = Min({packets(Len(answers[1])), totalNodesResponseLimit})
    BY Zenon, <1>2, <1>8, OneMorePacket
  <2>3. PICK R \in SUBSET (1 .. packets(Len(answers[1]))) :
              /\ Cardinality(R) = received'
              /\ \A i \in R : \A n \in Range(items(answers[1], i)) : verifyResponseNode(n) => n \in nodes'
    BY Zenon, <1>2, <1>8, OneMorePacket
  <2> DEFINE list == answers[1]
             P == acceptable(list)
  <2>4. list \in Seq(ID)
    BY <2>2 DEF TypeInv
  <2>5. P \subseteq Range(list) /\ \A n \in P : verifyResponseNode(n)
    BY Zenon DEF acceptable
  <2>6. \A i \in R : \A n \in Range(items(list, i)) : n \in P => n \in nodes'
    BY Zenon, <2>3, <2>5
  <2>7. Cardinality(R) = Min({packets(Len(list)), totalNodesResponseLimit})
    BY Zenon, <2>1, <2>2, <2>3
  <2> HIDE DEF list, P
  <2>8. /\ IsFiniteSet(P \ nodes')
        /\ Cardinality(P \ nodes') <= excess(list) * nodesResponseItemLimit
    BY Zenon, <2>3, <2>4, <2>5, <2>6, <2>7, FewAreMissing DEF list
  <2> QED
    BY Zenon, <2>1, <2>2, <2>8
       DEF acceptable, verifyResponseNode, distances, excess, list, P
<1>9. ASSUME NEW e \in {"timeout", "closed"}, callFails(e) PROVE FALSE
  BY Zenon, <1>2, <1>9, "timeout" # "none", "closed" # "none" DEF callFails, returns
<1>10. ASSUME NEW rn, resolveLookup(rn) PROVE enough'
  <2>1. UNCHANGED <<lowPort, op, target, answers, nodes, err, doubled>> /\ pc = "lookup"
    BY Zenon, <1>10 DEF resolveLookup
  <2> QED
    BY Zenon, <1>2, <1>3, <2>1
<1>11. CASE FaultStep
  <2>1. pc = "waiting" /\ pc' = pc
    BY Zenon, <1>11 DEF FaultStep, fault, loseRequest, doubleRequest, loseNodes
  <2> QED
    BY Zenon, <1>4, <2>1
<1> QED
  BY ZenonT(30), <1>5, <1>6, <1>7, <1>8, <1>9, <1>10, <1>11, TRUE \in BOOLEAN, FALSE \in BOOLEAN
     DEF Next, AnswerStep, WaitStep

(* A node stays in the bucket it belongs to until it is dropped.           *)
LEMMA StayedStep ==
  ASSUME TypeInv, CloserInv, Next
  PROVE  \A n \in stayed' : n \in Other /\ n \in Range(entries'[bucketIndex(LogDist(Dest, n))])
<1> USE DEF tableVars, destVars, answerVars, netVars, askVars, waitVars
<1> DEFINE home(n) == bucketIndex(LogDist(Dest, n))
<1>1. \A n \in stayed : n \in Other /\ n \in Range(entries[home(n)])
  BY Zenon DEF CloserInv
<1>2. /\ entries \in [0 .. nBuckets - 1 -> Seq(Other)] /\ DOMAIN entries = 0 .. nBuckets - 1
      /\ \A b \in 0 .. nBuckets - 1 : entries[b] \in Seq(bucketOf(b))
  BY Zenon DEF TypeInv
<1>3. \A n \in Other : home(n) \in DOMAIN entries
  <2>1. Dest \in ID /\ Other \subseteq ID
    BY Zenon, FindnodeAssumption
  <2> QED
    BY Zenon, <1>2, <2>1, LogDistance, BucketIndices
<1>4. CASE UNCHANGED <<entries, stayed>>
  BY Zenon, <1>1, <1>4
<1>5. CASE AskStep
  <2>1. stayed' = inTable /\ entries' = entries
    BY Zenon, <1>5 DEF AskStep, lookupWorker, Resolve
  <2>2. ASSUME NEW b \in DOMAIN entries, NEW n \in Range(entries[b])
        PROVE  n \in Other /\ home(n) = b
    <3>1. entries[b] \in Seq(bucketOf(b))
      BY Zenon, <1>2
    <3>2. n \in bucketOf(b)
      BY <3>1 DEF Range
    <3> QED
      BY Zenon, <3>2 DEF bucketOf
  <2>3. ASSUME NEW n \in stayed' PROVE n \in Other /\ n \in Range(entries'[home(n)])
    <3>1. PICK b \in DOMAIN entries : n \in Range(entries[b])
      BY Zenon, <2>1 DEF inTable
    <3> QED
      BY Zenon, <2>1, <2>2, <3>1
  <2> QED
    BY Zenon, <2>3
<1>6. ASSUME NEW m \in Other, tableAdds(m)
      PROVE  \A n \in stayed' : n \in Other /\ n \in Range(entries'[home(n)])
  <2>1. stayed' = stayed /\ entries' = [entries EXCEPT ![home(m)] = Append(entries[home(m)], m)]
    BY Zenon, <1>6 DEF tableAdds
  <2>2. \A s \in Seq(Other) : Range(s) \subseteq Range(Append(s, m))
    BY DEF Range
  <2>3. \A b \in DOMAIN entries : Range(entries[b]) \subseteq Range(entries'[b])
    BY Zenon, <1>2, <1>3, <2>1, <2>2
  <2> QED
    BY Zenon, <1>1, <1>3, <2>1, <2>3
<1>7. ASSUME NEW m \in Other, tableDrops(m)
      PROVE  \A n \in stayed' : n \in Other /\ n \in Range(entries'[home(n)])
  <2>1. PICK b \in DOMAIN entries : \E i \in DOMAIN entries[b] :
          entries[b][i] = m /\ entries' = [entries EXCEPT ![b] = deleteNode(entries[b], i)]
    BY Zenon, <1>7 DEF tableDrops
  <2>2. PICK i \in DOMAIN entries[b] :
          entries[b][i] = m /\ entries' = [entries EXCEPT ![b] = deleteNode(entries[b], i)]
    BY Zenon, <2>1
  <2>3. stayed' = stayed \ {m}
    BY Zenon, <1>7 DEF tableDrops
  <2>4. entries[b] \in Seq(Other)
    BY Zenon, <1>2
  <2>5. i \in 1 .. Len(entries[b])
    BY <2>4
  <2>6. \A n \in Range(entries[b]) : n # m => n \in Range(entries'[b])
    <3>1. entries'[b] = deleteNode(entries[b], i)
      BY Zenon, <1>2, <2>2
    <3> QED
      BY Zenon, <2>2, <2>4, <2>5, <3>1, RemovedOne
  <2>7. \A c \in DOMAIN entries : c # b => entries'[c] = entries[c]
    BY Zenon, <2>2
  <2> QED
    BY Zenon, <1>1, <1>3, <2>3, <2>6, <2>7
<1>8. CASE AnswerStep \/ WaitStep \/ FaultStep \/ newRecord
  <2>1. UNCHANGED <<entries, stayed>>
    BY Zenon, <1>8 DEF AnswerStep, handleFindnode, collectTableNodes, sendNodes, WaitStep,
       receiveNodes, callFails, resolveLookup, FaultStep, loseRequest, doubleRequest, loseNodes,
       newRecord
  <2> QED
    BY Zenon, <1>4, <2>1
<1> QED
  BY Zenon, <1>5, <1>6, <1>7, <1>8 DEF Next, ChangeStep

(* The first distance of a lookup brings all that is closer than Dest.     *)
LEMMA FirstBringsCloser ==
  ASSUME TypeInv, CloserInv, op = "lookupWorker", collectTableNodes,
         todo = valid(distances), found = <<>>
  PROVE  closer \subseteq Range(found')
<1> DEFINE td == LogDist(target, Dest)
<1>1. SUFFICES ASSUME NEW n \in closer PROVE n \in Range(found')
  BY Zenon
<1>2. /\ n \in stayed /\ LogDist(target, n) < td /\ CheckRelayIP(Self, n)
      /\ n \in Other /\ n \in Range(entries[bucketIndex(LogDist(Dest, n))])
  BY Zenon DEF closer, CloserInv
<1>3. target \in ID /\ n \in ID /\ Dest \in ID
  BY Zenon, <1>2, FindnodeAssumption DEF TypeInv
<1>4. LogDist(Dest, n) = td
  BY Zenon, <1>2, <1>3, CloserIsAsFar
<1>5. td \in 0 .. hashBits /\ LogDist(target, n) \in 0 .. hashBits
  BY Zenon, <1>3, LogDistance
<1> HIDE DEF td
<1>6. td # 0 /\ td <= hashBits
  BY <1>2, <1>5, FindnodeAssumption
<1>7. distances \in Seq(Nat) /\ distances # <<>> /\ distances[1] = td
  BY Zenon, Distances DEF td
<1>8. todo # <<>> /\ todo[1] = td /\ todo \in Seq(0 .. hashBits)
  BY Zenon, <1>6, <1>7, ValidDistances
<1>9. Head(todo) = td
  BY Zenon, <1>8, HeadAndTail
<1>10. bn = entries[bucketIndex(td)]
  BY Zenon, <1>6, <1>9 DEF bn, bucketAtDistance
<1>11. bn \in Seq(ID)
  BY Zenon, OneDistance
<1>12. Len(bn) <= findnodeResultLimit
  <2>1. bucketIndex(td) \in 0 .. nBuckets - 1
    BY Zenon, <1>5, BucketIndices
  <2>2. Len(bn) <= bucketSize
    BY Zenon, <1>10, <2>1 DEF TypeInv
  <2>3. bucketSize \in 0 .. findnodeResultLimit /\ findnodeResultLimit \in Nat
    BY Zenon, FindnodeAssumption
  <2>4. Len(bn) \in Nat
    BY <1>11
  <2> QED
    BY <2>2, <2>3, <2>4
<1>13. found' = relayable(bn)
  BY Zenon, <1>12, OneDistance
<1>14. PICK j \in 1 .. Len(bn) : n = bn[j]
  <2>1. n \in Range(bn) /\ DOMAIN bn = 1 .. Len(bn)
    BY <1>2, <1>4, <1>10, <1>11
  <2> QED
    BY Zenon, <2>1 DEF Range
<1> QED
  BY Zenon, <1>2, <1>11, <1>13, <1>14, RelayableNodes

LEMMA CloserStep ==
  ASSUME TypeInv, ControlInv, CloserInv, Next
  PROVE  CloserInv'
<1> USE DEF tableVars, destVars, answerVars, netVars, askVars, waitVars
<1> DEFINE collected == handling =>
                 (todo = valid(distances) /\ found = <<>>) \/ closer \subseteq Range(found)
           sent == \A i \in 1 .. Len(answers) : closer \subseteq Range(answers[i])
           given1 == pc = "returned" /\ err = "none" => result = nodes \ {Self}
           kept == op = "lookupWorker" => collected /\ sent /\ given1
<1>1. kept
  BY Zenon DEF CloserInv
<1>2. SUFFICES kept'
  BY Zenon, StayedStep DEF CloserInv
<1>3. CASE /\ stayed' \subseteq stayed
           /\ UNCHANGED <<op, target, handling, todo, found, answers, pc, err, result, nodes>>
  <2>1. closer' \subseteq closer /\ distances' = distances
    BY Zenon, <1>3 DEF closer, distances
  <2> QED
    BY Zenon, <1>1, <1>3, <2>1
<1>4. CASE AskStep
  <2>1. pc = "idle" /\ pc' = "waiting" /\ UNCHANGED <<handling, answers>>
    BY Zenon, <1>4 DEF AskStep, lookupWorker, Resolve
  <2>2. ~handling /\ answers = <<>>
    BY Zenon, <2>1 DEF ControlInv
  <2>3. 1 .. Len(<<>>) = {}
    OBVIOUS
  <2> QED
    BY Zenon, <2>1, <2>2, <2>3, "waiting" # "returned"
<1>5. CASE handleFindnode
  <2>1. /\ UNCHANGED <<stayed, op, target, answers, pc, err, result, nodes>>
        /\ todo' = valid(distances) /\ found' = <<>>
    BY Zenon, <1>5 DEF handleFindnode
  <2>2. closer' = closer /\ distances' = distances
    BY Zenon, <2>1 DEF closer, distances
  <2>3. valid(distances)' = valid(distances)
    BY ZenonT(30), <2>2 DEF valid
  <2> QED
    BY Zenon, <1>1, <2>1, <2>2, <2>3
<1>6. CASE collectTableNodes
  <2>1. UNCHANGED <<stayed, op, target, answers, pc, err, result, nodes>> /\ handling
    BY Zenon, <1>6 DEF collectTableNodes
  <2>2. closer' = closer
    BY Zenon, <2>1 DEF closer
  <2>3. op = "lookupWorker" => closer \subseteq Range(found')
    <3>1. Range(found) \subseteq Range(found')
      BY Zenon, <1>6, OneDistance
    <3> QED
      BY Zenon, <1>1, <1>6, <2>1, <3>1, FirstBringsCloser
  <2> QED
    BY Zenon, <1>1, <2>1, <2>2, <2>3
<1>7. CASE sendNodes
  <2>1. /\ UNCHANGED <<stayed, op, target, pc, err, result, nodes>> /\ handling /\ ~handling'
        /\ todo = <<>> /\ answers' = Append(answers, found)
    BY Zenon, <1>7 DEF sendNodes
  <2>2. closer' = closer
    BY Zenon, <2>1 DEF closer
  <2>3. ASSUME op = "lookupWorker" PROVE closer \subseteq Range(found)
    <3>1. /\ distances \in Seq(Nat) /\ distances # <<>>
          /\ distances[1] = LogDist(target, Dest)
      BY Zenon, <2>3, Distances
    <3>2. LogDist(target, Dest) \in 0 .. hashBits
      BY Zenon, LogDistance, FindnodeAssumption DEF TypeInv
    <3>3. distances[1] <= hashBits
      BY <3>1, <3>2, FindnodeAssumption
    <3>4. valid(distances) # <<>>
      BY Zenon, <3>1, <3>3, ValidDistances
    <3> QED
      BY Zenon, <1>1, <2>1, <2>3, <3>4
  <2>4. answers \in Seq(Seq(ID)) /\ found \in Seq(ID)
    BY Zenon DEF TypeInv
  <2>5. \A i \in 1 .. Len(answers') : \/ i \in 1 .. Len(answers) /\ answers'[i] = answers[i]
                                      \/ answers'[i] = found
    BY <2>1, <2>4
  <2>6. op = "lookupWorker" => sent'
    BY Zenon, <1>1, <2>2, <2>3, <2>5
  <2> QED
    BY Zenon, <1>1, <2>1, <2>6
<1>8. ASSUME NEW p, NEW again, receiveNodes(p, again) PROVE kept'
  <2>1. UNCHANGED <<stayed, op, target, handling, todo, found, answers>> /\ pc = "waiting"
    BY Zenon, <1>8 DEF receiveNodes
  <2>2. closer' = closer /\ distances' = distances
    BY Zenon, <2>1 DEF closer, distances
  <2>3. op = "lookupWorker" => given1'
    BY Zenon, <1>8, <2>1, "waiting" # "returned", "none" # "closed" DEF receiveNodes, returns
  <2> QED
    BY Zenon, <1>1, <2>1, <2>2, <2>3
<1>9. ASSUME NEW e \in {"timeout", "closed"}, callFails(e) PROVE kept'
  <2>1. UNCHANGED <<stayed, op, target, handling, todo, found, answers>> /\ err' # "none"
    BY Zenon, <1>9, "timeout" # "none", "closed" # "none" DEF callFails, returns
  <2>2. closer' = closer /\ distances' = distances
    BY Zenon, <2>1 DEF closer, distances
  <2> QED
    BY Zenon, <1>1, <2>1, <2>2
<1>10. ASSUME NEW rn, resolveLookup(rn) PROVE kept'
  <2>1. op' = op /\ pc = "lookup"
    BY Zenon, <1>10 DEF resolveLookup
  <2> QED
    BY Zenon, <2>1, "Resolve" # "lookupWorker" DEF ControlInv
<1>11. CASE ChangeStep \/ FaultStep
  <2>1. /\ stayed' \subseteq stayed
        /\ UNCHANGED <<op, target, handling, todo, found, answers, pc, err, result, nodes>>
    BY Zenon, <1>11 DEF ChangeStep, newRecord, tableAdds, tableDrops, FaultStep, loseRequest,
       doubleRequest, loseNodes
  <2> QED
    BY Zenon, <1>3, <2>1
<1> QED
  BY ZenonT(30), <1>4, <1>5, <1>6, <1>7, <1>8, <1>9, <1>10, <1>11 DEF Next, AnswerStep, WaitStep

(* All that Dest collects for RequestENR is itself, with its record of now. *)
LEMMA CollectsItself ==
  ASSUME TypeInv, collectTableNodes, todo = << 0 >>, found = <<>>
  PROVE  onlyDest(found') /\ todo' = <<>> /\ seqFound' = seq
<1>1. Head(todo) = 0 /\ Tail(<<0>>) = <<>>
  OBVIOUS
<1>2. bn = <<Dest>>
  BY Zenon, <1>1 DEF bn
<1>3. bn \in Seq({Dest}) /\ Len(bn) = 1
  BY <1>2
<1>4. Len(bn) <= findnodeResultLimit
  BY <1>3, FindnodeAssumption
<1>5. found' = relayable(bn)
  BY Zenon, <1>4, OneDistance
<1>6. relayable(bn) \in Seq({Dest}) /\ Len(relayable(bn)) <= Len(bn)
  BY Zenon, <1>3, RelayableNodes
<1>7. onlyDest(found')
  BY <1>3, <1>5, <1>6 DEF onlyDest, Range
<1>8. todo' = <<>>
  BY Zenon, <1>1, OneDistance
<1>9. seqFound' = seq
  BY Zenon, <1>1 DEF collectTableNodes
<1> QED
  BY Zenon, <1>7, <1>8, <1>9

(* An answer to RequestENR is one packet: the call returns with the first  *)
(* that comes.                                                             *)
LEMMA FirstIsLast ==
  ASSUME TypeInv, NetInv, ResolveInv, op = "Resolve", NEW p \in net, NEW again \in BOOLEAN,
         receiveNodes(p, again)
  PROVE  \E ns : /\ ns \subseteq {Dest} /\ (ns # {} => p.seq >= published)
                 /\ returns(ns, p.seq, "none")
<1> DEFINE list == answers[p.answer + 1]
           ns == nodes \cup {n \in Range(p.nodes) : verifyResponseNode(n)}
           T == totalNodesResponseLimit
<1>1. pc = "waiting" /\ received = 0 /\ total = -1 /\ nodes = {}
  BY Zenon DEF receiveNodes, ResolveInv
<1>2. p.answer + 1 \in 1 .. Len(answers) /\ list \in Seq(ID)
  <2>1. p.answer \in 0 .. Len(answers) - 1
    BY Zenon DEF NetInv
  <2>2. answers \in Seq(Seq(ID))
    BY Zenon DEF TypeInv
  <2> QED
    BY <2>1, <2>2
<1>3. onlyDest(list) /\ isPacket(p, list)
  BY Zenon, <1>2 DEF ResolveInv, NetInv
<1>4. packets(Len(list)) = 1
  BY Zenon, <1>2, <1>3, PacketsHoldAll DEF onlyDest
<1>5. p.total = 1
  BY Zenon, <1>3, <1>4 DEF isPacket
<1>6. Range(p.nodes) \subseteq {Dest}
  BY Zenon, <1>2, <1>3, PacketsHoldAll DEF isPacket, onlyDest
<1>7. Min({1, T}) = 1
  <2>1. 1 \in Int /\ T \in Int /\ 1 <= T
    BY FindnodeAssumption
  <2> QED
    BY Zenon, <2>1, OfTwo
<1>8. total' = 1
  BY Zenon, <1>1, <1>5, <1>7 DEF receiveNodes
<1>9. received' = 0 + 1
  BY Zenon, <1>1 DEF receiveNodes
<1>10. received' = total'
  BY <1>8, <1>9
<1>11. returns(ns, p.seq, "none")
  BY Zenon, <1>10 DEF receiveNodes
<1>12. ns \subseteq {Dest}
  BY Zenon, <1>1, <1>6
<1>13. ns # {} => p.nodes # <<>>
  <2>1. Range(<<>>) = {}
    BY DEF Range
  <2> QED
    BY Zenon, <1>1, <2>1
<1>14. p.nodes # <<>> => p.seq >= published
  BY Zenon DEF ResolveInv
<1> HIDE DEF ns
<1> QED
  BY Zenon, <1>11, <1>12, <1>13, <1>14

LEMMA ResolveStep ==
  ASSUME TypeInv, NetInv, ControlInv, ResolveInv, Next
  PROVE  ResolveInv'
<1> USE DEF tableVars, destVars, answerVars, netVars, askVars, waitVars
<1> DEFINE ordered == given <= asked /\ asked <= published /\ published <= seq
           collected == handling => /\ onlyDest(found)
                                    /\ todo = <<>> \/ (todo = <<0>> /\ found = <<>>)
                                    /\ found # <<>> => seqFound >= published
           sent == \A i \in 1 .. Len(answers) : onlyDest(answers[i])
           coming == \A p \in net : p.nodes # <<>> => p.seq >= published
           waits == /\ pc = "waiting" => received = 0 /\ total = -1 /\ nodes = {}
                    /\ pc = "lookup" /\ err = "none" => nodes = {}
                    /\ ResolvedIsNewest
<1>1. SUFFICES ASSUME op' = "Resolve"
               PROVE  ordered' /\ collected' /\ sent' /\ coming' /\ waits'
  BY Zenon DEF ResolveInv
<1>2. op = "Resolve" => ordered /\ collected /\ sent /\ coming /\ waits
  BY Zenon DEF ResolveInv
<1>3. seq \in Nat /\ asked \in Nat /\ given \in Nat /\ published \in Nat
  BY Zenon DEF TypeInv
<1>4. UNCHANGED <<given, asked, published, seq>> /\ op = "Resolve" => ordered'
  BY Zenon, <1>2
<1>5. UNCHANGED <<published, handling, todo, found, seqFound, answers>> /\ op = "Resolve"
        => collected' /\ sent'
  <2>1. SUFFICES ASSUME UNCHANGED <<published, handling, todo, found, seqFound, answers>>,
                        op = "Resolve"
                 PROVE  collected' /\ sent'
    BY Zenon
  <2>2. handling' <=> handling
    BY Zenon, <2>1
  <2>3. collected'
    BY Zenon, <1>2, <2>1, <2>2 DEF onlyDest
  <2>4. sent'
    BY Zenon, <1>2, <2>1 DEF onlyDest
  <2> QED
    BY Zenon, <2>3, <2>4
<1>6. UNCHANGED published /\ op = "Resolve" /\ net' \subseteq net => coming'
  BY Zenon, <1>2
<1>7. UNCHANGED <<pc, op, given, asked, published, waitVars>> => waits'
  BY Zenon, <1>1, <1>2 DEF ResolvedIsNewest
<1>8. CASE AskStep
  <2>1. PICK s \in 1 .. seq, intable \in 0 .. seq : Resolve(s, intable)
    BY Zenon, <1>1, <1>8, "lookupWorker" # "Resolve" DEF AskStep, lookupWorker
  <2>2. /\ pc = "idle" /\ pc' = "waiting" /\ given' = s /\ published' = seq /\ seq' = seq
        /\ UNCHANGED <<answerVars, net, waitVars>>
    BY Zenon, <2>1 DEF Resolve
  <2>3. asked' = IF intable > s THEN intable ELSE s
    BY Zenon, <2>1 DEF Resolve, latest
  <2>4. ordered'
    BY <1>3, <2>2, <2>3
  <2>5. ~handling /\ answers = <<>> /\ received = 0 /\ total = -1 /\ nodes = {}
    BY Zenon, <2>2 DEF ControlInv
  <2>6. 1 .. Len(<<>>) = {} /\ 0 .. Len(<<>>) - 1 = {}
    OBVIOUS
  <2>7. net = {}
    BY Zenon, <2>5, <2>6 DEF NetInv
  <2> QED
    BY Zenon, <2>2, <2>4, <2>5, <2>6, <2>7, "waiting" # "lookup", "waiting" # "returned"
       DEF ResolvedIsNewest
<1>9. CASE handleFindnode
  <2>1. /\ UNCHANGED <<destVars, answers, net, pc, askVars, waitVars>>
        /\ todo' = valid(distances) /\ found' = <<>>
    BY Zenon, <1>9 DEF handleFindnode
  <2>2. todo' = <<0>>
    BY Zenon, <1>1, <2>1, Distances, ValidDistances
  <2>3. onlyDest(<<>>)
    BY DEF onlyDest, Range
  <2>4. collected' /\ sent'
    BY Zenon, <1>1, <1>2, <2>1, <2>2, <2>3 DEF onlyDest
  <2> QED
    BY Zenon, <1>1, <1>4, <1>6, <1>7, <2>1, <2>4
<1>10. CASE collectTableNodes
  <2>1. UNCHANGED <<destVars, answers, net, pc, askVars, waitVars>> /\ handling /\ todo # <<>>
    BY Zenon, <1>10 DEF collectTableNodes
  <2>2. todo = <<0>> /\ found = <<>>
    BY Zenon, <1>1, <1>2, <2>1
  <2>3. onlyDest(found') /\ todo' = <<>> /\ seqFound' = seq
    BY Zenon, <1>10, <2>2, CollectsItself
  <2>4. seq >= published
    BY Zenon, <1>1, <1>2, <1>3, <2>1
  <2>5. collected' /\ sent'
    BY Zenon, <1>1, <1>2, <2>1, <2>3, <2>4 DEF onlyDest
  <2> QED
    BY Zenon, <1>1, <1>4, <1>6, <1>7, <2>1, <2>5
<1>11. CASE sendNodes
  <2>1. /\ UNCHANGED <<destVars, todo, found, seqFound, pc, askVars, waitVars>>
        /\ handling /\ ~handling' /\ net' = net \cup packNodes(found)
        /\ answers' = Append(answers, found)
    BY Zenon, <1>11 DEF sendNodes
  <2>2. op = "Resolve" /\ onlyDest(found) /\ (found # <<>> => seqFound >= published)
    BY Zenon, <1>1, <1>2, <2>1
  <2>3. answers \in Seq(Seq(ID)) /\ found \in Seq(ID)
    BY Zenon DEF TypeInv
  <2>4. \A i \in 1 .. Len(answers') : \/ i \in 1 .. Len(answers) /\ answers'[i] = answers[i]
                                      \/ answers'[i] = found
    BY <2>1, <2>3
  <2>5. sent'
    BY Zenon, <1>2, <2>2, <2>4 DEF onlyDest
  <2>6. ASSUME NEW p \in packNodes(found), p.nodes # <<>> PROVE p.seq >= published
    <3>1. isPacket(p, found) /\ p.seq = seqFound
      BY Zenon, Packed
    <3>2. ASSUME found = <<>> PROVE FALSE
      <4>1. found \in Seq({})
        BY <3>2
      <4>2. p.nodes \in Seq({})
        BY Zenon, <3>1, <4>1, PacketsHoldAll DEF isPacket
      <4> QED
        BY <2>6, <4>2
    <3> QED
      BY Zenon, <2>2, <3>1, <3>2
  <2>7. coming'
    BY Zenon, <1>2, <2>1, <2>2, <2>6
  <2> QED
    BY ZenonT(30), <1>1, <1>4, <1>7, <2>1, <2>2, <2>5, <2>7
<1>12. ASSUME NEW p \in net, NEW again \in BOOLEAN, receiveNodes(p, again)
       PROVE  ordered' /\ collected' /\ sent' /\ coming' /\ waits'
  <2>1. UNCHANGED <<destVars, answerVars, askVars>> /\ net' = IF again THEN net ELSE net \ {p}
    BY Zenon, <1>12 DEF receiveNodes
  <2>2. op = "Resolve" /\ net' \subseteq net
    BY Zenon, <1>1, <2>1
  <2>3. PICK ns : /\ ns \subseteq {Dest} /\ (ns # {} => p.seq >= published)
                  /\ returns(ns, p.seq, "none")
    BY Zenon, <1>12, <2>2, FirstIsLast
  <2>4. /\ nodes' = ns
        /\ \/ pc' = "returned" /\ resolved' = p.seq /\ Cardinality(ns) = 1
           \/ pc' = "lookup" /\ Cardinality(ns) # 1
    BY Zenon, <2>2, <2>3, "Resolve" # "lookupWorker" DEF returns
  <2>5. CASE ns = {}
    <3>1. Cardinality(ns) # 1
      BY <2>5, FS_EmptySet
    <3>2. pc' = "lookup" /\ nodes' = {}
      BY Zenon, <2>4, <2>5, <3>1
    <3> QED
      BY ZenonT(30), <1>4, <1>5, <1>6, <2>1, <2>2, <3>2, "lookup" # "waiting", "lookup" # "returned"
         DEF ResolvedIsNewest
  <2>6. CASE ns # {}
    <3>1. ns = {Dest}
      BY Zenon, <2>3, <2>6
    <3>2. pc' = "returned" /\ resolved' = p.seq
      BY Zenon, <2>4, <3>1, FS_Singleton
    <3>3. p.seq \in Nat /\ p.seq >= published
      BY Zenon, <2>3, <2>6 DEF NetInv
    <3>4. given <= asked /\ asked <= published
      BY Zenon, <1>2, <2>2
    <3>5. p.seq >= given /\ p.seq >= asked
      BY <1>3, <3>3, <3>4
    <3>6. waits'
      BY Zenon, <2>1, <3>2, <3>3, <3>5, "returned" # "waiting", "returned" # "lookup"
         DEF ResolvedIsNewest
    <3> QED
      BY ZenonT(30), <1>4, <1>5, <1>6, <2>1, <2>2, <3>6
  <2> QED
    BY Zenon, <2>5, <2>6
<1>13. ASSUME NEW e \in {"timeout", "closed"}, callFails(e)
       PROVE  ordered' /\ collected' /\ sent' /\ coming' /\ waits'
  <2>1. UNCHANGED <<destVars, answerVars, net, askVars>>
    BY Zenon, <1>13 DEF callFails
  <2>2. pc' = "lookup" /\ err' # "none"
    BY Zenon, <1>1, <1>13, <2>1, "timeout" # "none", "closed" # "none",
       "Resolve" # "lookupWorker" DEF callFails, returns
  <2> QED
    BY ZenonT(30), <1>1, <1>4, <1>5, <1>6, <2>1, <2>2, "lookup" # "waiting", "lookup" # "returned"
       DEF ResolvedIsNewest
<1>14. ASSUME NEW rn \in 0 .. seq, resolveLookup(rn)
       PROVE  ordered' /\ collected' /\ sent' /\ coming' /\ waits'
  <2>1. /\ UNCHANGED <<destVars, answerVars, net, askVars, err, nodes>>
        /\ pc = "lookup" /\ pc' = "returned" /\ resolved' = IF rn > asked THEN rn ELSE asked
    BY Zenon, <1>14 DEF resolveLookup
  <2>2. op = "Resolve"
    BY Zenon, <1>1, <2>1
  <2>3. given <= asked
    BY Zenon, <1>2, <2>2
  <2>4. resolved' >= given /\ resolved' >= asked
    BY <1>3, <2>1, <2>3
  <2>5. err = "none" => nodes = {}
    BY Zenon, <1>2, <2>1, <2>2
  <2> QED
    BY ZenonT(30), <1>4, <1>5, <1>6, <2>1, <2>2, <2>4, <2>5, "returned" # "waiting",
       "returned" # "lookup" DEF ResolvedIsNewest
<1>15. CASE newRecord
  <2>1. UNCHANGED <<answerVars, net, pc, askVars, waitVars>> /\ seq' = seq + 1
    BY Zenon, <1>15 DEF newRecord
  <2>2. op = "Resolve" /\ given' = given /\ asked' = asked /\ published' = published
    BY Zenon, <1>1, <2>1
  <2>3. ordered
    BY Zenon, <1>2, <2>2
  <2>4. ordered'
    BY SMTT(30), <1>3, <2>1, <2>2, <2>3
  <2> QED
    BY ZenonT(30), <1>5, <1>6, <1>7, <2>1, <2>2, <2>4
<1>16. ASSUME NEW n \in Other, tableAdds(n) \/ tableDrops(n) PROVE FALSE
  BY Zenon, <1>1, <1>16, "lookupWorker" # "Resolve" DEF tableAdds, tableDrops, changed
<1>17. CASE FaultStep
  <2>1. UNCHANGED <<destVars, answerVars, pc, askVars, waitVars>> /\ net' \subseteq net
    BY Zenon, <1>17 DEF FaultStep, loseRequest, doubleRequest, loseNodes
  <2> QED
    BY ZenonT(30), <1>1, <1>4, <1>5, <1>6, <1>7, <2>1
<1> QED
  BY ZenonT(30), <1>8, <1>9, <1>10, <1>11, <1>12, <1>13, <1>14, <1>15, <1>16, <1>17,
     TRUE \in BOOLEAN, FALSE \in BOOLEAN DEF Next, AnswerStep, WaitStep, ChangeStep

LEMMA InvStep == Inv /\ [Next]_vars => Inv'
<1>1. SUFFICES ASSUME Inv, [Next]_vars PROVE Inv'
  BY Zenon
<1>2. TypeInv /\ NetInv /\ ControlInv /\ GatherInv /\ WholeInv /\ CloserInv /\ ResolveInv
  BY Zenon, <1>1 DEF Inv
<1>3. CASE Next
  <2>1. TypeInv' /\ NetInv' /\ ControlInv'
    BY Zenon, <1>2, <1>3, TypeStep, NetStep, ControlStep
  <2>2. GatherInv' /\ WholeInv'
    BY Zenon, <1>2, <1>3, GatherStep, WholeStep
  <2>3. CloserInv' /\ ResolveInv'
    BY Zenon, <1>2, <1>3, CloserStep, ResolveStep
  <2> QED
    BY Zenon, <2>1, <2>2, <2>3 DEF Inv
<1>4. CASE UNCHANGED vars
  <2> USE DEF vars, tableVars, destVars, answerVars, netVars, askVars, waitVars
  <2>1. TypeInv' /\ NetInv'
    BY Zenon, <1>2, <1>4 DEF TypeInv, NetInv, isPacket
  <2>2. ControlInv'
    BY Zenon, <1>2, <1>4 DEF ControlInv
  <2>3. GatherInv'
    BY Zenon, <1>2, <1>4 DEF GatherInv, gathered, verifyResponseNode, distances
  <2>4. WholeInv'
    BY Zenon, <1>2, <1>4 DEF WholeInv, acceptable, verifyResponseNode, distances
  <2>5. CloserInv'
    BY Zenon, <1>2, <1>4 DEF CloserInv, closer, distances
  <2>6. ResolveInv'
    BY Zenon, <1>2, <1>4 DEF ResolveInv, onlyDest, ResolvedIsNewest
  <2> QED
    BY Zenon, <2>1, <2>2, <2>3, <2>4, <2>5, <2>6 DEF Inv
<1> QED
  BY Zenon, <1>1, <1>3, <1>4

LEMMA Invariance == Spec => []Inv
BY InvInit, InvStep, PTL DEF Spec

---------------------------------------------------------------------------
(* Theorems *)

(* Of an answer whose packets come in any order waitForNodes returns every *)
(* node that verifyResponseNode accepts, but for those of the packets that *)
(* packNodes makes beyond totalNodesResponseLimit, unless a packet comes   *)
(* twice; and it returns nothing that was not in an answer.                *)
THEOREM AnswersAreWhole == Spec => []AnswerIsWhole
<1>1. Inv => AnswerIsWhole
  BY Zenon DEF Inv, WholeInv, AnswerIsWhole, succeeded
<1> QED
  BY <1>1, Invariance, PTL

(* lookupDistances and collectTableNodes bring a lookup all nodes of       *)
(* Dest's table that are closer to the target than Dest, for any number of *)
(* buckets and of bits: they all are at the one distance from Dest that is *)
(* asked for first, and a bucket fits into an answer.                      *)
THEOREM CloserNodesDoArrive == Spec => []CloserNodesArrive
<1>1. ASSUME Inv PROVE CloserNodesArrive
  <2>1. SUFFICES ASSUME succeeded, op = "lookupWorker", ~doubled, ~lowPort
                 PROVE  Cardinality(closer \ result) <= excess(answers[1]) * nodesResponseItemLimit
    BY Zenon DEF CloserNodesArrive, closer
  <2>2. TypeInv /\ WholeInv /\ CloserInv
    BY Zenon, <1>1 DEF Inv
  <2> DEFINE miss == acceptable(answers[1]) \ nodes
             most == excess(answers[1]) * nodesResponseItemLimit
  <2>3. answers # <<>> /\ IsFiniteSet(miss) /\ Cardinality(miss) <= most
    BY Zenon, <2>1, <2>2 DEF WholeInv, succeeded
  <2>4. answers \in Seq(Seq(ID))
    BY Zenon, <2>2 DEF TypeInv
  <2>5. 1 \in 1 .. Len(answers) /\ answers[1] \in Seq(ID)
    BY <2>3, <2>4
  <2>6. closer \subseteq Range(answers[1]) /\ result = nodes \ {Self}
    BY Zenon, <2>1, <2>2, <2>5 DEF CloserInv, succeeded
  <2>7. ASSUME NEW n \in closer PROVE verifyResponseNode(n)
    <3>1. /\ n \in Other /\ CheckRelayIP(Dest, n)
          /\ LogDist(target, n) < LogDist(target, Dest)
      BY Zenon, <2>2 DEF CloserInv, closer
    <3>2. n \in ID /\ target \in ID /\ Dest \in ID
      BY Zenon, <2>2, <3>1, FindnodeAssumption DEF TypeInv
    <3>3. LogDist(Dest, n) = LogDist(target, Dest)
      BY Zenon, <3>1, <3>2, CloserIsAsFar
    <3>4. /\ distances \in Seq(Nat) /\ distances # <<>>
          /\ distances[1] = LogDist(Dest, n)
      BY Zenon, <2>1, <2>2, <3>3, Distances
    <3>5. LogDist(Dest, n) \in Range(distances)
      BY <3>4 DEF Range
    <3> QED
      BY Zenon, <2>1, <3>1, <3>5 DEF verifyResponseNode
  <2>8. closer \ result \subseteq miss
    <3>1. Self \notin closer
      BY Zenon DEF closer
    <3> QED
      BY Zenon, <2>6, <2>7, <3>1 DEF acceptable
  <2> HIDE DEF miss
  <2>9. Cardinality(closer \ result) <= Cardinality(miss) /\ IsFiniteSet(closer \ result)
    BY Zenon, <2>3, <2>8, FS_Subset
  <2>10. most \in Int
    <3> DEFINE k == packets(Len(answers[1]))
               m == Min({k, totalNodesResponseLimit})
    <3>1. k \in Nat \ {0}
      BY Zenon, <2>5, PacketsHoldAll
    <3>2. m \in 1 .. k /\ excess(answers[1]) = k - m
      BY Zenon, <2>5, NotWaitedFor
    <3> HIDE DEF k, m
    <3>3. excess(answers[1]) \in Int
      BY <3>1, <3>2
    <3> QED
      BY <3>3, FindnodeAssumption
  <2> QED
    BY <2>3, <2>9, <2>10, FS_CardinalityType
<1>2. Inv => CloserNodesArrive
  BY Zenon, <1>1
<1> QED
  BY <1>2, Invariance, PTL

(* Resolve returns no record older than the one it has, and with an answer *)
(* of the node none older than the node's own when it was asked.           *)
THEOREM ResolvedAreNewest == Spec => []ResolvedIsNewest
<1>1. Inv => ResolvedIsNewest
  <2>1. op # "Resolve" => ResolvedIsNewest
    BY Zenon DEF ResolvedIsNewest
  <2> QED
    BY Zenon, <2>1 DEF Inv, ResolveInv
<1> QED
  BY <1>1, Invariance, PTL
============================================================================
