-------------------------- MODULE MerkleBranches --------------------------
(***************************************************************************)
(* Generalized indices and Merkle branches (pkg/encoding/ssz/ztype and     *)
(* pkg/encoding/ssz/tree): how the light client finds the place of a field *)
(* in the state, how a branch is made for it, and what a branch proves.    *)
(*                                                                         *)
(* The hash of two nodes is the pair of them, so that different trees have *)
(* different roots; the root of a subtree is the subtree.  A leaf is a     *)
(* tuple of one element, the field indices that lead to it.  A type is the *)
(* sequence of the types of its fields, empty if it is no container: what  *)
(* is inside vectors, lists and numbers has no field index.                *)
(***************************************************************************)
EXTENDS Integers, FiniteSets, SequencesExt

VARIABLES
  phase,          \* "none", "index" once there is one, "verify" in Verify
  container,      \* the type of the tree
  field,          \* the field indices, or none for a branch that was received
  gIndex, leaf,
  branch,         \* the elements that Verify has still to hash
  walked,         \* the number of those it has
  h, idx          \* of Verify

merkleVars == <<phase, container, field, gIndex, leaf, branch, walked, h, idx>>

hFn(a, b) == <<a, b>>

Zero == <<<<>>>>

Basic == <<>>

Fields(n) == [i \in 1 .. n |-> Basic]

ForkType == Fields(3)
BeaconBlockHeaderType == Fields(5)
Eth1DataType == Fields(3)
CheckpointType == Fields(2)
SyncCommitteeType == Fields(2)

BeaconStateAltairType ==
  Fields(3) \o <<ForkType, BeaconBlockHeaderType>> \o Fields(3) \o <<Eth1DataType>>
    \o Fields(9) \o <<CheckpointType, CheckpointType, CheckpointType, Basic,
                      SyncCommitteeType, SyncCommitteeType>>

---------------------------------------------------------------------------
(* Generalized indices *)

RECURSIVE GetPowerOfTwoCeil(_)
GetPowerOfTwoCeil(x) ==
  IF x <= 1 THEN 1 ELSE IF x = 2 THEN 2 ELSE 2 * GetPowerOfTwoCeil((x + 1) \div 2)

(* Mutant: the power of two above.                                         *)
GetPowerOfTwoFloorCeil(x) == GetPowerOfTwoCeil(x)

RECURSIVE GetPowerOfTwoFloor(_)
GetPowerOfTwoFloor(x) ==
  IF x <= 1 THEN 1 ELSE IF x = 2 THEN 2 ELSE 2 * GetPowerOfTwoFloor(x \div 2)

ConcatGeneralizedIndices(indices) ==
  FoldLeft(LAMBDA o, i : o * GetPowerOfTwoFloor(i) + (i - GetPowerOfTwoFloor(i)), 1, indices)

CoverDepth(n) == CHOOSE d \in 0 .. n : 2^d >= n /\ \A e \in 0 .. d - 1 : 2^e < n

ToGindex64(i, depth) == 2^depth + i

(* The type that the first i field indices lead to.                        *)
fieldType(def, fieldIndices) == FoldLeft(LAMBDA d, f : d[f + 1], def, fieldIndices)

(* All field indices but the last lead to containers, or the code panics.  *)
CalculateGIndex(def, fieldIndices) ==
  ConcatGeneralizedIndices(
    [i \in 1 .. Len(fieldIndices) |->
      ToGindex64(fieldIndices[i],
                 CoverDepth(Len(fieldType(def, SubSeq(fieldIndices, 1, i - 1)))))])

---------------------------------------------------------------------------
(* Trees *)

(* The tree of a value of type def that field indices p have led to.       *)
RECURSIVE Backing(_, _)
Backing(def, p) ==
  LET RECURSIVE node(_, _)
      node(depth, i) ==
        IF depth > 0
          THEN hFn(node(depth - 1, i), node(depth - 1, i + 2^(depth - 1)))
        ELSE IF i < Len(def) THEN Backing(def[i + 1], Append(p, i))
        ELSE Zero
  IN IF def = Basic THEN <<p>> ELSE node(CoverDepth(Len(def)), 0)

(* Node g of a tree has the children 2g and 2g + 1.                        *)
RECURSIVE Getter(_, _)
Getter(t, g) == IF g = 1 THEN t ELSE Getter(t, g \div 2)[1 + (g % 2)]

AltairState == Backing(BeaconStateAltairType, <<>>)

(* The indices of all nodes.                                               *)
RECURSIVE Indices(_, _)
Indices(t, g) ==
  {g} \cup (IF Len(t) = 2 THEN Indices(t[1], 2 * g) \cup Indices(t[2], 2 * g + 1) ELSE {})

---------------------------------------------------------------------------
(* Making branches *)

sibling(g) == IF g % 2 = 0 THEN g + 1 ELSE g - 1

(* "Mark every gIndex that is between the root and the leaves."            *)
interest(index) == {index \div 2^k : k \in 0 .. CoverDepth(index)} \ {0, 1}

witness(index) == {sibling(g) : g \in interest(index)} \ interest(index)

(* witnessSorted, read from its end.                                       *)
sorted(S) ==
  [i \in 1 .. Cardinality(S) |-> CHOOSE g \in S : Cardinality({w \in S : w > g}) = i - 1]

GetBranch(t, index) ==
  LET ws == sorted(witness(index))
  IN [i \in 1 .. Len(ws) |-> Getter(t, ws[i])]

---------------------------------------------------------------------------
(* A branch is made and verified *)

MerkleInit ==
  /\ phase = "none" /\ container = Basic /\ field = <<>> /\ gIndex = 0
  /\ leaf = Zero /\ branch = <<>> /\ walked = 0 /\ h = Zero /\ idx = 0

verify(g, l, b) ==
  /\ phase' = "verify"
  /\ gIndex' = g /\ leaf' = l /\ branch' = b
  /\ walked' = 0 /\ h' = l /\ idx' = g

(* The index of a field of the state, or of a container in it.             *)
fieldIndex(p) ==
  /\ phase = "none"
  /\ phase' = "index" /\ container' = BeaconStateAltairType /\ field' = p
  /\ gIndex' = CalculateGIndex(BeaconStateAltairType, p)
  /\ UNCHANGED <<leaf, branch, walked, h, idx>>

(* GetLeaf and GetBranch with it.                                          *)
branchOfIndex ==
  /\ phase = "index"
  /\ verify(gIndex, Getter(AltairState, gIndex), GetBranch(AltairState, gIndex))
  /\ UNCHANGED <<container, field>>

(* Proof of TreeBackedState, for a field of the outermost container.       *)
Proof(i) ==
  /\ phase = "none"
  /\ container' = BeaconStateAltairType /\ field' = <<i>>
  /\ LET g == ToGindex64(i, CoverDepth(Len(BeaconStateAltairType)))
     IN verify(g, Backing(BeaconStateAltairType[i + 1], <<i>>), GetBranch(AltairState, g))

(* Types whose trees are small enough for all branches, and a bound on     *)
(* the length of these.                                                    *)
smallTypes == {Fields(1), Fields(3), <<Basic, Fields(3)>>}
MaxBranch == 3

(* What another node may send: any nodes of a small tree for a branch.     *)
receivedBranch(def) ==
  LET t == Backing(def, <<>>)
      roots == {Getter(t, g) : g \in Indices(t, 1)}
  IN /\ phase = "none"
     /\ container' = def
     /\ \E g \in Indices(t, 1), l \in roots, b \in SeqOf(roots, MaxBranch) : verify(g, l, b)
     /\ UNCHANGED field

(* Mutant: the sides are swapped.                                          *)
hashUpSwapped(i, hash, elem) == IF i % 2 = 1 THEN hFn(hash, elem) ELSE hFn(elem, hash)

hashUp(i, hash, elem) == IF i % 2 = 0 THEN hFn(hash, elem) ELSE hFn(elem, hash)

(* A turn of the loop of Verify, which VerifyProof repeats.                *)
Verify ==
  /\ phase = "verify" /\ branch # <<>>
  /\ h' = hashUp(idx, h, Head(branch)) /\ idx' = idx \div 2
  /\ branch' = Tail(branch) /\ walked' = walked + 1
  /\ UNCHANGED <<phase, container, field, gIndex, leaf>>

(* The field indices of def, the nested ones included.                     *)
RECURSIVE fieldPaths(_)
fieldPaths(def) ==
  {<<i>> : i \in 0 .. Len(def) - 1}
    \cup UNION {{<<i>> \o p : p \in fieldPaths(def[i + 1])} : i \in 0 .. Len(def) - 1}

MerkleNext ==
  \/ \E p \in fieldPaths(BeaconStateAltairType) : fieldIndex(p)
  \/ branchOfIndex
  \/ \E i \in 0 .. Len(BeaconStateAltairType) - 1 : Proof(i)
  \/ \E def \in smallTypes : receivedBranch(def)
  \/ Verify

---------------------------------------------------------------------------
(* Properties *)

root == IF container = BeaconStateAltairType THEN AltairState ELSE Backing(container, <<>>)

(* For every field of the state, and every field of a container in it,     *)
(* CalculateGIndex gives the node of the tree that holds the field: the    *)
(* indices that validateMerkleLightClientUpdate computes are those of the  *)
(* finalized root and the committees.  Containers do not fill their trees, *)
(* and the steps of a path go through trees of different depths.           *)
IndexLeadsToField ==
  field # <<>> =>
    /\ gIndex \in Indices(AltairState, 1)
    /\ Getter(AltairState, gIndex) = Backing(fieldType(BeaconStateAltairType, field), field)

(* What Verify shows.  Along the branch that GetBranch or Proof makes for  *)
(* a field, the hash is that of the node the index has come to, up to the  *)
(* root.  And whatever branch verifies a leaf, the leaf is in the tree, at *)
(* the node that the last bits of the index lead to, as many as the branch *)
(* is long: Verify does not compare the length of the branch with the      *)
(* depth of the index, and only for branches of that length does it show   *)
(* that the leaf is the node with the index.                               *)
BranchesProve ==
  phase = "verify" =>
    /\ field # <<>> => h = Getter(root, idx) /\ (branch = <<>> => idx = 1)
    /\ branch = <<>> /\ h = root =>
         LET at == 2^walked + (gIndex % 2^walked)
         IN at \in Indices(root, 1) /\ Getter(root, at) = leaf
===========================================================================
