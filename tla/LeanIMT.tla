------------------------------ MODULE LeanIMT ------------------------------
(***************************************************************************)
(* The data of server/internal/leanimt_plus: indexed leaves, the levels of *)
(* hashes above them, Merkle proofs and their verification.                *)
(*                                                                         *)
(* Hash2 is treated as free of collisions: a digest is the term it was     *)
(* computed from.  A leaf commitment Hash2(value, next) and an inner node  *)
(* Hash2(left, right) are different terms, since a serial number has at    *)
(* most 160 bits and a digest 256.  A nil *big.Int is the slot Nil.        *)
(*                                                                         *)
(* Go slices are 0-based and sequences 1-based: the operators below take   *)
(* the Go indices, so nodes[l+1][i+1] is written in one place only.        *)
(***************************************************************************)
EXTENDS Integers, Sequences, FiniteSets

Nil          == [kind |-> "nil"]
Commit(leaf) == [kind |-> "leaf", value |-> leaf.value, next |-> leaf.next]
Hash2(l, r)  == [kind |-> "node", left |-> l, right |-> r]

IndexedLeaf(v, n) == [value |-> v, next |-> n]

\* bits.Len(n): how many bits n needs.
BitsLen(n) == Cardinality({k \in 0..n : 2^k <= n})

\* Mutant: rounded down, not up.
TargetDepthShort(size) == IF size > 1 THEN BitsLen(size) - 1 ELSE 0

\* The depth recomputeLocked grows the tree to, for this many leaves.
TargetDepth(size) == IF size > 1 THEN BitsLen(size - 1) ELSE 0

\* Slot i of a level, nil when the level is not that long.
SlotAt(row, i) == IF i < Len(row) THEN row[i + 1] ELSE Nil

\* A level with h stored at i, padded with nil up to i when it was shorter.
StoreAt(row, i, h) ==
  [j \in 1..(IF Len(row) > i THEN Len(row) ELSE i + 1) |->
     IF j = i + 1 THEN h ELSE IF j <= Len(row) THEN row[j] ELSE Nil]

Depth(nodes) == Len(nodes) - 1

RootOf(leaves, nodes) ==
  IF leaves = <<>> THEN Nil ELSE SlotAt(nodes[Len(nodes)], 0)

\* indexOfLocked: the Go index of a user value, the sentinel excluded, the first
\* one; -1 is left to the caller, who asks whether the set is empty.
IndexesOf(leaves, v) == {i \in 1..(Len(leaves) - 1) : leaves[i + 1].value = v}

IndexOf(leaves, v) ==
  CHOOSE i \in IndexesOf(leaves, v) : \A j \in IndexesOf(leaves, v) : i <= j

\* Mutant: the leaf whose next value is v itself is not a candidate.
LowLeafIndexesStrict(leaves, v) ==
  {i \in 0..(Len(leaves) - 1) :
     /\ leaves[i + 1].value < v
     /\ leaves[i + 1].next = 0 \/ leaves[i + 1].next > v}

\* The leaves a value can be placed after; findLowLeafIndexLocked takes the
\* first one in insertion order.
LowLeafIndexes(leaves, v) ==
  {i \in 0..(Len(leaves) - 1) :
     /\ leaves[i + 1].value < v
     /\ leaves[i + 1].next = 0 \/ leaves[i + 1].next >= v}

LowLeafIndex(leaves, v) ==
  CHOOSE i \in LowLeafIndexes(leaves, v) : \A j \in LowLeafIndexes(leaves, v) : i <= j

-----------------------------------------------------------------------------
(* Proofs. A path is one record per level that has a sibling: bit i of     *)
(* LeafIndex and Siblings[i] of the Go struct are path[i].right and        *)
(* path[i].sibling.                                                        *)

\* Mutant: always the neighbour to the right.
SiblingIndexRight(i) == i + 1

SiblingIndex(i) == IF i % 2 = 1 THEN i - 1 ELSE i + 1

\* What level l contributes to the path.
PathStep(nodes, l, phys) ==
  LET i == phys \div 2^l IN
  [right |-> i % 2 = 1, sibling |-> SlotAt(nodes[l + 1], SiblingIndex(i))]

\* Mutant: a level without a sibling is not skipped.
PathOfAllLevels(nodes, phys) == [l \in 1..Depth(nodes) |-> PathStep(nodes, l - 1, phys)]

\* The path, level by level.
PathOf(nodes, phys) ==
  LET below[l \in 0..Depth(nodes)] ==
        IF l = 0 THEN <<>>
        ELSE LET s == PathStep(nodes, l - 1, phys) IN
             IF s.sibling # Nil THEN Append(below[l - 1], s) ELSE below[l - 1]
  IN  below[Depth(nodes)]

BuildProof(leaves, nodes, type, v, phys) ==
  [type |-> type, root |-> RootOf(leaves, nodes), value |-> v,
   leaf |-> leaves[phys + 1], path |-> PathOf(nodes, phys)]

\* GenerateProof: the proof, or the error it returns as [err |-> ...].
GenerateProof(leaves, nodes, v) ==
  LET members == IndexesOf(leaves, v) IN
  CASE v = 0 -> [err |-> "ErrInsertZero"]
    [] v # 0 /\ leaves = <<>> -> [err |-> "ErrEmptyTree"]
    [] v # 0 /\ leaves # <<>> /\ members # {} ->
         BuildProof(leaves, nodes, "membership", v, IndexOf(leaves, v))
    [] v # 0 /\ leaves # <<>> /\ members = {} /\ LowLeafIndexes(leaves, v) = {} ->
         [err |-> "ErrLowLeafNotFound"]
    [] OTHER -> BuildProof(leaves, nodes, "nonmembership", v, LowLeafIndex(leaves, v))

\* Hash2 on the side the path bit says.
WalkStep(node, s) == IF s.right THEN Hash2(s.sibling, node) ELSE Hash2(node, s.sibling)

WalkPath(commitment, path) ==
  LET node[k \in 0..Len(path)] == IF k = 0 THEN commitment ELSE WalkStep(node[k - 1], path[k])
  IN  node[Len(path)]

\* Mutant: the upper end of the gap is not checked.
VerifyProofHalf(p) ==
  /\ p.root # Nil
  /\ \/ p.type = "membership" /\ p.leaf.value = p.value
     \/ p.type = "nonmembership" /\ p.leaf.value < p.value
  /\ WalkPath(Commit(p.leaf), p.path) = p.root

VerifyProof(p) ==
  /\ p.root # Nil
  /\ \/ p.type = "membership" /\ p.leaf.value = p.value
     \/ /\ p.type = "nonmembership"
        /\ p.leaf.value < p.value
        /\ p.leaf.next = 0 \/ p.leaf.next > p.value
  /\ WalkPath(Commit(p.leaf), p.path) = p.root
=============================================================================
