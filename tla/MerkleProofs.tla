---------------------------- MODULE MerkleProofs ----------------------------
(***************************************************************************)
(* Theorems about the levels of hashes above the leaves of LeanIMTPlus.    *)
(*                                                                         *)
(* MerkleConsistent speaks of the tree at rest.  The invariant says of     *)
(* every slot whether it is right (Good: the hash of its two children),    *)
(* except the ancestors of what the writer has still to recompute (Dirty), *)
(* and of the levels that are done that they have no gap (Full).           *)
(*                                                                         *)
(* From the tree at rest follow the proofs it gives: each verifies, no     *)
(* other does, and the same holds of what has been sent (ProofWire).  Then *)
(* comes the refinement of the abstract list, with an invariant on how far *)
(* the batch under way has come, and last CrlBuild: the tree of a CRL.     *)
(***************************************************************************)
EXTENDS LeanIMTPlusProofs, NaturalFacts, ProofWire, CrlBuild

\* Level l, from 0; empty above the top.
Row(ns, l) == IF l < Len(ns) THEN ns[l + 1] ELSE <<>>

\* Slot i of level l.
Node(ns, l, i) == SlotAt(Row(ns, l), i)

\* What HashNode makes of two slots.
Up(left, right) == IF right # Nil THEN Hash2(left, right) ELSE left

\* Slot i of level l is right, where level l - 1 is.
Good(ns, l, i) == Node(ns, l, i) = Up(Node(ns, l - 1, 2 * i), Node(ns, l - 1, 2 * i + 1))

\* Level l has a node above every leaf of n, and no other.
Full(ns, l, n) == \A i \in Nat : Node(ns, l, i) # Nil <=> i * 2^l < n

\* No level above the leaves ends in an empty slot.
Tight(ns) == \A l \in Nat \ {0} : Row(ns, l) # <<>> => Node(ns, l, Len(Row(ns, l)) - 1) # Nil

\* The levels of a tree of n leaves at rest.
Hashed(ns, n) ==
  /\ Len(ns) = TargetDepth(n) + 1 /\ Tight(ns)
  /\ \A l \in 0..TargetDepth(n) : Full(ns, l, n)
  /\ \A l \in 1..TargetDepth(n), i \in Nat : Good(ns, l, i)

\* The ancestors k levels up.
Dirty(k, S) == {m \div 2^k : m \in S}

\* In the value loop: the new leaves are modified ones, and above the others all is
\* right; a level that the tree has still to grow has no other leaves below slot 0.
LoopInv ==
  /\ Len(nodes) = TargetDepth(visible) + 1 /\ Tight(nodes) /\ visible <= Len(leaves)
  /\ modified \subseteq 0..(Len(leaves) - 1) /\ visible..(Len(leaves) - 1) \subseteq modified
  /\ modified # {} => visible < Len(leaves)
  /\ modified = {} => Hashed(nodes, Len(leaves))
  /\ \A l \in Nat \ {0}, i \in Nat :
       i \notin Dirty(l, modified) /\ (i # 0 \/ l <= TargetDepth(visible)) => Good(nodes, l, i)

\* In recomputeLocked: what is below `level` is right and without a gap, what is not is
\* an ancestor of a node that is still to be hashed.
RecomputeInv ==
  /\ Len(nodes) = TargetDepth(Len(leaves)) + 1 /\ Tight(nodes)
  /\ level \in 1..TargetDepth(Len(leaves))
  /\ \A i \in modified : i * 2^level < Len(leaves)
  /\ \A i \in parents : i * 2^(level + 1) < Len(leaves)
  /\ \A l \in 0..(level - 1) : Full(nodes, l, Len(leaves))
  /\ \A l \in 1..(level - 1), i \in Nat : Good(nodes, l, i)
  /\ \A l \in level..TargetDepth(Len(leaves)), i \in Nat :
       /\ i \notin Dirty(l - level, modified)
       /\ l > level => i \notin Dirty(l - level - 1, parents)
       => Good(nodes, l, i)

\* What holds of a batch and of the lists, damaged or not.
BatchInv ==
  /\ Len(leaves) # 1 /\ Len(saved.leaves) # 1
  /\ pc \in {"naive", "sorted"} => batch # <<>> /\ (pos > 1 => leaves # <<>>)
  /\ pc = "recompute" => leaves # <<>>
  /\ pc = "idle" => modified = {}

MerkleInv ==
  /\ BatchInv
  /\ saved.clean => Hashed(saved.nodes, Len(saved.leaves))
  /\ clean /\ pc = "idle" => Hashed(nodes, Len(leaves)) /\ visible = Len(leaves)
  /\ clean /\ pc \in {"naive", "sorted"} => LoopInv
  /\ clean /\ pc = "recompute" => RecomputeInv

-----------------------------------------------------------------------------
(* The depth of a tree.                                                    *)

\* bits.Len.
LEMMA BitsLenIs ==
  ASSUME NEW n \in Nat \ {0}
  PROVE  /\ BitsLen(n) \in Nat \ {0} /\ BitsLen(n) <= n
         /\ n < 2^BitsLen(n) /\ 2^(BitsLen(n) - 1) <= n
<1>1. PICK d \in Nat : d <= n /\ n < 2^d /\ (d # 0 => 2^(d - 1) <= n)
  BY FirstPower
<1>2. d # 0
  <2>1. d = 0 => 2^d = 1
    BY PowerZero
  <2> QED
    BY <1>1, <2>1
<1>3. {k \in 0..n : 2^k <= n} = 0..(d - 1)
  <2>1. ASSUME NEW k \in 0..n, 2^k <= n PROVE k \in 0..(d - 1)
    <3>1. k \in Nat /\ 2^k \in Nat /\ 2^d \in Nat
      BY PowerType
    <3>2. ~(d <= k)
      <4>1. d < k => 2^d < 2^k
        BY <3>1, PowerMonotone
      <4> QED
        BY <1>1, <2>1, <3>1, <4>1
    <3> QED
      BY <3>1, <3>2
  <2>2. ASSUME NEW k \in 0..(d - 1) PROVE k \in 0..n /\ 2^k <= n
    <3>1. k \in Nat /\ d - 1 \in Nat /\ 2^k \in Nat /\ 2^(d - 1) \in Nat /\ 2^(d - 1) <= n
      BY <1>1, <1>2, PowerType
    <3>2. k < d - 1 => 2^k < 2^(d - 1)
      BY <3>1, PowerMonotone
    <3> QED
      BY <1>1, <3>1, <3>2
  <2> QED
    BY <2>1, <2>2
<1>4. Cardinality(0..(d - 1)) = d
  <2>1. 0 \in Int /\ d - 1 \in Int
    OBVIOUS
  <2> QED
    BY <1>2, <2>1, FS_Interval
<1> QED
  BY <1>1, <1>2, <1>3, <1>4 DEF BitsLen

\* The depth is the least with room for the leaves.
LEMMA DepthIs ==
  ASSUME NEW n \in Nat
  PROVE  /\ TargetDepth(n) \in Nat /\ TargetDepth(n) <= n /\ n <= 2^TargetDepth(n)
         /\ n > 1 => TargetDepth(n) # 0 /\ 2^(TargetDepth(n) - 1) < n
<1>1. CASE n > 1
  <2>1. n - 1 \in Nat \ {0} /\ TargetDepth(n) = BitsLen(n - 1)
    BY <1>1 DEF TargetDepth
  <2>2. /\ BitsLen(n - 1) \in Nat \ {0} /\ BitsLen(n - 1) <= n - 1
        /\ n - 1 < 2^BitsLen(n - 1) /\ 2^(BitsLen(n - 1) - 1) <= n - 1
    BY <2>1, BitsLenIs
  <2>3. 2^BitsLen(n - 1) \in Nat /\ 2^(BitsLen(n - 1) - 1) \in Nat
    BY <2>2, PowerType
  <2> QED
    BY <2>1, <2>2, <2>3
<1>2. CASE ~(n > 1)
  BY <1>2, PowerZero DEF TargetDepth
<1> QED
  BY <1>1, <1>2

\* It is the only one.
LEMMA DepthUnique ==
  ASSUME NEW n \in Nat, n > 1, NEW d \in Nat \ {0}, n <= 2^d, 2^(d - 1) < n
  PROVE  TargetDepth(n) = d
<1> DEFINE t == TargetDepth(n)
<1>1. t \in Nat \ {0} /\ n <= 2^t /\ 2^(t - 1) < n
  BY DepthIs
<1> HIDE DEF t
<1>2. t - 1 \in Nat /\ d - 1 \in Nat
  BY <1>1
<1>3. 2^t \in Nat /\ 2^d \in Nat /\ 2^(t - 1) \in Nat /\ 2^(d - 1) \in Nat
  BY <1>1, <1>2, PowerType
<1>4. ~(t < d)
  <2>1. t < d - 1 => 2^t < 2^(d - 1)
    BY <1>1, <1>2, PowerMonotone
  <2>2. t = d - 1 => 2^t = 2^(d - 1)
    OBVIOUS
  <2> QED
    BY <1>1, <1>2, <1>3, <2>1, <2>2
<1>5. ~(d < t)
  <2>1. d < t - 1 => 2^d < 2^(t - 1)
    BY <1>1, <1>2, PowerMonotone
  <2>2. d = t - 1 => 2^d = 2^(t - 1)
    OBVIOUS
  <2> QED
    BY <1>1, <1>2, <1>3, <2>1, <2>2
<1>6. t = d
  BY <1>1, <1>4, <1>5
<1> QED
  BY <1>6 DEF t

\* More leaves, no less depth.
LEMMA DepthMonotone ==
  ASSUME NEW m \in Nat, NEW n \in Nat, m <= n
  PROVE  TargetDepth(m) <= TargetDepth(n)
<1> DEFINE a == TargetDepth(m)
           b == TargetDepth(n)
<1>1. a \in Nat /\ b \in Nat /\ n <= 2^b /\ (m > 1 => a # 0 /\ 2^(a - 1) < m)
  BY DepthIs
<1>2. m <= 1 => a = 0
  BY DEF TargetDepth
<1> HIDE DEF a, b
<1>3. CASE m > 1
  <2>1. a - 1 \in Nat /\ 2^(a - 1) \in Nat /\ 2^b \in Nat /\ 2^(a - 1) < 2^b
    <3>1. a - 1 \in Nat
      BY <1>1, <1>3
    <3>2. 2^(a - 1) \in Nat /\ 2^b \in Nat
      BY <1>1, <3>1, PowerType
    <3> QED
      BY <1>1, <1>3, <3>1, <3>2
  <2>2. b < a - 1 => 2^b < 2^(a - 1)
    BY <1>1, <2>1, PowerMonotone
  <2>3. b = a - 1 => 2^b = 2^(a - 1)
    OBVIOUS
  <2>4. a <= b
    BY <1>1, <2>1, <2>2, <2>3
  <2> QED
    BY <2>4 DEF a, b
<1>4. CASE m <= 1
  BY <1>1, <1>2, <1>4 DEF a, b
<1> QED
  BY <1>3, <1>4

-----------------------------------------------------------------------------
(* Rows and slots.                                                         *)

\* A level of the tree is a row.
LEMMA RowType ==
  ASSUME NEW ns, Levels(ns), NEW l \in Nat
  PROVE  IsRow(Row(ns, l)) /\ Len(Row(ns, l)) \in Nat /\ Len(ns) \in Nat \ {0} /\ DOMAIN ns = 1..Len(ns)
<1>1. Len(ns) \in Nat \ {0} /\ DOMAIN ns = 1..Len(ns)
  BY DEF Levels
<1>2. IsRow(<<>>)
  BY DEF IsRow
<1>3. l < Len(ns) => l + 1 \in DOMAIN ns
  BY <1>1
<1>4. IsRow(Row(ns, l))
  BY <1>2, <1>3 DEF Row, Levels
<1> QED
  BY <1>1, <1>4, RowDomain

\* There is nothing above the top.
LEMMA NoNodeAbove ==
  ASSUME NEW ns, Levels(ns), NEW l \in Nat, l >= Len(ns), NEW i \in Nat
  PROVE  Node(ns, l, i) = Nil
<1>1. Len(ns) \in Nat
  BY RowType
<1>2. Row(ns, l) = <<>>
  BY <1>1 DEF Row
<1> QED
  BY <1>2 DEF Node, SlotAt

\* The slots of a row in which h has been stored.
LEMMA StoreAtIs ==
  ASSUME NEW row, IsRow(row), NEW i \in Nat, NEW h
  PROVE  /\ Len(StoreAt(row, i, h)) = IF Len(row) > i THEN Len(row) ELSE i + 1
         /\ \A j \in Nat : SlotAt(StoreAt(row, i, h), j) = IF j = i THEN h ELSE SlotAt(row, j)
<1> DEFINE new == StoreAt(row, i, h)
           n == IF Len(row) > i THEN Len(row) ELSE i + 1
<1>1. Len(row) \in Nat /\ n \in Nat
  BY RowDomain
<1>2. new = [j \in 1..n |-> IF j = i + 1 THEN h ELSE IF j <= Len(row) THEN row[j] ELSE Nil]
  BY DEF StoreAt
<1>3. Len(new) = n
  BY <1>1, <1>2
<1>4. ASSUME NEW j \in Nat PROVE SlotAt(new, j) = IF j = i THEN h ELSE SlotAt(row, j)
  <2>1. CASE j < n
    <3>1. j + 1 \in 1..n
      BY <1>1, <2>1
    <3>2. new[j + 1] = IF j = i THEN h ELSE IF j + 1 <= Len(row) THEN row[j + 1] ELSE Nil
      BY <1>2, <3>1
    <3> QED
      BY <1>1, <1>3, <2>1, <3>2 DEF SlotAt
  <2>2. CASE ~(j < n)
    <3>1. ~(j < Len(row)) /\ j # i
      BY <1>1, <2>2
    <3> QED
      BY <1>3, <2>2, <3>1 DEF SlotAt
  <2> QED
    BY <2>1, <2>2
<1> QED
  BY <1>3, <1>4

\* The levels with one of them replaced.
Replaced(ns, l, row) == [ns EXCEPT ![l + 1] = row]

\* The others stay.
LEMMA RowReplaced ==
  ASSUME NEW ns, Levels(ns), NEW l \in Nat, l < Len(ns), NEW row
  PROVE  /\ Len(Replaced(ns, l, row)) = Len(ns) /\ Row(Replaced(ns, l, row), l) = row
         /\ \A k \in Nat \ {l} : Row(Replaced(ns, l, row), k) = Row(ns, k)
<1> DEFINE new == Replaced(ns, l, row)
<1>1. Len(ns) \in Nat /\ DOMAIN ns = 1..Len(ns) /\ ns = [j \in 1..Len(ns) |-> ns[j]]
  BY DEF Levels
<1>2. new = [j \in 1..Len(ns) |-> IF j = l + 1 THEN row ELSE ns[j]]
  BY <1>1 DEF Replaced
<1> HIDE DEF new
<1>3. Len(new) = Len(ns)
  BY <1>1, <1>2
<1>4. new[l + 1] = row
  BY <1>1, <1>2
<1>5. ASSUME NEW k \in Nat \ {l} PROVE Row(new, k) = Row(ns, k)
  <2>1. CASE k < Len(ns)
    <3>1. new[k + 1] = ns[k + 1]
      BY <1>1, <1>2, <2>1
    <3> QED
      BY <1>3, <3>1 DEF Row
  <2>2. CASE ~(k < Len(ns))
    BY <1>3, <2>2 DEF Row
  <2> QED
    BY <2>1, <2>2
<1>6. Row(new, l) = row
  BY <1>3, <1>4 DEF Row
<1> QED
  BY <1>3, <1>5, <1>6 DEF new

\* Growing the tree adds empty levels.
LEMMA RowGrown ==
  ASSUME Levels(nodes), NEW d \in Nat, TargetDepth(Len(nodes[1])) = d
  PROVE  /\ Len(Grown) = IF Len(nodes) > d + 1 THEN Len(nodes) ELSE d + 1
         /\ \A l \in Nat : Row(Grown, l) = Row(nodes, l)
<1> DEFINE n == IF Len(nodes) > d + 1 THEN Len(nodes) ELSE d + 1
<1>1. Len(nodes) \in Nat /\ n \in Nat
  BY DEF Levels
<1>2. Grown = [l \in 1..n |-> IF l <= Len(nodes) THEN nodes[l] ELSE <<>>]
  BY DEF Grown
<1>3. Len(Grown) = n
  BY <1>1, <1>2
<1>4. ASSUME NEW l \in Nat PROVE Row(Grown, l) = Row(nodes, l)
  <2>1. CASE l < Len(nodes)
    <3>1. l + 1 \in 1..n /\ l + 1 <= Len(nodes) /\ l < n
      BY <1>1, <2>1
    <3> QED
      BY <1>2, <1>3, <2>1, <3>1 DEF Row
  <2>2. CASE ~(l < Len(nodes))
    <3>1. l < n => l + 1 \in 1..n /\ ~(l + 1 <= Len(nodes))
      BY <1>1, <2>2
    <3> QED
      BY <1>2, <1>3, <2>2, <3>1 DEF Row
  <2> QED
    BY <2>1, <2>2
<1> QED
  BY <1>3, <1>4

-----------------------------------------------------------------------------
(* What is right.                                                          *)

\* A level is right where the levels it is made of have not changed.
LEMMA GoodStays ==
  ASSUME NEW ns, NEW new, NEW l, NEW i, Good(ns, l, i),
         Node(new, l, i) = Node(ns, l, i),
         Node(new, l - 1, 2 * i) = Node(ns, l - 1, 2 * i),
         Node(new, l - 1, 2 * i + 1) = Node(ns, l - 1, 2 * i + 1)
  PROVE  Good(new, l, i)
  BY DEF Good

\* Where level 0 changes in slots of T only, all but the ancestors of T stays right.
LEMMA GoodElsewhere ==
  ASSUME NEW ns, NEW new, NEW T \in SUBSET Nat,
         \A l \in Nat \ {0} : Row(new, l) = Row(ns, l),
         \A j \in Nat \ T : Node(new, 0, j) = Node(ns, 0, j),
         NEW l \in Nat \ {0}, NEW i \in Nat, i \notin Dirty(l, T), Good(ns, l, i)
  PROVE  Good(new, l, i)
<1>1. Node(new, l, i) = Node(ns, l, i)
  BY DEF Node
<1>2. CASE l = 1
  <2>1. ASSUME NEW j \in {2 * i, 2 * i + 1} PROVE Node(new, l - 1, j) = Node(ns, l - 1, j)
    <3>1. j \in Nat /\ j \div 2 = i
      OBVIOUS
    <3>2. 2^l = 2
      BY <1>2
    <3>3. j \notin T
      BY <3>1, <3>2 DEF Dirty
    <3> QED
      BY <1>2, <3>1, <3>3
  <2> QED
    BY <1>1, <2>1, GoodStays
<1>3. CASE l # 1
  <2>1. l - 1 \in Nat \ {0}
    BY <1>3
  <2> QED
    BY <1>1, <2>1, GoodStays DEF Node
<1> QED
  BY <1>2, <1>3

\* A level above a full one is full where it is right.
LEMMA FullAbove ==
  ASSUME NEW ns, NEW l \in Nat, NEW n \in Nat, Full(ns, l, n), \A i \in Nat : Good(ns, l + 1, i)
  PROVE  Full(ns, l + 1, n)
<1> SUFFICES ASSUME NEW i \in Nat PROVE Node(ns, l + 1, i) # Nil <=> i * 2^(l + 1) < n
  BY DEF Full
<1>1. PICK p \in Nat : p = 2^l /\ 2^(l + 1) = 2 * p
  BY PowerType, PowerStep
<1>2. 2 * i \in Nat /\ 2 * i + 1 \in Nat /\ (l + 1) - 1 = l
  OBVIOUS
<1>3. (Node(ns, l, 2 * i) # Nil <=> (2 * i) * p < n) /\ (Node(ns, l, 2 * i + 1) # Nil <=> (2 * i + 1) * p < n)
  BY <1>1, <1>2 DEF Full
<1>4. (2 * i) * p = i * (2 * p) /\ ((2 * i + 1) * p < n => (2 * i) * p < n)
  OBVIOUS
<1>5. Node(ns, l + 1, i) = Up(Node(ns, l, 2 * i), Node(ns, l, 2 * i + 1))
  BY <1>2 DEF Good
<1>6. \A a, b : Hash2(a, b) # Nil
  BY DEF Hash2, Nil
<1>7. Node(ns, l + 1, i) # Nil <=> Node(ns, l, 2 * i) # Nil \/ Node(ns, l, 2 * i + 1) # Nil
  BY <1>5, <1>6 DEF Up
<1> QED
  BY <1>1, <1>3, <1>4, <1>7

\* Of a tree at rest everything is right that the tree has, and what it has not grown to.
LEMMA RestIsGood ==
  ASSUME NEW ns, Levels(ns), NEW n \in Nat, Hashed(ns, n), NEW l \in Nat \ {0}, NEW i \in Nat,
         i # 0 \/ l <= TargetDepth(n)
  PROVE  Good(ns, l, i)
<1> DEFINE d == TargetDepth(n)
<1>1. d \in Nat /\ n <= 2^d /\ Len(ns) = d + 1
  BY DepthIs DEF Hashed
<1>2. CASE l <= d
  <2>1. l \in 1..d
    BY <1>1, <1>2
  <2> QED
    BY <2>1 DEF Hashed
<1>3. CASE ~(l <= d)
  <2>1. i # 0
    BY <1>3
  <2>2. ASSUME NEW j \in {2 * i, 2 * i + 1} PROVE Node(ns, l - 1, j) = Nil
    <3>1. CASE l - 1 = d
      <4>1. Full(ns, d, n) /\ j \in Nat /\ j >= 2
        BY <1>1, <2>1 DEF Hashed
      <4>2. ~(j * 2^d < n)
        <5>1. PICK q \in Nat : q = 2^d
          BY <1>1, PowerType
        <5>2. j * q >= 1 * q
          BY <4>1
        <5> QED
          BY <1>1, <4>1, <5>1, <5>2
      <4> QED
        BY <3>1, <4>1, <4>2 DEF Full
    <3>2. CASE l - 1 # d
      <4>1. l - 1 \in Nat /\ l - 1 >= Len(ns) /\ j \in Nat
        BY <1>1, <1>3, <3>2
      <4> QED
        BY <4>1, NoNodeAbove
    <3> QED
      BY <3>1, <3>2
  <2>3. Node(ns, l, i) = Nil
    BY <1>1, <1>3, NoNodeAbove
  <2> QED
    BY <2>2, <2>3 DEF Good, Up
<1> QED
  BY <1>2, <1>3

-----------------------------------------------------------------------------
(* recomputeLocked.                                                        *)

\* What the steps of the recomputation have in common.
LEMMA RecomputeFacts ==
  ASSUME TreeInv, RecomputeInv
  PROVE  /\ Levels(nodes) /\ Len(leaves) \in Nat /\ Len(nodes[1]) = Len(leaves)
         /\ TargetDepth(Len(leaves)) \in Nat /\ level \in Nat \ {0} /\ level - 1 \in Nat /\ level < Len(nodes)
         /\ modified \subseteq Nat /\ parents \subseteq Nat
<1>1. Levels(nodes) /\ Len(leaves) \in Nat /\ Len(nodes[1]) = Len(leaves)
  BY DEF TreeInv, TypeOK, Paired
<1>2. TargetDepth(Len(leaves)) \in Nat
  BY <1>1, TargetDepthType
<1> QED
  BY <1>1, <1>2 DEF RecomputeInv, TreeInv, TypeOK

\* The slots HashNode reads are those of the level below.
LEMMA ChildrenAre ==
  ASSUME TreeInv, RecomputeInv, NEW i \in Nat
  PROVE  Left(i) = Node(nodes, level - 1, 2 * i) /\ Right(i) = Node(nodes, level - 1, 2 * i + 1)
<1>1. Levels(nodes) /\ level - 1 \in Nat /\ level < Len(nodes) /\ level \in Nat
  BY RecomputeFacts
<1>2. Len(nodes) \in Nat
  BY <1>1, RowType
<1>3. Row(nodes, level - 1) = nodes[level]
  BY <1>1, <1>2 DEF Row
<1> QED
  BY <1>3 DEF Left, Right, Node

\* A node that is hashed has a left child.
LEMMA LeftPresent ==
  ASSUME TreeInv, RecomputeInv, NEW i \in modified
  PROVE  Left(i) # Nil
<1>1. i \in Nat /\ level - 1 \in Nat /\ level \in Nat \ {0} /\ Len(leaves) \in Nat
  BY RecomputeFacts
<1>2. PICK p \in Nat : p = 2^(level - 1)
  BY <1>1, PowerType
<1>3. 2^level = 2 * p
  <2>1. (level - 1) + 1 = level
    BY <1>1
  <2> QED
    BY <1>1, <1>2, <2>1, PowerStep
<1>4. i * (2 * p) < Len(leaves)
  BY <1>3 DEF RecomputeInv
<1>5. (2 * i) * p = i * (2 * p) /\ 2 * i \in Nat
  BY <1>1
<1>6. Full(nodes, level - 1, Len(leaves))
  BY <1>1 DEF RecomputeInv
<1>7. Node(nodes, level - 1, 2 * i) # Nil
  BY <1>2, <1>4, <1>5, <1>6 DEF Full
<1> QED
  BY <1>1, <1>7, ChildrenAre

\* Ancestors are numbers; a node is its own ancestor zero levels up, its parent the one
\* of one level, and so on.
LEMMA DirtyParent ==
  ASSUME NEW i \in Nat, NEW k \in Nat, NEW S \in SUBSET Nat, i \in S
  PROVE  /\ Parent(i) \in Nat /\ i \div 2^(k + 1) = Parent(i) \div 2^k
         /\ i \div 2^k \in Dirty(k, S) /\ i \in Dirty(0, S)
<1>1. i \div 2^(k + 1) = (i \div 2) \div 2^k
  BY AncestorStep
<1>2. 2^0 = 1 /\ i \div 1 = i
  BY PowerZero
<1> QED
  BY <1>1, <1>2 DEF Parent, Dirty

\* Hashing a node makes it right, and leaves its parent to be hashed.
LEMMA HashNodeRecompute ==
  ASSUME TreeInv, RecomputeInv, NEW i \in modified, HashNode(i)
  PROVE  RecomputeInv'
<1> DEFINE h   == IF Right(i) # Nil THEN Hash2(Left(i), Right(i)) ELSE Left(i)
           stored == StoreAt(nodes[level + 1], i, h)
           d   == TargetDepth(Len(leaves))
<1>1. /\ Levels(nodes) /\ Len(leaves) \in Nat /\ d \in Nat /\ level \in Nat \ {0} /\ level - 1 \in Nat
      /\ level < Len(nodes) /\ i \in Nat /\ modified \subseteq Nat /\ parents \subseteq Nat
  BY RecomputeFacts
<1>2. /\ nodes' = Replaced(nodes, level, stored)
      /\ modified' = modified \ {i} /\ parents' = parents \cup {Parent(i)}
      /\ UNCHANGED <<leaves, pc, batch, pos, level, err, visible, clean, saved>>
  BY DEF HashNode, Replaced
<1>3. Row(nodes, level) = nodes[level + 1]
  BY <1>1 DEF Row
<1> HIDE DEF h, stored
<1>4. /\ Len(nodes') = Len(nodes) /\ Row(nodes', level) = stored
      /\ \A k \in Nat \ {level} : Row(nodes', k) = Row(nodes, k)
  BY <1>1, <1>2, RowReplaced
<1>5. IsRow(Row(nodes, level)) /\ Len(Row(nodes, level)) \in Nat
  BY <1>1, RowType
<1>6. /\ Len(stored) = IF Len(Row(nodes, level)) > i THEN Len(Row(nodes, level)) ELSE i + 1
      /\ \A j \in Nat : SlotAt(stored, j) = IF j = i THEN h ELSE Node(nodes, level, j)
  BY <1>1, <1>3, <1>5, StoreAtIs DEF Node, stored
<1>7. h # Nil /\ h = Up(Node(nodes, level - 1, 2 * i), Node(nodes, level - 1, 2 * i + 1))
  <2>1. Left(i) # Nil /\ \A a, b : Hash2(a, b) # Nil
    BY LeftPresent DEF Hash2, Nil
  <2> QED
    BY <1>1, <2>1, ChildrenAre DEF Up, h
<1>8. \A j \in Nat : Node(nodes', level, j) = IF j = i THEN h ELSE Node(nodes, level, j)
  BY <1>4, <1>6 DEF Node
<1>9. \A k \in Nat \ {level}, j \in Nat : Node(nodes', k, j) = Node(nodes, k, j)
  BY <1>4 DEF Node
<1>10. Tight(nodes')
  <2>1. ASSUME NEW l \in Nat \ {0}, Row(nodes', l) # <<>>
        PROVE  Node(nodes', l, Len(Row(nodes', l)) - 1) # Nil
    <3>1. CASE l # level
      BY <1>4, <2>1, <3>1 DEF RecomputeInv, Tight, Node
    <3>2. CASE l = level
      <4>1. CASE Len(Row(nodes, level)) > i
        <5>1. Len(stored) = Len(Row(nodes, level)) /\ Len(stored) - 1 \in Nat /\ Row(nodes, level) # <<>>
          BY <1>1, <1>5, <1>6, <4>1
        <5>2. Node(nodes, level, Len(stored) - 1) # Nil
          BY <1>1, <5>1 DEF RecomputeInv, Tight
        <5> QED
          BY <1>4, <1>7, <1>8, <3>2, <5>1, <5>2
      <4>2. CASE ~(Len(Row(nodes, level)) > i)
        <5>1. Len(stored) - 1 = i
          BY <1>1, <1>6, <4>2
        <5> QED
          BY <1>1, <1>4, <1>7, <1>8, <3>2, <5>1
      <4> QED
        BY <4>1, <4>2
    <3> QED
      BY <3>1, <3>2
  <2> QED
    BY <2>1 DEF Tight
<1>11. \A j \in parents' : j * 2^(level + 1) < Len(leaves)
  <2>1. PICK p \in Nat : p = 2^level /\ 2^(level + 1) = 2 * p
    BY <1>1, PowerType, PowerStep
  <2>2. i * p < Len(leaves)
    BY <2>1 DEF RecomputeInv
  <2>3. Parent(i) * (2 * p) <= i * p
    <3>1. PICK q \in Nat : q = Parent(i) /\ 2 * q <= i
      BY <1>1 DEF Parent
    <3>2. q * (2 * p) = (2 * q) * p /\ (2 * q) * p <= i * p
      BY <1>1, <3>1
    <3> QED
      BY <3>1, <3>2
  <2>4. Parent(i) * (2 * p) \in Nat /\ i * p \in Nat
    BY <1>1 DEF Parent
  <2>5. Parent(i) * 2^(level + 1) < Len(leaves)
    BY <1>1, <2>1, <2>2, <2>3, <2>4
  <2> QED
    BY <1>2, <2>5 DEF RecomputeInv
<1>12. \A l \in 0..(level - 1) : Full(nodes', l, Len(leaves))
  <2>1. \A l \in 0..(level - 1) : l \in Nat \ {level}
    BY <1>1
  <2> QED
    BY <1>9, <2>1 DEF RecomputeInv, Full
<1>13. \A l \in 1..(level - 1), j \in Nat : Good(nodes', l, j)
  <2>1. \A l \in 1..(level - 1) : l \in Nat \ {level} /\ l - 1 \in Nat \ {level}
    BY <1>1
  <2>2. \A j \in Nat : 2 * j \in Nat /\ 2 * j + 1 \in Nat
    OBVIOUS
  <2> QED
    BY <1>9, <2>1, <2>2 DEF RecomputeInv, Good
<1>14. ASSUME NEW l \in level..d, NEW j \in Nat,
              j \notin Dirty(l - level, modified'), l > level => j \notin Dirty(l - level - 1, parents')
       PROVE  Good(nodes', l, j)
  <2>0. l \in Nat /\ l - level \in Nat /\ 2 * j \in Nat /\ 2 * j + 1 \in Nat
    BY <1>1
  <2>1. CASE l = level /\ j = i
    <3>1. l - 1 \in Nat \ {level}
      BY <1>1, <2>1
    <3> QED
      BY <1>1, <1>7, <1>8, <1>9, <2>0, <2>1, <3>1 DEF Good
  <2>2. CASE ~(l = level /\ j = i)
    <3>1. j \notin Dirty(l - level, modified)
      <4>1. Dirty(l - level, modified) \subseteq Dirty(l - level, modified') \cup {i \div 2^(l - level)}
        BY <1>2 DEF Dirty
      <4>2. j # i \div 2^(l - level)
        <5>1. CASE l = level
          <6>1. 2^(l - level) = 1 /\ i \div 1 = i
            BY <1>1, <5>1, PowerZero
          <6> QED
            BY <2>2, <5>1, <6>1
        <5>2. CASE l # level
          <6>1. l - level - 1 \in Nat /\ (l - level - 1) + 1 = l - level /\ l > level
            BY <1>1, <2>0, <5>2
          <6>2. i \div 2^(l - level) = Parent(i) \div 2^(l - level - 1)
            BY <1>1, <6>1, DirtyParent
          <6>3. Parent(i) \div 2^(l - level - 1) \in Dirty(l - level - 1, parents')
            BY <1>2 DEF Dirty
          <6> QED
            BY <1>14, <6>1, <6>2, <6>3
        <5> QED
          BY <5>1, <5>2
      <4> QED
        BY <1>14, <4>1, <4>2
    <3>2. l > level => j \notin Dirty(l - level - 1, parents)
      BY <1>2, <1>14 DEF Dirty
    <3>3. Good(nodes, l, j)
      BY <3>1, <3>2 DEF RecomputeInv
    <3>4. Node(nodes', l, j) = Node(nodes, l, j)
      BY <1>8, <1>9, <2>0, <2>2
    <3>5. CASE l = level + 1
      <4>1. 2 * j # i /\ 2 * j + 1 # i
        <5>1. l > level /\ l - level - 1 = 0 /\ Parent(i) \in parents'
          BY <1>1, <1>2, <3>5
        <5>2. Parent(i) \in Dirty(0, parents')
          <6>1. Parent(i) \in Nat /\ parents' \subseteq Nat
            BY <1>1, <1>2 DEF Parent
          <6> QED
            BY <5>1, <6>1, DirtyParent
        <5>3. j # Parent(i)
          BY <1>14, <5>1, <5>2
        <5> QED
          BY <1>1, <5>3 DEF Parent
      <4>2. l - 1 = level
        BY <1>1, <3>5
      <4> QED
        BY <1>8, <2>0, <3>3, <3>4, <4>1, <4>2, GoodStays
    <3>6. CASE l # level + 1
      <4>1. l - 1 \in Nat \ {level}
        BY <1>1, <2>0, <3>6
      <4> QED
        BY <1>9, <2>0, <3>3, <3>4, <4>1, GoodStays
    <3> QED
      BY <3>5, <3>6
  <2> QED
    BY <2>1, <2>2
<1>15. \A j \in modified' : j * 2^level < Len(leaves)
  BY <1>2 DEF RecomputeInv
<1> QED
  BY <1>2, <1>4, <1>10, <1>11, <1>12, <1>13, <1>14, <1>15 DEF RecomputeInv

\* A level that is done is full.
LEMMA LevelDone ==
  ASSUME TreeInv, RecomputeInv, modified = {}
  PROVE  /\ \A i \in Nat : Good(nodes, level, i)
         /\ Full(nodes, level, Len(leaves))
<1>1. /\ level \in Nat \ {0} /\ level - 1 \in Nat /\ Len(leaves) \in Nat /\ TargetDepth(Len(leaves)) \in Nat
      /\ level \in level..TargetDepth(Len(leaves))
  BY RecomputeFacts DEF RecomputeInv
<1>2. ASSUME NEW i \in Nat PROVE Good(nodes, level, i)
  <2>1. i \notin Dirty(level - level, modified) /\ ~(level > level)
    BY <1>1 DEF Dirty
  <2> QED
    BY <1>1, <2>1 DEF RecomputeInv
<1>3. Full(nodes, level - 1, Len(leaves)) /\ (level - 1) + 1 = level
  BY <1>1 DEF RecomputeInv
<1>4. Full(nodes, level, Len(leaves))
  <2>1. PICK k \in Nat : k = level - 1
    BY <1>1
  <2>2. k + 1 = level
    BY <1>3, <2>1
  <2> QED
    BY <1>1, <1>2, <1>3, <2>1, <2>2, FullAbove
<1> QED
  BY <1>2, <1>4

\* The next level: what is left to hash there is what the level below has left.
LEMMA NextLevelRecompute ==
  ASSUME TreeInv, RecomputeInv, NextLevel
  PROVE  RecomputeInv'
<1> DEFINE d == TargetDepth(Len(leaves))
<1>1. /\ Len(leaves) \in Nat /\ d \in Nat /\ level \in Nat \ {0} /\ Len(nodes[1]) = Len(leaves)
      /\ modified \subseteq Nat /\ parents \subseteq Nat
  BY RecomputeFacts
<1>2. /\ modified = {} /\ level < d /\ level' = level + 1 /\ modified' = parents /\ parents' = {}
      /\ UNCHANGED <<leaves, nodes>>
  BY <1>1 DEF NextLevel, Tree
<1>3. (\A i \in Nat : Good(nodes, level, i)) /\ Full(nodes, level, Len(leaves))
  BY <1>2, LevelDone
<1>4. level' \in 1..d
  BY <1>1, <1>2
<1>5. \A l \in 0..(level' - 1) : Full(nodes, l, Len(leaves))
  <2>1. \A l \in 0..(level' - 1) : l = level \/ l \in 0..(level - 1)
    BY <1>1, <1>2
  <2> QED
    BY <1>3, <2>1 DEF RecomputeInv
<1>6. \A l \in 1..(level' - 1), i \in Nat : Good(nodes, l, i)
  <2>1. \A l \in 1..(level' - 1) : l = level \/ l \in 1..(level - 1)
    BY <1>1, <1>2
  <2> QED
    BY <1>3, <2>1 DEF RecomputeInv
<1>7. ASSUME NEW l \in level'..d, NEW i \in Nat, i \notin Dirty(l - level', modified')
      PROVE  Good(nodes, l, i)
  <2>1. l \in level..d /\ l > level /\ l - level' = l - level - 1
    BY <1>1, <1>2
  <2>2. i \notin Dirty(l - level, modified) /\ i \notin Dirty(l - level - 1, parents)
    BY <1>2, <1>7, <2>1 DEF Dirty
  <2> QED
    BY <2>1, <2>2 DEF RecomputeInv
<1>8. \A i \in modified' : i * 2^level' < Len(leaves)
  BY <1>2 DEF RecomputeInv
<1>9. Len(nodes) = d + 1 /\ Tight(nodes)
  BY DEF RecomputeInv
<1> HIDE DEF d
<1>10. /\ Len(nodes') = d' + 1 /\ Tight(nodes') /\ level' \in 1..d'
       /\ \A i \in parents' : i * 2^(level' + 1) < Len(leaves')
  BY <1>2, <1>4, <1>9 DEF d
<1>11. d' = d
  BY <1>2 DEF d
<1> QED
  BY <1>2, <1>5, <1>6, <1>7, <1>8, <1>10, <1>11 DEF RecomputeInv, d

\* After the last level the tree is at rest.
LEMMA RecomputeEnds ==
  ASSUME TreeInv, RecomputeInv, EndRecompute
  PROVE  Hashed(nodes, Len(leaves))
<1> DEFINE d == TargetDepth(Len(leaves))
<1>1. Len(leaves) \in Nat /\ d \in Nat /\ level \in Nat \ {0} /\ Len(nodes[1]) = Len(leaves)
  BY RecomputeFacts
<1>2. modified = {} /\ level = d
  BY <1>1 DEF EndRecompute, RecomputeInv
<1>3. (\A i \in Nat : Good(nodes, level, i)) /\ Full(nodes, level, Len(leaves))
  BY <1>2, LevelDone
<1>4. \A l \in 0..d : l = level \/ l \in 0..(level - 1)
  BY <1>1, <1>2
<1>5. \A l \in 1..d : l = level \/ l \in 1..(level - 1)
  BY <1>1, <1>2
<1> QED
  BY <1>3, <1>4, <1>5 DEF RecomputeInv, Hashed

\* The slots of level 0.
LEMMA LevelZeroIs ==
  ASSUME NEW ls \in Seq(Leaf), NEW ns, Levels(ns), Paired(ls, ns)
  PROVE  /\ Row(ns, 0) = ns[1] /\ Len(ns[1]) = Len(ls) /\ Len(ls) \in Nat
         /\ \A j \in Nat : Node(ns, 0, j) = IF j < Len(ls) THEN ns[1][j + 1] ELSE Nil
         /\ (\A i \in DOMAIN ls : ns[1][i] # Nil) => Full(ns, 0, Len(ls))
<1>1. Row(ns, 0) = ns[1] /\ Len(ns[1]) = Len(ls) /\ Len(ls) \in Nat /\ DOMAIN ls = 1..Len(ls)
  BY RowType DEF Row, Paired
<1>2. \A j \in Nat : Node(ns, 0, j) = IF j < Len(ls) THEN ns[1][j + 1] ELSE Nil
  BY <1>1 DEF Node, SlotAt
<1>3. ASSUME \A i \in DOMAIN ls : ns[1][i] # Nil PROVE Full(ns, 0, Len(ls))
  <2>1. ASSUME NEW j \in Nat PROVE Node(ns, 0, j) # Nil <=> j * 2^0 < Len(ls)
    <3>1. j * 2^0 = j
      BY PowerZero
    <3>2. j < Len(ls) => j + 1 \in DOMAIN ls
      BY <1>1
    <3> QED
      BY <1>2, <1>3, <3>1, <3>2
  <2> QED
    BY <2>1 DEF Full
<1> QED
  BY <1>1, <1>2, <1>3

\* The recomputation begins with the ancestors of what the loop has modified; they
\* include the roots of all levels that are new.
LEMMA BeginRecomputeRecompute ==
  ASSUME TreeInv, TreeInv', LoopInv, BatchInv, clean, BeginRecompute
  PROVE  RecomputeInv'
<1> DEFINE n == Len(leaves)
           d == TargetDepth(n)
           v == TargetDepth(visible)
<1>1. /\ leaves \in Seq(Leaf) /\ Levels(nodes) /\ Paired(leaves, nodes) /\ n \in Nat /\ visible \in Nat
      /\ Len(nodes[1]) = n /\ modified \subseteq Nat /\ batch \in Seq(Nat) /\ pos \in Nat
  BY DEF TreeInv, TypeOK, Paired
<1>2. /\ pc \in {"naive", "sorted"} /\ pos > Len(batch)
      /\ nodes' = IF TailUnhashed THEN [Grown EXCEPT ![1][n] = Commit(leaves[n])] ELSE Grown
      /\ pc' = "recompute" /\ level' = 1 /\ modified' = {Parent(i) : i \in modified} /\ parents' = {}
      /\ UNCHANGED <<leaves, batch, pos, err, visible, clean, saved>>
  BY DEF BeginRecompute
<1>3. n > 1
  <2>1. Len(batch) # 0 /\ Len(batch) \in Nat
    BY <1>1, <1>2 DEF BatchInv
  <2>2. leaves # <<>> /\ n # 1
    BY <1>1, <1>2, <2>1 DEF BatchInv
  <2>3. n # 0
    BY <1>1, <2>2, EmptySeq
  <2>4. n \in Nat
    BY <1>1
  <2> HIDE DEF n
  <2> QED
    BY <2>2, <2>3, <2>4
<1>4. d \in Nat \ {0} /\ v \in Nat /\ v <= d /\ visible <= 2^v /\ visible <= n
  <2>1. visible <= n
    BY DEF LoopInv
  <2> QED
    BY <1>1, <1>3, <2>1, DepthIs, DepthMonotone
<1>5. Len(Grown) = d + 1 /\ (\A l \in Nat : Row(Grown, l) = Row(nodes, l)) /\ Levels(Grown) /\ Grown[1] = nodes[1]
  <2>1. Len(nodes) = v + 1
    BY DEF LoopInv
  <2>2. TargetDepth(Len(nodes[1])) = d
    BY <1>1
  <2> QED
    BY <1>1, <1>4, <2>1, <2>2, RowGrown, LevelsGrown
<1>6. Levels(nodes') /\ Paired(leaves, nodes') /\ \A i \in DOMAIN leaves : nodes'[1][i] # Nil
  BY <1>2 DEF TreeInv, TypeOK, Paired, Committed
<1> HIDE DEF d, v, n
<1>7. /\ Len(nodes') = d + 1
      /\ \A l \in Nat \ {0} : Row(nodes', l) = Row(nodes, l)
      /\ \A j \in 1..n : j - 1 \notin modified => nodes'[1][j] = nodes[1][j]
  <2>1. CASE ~TailUnhashed
    BY <1>2, <1>5, <2>1
  <2>2. CASE TailUnhashed
    <3> DEFINE top == [nodes[1] EXCEPT ![n] = Commit(leaves[n])]
    <3>1. nodes' = Replaced(Grown, 0, top)
      BY <1>2, <1>5, <2>2 DEF Replaced
    <3>2. n - 1 \in modified
      <4>1. nodes[1][n] = Nil /\ n \in DOMAIN leaves
        BY <1>1, <1>3, <2>2 DEF TailUnhashed, n
      <4>2. modified # {}
        BY <4>1 DEF TreeInv, Committed
      <4>3. visible < n
        BY <4>2 DEF LoopInv, n
      <4>4. n - 1 \in visible..(n - 1)
        BY <1>1, <1>3, <4>3
      <4> QED
        BY <4>4 DEF LoopInv, n
    <3>3. \A j \in 1..n : j # n => top[j] = nodes[1][j]
      OBVIOUS
    <3> HIDE DEF top
    <3>4. 0 \in Nat /\ 0 < Len(Grown)
      BY <1>4, <1>5
    <3>5. /\ Len(nodes') = Len(Grown) /\ Row(nodes', 0) = top
          /\ \A l \in Nat \ {0} : Row(nodes', l) = Row(Grown, l)
      BY <1>5, <3>1, <3>4, RowReplaced
    <3>6. nodes'[1] = top
      BY <1>1, <1>6, <3>5, LevelZeroIs
    <3>7. ASSUME NEW j \in 1..n, j - 1 \notin modified PROVE nodes'[1][j] = nodes[1][j]
      <4>1. j # n
        BY <3>2, <3>7
      <4> QED
        BY <3>3, <3>6, <4>1
    <3>8. \A l \in Nat \ {0} : Row(nodes', l) = Row(nodes, l)
      BY <1>5, <3>5
    <3> QED
      BY <1>5, <3>5, <3>7, <3>8
  <2> QED
    BY <2>1, <2>2
<1>8. Tight(nodes')
  BY <1>7 DEF LoopInv, Tight, Node
<1>9. \A i \in modified' : i * 2^level' < n
  <2>1. ASSUME NEW i \in modified PROVE Parent(i) * 2^1 < n
    <3>1. i \in Nat /\ i < n
      BY <1>1 DEF LoopInv, n
    <3>2. 2 * Parent(i) <= i /\ Parent(i) \in Nat
      BY <3>1 DEF Parent
    <3>3. 2^1 = 2
      OBVIOUS
    <3> QED
      BY <1>1, <3>1, <3>2, <3>3
  <2> QED
    BY <1>2, <2>1
<1>10. Full(nodes', 0, n)
  BY <1>1, <1>6, LevelZeroIs DEF n
<1>11. ASSUME NEW l \in 1..d, NEW i \in Nat, i \notin Dirty(l - 1, modified')
       PROVE  Good(nodes', l, i)
  <2>1. l \in Nat \ {0} /\ l - 1 \in Nat /\ (l - 1) + 1 = l
    BY <1>4
  <2>2. i \notin Dirty(l, modified)
    <3>1. ASSUME NEW m \in modified PROVE m \div 2^l \in Dirty(l - 1, modified')
      <4>1. m \div 2^l = Parent(m) \div 2^(l - 1)
        BY <1>1, <2>1, DirtyParent
      <4>2. Parent(m) \in modified'
        BY <1>2
      <4> QED
        BY <4>1, <4>2 DEF Dirty
    <3> QED
      BY <1>11, <3>1 DEF Dirty
  <2>3. i # 0 \/ l <= v
    <3>1. ASSUME i = 0, ~(l <= v) PROVE FALSE
      <4>1. visible # n
        BY <1>4, <3>1 DEF d, v
      <4>2. visible \in visible..(n - 1)
        BY <1>1, <1>4, <4>1
      <4>3. visible \in modified
        BY <4>2 DEF LoopInv, n
      <4>4. 2^v < 2^l /\ 2^v \in Nat /\ 2^l \in Nat
        BY <1>4, <2>1, <3>1, PowerMonotone, PowerType
      <4>5. visible < 2^l
        BY <1>1, <1>4, <4>4
      <4>6. visible \div 2^l = 0
        <5>1. PICK p \in Nat : p = 2^l
          BY <4>4
        <5>2. visible < p /\ p # 0
          BY <1>1, <4>5, <5>1
        <5> QED
          BY <1>1, <5>1, <5>2
      <4> QED
        BY <2>2, <3>1, <4>3, <4>6 DEF Dirty
    <3> QED
      BY <3>1
  <2>4. Good(nodes, l, i)
    BY <2>1, <2>2, <2>3 DEF LoopInv, v
  <2>5. \A j \in Nat \ modified : Node(nodes', 0, j) = Node(nodes, 0, j)
    <3>1. \A j \in Nat : Node(nodes, 0, j) = IF j < n THEN nodes[1][j + 1] ELSE Nil
      BY <1>1, LevelZeroIs DEF n
    <3>2. \A j \in Nat : Node(nodes', 0, j) = IF j < n THEN nodes'[1][j + 1] ELSE Nil
      BY <1>1, <1>6, LevelZeroIs DEF n
    <3>3. \A j \in Nat : j < n => j + 1 \in 1..n /\ (j + 1) - 1 = j
      BY <1>1
    <3> QED
      BY <1>7, <3>1, <3>2, <3>3
  <2> QED
    BY <1>1, <1>7, <2>1, <2>2, <2>4, <2>5, GoodElsewhere
<1>12. level' \in 1..d
  BY <1>2, <1>4
<1>13. /\ Len(nodes') = d' + 1 /\ d' = d /\ n' = n
  BY <1>2, <1>7 DEF d, n
<1>14. /\ \A l \in 0..(level' - 1) : Full(nodes', l, n)
       /\ \A l \in 1..(level' - 1), i \in Nat : Good(nodes', l, i)
  <2>1. 0..(level' - 1) = {0} /\ 1..(level' - 1) = {}
    BY <1>2
  <2> QED
    BY <1>10, <2>1
<1>15. ASSUME NEW l \in level'..d, NEW i \in Nat, i \notin Dirty(l - level', modified') PROVE Good(nodes', l, i)
  BY <1>2, <1>11, <1>15
<1> QED
  BY <1>2, <1>8, <1>9, <1>12, <1>13, <1>14, <1>15 DEF RecomputeInv, d, n

-----------------------------------------------------------------------------
(* The value loops.                                                        *)

\* A batch begins with the tree at rest.
LEMMA LoopBegins ==
  ASSUME Levels(nodes), Len(leaves) \in Nat, Hashed(nodes, Len(leaves)), visible = Len(leaves), modified = {}
  PROVE  LoopInv
<1>1. visible..(Len(leaves) - 1) = {}
  OBVIOUS
<1>2. \A l \in Nat \ {0}, i \in Nat : i # 0 \/ l <= TargetDepth(visible) => Good(nodes, l, i)
  BY RestIsGood
<1> QED
  BY <1>1, <1>2 DEF LoopInv, Hashed

\* A value that is inserted changes level 0 where it is modified, and appends a leaf there.
LEMMA LoopInserts ==
  ASSUME TreeInv, TreeInv', LoopInv, UNCHANGED visible,
         NEW T, modified' = modified \cup T, T \subseteq 0..(Len(leaves') - 1), Len(leaves) < Len(leaves'),
         Len(leaves)..(Len(leaves') - 1) \subseteq T,
         Len(nodes') = Len(nodes), \A l \in Nat \ {0} : Row(nodes', l) = Row(nodes, l),
         \A j \in 0..(Len(leaves) - 1) : j \notin T => nodes'[1][j + 1] = nodes[1][j + 1]
  PROVE  LoopInv'
<1>1. /\ leaves \in Seq(Leaf) /\ Levels(nodes) /\ Paired(leaves, nodes) /\ visible \in Nat
      /\ leaves' \in Seq(Leaf) /\ Levels(nodes') /\ Paired(leaves', nodes')
      /\ Len(leaves) \in Nat /\ Len(leaves') \in Nat /\ modified' \in SUBSET Nat
  BY DEF TreeInv, TypeOK, Paired
<1>2. modified \subseteq 0..(Len(leaves) - 1) /\ visible..(Len(leaves) - 1) \subseteq modified /\ visible <= Len(leaves)
  BY DEF LoopInv
<1>3. modified' \subseteq 0..(Len(leaves') - 1) /\ visible < Len(leaves') /\ modified' # {}
  <2>1. 0..(Len(leaves) - 1) \subseteq 0..(Len(leaves') - 1)
    BY <1>1
  <2>2. Len(leaves) \in Len(leaves)..(Len(leaves') - 1)
    BY <1>1
  <2> QED
    BY <1>1, <1>2, <2>1, <2>2
<1>4. visible..(Len(leaves') - 1) \subseteq modified'
  <2>1. \A j \in visible..(Len(leaves') - 1) :
          j \in visible..(Len(leaves) - 1) \/ j \in Len(leaves)..(Len(leaves') - 1)
    BY <1>1
  <2> QED
    BY <1>2, <2>1
<1>5. Tight(nodes')
  BY DEF LoopInv, Tight, Node
<1>6. \A j \in Nat \ modified' : Node(nodes', 0, j) = Node(nodes, 0, j)
  <2> SUFFICES ASSUME NEW j \in Nat, j \notin modified' PROVE Node(nodes', 0, j) = Node(nodes, 0, j)
    OBVIOUS
  <2>1. Node(nodes, 0, j) = IF j < Len(leaves) THEN nodes[1][j + 1] ELSE Nil
    BY <1>1, LevelZeroIs
  <2>2. Node(nodes', 0, j) = IF j < Len(leaves') THEN nodes'[1][j + 1] ELSE Nil
    BY <1>1, LevelZeroIs
  <2>3. CASE j < Len(leaves)
    <3>1. j \in 0..(Len(leaves) - 1) /\ j \notin T /\ j < Len(leaves')
      BY <1>1, <2>3
    <3> QED
      BY <2>1, <2>2, <2>3, <3>1
  <2>4. CASE ~(j < Len(leaves))
    <3>1. ~(j < Len(leaves'))
      <4>1. j \notin Len(leaves)..(Len(leaves') - 1)
        OBVIOUS
      <4> QED
        BY <1>1, <2>4, <4>1
    <3> QED
      BY <2>1, <2>2, <2>4, <3>1
  <2> QED
    BY <2>3, <2>4
<1>7. ASSUME NEW l \in Nat \ {0}, NEW i \in Nat, i \notin Dirty(l, modified'), i # 0 \/ l <= TargetDepth(visible)
      PROVE  Good(nodes', l, i)
  <2>1. i \notin Dirty(l, modified)
    BY <1>7 DEF Dirty
  <2>2. Good(nodes, l, i)
    BY <1>7, <2>1 DEF LoopInv
  <2> QED
    BY <1>1, <1>6, <1>7, <2>2, GoodElsewhere
<1>8. Len(nodes') = TargetDepth(visible) + 1
  BY DEF LoopInv
<1>9. visible' = visible /\ visible <= Len(leaves')
  BY <1>1, <1>3
<1> QED
  BY <1>3, <1>4, <1>5, <1>7, <1>8, <1>9 DEF LoopInv

\* The levels above level 0 stay, and so does their number.
LEMMA UpperStay ==
  ASSUME NEW ns, Levels(ns), NEW row
  PROVE  /\ Len([ns EXCEPT ![1] = row]) = Len(ns) /\ [ns EXCEPT ![1] = row][1] = row
         /\ \A l \in Nat \ {0} : Row([ns EXCEPT ![1] = row], l) = Row(ns, l)
<1>1. PICK new : new = [ns EXCEPT ![1] = row]
  OBVIOUS
<1>2. new = Replaced(ns, 0, row)
  BY <1>1 DEF Replaced
<1>3. 0 \in Nat /\ 0 < Len(ns)
  BY RowType
<1>4. new[1] = row
  BY <1>1, LevelZeroIsRow
<1>5. Len(new) = Len(ns) /\ \A l \in Nat \ {0} : Row(new, l) = Row(ns, l)
  BY <1>2, <1>3, RowReplaced
<1>6. Len(new) = Len(ns) /\ new[1] = row /\ \A l \in Nat \ {0} : Row(new, l) = Row(ns, l)
  BY <1>4, <1>5
<1> QED
  BY <1>1, <1>6, Zenon

\* The first value of an empty tree, by either path.
LEMMA FirstLoop ==
  ASSUME TreeInv, TreeInv', LoopInv, UNCHANGED visible, leaves = <<>>, modified' = {0, 1}, modified = {},
         NEW a, NEW b, leaves' = <<a, b>>, NEW row, nodes' = [nodes EXCEPT ![1] = row]
  PROVE  LoopInv'
<1>1. Levels(nodes)
  BY DEF TreeInv, TypeOK
<1>2. Len(nodes') = Len(nodes) /\ \A l \in Nat \ {0} : Row(nodes', l) = Row(nodes, l)
  BY <1>1, UpperStay
<1>3. Len(leaves) = 0 /\ Len(leaves') = 2
  OBVIOUS
<1>4. {0, 1} \subseteq 0..(Len(leaves') - 1) /\ Len(leaves)..(Len(leaves') - 1) \subseteq {0, 1}
      /\ Len(leaves) < Len(leaves') /\ 0..(Len(leaves) - 1) = {} /\ modified' = modified \cup {0, 1}
  BY <1>3
<1> QED
  BY <1>2, <1>4, LoopInserts

\* A further one.
LEMMA PlaceLoop ==
  ASSUME TreeInv, TreeInv', LoopInv, UNCHANGED visible, NEW p \in DOMAIN leaves, NEW v \in Nat,
         NEW s \in {Commit(IndexedLeaf(v, leaves[p].next)), Nil},
         leaves' = Placed(leaves, p, v), modified' = modified \cup {Len(leaves), p - 1},
         nodes' = [nodes EXCEPT ![1] = Append(Written(nodes[1], p - 1, IndexedLeaf(leaves[p].value, v)), s)]
  PROVE  LoopInv'
<1>1. leaves \in Seq(Leaf) /\ Levels(nodes) /\ Paired(leaves, nodes) /\ Len(leaves) \in Nat /\ p \in 1..Len(leaves)
  BY DEF TreeInv, TypeOK
<1>2. Len(leaves') = Len(leaves) + 1
  BY <1>1, PlacedIs
<1>3. PlacedIn(nodes', leaves, nodes, p, v, s)
  BY <1>1, PlacedPairs
<1>4. Len(nodes') = Len(nodes) /\ \A l \in Nat \ {0} : Row(nodes', l) = Row(nodes, l)
  BY <1>1, UpperStay
<1>5. PICK T : T = {Len(leaves), p - 1}
  OBVIOUS
<1>6. T \subseteq 0..(Len(leaves') - 1) /\ Len(leaves)..(Len(leaves') - 1) \subseteq T /\ Len(leaves) < Len(leaves')
  BY <1>1, <1>2, <1>5
<1>7. \A j \in 0..(Len(leaves) - 1) : j \notin T => nodes'[1][j + 1] = nodes[1][j + 1]
  <2>1. \A j \in 0..(Len(leaves) - 1) : j \notin T => j + 1 \in 1..Len(leaves) /\ j + 1 # p
    BY <1>1, <1>5
  <2> QED
    BY <1>3, <2>1 DEF PlacedIn
<1> QED
  BY <1>4, <1>5, <1>6, <1>7, LoopInserts

-----------------------------------------------------------------------------
(* The invariant is inductive.                                             *)

\* An empty tree is at rest.
LEMMA EmptyHashed == Hashed(<< <<>> >>, 0)
<1> DEFINE ns == << <<>> >>
<1>1. Len(ns) = 1 /\ ns[1] = <<>> /\ TargetDepth(0) = 0
  BY DEF TargetDepth
<1> HIDE DEF ns
<1>2. \A l \in Nat : Row(ns, l) = <<>>
  BY <1>1 DEF Row
<1>3. \A l \in Nat, i \in Nat : Node(ns, l, i) = Nil
  BY <1>2 DEF Node, SlotAt
<1>4. Full(ns, 0, 0)
  <2>1. \A i \in Nat : ~(i * 2^0 < 0)
    BY PowerZero
  <2> QED
    BY <1>3, <2>1 DEF Full
<1>5. Tight(ns)
  BY <1>2 DEF Tight
<1> QED
  BY <1>1, <1>4, <1>5 DEF Hashed, ns

LEMMA MerkleInit == Init => MerkleInv
<1> SUFFICES ASSUME Init PROVE MerkleInv
  OBVIOUS
<1>1. /\ leaves = <<>> /\ nodes = << <<>> >> /\ pc = "idle" /\ clean /\ visible = 0
      /\ saved.leaves = <<>> /\ saved.nodes = << <<>> >> /\ Len(leaves) = 0 /\ Len(saved.leaves) = 0
      /\ modified = {}
  BY DEF Init
<1> QED
  BY <1>1, EmptyHashed DEF MerkleInv, BatchInv

\* The leaves of a tree that is not empty are at least two.
LEMMA LeafCount ==
  ASSUME TreeInv, MerkleInv
  PROVE  /\ Len(leaves) \in Nat /\ Len(leaves) # 1 /\ (Len(leaves) = 0 <=> leaves = <<>>)
         /\ leaves \in Seq(Leaf) /\ Levels(nodes) /\ pos \in Nat \ {0}
  BY EmptySeq DEF TreeInv, TypeOK, MerkleInv, BatchInv

\* Insertions.
LEMMA NaiveFirstMerkle == ASSUME TreeInv, TreeInv', MerkleInv, NaiveFirst PROVE MerkleInv'
<1>1. /\ pc = "naive" /\ leaves = <<>> /\ leaves' = <<IndexedLeaf(0, batch[pos]), IndexedLeaf(batch[pos], 0)>>
      /\ nodes' = [nodes EXCEPT ![1] = <<Commit(leaves'[1]), Commit(leaves'[2])>>]
      /\ modified' = {0, 1} /\ UNCHANGED <<pc, batch, visible, clean, saved>>
  BY DEF NaiveFirst
<1>2. Len(leaves') = 2 /\ leaves' # <<>>
  BY <1>1
<1>3. BatchInv'
  BY <1>1, <1>2 DEF MerkleInv, BatchInv
<1>4. clean' => LoopInv'
  <2> SUFFICES ASSUME clean PROVE LoopInv'
    BY <1>1
  <2>1. LoopInv
    BY <1>1 DEF MerkleInv
  <2>2. modified = {}
    BY <1>1, <2>1 DEF LoopInv
  <2> QED
    BY <1>1, <2>1, <2>2, FirstLoop
<1> QED
  BY <1>1, <1>3, <1>4 DEF MerkleInv

\* A further value keeps the rest of the invariant, if it keeps LoopInv.
LEMMA PlaceMerkle ==
  ASSUME TreeInv, TreeInv', MerkleInv, UNCHANGED <<pc, batch, visible, clean, saved>>, pc \in {"naive", "sorted"},
         NEW p \in DOMAIN leaves, NEW v \in Nat, NEW s \in {Commit(IndexedLeaf(v, leaves[p].next)), Nil},
         leaves' = Placed(leaves, p, v), modified' = modified \cup {Len(leaves), p - 1},
         nodes' = [nodes EXCEPT ![1] = Append(Written(nodes[1], p - 1, IndexedLeaf(leaves[p].value, v)), s)]
  PROVE  MerkleInv'
<1>1. leaves \in Seq(Leaf) /\ Len(leaves) \in Nat /\ Len(leaves) # 0 /\ Len(leaves) # 1
  BY LeafCount
<1>2. Len(leaves') = Len(leaves) + 1
  BY <1>1, PlacedIs
<1>3. leaves' # <<>> /\ Len(leaves') # 1
  BY <1>1, <1>2
<1>4. BatchInv'
  BY <1>3 DEF MerkleInv, BatchInv
<1>5. clean' => LoopInv'
  <2> SUFFICES ASSUME clean PROVE LoopInv'
    OBVIOUS
  <2>1. LoopInv
    BY DEF MerkleInv
  <2> QED
    BY <2>1, PlaceLoop
<1> QED
  BY <1>4, <1>5 DEF MerkleInv

LEMMA NaiveInsertMerkle == ASSUME TreeInv, TreeInv', MerkleInv, NaiveInsert PROVE MerkleInv'
<1> DEFINE v == batch[pos]
<1>1. pc = "naive" /\ pos <= Len(batch) /\ leaves # <<>> /\ NaiveError(v) = "ok"
  BY DEF NaiveInsert
<1>2. v \in Nat \ {0}
  BY <1>1, NaiveOk
<1>3. PICK p \in DOMAIN leaves :
        IsLow(leaves, p, v) /\ LowLeafIndex(leaves, v) = p - 1 /\ leaves[p].next # v
  BY <1>1, NaiveOk
<1>4. p \in Nat /\ p # 0 /\ (p - 1) + 1 = p /\ Len(leaves) \in Nat
  BY DEF TreeInv, TypeOK
<1>5. /\ leaves' = Append([leaves EXCEPT ![p] = Linked(leaves[p], v)], NewLeaf(leaves[p], v))
      /\ nodes' = [nodes EXCEPT
                     ![1] = Append(Written(nodes[1], p - 1, Linked(leaves[p], v)),
                                   Commit(NewLeaf(leaves[p], v)))]
      /\ modified' = modified \cup {Len(leaves), p - 1}
      /\ UNCHANGED <<pc, batch, visible, clean, saved>>
  BY <1>3, <1>4 DEF NaiveInsert, Touched
<1> HIDE DEF v
<1>6. /\ leaves' = Placed(leaves, p, v)
      /\ nodes' = [nodes EXCEPT
                     ![1] = Append(Written(nodes[1], p - 1, IndexedLeaf(leaves[p].value, v)),
                                   Commit(IndexedLeaf(v, leaves[p].next)))]
  BY <1>5 DEF Placed, Linked, NewLeaf
<1> QED
  BY <1>1, <1>2, <1>5, <1>6, PlaceMerkle

LEMMA SortedAppendMerkle == ASSUME TreeInv, TreeInv', MerkleInv, SortedAppend PROVE MerkleInv'
<1> DEFINE v == batch[pos]
           n == Len(leaves)
<1>1. pc = "sorted" /\ pos <= Len(batch) /\ SortedError(v) = "ok" /\ leaves # <<>>
  BY DEF SortedAppend, TreeInv, PcInv
<1>2. v \in Nat
  BY <1>1, ValueType DEF TreeInv
<1>3. leaves \in Seq(Leaf) /\ n \in Nat /\ n # 0 /\ n \in DOMAIN leaves /\ (n - 1) + 1 = n /\ n - 1 \in Nat
  BY <1>1 DEF TreeInv, TypeOK
<1>4. leaves[n].next = 0
  <2>1. leaves[n].value \in Nat /\ leaves[n].next \in Nat
    BY <1>3, LeafTypes
  <2> QED
    BY <1>1, <1>2, <2>1 DEF SortedError
<1>5. /\ leaves' = Append([leaves EXCEPT ![n] = Linked(leaves[n], v)], IndexedLeaf(v, 0))
      /\ nodes' = [nodes EXCEPT ![1] = Append(Written(nodes[1], n - 1, Linked(leaves[n], v)), Nil)]
      /\ modified' = modified \cup {n - 1, n}
      /\ UNCHANGED <<pc, batch, visible, clean, saved>>
  BY DEF SortedAppend
<1> HIDE DEF v
<1>6. /\ leaves' = Placed(leaves, n, v)
      /\ nodes' = [nodes EXCEPT
                     ![1] = Append(Written(nodes[1], n - 1, IndexedLeaf(leaves[n].value, v)), Nil)]
  BY <1>4, <1>5 DEF Placed, Linked
<1>7. modified' = modified \cup {n, n - 1}
  BY <1>5
<1> QED
  BY <1>1, <1>2, <1>3, <1>5, <1>6, <1>7, PlaceMerkle

\* A batch that takes the lock finds the tree at rest.
LEMMA IdleLoop ==
  ASSUME TreeInv, MerkleInv, pc = "idle", clean
  PROVE  modified = {} /\ LoopInv
<1>1. Hashed(nodes, Len(leaves)) /\ visible = Len(leaves) /\ modified = {}
  BY DEF MerkleInv, BatchInv
<1> QED
  BY <1>1, LeafCount, LoopBegins

LEMMA InsertManyMerkle ==
  ASSUME TreeInv, TreeInv', MerkleInv, NEW b \in Batches, InsertMany(b)
  PROVE  MerkleInv'
<1>1. /\ pc = "idle" /\ b # <<>> /\ pc' = "naive" /\ batch' = b /\ pos' = 1
      /\ UNCHANGED <<leaves, nodes, modified, visible, clean, saved>>
  BY DEF InsertMany, Tree
<1>2. BatchInv'
  BY <1>1 DEF MerkleInv, BatchInv
<1>3. clean' => LoopInv'
  <2>1. clean => LoopInv
    BY <1>1, IdleLoop
  <2>2. LoopInv => LoopInv'
    BY <1>1 DEF LoopInv
  <2> QED
    BY <1>1, <2>1, <2>2
<1> QED
  BY <1>1, <1>2, <1>3 DEF MerkleInv

LEMMA InsertManySortedMerkle ==
  ASSUME TreeInv, TreeInv', MerkleInv, NEW b, InsertManySorted(b)
  PROVE  MerkleInv'
<1>1. /\ pc = "idle" /\ b # <<>> /\ pc' = "sorted" /\ batch' = b
      /\ UNCHANGED <<visible, clean, saved>>
  BY DEF InsertManySorted
<1>2. clean => modified = {} /\ LoopInv
  BY <1>1, IdleLoop
<1>3. CASE leaves = <<>>
  <2>1. /\ leaves' = <<IndexedLeaf(0, b[1]), IndexedLeaf(b[1], 0)>> /\ modified' = {0, 1}
        /\ nodes' = [nodes EXCEPT ![1] = <<Commit(leaves'[1]), Nil>>]
    BY <1>3 DEF InsertManySorted
  <2>2. Len(leaves') = 2 /\ leaves' # <<>>
    BY <2>1
  <2>3. BatchInv'
    BY <1>1, <2>2 DEF MerkleInv, BatchInv
  <2>4. clean => LoopInv'
    BY <1>1, <1>2, <1>3, <2>1, FirstLoop
  <2> QED
    BY <1>1, <2>3, <2>4 DEF MerkleInv
<1>4. CASE leaves # <<>>
  <2>1. UNCHANGED <<leaves, nodes>> /\ modified' = {}
    BY <1>4 DEF InsertManySorted, Tree
  <2>2. BatchInv'
    BY <1>1, <1>4, <2>1 DEF MerkleInv, BatchInv
  <2>3. clean => LoopInv'
    <3>1. LoopInv /\ modified = {} => LoopInv'
      BY <1>1, <2>1 DEF LoopInv
    <3> QED
      BY <1>2, <3>1
  <2> QED
    BY <1>1, <2>2, <2>3 DEF MerkleInv
<1> QED
  BY <1>3, <1>4

\* An error leaves a clean tree only where the batch had changed nothing.
LEMMA FailMerkle ==
  ASSUME TreeInv, MerkleInv, NEW e, Fail(e), pc \in {"naive", "sorted"}
  PROVE  MerkleInv'
<1>1. /\ UNCHANGED <<leaves, nodes, saved>> /\ pc' = "idle" /\ modified' = {}
      /\ visible' = Len(leaves') /\ clean' = (clean /\ modified = {})
  BY DEF Fail, Return, Tree
<1>2. BatchInv'
  BY <1>1 DEF MerkleInv, BatchInv
<1>3. clean' => Hashed(nodes, Len(leaves))
  <2>1. clean' => clean /\ modified = {}
    BY <1>1
  <2>2. clean => LoopInv
    BY DEF MerkleInv
  <2> QED
    BY <2>1, <2>2 DEF LoopInv
<1> QED
  BY <1>1, <1>2, <1>3 DEF MerkleInv

LEMMA BeginRecomputeMerkle ==
  ASSUME TreeInv, TreeInv', MerkleInv, BeginRecompute
  PROVE  MerkleInv'
<1>1. /\ pc \in {"naive", "sorted"} /\ pos > Len(batch) /\ pc' = "recompute"
      /\ UNCHANGED <<leaves, visible, clean, saved>>
  BY DEF BeginRecompute
<1>2. clean => RecomputeInv'
  BY <1>1, BeginRecomputeRecompute DEF MerkleInv
<1>3. leaves # <<>>
  <2>1. batch \in Seq(Nat) /\ batch # <<>> /\ pos \in Nat
    BY <1>1 DEF TreeInv, TypeOK, MerkleInv, BatchInv
  <2>2. Len(batch) \in Nat /\ Len(batch) # 0
    BY <2>1, EmptySeq
  <2>3. pos > 1
    BY <1>1, <2>1, <2>2
  <2> QED
    BY <1>1, <2>3 DEF MerkleInv, BatchInv
<1>4. BatchInv'
  BY <1>1, <1>3 DEF MerkleInv, BatchInv
<1> QED
  BY <1>1, <1>2, <1>4 DEF MerkleInv

LEMMA HashNodeMerkle ==
  ASSUME TreeInv, MerkleInv, NEW i \in modified, HashNode(i)
  PROVE  MerkleInv'
<1>1. pc = "recompute" /\ UNCHANGED <<leaves, pc, batch, pos, visible, clean, saved>>
  BY DEF HashNode
<1>2. clean => RecomputeInv'
  BY <1>1, HashNodeRecompute DEF MerkleInv
<1>3. BatchInv'
  BY <1>1 DEF MerkleInv, BatchInv
<1> QED
  BY <1>1, <1>2, <1>3 DEF MerkleInv

LEMMA HashPanicMerkle ==
  ASSUME TreeInv, MerkleInv, NEW i \in modified, HashPanic(i)
  PROVE  MerkleInv'
<1>1. UNCHANGED <<leaves, saved>> /\ pc' = "idle" /\ modified' = {} /\ ~clean'
  BY DEF HashPanic, Return, Tree
<1>2. BatchInv'
  BY <1>1 DEF MerkleInv, BatchInv
<1> QED
  BY <1>1, <1>2 DEF MerkleInv

LEMMA NextLevelMerkle ==
  ASSUME TreeInv, MerkleInv, NextLevel
  PROVE  MerkleInv'
<1>1. pc = "recompute" /\ UNCHANGED <<leaves, pc, batch, pos, visible, clean, saved>>
  BY DEF NextLevel, Tree
<1>2. clean => RecomputeInv'
  BY <1>1, NextLevelRecompute DEF MerkleInv
<1>3. BatchInv'
  BY <1>1 DEF MerkleInv, BatchInv
<1> QED
  BY <1>1, <1>2, <1>3 DEF MerkleInv

LEMMA EndRecomputeMerkle ==
  ASSUME TreeInv, MerkleInv, EndRecompute
  PROVE  MerkleInv'
<1>1. /\ pc = "recompute" /\ UNCHANGED <<leaves, nodes, clean, saved>> /\ pc' = "idle" /\ modified' = {}
      /\ visible' = Len(leaves')
  BY DEF EndRecompute, Return, Tree
<1>2. clean => Hashed(nodes, Len(leaves))
  BY <1>1, RecomputeEnds DEF MerkleInv
<1>3. BatchInv'
  BY <1>1 DEF MerkleInv, BatchInv
<1> QED
  BY <1>1, <1>2, <1>3 DEF MerkleInv

\* What is exported is what was at rest, what is imported too.
LEMMA ExportStateMerkle ==
  ASSUME TreeInv, MerkleInv, ExportState
  PROVE  MerkleInv'
<1>1. /\ pc = "idle" /\ UNCHANGED <<leaves, nodes, pc, batch, pos, modified, visible, clean>>
      /\ saved'.leaves = leaves /\ saved'.nodes = nodes /\ saved'.clean = clean
  BY DEF ExportState, Tree, Writer
<1>2. BatchInv'
  BY <1>1 DEF MerkleInv, BatchInv
<1> QED
  BY <1>1, <1>2 DEF MerkleInv

LEMMA ImportStateMerkle ==
  ASSUME TreeInv, MerkleInv, ImportState
  PROVE  MerkleInv'
<1>1. /\ pc = "idle" /\ UNCHANGED <<pc, batch, pos, modified, saved>>
      /\ leaves' = saved.leaves /\ nodes' = saved.nodes /\ clean' = saved.clean
      /\ visible' = Len(saved.leaves)
  BY DEF ImportState, Writer
<1>2. BatchInv'
  BY <1>1 DEF MerkleInv, BatchInv
<1> QED
  BY <1>1, <1>2 DEF MerkleInv

LEMMA MerkleNext == TreeInv /\ TreeInv' /\ MerkleInv /\ [Next]_vars => MerkleInv'
<1> SUFFICES ASSUME TreeInv, TreeInv', MerkleInv, [Next]_vars PROVE MerkleInv'
  OBVIOUS
<1>1. ASSUME NEW b \in Batches, NEW sorted, Refuse(b, sorted) PROVE MerkleInv'
  BY <1>1 DEF Refuse, Tree, Writer, MerkleInv, BatchInv, LoopInv, RecomputeInv
<1>2. CASE NaiveReject
  BY <1>2, FailMerkle DEF NaiveReject
<1>3. CASE SortedReject
  BY <1>3, FailMerkle DEF SortedReject
<1>4. CASE UNCHANGED vars
  BY <1>4 DEF vars, MerkleInv, BatchInv, LoopInv, RecomputeInv
<1> QED
  BY <1>1, <1>2, <1>3, <1>4, InsertManyMerkle, InsertManySortedMerkle, NaiveFirstMerkle, NaiveInsertMerkle,
     SortedAppendMerkle, BeginRecomputeMerkle, HashNodeMerkle, HashPanicMerkle, NextLevelMerkle,
     EndRecomputeMerkle, ExportStateMerkle, ImportStateMerkle
     DEF Next

\* The invariant holds of every reachable state.
LEMMA MerkleInvariant == Spec => [](TreeInv /\ MerkleInv)
<1>1. Init => TreeInv /\ MerkleInv
  BY TreeInit, MerkleInit
<1>2. TreeInv /\ MerkleInv /\ [Next]_vars => (TreeInv /\ MerkleInv)'
  BY TreeNext, MerkleNext
<1> QED
  BY <1>1, <1>2, PTL DEF Spec

\* A tree no batch has damaged never hands a nil operand to Hash2 (poseidon.go), so only a
\* batch after a failed one can panic.
THEOREM LeftOperandsPresent == Spec => []OperandsPresent
<1>1. TreeInv /\ MerkleInv => OperandsPresent
  <2> SUFFICES ASSUME TreeInv, MerkleInv, pc = "recompute", clean, NEW i \in modified PROVE Left(i) # Nil
    BY DEF OperandsPresent
  <2>1. RecomputeInv
    BY DEF MerkleInv
  <2> QED
    BY <2>1, LeftPresent
<1> QED
  BY <1>1, MerkleInvariant, PTL

-----------------------------------------------------------------------------
(* The tree the leaves determine.                                          *)

\* The reference definition's depth is the code's.
LEMMA CeilLog2Is ==
  ASSUME NEW n \in Nat \ {0}
  PROVE  CeilLog2(n) = TargetDepth(n)
<1> DEFINE t == TargetDepth(n)
           P(d) == 2^d >= n /\ \A e \in 0..n : 2^e >= n => d <= e
<1>1. t \in 0..n /\ 2^t >= n /\ (n > 1 => t # 0 /\ 2^(t - 1) < n)
  BY DepthIs, PowerType
<1>2. n <= 1 => t = 0
  BY DEF TargetDepth
<1> HIDE DEF t
<1>3. ASSUME NEW e \in 0..n, 2^e >= n PROVE t <= e
  <2>1. CASE n > 1
    <3>1. t - 1 \in Nat /\ 2^(t - 1) \in Nat /\ 2^e \in Nat
      <4>1. t - 1 \in Nat /\ e \in Nat
        BY <1>1, <2>1
      <4> QED
        BY <4>1, PowerType
    <3>2. e < t - 1 => 2^e < 2^(t - 1)
      BY <3>1, PowerMonotone
    <3>3. e = t - 1 => 2^e = 2^(t - 1)
      OBVIOUS
    <3>4. ~(2^e <= 2^(t - 1))
      BY <1>1, <1>3, <2>1, <3>1
    <3> QED
      BY <1>1, <3>1, <3>2, <3>3, <3>4
  <2> QED
    BY <1>1, <1>2, <2>1
<1>4. \E d \in 0..n : P(d)
  BY <1>1, <1>3
<1>5. CeilLog2(n) = CHOOSE d \in 0..n : P(d)
  BY DEF CeilLog2
<1> HIDE DEF P
<1>6. CeilLog2(n) \in 0..n /\ P(CeilLog2(n))
  BY <1>4, <1>5
<1>7. t <= CeilLog2(n) /\ CeilLog2(n) <= t
  BY <1>1, <1>3, <1>6 DEF P
<1>8. CeilLog2(n) = t
  BY <1>1, <1>6, <1>7
<1> QED
  BY <1>8 DEF t

\* A span of more than p and at most 2p leaves splits after p.
LEMMA SplitIs ==
  ASSUME NEW l \in Nat, NEW n \in Nat, 2^l < n, n <= 2^(l + 1)
  PROVE  Split(n) = 2^l
<1>1. 2^l \in Nat \ {0}
  BY PowerType
<1>2. n > 1 /\ n \in Nat \ {0}
  BY <1>1
<1>3. TargetDepth(n) = l + 1
  <2>1. (l + 1) - 1 = l /\ l + 1 \in Nat \ {0}
    OBVIOUS
  <2> QED
    BY <1>2, <2>1, DepthUnique
<1>4. CeilLog2(n) = l + 1
  BY <1>2, <1>3, CeilLog2Is
<1> QED
  BY <1>4 DEF Split

\* The size of what a span splits off.
LEMMA SplitInside ==
  ASSUME NEW n \in Nat, n > 1
  PROVE  Split(n) \in Nat \ {0} /\ Split(n) < n
<1>1. TargetDepth(n) \in Nat \ {0} /\ 2^(TargetDepth(n) - 1) < n /\ CeilLog2(n) = TargetDepth(n)
  BY DepthIs, CeilLog2Is
<1>2. TargetDepth(n) - 1 \in Nat
  BY <1>1
<1> QED
  BY <1>1, <1>2, PowerType DEF Split

\* f is right about the spans of at most k leaves.
SpansRight(ls, f, k) ==
  \A lo, hi \in 0..Len(ls) : hi <= lo + k => f[<<lo, hi>>] = SpanHash(ls, f, lo, hi)

\* f and g say the same of the spans of at most k leaves.
SameSpans(n, f, g, k) == \A lo, hi \in 0..n : hi <= lo + k => f[<<lo, hi>>] = g[<<lo, hi>>]

\* A hash depends on those of the smaller spans only.
LEMMA SpanHashDepends ==
  ASSUME NEW ls, Len(ls) \in Nat, NEW f, NEW g, NEW k \in Nat \ {0}, NEW lo \in 0..Len(ls), NEW hi \in 0..Len(ls),
         hi <= lo + k + 1, SameSpans(Len(ls), f, g, k)
  PROVE  SpanHash(ls, f, lo, hi) = SpanHash(ls, g, lo, hi)
<1>1. CASE hi <= lo + 1
  BY <1>1 DEF SpanHash
<1>2. CASE ~(hi <= lo + 1)
  <2>1. hi - lo \in Nat /\ hi - lo > 1
    BY <1>2
  <2>2. PICK s \in Nat \ {0} : s = Split(hi - lo) /\ s < hi - lo
    BY <2>1, SplitInside
  <2>3. /\ lo + s \in 0..Len(ls) /\ lo + s <= lo + k /\ hi <= (lo + s) + k
    BY <2>1, <2>2
  <2>4. f[<<lo, lo + s>>] = g[<<lo, lo + s>>] /\ f[<<lo + s, hi>>] = g[<<lo + s, hi>>]
    BY <2>3 DEF SameSpans
  <2> QED
    BY <1>2, <2>2, <2>4 DEF SpanHash
<1> QED
  BY <1>1, <1>2

\* So the recursion defines a tree.
LEMMA SubtreeIs ==
  ASSUME NEW ls, Len(ls) \in Nat, NEW lo \in 0..Len(ls), NEW hi \in 0..Len(ls)
  PROVE  Subtree(ls)[<<lo, hi>>] = SpanHash(ls, Subtree(ls), lo, hi)
<1> DEFINE n == Len(ls)
           D == (0..n) \X (0..n)
           P(f) == f = [span \in D |-> SpanHash(ls, f, span[1], span[2])]
           S == {k \in Nat : \E f : SpansRight(ls, f, k + 1)}
<1>1. 0 \in S
  <2>1. PICK f : f = [span \in D |-> Commit(ls[span[1] + 1])]
    OBVIOUS
  <2>2. ASSUME NEW a \in 0..n, NEW b \in 0..n, b <= a + 1 PROVE f[<<a, b>>] = SpanHash(ls, f, a, b)
    <3>1. <<a, b>> \in D /\ <<a, b>>[1] = a
      OBVIOUS
    <3> QED
      BY <2>1, <2>2, <3>1 DEF SpanHash
  <2>3. SpansRight(ls, f, 0 + 1)
    BY <2>2 DEF SpansRight
  <2> QED
    BY <2>3
<1>2. ASSUME NEW k \in Nat, k \in S PROVE k + 1 \in S
  <2>1. PICK f : SpansRight(ls, f, k + 1)
    BY <1>2
  <2>2. PICK g : g = [span \in D |-> SpanHash(ls, f, span[1], span[2])]
    OBVIOUS
  <2>3. ASSUME NEW a \in 0..n, NEW b \in 0..n PROVE g[<<a, b>>] = SpanHash(ls, f, a, b)
    <3>1. <<a, b>> \in D /\ <<a, b>>[1] = a /\ <<a, b>>[2] = b
      OBVIOUS
    <3> QED
      BY <2>2, <3>1
  <2>4. PICK m \in Nat \ {0} : m = k + 1 /\ SameSpans(n, f, g, m)
    BY <2>1, <2>3 DEF SpansRight, SameSpans
  <2>5. ASSUME NEW a \in 0..n, NEW b \in 0..n, b <= a + ((k + 1) + 1)
        PROVE  SpanHash(ls, f, a, b) = SpanHash(ls, g, a, b)
    <3>1. b <= a + m + 1
      BY <2>4, <2>5
    <3> QED
      BY <2>4, <3>1, SpanHashDepends
  <2>6. SpansRight(ls, g, (k + 1) + 1)
    BY <2>3, <2>5 DEF SpansRight
  <2> QED
    BY <2>6
<1>3. n \in S
  <2> HIDE DEF S
  <2> QED
    BY <1>1, <1>2, Induction
<1>4. PICK f : SpansRight(ls, f, n + 1)
  BY <1>3
<1>5. PICK g : g = [span \in D |-> SpanHash(ls, f, span[1], span[2])]
  OBVIOUS
<1>6. \A a, b \in 0..n : g[<<a, b>>] = SpanHash(ls, f, a, b)
  <2> SUFFICES ASSUME NEW a \in 0..n, NEW b \in 0..n PROVE g[<<a, b>>] = SpanHash(ls, f, a, b)
    OBVIOUS
  <2>1. <<a, b>> \in D /\ <<a, b>>[1] = a /\ <<a, b>>[2] = b
    OBVIOUS
  <2> QED
    BY <1>5, <2>1
<1>7. \A a, b \in 0..n : f[<<a, b>>] = g[<<a, b>>]
  <2>1. \A a, b \in 0..n : b <= a + (n + 1)
    OBVIOUS
  <2> QED
    BY <1>4, <1>6, <2>1 DEF SpansRight
<1>8. \A a, b \in 0..n : SpanHash(ls, f, a, b) = SpanHash(ls, g, a, b)
  <2> SUFFICES ASSUME NEW a \in 0..n, NEW b \in 0..n PROVE SpanHash(ls, f, a, b) = SpanHash(ls, g, a, b)
    OBVIOUS
  <2>1. PICK m \in Nat \ {0} : m = n + 1
    OBVIOUS
  <2>2. b <= a + m + 1 /\ SameSpans(n, f, g, m)
    BY <1>7, <2>1 DEF SameSpans
  <2> QED
    BY <2>1, <2>2, SpanHashDepends
<1>9. P(g)
  <2>1. \A span \in D : span[1] \in 0..n /\ span[2] \in 0..n
    OBVIOUS
  <2>2. \A span \in D : SpanHash(ls, f, span[1], span[2]) = SpanHash(ls, g, span[1], span[2])
    BY <1>8, <2>1
  <2> QED
    BY <1>5, <2>2
<1>10. Subtree(ls) = CHOOSE f1 : P(f1)
  BY DEF Subtree
<1> HIDE DEF P
<1>11. P(Subtree(ls))
  BY <1>9, <1>10
<1>12. PICK tree : tree = Subtree(ls)
  OBVIOUS
<1>13. tree = [span \in D |-> SpanHash(ls, tree, span[1], span[2])]
  BY <1>11, <1>12 DEF P
<1>14. <<lo, hi>> \in D /\ <<lo, hi>>[1] = lo /\ <<lo, hi>>[2] = hi
  OBVIOUS
<1>15. tree[<<lo, hi>>] = SpanHash(ls, tree, lo, hi)
  BY <1>13, <1>14
<1> QED
  BY <1>12, <1>15

\* Where the leaves below a node of level l + 1 end, by its children.
LEMMA UpperSteps ==
  ASSUME NEW n \in Nat, NEW i \in Nat, NEW l \in Nat, NEW p \in Nat \ {0}, p = 2^l, i * (2 * p) < n
  PROVE  /\ 2^(l + 1) = 2 * p /\ i * 2^(l + 1) = (2 * i) * p /\ (2 * i) * 2^l < n
         /\ (2 * i + 1) * p < n =>
              /\ Upper(n, 2 * i, l) = (2 * i + 1) * p
              /\ Upper(n, 2 * i + 1, l) = Upper(n, i, l + 1)
              /\ Upper(n, i, l + 1) \in 0..n
              /\ (2 * i) * p + p < Upper(n, i, l + 1)
              /\ Upper(n, i, l + 1) <= (2 * i) * p + 2 * p
         /\ ~((2 * i + 1) * p < n) => Upper(n, 2 * i, l) = Upper(n, i, l + 1)
<1>1. 2^(l + 1) = 2 * p
  BY PowerStep
<1>2. PICK q \in Nat : q = i * p
  OBVIOUS
<1>3. /\ i * (2 * p) = 2 * q /\ (2 * i) * p = 2 * q /\ (2 * i + 1) * p = 2 * q + p
      /\ (2 * i + 1 + 1) * p = 2 * q + 2 * p /\ (i + 1) * (2 * p) = 2 * q + 2 * p
  BY <1>2
<1>4. /\ Upper(n, 2 * i, l) = IF 2 * q + p < n THEN 2 * q + p ELSE n
      /\ Upper(n, 2 * i + 1, l) = IF 2 * q + 2 * p < n THEN 2 * q + 2 * p ELSE n
      /\ Upper(n, i, l + 1) = IF 2 * q + 2 * p < n THEN 2 * q + 2 * p ELSE n
  BY <1>1, <1>3 DEF Upper
<1>5. CASE 2 * q + p < n
  BY <1>1, <1>2, <1>3, <1>4, <1>5
<1>6. CASE ~(2 * q + p < n)
  <2>1. ~(2 * q + 2 * p < n)
    BY <1>2, <1>6
  <2> QED
    BY <1>1, <1>2, <1>3, <1>4, <1>6, <2>1
<1> QED
  BY <1>5, <1>6

\* Every node of a tree at rest is the hash of the leaves below it.
LEMMA NodeIsSpan ==
  ASSUME NEW ls \in Seq(Leaf), NEW ns, Levels(ns), Paired(ls, ns), Hashed(ns, Len(ls)), ls # <<>>
  PROVE  \A l \in Nat : l \in {k \in Nat : k <= TargetDepth(Len(ls)) =>
           \A i \in Nat : i * 2^k < Len(ls) =>
             Node(ns, k, i) = Subtree(ls)[<<i * 2^k, Upper(Len(ls), i, k)>>]}
<1> DEFINE n == Len(ls)
           d == TargetDepth(n)
           tree == Subtree(ls)
           S == {k \in Nat : k <= d => \A i \in Nat : i * 2^k < n =>
                   Node(ns, k, i) = tree[<<i * 2^k, Upper(n, i, k)>>]}
<1>1. n \in Nat /\ d \in Nat /\ DOMAIN ls = 1..n
  BY DepthIs
<1>2. \A lo, hi \in 0..n : tree[<<lo, hi>>] = SpanHash(ls, tree, lo, hi)
  BY <1>1, SubtreeIs
<1> HIDE DEF tree
<1>3. 0 \in S
  <2>1. ASSUME NEW i \in Nat, i * 2^0 < n PROVE Node(ns, 0, i) = tree[<<i * 2^0, Upper(n, i, 0)>>]
    <3>1. i * 2^0 = i /\ (i + 1) * 2^0 = i + 1
      BY PowerZero
    <3>2. Upper(n, i, 0) = i + 1
      BY <1>1, <2>1, <3>1 DEF Upper
    <3>3. tree[<<i, i + 1>>] = SpanHash(ls, tree, i, i + 1)
      BY <1>1, <1>2, <2>1, <3>1
    <3>4. SpanHash(ls, tree, i, i + 1) = Commit(ls[i + 1])
      BY DEF SpanHash
    <3>5. Node(ns, 0, i) = ns[1][i + 1] /\ i + 1 \in DOMAIN ls
      BY <1>1, <2>1, <3>1, LevelZeroIs
    <3>6. Node(ns, 0, i) # Nil
      <4>1. Full(ns, 0, n)
        BY <1>1 DEF Hashed
      <4> QED
        BY <2>1, <4>1 DEF Full
    <3>7. Node(ns, 0, i) = Commit(ls[i + 1])
      BY <3>5, <3>6 DEF Paired
    <3> QED
      BY <3>1, <3>2, <3>3, <3>4, <3>7
  <2> QED
    BY <2>1
<1>4. ASSUME NEW l \in Nat, l \in S PROVE l + 1 \in S
  <2> SUFFICES ASSUME l + 1 <= d, NEW i \in Nat, i * 2^(l + 1) < n
               PROVE  Node(ns, l + 1, i) = tree[<<i * 2^(l + 1), Upper(n, i, l + 1)>>]
    OBVIOUS
  <2>1. PICK p \in Nat \ {0} : p = 2^l /\ 2^(l + 1) = 2 * p /\ i * (2 * p) < n
    BY PowerType, PowerStep
  <2>2. PICK u : u = Upper(n, i, l + 1)
    OBVIOUS
  <2>3. PICK lo : lo = (2 * i) * p
    OBVIOUS
  <2>4. /\ i * 2^(l + 1) = lo /\ (2 * i) * 2^l < n
        /\ (2 * i + 1) * p < n => /\ Upper(n, 2 * i, l) = (2 * i + 1) * p
                                  /\ Upper(n, 2 * i + 1, l) = u
                                  /\ u \in 0..n /\ lo + p < u /\ u <= lo + 2 * p
        /\ ~((2 * i + 1) * p < n) => Upper(n, 2 * i, l) = u
    <3> HIDE DEF n
    <3> QED
      BY <1>1, <2>1, <2>2, <2>3, UpperSteps
  <2>5. lo \in 0..n /\ (2 * i + 1) * p = lo + p /\ 2 * i \in Nat /\ 2 * i + 1 \in Nat
    <3>1. lo \in Nat /\ (2 * i + 1) * p = lo + p
      BY <2>3
    <3>2. lo < n
      BY <2>1, <2>3, <2>4
    <3> QED
      BY <1>1, <3>1, <3>2
  <2>6. \A j \in Nat : j * p < n => Node(ns, l, j) = tree[<<j * p, Upper(n, j, l)>>]
    BY <1>1, <1>4, <2>1
  <2>7. Node(ns, l, 2 * i) = tree[<<lo, Upper(n, 2 * i, l)>>]
    BY <2>1, <2>3, <2>4, <2>5, <2>6
  <2>8. Node(ns, l + 1, i) = Up(Node(ns, l, 2 * i), Node(ns, l, 2 * i + 1))
    <3>1. Good(ns, l + 1, i) /\ (l + 1) - 1 = l
      BY <1>1 DEF Hashed
    <3> QED
      BY <3>1 DEF Good
  <2>9. Node(ns, l, 2 * i + 1) # Nil <=> (2 * i + 1) * p < n
    <3>1. l \in 0..d
      BY <1>1
    <3> QED
      BY <2>1, <2>5, <3>1 DEF Hashed, Full
  <2>10. CASE (2 * i + 1) * p < n
    <3>1. Node(ns, l + 1, i) = Hash2(Node(ns, l, 2 * i), Node(ns, l, 2 * i + 1))
      BY <2>8, <2>9, <2>10 DEF Up
    <3>2. Node(ns, l, 2 * i) = tree[<<lo, lo + p>>] /\ Node(ns, l, 2 * i + 1) = tree[<<lo + p, u>>]
      BY <2>4, <2>5, <2>6, <2>7, <2>10
    <3>3. u - lo \in Nat /\ p < u - lo /\ u - lo <= 2 * p /\ ~(u <= lo + 1)
      BY <1>1, <2>1, <2>4, <2>5, <2>10
    <3>4. Split(u - lo) = p
      BY <2>1, <3>3, SplitIs
    <3>5. tree[<<lo, u>>] = SpanHash(ls, tree, lo, u)
      BY <1>2, <2>4, <2>5, <2>10
    <3>6. SpanHash(ls, tree, lo, u) = Hash2(tree[<<lo, lo + p>>], tree[<<lo + p, u>>])
      BY <3>3, <3>4 DEF SpanHash
    <3> QED
      BY <2>2, <2>4, <3>1, <3>2, <3>5, <3>6
  <2>11. CASE ~((2 * i + 1) * p < n)
    <3>1. Node(ns, l + 1, i) = Node(ns, l, 2 * i)
      BY <2>8, <2>9, <2>11 DEF Up
    <3> QED
      BY <2>2, <2>4, <2>7, <2>11, <3>1
  <2> QED
    BY <2>10, <2>11
<1>5. \A l \in Nat : l \in S
  <2> HIDE DEF S
  <2> QED
    BY <1>3, <1>4, Induction
<1> QED
  BY <1>5 DEF tree

\* A level has as many slots as it has nodes above leaves.
LEMMA RowLength ==
  ASSUME NEW ls \in Seq(Leaf), NEW ns, Levels(ns), Paired(ls, ns), Hashed(ns, Len(ls)), ls # <<>>,
         NEW l \in 0..TargetDepth(Len(ls))
  PROVE  Len(Row(ns, l)) = Width(Len(ls), l)
<1> DEFINE n == Len(ls)
<1>1. n \in Nat \ {0} /\ TargetDepth(n) \in Nat
  BY EmptySeq, DepthIs
<1>2. l \in Nat
  BY <1>1
<1>3. PICK k \in Nat : k = Len(Row(ns, l))
  BY <1>2, RowType
<1>4. PICK p \in Nat \ {0} : p = 2^l
  BY <1>2, PowerType
<1>5. \A i \in Nat : Node(ns, l, i) # Nil <=> i * p < n
  BY <1>4 DEF Hashed, Full
<1>6. ~(k * p < n)
  <2>1. Node(ns, l, k) = Nil
    BY <1>3 DEF Node, SlotAt
  <2> QED
    BY <1>5, <2>1
<1>7. k # 0
  BY <1>1, <1>4, <1>6
<1>8. (k - 1) * p < n
  <2>1. k - 1 \in Nat
    BY <1>7
  <2>2. CASE l = 0
    <3>1. k = n /\ p = 1
      BY <1>3, <1>4, <2>2, LevelZeroIs, PowerZero
    <3> QED
      BY <1>1, <3>1
  <2>3. CASE l # 0
    <3>1. Row(ns, l) # <<>>
      BY <1>3, <1>7
    <3>2. Node(ns, l, k - 1) # Nil
      BY <1>2, <1>3, <2>3, <3>1 DEF Hashed, Tight
    <3> QED
      BY <1>5, <2>1, <3>2
  <2> QED
    BY <2>2, <2>3
<1>9. PICK q \in Nat : q = (n + p - 1) \div p /\ p * q <= n + p - 1 /\ n + p - 1 < p * q + p
  <2>1. PICK m \in Nat : m = n + p - 1
    <3>1. n + p - 1 \in Nat
      BY <1>1
    <3> QED
      BY <3>1
  <2>2. m \div p \in Nat /\ m = p * (m \div p) + (m % p) /\ m % p \in 0..(p - 1)
    BY DivisionIs
  <2>3. PICK q \in Nat : q = m \div p
    BY <2>2
  <2>4. p * q \in Nat
    BY <2>3
  <2>5. p * q <= m /\ m < p * q + p
    BY <2>2, <2>3, <2>4
  <2> QED
    BY <2>1, <2>3, <2>5
<1>10. k = q
  <2>1. p * q < (k + 1) * p
    <3>1. k * p \in Nat /\ p * q \in Nat /\ (k + 1) * p = k * p + p
      OBVIOUS
    <3> QED
      BY <1>1, <1>6, <1>9, <3>1
  <2>2. k * p < p * q + p
    <3>1. k * p \in Nat /\ p * q \in Nat /\ (k - 1) * p = k * p - p
      OBVIOUS
    <3> QED
      BY <1>1, <1>8, <1>9, <3>1
  <2>3. ~(q >= k + 1)
    <3>1. q >= k + 1 => p * q >= p * (k + 1)
      OBVIOUS
    <3>2. p * (k + 1) = (k + 1) * p /\ p * (k + 1) \in Nat /\ p * q \in Nat
      OBVIOUS
    <3> QED
      BY <2>1, <3>1, <3>2
  <2>4. ~(k >= q + 1)
    <3>1. k >= q + 1 => k * p >= (q + 1) * p
      OBVIOUS
    <3>2. (q + 1) * p = p * q + p /\ k * p \in Nat /\ p * q \in Nat
      OBVIOUS
    <3> QED
      BY <2>2, <3>1, <3>2
  <2> QED
    BY <2>3, <2>4
<1> QED
  BY <1>3, <1>4, <1>9, <1>10 DEF Width

\* So the levels of a tree at rest are those the leaves determine.
LEMMA HashedIsReference ==
  ASSUME NEW ls \in Seq(Leaf), NEW ns, Levels(ns), Paired(ls, ns), Hashed(ns, Len(ls)), ls # <<>>
  PROVE  ns = ReferenceNodes(ls)
<1> DEFINE n == Len(ls)
           d == TargetDepth(n)
           row(l) == [i \in 1..Width(n, l - 1) |->
                        Subtree(ls)[<<(i - 1) * 2^(l - 1), Upper(n, i - 1, l - 1)>>]]
<1>1. n \in Nat \ {0} /\ d \in Nat /\ CeilLog2(n) = d
  BY EmptySeq, DepthIs, CeilLog2Is
<1>2. ReferenceNodes(ls) = [l \in 1..(d + 1) |-> row(l)]
  BY <1>1 DEF ReferenceNodes
<1>3. ns = [l \in 1..(d + 1) |-> ns[l]]
  <2>1. Len(ns) = d + 1 /\ ns = [l \in 1..Len(ns) |-> ns[l]]
    BY DEF Hashed, Levels
  <2> QED
    BY <2>1
<1>4. ASSUME NEW l \in 1..(d + 1) PROVE ns[l] = row(l)
  <2>1. PICK k \in 0..d : k = l - 1 /\ k + 1 = l /\ k \in Nat /\ k <= d
    BY <1>1
  <2>2. Row(ns, k) = ns[l]
    <3>1. k < Len(ns)
      BY <1>1, <2>1 DEF Hashed
    <3> QED
      BY <2>1, <3>1 DEF Row
  <2>3. PICK w \in Nat : w = Width(n, k) /\ Len(ns[l]) = w /\ IsRow(ns[l])
    BY <2>1, <2>2, RowLength, RowType
  <2>4. ns[l] = [i \in 1..w |-> ns[l][i]]
    BY <2>3 DEF IsRow
  <2>5. ASSUME NEW i \in 1..w PROVE ns[l][i] = Subtree(ls)[<<(i - 1) * 2^k, Upper(n, i - 1, k)>>]
    <3>1. PICK j \in Nat : j = i - 1 /\ j + 1 = i /\ j < w
      BY <2>3
    <3>2. Node(ns, k, j) = ns[l][i]
      BY <2>2, <2>3, <3>1 DEF Node, SlotAt
    <3>3. j * 2^k < n
      <4>1. PICK p \in Nat \ {0} : p = 2^k
        BY <2>1, PowerType
      <4>2. PICK m \in Nat : m = n + p - 1
        <5>1. n + p - 1 \in Nat
          BY <1>1
        <5> QED
          BY <5>1
      <4>3. w = m \div p
        BY <2>3, <4>1, <4>2 DEF Width
      <4>4. m = p * w + (m % p) /\ m % p \in Nat
        <5>1. m = p * (m \div p) + (m % p) /\ m % p \in 0..(p - 1)
          BY DivisionIs
        <5> QED
          BY <4>3, <5>1
      <4>5. p * w \in Nat /\ j * p + p <= p * w /\ j * p \in Nat
        <5>1. (j + 1) * p <= w * p
          BY <2>3, <3>1
        <5>2. (j + 1) * p = j * p + p /\ w * p = p * w
          BY <2>3, <3>1
        <5> QED
          BY <2>3, <5>1, <5>2
      <4>6. j * p < n
        BY <1>1, <4>2, <4>4, <4>5
      <4> QED
        BY <4>1, <4>6
    <3>4. Node(ns, k, j) = Subtree(ls)[<<j * 2^k, Upper(n, j, k)>>]
      BY <2>1, <3>3, NodeIsSpan
    <3> QED
      BY <3>1, <3>2, <3>4
  <2>6. ns[l] = [i \in 1..w |-> Subtree(ls)[<<(i - 1) * 2^k, Upper(n, i - 1, k)>>]]
    BY <2>4, <2>5
  <2> QED
    BY <2>1, <2>3, <2>6
<1> HIDE DEF row
<1> QED
  BY <1>2, <1>3, <1>4

\* What every theorem about a tree at rest needs.
LEMMA AtRest ==
  ASSUME TreeInv, MerkleInv, pc = "idle", clean, leaves # <<>>
  PROVE  /\ leaves \in Seq(Leaf) /\ Levels(nodes) /\ Paired(leaves, nodes) /\ Linking(leaves)
         /\ Hashed(nodes, Len(leaves)) /\ Len(leaves) \in Nat /\ Len(leaves) > 1
<1>1. Len(leaves) # 0
  BY LeafCount
<1> QED
  BY <1>1, LeafCount DEF TreeInv, MerkleInv

\* While no batch has failed, every level a reader sees is the one the leaves determine
\* (recomputeLocked, after any mix of naive and sorted batches and imports).
THEOREM LevelsAsDetermined == Spec => []MerkleConsistent
<1>1. TreeInv /\ MerkleInv => MerkleConsistent
  BY AtRest, HashedIsReference DEF MerkleConsistent, idle
<1> QED
  BY <1>1, MerkleInvariant, PTL

\* README "Depth: dynamic, ceil(log2(leafCount))" holds of a tree no batch has damaged
\* (the run DepthIsCeilLog2 shows one that it does not hold of).
THEOREM DepthWhenClean ==
  Spec => [](idle /\ clean /\ leaves # <<>> => Depth(nodes) = CeilLog2(Len(leaves)))
<1>1. TreeInv /\ MerkleInv => (idle /\ clean /\ leaves # <<>> => Depth(nodes) = CeilLog2(Len(leaves)))
  <2> SUFFICES ASSUME TreeInv, MerkleInv, idle, clean, leaves # <<>>
               PROVE  Depth(nodes) = CeilLog2(Len(leaves))
    OBVIOUS
  <2>1. Hashed(nodes, Len(leaves)) /\ Len(leaves) \in Nat \ {0}
    BY AtRest DEF idle
  <2>2. TargetDepth(Len(leaves)) \in Nat /\ CeilLog2(Len(leaves)) = TargetDepth(Len(leaves))
    BY <2>1, DepthIs, CeilLog2Is
  <2> QED
    BY <2>1, <2>2 DEF Hashed, Depth
<1> QED
  BY <1>1, MerkleInvariant, PTL

-----------------------------------------------------------------------------
(* Proofs: generation collects a path, verification walks it.              *)

\* What buildProofLocked has collected below level l, given it for the levels below.
Collected(ns, phys, f, l) ==
  IF l = 0 THEN <<>>
  ELSE LET s == PathStep(ns, l - 1, phys) IN
       IF s.sibling # Nil THEN Append(f[l - 1], s) ELSE f[l - 1]

\* PathOf is what the loop has at its end.
LEMMA PathIs ==
  ASSUME NEW ns, NEW phys, Depth(ns) \in Nat
  PROVE  \E f : /\ PathOf(ns, phys) = f[Depth(ns)]
                /\ \A l \in 0..Depth(ns) : f[l] = Collected(ns, phys, f, l)
<1> DEFINE d == Depth(ns)
           P(f) == f = [l \in 0..d |-> Collected(ns, phys, f, l)]
           S == {k \in Nat : \E f : \A l \in 0..k : f[l] = Collected(ns, phys, f, l)}
<1>1. 0 \in S
  <2>1. PICK f : f = [l \in 0..0 |-> <<>>]
    OBVIOUS
  <2>2. \A l \in 0..0 : f[l] = Collected(ns, phys, f, l)
    BY <2>1 DEF Collected
  <2> QED
    BY <2>2
<1>2. ASSUME NEW k \in Nat, k \in S PROVE k + 1 \in S
  <2>1. PICK f : \A l \in 0..k : f[l] = Collected(ns, phys, f, l)
    BY <1>2
  <2>2. PICK g : g = [l \in 0..(k + 1) |-> Collected(ns, phys, f, l)]
    OBVIOUS
  <2>3. \A l \in 0..k : g[l] = f[l]
    BY <2>1, <2>2
  <2>4. ASSUME NEW l \in 0..(k + 1) PROVE g[l] = Collected(ns, phys, g, l)
    <3>1. g[l] = Collected(ns, phys, f, l)
      BY <2>2
    <3>2. l # 0 => l - 1 \in 0..k
      OBVIOUS
    <3> QED
      BY <2>3, <3>1, <3>2 DEF Collected
  <2> QED
    BY <2>4
<1>3. d \in S
  <2> HIDE DEF S
  <2> QED
    BY <1>1, <1>2, Induction
<1>4. PICK f : \A l \in 0..d : f[l] = Collected(ns, phys, f, l)
  BY <1>3
<1>5. PICK g : g = [l \in 0..d |-> Collected(ns, phys, f, l)]
  OBVIOUS
<1>6. \A l \in 0..d : g[l] = f[l]
  BY <1>4, <1>5
<1>7. \A l \in 0..d : Collected(ns, phys, f, l) = Collected(ns, phys, g, l)
  <2>1. \A l \in 0..d : l # 0 => l - 1 \in 0..d
    OBVIOUS
  <2> QED
    BY <1>6, <2>1 DEF Collected
<1>8. P(g)
  BY <1>5, <1>7
<1>9. PathOf(ns, phys) = (CHOOSE h : P(h))[d]
  BY DEF PathOf, Collected
<1>10. PICK h : h = CHOOSE h0 : P(h0)
  OBVIOUS
<1>11. P(h)
  <2> HIDE DEF P
  <2> QED
    BY <1>8, <1>10
<1>12. \A l \in 0..d : h[l] = Collected(ns, phys, h, l)
  BY <1>11
<1> HIDE DEF P
<1> QED
  BY <1>9, <1>10, <1>12

\* What walkPath has after k siblings, given it after fewer.
Walked(c, path, f, k) == IF k = 0 THEN c ELSE WalkStep(f[k - 1], path[k])

\* WalkPath is what the loop has at its end.
LEMMA WalkIs ==
  ASSUME NEW c, NEW path, Len(path) \in Nat
  PROVE  \E f : /\ WalkPath(c, path) = f[Len(path)]
                /\ \A k \in 0..Len(path) : f[k] = Walked(c, path, f, k)
<1> DEFINE n == Len(path)
           P(f) == f = [k \in 0..n |-> Walked(c, path, f, k)]
           S == {m \in Nat : \E f : \A k \in 0..m : f[k] = Walked(c, path, f, k)}
<1>1. 0 \in S
  <2>1. PICK f : f = [k \in 0..0 |-> c]
    OBVIOUS
  <2>2. \A k \in 0..0 : f[k] = Walked(c, path, f, k)
    BY <2>1 DEF Walked
  <2> QED
    BY <2>2
<1>2. ASSUME NEW m \in Nat, m \in S PROVE m + 1 \in S
  <2>1. PICK f : \A k \in 0..m : f[k] = Walked(c, path, f, k)
    BY <1>2
  <2>2. PICK g : g = [k \in 0..(m + 1) |-> Walked(c, path, f, k)]
    OBVIOUS
  <2>3. \A k \in 0..m : g[k] = f[k]
    BY <2>1, <2>2
  <2>4. ASSUME NEW k \in 0..(m + 1) PROVE g[k] = Walked(c, path, g, k)
    <3>1. g[k] = Walked(c, path, f, k)
      BY <2>2
    <3>2. k # 0 => k - 1 \in 0..m
      OBVIOUS
    <3> QED
      BY <2>3, <3>1, <3>2 DEF Walked
  <2> QED
    BY <2>4
<1>3. n \in S
  <2> HIDE DEF S
  <2> QED
    BY <1>1, <1>2, Induction
<1>4. PICK f : \A k \in 0..n : f[k] = Walked(c, path, f, k)
  BY <1>3
<1>5. PICK g : g = [k \in 0..n |-> Walked(c, path, f, k)]
  OBVIOUS
<1>6. \A k \in 0..n : g[k] = f[k]
  <2> QED
    BY <1>4, <1>5
<1>7. \A k \in 0..n : Walked(c, path, f, k) = Walked(c, path, g, k)
  <2>1. \A k \in 0..n : k # 0 => k - 1 \in 0..n
    OBVIOUS
  <2> QED
    BY <1>6, <2>1 DEF Walked
<1>8. P(g)
  <2> QED
    BY <1>5, <1>7
<1>9. WalkPath(c, path) = (CHOOSE h : P(h))[n]
  BY DEF WalkPath, Walked
<1>10. PICK h : h = CHOOSE h0 : P(h0)
  OBVIOUS
<1>11. P(h)
  <2> HIDE DEF P
  <2> QED
    BY <1>8, <1>10
<1>12. \A k \in 0..n : h[k] = Walked(c, path, h, k)
  <2>1. h = [k \in 0..n |-> Walked(c, path, h, k)]
    BY <1>11
  <2> QED
    BY <2>1
<1> HIDE DEF P
<1> QED
  BY <1>9, <1>10, <1>12

\* Without siblings the walk ends where it begins.
LEMMA WalkEmpty ==
  ASSUME NEW c, NEW path, Len(path) = 0
  PROVE  WalkPath(c, path) = c
  BY WalkIs DEF Walked

\* a is q and then s.
Longer(q, a, s) ==
  /\ Len(q) \in Nat /\ Len(a) = Len(q) + 1 /\ a[Len(q) + 1] = s
  /\ \A k \in 1..Len(q) : a[k] = q[k]

\* One sibling more is one step more.
LEMMA WalkLonger ==
  ASSUME NEW c, NEW alt, NEW path, NEW s, Longer(alt, path, s)
  PROVE  WalkPath(c, path) = WalkStep(WalkPath(c, alt), s)
<1>0. PICK m \in Nat : m = Len(alt) /\ Len(path) = m + 1 /\ path[m + 1] = s /\ \A k \in 1..m : path[k] = alt[k]
  BY DEF Longer
<1>1. PICK f : /\ WalkPath(c, path) = f[m + 1]
               /\ \A k \in 0..(m + 1) : f[k] = Walked(c, path, f, k)
  <2>1. Len(path) \in Nat
    BY <1>0
  <2> QED
    BY <1>0, <2>1, WalkIs
<1>2. PICK g : /\ WalkPath(c, alt) = g[m]
               /\ \A k \in 0..m : g[k] = Walked(c, alt, g, k)
  BY <1>0, WalkIs
<1> DEFINE S == {k \in Nat : k <= m => f[k] = g[k]}
<1>3. 0 \in S
  BY <1>1, <1>2 DEF Walked
<1>4. ASSUME NEW k \in Nat, k \in S PROVE k + 1 \in S
  <2> SUFFICES ASSUME k + 1 <= m PROVE f[k + 1] = g[k + 1]
    OBVIOUS
  <2>1. f[k] = g[k] /\ k + 1 \in 0..m /\ k + 1 \in 0..(m + 1) /\ k + 1 \in 1..m /\ (k + 1) - 1 = k /\ k + 1 # 0
    BY <1>4
  <2>2. f[k + 1] = WalkStep(f[k], path[k + 1])
    BY <1>1, <2>1 DEF Walked
  <2>3. g[k + 1] = WalkStep(g[k], alt[k + 1])
    BY <1>2, <2>1 DEF Walked
  <2> QED
    BY <1>0, <2>1, <2>2, <2>3
<1>5. m \in S
  <2> HIDE DEF S
  <2> QED
    BY <1>3, <1>4, Induction
<1>6. m + 1 \in 0..(m + 1) /\ m + 1 # 0 /\ (m + 1) - 1 = m
  OBVIOUS
<1>7. f[m + 1] = WalkStep(f[m], path[m + 1])
  BY <1>1, <1>6 DEF Walked
<1> QED
  BY <1>0, <1>1, <1>2, <1>5, <1>7

\* Hash2 is free of collisions.
LEMMA Hash2Injective ==
  ASSUME NEW a, NEW b, NEW c, NEW e, Hash2(a, b) = Hash2(c, e)
  PROVE  a = c /\ b = e
<1>1. Hash2(a, b).left = a /\ Hash2(a, b).right = b /\ Hash2(c, e).left = c /\ Hash2(c, e).right = e
  BY DEF Hash2
<1> QED
  BY <1>1

\* So is a commitment.
LEMMA CommitInjective ==
  ASSUME NEW a \in Leaf, NEW b \in Leaf, Commit(a) = Commit(b)
  PROVE  a.value = b.value /\ a.next = b.next
<1>1. Commit(a).value = a.value /\ Commit(a).next = a.next /\ Commit(b).value = b.value /\ Commit(b).next = b.next
  BY DEF Commit
<1> QED
  BY <1>1

\* Up one level of a tree at rest: a level without a sibling promotes the node; elsewhere
\* the node above is the hash of the node and its sibling, on the side the path bit says.
LEMMA LevelStep ==
  ASSUME NEW ns, Levels(ns), NEW n \in Nat, Hashed(ns, n), NEW phys \in Nat, phys < n,
         NEW l \in Nat, l < TargetDepth(n)
  PROVE  LET own  == Node(ns, l, phys \div 2^l)
             next == Node(ns, l + 1, phys \div 2^(l + 1))
             s    == PathStep(ns, l, phys)
         IN  /\ s.sibling = Nil => next = own
             /\ s.sibling # Nil => next = WalkStep(own, s)
             /\ s.sibling # Nil => next \in {Hash2(own, s.sibling), Hash2(s.sibling, own)}
<1>1. PICK p \in Nat \ {0} : p = 2^l /\ 2^(l + 1) = 2 * p
  BY PowerType, PowerStep
<1>2. PICK i \in Nat : i = phys \div p /\ i * p <= phys
  <2>1. phys \div p \in Nat /\ phys = p * (phys \div p) + (phys % p) /\ phys % p \in 0..(p - 1)
    BY DivisionIs
  <2>2. PICK i \in Nat : i = phys \div p
    BY <2>1
  <2>3. p * i = i * p /\ i * p \in Nat
    BY <2>2
  <2> QED
    BY <2>1, <2>2, <2>3
<1>3. PICK j \in Nat : j = i \div 2
  OBVIOUS
<1>4. phys \div (2 * p) = j
  BY <1>2, <1>3, DivisionHalves
<1>5. TargetDepth(n) \in Nat /\ l + 1 \in 1..TargetDepth(n) /\ l \in 0..TargetDepth(n)
  BY TargetDepthType
<1>6. Node(ns, l + 1, j) = Up(Node(ns, l, 2 * j), Node(ns, l, 2 * j + 1))
  <2>1. Good(ns, l + 1, j) /\ (l + 1) - 1 = l
    BY <1>5 DEF Hashed
  <2> QED
    BY <2>1 DEF Good
<1>7. \A k \in Nat : Node(ns, l, k) # Nil <=> k * p < n
  BY <1>1, <1>5 DEF Hashed, Full
<1>8. Node(ns, l, i) # Nil
  <2>1. i * p \in Nat
    OBVIOUS
  <2>2. i * p < n
    BY <1>2, <2>1
  <2> QED
    BY <1>7, <2>2
<1>9. PICK s : s = PathStep(ns, l, phys)
  OBVIOUS
<1>10. s.right = (i % 2 = 1) /\ s.sibling = Node(ns, l, SiblingIndex(i))
  <2>1. l < Len(ns)
    BY <1>5 DEF Hashed
  <2>2. Row(ns, l) = ns[l + 1]
    BY <2>1 DEF Row
  <2> QED
    BY <1>1, <1>2, <1>9, <2>2 DEF PathStep, Node
<1>11. CASE i % 2 = 1
  <2>1. i = 2 * j + 1 /\ SiblingIndex(i) = 2 * j
    BY <1>3, <1>11 DEF SiblingIndex
  <2>2. Node(ns, l + 1, j) = Hash2(s.sibling, Node(ns, l, i))
    BY <1>6, <1>8, <1>10, <2>1 DEF Up
  <2>3. s.sibling # Nil
    <3>1. (2 * j) * p <= i * p /\ (2 * j) * p \in Nat /\ i * p \in Nat
      <4>1. (2 * j + 1) * p = (2 * j) * p + p
        OBVIOUS
      <4> QED
        BY <2>1, <4>1
    <3>2. i * p < n
      BY <1>7, <1>8
    <3>3. (2 * j) * p < n /\ 2 * j \in Nat
      BY <3>1, <3>2
    <3> QED
      BY <1>7, <1>10, <2>1, <3>3
  <2>4. Node(ns, l + 1, j) = WalkStep(Node(ns, l, i), s)
    BY <1>10, <1>11, <2>2 DEF WalkStep
  <2> QED
    BY <1>1, <1>2, <1>4, <1>9, <2>2, <2>3, <2>4
<1>12. CASE ~(i % 2 = 1)
  <2>1. i = 2 * j /\ SiblingIndex(i) = 2 * j + 1
    BY <1>3, <1>12 DEF SiblingIndex
  <2>2. s.sibling = Nil => Node(ns, l + 1, j) = Node(ns, l, i)
    BY <1>6, <1>10, <2>1 DEF Up
  <2>3. s.sibling # Nil => Node(ns, l + 1, j) = Hash2(Node(ns, l, i), s.sibling)
    BY <1>6, <1>10, <2>1 DEF Up
  <2>4. s.sibling # Nil => Node(ns, l + 1, j) = WalkStep(Node(ns, l, i), s)
    BY <1>10, <1>12, <2>3 DEF WalkStep
  <2> QED
    BY <1>1, <1>2, <1>4, <1>9, <2>2, <2>3, <2>4
<1> QED
  BY <1>11, <1>12

\* At the root there is one node, which every leaf is below.
LEMMA RootIsTop ==
  ASSUME NEW n \in Nat \ {0}, NEW phys \in Nat, phys < n
  PROVE  phys \div 2^TargetDepth(n) = 0 /\ phys \div 2^0 = phys
<1>1. TargetDepth(n) \in Nat /\ n <= 2^TargetDepth(n)
  BY DepthIs
<1>2. PICK p \in Nat \ {0} : p = 2^TargetDepth(n)
  BY <1>1, PowerType
<1>3. phys < p
  BY <1>1, <1>2
<1>4. phys \div p = 0
  BY <1>3
<1> QED
  BY <1>2, <1>4, PowerZero

\* f is what the loop has level by level.
Collects(ns, phys, f, d) == \A l \in 0..d : f[l] = Collected(ns, phys, f, l)

\* Collecting one level adds its sibling, if it has one.
LEMMA CollectsNext ==
  ASSUME NEW ns, NEW phys, NEW f, NEW d \in Nat, Collects(ns, phys, f, d),
         NEW l \in Nat, l < d
  PROVE  LET s == PathStep(ns, l, phys)
         IN  f[l + 1] = IF s.sibling # Nil THEN Append(f[l], s) ELSE f[l]
<1>1. l + 1 \in 0..d /\ l + 1 # 0 /\ (l + 1) - 1 = l
  OBVIOUS
<1>2. f[l + 1] = Collected(ns, phys, f, l + 1)
  BY <1>1 DEF Collects
<1> QED
  BY <1>1, <1>2 DEF Collected

\* The steps of the levels below d that have a sibling.
Siblinged(ns, phys, d) == {s \in {PathStep(ns, l, phys) : l \in 0..(d - 1)} : s.sibling # Nil}

\* What is collected is a sequence.
LEMMA CollectsSequence ==
  ASSUME NEW ns, NEW phys, NEW f, NEW d \in Nat, Collects(ns, phys, f, d)
  PROVE  \A l \in 0..d : f[l] \in Seq(Siblinged(ns, phys, d))
<1> DEFINE X == Siblinged(ns, phys, d)
           S == {l \in Nat : l <= d => f[l] \in Seq(X)}
<1>1. 0 \in S
  <2>1. 0 \in 0..d
    OBVIOUS
  <2>2. f[0] = <<>>
    BY <2>1 DEF Collects, Collected
  <2>3. <<>> \in Seq(X)
    OBVIOUS
  <2> QED
    BY <2>2, <2>3
<1>2. ASSUME NEW l \in Nat, l \in S PROVE l + 1 \in S
  <2> SUFFICES ASSUME l + 1 <= d PROVE f[l + 1] \in Seq(X)
    OBVIOUS
  <2>1. f[l] \in Seq(X) /\ l < d /\ l \in 0..(d - 1)
    BY <1>2
  <2>2. PICK s : s = PathStep(ns, l, phys)
    OBVIOUS
  <2>3. f[l + 1] = IF s.sibling # Nil THEN Append(f[l], s) ELSE f[l]
    BY <2>1, <2>2, CollectsNext
  <2>4. s.sibling # Nil => s \in X
    BY <2>1, <2>2 DEF Siblinged
  <2> HIDE DEF X
  <2> QED
    BY <2>1, <2>3, <2>4
<1>3. \A l \in Nat : l \in S
  <2> HIDE DEF S
  <2> QED
    BY <1>1, <1>2, Induction
<1> QED
  BY <1>3

\* So appending to it is appending.
LEMMA CollectsMore ==
  ASSUME NEW ns, NEW phys, NEW f, NEW d \in Nat, Collects(ns, phys, f, d), NEW l \in 0..d,
         NEW s, s = PathStep(ns, l, phys)
  PROVE  Longer(f[l], Append(f[l], s), s)
<1>1. PICK q, X : q = f[l] /\ q \in Seq(X)
  BY CollectsSequence
<1>2. Append(q, s) = [k \in 1..(Len(q) + 1) |-> IF k = Len(q) + 1 THEN s ELSE q[k]]
  BY <1>1, AppendIs
<1>3. Longer(q, Append(q, s), s)
  BY <1>1, <1>2 DEF Longer
<1> QED
  BY <1>1, <1>3

\* The directions of a path can be changed alone.
LEMMA PathIsSequence ==
  ASSUME NEW ns, NEW phys, Depth(ns) \in Nat
  PROVE  LET path == PathOf(ns, phys)
         IN  /\ Len(path) \in Nat
             /\ \A k \in 1..Len(path) : \A right : [path[k] EXCEPT !.right = right].sibling = path[k].sibling
<1> DEFINE X == Siblinged(ns, phys, Depth(ns))
<1>1. PICK f : PathOf(ns, phys) = f[Depth(ns)] /\ Collects(ns, phys, f, Depth(ns))
  BY PathIs DEF Collects
<1>2. PICK path : path = PathOf(ns, phys) /\ path \in Seq(X)
  <2>1. Depth(ns) \in 0..Depth(ns)
    OBVIOUS
  <2> QED
    BY <1>1, <2>1, CollectsSequence
<1>3. ASSUME NEW s \in X, NEW right PROVE [s EXCEPT !.right = right].sibling = s.sibling
  BY DEF PathStep, Siblinged
<1> HIDE DEF X
<1> QED
  BY <1>2, <1>3

\* A path generated leads from its leaf to the root.
LEMMA WalkReaches ==
  ASSUME NEW ns, Levels(ns), NEW n \in Nat \ {0}, Hashed(ns, n), NEW phys \in Nat, phys < n
  PROVE  WalkPath(Node(ns, 0, phys), PathOf(ns, phys)) = Node(ns, TargetDepth(n), 0)
<1> DEFINE d == TargetDepth(n)
           c == Node(ns, 0, phys)
<1>1. d \in Nat /\ Depth(ns) = d
  BY TargetDepthType DEF Hashed, Depth
<1>2. PICK f : PathOf(ns, phys) = f[d] /\ Collects(ns, phys, f, d)
  BY <1>1, PathIs DEF Collects
<1> DEFINE S == {l \in Nat : l <= d => WalkPath(c, f[l]) = Node(ns, l, phys \div 2^l)}
<1>3. 0 \in S
  <2>1. f[0] = <<>> /\ phys \div 2^0 = phys
    BY <1>1, <1>2, RootIsTop DEF Collects, Collected
  <2>2. WalkPath(c, <<>>) = c
    <3>1. Len(<<>>) = 0
      OBVIOUS
    <3> QED
      BY <3>1, WalkEmpty
  <2> QED
    BY <2>1, <2>2
<1>4. ASSUME NEW l \in Nat, l \in S PROVE l + 1 \in S
  <2> SUFFICES ASSUME l + 1 <= d PROVE WalkPath(c, f[l + 1]) = Node(ns, l + 1, phys \div 2^(l + 1))
    OBVIOUS
  <2>1. l < d /\ l \in 0..d /\ WalkPath(c, f[l]) = Node(ns, l, phys \div 2^l)
    BY <1>1, <1>4
  <2>2. PICK own, next, s : /\ own = Node(ns, l, phys \div 2^l) /\ next = Node(ns, l + 1, phys \div 2^(l + 1))
                            /\ s = PathStep(ns, l, phys)
    OBVIOUS
  <2>3. (s.sibling = Nil => next = own) /\ (s.sibling # Nil => next = WalkStep(own, s))
    BY <2>1, <2>2, LevelStep
  <2>4. f[l + 1] = IF s.sibling # Nil THEN Append(f[l], s) ELSE f[l]
    BY <1>1, <1>2, <2>1, <2>2, CollectsNext
  <2>5. CASE s.sibling = Nil
    BY <2>1, <2>2, <2>3, <2>4, <2>5
  <2>6. CASE s.sibling # Nil
    <3>1. Longer(f[l], f[l + 1], s)
      BY <1>1, <1>2, <2>1, <2>2, <2>4, <2>6, CollectsMore
    <3>2. WalkPath(c, f[l + 1]) = WalkStep(WalkPath(c, f[l]), s)
      <4> HIDE DEF c
      <4> QED
        BY <3>1, WalkLonger
    <3> QED
      BY <2>1, <2>2, <2>3, <2>6, <3>2
  <2> QED
    BY <2>5, <2>6
<1>5. d \in S
  <2> HIDE DEF S
  <2> QED
    BY <1>1, <1>3, <1>4, Induction
<1> QED
  BY <1>1, <1>2, <1>5, RootIsTop

\* A node is a slot.
LEMMA NodeType ==
  ASSUME NEW ns, Levels(ns), NEW l \in Nat, NEW i \in Nat
  PROVE  IsSlot(Node(ns, l, i))
<1>1. IsRow(Row(ns, l))
  BY RowType
<1> QED
  BY <1>1, SlotType DEF Node

\* alt has the siblings of path, on whatever sides, or what is no digest.
SameSiblings(alt, path) ==
  /\ Len(alt) = Len(path)
  /\ \A k \in 1..Len(path) : alt[k].sibling = path[k].sibling \/ ~IsSlot(alt[k].sibling)

\* Whatever the sides, the siblings of a leaf lead to the root from its commitment only.
LEMMA WalkOnly ==
  ASSUME NEW ns, Levels(ns), NEW n \in Nat \ {0}, Hashed(ns, n), NEW phys \in Nat, phys < n,
         NEW c, NEW alt, SameSiblings(alt, PathOf(ns, phys)),
         WalkPath(c, alt) = Node(ns, TargetDepth(n), 0)
  PROVE  c = Node(ns, 0, phys)
<1> DEFINE d == TargetDepth(n)
<1>1. d \in Nat /\ Depth(ns) = d
  BY TargetDepthType DEF Hashed, Depth
<1>2. PICK f : PathOf(ns, phys) = f[d] /\ Collects(ns, phys, f, d)
  BY <1>1, PathIs DEF Collects
<1> DEFINE S == {l \in Nat : l <= d =>
                   \A q : SameSiblings(q, f[l]) /\ WalkPath(c, q) = Node(ns, l, phys \div 2^l)
                          => c = Node(ns, 0, phys)}
<1>3. 0 \in S
  <2> SUFFICES ASSUME NEW q, SameSiblings(q, f[0]), WalkPath(c, q) = Node(ns, 0, phys \div 2^0)
               PROVE  c = Node(ns, 0, phys)
    OBVIOUS
  <2>1. f[0] = <<>> /\ phys \div 2^0 = phys
    BY <1>1, <1>2, RootIsTop DEF Collects, Collected
  <2>2. Len(q) = 0
    BY <2>1 DEF SameSiblings
  <2>3. WalkPath(c, q) = c
    BY <2>2, WalkEmpty
  <2> QED
    BY <2>1, <2>3
<1>4. ASSUME NEW l \in Nat, l \in S PROVE l + 1 \in S
  <2> SUFFICES ASSUME l + 1 <= d, NEW q, SameSiblings(q, f[l + 1]),
                      WalkPath(c, q) = Node(ns, l + 1, phys \div 2^(l + 1))
               PROVE  c = Node(ns, 0, phys)
    OBVIOUS
  <2>1. l < d /\ l \in 0..d
    BY <1>1
  <2>2. \A r : SameSiblings(r, f[l]) /\ WalkPath(c, r) = Node(ns, l, phys \div 2^l) => c = Node(ns, 0, phys)
    BY <1>4, <2>1
  <2>3. PICK own, next, s : /\ own = Node(ns, l, phys \div 2^l) /\ next = Node(ns, l + 1, phys \div 2^(l + 1))
                            /\ s = PathStep(ns, l, phys)
    OBVIOUS
  <2>4. /\ s.sibling = Nil => next = own
        /\ s.sibling # Nil => next = WalkStep(own, s) /\ next \in {Hash2(own, s.sibling), Hash2(s.sibling, own)}
    BY <2>1, <2>3, LevelStep
  <2>5. f[l + 1] = IF s.sibling # Nil THEN Append(f[l], s) ELSE f[l]
    BY <1>1, <1>2, <2>1, <2>3, CollectsNext
  <2>6. CASE s.sibling = Nil
    BY <2>2, <2>3, <2>4, <2>5, <2>6
  <2>7. CASE s.sibling # Nil
    <3>1. Longer(f[l], f[l + 1], s)
      BY <1>1, <1>2, <2>1, <2>3, <2>5, <2>7, CollectsMore
    <3>2. PICK m \in Nat : /\ m = Len(f[l]) /\ Len(f[l + 1]) = m + 1 /\ f[l + 1][m + 1] = s
                           /\ \A k \in 1..m : f[l + 1][k] = f[l][k]
      BY <3>1 DEF Longer
    <3>3. PICK r : r = [k \in 1..m |-> q[k]]
      OBVIOUS
    <3>4. Len(r) = m /\ \A k \in 1..m : r[k] = q[k]
      BY <3>3
    <3>5. /\ Len(q) = m + 1
          /\ \A k \in 1..(m + 1) : q[k].sibling = f[l + 1][k].sibling \/ ~IsSlot(q[k].sibling)
      BY <3>2 DEF SameSiblings
    <3>6. PICK t : t = q[m + 1] /\ (t.sibling = s.sibling \/ ~IsSlot(t.sibling))
      <4>1. m + 1 \in 1..(m + 1)
        OBVIOUS
      <4>2. q[m + 1].sibling = s.sibling \/ ~IsSlot(q[m + 1].sibling)
        BY <3>2, <3>5, <4>1
      <4> QED
        BY <4>2
    <3>7. WalkPath(c, q) = WalkStep(WalkPath(c, r), t) /\ SameSiblings(r, f[l])
      <4>1. Longer(r, q, t)
        BY <3>4, <3>5, <3>6 DEF Longer
      <4>2. SameSiblings(r, f[l])
        <5>1. ASSUME NEW k \in 1..m PROVE r[k].sibling = f[l][k].sibling \/ ~IsSlot(r[k].sibling)
          <6>1. k \in 1..(m + 1) /\ r[k] = q[k] /\ f[l + 1][k] = f[l][k]
            BY <3>2, <3>4
          <6> QED
            BY <3>5, <6>1
        <5> QED
          BY <3>2, <3>4, <5>1 DEF SameSiblings
      <4> QED
        BY <4>1, <4>2, WalkLonger
    <3>8. PICK y : y = WalkPath(c, r)
      OBVIOUS
    <3>9. next \in {Hash2(y, t.sibling), Hash2(t.sibling, y)}
      BY <2>3, <3>7, <3>8 DEF WalkStep
    <3>10. IsSlot(own)
      <4>1. phys \div 2^l \in Nat
        BY AncestorStep
      <4> QED
        BY <2>3, <4>1, NodeType
    <3>11. y = own
      BY <2>4, <2>7, <3>6, <3>9, <3>10, Hash2Injective
    <3> QED
      BY <2>2, <2>3, <3>7, <3>8, <3>11
  <2> QED
    BY <2>6, <2>7
<1>5. d \in S
  <2> HIDE DEF S
  <2> QED
    BY <1>1, <1>3, <1>4, Induction
<1>6. SameSiblings(alt, f[d]) /\ WalkPath(c, alt) = Node(ns, d, phys \div 2^d)
  BY <1>2, RootIsTop
<1> QED
  BY <1>1, <1>5, <1>6

\* The root and the commitments of a tree at rest.
LEMMA RestFacts ==
  ASSUME TreeInv, MerkleInv, pc = "idle", clean, leaves # <<>>
  PROVE  /\ RootOf(leaves, nodes) = Node(nodes, TargetDepth(Len(leaves)), 0)
         /\ RootOf(leaves, nodes) # Nil
         /\ \A j \in Nat : j < Len(leaves) => Node(nodes, 0, j) = Commit(leaves[j + 1])
<1> DEFINE n == Len(leaves)
           d == TargetDepth(n)
<1>1. /\ leaves \in Seq(Leaf) /\ Levels(nodes) /\ Paired(leaves, nodes) /\ Hashed(nodes, n) /\ n \in Nat /\ n > 1
  BY AtRest
<1>2. d \in Nat /\ Len(nodes) = d + 1
  BY <1>1, TargetDepthType DEF Hashed
<1>3. Row(nodes, d) = nodes[Len(nodes)]
  BY <1>2 DEF Row
<1>4. RootOf(leaves, nodes) = Node(nodes, d, 0)
  BY <1>3 DEF RootOf, Node
<1>5. Full(nodes, d, n) /\ Full(nodes, 0, n)
  BY <1>1, <1>2 DEF Hashed
<1>6. Node(nodes, d, 0) # Nil
  <2>1. PICK p \in Nat : p = 2^d
    BY <1>2, PowerType
  <2>2. 0 * 2^d < n
    BY <1>1, <2>1
  <2> QED
    BY <1>5, <2>2 DEF Full
<1>7. ASSUME NEW j \in Nat, j < n PROVE Node(nodes, 0, j) = Commit(leaves[j + 1])
  <2>1. j * 2^0 = j /\ j + 1 \in DOMAIN leaves
    BY <1>1, <1>7, PowerZero
  <2>2. Node(nodes, 0, j) = nodes[1][j + 1] /\ Node(nodes, 0, j) # Nil
    BY <1>1, <1>5, <1>7, <2>1, LevelZeroIs DEF Full
  <2> QED
    BY <1>1, <2>1, <2>2 DEF Paired
<1> QED
  BY <1>4, <1>6, <1>7

\* The lowest of some numbers can be chosen.
LEMMA FirstIs ==
  ASSUME NEW S \in SUBSET Nat, S # {}
  PROVE  (CHOOSE i \in S : \A j \in S : i <= j) \in S
  BY LeastOf

\* A proof is about the member, or about its low leaf.
LEMMA ProofFor ==
  ASSUME TreeInv, leaves # <<>>, NEW v \in Nat \ {0}
  PROVE  \E phys \in Nat :
           /\ phys < Len(leaves)
           /\ GenerateProof(leaves, nodes, v) =
                BuildProof(leaves, nodes, IF IsMember(v) THEN "membership" ELSE "nonmembership", v, phys)
           /\ IsMember(v) => leaves[phys + 1].value = v
           /\ ~IsMember(v) => /\ leaves[phys + 1].value < v
                              /\ leaves[phys + 1].next = 0 \/ leaves[phys + 1].next > v
<1>1. leaves \in Seq(Leaf) /\ Linking(leaves)
  BY DEF TreeInv, TypeOK
<1>2. /\ \A i \in DOMAIN leaves : leaves[i].value \in Nat /\ leaves[i].next \in Nat
      /\ DOMAIN leaves = 1..Len(leaves) /\ Len(leaves) \in Nat
  BY <1>1, LeafTypes
<1>3. leaves[1].value = 0 /\ Points(leaves)
  BY <1>1 DEF Linking
<1>4. IndexesOf(leaves, v) \in SUBSET Nat /\ (IndexesOf(leaves, v) # {} <=> IsMember(v))
  <2>1. ASSUME IsMember(v) PROVE IndexesOf(leaves, v) # {}
    <3>1. PICK i \in DOMAIN leaves : leaves[i].value = v
      BY <2>1 DEF IsMember
    <3>2. i # 1 /\ i \in 1..Len(leaves)
      BY <1>2, <1>3, <3>1
    <3>3. i - 1 \in 1..(Len(leaves) - 1) /\ (i - 1) + 1 = i
      BY <1>2, <3>2
    <3>4. i - 1 \in IndexesOf(leaves, v)
      BY <3>1, <3>3 DEF IndexesOf
    <3> QED
      BY <3>4
  <2>2. ASSUME IndexesOf(leaves, v) # {} PROVE IsMember(v)
    <3>1. PICK i \in 1..(Len(leaves) - 1) : leaves[i + 1].value = v
      BY <2>2 DEF IndexesOf
    <3>2. i + 1 \in DOMAIN leaves
      BY <1>2
    <3> QED
      BY <3>1, <3>2 DEF IsMember
  <2> QED
    BY <2>1, <2>2 DEF IndexesOf
<1>5. CASE IsMember(v)
  <2>1. IndexOf(leaves, v) \in IndexesOf(leaves, v)
    BY <1>4, <1>5, FirstIs DEF IndexOf
  <2>2. PICK phys \in Nat : phys = IndexOf(leaves, v) /\ phys < Len(leaves) /\ leaves[phys + 1].value = v
    BY <1>2, <2>1 DEF IndexesOf
  <2>3. GenerateProof(leaves, nodes, v) = BuildProof(leaves, nodes, "membership", v, phys)
    BY <1>4, <1>5, <2>2 DEF GenerateProof
  <2> QED
    BY <1>5, <2>2, <2>3
<1>6. CASE ~IsMember(v)
  <2>1. PICK q \in DOMAIN leaves : IsLow(leaves, q, v) /\ LowLeafIndexes(leaves, v) = {q - 1}
                                   /\ LowLeafIndex(leaves, v) = q - 1
    BY <1>1, LowLeafIs
  <2>2. PICK phys \in Nat : phys = q - 1 /\ phys + 1 = q /\ phys < Len(leaves)
    BY <1>2
  <2>3. GenerateProof(leaves, nodes, v) = BuildProof(leaves, nodes, "nonmembership", v, phys)
    BY <1>4, <1>6, <2>1, <2>2 DEF GenerateProof
  <2>4. leaves[q].next # v
    <3>1. leaves[q].next = v => \E j \in DOMAIN leaves : leaves[j].value = v
      BY <1>3 DEF Points
    <3> QED
      BY <1>6, <3>1 DEF IsMember
  <2>5. leaves[q].value < v /\ (leaves[q].next = 0 \/ leaves[q].next > v)
    BY <1>2, <2>1, <2>4 DEF IsLow
  <2> QED
    BY <1>6, <2>2, <2>3, <2>5
<1> QED
  BY <1>5, <1>6

\* While no batch has failed, a proof can be generated for every positive serial, it
\* verifies, and it is a membership proof exactly for the members (GenerateProof,
\* buildProofLocked and VerifyProof).
THEOREM EveryProofVerifies == Spec => []ProofsComplete
<1>1. TreeInv /\ MerkleInv => ProofsComplete
  <2> SUFFICES ASSUME TreeInv, MerkleInv, idle, clean, leaves # <<>>, NEW v \in Values \ {0}
               PROVE  LET p == GenerateProof(leaves, nodes, v) IN
                      /\ p.type = IF IsMember(v) THEN "membership" ELSE "nonmembership"
                      /\ VerifyProof(p)
    BY DEF ProofsComplete
  <2>1. v \in Nat \ {0} /\ pc = "idle"
    BY ValuesAssumption DEF idle
  <2>2. PICK phys \in Nat :
           /\ phys < Len(leaves)
           /\ GenerateProof(leaves, nodes, v) =
                BuildProof(leaves, nodes, IF IsMember(v) THEN "membership" ELSE "nonmembership", v, phys)
           /\ IsMember(v) => leaves[phys + 1].value = v
           /\ ~IsMember(v) => /\ leaves[phys + 1].value < v
                              /\ leaves[phys + 1].next = 0 \/ leaves[phys + 1].next > v
    BY <2>1, ProofFor
  <2>3. PICK p : p = GenerateProof(leaves, nodes, v)
    OBVIOUS
  <2>4. /\ p.type = IF IsMember(v) THEN "membership" ELSE "nonmembership"
        /\ p.root = RootOf(leaves, nodes) /\ p.value = v /\ p.leaf = leaves[phys + 1]
        /\ p.path = PathOf(nodes, phys)
    BY <2>2, <2>3 DEF BuildProof
  <2>5. Levels(nodes) /\ Hashed(nodes, Len(leaves)) /\ Len(leaves) \in Nat \ {0}
    BY <2>1, AtRest
  <2>6. WalkPath(Node(nodes, 0, phys), PathOf(nodes, phys)) = Node(nodes, TargetDepth(Len(leaves)), 0)
    BY <2>2, <2>5, WalkReaches
  <2>7. WalkPath(Commit(p.leaf), p.path) = p.root /\ p.root # Nil
    BY <2>1, <2>2, <2>4, <2>6, RestFacts
  <2>8. VerifyProof(p)
    BY <2>2, <2>4, <2>7 DEF VerifyProof
  <2> QED
    BY <2>3, <2>4, <2>8
<1> QED
  BY <1>1, MerkleInvariant, PTL

\* No proof assembled from other parts verifies against the root for a claim that is
\* false (VerifyProof): whatever type, value, leaf pair and directions it comes with, the
\* siblings of a position lead to the root from the commitment of the leaf there only.
THEOREM NoFalseProof == Spec => []ProofsSound
<1>1. TreeInv /\ MerkleInv => ProofsSound
  <2> SUFFICES ASSUME TreeInv, MerkleInv, idle, clean, leaves # <<>>,
                      NEW v \in Values \ {0}, NEW t \in {"membership", "nonmembership"},
                      NEW claimed \in [value : Values, next : Values], NEW phys \in 0..(Len(leaves) - 1),
                      NEW dirs \in [1..Len(PathOf(nodes, phys)) -> BOOLEAN],
                      NEW p, p = [type |-> t, root |-> RootOf(leaves, nodes), value |-> v, leaf |-> claimed,
                                  path |-> [k \in 1..Len(PathOf(nodes, phys)) |->
                                              [PathOf(nodes, phys)[k] EXCEPT !.right = dirs[k]]]],
                      VerifyProof(p)
               PROVE  (t = "membership") = IsMember(v)
    BY DEF ProofsSound
  <2>1. v \in Nat \ {0} /\ pc = "idle" /\ claimed \in Leaf
    BY ValuesAssumption DEF idle, Leaf
  <2>2. PICK path, alt : path = PathOf(nodes, phys) /\ alt = p.path
    OBVIOUS
  <2>3. /\ Levels(nodes) /\ Hashed(nodes, Len(leaves)) /\ Len(leaves) \in Nat \ {0}
        /\ leaves \in Seq(Leaf) /\ Linking(leaves) /\ phys \in Nat /\ phys < Len(leaves)
    BY <2>1, AtRest
  <2>4. SameSiblings(alt, path)
    <3>1. Depth(nodes) \in Nat
      BY <2>3, TargetDepthType DEF Hashed, Depth
    <3>2. /\ Len(path) \in Nat
          /\ \A k \in 1..Len(path) : \A right : [path[k] EXCEPT !.right = right].sibling = path[k].sibling
      BY <2>2, <3>1, PathIsSequence
    <3>3. alt = [k \in 1..Len(path) |-> [path[k] EXCEPT !.right = dirs[k]]]
      BY <2>2
    <3>4. Len(alt) = Len(path)
      BY <3>2, <3>3
    <3>5. ASSUME NEW k \in 1..Len(path) PROVE alt[k].sibling = path[k].sibling
      <4>1. alt[k] = [path[k] EXCEPT !.right = dirs[k]]
        BY <3>3
      <4> QED
        BY <3>2, <4>1
    <3> QED
      BY <3>4, <3>5 DEF SameSiblings
  <2>5. WalkPath(Commit(claimed), alt) = Node(nodes, TargetDepth(Len(leaves)), 0)
    BY <2>1, <2>2, RestFacts DEF VerifyProof
  <2>6. Commit(claimed) = Node(nodes, 0, phys)
    BY <2>2, <2>3, <2>4, <2>5, WalkOnly
  <2>7. PICK i \in DOMAIN leaves : Commit(claimed) = Commit(leaves[i]) /\ leaves[i] \in Leaf
    <3>1. phys + 1 \in DOMAIN leaves /\ leaves[phys + 1] \in Leaf
      BY <2>3
    <3> QED
      BY <2>1, <2>3, <2>6, <3>1, RestFacts
  <2>8. claimed.value = leaves[i].value /\ claimed.next = leaves[i].next
    BY <2>1, <2>7, CommitInjective
  <2>9. CASE t = "membership"
    <3>1. claimed.value = v
      BY <2>9 DEF VerifyProof
    <3> QED
      BY <2>1, <2>8, <2>9, <3>1 DEF IsMember
  <2>10. CASE t = "nonmembership"
    <3>1. claimed.value < v /\ (claimed.next = 0 \/ claimed.next > v)
      BY <2>10 DEF VerifyProof
    <3>2. ASSUME NEW k \in DOMAIN leaves, leaves[k].value = v PROVE FALSE
      <4>1. leaves[i].next # 0 /\ leaves[i].next <= leaves[k].value
        BY <2>3, <2>8, <3>1, <3>2 DEF Linking, Gapless
      <4>2. leaves[i].next \in Nat
        BY <2>3, LeafTypes
      <4> QED
        BY <2>1, <2>8, <3>1, <3>2, <4>1, <4>2
    <3> QED
      BY <2>10, <3>2 DEF IsMember
  <2> QED
    BY <2>9, <2>10
<1> QED
  BY <1>1, MerkleInvariant, PTL

-----------------------------------------------------------------------------
(* Proofs on the wire.                                                     *)

\* What buildProofLocked has packed after k siblings, given it after fewer.
Packed(path, f, k) == IF k = 0 THEN 0 ELSE f[k - 1] + (IF path[k].right THEN 2^(k - 1) ELSE 0)

\* PackedBits is what the loop has at its end.
LEMMA PackedIs ==
  ASSUME NEW path, Len(path) \in Nat
  PROVE  \E f : /\ PackedBits(path) = f[Len(path)]
                /\ \A k \in 0..Len(path) : f[k] = Packed(path, f, k)
<1> DEFINE n == Len(path)
           P(f) == f = [k \in 0..n |-> Packed(path, f, k)]
           S == {m \in Nat : \E f : \A k \in 0..m : f[k] = Packed(path, f, k)}
<1>1. 0 \in S
  <2>1. PICK f : f = [k \in 0..0 |-> 0]
    OBVIOUS
  <2>2. \A k \in 0..0 : f[k] = Packed(path, f, k)
    BY <2>1 DEF Packed
  <2> QED
    BY <2>2
<1>2. ASSUME NEW m \in Nat, m \in S PROVE m + 1 \in S
  <2>1. PICK f : \A k \in 0..m : f[k] = Packed(path, f, k)
    BY <1>2
  <2>2. PICK g : g = [k \in 0..(m + 1) |-> Packed(path, f, k)]
    OBVIOUS
  <2>3. \A k \in 0..m : g[k] = f[k]
    BY <2>1, <2>2
  <2>4. ASSUME NEW k \in 0..(m + 1) PROVE g[k] = Packed(path, g, k)
    <3>1. g[k] = Packed(path, f, k)
      BY <2>2
    <3>2. k # 0 => k - 1 \in 0..m
      OBVIOUS
    <3> QED
      BY <2>3, <3>1, <3>2 DEF Packed
  <2> QED
    BY <2>4
<1>3. n \in S
  <2> HIDE DEF S
  <2> QED
    BY <1>1, <1>2, Induction
<1>4. PICK f : \A k \in 0..n : f[k] = Packed(path, f, k)
  BY <1>3
<1>5. PICK g : g = [k \in 0..n |-> Packed(path, f, k)]
  OBVIOUS
<1>6. \A k \in 0..n : g[k] = f[k]
  BY <1>4, <1>5
<1>7. \A k \in 0..n : Packed(path, f, k) = Packed(path, g, k)
  <2>1. \A k \in 0..n : k # 0 => k - 1 \in 0..n
    OBVIOUS
  <2> QED
    BY <1>6, <2>1 DEF Packed
<1>8. P(g)
  BY <1>5, <1>7
<1>9. PackedBits(path) = (CHOOSE h : P(h))[n]
  BY DEF PackedBits, Packed
<1>10. PICK h : h = CHOOSE h0 : P(h0)
  OBVIOUS
<1>11. P(h)
  <2> HIDE DEF P
  <2> QED
    BY <1>8, <1>10
<1>12. \A k \in 0..n : h[k] = Packed(path, h, k)
  <2>1. h = [k \in 0..n |-> Packed(path, h, k)]
    BY <1>11
  <2> QED
    BY <2>1
<1> HIDE DEF P
<1> QED
  BY <1>9, <1>10, <1>12

\* A higher bit leaves the lower ones alone.
LEMMA HigherBit ==
  ASSUME NEW x \in Nat, NEW p \in Nat \ {0}, NEW q \in Nat
  PROVE  /\ (x + (2 * q) * p) \div p = (x \div p) + 2 * q
         /\ ((x \div p) + 2 * q) % 2 = (x \div p) % 2
<1>1. PICK y \in Nat, r \in 0..(p - 1) : y = x \div p /\ r = x % p /\ x = p * y + r
  BY DivisionIs
<1>2. PICK m \in Nat : m = 2 * q
  OBVIOUS
<1>3. (x + m * p) = p * (y + m) + r
  <2>1. p * (y + m) = p * y + m * p
    OBVIOUS
  <2> QED
    BY <1>1, <2>1
<1>4. (x + m * p) \div p = y + m
  BY <1>3
<1>5. (y + m) % 2 = y % 2
  BY <1>2
<1> QED
  BY <1>1, <1>2, <1>4, <1>5

\* The quotient of a number below twice the divisor.
LEMMA TopBit ==
  ASSUME NEW p \in Nat \ {0}, NEW x \in Nat, x < p
  PROVE  (x + p) \div p = 1 /\ x \div p = 0
  OBVIOUS

\* Powers of two between two exponents.
LEMMA PowerBetween ==
  ASSUME NEW a \in Nat, NEW b \in Nat, a < b
  PROVE  \E q \in Nat : 2^b = (2 * q) * 2^a
<1> DEFINE S == {d \in Nat : \E q \in Nat : 2^(a + d + 1) = (2 * q) * 2^a}
<1>1. 0 \in S
  <2>1. a + 0 + 1 = a + 1 /\ 2^(a + 1) = 2 * 2^a /\ 2 * 1 = 2
    BY PowerStep
  <2> QED
    BY <2>1
<1>2. ASSUME NEW d \in Nat, d \in S PROVE d + 1 \in S
  <2>1. PICK q \in Nat : 2^(a + d + 1) = (2 * q) * 2^a
    BY <1>2
  <2>2. PICK e \in Nat : e = a + d + 1
    OBVIOUS
  <2>3. 2^(e + 1) = 2 * 2^e /\ a + (d + 1) + 1 = e + 1
    BY <2>2, PowerStep
  <2>4. PICK p \in Nat : p = 2^a
    BY PowerType
  <2>5. PICK z \in Nat : z = 2 * q
    OBVIOUS
  <2>6. 2 * (z * p) = (2 * z) * p
    OBVIOUS
  <2>7. 2^(a + (d + 1) + 1) = (2 * z) * 2^a
    BY <2>1, <2>2, <2>3, <2>4, <2>5, <2>6
  <2> QED
    BY <2>7
<1>3. PICK d \in Nat : d = b - a - 1 /\ a + d + 1 = b
  OBVIOUS
<1>4. d \in S
  <2> HIDE DEF S
  <2> QED
    BY <1>1, <1>2, Induction
<1> QED
  BY <1>3, <1>4

\* The bits consumed are those packed.
LEMMA BitsKept ==
  ASSUME NEW path, NEW n \in Nat, n = Len(path), \A k \in 1..n : path[k].right \in BOOLEAN
  PROVE  \A k \in 1..n : Bit(PackedBits(path), k, n) <=> path[k].right
<1>1. PICK f : PackedBits(path) = f[n] /\ \A k \in 0..n : f[k] = Packed(path, f, k)
  BY PackedIs
<1> DEFINE S == {m \in Nat : m <= n => /\ f[m] \in Nat /\ f[m] < 2^m
                                       /\ \A k \in 1..m : (f[m] \div 2^(k - 1)) % 2 = 1 <=> path[k].right}
<1>2. 0 \in S
  <2>1. f[0] = 0 /\ 2^0 = 1
    BY <1>1, PowerZero DEF Packed
  <2> QED
    BY <2>1
<1>3. ASSUME NEW m \in Nat, m \in S PROVE m + 1 \in S
  <2> SUFFICES ASSUME m + 1 <= n
               PROVE  /\ f[m + 1] \in Nat /\ f[m + 1] < 2^(m + 1)
                      /\ \A k \in 1..(m + 1) : (f[m + 1] \div 2^(k - 1)) % 2 = 1 <=> path[k].right
    OBVIOUS
  <2>1. /\ f[m] \in Nat /\ f[m] < 2^m
        /\ \A k \in 1..m : (f[m] \div 2^(k - 1)) % 2 = 1 <=> path[k].right
    BY <1>3
  <2>2. PICK x \in Nat : x = f[m]
    BY <2>1
  <2>3. PICK p \in Nat \ {0} : p = 2^m /\ 2^(m + 1) = 2 * p
    BY PowerType, PowerStep
  <2>4. PICK y : y = f[m + 1] /\ y = x + (IF path[m + 1].right THEN p ELSE 0)
    <3>1. m + 1 \in 0..n /\ m + 1 # 0 /\ (m + 1) - 1 = m
      OBVIOUS
    <3>2. f[m + 1] = f[m] + (IF path[m + 1].right THEN 2^m ELSE 0)
      BY <1>1, <3>1 DEF Packed
    <3> QED
      BY <2>2, <2>3, <3>2
  <2>5. path[m + 1].right \in BOOLEAN /\ x < p
    BY <2>1, <2>2, <2>3
  <2>6. y \in Nat /\ y < 2 * p
    BY <2>4, <2>5
  <2>7. ASSUME NEW k \in 1..m PROVE (y \div 2^(k - 1)) % 2 = 1 <=> path[k].right
    <3>1. PICK r \in Nat \ {0} : r = 2^(k - 1)
      BY PowerType
    <3>2. PICK q \in Nat : p = (2 * q) * r
      <4>1. k - 1 \in Nat /\ k - 1 < m
        OBVIOUS
      <4> QED
        BY <2>3, <3>1, <4>1, PowerBetween
    <3>3. (x + p) \div r = (x \div r) + 2 * q /\ ((x \div r) + 2 * q) % 2 = (x \div r) % 2
      BY <3>2, HigherBit
    <3>4. (y \div r) % 2 = (x \div r) % 2
      BY <2>4, <3>3
    <3> QED
      BY <2>1, <2>2, <3>1, <3>4
  <2>8. (y \div p) % 2 = 1 <=> path[m + 1].right
    <3>1. CASE path[m + 1].right
      <4>1. y = x + p
        BY <2>4, <3>1
      <4>2. y \div p = 1
        BY <2>2, <2>5, <4>1, TopBit
      <4> QED
        BY <3>1, <4>2
    <3>2. CASE ~path[m + 1].right
      <4>1. y = x
        BY <2>2, <2>4, <3>2
      <4>2. y \div p = 0
        BY <2>2, <2>5, <4>1, TopBit
      <4> QED
        BY <3>2, <4>2
    <3> QED
      BY <2>5, <3>1, <3>2
  <2>9. ASSUME NEW k \in 1..(m + 1) PROVE (y \div 2^(k - 1)) % 2 = 1 <=> path[k].right
    <3>1. CASE k = m + 1
      <4>1. k - 1 = m
        BY <3>1
      <4> QED
        BY <2>3, <2>8, <3>1, <4>1
    <3>2. CASE k # m + 1
      <4>1. k \in 1..m
        BY <3>2
      <4> QED
        BY <2>7, <4>1
    <3> QED
      BY <3>1, <3>2
  <2> QED
    BY <2>3, <2>4, <2>6, <2>9
<1>4. n \in S
  <2> HIDE DEF S
  <2> QED
    BY <1>2, <1>3, Induction
<1> QED
  BY <1>1, <1>4 DEF Bit

\* A path as the struct has it: of every level a direction, and a digest.
IsPath(path) ==
  /\ Len(path) \in Nat /\ path = [k \in 1..Len(path) |-> path[k]]
  /\ \A k \in 1..Len(path) :
       /\ path[k] = [right |-> path[k].right, sibling |-> path[k].sibling]
       /\ path[k].right \in BOOLEAN /\ IsSlot(path[k].sibling) /\ path[k].sibling # Nil

\* Such a path is what generation collects.
LEMMA PathType ==
  ASSUME NEW ns, Levels(ns), NEW phys \in Nat
  PROVE  IsPath(PathOf(ns, phys))
<1>1. PICK d \in Nat : d = Depth(ns) /\ Len(ns) = d + 1 /\ DOMAIN ns = 1..(d + 1)
  <2>1. Len(ns) \in Nat \ {0} /\ DOMAIN ns = 1..Len(ns)
    BY RowType
  <2>2. Depth(ns) \in Nat /\ Len(ns) = Depth(ns) + 1
    BY <2>1 DEF Depth
  <2> QED
    BY <2>1, <2>2
<1> DEFINE X == Siblinged(ns, phys, d)
<1>2. PICK f : PathOf(ns, phys) = f[d] /\ Collects(ns, phys, f, d)
  BY <1>1, PathIs DEF Collects
<1>3. PICK path : path = PathOf(ns, phys) /\ path \in Seq(X)
  <2>1. d \in 0..d
    OBVIOUS
  <2> QED
    BY <1>2, <2>1, CollectsSequence
<1>4. ASSUME NEW s \in X
      PROVE  /\ s = [right |-> s.right, sibling |-> s.sibling]
             /\ s.right \in BOOLEAN /\ IsSlot(s.sibling) /\ s.sibling # Nil
  <2>1. PICK l \in 0..(d - 1) : s = PathStep(ns, l, phys) /\ s.sibling # Nil
    BY DEF Siblinged
  <2>2. PICK i \in Nat : i = phys \div 2^l
    <3>1. phys \div 2^l \in Nat
      BY AncestorStep
    <3> QED
      BY <3>1
  <2>3. s = [right |-> i % 2 = 1, sibling |-> SlotAt(ns[l + 1], SiblingIndex(i))]
    BY <2>1, <2>2 DEF PathStep
  <2>4. IsRow(ns[l + 1])
    <3>1. l + 1 \in DOMAIN ns
      BY <1>1
    <3> QED
      BY <3>1 DEF Levels
  <2>5. SiblingIndex(i) \in Nat
    BY DEF SiblingIndex
  <2>6. IsSlot(SlotAt(ns[l + 1], SiblingIndex(i)))
    BY <2>4, <2>5, SlotType
  <2> QED
    BY <2>1, <2>3, <2>6
<1> HIDE DEF X
<1>5. Len(path) \in Nat /\ path = [k \in 1..Len(path) |-> path[k]] /\ \A k \in 1..Len(path) : path[k] \in X
  BY <1>3
<1>6. IsPath(path)
  BY <1>4, <1>5 DEF IsPath
<1> QED
  BY <1>3, <1>6

\* A walk ends at a commitment or at a hash.
LEMMA WalkKind ==
  ASSUME NEW leaf, NEW path, Len(path) \in Nat
  PROVE  WalkPath(Commit(leaf), path).kind \in {"leaf", "node"}
<1>1. PICK n \in Nat : n = Len(path)
  OBVIOUS
<1>2. PICK f : WalkPath(Commit(leaf), path) = f[n] /\ \A k \in 0..n : f[k] = Walked(Commit(leaf), path, f, k)
  BY <1>1, WalkIs
<1>3. f[n] = Walked(Commit(leaf), path, f, n)
  BY <1>2
<1>4. CASE n = 0
  BY <1>2, <1>3, <1>4 DEF Walked, Commit
<1>5. CASE n # 0
  BY <1>2, <1>3, <1>5 DEF Walked, WalkStep, Hash2
<1> QED
  BY <1>4, <1>5

\* The root above two leaves is a hash.
LEMMA RootIsHash ==
  ASSUME NEW ns, Levels(ns), NEW n \in Nat, n > 1, Hashed(ns, n)
  PROVE  Node(ns, TargetDepth(n), 0).kind = "node"
<1>1. PICK d \in Nat : d = TargetDepth(n) /\ d # 0 /\ 2^(d - 1) < n
  BY DepthIs
<1>2. d - 1 \in 0..d /\ d - 1 \in Nat
  BY <1>1
<1>3. Full(ns, d - 1, n) /\ Good(ns, d, 0)
  BY <1>1, <1>2 DEF Hashed
<1>4. Node(ns, d - 1, 1) # Nil
  <2>1. 2^(d - 1) \in Nat
    BY <1>2, PowerType
  <2>2. 1 * 2^(d - 1) < n
    BY <1>1, <1>2, <2>1
  <2> QED
    BY <1>3, <2>2 DEF Full
<1>5. 2 * 0 = 0 /\ 0 + 1 = 1
  OBVIOUS
<1>6. Node(ns, d, 0) = Hash2(Node(ns, d - 1, 0), Node(ns, d - 1, 1))
  BY <1>3, <1>4, <1>5 DEF Good, Up
<1> QED
  BY <1>1, <1>6 DEF Hash2

\* A proof as BuildProof makes one.
IsProof(p) ==
  /\ p = [type |-> p.type, root |-> p.root, value |-> p.value, leaf |-> p.leaf, path |-> p.path]
  /\ p.type \in {"membership", "nonmembership"} /\ p.root.kind = "node"
  /\ p.value \in Nat /\ p.leaf \in Leaf /\ IsPath(p.path)

\* What is known of an answer of a tree at rest.
LEMMA AnswerIs ==
  ASSUME TreeInv, MerkleInv, idle, clean, leaves # <<>>, NEW p \in Answers
  PROVE  /\ IsProof(p)
         /\ p.value # 0 /\ (p.type = "membership" <=> IsMember(p.value))
         /\ \E phys \in Nat :
              /\ phys < Len(leaves) /\ p.path = PathOf(nodes, phys) /\ p.leaf = leaves[phys + 1]
              /\ Node(nodes, 0, phys) = Commit(p.leaf)
         /\ p.root = Node(nodes, TargetDepth(Len(leaves)), 0)
<1>1. PICK v \in Nat \ {0} : p = GenerateProof(leaves, nodes, v)
  BY ValuesAssumption DEF Answers
<1>2. PICK phys \in Nat :
        /\ phys < Len(leaves)
        /\ p = BuildProof(leaves, nodes, IF IsMember(v) THEN "membership" ELSE "nonmembership", v, phys)
  BY <1>1, ProofFor
<1>3. /\ p.type = (IF IsMember(v) THEN "membership" ELSE "nonmembership")
      /\ p.root = RootOf(leaves, nodes) /\ p.value = v /\ p.leaf = leaves[phys + 1]
      /\ p.path = PathOf(nodes, phys)
      /\ p = [type |-> p.type, root |-> p.root, value |-> p.value, leaf |-> p.leaf, path |-> p.path]
  BY <1>2 DEF BuildProof
<1>4. /\ Levels(nodes) /\ Hashed(nodes, Len(leaves)) /\ Len(leaves) \in Nat /\ Len(leaves) > 1
      /\ leaves \in Seq(Leaf)
  BY AtRest DEF idle
<1>5. IsPath(p.path)
  BY <1>3, <1>4, PathType
<1>6. p.root = Node(nodes, TargetDepth(Len(leaves)), 0) /\ Node(nodes, 0, phys) = Commit(p.leaf)
  BY <1>2, <1>3, RestFacts DEF idle
<1>7. p.root.kind = "node"
  BY <1>4, <1>6, RootIsHash
<1>8. p.leaf \in Leaf
  BY <1>2, <1>3, <1>4
<1>9. p.type \in {"membership", "nonmembership"} /\ (p.type = "membership" <=> IsMember(p.value))
  BY <1>3
<1>10. IsProof(p)
  BY <1>3, <1>5, <1>7, <1>8, <1>9 DEF IsProof
<1> QED
  BY <1>2, <1>3, <1>6, <1>9, <1>10

\* A digest is written as it is.
LEMMA DigestKept ==
  ASSUME NEW s, IsSlot(s), s # Nil
  PROVE  EncodeDigest(s) = s /\ s # MissingSlot /\ DecodedDigest(s) = s /\ s # ZeroSlot
  BY DEF EncodeDigest, IsSlot, MissingSlot, DecodedDigest, ZeroSlot

\* What is sent for a proof.
LEMMA WireIs ==
  ASSUME NEW p, IsProof(p)
  PROVE  LET w == ToWire(p)
             n == Len(p.path)
         IN  /\ w.proofType = (IF p.type = "membership" THEN 0 ELSE 1)
             /\ w.root = p.root /\ w.value = p.value /\ w.leaf = p.leaf
             /\ w.leafIndex = PackedBits(p.path)
             /\ w.siblings = [k \in 1..n |-> p.path[k].sibling]
             /\ w = [proofType |-> w.proofType, root |-> w.root, value |-> w.value, leaf |-> w.leaf,
                     leafIndex |-> w.leafIndex, siblings |-> w.siblings]
<1>1. PICK path, n : path = p.path /\ n = Len(path) /\ n \in Nat /\ IsPath(path)
  BY DEF IsProof, IsPath
<1>2. DOMAIN path = 1..n
  BY <1>1 DEF IsPath
<1>3. ASSUME NEW k \in 1..n PROVE EncodeDigest(path[k].sibling) = path[k].sibling
  BY <1>1, DigestKept DEF IsPath
<1>4. [k \in DOMAIN path |-> EncodeDigest(path[k].sibling)] = [k \in 1..n |-> path[k].sibling]
  BY <1>2, <1>3
<1>5. EncodeDigest(p.root) = p.root
  BY DigestKept DEF IsProof, IsSlot, Nil
<1> QED
  BY <1>1, <1>4, <1>5 DEF ToWire

\* What is sent is read back.
LEMMA ReadBack ==
  ASSUME NEW p, IsProof(p)
  PROVE  FromWire(ToWire(p)) = p
<1>1. PICK path, n : path = p.path /\ n = Len(path) /\ n \in Nat /\ IsPath(path)
  BY DEF IsProof, IsPath
<1>2. PICK w : w = ToWire(p)
  OBVIOUS
<1>3. /\ w.proofType = (IF p.type = "membership" THEN 0 ELSE 1)
      /\ w.root = p.root /\ w.value = p.value /\ w.leaf = p.leaf
      /\ w.leafIndex = PackedBits(path)
      /\ w.siblings = [k \in 1..n |-> path[k].sibling]
  BY <1>1, <1>2, WireIs
<1>4. DOMAIN w.siblings = 1..n /\ Len(w.siblings) = n
  BY <1>1, <1>3
<1>bits. \A k \in 1..n : Bit(w.leafIndex, k, n) <=> path[k].right
  <2>1. \A k \in 1..n : path[k].right \in BOOLEAN
    BY <1>1 DEF IsPath
  <2>2. \A k \in 1..n : Bit(PackedBits(path), k, n) <=> path[k].right
    BY <1>1, <2>1, BitsKept
  <2> QED
    BY <1>3, <2>2
<1>5. ASSUME NEW k \in 1..n
      PROVE  [right |-> Bit(w.leafIndex, k, n), sibling |-> w.siblings[k]] = path[k]
  <2>1. /\ path[k] = [right |-> path[k].right, sibling |-> path[k].sibling]
        /\ path[k].right \in BOOLEAN
    BY <1>1 DEF IsPath
  <2>2. Bit(w.leafIndex, k, n) <=> path[k].right
    BY <1>bits
  <2>3. Bit(w.leafIndex, k, n) = path[k].right
    BY <2>1, <2>2 DEF Bit
  <2> QED
    BY <1>3, <2>1, <2>3
<1>6. [k \in DOMAIN w.siblings |->
         [right |-> Bit(w.leafIndex, k, Len(w.siblings)), sibling |-> w.siblings[k]]] = path
  <2>1. path = [k \in 1..n |-> path[k]]
    BY <1>1 DEF IsPath
  <2> QED
    BY <1>4, <1>5, <2>1
<1>7. (IF w.proofType = 0 THEN "membership" ELSE "nonmembership") = p.type
  BY <1>3 DEF IsProof
<1>8. p = [type |-> p.type, root |-> p.root, value |-> p.value, leaf |-> p.leaf, path |-> path]
  BY <1>1 DEF IsProof
<1>9. FromWire(w) = [type |-> p.type, root |-> w.root, value |-> w.value, leaf |-> w.leaf, path |-> path]
  BY <1>6, <1>7 DEF FromWire
<1> QED
  BY <1>2, <1>3, <1>8, <1>9

\* What is sent can be decoded, and decodes to the same without the error.
LEMMA SentDecodes ==
  ASSUME NEW p, IsProof(p)
  PROVE  ~Undecodable(ToWire(p)) /\ DecodeOrZero(ToWire(p)) = ToWire(p)
<1>1. PICK path, n : path = p.path /\ n = Len(path) /\ n \in Nat /\ IsPath(path)
  BY DEF IsProof, IsPath
<1>2. PICK w : w = ToWire(p)
  OBVIOUS
<1>3. /\ w.root = p.root /\ w.value = p.value /\ w.leaf = p.leaf
      /\ w.siblings = [k \in 1..n |-> path[k].sibling]
      /\ w = [proofType |-> w.proofType, root |-> w.root, value |-> w.value, leaf |-> w.leaf,
              leafIndex |-> w.leafIndex, siblings |-> w.siblings]
  BY <1>1, <1>2, WireIs
<1>4. w.root # MissingSlot /\ DecodedDigest(w.root) = w.root
  BY <1>3, DigestKept DEF IsProof, IsSlot, Nil
<1>5. /\ w.value # Missing /\ w.leaf.value # Missing /\ w.leaf.next # Missing
      /\ w.leaf = IndexedLeaf(w.leaf.value, w.leaf.next)
  BY <1>3, MissingAssumption DEF IsProof, Leaf, IndexedLeaf
<1>6. ASSUME NEW k \in DOMAIN w.siblings
      PROVE  w.siblings[k] # MissingSlot /\ DecodedDigest(w.siblings[k]) = w.siblings[k]
  <2>1. k \in 1..n /\ w.siblings[k] = path[k].sibling
    BY <1>3
  <2> QED
    BY <1>1, <2>1, DigestKept DEF IsPath
<1>7. [k \in DOMAIN w.siblings |-> DecodedDigest(w.siblings[k])] = w.siblings
  BY <1>3, <1>6
<1>8. DecodedNumber(w.value) = w.value /\ DecodedNumber(w.leaf.value) = w.leaf.value
      /\ DecodedNumber(w.leaf.next) = w.leaf.next
  BY <1>5 DEF DecodedNumber
<1>9. ~Undecodable(w)
  BY <1>4, <1>5, <1>6 DEF Undecodable
<1>10. DecodeOrZero(w) = [proofType |-> w.proofType, root |-> w.root, value |-> w.value, leaf |-> w.leaf,
                          leafIndex |-> w.leafIndex, siblings |-> w.siblings]
  BY <1>4, <1>5, <1>7, <1>8 DEF DecodeOrZero
<1> QED
  BY <1>2, <1>3, <1>9, <1>10

\* A proof that is sent and read back is the proof that was generated, direction bits and
\* siblings in step, and verifies (ProofResponse, proofToJSON, VerifyProofFromResponse and
\* the WASM module's verifyProof).
THEOREM ProofsSurviveTheWire == Spec => []WireKeepsProofs
<1>1. TreeInv /\ MerkleInv /\ ProofsComplete => WireKeepsProofs
  <2> SUFFICES ASSUME TreeInv, MerkleInv, ProofsComplete, idle, clean, leaves # <<>>, NEW p \in Answers
               PROVE  LET w == ToWire(p) IN
                      /\ FromWire(w) = p
                      /\ VerifyProofFromResponse(w) = "true" /\ VerifyProofJS(w)
    BY DEF WireKeepsProofs
  <2>1. IsProof(p)
    BY AnswerIs
  <2>2. VerifyProof(p)
    BY DEF Answers, ProofsComplete
  <2>3. PICK w : w = ToWire(p)
    OBVIOUS
  <2>4. FromWire(w) = p /\ ~Undecodable(w) /\ DecodeOrZero(w) = w
    BY <2>1, <2>3, ReadBack, SentDecodes
  <2>5. VerifyProofFromResponse(w) = "true" /\ VerifyProofJS(w)
    BY <2>2, <2>4 DEF VerifyProofFromResponse, VerifyProofJS
  <2> QED
    BY <2>3, <2>4, <2>5
<1> QED
  BY <1>1, MerkleInvariant, EveryProofVerifies, PTL

\* What is left of a proof.
LEMMA DamagedIs ==
  ASSUME NEW p, IsProof(p), NEW lost, NEW cut, NEW w, w = Damaged(ToWire(p), lost, cut)
  PROVE  /\ w.proofType = IF "type" \in lost \/ p.type = "membership" THEN 0 ELSE 1
         /\ w.root = IF "root" \in lost THEN MissingSlot ELSE p.root
         /\ w.value = IF "value" \in lost THEN Missing ELSE p.value
         /\ w.leaf = [value |-> IF "leafValue" \in lost THEN Missing ELSE p.leaf.value,
                      next  |-> IF "leafNext" \in lost THEN Missing ELSE p.leaf.next]
<1>1. PICK v : v = ToWire(p)
  OBVIOUS
<1>2. /\ v.proofType = (IF p.type = "membership" THEN 0 ELSE 1)
      /\ v.root = p.root /\ v.value = p.value /\ v.leaf = p.leaf
  BY <1>1, WireIs
<1>3. w = Damaged(v, lost, cut)
  BY <1>1
<1>4. w.proofType = IF "type" \in lost \/ p.type = "membership" THEN 0 ELSE 1
  BY <1>2, <1>3 DEF Damaged
<1>5. /\ w.root = IF "root" \in lost THEN MissingSlot ELSE p.root
      /\ w.value = IF "value" \in lost THEN Missing ELSE p.value
  BY <1>2, <1>3 DEF Damaged
<1>6. w.leaf = [value |-> IF "leafValue" \in lost THEN Missing ELSE p.leaf.value,
                next  |-> IF "leafNext" \in lost THEN Missing ELSE p.leaf.next]
  BY <1>2, <1>3 DEF Damaged, IndexedLeaf
<1> QED
  BY <1>4, <1>5, <1>6

\* Of its siblings.
LEMMA DamagedSiblings ==
  ASSUME NEW p, IsProof(p), NEW lost, NEW cut, NEW w, w = Damaged(ToWire(p), lost, cut)
  PROVE  /\ "siblings" \in lost => w.siblings = <<>>
         /\ "siblings" \notin lost =>
              w.siblings = [k \in 1..Len(p.path) |-> IF k \in cut THEN MissingSlot ELSE p.path[k].sibling]
<1>1. PICK v : v = ToWire(p) /\ w = Damaged(v, lost, cut)
  OBVIOUS
<1>2. v.siblings = [k \in 1..Len(p.path) |-> p.path[k].sibling] /\ DOMAIN v.siblings = 1..Len(p.path)
  BY <1>1, WireIs
<1>3. "siblings" \in lost => w.siblings = <<>>
  BY <1>1 DEF Damaged
<1>4. "siblings" \notin lost =>
        w.siblings = [k \in DOMAIN v.siblings |-> IF k \in cut THEN MissingSlot ELSE v.siblings[k]]
  BY <1>1 DEF Damaged
<1> QED
  BY <1>2, <1>3, <1>4

\* It is an error to VerifyProofFromResponse when a string is missing.
LEMMA DamagedError ==
  ASSUME NEW p, IsProof(p), NEW lost, NEW cut \in SUBSET (DOMAIN p.path),
         NEW w, w = Damaged(ToWire(p), lost, cut)
  PROVE  Undecodable(w) <=> lost \cap Strings # {} \/ (cut # {} /\ "siblings" \notin lost)
<1>1. PICK path, n : path = p.path /\ n = Len(path) /\ n \in Nat /\ IsPath(path) /\ DOMAIN path = 1..n
  BY DEF IsProof, IsPath
<1>2. /\ w.root = IF "root" \in lost THEN MissingSlot ELSE p.root
      /\ w.value = IF "value" \in lost THEN Missing ELSE p.value
      /\ w.leaf = [value |-> IF "leafValue" \in lost THEN Missing ELSE p.leaf.value,
                   next  |-> IF "leafNext" \in lost THEN Missing ELSE p.leaf.next]
      /\ "siblings" \in lost => w.siblings = <<>>
      /\ "siblings" \notin lost =>
           w.siblings = [k \in 1..n |-> IF k \in cut THEN MissingSlot ELSE path[k].sibling]
  BY <1>1, DamagedIs, DamagedSiblings
<1>3. w.root = MissingSlot <=> "root" \in lost
  BY <1>2 DEF IsProof, MissingSlot
<1>4. p.value # Missing /\ p.leaf.value # Missing /\ p.leaf.next # Missing
  BY MissingAssumption DEF IsProof, Leaf
<1>5. Missing \in {w.value, w.leaf.value, w.leaf.next} <=> lost \cap {"value", "leafValue", "leafNext"} # {}
  <2>1. w.value = Missing <=> "value" \in lost
    BY <1>2, <1>4
  <2>2. w.leaf.value = Missing <=> "leafValue" \in lost
    BY <1>2, <1>4
  <2>3. w.leaf.next = Missing <=> "leafNext" \in lost
    BY <1>2, <1>4
  <2> QED
    BY <2>1, <2>2, <2>3
<1>6. (\E k \in DOMAIN w.siblings : w.siblings[k] = MissingSlot) <=> cut # {} /\ "siblings" \notin lost
  <2>1. CASE "siblings" \in lost
    <3>1. DOMAIN w.siblings = {}
      BY <1>2, <2>1
    <3> QED
      BY <2>1, <3>1
  <2>2. CASE "siblings" \notin lost
    <3>1. ASSUME NEW k \in 1..n PROVE path[k].sibling # MissingSlot
      BY <1>1, DigestKept DEF IsPath
    <3>2. DOMAIN w.siblings = 1..n /\ \A k \in 1..n : w.siblings[k] = MissingSlot <=> k \in cut
      BY <1>2, <2>2, <3>1
    <3>3. cut \subseteq 1..n
      BY <1>1
    <3> QED
      BY <2>2, <3>2, <3>3
  <2> QED
    BY <2>1, <2>2
<1> QED
  BY <1>3, <1>5, <1>6 DEF Undecodable, Strings

\* What the WASM verifier makes of it.
LEMMA DamagedJS ==
  ASSUME NEW p, IsProof(p), NEW lost, NEW cut, NEW w, w = Damaged(ToWire(p), lost, cut),
         NEW x, x = FromWire(DecodeOrZero(w))
  PROVE  /\ x.type = IF w.proofType = 0 THEN "membership" ELSE "nonmembership"
         /\ x.root = IF "root" \in lost THEN ZeroSlot ELSE p.root
         /\ "value" \notin lost => x.value = p.value
         /\ x.leaf \in Leaf
         /\ Len(x.path) = IF "siblings" \in lost THEN 0 ELSE Len(p.path)
         /\ "siblings" \notin lost => SameSiblings(x.path, p.path)
<1>1. PICK path, n : path = p.path /\ n = Len(path) /\ n \in Nat /\ IsPath(path)
  BY DEF IsProof, IsPath
<1>2. /\ w.root = IF "root" \in lost THEN MissingSlot ELSE p.root
      /\ w.value = IF "value" \in lost THEN Missing ELSE p.value
      /\ w.leaf = [value |-> IF "leafValue" \in lost THEN Missing ELSE p.leaf.value,
                   next  |-> IF "leafNext" \in lost THEN Missing ELSE p.leaf.next]
      /\ "siblings" \in lost => w.siblings = <<>>
      /\ "siblings" \notin lost =>
           w.siblings = [k \in 1..n |-> IF k \in cut THEN MissingSlot ELSE path[k].sibling]
  BY <1>1, DamagedIs, DamagedSiblings
<1>3. PICK z : z = DecodeOrZero(w)
  OBVIOUS
<1>4. /\ z.proofType = w.proofType /\ z.root = DecodedDigest(w.root) /\ z.value = DecodedNumber(w.value)
      /\ z.leaf = IndexedLeaf(DecodedNumber(w.leaf.value), DecodedNumber(w.leaf.next))
      /\ z.siblings = [k \in DOMAIN w.siblings |-> DecodedDigest(w.siblings[k])]
  BY <1>3 DEF DecodeOrZero
<1>5. /\ x.type = (IF z.proofType = 0 THEN "membership" ELSE "nonmembership")
      /\ x.root = z.root /\ x.value = z.value /\ x.leaf = z.leaf
      /\ x.path = [k \in DOMAIN z.siblings |->
                     [right |-> Bit(z.leafIndex, k, Len(z.siblings)), sibling |-> z.siblings[k]]]
  BY <1>3 DEF FromWire
<1>6. x.root = IF "root" \in lost THEN ZeroSlot ELSE p.root
  BY <1>2, <1>4, <1>5 DEF IsProof, DecodedDigest, MissingSlot
<1>7. "value" \notin lost => x.value = p.value
  BY <1>2, <1>4, <1>5, MissingAssumption DEF IsProof, DecodedNumber
<1>8. x.leaf \in Leaf
  <2>1. DecodedNumber(w.leaf.value) \in Nat /\ DecodedNumber(w.leaf.next) \in Nat
    BY <1>2, MissingAssumption DEF IsProof, Leaf, DecodedNumber
  <2> QED
    BY <1>4, <1>5, <2>1 DEF IndexedLeaf, Leaf
<1>9. CASE "siblings" \in lost
  <2>1. z.siblings = <<>> /\ x.path = <<>>
    BY <1>2, <1>4, <1>5, <1>9
  <2> QED
    BY <1>4, <1>5, <1>6, <1>7, <1>8, <1>9, <2>1
<1>10. CASE "siblings" \notin lost
  <2>1. DOMAIN z.siblings = 1..n
    BY <1>2, <1>4, <1>10
  <2>2. Len(x.path) = n
    BY <1>1, <1>5, <2>1
  <2>3. ASSUME NEW k \in 1..n
        PROVE  x.path[k].sibling = path[k].sibling \/ ~IsSlot(x.path[k].sibling)
    <3>1. x.path[k].sibling = DecodedDigest(w.siblings[k])
      <4>1. DOMAIN w.siblings = 1..n
        BY <1>2, <1>10
      <4>2. z.siblings[k] = DecodedDigest(w.siblings[k])
        BY <1>4, <4>1
      <4>3. x.path[k] = [right |-> Bit(z.leafIndex, k, Len(z.siblings)), sibling |-> z.siblings[k]]
        BY <1>5, <2>1
      <4> QED
        BY <4>2, <4>3
    <3>2. CASE k \in cut
      <4>1. x.path[k].sibling = ZeroSlot
        BY <1>2, <1>10, <3>1, <3>2 DEF DecodedDigest
      <4> QED
        BY <4>1 DEF ZeroSlot, IsSlot
    <3>3. CASE k \notin cut
      <4>1. w.siblings[k] = path[k].sibling
        BY <1>2, <1>10, <3>3
      <4>2. IsSlot(path[k].sibling) /\ path[k].sibling # Nil
        BY <1>1 DEF IsPath
      <4>3. DecodedDigest(path[k].sibling) = path[k].sibling
        BY <4>2, DigestKept
      <4> QED
        BY <3>1, <4>1, <4>3
    <3> QED
      BY <3>2, <3>3
  <2> QED
    BY <1>1, <1>4, <1>5, <1>6, <1>7, <1>8, <1>10, <2>2, <2>3 DEF SameSiblings
<1> QED
  BY <1>9, <1>10

\* A proof that lost fields on the way is an error to VerifyProofFromResponse when a
\* string is among them, and convinces the WASM verifier, which reads them as zero, of
\* nothing false about the value asked for.
THEOREM DamageIsHarmless == Spec => []LostFieldsProveNothing
<1>1. TreeInv /\ MerkleInv => LostFieldsProveNothing
  <2> SUFFICES ASSUME TreeInv, MerkleInv, idle, clean, leaves # <<>>, NEW p \in Answers,
                      NEW lost \in SUBSET Fields, NEW cut \in SUBSET (DOMAIN p.path),
                      NEW w, w = Damaged(ToWire(p), lost, cut)
               PROVE  /\ VerifyProofFromResponse(w) = "error"
                           <=> lost \cap Strings # {} \/ (cut # {} /\ "siblings" \notin lost)
                      /\ VerifyProofJS(w) /\ w.value # Missing => (w.proofType = 0) = IsMember(p.value)
    BY DEF LostFieldsProveNothing
  <2>1. /\ IsProof(p) /\ p.value # 0 /\ (p.type = "membership" <=> IsMember(p.value))
        /\ p.root = Node(nodes, TargetDepth(Len(leaves)), 0)
    BY AnswerIs
  <2>2. PICK phys \in Nat : /\ phys < Len(leaves) /\ p.path = PathOf(nodes, phys)
                            /\ p.leaf = leaves[phys + 1] /\ Node(nodes, 0, phys) = Commit(p.leaf)
    BY AnswerIs
  <2>3. VerifyProofFromResponse(w) = "error" <=> Undecodable(w)
    BY DEF VerifyProofFromResponse
  <2>4. Undecodable(w) <=> lost \cap Strings # {} \/ (cut # {} /\ "siblings" \notin lost)
    BY <2>1, DamagedError
  <2>5. ASSUME VerifyProofJS(w), w.value # Missing PROVE (w.proofType = 0) = IsMember(p.value)
    <3>1. PICK x : x = FromWire(DecodeOrZero(w))
      OBVIOUS
    <3>2. /\ x.type = (IF w.proofType = 0 THEN "membership" ELSE "nonmembership")
          /\ x.root = (IF "root" \in lost THEN ZeroSlot ELSE p.root)
          /\ "value" \notin lost => x.value = p.value
          /\ x.leaf \in Leaf
          /\ Len(x.path) = (IF "siblings" \in lost THEN 0 ELSE Len(p.path))
          /\ "siblings" \notin lost => SameSiblings(x.path, p.path)
      BY <2>1, <3>1, DamagedJS
    <3>3. "value" \notin lost /\ w.proofType = IF "type" \in lost \/ p.type = "membership" THEN 0 ELSE 1
      <4>1. IsProof(p)
        BY <2>1
      <4>2. /\ w.proofType = IF "type" \in lost \/ p.type = "membership" THEN 0 ELSE 1
            /\ w.root = IF "root" \in lost THEN MissingSlot ELSE p.root
            /\ w.value = IF "value" \in lost THEN Missing ELSE p.value
            /\ w.leaf = [value |-> IF "leafValue" \in lost THEN Missing ELSE p.leaf.value,
                         next  |-> IF "leafNext" \in lost THEN Missing ELSE p.leaf.next]
        BY <4>1, DamagedIs
      <4> QED
        BY <2>5, <4>2
    <3>4. VerifyProof(x)
      BY <2>5, <3>1 DEF VerifyProofJS
    <3>5. WalkPath(Commit(x.leaf), x.path) = x.root
      BY <3>4 DEF VerifyProof
    <3>6. "root" \notin lost
      <4>1. Len(x.path) \in Nat
        BY <2>1, <3>2 DEF IsProof, IsPath
      <4>2. x.root.kind \in {"leaf", "node"}
        BY <3>5, <4>1, WalkKind
      <4> QED
        BY <3>2, <4>2 DEF ZeroSlot
    <3>7. "siblings" \notin lost
      <4>1. ASSUME "siblings" \in lost PROVE x.root = Commit(x.leaf)
        BY <3>2, <3>5, <4>1, WalkEmpty
      <4> QED
        BY <2>1, <3>2, <3>6, <4>1 DEF IsProof, Commit
    <3>8. Commit(x.leaf) = Commit(p.leaf)
      <4>1. Levels(nodes) /\ Hashed(nodes, Len(leaves)) /\ Len(leaves) \in Nat \ {0}
        BY AtRest DEF idle
      <4>2. SameSiblings(x.path, PathOf(nodes, phys))
        BY <2>2, <3>2, <3>7
      <4>3. WalkPath(Commit(x.leaf), x.path) = Node(nodes, TargetDepth(Len(leaves)), 0)
        BY <2>1, <3>2, <3>5, <3>6
      <4> QED
        BY <2>2, <4>1, <4>2, <4>3, WalkOnly
    <3>9. x.leaf.value = p.leaf.value
      BY <2>1, <3>2, <3>8, CommitInjective DEF IsProof
    <3>10. CASE w.proofType = 0
      <4>1. p.leaf.value = p.value
        BY <3>2, <3>3, <3>4, <3>9, <3>10 DEF VerifyProof
      <4>2. phys + 1 \in DOMAIN leaves
        BY <2>2, AtRest DEF idle
      <4> QED
        BY <2>1, <2>2, <3>10, <4>1, <4>2 DEF IsMember
    <3>11. CASE w.proofType # 0
      BY <2>1, <3>3, <3>11 DEF IsMember
    <3> QED
      BY <3>10, <3>11
  <2> QED
    BY <2>3, <2>4, <2>5
<1> QED
  BY <1>1, MerkleInvariant, PTL

-----------------------------------------------------------------------------
(* The abstract list: each batch is one step of it, when the lock is free. *)

\* Inside a batch, the values before pos are the last leaves.
ProgressInv ==
  /\ batch \in Batches \ {<<>>} /\ pos - 1 <= Len(batch)
  /\ Len(leaves) = IF visible = 0 /\ pos > 1 THEN pos ELSE visible + pos - 1
  /\ \A j \in 1..(pos - 1) : leaves[Len(leaves) - (pos - 1) + j].value = batch[j]

\* The last value is the largest, and k values of a batch ascend from there
\* (TailIsLargest and Ascending of the abstract list, of any list).
Largest(us) == \A i \in DOMAIN us : us[i] <= us[Len(us)]
Rises(us, b, k) ==
  \A i \in 1..k :
    Largest(us) /\ b[i] > (IF i > 1 THEN b[i - 1] ELSE IF us = <<>> THEN 0 ELSE us[Len(us)])

\* Inside a sorted one, they ascend from the largest value there was.
SortedInv ==
  /\ \A i \in DOMAIN batch : batch[i] # 0
  /\ pos > 1 => /\ leaves[Len(leaves)].next = 0
                /\ Rises(UserValues(leaves, visible), batch, pos - 1)

ListInv ==
  /\ pc = "idle" => visible = Len(leaves)
  /\ pc # "idle" => ProgressInv
  /\ pc \in {"naive", "sorted"} => (modified = {} <=> pos = 1)
  /\ pc = "recompute" => pos = Len(batch) + 1
  /\ pc = "sorted" => SortedInv

\* The values of the first leaves, the sentinel's left out.
LEMMA UserValuesAre ==
  ASSUME NEW ls \in Seq(Leaf), NEW n \in Nat, n <= Len(ls)
  PROVE  LET us == UserValues(ls, n)
         IN  /\ us \in Seq(Nat) /\ Len(us) = (IF n = 0 THEN 0 ELSE n - 1)
             /\ \A i \in 1..Len(us) : us[i] = ls[i + 1].value
<1>1. PICK m \in Nat : m = IF n = 0 THEN 0 ELSE n - 1
  OBVIOUS
<1>2. UserValues(ls, n) = [i \in 1..m |-> ls[i + 1].value]
  BY <1>1 DEF UserValues
<1>3. \A i \in 1..m : ls[i + 1].value \in Nat
  <2>1. \A i \in 1..m : i + 1 \in DOMAIN ls
    BY <1>1
  <2> QED
    BY <2>1, LeafTypes
<1>4. UserValues(ls, n) \in Seq(Nat)
  BY <1>2, <1>3
<1> QED
  BY <1>1, <1>2, <1>4

\* They are what they were, where no value has changed.
LEMMA UserValuesStay ==
  ASSUME NEW ls \in Seq(Leaf), NEW ms \in Seq(Leaf), NEW n \in Nat, n <= Len(ls), n <= Len(ms),
         \A i \in 1..n : ms[i].value = ls[i].value
  PROVE  UserValues(ms, n) = UserValues(ls, n)
<1>1. \A i \in 1..(IF n = 0 THEN 0 ELSE n - 1) : ms[i + 1].value = ls[i + 1].value
  <2>1. \A i \in 1..(IF n = 0 THEN 0 ELSE n - 1) : i + 1 \in 1..n
    OBVIOUS
  <2> QED
    BY <2>1
<1> QED
  BY <1>1 DEF UserValues

\* What the facts about the lists need.
LEMMA ListFacts ==
  ASSUME TreeInv, MerkleInv, ListInv
  PROVE  /\ leaves \in Seq(Leaf) /\ Linking(leaves) /\ Len(leaves) \in Nat /\ DOMAIN leaves = 1..Len(leaves)
         /\ visible \in Nat /\ visible <= Len(leaves) /\ pos \in Nat \ {0} /\ batch \in Seq(Nat)
         /\ leaves # <<>> => Len(leaves) > 1
         /\ pc # "idle" => ProgressInv /\ batch \in Batches /\ Len(batch) \in Nat \ {0}
<1>1. /\ leaves \in Seq(Leaf) /\ Linking(leaves) /\ visible \in Nat /\ pos \in Nat \ {0} /\ batch \in Seq(Nat)
  BY DEF TreeInv, TypeOK
<1>2. Len(leaves) \in Nat /\ DOMAIN leaves = 1..Len(leaves) /\ (leaves # <<>> => Len(leaves) > 1)
  <2>1. Len(leaves) \in Nat /\ DOMAIN leaves = 1..Len(leaves)
    BY <1>1, LeafTypes
  <2>2. Len(leaves) # 1
    BY LeafCount
  <2>3. leaves # <<>> => Len(leaves) # 0
    BY <1>1, EmptySeq
  <2> QED
    BY <2>1, <2>2, <2>3
<1>3. visible <= Len(leaves)
  <2>1. CASE pc = "idle"
    BY <1>1, <2>1 DEF ListInv
  <2>2. CASE pc # "idle"
    BY <1>1, <2>2 DEF ListInv, ProgressInv
  <2> QED
    BY <2>1, <2>2
<1>4. pc # "idle" => ProgressInv /\ batch \in Batches /\ Len(batch) \in Nat \ {0}
  BY <1>1, EmptySeq DEF ListInv, ProgressInv
<1> QED
  BY <1>1, <1>2, <1>3, <1>4

\* When the lock is released, the list has grown by the part of the batch that was done.
LEMMA ListGrown ==
  ASSUME TreeInv, MerkleInv, ListInv, pc # "idle"
  PROVE  UserValues(leaves, Len(leaves)) = UserValues(leaves, visible) \o SubSeq(batch, 1, pos - 1)
<1> DEFINE n == Len(leaves)
           k == pos - 1
           old == UserValues(leaves, visible)
           all == UserValues(leaves, n)
           new == SubSeq(batch, 1, k)
<1>1. /\ leaves \in Seq(Leaf) /\ n \in Nat /\ visible \in Nat /\ visible <= n /\ k \in Nat /\ k <= Len(batch)
      /\ n = IF visible = 0 /\ k > 0 THEN k + 1 ELSE visible + k
      /\ \A j \in 1..k : leaves[n - k + j].value = batch[j]
      /\ batch \in Seq(Nat)
  <2>1. ProgressInv /\ pos \in Nat \ {0}
    BY ListFacts
  <2>2. k \in Nat /\ (pos > 1 <=> k > 0) /\ pos = k + 1
    BY <2>1
  <2> QED
    BY <2>1, <2>2, ListFacts DEF ProgressInv
<1>2. /\ all \in Seq(Nat) /\ Len(all) = (IF n = 0 THEN 0 ELSE n - 1)
      /\ \A i \in 1..Len(all) : all[i] = leaves[i + 1].value
  <2>1. n \in Nat /\ n <= Len(leaves) /\ leaves \in Seq(Leaf)
    BY <1>1
  <2> HIDE DEF n
  <2> QED
    BY <2>1, UserValuesAre
<1>3. /\ old \in Seq(Nat) /\ Len(old) = (IF visible = 0 THEN 0 ELSE visible - 1)
      /\ \A i \in 1..Len(old) : old[i] = leaves[i + 1].value
  BY <1>1, UserValuesAre
<1>4. new \in Seq(Nat) /\ Len(new) = k /\ \A j \in 1..k : new[j] = batch[j]
  <2>1. \A j \in 1..k : batch[j] \in Nat
    BY <1>1
  <2> HIDE DEF k
  <2>2. /\ new \in Seq(Nat) /\ Len(new) = (IF 1 <= k THEN k - 1 + 1 ELSE 0)
        /\ \A j \in 1..(k - 1 + 1) : new[j] = batch[1 + j - 1]
    BY <1>1, <2>1, SubSeqProperties
  <2>3. Len(new) = k /\ \A j \in 1..k : 1 + j - 1 = j /\ j \in 1..(k - 1 + 1)
    BY <1>1, <2>2
  <2> QED
    BY <2>2, <2>3
<1> HIDE DEF n, k, old, all, new
<1>5. /\ old \o new \in Seq(Nat) /\ Len(old \o new) = Len(old) + k
      /\ \A i \in 1..(Len(old) + k) : (old \o new)[i] = IF i <= Len(old) THEN old[i] ELSE new[i - Len(old)]
  BY <1>3, <1>4, ConcatProperties
<1>6. Len(all) = Len(old) + k
  BY <1>1, <1>2, <1>3
<1>7. ASSUME NEW i \in 1..Len(all) PROVE all[i] = (old \o new)[i]
  <2>1. CASE i <= Len(old)
    <3>1. i \in 1..Len(old)
      BY <1>2, <1>3, <2>1
    <3> QED
      BY <1>2, <1>3, <1>5, <1>6, <2>1, <3>1
  <2>2. CASE ~(i <= Len(old))
    <3>1. i - Len(old) \in 1..k /\ n - k + (i - Len(old)) = i + 1
      BY <1>1, <1>2, <1>3, <1>6, <2>2
    <3>2. new[i - Len(old)] = leaves[i + 1].value
      BY <1>1, <1>4, <3>1
    <3> QED
      BY <1>2, <1>5, <1>6, <2>2, <3>2
  <2> QED
    BY <2>1, <2>2
<1>8. all = old \o new
  BY <1>2, <1>5, <1>6, <1>7, SeqEqual
<1> QED
  BY <1>8 DEF all, old, new, n, k

LEMMA ListInit == Init => ListInv
  BY DEF Init, ListInv

\* Placing the next value of a batch moves it along.
LEMMA PlaceList ==
  ASSUME TreeInv, TreeInv', MerkleInv, ListInv, pc \in {"naive", "sorted"}, pos <= Len(batch),
         NEW p \in DOMAIN leaves, leaves' = Placed(leaves, p, batch[pos]), pos' = pos + 1,
         UNCHANGED <<pc, batch, visible>>
  PROVE  ProgressInv' /\ UserValues(leaves', visible') = UserValues(leaves, visible)
<1> DEFINE v == batch[pos]
           n == Len(leaves)
<1>1. /\ leaves \in Seq(Leaf) /\ n \in Nat /\ DOMAIN leaves = 1..n /\ visible \in Nat /\ visible <= n
      /\ pos \in Nat \ {0} /\ batch \in Seq(Nat) /\ ProgressInv /\ n > 1
  <2>1. leaves # <<>>
    OBVIOUS
  <2> QED
    BY <2>1, ListFacts
<1>2. v \in Nat
  BY <1>1
<1>3. /\ leaves' \in Seq(Leaf) /\ Len(leaves') = n + 1
      /\ leaves'[p] = IndexedLeaf(leaves[p].value, v) /\ leaves'[n + 1] = IndexedLeaf(v, leaves[p].next)
      /\ \A i \in 1..n : i # p => leaves'[i] = leaves[i]
  <2>1. leaves' = Placed(leaves, p, v)
    OBVIOUS
  <2> HIDE DEF v
  <2>2. /\ Placed(leaves, p, v) \in Seq(Leaf) /\ Len(Placed(leaves, p, v)) = Len(leaves) + 1
        /\ Placed(leaves, p, v)[p] = IndexedLeaf(leaves[p].value, v)
        /\ Placed(leaves, p, v)[Len(leaves) + 1] = IndexedLeaf(v, leaves[p].next)
        /\ \A i \in 1..Len(leaves) : i # p => Placed(leaves, p, v)[i] = leaves[i]
    BY <1>1, <1>2, PlacedIs
  <2> QED
    BY <2>1, <2>2 DEF n
<1> HIDE DEF v, n
<1>4. (\A i \in 1..n : leaves'[i].value = leaves[i].value) /\ leaves'[n + 1].value = v
  <2>1. leaves'[p].value = leaves[p].value /\ leaves'[n + 1].value = v
    BY <1>3 DEF IndexedLeaf
  <2> QED
    BY <1>3, <2>1
<1>5. UserValues(leaves', visible') = UserValues(leaves, visible)
  <2>1. \A i \in 1..visible : i \in 1..n
    BY <1>1
  <2>2. visible <= Len(leaves')
    BY <1>1, <1>3
  <2>3. PICK ms, ls : ms = leaves' /\ ls = leaves
    OBVIOUS
  <2>4. /\ ls \in Seq(Leaf) /\ ms \in Seq(Leaf) /\ visible \in Nat /\ visible <= Len(ls) /\ visible <= Len(ms)
        /\ \A i \in 1..visible : ms[i].value = ls[i].value
    BY <1>1, <1>3, <1>4, <2>1, <2>2, <2>3 DEF n
  <2>5. UserValues(ms, visible) = UserValues(ls, visible)
    BY <2>4, UserValuesStay
  <2> QED
    BY <2>3, <2>5
<1>6. Len(leaves') = IF visible' = 0 /\ pos' > 1 THEN pos' ELSE visible' + pos' - 1
  <2>1. n = IF visible = 0 /\ pos > 1 THEN pos ELSE visible + pos - 1
    BY <1>1 DEF ProgressInv, n
  <2>2. visible = 0 => pos > 1
    BY <1>1, <2>1
  <2> QED
    BY <1>1, <1>3, <2>1, <2>2
<1>7. \A j \in 1..(pos' - 1) : leaves'[Len(leaves') - (pos' - 1) + j].value = batch'[j]
  <2> SUFFICES ASSUME NEW j \in 1..pos PROVE leaves'[n + 1 - pos + j].value = batch[j]
    BY <1>1, <1>3
  <2>1. CASE j = pos
    BY <1>1, <1>4, <2>1 DEF v
  <2>2. CASE j # pos
    <3>1. j \in 1..(pos - 1) /\ n + 1 - pos + j = n - (pos - 1) + j /\ n + 1 - pos + j \in 1..n
      BY <1>1, <2>2 DEF ProgressInv, n
    <3>2. leaves[n - (pos - 1) + j].value = batch[j]
      BY <1>1, <3>1 DEF ProgressInv, n
    <3> QED
      BY <1>4, <3>1, <3>2
  <2> QED
    BY <2>1, <2>2
<1>8. batch' \in Batches \ {<<>>} /\ pos' - 1 <= Len(batch')
  BY <1>1 DEF ProgressInv
<1> QED
  BY <1>5, <1>6, <1>7, <1>8 DEF ProgressInv

\* The last value is the largest one just where nothing follows it.
LEMMA LargestIs ==
  ASSUME NEW ls \in Seq(Leaf), Linking(ls), Len(ls) > 1
  PROVE  LET us == UserValues(ls, Len(ls))
         IN  /\ us # <<>> /\ us[Len(us)] = ls[Len(ls)].value
             /\ Largest(us) <=> ls[Len(ls)].next = 0
<1> DEFINE n == Len(ls)
           us == UserValues(ls, n)
<1>1. n \in Nat /\ n > 1 /\ DOMAIN ls = 1..n /\ n \in DOMAIN ls
  BY LeafTypes
<1>2. us \in Seq(Nat) /\ Len(us) = n - 1 /\ \A i \in 1..Len(us) : us[i] = ls[i + 1].value
  <2>1. n \in Nat /\ n <= Len(ls) /\ n # 0
    BY <1>1
  <2> HIDE DEF n
  <2> QED
    BY <2>1, UserValuesAre
<1>3. \A i \in DOMAIN ls : ls[i].value \in Nat /\ ls[i].next \in Nat
  BY LeafTypes
<1>4. ls[1].value = 0 /\ Points(ls) /\ Gapless(ls)
  BY <1>1, EmptySeq DEF Linking
<1> HIDE DEF us, n
<1>5. n - 1 \in Nat \ {0} /\ DOMAIN us = 1..(n - 1) /\ us # <<>> /\ us[n - 1] = ls[n].value
  <2>1. n - 1 \in 1..Len(us) /\ (n - 1) + 1 = n /\ DOMAIN us = 1..Len(us)
    BY <1>1, <1>2
  <2> QED
    BY <1>1, <1>2, <2>1
<1>6. ASSUME Largest(us) PROVE ls[n].next = 0
  <2> SUFFICES ASSUME ls[n].next # 0 PROVE FALSE
    OBVIOUS
  <2>1. PICK j \in DOMAIN ls : ls[j].value = ls[n].next /\ ls[j].value > ls[n].value
    BY <1>1, <1>4 DEF Points
  <2>2. j # 1
    BY <1>1, <1>3, <1>4, <2>1
  <2>3. j - 1 \in 1..(n - 1) /\ (j - 1) + 1 = j
    BY <1>1, <2>2
  <2>4. us[j - 1] = ls[j].value
    BY <1>2, <2>3
  <2>5. us[j - 1] <= us[n - 1]
    BY <1>2, <1>5, <1>6, <2>3 DEF Largest
  <2> QED
    BY <1>1, <1>3, <1>5, <2>1, <2>4, <2>5
<1>7. ASSUME ls[n].next = 0 PROVE Largest(us)
  <2> SUFFICES ASSUME NEW i \in 1..(n - 1) PROVE us[i] <= us[n - 1]
    BY <1>2, <1>5 DEF Largest
  <2>1. i + 1 \in DOMAIN ls /\ us[i] = ls[i + 1].value
    BY <1>1, <1>2
  <2>2. ~(ls[n].value < ls[i + 1].value)
    BY <1>1, <1>4, <1>7, <2>1 DEF Gapless
  <2> QED
    BY <1>1, <1>3, <1>5, <2>1, <2>2
<1> QED
  BY <1>2, <1>5, <1>6, <1>7 DEF us, n

\* One more value.
LEMMA RisesOn ==
  ASSUME NEW us, NEW b, NEW k \in Nat, k # 0 => Rises(us, b, k), Largest(us),
         b[k + 1] > (IF k > 0 THEN b[k] ELSE IF us = <<>> THEN 0 ELSE us[Len(us)])
  PROVE  Rises(us, b, k + 1)
<1> SUFFICES ASSUME NEW i \in 1..(k + 1)
             PROVE  b[i] > (IF i > 1 THEN b[i - 1] ELSE IF us = <<>> THEN 0 ELSE us[Len(us)])
  BY DEF Rises
<1>1. CASE i = k + 1
  <2>1. (i > 1 <=> k > 0) /\ i - 1 = k
    BY <1>1
  <2> QED
    BY <1>1, <2>1
<1>2. CASE i # k + 1
  <2>1. i \in 1..k /\ k # 0
    BY <1>2
  <2> QED
    BY <2>1 DEF Rises
<1> QED
  BY <1>1, <1>2

\* Callers see the list they saw.
SameOrder == UserValues(leaves', visible') = UserValues(leaves, visible)

LEMMA NaiveFirstList ==
  ASSUME TreeInv, TreeInv', MerkleInv, ListInv, NaiveFirst
  PROVE  ListInv' /\ SameOrder
<1>1. /\ pc = "naive" /\ pos <= Len(batch) /\ leaves = <<>> /\ pos' = pos + 1 /\ modified' = {0, 1}
      /\ leaves' = <<IndexedLeaf(0, batch[pos]), IndexedLeaf(batch[pos], 0)>>
      /\ UNCHANGED <<pc, batch, visible>>
  BY DEF NaiveFirst
<1>2. visible \in Nat /\ pos \in Nat \ {0} /\ ProgressInv /\ Len(leaves) = 0
  BY <1>1, ListFacts
<1>3. visible = 0 /\ pos = 1
  BY <1>2 DEF ProgressInv
<1>4. pos' = 2 /\ visible' = 0
  BY <1>1, <1>3
<1>5. Len(leaves') = 2 /\ leaves'[2].value = batch[1]
  BY <1>1, <1>3 DEF IndexedLeaf
<1>6. \A j \in 1..(pos' - 1) : leaves'[Len(leaves') - (pos' - 1) + j].value = batch'[j]
  <2> SUFFICES ASSUME NEW j \in 1..(pos' - 1)
               PROVE  leaves'[Len(leaves') - (pos' - 1) + j].value = batch'[j]
    OBVIOUS
  <2>1. j = 1 /\ Len(leaves') - (pos' - 1) + j = 2
    BY <1>4, <1>5
  <2> QED
    BY <1>1, <1>5, <2>1
<1>7. ProgressInv'
  BY <1>1, <1>2, <1>3, <1>4, <1>5, <1>6 DEF ProgressInv
<1>8. SameOrder
  BY <1>3, <1>4 DEF SameOrder, UserValues
<1> QED
  BY <1>1, <1>4, <1>7, <1>8 DEF ListInv

LEMMA NaiveInsertList ==
  ASSUME TreeInv, TreeInv', MerkleInv, ListInv, NaiveInsert
  PROVE  ListInv' /\ SameOrder
<1> DEFINE v == batch[pos]
<1>1. /\ pc = "naive" /\ pos <= Len(batch) /\ leaves # <<>> /\ NaiveError(v) = "ok" /\ pos' = pos + 1
      /\ UNCHANGED <<pc, batch, visible>>
  BY DEF NaiveInsert
<1>2. PICK p \in DOMAIN leaves :
        IsLow(leaves, p, v) /\ LowLeafIndex(leaves, v) = p - 1 /\ leaves[p].next # v
  BY <1>1, NaiveOk
<1>3. p \in Nat /\ p # 0 /\ (p - 1) + 1 = p /\ Len(leaves) \in Nat
  BY DEF TreeInv, TypeOK
<1>4. /\ leaves' = Append([leaves EXCEPT ![p] = Linked(leaves[p], v)], NewLeaf(leaves[p], v))
      /\ modified' = modified \cup {Len(leaves), p - 1}
  BY <1>2, <1>3 DEF NaiveInsert, Touched
<1>5. leaves' = Placed(leaves, p, v)
  <2> HIDE DEF v
  <2> QED
    BY <1>4 DEF Placed, Linked, NewLeaf
<1>6. ProgressInv' /\ SameOrder
  BY <1>1, <1>5, PlaceList DEF SameOrder
<1>7. modified' # {} /\ pos' # 1
  BY <1>1, <1>4, ListFacts
<1> QED
  BY <1>1, <1>6, <1>7 DEF ListInv

\* A sorted batch on an empty tree has placed its first value when it starts.
LEMMA SortedFirstList ==
  ASSUME TreeInv, TreeInv', MerkleInv, ListInv, NEW b \in Batches, InsertManySorted(b)
  PROVE  ListInv' /\ SameOrder
<1>1. /\ pc = "idle" /\ b # <<>> /\ pc' = "sorted" /\ batch' = b /\ visible' = visible
      /\ \A i \in DOMAIN b : b[i] # 0
  BY DEF InsertManySorted
<1>2. /\ visible = Len(leaves) /\ visible \in Nat /\ modified = {} /\ b \in Seq(Nat) /\ Len(b) \in Nat \ {0}
      /\ DOMAIN b = 1..Len(b)
  <2>1. visible = Len(leaves) /\ visible \in Nat
    BY <1>1, ListFacts DEF ListInv
  <2>2. modified = {}
    BY <1>1 DEF MerkleInv, BatchInv
  <2>3. b \in Seq(Nat) /\ Len(b) # 0
    BY <1>1, BatchType, EmptySeq
  <2> QED
    BY <2>1, <2>2, <2>3
<1>3. CASE leaves = <<>>
  <2>1. /\ leaves' = <<IndexedLeaf(0, b[1]), IndexedLeaf(b[1], 0)>> /\ pos' = 2 /\ modified' = {0, 1}
        /\ visible' = 0
    BY <1>1, <1>2, <1>3 DEF InsertManySorted
  <2>2. /\ Len(leaves') = 2 /\ leaves'[2].value = b[1] /\ leaves'[2].next = 0
    BY <2>1 DEF IndexedLeaf
  <2>3. \A j \in 1..(pos' - 1) : leaves'[Len(leaves') - (pos' - 1) + j].value = batch'[j]
    <3> SUFFICES ASSUME NEW j \in 1..1 PROVE leaves'[2 - 1 + j].value = b[j]
      BY <1>1, <2>1, <2>2
    <3>1. j = 1 /\ 2 - 1 + j = 2
      OBVIOUS
    <3> QED
      BY <2>2, <3>1
  <2>4. ProgressInv'
    BY <1>1, <1>2, <2>1, <2>2, <2>3 DEF ProgressInv
  <2>5. Rises(UserValues(leaves', visible'), b, 1)
    <3>1. PICK us : us = UserValues(leaves', visible')
      OBVIOUS
    <3>2. us = <<>>
      BY <2>1, <3>1 DEF UserValues
    <3>3. Largest(us)
      BY <3>2 DEF Largest
    <3>4. b[1] \in Nat \ {0}
      BY <1>1, <1>2
    <3>5. b[0 + 1] > (IF 0 > 0 THEN b[0] ELSE IF us = <<>> THEN 0 ELSE us[Len(us)])
      BY <3>2, <3>4
    <3>6. Rises(us, b, 0 + 1)
      BY <3>3, <3>5, RisesOn
    <3> QED
      BY <3>1, <3>6
  <2>6. SortedInv'
    BY <1>1, <2>1, <2>2, <2>5 DEF SortedInv
  <2>7. SameOrder
    BY <1>1, <2>1 DEF SameOrder, UserValues
  <2> QED
    BY <1>1, <2>1, <2>4, <2>6, <2>7 DEF ListInv
<1>4. CASE leaves # <<>>
  <2>1. leaves' = leaves /\ modified' = {} /\ pos' = 1
    BY <1>4 DEF InsertManySorted, Tree
  <2>2. ProgressInv'
    BY <1>1, <1>2, <2>1 DEF ProgressInv
  <2>3. SortedInv'
    BY <1>1, <2>1 DEF SortedInv
  <2> QED
    BY <1>1, <2>1, <2>2, <2>3 DEF ListInv, SameOrder
<1> QED
  BY <1>3, <1>4

\* What a sorted batch compares its next value with.
LEMMA SortedTail ==
  ASSUME TreeInv, MerkleInv, ListInv, pc = "sorted", pos <= Len(batch)
  PROVE  LET us   == UserValues(leaves, visible)
             tail == leaves[Len(leaves)]
         IN  /\ tail.value = (IF pos - 1 > 0 THEN batch[pos - 1] ELSE IF us = <<>> THEN 0 ELSE us[Len(us)])
             /\ tail.next = 0 <=> Largest(us)
             /\ tail.value \in Nat /\ tail.next \in Nat /\ batch[pos] \in Nat
             /\ pos - 1 # 0 => Rises(us, batch, pos - 1)
<1>counts. PICK n, k \in Nat : n = Len(leaves) /\ k = pos - 1
  <2>1. Len(leaves) \in Nat /\ pos - 1 \in Nat
    BY ListFacts
  <2> QED
    BY <2>1
<1>data. PICK us, tail : us = UserValues(leaves, visible) /\ tail = leaves[Len(leaves)]
  OBVIOUS
<1>1. us = UserValues(leaves, visible) /\ tail = leaves[Len(leaves)] /\ n = Len(leaves) /\ k = pos - 1
  BY <1>counts, <1>data
<1>2. /\ leaves \in Seq(Leaf) /\ Linking(leaves) /\ n > 1 /\ DOMAIN leaves = 1..n
      /\ ProgressInv /\ pos \in Nat \ {0} /\ visible \in Nat
  <2>1. leaves # <<>>
    BY DEF TreeInv, PcInv
  <2> QED
    BY <1>1, <2>1, ListFacts
<1>3. tail.value \in Nat /\ tail.next \in Nat /\ batch[pos] \in Nat
  <2>1. n \in DOMAIN leaves
    BY <1>2
  <2> QED
    BY <1>1, <1>2, <2>1, LeafTypes, ValueType DEF TreeInv
<1>4. CASE k = 0
  <2>1. visible = n
    BY <1>1, <1>2, <1>4 DEF ProgressInv
  <2>2. us # <<>> /\ us[Len(us)] = tail.value /\ (Largest(us) <=> tail.next = 0)
    BY <1>1, <1>2, <2>1, LargestIs
  <2>3. pos - 1 = 0
    BY <1>1, <1>4
  <2> QED
    BY <1>1, <1>3, <2>2, <2>3
<1>5. CASE k # 0
  <2>1. pos > 1
    BY <1>1, <1>2, <1>5
  <2>2. tail.next = 0 /\ Rises(us, batch, k)
    BY <1>1, <2>1 DEF ListInv, SortedInv
  <2>3. Largest(us)
    <3>1. 1 \in 1..k
      BY <1>5
    <3> QED
      BY <2>2, <3>1 DEF Rises
  <2>4. k \in 1..(pos - 1) /\ Len(leaves) - (pos - 1) + k = Len(leaves)
    BY <1>1, <1>2, <1>5
  <2>5. leaves[Len(leaves) - (pos - 1) + k].value = batch[k]
    BY <1>2, <2>4 DEF ProgressInv
  <2>6. tail.value = batch[k] /\ k > 0
    BY <1>1, <1>2, <1>5, <2>4, <2>5
  <2> QED
    BY <1>1, <1>3, <2>2, <2>3, <2>6
<1> QED
  BY <1>4, <1>5

LEMMA SortedAppendList ==
  ASSUME TreeInv, TreeInv', MerkleInv, ListInv, SortedAppend
  PROVE  ListInv' /\ SameOrder
<1>counts. PICK n, k \in Nat : n = Len(leaves) /\ k = pos - 1
  <2>1. Len(leaves) \in Nat /\ pos - 1 \in Nat
    BY ListFacts
  <2> QED
    BY <2>1
<1>data. PICK v, us, tail : v = batch[pos] /\ us = UserValues(leaves, visible) /\ tail = leaves[n]
  OBVIOUS
<1>1. /\ v = batch[pos] /\ n = Len(leaves) /\ us = UserValues(leaves, visible) /\ k = pos - 1
      /\ tail = leaves[n]
  BY <1>counts, <1>data
<1>2. /\ pc = "sorted" /\ pos <= Len(batch) /\ SortedError(v) = "ok" /\ pos' = pos + 1
      /\ UNCHANGED <<pc, batch, visible>> /\ modified' = modified \cup {n - 1, n}
      /\ leaves' = Append([leaves EXCEPT ![n] = Linked(leaves[n], v)], IndexedLeaf(v, 0))
  BY <1>1 DEF SortedAppend
<1>3. leaves # <<>> /\ n > 1 /\ n \in DOMAIN leaves /\ pos \in Nat \ {0}
  <2>1. leaves # <<>>
    BY <1>2 DEF TreeInv, PcInv
  <2>2. n > 1 /\ DOMAIN leaves = 1..n /\ pos \in Nat \ {0}
    BY <1>1, <2>1, ListFacts
  <2> QED
    BY <2>1, <2>2
<1>4. /\ tail.value = (IF k > 0 THEN batch[k] ELSE IF us = <<>> THEN 0 ELSE us[Len(us)])
      /\ tail.next = 0 <=> Largest(us)
      /\ tail.value \in Nat /\ tail.next \in Nat /\ v \in Nat
      /\ k # 0 => Rises(us, batch, k)
  BY <1>1, <1>2, SortedTail
<1>5. tail.next = 0 /\ v > tail.value
  BY <1>1, <1>2, <1>4 DEF SortedError
<1>6. leaves' = Placed(leaves, n, v)
  BY <1>1, <1>2, <1>5 DEF Placed, Linked
<1>7. ProgressInv' /\ UserValues(leaves', visible') = us
  BY <1>1, <1>2, <1>3, <1>6, PlaceList
<1>8. leaves'[Len(leaves')].next = 0
  <2>1. leaves \in Seq(Leaf)
    BY ListFacts
  <2>2. Len(leaves') = n + 1 /\ leaves'[n + 1] = IndexedLeaf(v, tail.next)
    BY <1>1, <1>3, <1>4, <1>6, <2>1, PlacedIs
  <2> QED
    BY <1>5, <2>2 DEF IndexedLeaf
<1>9. Rises(us, batch, pos)
  <2>1. batch[k + 1] > (IF k > 0 THEN batch[k] ELSE IF us = <<>> THEN 0 ELSE us[Len(us)])
    BY <1>1, <1>3, <1>4, <1>5
  <2>2. Rises(us, batch, k + 1)
    BY <1>4, <1>5, <2>1, RisesOn
  <2> QED
    BY <1>1, <1>3, <2>2
<1>10. SortedInv'
  <2>1. pos' - 1 = pos
    BY <1>2, <1>3
  <2>2. \A i \in DOMAIN batch : batch[i] # 0
    BY <1>2 DEF ListInv, SortedInv
  <2> QED
    BY <1>2, <1>7, <1>8, <1>9, <2>1, <2>2 DEF SortedInv
<1>11. modified' # {} /\ pos' # 1
  BY <1>2, <1>3
<1> QED
  BY <1>1, <1>2, <1>7, <1>10, <1>11 DEF ListInv, SameOrder

LEMMA ListNext == TreeInv /\ TreeInv' /\ MerkleInv /\ ListInv /\ [Next]_vars => ListInv'
<1> SUFFICES ASSUME TreeInv, TreeInv', MerkleInv, ListInv, [Next]_vars PROVE ListInv'
  OBVIOUS
<1>1. ASSUME NEW b \in Batches, InsertMany(b) PROVE ListInv'
  <2>1. /\ pc = "idle" /\ b # <<>> /\ pc' = "naive" /\ batch' = b /\ pos' = 1
        /\ UNCHANGED <<leaves, modified, visible>>
    BY <1>1 DEF InsertMany, Tree
  <2>2. visible = Len(leaves) /\ visible \in Nat /\ modified = {}
    BY <2>1, ListFacts DEF ListInv, MerkleInv, BatchInv
  <2>3. Len(b) \in Nat
    BY BatchType
  <2>4. ProgressInv'
    BY <2>1, <2>2, <2>3 DEF ProgressInv
  <2> QED
    BY <2>1, <2>2, <2>4 DEF ListInv
<1>2. ASSUME NEW b \in Batches, InsertManySorted(b) PROVE ListInv'
  BY <1>2, SortedFirstList
<1>3. ASSUME NEW b \in Batches, NEW s \in BOOLEAN, Refuse(b, s) PROVE ListInv'
  BY <1>3 DEF Refuse, Tree, Writer, ListInv, ProgressInv, SortedInv
<1>4. CASE NaiveFirst
  BY <1>4, NaiveFirstList
<1>5. CASE NaiveInsert
  BY <1>5, NaiveInsertList
<1>6. CASE NaiveReject
  BY <1>6 DEF NaiveReject, Fail, Return, ListInv
<1>7. CASE SortedAppend
  BY <1>7, SortedAppendList
<1>8. CASE SortedReject
  BY <1>8 DEF SortedReject, Fail, Return, ListInv
<1>9. CASE BeginRecompute
  <2>1. /\ pc \in {"naive", "sorted"} /\ pos > Len(batch) /\ pc' = "recompute"
        /\ UNCHANGED <<leaves, batch, pos, visible>>
    BY <1>9 DEF BeginRecompute
  <2>2. ProgressInv /\ pos \in Nat /\ Len(batch) \in Nat
    BY <2>1, ListFacts
  <2>3. ProgressInv'
    BY <2>1, <2>2 DEF ProgressInv
  <2>4. pos = Len(batch) + 1
    BY <2>1, <2>2 DEF ProgressInv
  <2> QED
    BY <2>1, <2>3, <2>4 DEF ListInv
<1>10. ASSUME NEW i \in modified, HashNode(i) PROVE ListInv'
  <2>1. pc = "recompute" /\ UNCHANGED <<leaves, pc, batch, pos, visible>>
    BY <1>10 DEF HashNode
  <2> QED
    BY <2>1 DEF ListInv, ProgressInv
<1>11. ASSUME NEW i \in modified, HashPanic(i) PROVE ListInv'
  BY <1>11 DEF HashPanic, Return, ListInv
<1>12. CASE NextLevel
  <2>1. pc = "recompute" /\ UNCHANGED <<leaves, pc, batch, pos, visible>>
    BY <1>12 DEF NextLevel, Tree
  <2> QED
    BY <2>1 DEF ListInv, ProgressInv
<1>13. CASE EndRecompute
  BY <1>13 DEF EndRecompute, Return, ListInv
<1>14. CASE ExportState
  <2>1. pc = "idle" /\ UNCHANGED <<leaves, pc, visible>>
    BY <1>14 DEF ExportState, Tree
  <2> QED
    BY <2>1 DEF ListInv
<1>15. CASE ImportState
  <2>1. pc = "idle" /\ leaves' = saved.leaves /\ visible' = Len(saved.leaves) /\ pc' = pc
    BY <1>15 DEF ImportState
  <2> QED
    BY <2>1 DEF ListInv
<1>16. CASE UNCHANGED vars
  BY <1>16 DEF vars, ListInv, ProgressInv, SortedInv
<1> QED
  BY <1>1, <1>2, <1>3, <1>4, <1>5, <1>6, <1>7, <1>8, <1>9, <1>10, <1>11, <1>12, <1>13, <1>14,
     <1>15, <1>16 DEF Next

\* Hence the three invariants hold in every state of every behaviour.
LEMMA ListInvariant == Spec => [](TreeInv /\ MerkleInv /\ ListInv)
  BY TreeInit, TreeNext, MerkleInit, MerkleNext, ListInit, ListNext, PTL DEF Spec

\* The abstract list's operators, of the list the tree maps to.
LEMMA ListOperators ==
  LET us == UserValues(leaves, visible)
  IN  /\ List!Members = {us[i] : i \in DOMAIN us}
      /\ List!TailIsLargest <=> Largest(us)
      /\ \A b, k : List!Ascending(b, k) <=> Rises(us, b, k)
      /\ \A b, i : List!Before(b, i) = IF i > 1 THEN b[i - 1] ELSE IF us = <<>> THEN 0 ELSE us[Len(us)]
<1>1. PICK us : us = UserValues(leaves, visible)
  OBVIOUS
<1>2. List!Members = {us[i] : i \in DOMAIN us}
  BY <1>1 DEF List!Members
<1>3. List!TailIsLargest <=> Largest(us)
  BY <1>1, <1>2 DEF List!TailIsLargest, Largest
<1>4. \A b, i : List!Before(b, i) = IF i > 1 THEN b[i - 1] ELSE IF us = <<>> THEN 0 ELSE us[Len(us)]
  BY <1>1 DEF List!Before
<1>5. \A b, k : List!Ascending(b, k) <=> Rises(us, b, k)
  BY <1>3, <1>4 DEF List!Ascending, Rises
<1> QED
  BY <1>1, <1>2, <1>3, <1>4, <1>5

\* Which leaves hold what callers saw before the batch, and which hold the batch.
LEMMA BatchLeaves ==
  ASSUME TreeInv, MerkleInv, ListInv, pc # "idle"
  PROVE  LET us == UserValues(leaves, visible)
             n  == Len(leaves)
             k  == pos - 1
         IN  /\ n \in Nat /\ k \in Nat /\ Len(us) \in Nat /\ DOMAIN us = 1..Len(us) /\ DOMAIN leaves = 1..n
             /\ \A i \in 1..Len(us) : us[i] = leaves[i + 1].value
             /\ \A j \in 1..k : batch[j] = leaves[n - k + j].value
             /\ n # 0 => Len(us) = n - k - 1
             /\ n = 0 => Len(us) = 0 /\ k = 0
<1>1. /\ leaves \in Seq(Leaf) /\ Len(leaves) \in Nat /\ DOMAIN leaves = 1..Len(leaves)
      /\ visible \in Nat /\ visible <= Len(leaves) /\ pos \in Nat \ {0} /\ ProgressInv
  BY ListFacts
<1>2. PICK us : us = UserValues(leaves, visible)
  OBVIOUS
<1>3. /\ us \in Seq(Nat) /\ Len(us) = (IF visible = 0 THEN 0 ELSE visible - 1)
      /\ \A i \in 1..Len(us) : us[i] = leaves[i + 1].value
  BY <1>1, <1>2, UserValuesAre
<1>4. /\ Len(leaves) = IF visible = 0 /\ pos > 1 THEN pos ELSE visible + pos - 1
      /\ \A j \in 1..(pos - 1) : leaves[Len(leaves) - (pos - 1) + j].value = batch[j]
  BY <1>1 DEF ProgressInv
<1> QED
  BY <1>1, <1>2, <1>3, <1>4

\* What a batch has inserted so far could be inserted.
LEMMA BatchInsertable ==
  ASSUME TreeInv, MerkleInv, ListInv, pc # "idle"
  PROVE  List!Insertable(batch, pos - 1)
<1>1. PICK us : us = UserValues(leaves, visible)
  OBVIOUS
<1>2. PICK n, k \in Nat : n = Len(leaves) /\ k = pos - 1
  BY BatchLeaves
<1>3. /\ Len(us) \in Nat /\ DOMAIN us = 1..Len(us) /\ DOMAIN leaves = 1..n
      /\ \A i \in 1..Len(us) : us[i] = leaves[i + 1].value
      /\ \A j \in 1..k : batch[j] = leaves[n - k + j].value
      /\ n # 0 => Len(us) = n - k - 1
      /\ n = 0 => Len(us) = 0 /\ k = 0
  BY <1>1, <1>2, BatchLeaves
<1>4. n # 0 => leaves[1].value = 0 /\ Distinct(leaves)
  BY <1>2, EmptySeq, ListFacts DEF Linking
<1>5. ASSUME NEW i \in 1..k
      PROVE  batch[i] # 0 /\ batch[i] \notin {us[m] : m \in DOMAIN us} /\ \A j \in 1..(i - 1) : batch[j] # batch[i]
  <2>1. n # 0 /\ n - k + i \in 2..n /\ Len(us) + 1 < n - k + i
    BY <1>3
  <2>2. batch[i] = leaves[n - k + i].value
    BY <1>3
  <2>3. ASSUME NEW m \in 1..n, m < n - k + i PROVE leaves[m].value # batch[i]
    BY <1>3, <1>4, <2>1, <2>2, <2>3 DEF Distinct
  <2>4. batch[i] # 0
    <3>1. 1 \in 1..n /\ 1 < n - k + i
      BY <2>1
    <3> QED
      BY <1>4, <2>1, <2>3, <3>1
  <2>5. ASSUME NEW m \in 1..Len(us) PROVE us[m] # batch[i]
    <3>1. m + 1 \in 1..n /\ m + 1 < n - k + i
      BY <1>3, <2>1
    <3> QED
      BY <1>3, <2>3, <3>1
  <2>6. ASSUME NEW j \in 1..(i - 1) PROVE batch[j] # batch[i]
    <3>1. j \in 1..k /\ n - k + j \in 1..n /\ n - k + j < n - k + i
      BY <1>3, <2>1
    <3> QED
      BY <1>3, <2>3, <3>1
  <2> QED
    BY <1>3, <2>4, <2>5, <2>6
<1> QED
  BY <1>1, <1>2, <1>5, ListOperators DEF List!Insertable

\* Why a value is turned away.
LEMMA NaiveErrorIs ==
  ASSUME TreeInv, NEW v \in Nat, NaiveError(v) # "ok"
  PROVE  /\ NaiveError(v) = IF v = 0 THEN "ErrInsertZero" ELSE "ErrDuplicate"
         /\ v # 0 => \E i \in DOMAIN leaves : i # 1 /\ leaves[i].value = v
<1>1. leaves \in Seq(Leaf) /\ Linking(leaves)
  BY DEF TreeInv, TypeOK
<1>2. CASE v = 0
  BY <1>2 DEF NaiveError
<1>3. CASE v # 0
  <2>1. leaves # <<>>
    BY <1>3 DEF NaiveError
  <2>2. PICK p \in DOMAIN leaves :
          IsLow(leaves, p, v) /\ LowLeafIndexes(leaves, v) = {p - 1} /\ LowLeafIndex(leaves, v) = p - 1
    BY <1>1, <1>3, <2>1, LowLeafIs
  <2>3. LowLeafIndexes(leaves, v) # {} /\ LowLeafIndex(leaves, v) + 1 = p
    BY <1>1, <2>2
  <2>4. leaves[p].next = v /\ NaiveError(v) = "ErrDuplicate"
    BY <1>3, <2>1, <2>3 DEF NaiveError
  <2>5. PICK i \in DOMAIN leaves : leaves[i].value = v
    BY <1>1, <1>3, <2>1, <2>4 DEF Linking, Points
  <2>6. i # 1
    BY <1>1, <1>3, <2>1, <2>5 DEF Linking
  <2> QED
    BY <1>3, <2>4, <2>5, <2>6
<1> QED
  BY <1>2, <1>3

\* A value that is turned away could not be inserted.
LEMMA NotInsertable ==
  ASSUME TreeInv, MerkleInv, ListInv, pc = "naive", pos <= Len(batch), NaiveError(batch[pos]) # "ok"
  PROVE  /\ ~List!Insertable(batch, pos)
         /\ NaiveError(batch[pos]) = IF batch[pos] = 0 THEN "ErrInsertZero" ELSE "ErrDuplicate"
<1>1. PICK us, v : us = UserValues(leaves, visible) /\ v = batch[pos]
  OBVIOUS
<1>2. PICK n, k \in Nat : n = Len(leaves) /\ k = pos - 1
  BY BatchLeaves
<1>3. /\ Len(us) \in Nat /\ DOMAIN us = 1..Len(us) /\ DOMAIN leaves = 1..n
      /\ \A i \in 1..Len(us) : us[i] = leaves[i + 1].value
      /\ \A j \in 1..k : batch[j] = leaves[n - k + j].value
      /\ n # 0 => Len(us) = n - k - 1
  BY <1>1, <1>2, BatchLeaves
<1>4. v \in Nat /\ pos \in Nat \ {0} /\ pos = k + 1
  BY <1>1, <1>2, ValueType, ListFacts DEF TreeInv
<1>5. /\ NaiveError(v) = IF v = 0 THEN "ErrInsertZero" ELSE "ErrDuplicate"
      /\ v # 0 => \E i \in DOMAIN leaves : i # 1 /\ leaves[i].value = v
  BY <1>1, <1>4, NaiveErrorIs
<1>6. ASSUME v # 0 PROVE v \in {us[m] : m \in DOMAIN us} \/ \E j \in 1..k : batch[j] = v
  <2>1. PICK i \in 1..n : i # 1 /\ leaves[i].value = v
    BY <1>3, <1>5, <1>6
  <2>2. CASE i <= n - k
    <3>1. i - 1 \in 1..Len(us) /\ (i - 1) + 1 = i
      BY <1>3, <2>1, <2>2
    <3> QED
      BY <1>3, <2>1, <3>1
  <2>3. CASE ~(i <= n - k)
    <3>1. i - (n - k) \in 1..k /\ n - k + (i - (n - k)) = i
      BY <2>1, <2>3
    <3> QED
      BY <1>3, <2>1, <3>1
  <2> QED
    BY <2>2, <2>3
<1>7. ~List!Insertable(batch, pos)
  <2>1. pos \in 1..pos /\ 1..(pos - 1) = 1..k
    BY <1>2, <1>4
  <2>2. List!Members = {us[m] : m \in DOMAIN us}
    BY <1>1, ListOperators
  <2> QED
    BY <1>1, <1>6, <2>1, <2>2 DEF List!Insertable
<1> QED
  BY <1>1, <1>5, <1>7

\* An operation that returns applies what it did of its batch in one step.
LEMMA ReturnApplies ==
  ASSUME TreeInv, MerkleInv, ListInv, pc # "idle", NEW e, Return(e), UNCHANGED leaves, NEW f,
         IF pos - 1 = Len(batch) THEN e = "ok" \/ (~clean /\ e = "panic") ELSE e = f,
         clean' = (clean /\ pos - 1 \in {0, Len(batch)})
  PROVE  List!Apply(batch, pos - 1, f)
<1>1. visible' = Len(leaves) /\ leaves' = leaves /\ saved' = saved /\ err' = e
  BY DEF Return
<1>2. UserValues(leaves', visible') = UserValues(leaves, visible) \o SubSeq(batch, 1, pos - 1)
  BY <1>1, ListGrown
<1> QED
  BY <1>1, <1>2 DEF List!Apply

\* A batch that was applied to the end.
LEMMA WholeBatch ==
  ASSUME TreeInv, MerkleInv, ListInv, pc = "recompute", NEW e, Return(e), UNCHANGED <<leaves, clean>>,
         e = "ok" \/ (~clean /\ e = "panic")
  PROVE  batch \in Batches \ {<<>>} /\ List!InsertMany(batch)
<1>1. batch \in Batches \ {<<>>} /\ pos = Len(batch) + 1 /\ Len(batch) \in Nat
  BY ListFacts DEF ListInv, ProgressInv
<1>length. PICK k \in Nat : k = Len(batch)
  BY <1>1
<1>error. PICK f : f = IF batch[k + 1] = 0 THEN "ErrInsertZero" ELSE "ErrDuplicate"
  OBVIOUS
<1>2. k = Len(batch) /\ f = IF batch[k + 1] = 0 THEN "ErrInsertZero" ELSE "ErrDuplicate"
  BY <1>length, <1>error
<1>3. pos - 1 = k
  BY <1>1, <1>2
<1>4. List!Insertable(batch, k)
  BY <1>3, BatchInsertable
<1>5. List!Apply(batch, k, f)
  <2>1. List!Apply(batch, pos - 1, f)
    <3>1. pc # "idle" /\ UNCHANGED leaves /\ pos - 1 = Len(batch)
      BY <1>2, <1>3
    <3>2. clean' = (clean /\ pos - 1 \in {0, Len(batch)})
      BY <3>1 DEF TreeInv, TypeOK
    <3>3. IF pos - 1 = Len(batch) THEN e = "ok" \/ (~clean /\ e = "panic") ELSE e = f
      BY <3>1
    <3> QED
      BY <3>1, <3>2, <3>3, ReturnApplies
  <2> QED
    BY <1>3, <2>1
<1>6. k \in 0..Len(batch) /\ ~(k < Len(batch))
  BY <1>2
<1> QED
  BY <1>1, <1>2, <1>4, <1>5, <1>6 DEF List!InsertMany

LEMMA NaiveRejectMaps ==
  ASSUME TreeInv, MerkleInv, ListInv, NaiveReject
  PROVE  batch \in Batches \ {<<>>} /\ List!InsertMany(batch)
<1>1. /\ pc = "naive" /\ pos <= Len(batch) /\ NaiveError(batch[pos]) # "ok" /\ UNCHANGED leaves
      /\ Return(NaiveError(batch[pos])) /\ clean' = (clean /\ modified = {})
  BY DEF NaiveReject, Fail, Tree
<1>2. /\ batch \in Batches \ {<<>>} /\ Len(batch) \in Nat /\ pos \in Nat \ {0}
      /\ modified = {} <=> pos = 1
  BY <1>1, ListFacts DEF ListInv, ProgressInv
<1>3. PICK k \in Nat : k = pos - 1 /\ k + 1 = pos /\ k < Len(batch) /\ k \in 0..Len(batch)
  BY <1>1, <1>2
<1>4. /\ List!Insertable(batch, k) /\ ~List!Insertable(batch, k + 1)
      /\ NaiveError(batch[k + 1]) = IF batch[k + 1] = 0 THEN "ErrInsertZero" ELSE "ErrDuplicate"
  BY <1>1, <1>3, BatchInsertable, NotInsertable
<1>5. List!Apply(batch, k, IF batch[k + 1] = 0 THEN "ErrInsertZero" ELSE "ErrDuplicate")
  <2>1. PICK e : e = NaiveError(batch[k + 1])
    OBVIOUS
  <2>2. /\ Return(e) /\ clean' = (clean /\ pos - 1 \in {0, Len(batch)}) /\ pos - 1 # Len(batch)
    BY <1>1, <1>2, <1>3, <2>1
  <2>3. List!Apply(batch, pos - 1, e)
    BY <1>1, <2>2, ReturnApplies
  <2> QED
    BY <1>3, <1>4, <2>1, <2>3
<1> QED
  BY <1>2, <1>3, <1>4, <1>5 DEF List!InsertMany

LEMMA SortedRejectMaps ==
  ASSUME TreeInv, MerkleInv, ListInv, SortedReject
  PROVE  batch \in Batches \ {<<>>} /\ List!InsertManySorted(batch)
<1>1. /\ pc = "sorted" /\ pos <= Len(batch) /\ SortedError(batch[pos]) # "ok" /\ UNCHANGED leaves
      /\ Return(SortedError(batch[pos])) /\ clean' = (clean /\ modified = {})
  BY DEF SortedReject, Fail, Tree
<1>2. /\ batch \in Batches \ {<<>>} /\ Len(batch) \in Nat /\ pos \in Nat \ {0}
      /\ modified = {} <=> pos = 1
      /\ \A i \in DOMAIN batch : batch[i] # 0
  BY <1>1, ListFacts DEF ListInv, ProgressInv, SortedInv
<1>3. PICK k \in Nat : k = pos - 1 /\ k + 1 = pos /\ k < Len(batch) /\ k \in 0..Len(batch)
  BY <1>1, <1>2
<1>4. PICK us, tail, v : us = UserValues(leaves, visible) /\ tail = leaves[Len(leaves)] /\ v = batch[k + 1]
  OBVIOUS
<1>5. /\ tail.value = (IF k > 0 THEN batch[k] ELSE IF us = <<>> THEN 0 ELSE us[Len(us)])
      /\ tail.next = 0 <=> Largest(us)
      /\ tail.value \in Nat /\ tail.next \in Nat /\ v \in Nat
      /\ k # 0 => Rises(us, batch, k)
  BY <1>1, <1>3, <1>4, SortedTail
<1>6. tail.value = List!Before(batch, k + 1)
  <2>1. List!Before(batch, k + 1) =
          IF k + 1 > 1 THEN batch[k + 1 - 1] ELSE IF us = <<>> THEN 0 ELSE us[Len(us)]
    BY <1>4, ListOperators
  <2>2. (k + 1 > 1 <=> k > 0) /\ k + 1 - 1 = k
    OBVIOUS
  <2> QED
    BY <1>5, <2>1, <2>2
<1>7. ~(Largest(us) /\ v > tail.value)
  BY <1>1, <1>3, <1>4, <1>5 DEF SortedError
<1>8. SortedError(v) = IF List!TailIsLargest /\ v = List!Before(batch, k + 1) THEN "ErrDuplicate" ELSE "ErrUnsorted"
  <2>1. List!TailIsLargest <=> tail.next = 0
    BY <1>4, <1>5, ListOperators
  <2> QED
    BY <1>4, <1>5, <1>6, <1>7, <2>1 DEF SortedError
<1>9. List!Ascending(batch, k) /\ ~List!Ascending(batch, k + 1)
  <2>1. Rises(us, batch, k)
    <3>1. k = 0 => Rises(us, batch, k)
      BY DEF Rises
    <3> QED
      BY <1>5, <3>1
  <2>2. ~Rises(us, batch, k + 1)
    <3>1. k + 1 \in 1..(k + 1) /\ (k + 1 > 1 <=> k > 0) /\ k + 1 - 1 = k
      OBVIOUS
    <3> QED
      BY <1>4, <1>5, <1>7, <3>1 DEF Rises
  <2> QED
    BY <1>4, <2>1, <2>2, ListOperators
<1>10. List!Apply(batch, k, SortedError(v))
  <2>1. PICK e : e = SortedError(v)
    OBVIOUS
  <2>2. /\ Return(e) /\ clean' = (clean /\ pos - 1 \in {0, Len(batch)}) /\ pos - 1 # Len(batch)
    BY <1>1, <1>2, <1>3, <1>4, <2>1
  <2>3. List!Apply(batch, pos - 1, e)
    BY <1>1, <2>2, ReturnApplies
  <2> QED
    BY <1>3, <2>1, <2>3
<1> QED
  BY <1>2, <1>3, <1>4, <1>8, <1>9, <1>10 DEF List!InsertManySorted

\* Every step of the tree is a step of the list, or none.
LEMMA ListStep ==
  TreeInv /\ TreeInv' /\ MerkleInv /\ ListInv /\ [Next]_vars => [List!Next]_(List!vars)
<1> SUFFICES ASSUME TreeInv, TreeInv', MerkleInv, ListInv, [Next]_vars
             PROVE  List!Next \/ UNCHANGED List!vars
  OBVIOUS
<1>1. ASSUME SameOrder, UNCHANGED <<err, clean, saved>> PROVE UNCHANGED List!vars
  BY <1>1 DEF SameOrder, List!vars
<1>2. ASSUME NEW b \in Batches, InsertMany(b) PROVE UNCHANGED List!vars
  BY <1>1, <1>2 DEF InsertMany, Tree, SameOrder
<1>3. ASSUME NEW b \in Batches, InsertManySorted(b) PROVE UNCHANGED List!vars
  <2>1. SameOrder
    BY <1>3, SortedFirstList
  <2>2. UNCHANGED <<err, clean, saved>>
    BY <1>3 DEF InsertManySorted
  <2> QED
    BY <1>1, <2>1, <2>2
<1>4. ASSUME NEW b \in Batches, NEW s \in BOOLEAN, Refuse(b, s) PROVE List!Next
  BY <1>4 DEF Refuse, Tree, Writer, List!Next, List!Refuse
<1>5. CASE NaiveFirst
  BY <1>1, <1>5, NaiveFirstList DEF NaiveFirst
<1>6. CASE NaiveInsert
  BY <1>1, <1>6, NaiveInsertList DEF NaiveInsert
<1>7. CASE NaiveReject
  BY <1>7, NaiveRejectMaps DEF List!Next
<1>8. CASE SortedAppend
  BY <1>1, <1>8, SortedAppendList DEF SortedAppend
<1>9. CASE SortedReject
  BY <1>9, SortedRejectMaps DEF List!Next
<1>10. CASE BeginRecompute
  BY <1>1, <1>10 DEF BeginRecompute, SameOrder
<1>11. ASSUME NEW i \in modified, HashNode(i) PROVE UNCHANGED List!vars
  BY <1>1, <1>11 DEF HashNode, SameOrder
<1>12. ASSUME NEW i \in modified, HashPanic(i) PROVE List!Next
  <2>1. pc = "recompute" /\ Left(i) = Nil /\ Return("panic") /\ leaves' = leaves /\ clean' = FALSE
    BY <1>12 DEF HashPanic, Tree
  <2>2. ~clean
    <3>1. clean => RecomputeInv
      BY <2>1 DEF MerkleInv
    <3> QED
      BY <1>12, <2>1, <3>1, LeftPresent
  <2>3. UNCHANGED <<leaves, clean>>
    BY <2>1, <2>2 DEF TreeInv, TypeOK
  <2> QED
    BY <2>1, <2>2, <2>3, WholeBatch DEF List!Next
<1>13. CASE NextLevel
  BY <1>1, <1>13 DEF NextLevel, Tree, SameOrder
<1>14. CASE EndRecompute
  <2>1. pc = "recompute" /\ Return("ok") /\ UNCHANGED <<leaves, clean>>
    BY <1>14 DEF EndRecompute, Tree
  <2> QED
    BY <2>1, WholeBatch DEF List!Next
<1>15. CASE ExportState
  <2>1. /\ UNCHANGED <<leaves, visible, err, clean>> /\ pc = "idle"
        /\ saved' = [leaves |-> leaves, nodes |-> nodes, clean |-> clean]
    BY <1>15 DEF ExportState, Tree
  <2>2. visible = Len(leaves)
    BY <2>1 DEF ListInv
  <2> QED
    BY <2>1, <2>2 DEF List!Next, List!Export
<1>16. CASE ImportState
  <2>1. /\ leaves' = saved.leaves /\ clean' = saved.clean /\ visible' = Len(saved.leaves) /\ err' = "ok"
        /\ saved' = saved
    BY <1>16 DEF ImportState
  <2> QED
    BY <2>1 DEF List!Next, List!Import
<1>17. CASE UNCHANGED vars
  BY <1>1, <1>17 DEF vars, SameOrder
<1> QED
  BY <1>2, <1>3, <1>4, <1>5, <1>6, <1>7, <1>8, <1>9, <1>10, <1>11, <1>12, <1>13, <1>14, <1>15,
     <1>16, <1>17 DEF Next

\* To callers who see the tree with the lock free, it is the abstract list:
\* each batch, InsertMany or InsertManySorted, is applied in one step up to its
\* first unacceptable value, and fails with the error the list gives.
THEOREM BatchesAreAtomic == Spec => ImplementsList
<1>1. Init => List!Init
  BY DEF Init, List!Init, UserValues
<1> QED
  BY <1>1, ListInvariant, ListStep, PTL DEF Spec, ImplementsList, List!Spec

-----------------------------------------------------------------------------
(* From a list of serials to its tree (CrlBuild).                          *)

\* What the loop over the list has kept after i serials, given it after fewer.
Kept(list, f, i) ==
  IF i = 0 THEN <<>> ELSE IF Positive(list[i]) THEN Append(f[i - 1], list[i]) ELSE f[i - 1]

\* Positives is what the loop has at its end.
LEMMA PositivesLoop ==
  ASSUME NEW list, Len(list) \in Nat
  PROVE  \E f : /\ Positives(list) = f[Len(list)]
                /\ \A i \in 0..Len(list) : f[i] = Kept(list, f, i)
<1> DEFINE n == Len(list)
           P(f) == f = [i \in 0..n |-> Kept(list, f, i)]
           S == {m \in Nat : \E f : \A i \in 0..m : f[i] = Kept(list, f, i)}
<1>1. 0 \in S
  <2>1. PICK f : f = [i \in 0..0 |-> <<>>]
    OBVIOUS
  <2>2. \A i \in 0..0 : f[i] = Kept(list, f, i)
    BY <2>1 DEF Kept
  <2> QED
    BY <2>2
<1>2. ASSUME NEW m \in Nat, m \in S PROVE m + 1 \in S
  <2>1. PICK f : \A i \in 0..m : f[i] = Kept(list, f, i)
    BY <1>2
  <2>2. PICK g : g = [i \in 0..(m + 1) |-> Kept(list, f, i)]
    OBVIOUS
  <2>3. \A i \in 0..m : g[i] = f[i]
    BY <2>1, <2>2
  <2>4. ASSUME NEW i \in 0..(m + 1) PROVE g[i] = Kept(list, g, i)
    <3>1. g[i] = Kept(list, f, i)
      BY <2>2
    <3>2. i # 0 => i - 1 \in 0..m
      OBVIOUS
    <3> QED
      BY <2>3, <3>1, <3>2 DEF Kept
  <2> QED
    BY <2>4
<1>3. n \in S
  <2> HIDE DEF S
  <2> QED
    BY <1>1, <1>2, Induction
<1>4. PICK f : \A i \in 0..n : f[i] = Kept(list, f, i)
  BY <1>3
<1>5. PICK g : g = [i \in 0..n |-> Kept(list, f, i)]
  OBVIOUS
<1>6. \A i \in 0..n : g[i] = f[i]
  BY <1>4, <1>5
<1>7. \A i \in 0..n : Kept(list, f, i) = Kept(list, g, i)
  <2>1. \A i \in 0..n : i # 0 => i - 1 \in 0..n
    OBVIOUS
  <2> QED
    BY <1>6, <2>1 DEF Kept
<1>8. P(g)
  BY <1>5, <1>7
<1>9. Positives(list) = (CHOOSE h : P(h))[n]
  BY DEF Positives, Kept
<1>10. PICK h : h = CHOOSE h0 : P(h0)
  OBVIOUS
<1>11. P(h)
  <2> HIDE DEF P
  <2> QED
    BY <1>8, <1>10
<1>12. \A i \in 0..n : h[i] = Kept(list, h, i)
  <2>1. h = [i \in 0..n |-> Kept(list, h, i)]
    BY <1>11
  <2> QED
    BY <2>1
<1> HIDE DEF P
<1> QED
  BY <1>9, <1>10, <1>12

\* q has the positive serials among the first i, and no other.
Keeps(q, list, i) ==
  /\ q \in Seq(Nat \ {0})
  /\ \A s : s \in Range(q) <=> \E k \in 1..i : s = list[k] /\ Positive(s)

\* An element more.
LEMMA RangeMore ==
  ASSUME NEW T, NEW q \in Seq(T), NEW x
  PROVE  Range(Append(q, x)) = Range(q) \cup {x} /\ Range(q) \subseteq T
<1>1. Append(q, x) = [j \in 1..(Len(q) + 1) |-> IF j = Len(q) + 1 THEN x ELSE q[j]]
  BY AppendIs
<1>2. DOMAIN q = 1..Len(q) /\ Len(q) \in Nat /\ \A j \in 1..Len(q) : q[j] \in T
  OBVIOUS
<1>3. Range(Append(q, x)) = {Append(q, x)[j] : j \in 1..(Len(q) + 1)}
  BY <1>1 DEF Range
<1>4. Range(q) = {q[j] : j \in 1..Len(q)}
  BY <1>2 DEF Range
<1>5. Range(Append(q, x)) \subseteq Range(q) \cup {x}
  BY <1>1, <1>2, <1>3, <1>4
<1>6. Range(q) \cup {x} \subseteq Range(Append(q, x))
  <2>1. x \in Range(Append(q, x))
    BY <1>1, <1>2, <1>3
  <2>2. ASSUME NEW j \in 1..Len(q) PROVE q[j] \in Range(Append(q, x))
    <3>1. Append(q, x)[j] = q[j] /\ j \in 1..(Len(q) + 1)
      BY <1>1, <1>2
    <3> QED
      BY <1>3, <3>1
  <2> QED
    BY <1>4, <2>1, <2>2
<1> QED
  BY <1>2, <1>4, <1>5, <1>6

\* Cleaning keeps the positive serials.
LEMMA PositivesIs ==
  ASSUME NEW list \in Seq(Int \cup {NilSerial})
  PROVE  Keeps(Positives(list), list, Len(list))
<1>1. PICK n \in Nat : n = Len(list)
  OBVIOUS
<1>2. PICK f : Positives(list) = f[n] /\ \A i \in 0..n : f[i] = Kept(list, f, i)
  BY <1>1, PositivesLoop
<1> DEFINE S == {i \in Nat : i <= n => Keeps(f[i], list, i)}
<1>3. 0 \in S
  <2>1. f[0] = <<>>
    BY <1>2 DEF Kept
  <2>2. Keeps(<<>>, list, 0)
    BY DEF Keeps, Range
  <2> QED
    BY <2>1, <2>2
<1>4. ASSUME NEW i \in Nat, i \in S PROVE i + 1 \in S
  <2> SUFFICES ASSUME i + 1 <= n PROVE Keeps(f[i + 1], list, i + 1)
    OBVIOUS
  <2>1. PICK q : q = f[i] /\ Keeps(q, list, i)
    BY <1>4
  <2>2. PICK s : s = list[i + 1]
    OBVIOUS
  <2>3. f[i + 1] = IF Positive(s) THEN Append(q, s) ELSE q
    <3>1. i + 1 \in 0..n /\ i + 1 # 0 /\ (i + 1) - 1 = i
      OBVIOUS
    <3> QED
      BY <1>2, <2>1, <2>2, <3>1 DEF Kept
  <2>4. s \in Int \cup {NilSerial}
    BY <1>1, <2>2
  <2>5. \A k : k \in 1..(i + 1) <=> k \in 1..i \/ k = i + 1
    OBVIOUS
  <2>6. CASE Positive(s)
    <3>1. s \in Nat \ {0} /\ q \in Seq(Nat \ {0})
      BY <2>1, <2>4, <2>6 DEF Positive, Keeps
    <3>2. Range(Append(q, s)) = Range(q) \cup {s}
      BY <3>1, RangeMore
    <3>3. Append(q, s) \in Seq(Nat \ {0})
      BY <3>1
    <3>4. Keeps(Append(q, s), list, i + 1)
      BY <2>1, <2>2, <2>5, <2>6, <3>2, <3>3 DEF Keeps
    <3> QED
      BY <2>3, <2>6, <3>4
  <2>7. CASE ~Positive(s)
    <3>1. Keeps(q, list, i + 1)
      BY <2>1, <2>2, <2>5, <2>7 DEF Keeps
    <3> QED
      BY <2>3, <2>7, <3>1
  <2> QED
    BY <2>6, <2>7
<1>5. n \in S
  <2> HIDE DEF S
  <2> QED
    BY <1>3, <1>4, Induction
<1> QED
  BY <1>1, <1>2, <1>5

\* p permutes 1..n.
Permutes(p, n) ==
  /\ p \in [1..n -> 1..n] /\ \A i, j \in 1..n : p[i] = p[j] => i = j
  /\ \A i \in 1..n : \E j \in 1..n : p[j] = i

LEMMA PermutesIs ==
  ASSUME NEW p, NEW n
  PROVE  p \in Bijection(1..n, 1..n) <=> Permutes(p, n)
  BY DEF Bijection, Injection, Surjection, IsInjective, Permutes

\* p puts s, on 1..n, in ascending order.
Sorts(p, s, n) ==
  /\ Permutes(p, n)
  /\ \A i, j \in 1..n : i < j => s[p[i]] <= s[p[j]]

\* Every list of numbers can be sorted: the least one first, its place being taken by the
\* last one.
LEMMA CanSort ==
  ASSUME NEW n \in Nat, NEW s \in [1..n -> Nat]
  PROVE  \E p : Sorts(p, s, n)
<1> DEFINE S == {m \in Nat : \A t \in [1..m -> Nat] : \E p : Sorts(p, t, m)}
<1>1. 0 \in S
  <2>1. ASSUME NEW t \in [1..0 -> Nat] PROVE Sorts([i \in 1..0 |-> i], t, 0)
    <3>1. Permutes([i \in 1..0 |-> i], 0)
      BY DEF Permutes
    <3> QED
      BY <3>1 DEF Sorts
  <2> QED
    BY <2>1
<1>2. ASSUME NEW m \in Nat, m \in S PROVE m + 1 \in S
  <2> SUFFICES ASSUME NEW t \in [1..(m + 1) -> Nat] PROVE \E p : Sorts(p, t, m + 1)
    OBVIOUS
  <2>1. PICK a \in 1..(m + 1) : \A i \in 1..(m + 1) : t[a] <= t[i]
    <3> DEFINE T == {t[i] : i \in 1..(m + 1)}
    <3>1. T \in SUBSET Nat
      OBVIOUS
    <3>2. T # {}
      <4>1. 1 \in 1..(m + 1)
        OBVIOUS
      <4> QED
        BY <4>1
    <3>3. \E x \in T : \A y \in T : x <= y
      <4> HIDE DEF T
      <4> QED
        BY <3>1, <3>2, LeastOf
    <3> QED
      BY <3>3
  <2> DEFINE Other(j) == IF j = a THEN m + 1 ELSE j
  <2>2. \A j \in 1..m : Other(j) \in 1..(m + 1) /\ Other(j) # a
    OBVIOUS
  <2>3. \A j, k \in 1..m : Other(j) = Other(k) => j = k
    OBVIOUS
  <2>4. \A i \in 1..(m + 1) : i = a \/ \E j \in 1..m : i = Other(j)
    <3> SUFFICES ASSUME NEW i \in 1..(m + 1), i # a PROVE \E j \in 1..m : i = Other(j)
      OBVIOUS
    <3>1. CASE i = m + 1
      <4>1. a \in 1..m /\ i = Other(a)
        BY <3>1
      <4> QED
        BY <4>1
    <3>2. CASE i # m + 1
      <4>1. i \in 1..m /\ i = Other(i)
        BY <3>2
      <4> QED
        BY <4>1
    <3> QED
      BY <3>1, <3>2
  <2> HIDE DEF Other
  <2>5. PICK u \in [1..m -> Nat] : \A j \in 1..m : u[j] = t[Other(j)]
    <3>1. [j \in 1..m |-> t[Other(j)]] \in [1..m -> Nat]
      BY <2>2
    <3> QED
      BY <3>1
  <2>6. PICK q : Sorts(q, u, m)
    BY <1>2
  <2>7. /\ q \in [1..m -> 1..m] /\ \A j, k \in 1..m : q[j] = q[k] => j = k
        /\ \A j \in 1..m : \E k \in 1..m : q[k] = j
        /\ \A j, k \in 1..m : j < k => u[q[j]] <= u[q[k]]
    BY <2>6 DEF Sorts, Permutes
  <2>8. PICK p \in [1..(m + 1) -> 1..(m + 1)] :
          p[1] = a /\ \A i \in 1..m : p[i + 1] = Other(q[i])
    <3>1. PICK p : p = [i \in 1..(m + 1) |-> IF i = 1 THEN a ELSE Other(q[i - 1])]
      OBVIOUS
    <3>2. ASSUME NEW i \in 1..(m + 1), i # 1 PROVE Other(q[i - 1]) \in 1..(m + 1)
      <4>1. q[i - 1] \in 1..m
        <5>1. i - 1 \in 1..m
          BY <3>2
        <5> QED
          BY <2>7, <5>1
      <4> QED
        BY <2>2, <4>1
    <3>3. p \in [1..(m + 1) -> 1..(m + 1)]
      BY <3>1, <3>2
    <3>4. p[1] = a
      BY <3>1
    <3>5. ASSUME NEW i \in 1..m PROVE p[i + 1] = Other(q[i])
      <4>1. i + 1 \in 1..(m + 1) /\ i + 1 # 1 /\ (i + 1) - 1 = i
        OBVIOUS
      <4> QED
        BY <3>1, <4>1
    <3> QED
      BY <3>3, <3>4, <3>5
  <2>9. \A i \in 1..(m + 1) : i = 1 \/ \E j \in 1..m : i = j + 1
    <3> SUFFICES ASSUME NEW i \in 1..(m + 1), i # 1 PROVE \E j \in 1..m : i = j + 1
      OBVIOUS
    <3>1. i - 1 \in 1..m /\ i = (i - 1) + 1
      OBVIOUS
    <3> QED
      BY <3>1
  <2>10. ASSUME NEW i \in 1..(m + 1), NEW j \in 1..(m + 1), p[i] = p[j] PROVE i = j
    <3>1. CASE i = 1 /\ j = 1
      BY <3>1
    <3>2. ASSUME NEW k \in 1..m, p[k + 1] = a PROVE FALSE
      <4>1. q[k] \in 1..m /\ p[k + 1] = Other(q[k])
        BY <2>7, <2>8
      <4> QED
        BY <2>2, <3>2, <4>1
    <3>3. CASE i # 1 /\ j # 1
      <4>1. PICK k \in 1..m, l \in 1..m : i = k + 1 /\ j = l + 1
        BY <2>9, <3>3
      <4>2. p[i] = Other(q[k]) /\ p[j] = Other(q[l]) /\ q[k] \in 1..m /\ q[l] \in 1..m
        BY <2>7, <2>8, <4>1
      <4>3. q[k] = q[l]
        BY <2>3, <2>10, <4>2
      <4>4. k = l
        BY <2>7, <4>3
      <4> QED
        BY <4>1, <4>4
    <3> QED
      BY <2>8, <2>9, <2>10, <3>1, <3>2, <3>3
  <2>11. ASSUME NEW i \in 1..(m + 1) PROVE \E k \in 1..(m + 1) : p[k] = i
    <3>1. CASE i = a
      <4>1. 1 \in 1..(m + 1)
        OBVIOUS
      <4> QED
        BY <2>8, <3>1, <4>1
    <3>2. CASE i # a
      <4>1. PICK j \in 1..m : i = Other(j)
        BY <2>4, <3>2
      <4>2. PICK k \in 1..m : q[k] = j
        BY <2>7
      <4>3. p[k + 1] = Other(q[k]) /\ k + 1 \in 1..(m + 1)
        BY <2>8
      <4> QED
        BY <4>1, <4>2, <4>3
    <3> QED
      BY <3>1, <3>2
  <2>12. ASSUME NEW i \in 1..(m + 1), NEW j \in 1..(m + 1), i < j PROVE t[p[i]] <= t[p[j]]
    <3>1. CASE i = 1
      <4>1. p[j] \in 1..(m + 1)
        BY <2>8
      <4> QED
        BY <2>1, <2>8, <3>1, <4>1
    <3>2. CASE i # 1
      <4>1. PICK k \in 1..m, l \in 1..m : i = k + 1 /\ j = l + 1
        BY <2>9, <2>12, <3>2
      <4>2. q[k] \in 1..m /\ q[l] \in 1..m
        BY <2>7
      <4>5. k < l
        BY <2>12, <4>1
      <4>3. u[q[k]] <= u[q[l]]
        BY <2>7, <4>5
      <4>4. p[i] = Other(q[k]) /\ p[j] = Other(q[l])
        BY <2>8, <4>1
      <4> QED
        BY <2>5, <4>2, <4>3, <4>4
    <3> QED
      BY <3>1, <3>2
  <2>13. Permutes(p, m + 1)
    BY <2>10, <2>11 DEF Permutes
  <2>14. Sorts(p, t, m + 1)
    BY <2>12, <2>13 DEF Sorts
  <2> QED
    BY <2>14
<1>3. n \in S
  <2> HIDE DEF S
  <2> QED
    BY <1>1, <1>2, Induction
<1> QED
  BY <1>3

\* What sorting makes of a list: its elements, ascending.
LEMMA SortedIs ==
  ASSUME NEW list \in Seq(Nat \ {0}), NEW out, out = Sorted(list)
  PROVE  /\ out \in Seq(Nat \ {0}) /\ Range(out) = Range(list)
         /\ \A i, j \in DOMAIN out : i < j => out[i] <= out[j]
<1>1. PICK n \in Nat : n = Len(list) /\ DOMAIN list = 1..n
  OBVIOUS
<1>2. \A i \in 1..n : list[i] \in Nat \ {0}
  BY <1>1
<1>3. PICK s \in [1..n -> Nat] : \A i \in 1..n : s[i] = list[i]
  <2>1. [i \in 1..n |-> list[i]] \in [1..n -> Nat]
    BY <1>2
  <2> QED
    BY <2>1
<1>4. PICK q : Sorts(q, s, n)
  BY CanSort
<1> DEFINE By(p) == [i \in DOMAIN list |-> list[p[i]]]
           Up1(o) == \A i, j \in DOMAIN list : i < j => o[i] <= o[j]
<1>5. q \in Bijection(1..n, 1..n) /\ q \in [1..n -> 1..n] /\ Up1(By(q))
  <2>1. q \in Bijection(1..n, 1..n) /\ q \in [1..n -> 1..n] /\ \A i, j \in 1..n : i < j => s[q[i]] <= s[q[j]]
    BY <1>4, PermutesIs DEF Sorts, Permutes
  <2>2. \A i \in 1..n : By(q)[i] = s[q[i]]
    BY <1>1, <1>3, <2>1
  <2> QED
    BY <1>1, <2>1, <2>2
<1>6. By(q) \in Rearrangements(list)
  BY <1>1, <1>5 DEF Rearrangements
<1>7. out \in Rearrangements(list) /\ Up1(out)
  <2>1. out = CHOOSE o \in Rearrangements(list) : Up1(o)
    BY DEF Sorted
  <2> HIDE DEF By, Up1
  <2> QED
    BY <1>5, <1>6, <2>1
<1>8. PICK p \in Bijection(1..n, 1..n) : out = [i \in 1..n |-> list[p[i]]]
  BY <1>1, <1>7 DEF Rearrangements
<1>9. p \in [1..n -> 1..n] /\ \A i \in 1..n : \E j \in 1..n : p[j] = i
  <2>1. Permutes(p, n)
    BY <1>8, PermutesIs
  <2> QED
    BY <2>1 DEF Permutes
<1>10. out \in Seq(Nat \ {0}) /\ DOMAIN out = 1..n
  <2>1. \A i \in 1..n : out[i] \in Nat \ {0}
    BY <1>2, <1>8, <1>9
  <2>2. n \in Nat
    OBVIOUS
  <2>3. DOMAIN out = 1..n /\ out = [i \in 1..n |-> out[i]]
    BY <1>8
  <2>4. out \in [1..n -> Nat \ {0}]
    BY <2>1, <2>3
  <2> QED
    BY <2>2, <2>3, <2>4
<1>11. Range(out) = Range(list)
  <2>1. ASSUME NEW i \in 1..n PROVE out[i] \in Range(list)
    BY <1>1, <1>8, <1>9 DEF Range
  <2>2. ASSUME NEW i \in 1..n PROVE list[i] \in Range(out)
    <3>1. PICK j \in 1..n : p[j] = i
      BY <1>9
    <3>2. out[j] = list[i]
      BY <1>8, <3>1
    <3> QED
      BY <1>10, <3>2 DEF Range
  <2>3. Range(out) \subseteq Range(list)
    BY <1>10, <2>1 DEF Range
  <2>4. Range(list) \subseteq Range(out)
    BY <1>1, <2>2 DEF Range
  <2> QED
    BY <2>3, <2>4
<1> QED
  BY <1>1, <1>7, <1>10, <1>11

\* Compacted is what its loop has at its end.
Compacting(list, f, i) == IF i = 0 THEN <<>> ELSE Compact(f[i - 1], list[i])

LEMMA CompactedLoop ==
  ASSUME NEW list, Len(list) \in Nat
  PROVE  \E f : /\ Compacted(list) = f[Len(list)]
                /\ \A i \in 0..Len(list) : f[i] = Compacting(list, f, i)
<1> DEFINE n == Len(list)
           P(f) == f = [i \in 0..n |-> Compacting(list, f, i)]
           S == {m \in Nat : \E f : \A i \in 0..m : f[i] = Compacting(list, f, i)}
<1>1. 0 \in S
  <2>1. PICK f : f = [i \in 0..0 |-> <<>>]
    OBVIOUS
  <2>2. \A i \in 0..0 : f[i] = Compacting(list, f, i)
    BY <2>1 DEF Compacting
  <2> QED
    BY <2>2
<1>2. ASSUME NEW m \in Nat, m \in S PROVE m + 1 \in S
  <2>1. PICK f : \A i \in 0..m : f[i] = Compacting(list, f, i)
    BY <1>2
  <2>2. PICK g : g = [i \in 0..(m + 1) |-> Compacting(list, f, i)]
    OBVIOUS
  <2>3. \A i \in 0..m : g[i] = f[i]
    BY <2>1, <2>2
  <2>4. ASSUME NEW i \in 0..(m + 1) PROVE g[i] = Compacting(list, g, i)
    <3>1. g[i] = Compacting(list, f, i)
      BY <2>2
    <3>2. i # 0 => i - 1 \in 0..m
      OBVIOUS
    <3> QED
      BY <2>3, <3>1, <3>2 DEF Compacting
  <2> QED
    BY <2>4
<1>3. n \in S
  <2> HIDE DEF S
  <2> QED
    BY <1>1, <1>2, Induction
<1>4. PICK f : \A i \in 0..n : f[i] = Compacting(list, f, i)
  BY <1>3
<1>5. PICK g : g = [i \in 0..n |-> Compacting(list, f, i)]
  OBVIOUS
<1>6. \A i \in 0..n : g[i] = f[i]
  BY <1>4, <1>5
<1>7. \A i \in 0..n : Compacting(list, f, i) = Compacting(list, g, i)
  <2>1. \A i \in 0..n : i # 0 => i - 1 \in 0..n
    OBVIOUS
  <2> QED
    BY <1>6, <2>1 DEF Compacting
<1>8. P(g)
  BY <1>5, <1>7
<1>9. Compacted(list) = (CHOOSE h : P(h))[n]
  BY DEF Compacted, Compacting
<1>10. PICK h : h = CHOOSE h0 : P(h0)
  OBVIOUS
<1>11. P(h)
  <2> HIDE DEF P
  <2> QED
    BY <1>8, <1>10
<1>12. \A i \in 0..n : h[i] = Compacting(list, h, i)
  <2>1. h = [i \in 0..n |-> Compacting(list, h, i)]
    BY <1>11
  <2> QED
    BY <2>1
<1> HIDE DEF P
<1> QED
  BY <1>9, <1>10, <1>12

\* q ascends.
Ascends(q) ==
  q \in Seq(Nat \ {0}) /\ \A i, j \in DOMAIN q : i < j => q[i] < q[j]

\* q has the first i elements of an ascending list, each once.
Compacts(q, list, i) ==
  /\ Ascends(q) /\ \A s : s \in Range(q) <=> \E k \in 1..i : s = list[k]
  /\ i # 0 => q # <<>> /\ q[Len(q)] = list[i]

\* One element more.
LEMMA CompactMore ==
  ASSUME NEW q, NEW list, NEW i \in Nat, Compacts(q, list, i), NEW s \in Nat \ {0}, s = list[i + 1],
         i # 0 => list[i] <= s
  PROVE  Compacts(Compact(q, s), list, i + 1)
<1>1. PICK m \in Nat : m = Len(q) /\ q \in Seq(Nat \ {0}) /\ DOMAIN q = 1..m
  BY DEF Compacts, Ascends
<1>2. /\ \A j, k \in 1..m : j < k => q[j] < q[k]
      /\ \A x : x \in Range(q) <=> \E k \in 1..i : x = list[k]
      /\ i # 0 => q # <<>> /\ q[m] = list[i]
  BY <1>1 DEF Compacts, Ascends
<1>3. \A k : k \in 1..(i + 1) <=> k \in 1..i \/ k = i + 1
  OBVIOUS
<1>4. q # <<>> <=> m # 0
  BY <1>1, EmptySeq
<1>5. i = 0 => q = <<>>
  <2> SUFFICES ASSUME i = 0, q # <<>> PROVE FALSE
    OBVIOUS
  <2>1. 1 \in DOMAIN q
    BY <1>1, <1>4
  <2>2. q[1] \in Range(q)
    BY <2>1 DEF Range
  <2> QED
    BY <1>2, <2>2
<1>6. CASE q # <<>> /\ q[Len(q)] = s
  <2>1. Compact(q, s) = q
    BY <1>6 DEF Compact
  <2>2. i # 0 /\ q[m] = list[i]
    BY <1>2, <1>5, <1>6
  <2>3. \A x : x \in Range(q) <=> \E k \in 1..(i + 1) : x = list[k]
    <3>1. list[i + 1] = list[i] /\ i \in 1..i
      BY <1>1, <1>6, <2>2
    <3> QED
      BY <1>2, <1>3, <3>1
  <2> QED
    BY <1>1, <1>6, <2>1, <2>3 DEF Compacts
<1>7. CASE ~(q # <<>> /\ q[Len(q)] = s)
  <2>1. PICK r : r = Append(q, s) /\ r = Compact(q, s)
    BY <1>7 DEF Compact
  <2> DEFINE T == Nat \ {0}
  <2>0. q \in Seq(T) /\ s \in T
    BY <1>1
  <2> HIDE DEF T
  <2>3. r \in Seq(T)
    <3>1. Append(q, s) \in Seq(T)
      BY <2>0
    <3> QED
      BY <2>1, <3>1
  <2>2. r = [j \in 1..(m + 1) |-> IF j = m + 1 THEN s ELSE q[j]]
    <3>1. Append(q, s) = [j \in 1..(Len(q) + 1) |-> IF j = Len(q) + 1 THEN s ELSE q[j]]
      BY <2>0, AppendIs
    <3> QED
      BY <1>1, <2>1, <3>1
  <2>10. Range(r) = Range(q) \cup {s}
    <3>1. Range(Append(q, s)) = Range(q) \cup {s}
      BY <2>0, RangeMore
    <3> QED
      BY <2>1, <3>1
  <2>4. ASSUME NEW j \in 1..m PROVE q[j] < s
    <3>1. m # 0 /\ i # 0
      BY <1>4, <1>5
    <3>2. q[m] <= s /\ q[m] # s /\ m \in 1..m /\ q[m] \in Nat
      BY <1>1, <1>2, <1>4, <1>7, <3>1
    <3>3. q[j] \in Nat /\ (j = m \/ q[j] < q[m])
      BY <1>1, <1>2
    <3> QED
      BY <3>2, <3>3
  <2>5. ASSUME NEW j \in 1..(m + 1), NEW k \in 1..(m + 1), j < k PROVE r[j] < r[k]
    <3>1. j \in 1..m /\ r[j] = q[j]
      BY <2>2, <2>5
    <3>2. CASE k = m + 1
      BY <2>2, <2>4, <3>1, <3>2
    <3>3. CASE k # m + 1
      <4>1. k \in 1..m /\ r[k] = q[k]
        BY <2>2, <3>3
      <4> QED
        BY <1>2, <2>5, <3>1, <4>1
    <3> QED
      BY <3>2, <3>3
  <2>6. DOMAIN r = 1..(m + 1) /\ Len(r) = m + 1 /\ r[m + 1] = s
    BY <2>2
  <2>7. Ascends(r)
    BY <2>3, <2>5, <2>6 DEF Ascends, T
  <2>8. \A x : x \in Range(r) <=> \E k \in 1..(i + 1) : x = list[k]
    BY <1>2, <1>3, <2>10
  <2>9. r # <<>>
    BY <2>3, <2>6, EmptySeq
  <2> QED
    BY <2>1, <2>6, <2>7, <2>8, <2>9 DEF Compacts
<1> QED
  BY <1>6, <1>7

\* What is left of an ascending list with repetitions.
LEMMA CompactedIs ==
  ASSUME NEW list \in Seq(Nat \ {0}), \A i, j \in DOMAIN list : i < j => list[i] <= list[j]
  PROVE  Ascends(Compacted(list)) /\ Range(Compacted(list)) = Range(list)
<1>1. PICK n \in Nat : n = Len(list) /\ DOMAIN list = 1..n
  OBVIOUS
<1>2. PICK f : Compacted(list) = f[n] /\ \A i \in 0..n : f[i] = Compacting(list, f, i)
  BY <1>1, CompactedLoop
<1> DEFINE S == {i \in Nat : i <= n => Compacts(f[i], list, i)}
<1>3. 0 \in S
  <2>1. f[0] = <<>>
    BY <1>2 DEF Compacting
  <2>2. Compacts(<<>>, list, 0)
    BY DEF Compacts, Ascends, Range
  <2> QED
    BY <2>1, <2>2
<1>4. ASSUME NEW i \in Nat, i \in S PROVE i + 1 \in S
  <2> SUFFICES ASSUME i + 1 <= n PROVE Compacts(f[i + 1], list, i + 1)
    OBVIOUS
  <2>1. PICK q, s : q = f[i] /\ Compacts(q, list, i) /\ s = list[i + 1]
    BY <1>4
  <2>2. f[i + 1] = Compact(q, s)
    <3>1. i + 1 \in 0..n /\ i + 1 # 0 /\ (i + 1) - 1 = i
      OBVIOUS
    <3> QED
      BY <1>2, <2>1, <3>1 DEF Compacting
  <2>3. s \in Nat \ {0}
    BY <1>1, <2>1
  <2>4. i # 0 => list[i] <= s
    <3>1. i # 0 => i \in DOMAIN list /\ i + 1 \in DOMAIN list /\ i < i + 1
      BY <1>1
    <3> QED
      BY <2>1, <3>1
  <2>5. Compacts(Compact(q, s), list, i + 1)
    BY <2>1, <2>3, <2>4, CompactMore
  <2> QED
    BY <2>2, <2>5
<1>5. n \in S
  <2> HIDE DEF S
  <2> QED
    BY <1>3, <1>4, Induction
<1>6. PICK c : c = Compacted(list) /\ Compacts(c, list, n)
  BY <1>2, <1>5
<1>7. Range(c) = Range(list)
  <2>1. \A x : x \in Range(list) <=> \E k \in 1..n : x = list[k]
    BY <1>1 DEF Range
  <2> QED
    BY <1>6, <2>1 DEF Compacts
<1> QED
  BY <1>6, <1>7 DEF Compacts

\* The list that is inserted: the revoked serials, ascending.
LEMMA DedupIs ==
  ASSUME serials \in CRLs
  PROVE  Ascends(DedupAndSortSerials(serials)) /\ Range(DedupAndSortSerials(serials)) = Revoked
<1>1. serials \in Seq(Int \cup {NilSerial})
  BY CRLsAssumption
<1>2. PICK kept : kept = Positives(serials) /\ Keeps(kept, serials, Len(serials))
  BY <1>1, PositivesIs
<1>3. PICK sorted : sorted = Sorted(kept)
  OBVIOUS
<1>4. kept \in Seq(Nat \ {0})
  BY <1>2 DEF Keeps
<1>5. /\ sorted \in Seq(Nat \ {0}) /\ Range(sorted) = Range(kept)
      /\ \A i, j \in DOMAIN sorted : i < j => sorted[i] <= sorted[j]
  BY <1>3, <1>4, SortedIs
<1>6. Ascends(Compacted(sorted)) /\ Range(Compacted(sorted)) = Range(sorted)
  BY <1>5, CompactedIs
<1>7. DOMAIN serials = 1..Len(serials)
  BY <1>1
<1>8. Range(kept) = Revoked
  BY <1>2, <1>7 DEF Keeps, Revoked
<1> QED
  BY <1>2, <1>3, <1>5, <1>6, <1>8 DEF DedupAndSortSerials

\* There is one ascending enumeration of a set.
LEMMA AscendingIsUnique ==
  ASSUME NEW u, NEW w, Ascends(u), Ascends(w), Range(u) = Range(w)
  PROVE  u = w
<1>1. PICK m \in Nat, n \in Nat : m = Len(u) /\ n = Len(w) /\ DOMAIN u = 1..m /\ DOMAIN w = 1..n
  BY DEF Ascends
<1>2. /\ \A i \in 1..m : u[i] \in Nat
      /\ \A i \in 1..n : w[i] \in Nat
      /\ \A i, j \in 1..m : i < j => u[i] < u[j]
      /\ \A i, j \in 1..n : i < j => w[i] < w[j]
  <2>1. u \in Seq(Nat \ {0}) /\ \A i, j \in DOMAIN u : i < j => u[i] < u[j]
    BY DEF Ascends
  <2>2. w \in Seq(Nat \ {0}) /\ \A i, j \in DOMAIN w : i < j => w[i] < w[j]
    BY DEF Ascends
  <2>3. \A i \in 1..m : u[i] \in Nat
    BY <1>1, <2>1
  <2>4. \A i \in 1..n : w[i] \in Nat
    BY <1>1, <2>2
  <2> QED
    BY <1>1, <2>1, <2>2, <2>3, <2>4
<1>3. \A i \in 1..m : \E j \in 1..n : w[j] = u[i]
  BY <1>1 DEF Range
<1>4. \A i \in 1..n : \E j \in 1..m : u[j] = w[i]
  BY <1>1 DEF Range
<1> DEFINE S == {i \in Nat : (i \in 1..m \/ i \in 1..n) => i \in 1..m /\ i \in 1..n /\ u[i] = w[i]}
<1>5. ASSUME NEW i \in Nat, \A k \in Nat : k < i => k \in S PROVE i \in S
  <2>1. ASSUME i \in 1..m PROVE i <= n /\ w[i] <= u[i]
    <3>1. PICK j \in 1..n : w[j] = u[i]
      BY <1>3, <2>1
    <3>2. ~(j < i)
      <4> SUFFICES ASSUME j < i PROVE FALSE
        OBVIOUS
      <4>1. j \in 1..m /\ u[j] = w[j]
        BY <1>5
      <4>2. u[j] < u[i]
        BY <1>2, <2>1, <4>1
      <4> QED
        BY <1>2, <2>1, <3>1, <4>1, <4>2
    <3>3. i <= n /\ i \in 1..n /\ (i = j \/ i < j)
      BY <2>1, <3>2
    <3> QED
      BY <1>2, <2>1, <3>1, <3>3
  <2>2. ASSUME i \in 1..n PROVE i <= m /\ u[i] <= w[i]
    <3>1. PICK j \in 1..m : u[j] = w[i]
      BY <1>4, <2>2
    <3>2. ~(j < i)
      <4> SUFFICES ASSUME j < i PROVE FALSE
        OBVIOUS
      <4>1. j \in 1..n /\ u[j] = w[j]
        BY <1>5
      <4>2. w[j] < w[i]
        BY <1>2, <2>2, <4>1
      <4> QED
        BY <1>2, <2>2, <3>1, <4>1, <4>2
    <3>3. i <= m /\ i \in 1..m /\ (i = j \/ i < j)
      BY <2>2, <3>2
    <3> QED
      BY <1>2, <2>2, <3>1, <3>3
  <2>3. i \in 1..m <=> i \in 1..n
    BY <2>1, <2>2
  <2>4. i \in 1..m => u[i] = w[i]
    BY <1>2, <2>1, <2>2, <2>3
  <2> QED
    BY <2>3, <2>4
<1>6. \A i \in Nat : i \in S
  <2> HIDE DEF S
  <2> QED
    BY <1>5, StrongInduction
<1>7. m = n
  BY <1>6
<1>8. \A i \in 1..m : u[i] = w[i]
  BY <1>6
<1>9. u = [i \in 1..m |-> u[i]] /\ w = [i \in 1..n |-> w[i]]
  BY <1>1 DEF Ascends
<1> QED
  BY <1>7, <1>8, <1>9

\* InOrder is that enumeration.
LEMMA InOrderIs ==
  ASSUME NEW u, Ascends(u)
  PROVE  InOrder(Range(u)) = u
<1>1. PICK m \in Nat : m = Len(u) /\ DOMAIN u = 1..m /\ u = [i \in 1..m |-> u[i]]
  BY DEF Ascends
<1>2. PICK S : S = Range(u)
  OBVIOUS
<1>3. u \in [1..m -> S] /\ S \subseteq Nat \ {0}
  <2>1. \A i \in 1..m : u[i] \in S /\ u[i] \in Nat \ {0}
    BY <1>1, <1>2 DEF Range, Ascends
  <2> QED
    BY <1>1, <1>2, <2>1 DEF Range
<1>4. Cardinality(S) = m /\ ExistsBijection(1..m, S)
  <2>1. \A i, j \in 1..m : u[i] = u[j] => i = j
    <3> SUFFICES ASSUME NEW i \in 1..m, NEW j \in 1..m, u[i] = u[j], i # j PROVE FALSE
      OBVIOUS
    <3>1. (i < j => u[i] < u[j]) /\ (j < i => u[j] < u[i])
      BY <1>1 DEF Ascends
    <3>2. u[i] \in Nat /\ u[j] \in Nat
      BY <1>3
    <3>3. i < j \/ j < i
      OBVIOUS
    <3> QED
      BY <3>1, <3>2, <3>3
  <2>2. \A s \in S : \E i \in 1..m : u[i] = s
    BY <1>1, <1>2 DEF Range
  <2>3. u \in Bijection(1..m, S)
    BY <1>3, <2>1, <2>2 DEF Bijection, Injection, Surjection, IsInjective
  <2>4. ExistsBijection(1..m, S)
    BY <2>3 DEF ExistsBijection
  <2> QED
    BY <2>4, FS_CountingElements
<1> DEFINE InOrd(s) == \A i, j \in DOMAIN s : i < j => s[i] < s[j]
<1>5. InOrd(u)
  BY DEF Ascends
<1>6. PICK w : w = InOrder(S) /\ w \in [1..m -> S] /\ InOrd(w)
  <2>1. InOrder(S) = CHOOSE s \in [1..m -> S] : InOrd(s)
    BY <1>4 DEF InOrder
  <2> HIDE DEF InOrd
  <2> QED
    BY <1>3, <1>5, <2>1
<1>7. Ascends(w)
  <2>1. w \in Seq(Nat \ {0})
    <3>1. w = [i \in 1..m |-> w[i]] /\ \A i \in 1..m : w[i] \in Nat \ {0}
      BY <1>3, <1>6
    <3> QED
      BY <3>1
  <2> QED
    BY <1>6, <2>1 DEF Ascends
<1>8. Range(w) = S
  <2>1. \A i, j \in 1..m : w[i] = w[j] => i = j
    <3> SUFFICES ASSUME NEW i \in 1..m, NEW j \in 1..m, w[i] = w[j], i # j PROVE FALSE
      OBVIOUS
    <3>1. w[i] < w[j] \/ w[j] < w[i]
      BY <1>6
    <3>2. w[i] \in Nat
      BY <1>3, <1>6
    <3> QED
      BY <3>1, <3>2
  <2>2. w \in Injection(1..m, S)
    BY <1>6, <2>1 DEF Injection, IsInjective
  <2>3. IsFiniteSet(1..m) /\ Cardinality(1..m) = m
    BY FS_Interval
  <2>4. IsFiniteSet(S)
    BY <1>4, FS_NatBijection
  <2>5. w \in Surjection(1..m, S)
    BY <1>4, <2>2, <2>3, <2>4, FS_Injection
  <2> QED
    BY <1>6, <2>5 DEF Surjection, Range
<1> QED
  BY <1>2, <1>6, <1>7, <1>8, AscendingIsUnique

\* The serials that go into the tree.
Cleaned == DedupAndSortSerials(serials)

\* The leaves over the sentinel and the first k of s.
LeavesUpTo(s, k) ==
  [i \in 1..(k + 1) |-> IndexedLeaf(IF i = 1 THEN 0 ELSE s[i - 1], IF i > k THEN 0 ELSE s[i])]

\* While the batch goes in the leaves are those over what has been inserted; then those
\* over all of it.
CrlInv ==
  /\ serials \in CRLs /\ err = "ok" /\ clean
  /\ ~built \/ Cleaned = <<>> => pc = "idle" /\ leaves = <<>>
  /\ built /\ Cleaned # <<>> =>
       /\ pc \in {"idle", "sorted", "recompute"}
       /\ pc = "sorted" =>
            /\ batch = Cleaned /\ pos \in 2..(Len(batch) + 1)
            /\ leaves = LeavesUpTo(Cleaned, pos - 1)
       /\ pc # "sorted" => leaves = LeavesOver(Cleaned)

\* One leaf more.
LEMMA LeavesMore ==
  ASSUME NEW s \in Seq(Nat \ {0}), NEW k \in Nat \ {0}, k < Len(s)
  PROVE  LET ls == LeavesUpTo(s, k)
         IN  /\ Len(ls) = k + 1 /\ ls[k + 1] = IndexedLeaf(s[k], 0)
             /\ Append([ls EXCEPT ![k + 1] = Linked(IndexedLeaf(s[k], 0), s[k + 1])],
                       IndexedLeaf(s[k + 1], 0)) = LeavesUpTo(s, k + 1)
<1>1. PICK n \in Nat : n = Len(s) /\ k < n /\ DOMAIN s = 1..n /\ \A i \in 1..n : s[i] \in Nat
  OBVIOUS
<1>2. PICK ls : ls = LeavesUpTo(s, k)
  OBVIOUS
<1>3. ls = [i \in 1..(k + 1) |->
              IndexedLeaf(IF i = 1 THEN 0 ELSE s[i - 1], IF i > k THEN 0 ELSE s[i])]
  BY <1>2 DEF LeavesUpTo
<1>4. ls[k + 1] = IndexedLeaf(s[k], 0)
  <2>1. k + 1 \in 1..(k + 1) /\ k + 1 # 1 /\ (k + 1) - 1 = k /\ k + 1 > k
    OBVIOUS
  <2> QED
    BY <1>3, <2>1
<1>5. PICK up : up = [ls EXCEPT ![k + 1] = Linked(IndexedLeaf(s[k], 0), s[k + 1])]
  OBVIOUS
<1>6. up = [i \in 1..(k + 1) |-> IndexedLeaf(IF i = 1 THEN 0 ELSE s[i - 1], s[i])]
  <2>1. up = [i \in 1..(k + 1) |-> IF i = k + 1 THEN Linked(IndexedLeaf(s[k], 0), s[k + 1]) ELSE ls[i]]
    BY <1>3, <1>5
  <2>2. Linked(IndexedLeaf(s[k], 0), s[k + 1]) = IndexedLeaf(s[k], s[k + 1])
    BY DEF Linked, IndexedLeaf
  <2>3. k + 1 # 1 /\ (k + 1) - 1 = k
    OBVIOUS
  <2>4. ASSUME NEW i \in 1..(k + 1) PROVE i # k + 1 => ~(i > k)
    OBVIOUS
  <2>5. ASSUME NEW i \in 1..(k + 1) PROVE up[i] = IndexedLeaf(IF i = 1 THEN 0 ELSE s[i - 1], s[i])
    <3>1. CASE i = k + 1
      BY <2>1, <2>2, <2>3, <3>1
    <3>2. CASE i # k + 1
      BY <1>3, <2>1, <2>4, <3>2
    <3> QED
      BY <3>1, <3>2
  <2> QED
    BY <2>1, <2>5
<1>7. PICK T : T = {up[i] : i \in DOMAIN up}
  OBVIOUS
<1>8. up \in Seq(T) /\ Len(up) = k + 1 /\ Len(ls) = k + 1
  <2>1. DOMAIN up = 1..(k + 1) /\ up = [i \in 1..(k + 1) |-> up[i]]
    BY <1>6
  <2>2. k + 1 \in Nat
    OBVIOUS
  <2>3. up \in Seq(T) /\ Len(up) = k + 1
    BY <1>7, <2>1, <2>2, SeqOfItself
  <2>4. Len(ls) = k + 1
    BY <1>3, <2>2
  <2> QED
    BY <2>3, <2>4
<1>9. PICK new : new = Append(up, IndexedLeaf(s[k + 1], 0))
  OBVIOUS
<1>10. new = [i \in 1..(k + 2) |-> IF i = k + 2 THEN IndexedLeaf(s[k + 1], 0) ELSE up[i]]
  <2>1. Append(up, IndexedLeaf(s[k + 1], 0)) =
          [i \in 1..(Len(up) + 1) |-> IF i = Len(up) + 1 THEN IndexedLeaf(s[k + 1], 0) ELSE up[i]]
    BY <1>8, AppendIs
  <2>2. Len(up) + 1 = k + 2
    BY <1>8
  <2> QED
    BY <1>9, <2>1, <2>2
<1>11. new = LeavesUpTo(s, k + 1)
  <2>1. ASSUME NEW i \in 1..(k + 2)
        PROVE  new[i] = IndexedLeaf(IF i = 1 THEN 0 ELSE s[i - 1], IF i > k + 1 THEN 0 ELSE s[i])
    <3>1. CASE i = k + 2
      <4>1. i # 1 /\ i - 1 = k + 1 /\ i > k + 1
        BY <3>1
      <4> QED
        BY <1>10, <3>1, <4>1
    <3>2. CASE i # k + 2
      <4>1. i \in 1..(k + 1) /\ ~(i > k + 1)
        BY <3>2
      <4> QED
        BY <1>6, <1>10, <3>2, <4>1
    <3> QED
      BY <3>1, <3>2
  <2>2. (k + 1) + 1 = k + 2
    OBVIOUS
  <2> QED
    BY <1>10, <2>1, <2>2 DEF LeavesUpTo
<1> QED
  BY <1>2, <1>4, <1>5, <1>8, <1>9, <1>11

\* The first value of the batch makes the sentinel as well.
LEMMA LeavesFirst ==
  ASSUME NEW v
  PROVE  \A s : s[1] = v => <<IndexedLeaf(0, v), IndexedLeaf(v, 0)>> = LeavesUpTo(s, 1)
<1> SUFFICES ASSUME NEW s, s[1] = v
             PROVE  <<IndexedLeaf(0, v), IndexedLeaf(v, 0)>> = LeavesUpTo(s, 1)
  OBVIOUS
<1>1. LeavesUpTo(s, 1) = [i \in 1..2 |->
                            IndexedLeaf(IF i = 1 THEN 0 ELSE s[i - 1], IF i > 1 THEN 0 ELSE s[i])]
  BY DEF LeavesUpTo
<1>2. LeavesUpTo(s, 1)[1] = IndexedLeaf(0, v)
  BY <1>1
<1>3. LeavesUpTo(s, 1)[2] = IndexedLeaf(v, 0)
  BY <1>1
<1>4. <<IndexedLeaf(0, v), IndexedLeaf(v, 0)>> =
        [i \in 1..2 |-> IF i = 1 THEN IndexedLeaf(0, v) ELSE IndexedLeaf(v, 0)]
  OBVIOUS
<1>5. LeavesUpTo(s, 1) = [i \in 1..2 |-> IF i = 1 THEN IndexedLeaf(0, v) ELSE IndexedLeaf(v, 0)]
  BY <1>1, <1>2, <1>3
<1> QED
  BY <1>4, <1>5

\* The call of InsertManySorted.
LEMMA BuildCrl ==
  ASSUME CrlInv, Build
  PROVE  CrlInv'
<1>1. PICK list : list = Cleaned /\ Ascends(list)
  BY DedupIs DEF CrlInv, Cleaned
<1>2. /\ ~built /\ built' = TRUE /\ serials' = serials /\ Cleaned' = list
      /\ pc = "idle" /\ leaves = <<>> /\ err = "ok" /\ clean /\ serials \in CRLs
  BY <1>1 DEF Build, CrlInv, Cleaned
<1>3. CASE list = <<>>
  <2>1. UNCHANGED <<pc, leaves, err, clean>>
    BY <1>1, <1>3 DEF Build, Cleaned, vars
  <2> QED
    BY <1>2, <1>3, <2>1 DEF CrlInv
<1>4. CASE list # <<>>
  <2>1. PICK n \in Nat : n = Len(list) /\ n # 0 /\ DOMAIN list = 1..n /\ \A i \in 1..n : list[i] # 0
    <3>1. list \in Seq(Nat \ {0}) /\ Len(list) # 0
      BY <1>1, <1>4, EmptySeq DEF Ascends
    <3> QED
      BY <3>1
  <2>2. ~Refuse(list, TRUE)
    BY <1>4, <2>1 DEF Refuse
  <2>3. InsertManySorted(list)
    BY <1>1, <1>4, <2>2 DEF Build, Cleaned
  <2>4. /\ pc' = "sorted" /\ batch' = list /\ pos' = 2 /\ UNCHANGED <<err, clean>>
        /\ leaves' = <<IndexedLeaf(0, list[1]), IndexedLeaf(list[1], 0)>>
    BY <1>2, <2>3 DEF InsertManySorted
  <2>5. leaves' = LeavesUpTo(list, pos' - 1)
    <3>1. pos' - 1 = 1
      BY <2>4
    <3> QED
      BY <2>4, <3>1, LeavesFirst
  <2>6. pos' \in 2..(Len(batch') + 1)
    BY <2>1, <2>4
  <2> QED
    BY <1>2, <1>4, <2>4, <2>5, <2>6 DEF CrlInv
<1> QED
  BY <1>3, <1>4

\* The batch ascends, so every value follows the last leaf.
LEMMA BatchFollows ==
  ASSUME CrlInv, pc = "sorted", pos <= Len(batch)
  PROVE  LET k == pos - 1
         IN  /\ built /\ Cleaned # <<>> /\ k \in Nat \ {0} /\ k < Len(Cleaned) /\ k + 1 = pos
             /\ batch = Cleaned /\ leaves = LeavesUpTo(Cleaned, k) /\ Cleaned \in Seq(Nat \ {0})
             /\ SortedError(batch[pos]) = "ok"
<1>1. PICK list, k : list = Cleaned /\ Ascends(list) /\ k = pos - 1
  BY DedupIs DEF CrlInv, Cleaned
<1>2. /\ built /\ list # <<>> /\ batch = list /\ pos \in 2..(Len(list) + 1)
      /\ leaves = LeavesUpTo(list, k)
  BY <1>1 DEF CrlInv
<1>3. list \in Seq(Nat \ {0}) /\ Len(list) \in Nat /\ DOMAIN list = 1..Len(list)
  BY <1>1 DEF Ascends
<1>4. k \in Nat \ {0} /\ k < Len(list) /\ k + 1 = pos
  BY <1>1, <1>2, <1>3
<1>5. list[k] < list[pos] /\ list[k] \in Nat /\ list[pos] \in Nat
  <2>1. k \in DOMAIN list /\ pos \in DOMAIN list /\ k < pos
    BY <1>3, <1>4
  <2>2. list[k] < list[pos]
    BY <1>1, <2>1 DEF Ascends
  <2>3. list[k] \in Nat \ {0} /\ list[pos] \in Nat \ {0}
    BY <1>3, <2>1
  <2> QED
    BY <2>2, <2>3
<1>6. leaves[Len(leaves)] = IndexedLeaf(list[k], 0)
  <2>1. /\ Len(LeavesUpTo(list, k)) = k + 1
        /\ LeavesUpTo(list, k)[k + 1] = IndexedLeaf(list[k], 0)
    BY <1>3, <1>4, LeavesMore
  <2> QED
    BY <1>2, <2>1
<1>7. leaves[Len(leaves)].next = 0 /\ leaves[Len(leaves)].value = list[k]
  BY <1>6 DEF IndexedLeaf
<1>8. SortedError(list[pos]) = "ok"
  BY <1>5, <1>7 DEF SortedError
<1> QED
  BY <1>1, <1>2, <1>3, <1>4, <1>8

LEMMA AppendCrl ==
  ASSUME CrlInv, SortedAppend, UNCHANGED <<serials, built>>
  PROVE  CrlInv'
<1>1. PICK list, k : list = Cleaned /\ k = pos - 1
  OBVIOUS
<1>2. /\ built /\ list # <<>> /\ k \in Nat \ {0} /\ k < Len(list) /\ k + 1 = pos
      /\ batch = list /\ leaves = LeavesUpTo(list, k) /\ list \in Seq(Nat \ {0})
  BY <1>1, BatchFollows DEF SortedAppend
<1>3. /\ pc = "sorted" /\ pos' = pos + 1 /\ UNCHANGED <<pc, batch, err, clean>>
      /\ leaves' = Append([leaves EXCEPT ![Len(leaves)] = Linked(leaves[Len(leaves)], batch[pos])],
                          IndexedLeaf(batch[pos], 0))
  BY DEF SortedAppend
<1>4. leaves' = LeavesUpTo(list, k + 1)
  <2>1. /\ Len(LeavesUpTo(list, k)) = k + 1 /\ LeavesUpTo(list, k)[k + 1] = IndexedLeaf(list[k], 0)
        /\ Append([LeavesUpTo(list, k) EXCEPT
                     ![k + 1] = Linked(IndexedLeaf(list[k], 0), list[k + 1])],
                  IndexedLeaf(list[k + 1], 0)) = LeavesUpTo(list, k + 1)
    BY <1>2, LeavesMore
  <2> QED
    BY <1>2, <1>3, <2>1
<1>5. pos' - 1 = k + 1 /\ pos' \in 2..(Len(batch') + 1)
  BY <1>2, <1>3
<1>6. Cleaned' = list /\ built' /\ serials' = serials
  BY <1>1, <1>2 DEF Cleaned
<1> QED
  BY <1>2, <1>3, <1>4, <1>5, <1>6 DEF CrlInv

\* No step of the insertion fails.
LEMMA InsertCrl ==
  ASSUME TreeInv, MerkleInv, CrlInv, Insert
  PROVE  CrlInv'
<1>1. Progress /\ UNCHANGED <<serials, built>> /\ Cleaned' = Cleaned
  BY DEF Insert, Cleaned
<1>2. pc # "naive"
  BY DEF CrlInv
<1>3. CASE SortedReject
  BY <1>3, BatchFollows DEF SortedReject
<1>4. CASE BeginRecompute
  <2>1. /\ pc = "sorted" /\ pos > Len(batch) /\ pc' = "recompute" /\ UNCHANGED <<leaves, err, clean>>
    BY <1>2, <1>4 DEF BeginRecompute
  <2>2. PICK list : list = Cleaned /\ Ascends(list)
    BY DedupIs DEF CrlInv, Cleaned
  <2>3. built /\ list # <<>> /\ batch = list /\ pos \in 2..(Len(list) + 1) /\ leaves = LeavesUpTo(list, pos - 1)
    BY <2>1, <2>2 DEF CrlInv
  <2>4. pos - 1 = Len(list)
    <3>1. Len(list) \in Nat
      BY <2>2 DEF Ascends
    <3> QED
      BY <2>1, <2>3, <3>1
  <2>5. leaves = LeavesOver(list)
    BY <2>3, <2>4 DEF LeavesUpTo, LeavesOver
  <2> QED
    BY <1>1, <2>1, <2>2, <2>3, <2>5 DEF CrlInv
<1>5. ASSUME NEW i \in modified, HashNode(i) PROVE CrlInv'
  BY <1>1, <1>5 DEF CrlInv, HashNode
<1>6. ASSUME NEW i \in modified, HashPanic(i) PROVE FALSE
  <2>1. pc = "recompute" /\ clean /\ Left(i) = Nil
    BY <1>6 DEF HashPanic, CrlInv
  <2>2. RecomputeInv
    BY <2>1 DEF MerkleInv
  <2> QED
    BY <2>1, <2>2, LeftPresent
<1>7. CASE NextLevel
  BY <1>1, <1>7 DEF CrlInv, NextLevel, Tree
<1>8. CASE EndRecompute
  <2>1. pc = "recompute" /\ pc' = "idle" /\ err' = "ok" /\ UNCHANGED <<leaves, clean>>
    BY <1>8 DEF EndRecompute, Tree, Return
  <2> QED
    BY <1>1, <2>1 DEF CrlInv
<1>9. ~NaiveFirst /\ ~NaiveInsert /\ ~NaiveReject
  BY <1>2 DEF NaiveFirst, NaiveInsert, NaiveReject
<1> QED
  BY <1>1, <1>3, <1>4, <1>5, <1>6, <1>7, <1>8, <1>9, AppendCrl DEF Progress

LEMMA CrlInvariant == BuildSpec => [](TreeInv /\ MerkleInv /\ CrlInv)
<1>1. BuildInit => TreeInv /\ MerkleInv /\ CrlInv
  <2> SUFFICES ASSUME BuildInit PROVE TreeInv /\ MerkleInv /\ CrlInv
    OBVIOUS
  <2>1. CrlInv
    BY DEF BuildInit, Init, CrlInv
  <2> QED
    BY <2>1, TreeInit, MerkleInit DEF BuildInit
<1>2. TreeInv /\ MerkleInv /\ CrlInv /\ [BuildNext]_buildVars => (TreeInv /\ MerkleInv /\ CrlInv)'
  <2> SUFFICES ASSUME TreeInv, MerkleInv, CrlInv, [BuildNext]_buildVars
               PROVE  TreeInv' /\ MerkleInv' /\ CrlInv'
    OBVIOUS
  <2>1. CASE Build
    <3>1. CrlInv'
      BY <2>1, BuildCrl
    <3>2. PICK list : list = Cleaned /\ Ascends(list)
      BY DedupIs DEF CrlInv, Cleaned
    <3>3. CASE InsertManySorted(list)
      <4>1. list \in Seq(Nat)
        BY <3>2 DEF Ascends
      <4>2. TreeInv'
        BY <3>3, <4>1, SortedFirstInv
      <4>3. MerkleInv'
        BY <3>3, <4>2, InsertManySortedMerkle
      <4> QED
        BY <3>1, <4>2, <4>3
    <3>4. CASE Refuse(list, TRUE)
      <4>1. list = <<>>
        <5>1. \A i \in DOMAIN list : list[i] # 0
          BY <3>2 DEF Ascends
        <5> QED
          BY <3>4, <5>1 DEF Refuse
      <4>2. UNCHANGED vars
        BY <2>1, <3>2, <4>1 DEF Build, Cleaned
      <4>3. [Next]_vars
        BY <4>2
      <4> QED
        BY <3>1, <4>3, TreeNext, MerkleNext
    <3>5. CASE UNCHANGED vars
      <4>1. [Next]_vars
        BY <3>5
      <4> QED
        BY <3>1, <4>1, TreeNext, MerkleNext
    <3> QED
      BY <2>1, <3>2, <3>3, <3>4, <3>5 DEF Build, Cleaned
  <2>2. CASE Insert
    <3>1. CrlInv'
      BY <2>2, InsertCrl
    <3>2. Next
      BY <2>2 DEF Insert, Progress, Next
    <3> QED
      BY <3>1, <3>2, TreeNext, MerkleNext
  <2>3. CASE UNCHANGED buildVars
    <3>1. [Next]_vars
      BY <2>3 DEF buildVars
    <3>2. CrlInv'
      BY <2>3 DEF buildVars, vars, CrlInv, Cleaned
    <3> QED
      BY <3>1, <3>2, TreeNext, MerkleNext
  <2> QED
    BY <2>1, <2>2, <2>3 DEF BuildNext
<1> QED
  BY <1>1, <1>2, PTL DEF BuildSpec

\* No list of serials makes the insertion fail: DedupAndSortSerials leaves a batch that
\* InsertManySorted takes whole, and recomputeLocked does not panic on it.
THEOREM NoListFails == BuildSpec => []BuildSucceeds
<1>1. CrlInv => BuildSucceeds
  BY DEF CrlInv, BuildSucceeds
<1> QED
  BY <1>1, CrlInvariant, PTL

\* The root a rebuild publishes depends on the set of revoked serials only: the tree is
\* the reference tree over the sentinel and that set in ascending order.
THEOREM RootOfEveryList == BuildSpec => []RootOfTheSet
<1>1. TreeInv /\ MerkleInv /\ CrlInv => RootOfTheSet
  <2> SUFFICES ASSUME TreeInv, MerkleInv, CrlInv, built, pc = "idle"
               PROVE  IF Revoked = {} THEN RootOf(leaves, nodes) = Nil
                      ELSE nodes = ReferenceNodes(LeavesOver(InOrder(Revoked)))
    BY DEF RootOfTheSet, Built
  <2>1. PICK list : list = Cleaned /\ Ascends(list) /\ Range(list) = Revoked
    BY DedupIs DEF CrlInv, Cleaned
  <2>2. Revoked = {} <=> list = <<>>
    <3>1. list \in Seq(Nat \ {0}) /\ Len(list) \in Nat /\ DOMAIN list = 1..Len(list)
      BY <2>1 DEF Ascends
    <3>2. list = <<>> <=> Len(list) = 0
      BY <3>1, EmptySeq
    <3>3. Len(list) # 0 => list[1] \in Revoked
      BY <2>1, <3>1 DEF Range
    <3>4. Len(list) = 0 => Revoked = {}
      BY <2>1, <3>1 DEF Range
    <3> QED
      BY <3>2, <3>3, <3>4
  <2>3. CASE list = <<>>
    BY <2>1, <2>2, <2>3 DEF CrlInv, RootOf
  <2>4. CASE list # <<>>
    <3>1. leaves = LeavesOver(list) /\ clean
      BY <2>1, <2>4 DEF CrlInv
    <3>2. InOrder(Revoked) = list
      BY <2>1, InOrderIs
    <3>3. leaves # <<>>
      <4>1. 1 \in DOMAIN LeavesOver(list)
        <5>1. Len(list) \in Nat
          BY <2>1 DEF Ascends
        <5> QED
          BY <5>1 DEF LeavesOver
      <4>2. DOMAIN <<>> = {}
        OBVIOUS
      <4> QED
        BY <3>1, <4>1, <4>2
    <3>4. nodes = ReferenceNodes(leaves)
      BY <3>1, <3>3, AtRest, HashedIsReference
    <3> QED
      BY <2>2, <2>4, <3>1, <3>2, <3>4
  <2> QED
    BY <2>3, <2>4
<1> QED
  BY <1>1, CrlInvariant, PTL
=============================================================================
