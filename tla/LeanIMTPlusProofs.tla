------------------------- MODULE LeanIMTPlusProofs -------------------------
(***************************************************************************)
(* Theorems about LeanIMTPlus, for every set of values and of batches.     *)
(*                                                                         *)
(* IndexedList is not inductive in the form the runs check: that a value   *)
(* has a low leaf would need the greatest value below it. Linking keeps    *)
(* that as a part of its own (Covers), and states the successor without    *)
(* naming it (Points and Gapless). TreeInv adds level 0, and that the same *)
(* holds of what ImportState would load.                                   *)
(***************************************************************************)
EXTENDS LeanIMTPlus, TLAPS, SequenceTheorems, FiniteSetTheorems

\* ls[i] can have v placed after it.
IsLow(ls, i, v) == ls[i].value < v /\ (ls[i].next = 0 \/ ls[i].next >= v)

\* No value occurs twice.
Distinct(ls) == \A i, j \in DOMAIN ls : i # j => ls[i].value # ls[j].value

\* A next value is that of a leaf with a greater value.
Points(ls) ==
  \A i \in DOMAIN ls : ls[i].next # 0 =>
    ls[i].next > ls[i].value /\ \E j \in DOMAIN ls : ls[j].value = ls[i].next

\* No value lies between a leaf's and its next value.
Gapless(ls) ==
  \A i, k \in DOMAIN ls : ls[i].value < ls[k].value => ls[i].next # 0 /\ ls[i].next <= ls[k].value

\* Every value has a low leaf.
Covers(ls) == \A v \in Nat \ {0} : \E i \in DOMAIN ls : IsLow(ls, i, v)

\* The linked list, in the form that insertions preserve.
Linking(ls) ==
  ls # <<>> => ls[1].value = 0 /\ Distinct(ls) /\ Points(ls) /\ Gapless(ls) /\ Covers(ls)

\* Level 0 holds, beside each leaf, its commitment or nothing.
Paired(ls, ns) ==
  /\ Len(ns[1]) = Len(ls)
  /\ \A i \in DOMAIN ls : ns[1][i] \in {Commit(ls[i]), Nil}

\* In a tree no batch has damaged only a sorted batch's tail may lack it.
Committed ==
  clean => \A i \in DOMAIN leaves :
             nodes[1][i] # Nil \/ (pc = "sorted" /\ modified # {} /\ i = Len(leaves))

\* An exported tree is as good as a tree.
SavedInv ==
  /\ Linking(saved.leaves) /\ Paired(saved.leaves, saved.nodes)
  /\ saved.clean => \A i \in DOMAIN saved.leaves : saved.nodes[1][i] # Nil

\* Where the writer is.
PcInv == (pc = "sorted" => leaves # <<>>) /\ (pc = "recompute" => level # 0)

\* The inductive invariant.
TreeInv ==
  TypeOK /\ Linking(leaves) /\ Paired(leaves, nodes) /\ Committed /\ SavedInv /\ PcInv

-----------------------------------------------------------------------------
(* Rows and levels.                                                        *)

\* A function on 1..n is a sequence of its own elements.
LEMMA SeqOfItself ==
  ASSUME NEW n \in Nat, NEW s, s = [i \in 1..n |-> s[i]]
  PROVE  s \in Seq({s[i] : i \in DOMAIN s}) /\ Len(s) = n /\ DOMAIN s = 1..n
<1> DEFINE S == {s[i] : i \in DOMAIN s}
<1>1. DOMAIN s = 1..n
  OBVIOUS
<1>2. \A i \in 1..n : s[i] \in S
  BY <1>1
<1>3. s \in [1..n -> S]
  BY <1>2
<1>4. s \in Seq(S)
  BY <1>3
<1> QED
  BY <1>1, <1>4

\* Append, as a function.
LEMMA AppendIs ==
  ASSUME NEW T, NEW q \in Seq(T), NEW x
  PROVE  Append(q, x) = [j \in 1..(Len(q) + 1) |-> IF j = Len(q) + 1 THEN x ELSE q[j]]
<1> DEFINE U == T \cup {x}
           a == Append(q, x)
           n == Len(q) + 1
<1>1. q \in Seq(U) /\ n \in Nat
  BY SeqMonotonic
<1>2. a \in Seq(U) /\ Len(a) = n /\ (\A i \in 1..Len(q) : a[i] = q[i]) /\ a[n] = x
  BY <1>1, AppendProperties
<1> HIDE DEF a
<1>3. a \in [1..n -> U]
  BY <1>2
<1>4. a = [j \in 1..n |-> a[j]]
  BY <1>3
<1>5. \A j \in 1..n : a[j] = IF j = n THEN x ELSE q[j]
  BY <1>1, <1>2
<1>6. a = [j \in 1..n |-> IF j = n THEN x ELSE q[j]]
  BY <1>4, <1>5
<1> QED
  BY <1>6 DEF a

\* Appending a slot to a level of the tree gives a level.
LEMMA RowAppend ==
  ASSUME NEW row, IsRow(row), NEW s, IsSlot(s)
  PROVE  IsRow(Append(row, s)) /\ Len(Append(row, s)) = Len(row) + 1
<1> DEFINE S == {row[i] : i \in DOMAIN row}
           new == Append(row, s)
           n == Len(row) + 1
<1>1. row \in Seq(S) /\ n \in Nat
  BY DEF IsRow
<1>2. new = [j \in 1..n |-> IF j = n THEN s ELSE row[j]]
  BY <1>1, AppendIs
<1>3. \A j \in 1..n : IsSlot(new[j])
  BY <1>1, <1>2 DEF IsRow
<1> HIDE DEF new, n, S
<1>4. new = [j \in 1..n |-> new[j]]
  BY <1>2
<1>5. new \in Seq({new[j] : j \in DOMAIN new}) /\ Len(new) = n /\ DOMAIN new = 1..n
  BY <1>1, <1>4, SeqOfItself
<1> QED
  BY <1>3, <1>5 DEF IsRow, new, n

\* So does writing one of its slots.
LEMMA RowExcept ==
  ASSUME NEW row, IsRow(row), NEW s, IsSlot(s), NEW i
  PROVE  IsRow([row EXCEPT ![i] = s]) /\ Len([row EXCEPT ![i] = s]) = Len(row)
<1> DEFINE S == {row[j] : j \in DOMAIN row}
           new == [row EXCEPT ![i] = s]
           n == Len(row)
<1>1. row \in Seq(S) /\ n \in Nat
  BY DEF IsRow
<1>2. new = [j \in 1..n |-> IF j = i THEN s ELSE row[j]]
  BY <1>1
<1>3. \A j \in 1..n : IsSlot(new[j])
  BY <1>1, <1>2 DEF IsRow
<1> HIDE DEF new, n, S
<1>4. new = [j \in 1..n |-> new[j]]
  BY <1>2
<1>5. new \in Seq({new[j] : j \in DOMAIN new}) /\ Len(new) = n /\ DOMAIN new = 1..n
  BY <1>1, <1>4, SeqOfItself
<1> QED
  BY <1>3, <1>5 DEF IsRow, new, n

\* And so does recomputeLocked's way of growing it.
LEMMA RowStoreAt ==
  ASSUME NEW row, IsRow(row), NEW s, IsSlot(s), NEW i \in Nat
  PROVE  IsRow(StoreAt(row, i, s))
<1> DEFINE S == {row[j] : j \in DOMAIN row}
           new == StoreAt(row, i, s)
           n == IF Len(row) > i THEN Len(row) ELSE i + 1
<1>1. row \in Seq(S) /\ n \in Nat
  BY DEF IsRow
<1>2. new = [j \in 1..n |-> IF j = i + 1 THEN s ELSE IF j <= Len(row) THEN row[j] ELSE Nil]
  BY DEF StoreAt
<1>3. \A j \in 1..n : IsSlot(new[j])
  BY <1>1, <1>2 DEF IsRow, IsSlot, Nil
<1> HIDE DEF new, n, S
<1>4. new = [j \in 1..n |-> new[j]]
  BY <1>2
<1>5. new \in Seq({new[j] : j \in DOMAIN new}) /\ Len(new) = n /\ DOMAIN new = 1..n
  BY <1>1, <1>4, SeqOfItself
<1> QED
  BY <1>3, <1>5 DEF IsRow, new

\* Replacing a level.
LEMMA LevelsExcept ==
  ASSUME NEW ns, Levels(ns), NEW row, IsRow(row), NEW l
  PROVE  Levels([ns EXCEPT ![l] = row]) /\ Len([ns EXCEPT ![l] = row]) = Len(ns)
<1> DEFINE S == {ns[j] : j \in DOMAIN ns}
           new == [ns EXCEPT ![l] = row]
           n == Len(ns)
<1>1. ns \in Seq(S) /\ n \in Nat /\ n # 0
  BY DEF Levels
<1>2. new = [j \in 1..n |-> IF j = l THEN row ELSE ns[j]]
  BY <1>1
<1>3. \A j \in 1..n : IsRow(new[j])
  BY <1>1, <1>2 DEF Levels
<1> HIDE DEF new, n, S
<1>4. new = [j \in 1..n |-> new[j]]
  BY <1>2
<1>5. new \in Seq({new[j] : j \in DOMAIN new}) /\ Len(new) = n /\ DOMAIN new = 1..n
  BY <1>1, <1>4, SeqOfItself
<1>6. new # <<>>
  BY <1>1, <1>5
<1> QED
  BY <1>3, <1>5, <1>6 DEF Levels, new, n

\* Adding empty levels.
LEMMA LevelsGrown ==
  ASSUME Levels(nodes), NEW d \in Nat, TargetDepth(Len(nodes[1])) = d
  PROVE  Levels(Grown) /\ Grown[1] = nodes[1]
<1> DEFINE S == {nodes[j] : j \in DOMAIN nodes}
           n == IF Len(nodes) > d + 1 THEN Len(nodes) ELSE d + 1
<1>1. nodes \in Seq(S) /\ n \in Nat /\ n # 0 /\ Len(nodes) >= 1 /\ n >= Len(nodes)
  BY DEF Levels
<1>2. Grown = [l \in 1..n |-> IF l <= Len(nodes) THEN nodes[l] ELSE <<>>]
  BY DEF Grown
<1>3. IsRow(<<>>)
  BY DEF IsRow
<1>4. \A l \in 1..n : IsRow(Grown[l])
  BY <1>1, <1>2, <1>3 DEF Levels
<1>5. Grown[1] = nodes[1]
  BY <1>1, <1>2
<1> HIDE DEF n, S
<1>6. Grown = [j \in 1..n |-> Grown[j]]
  BY <1>2
<1>7. Grown \in Seq({Grown[j] : j \in DOMAIN Grown}) /\ Len(Grown) = n /\ DOMAIN Grown = 1..n
  BY <1>1, <1>6, SeqOfItself
<1>8. Grown # <<>>
  BY <1>1, <1>7
<1> QED
  BY <1>4, <1>5, <1>7, <1>8 DEF Levels

\* The depth of a tree is a number.
LEMMA TargetDepthType ==
  ASSUME NEW size \in Nat
  PROVE  TargetDepth(size) \in Nat
<1>1. ASSUME NEW n \in Nat PROVE BitsLen(n) \in Nat
  <2>1. IsFiniteSet(0..n)
    BY FS_Interval
  <2>2. IsFiniteSet({k \in 0..n : 2^k <= n})
    BY <2>1, FS_Subset
  <2> QED
    BY <2>2, FS_CardinalityType DEF BitsLen
<1> QED
  BY <1>1 DEF TargetDepth

-----------------------------------------------------------------------------
(* The linked list.                                                        *)

\* The fields of a leaf are numbers.
LEMMA LeafTypes ==
  ASSUME NEW ls \in Seq(Leaf)
  PROVE  /\ \A i \in DOMAIN ls : ls[i].value \in Nat /\ ls[i].next \in Nat
         /\ DOMAIN ls = 1..Len(ls) /\ Len(ls) \in Nat
<1>1. ASSUME NEW i \in DOMAIN ls PROVE ls[i].value \in Nat /\ ls[i].next \in Nat
  <2>1. ls[i] \in Leaf
    OBVIOUS
  <2> QED
    BY <2>1 DEF Leaf
<1> QED
  BY <1>1

\* This form of the list implies the one the runs check.
LEMMA LinkingIsLinked ==
  ASSUME NEW ls \in Seq(Leaf), Linking(ls)
  PROVE  LinkedList(ls)
<1> SUFFICES ASSUME ls # <<>> PROVE LinkedList(ls)
  BY DEF LinkedList
<1>1. \A i \in DOMAIN ls : ls[i].value \in Nat /\ ls[i].next \in Nat
  BY LeafTypes
<1>2. ASSUME NEW i \in DOMAIN ls PROVE NextIsSuccessor(ls, i)
  <2>1. CASE ls[i].next = 0
    BY <1>1, <2>1 DEF NextIsSuccessor, Linking, Gapless
  <2>2. CASE ls[i].next # 0
    <3>1. PICK j \in DOMAIN ls : ls[j].value = ls[i].next
      BY <2>2 DEF Linking, Points
    <3>2. ls[i].value < ls[j].value
      BY <1>1, <2>2, <3>1 DEF Linking, Points
    <3>3. \A k \in DOMAIN ls : ~(ls[i].value < ls[k].value /\ ls[k].value < ls[j].value)
      BY <1>1, <3>1 DEF Linking, Gapless
    <3> QED
      BY <3>1, <3>2, <3>3 DEF NextIsSuccessor
  <2> QED
    BY <2>1, <2>2
<1> QED
  BY <1>2 DEF LinkedList, Linking, Distinct

\* No value has two low leaves.
LEMMA LowIsUnique ==
  ASSUME NEW ls \in Seq(Leaf), Linking(ls), NEW v \in Nat,
         NEW p \in DOMAIN ls, NEW q \in DOMAIN ls, IsLow(ls, p, v), IsLow(ls, q, v)
  PROVE  p = q
<1>1. \A i \in DOMAIN ls : ls[i].value \in Nat /\ ls[i].next \in Nat
  BY LeafTypes
<1>2. ls # <<>>
  OBVIOUS
<1>3. ~(ls[p].value < ls[q].value) /\ ~(ls[q].value < ls[p].value)
  BY <1>1, <1>2 DEF Linking, Gapless, IsLow
<1>4. ls[p].value = ls[q].value
  BY <1>1, <1>3
<1> QED
  BY <1>2, <1>4 DEF Linking, Distinct

\* So findLowLeafIndexLocked finds the one low leaf there is.
LEMMA LowLeafIs ==
  ASSUME NEW ls \in Seq(Leaf), Linking(ls), ls # <<>>, NEW v \in Nat \ {0}
  PROVE  \E p \in DOMAIN ls : /\ IsLow(ls, p, v)
                              /\ LowLeafIndexes(ls, v) = {p - 1}
                              /\ LowLeafIndex(ls, v) = p - 1
<1>1. PICK p \in DOMAIN ls : IsLow(ls, p, v)
  BY DEF Linking, Covers
<1>2. DOMAIN ls = 1..Len(ls) /\ Len(ls) \in Nat
  OBVIOUS
<1>3. p - 1 \in LowLeafIndexes(ls, v)
  BY <1>1, <1>2 DEF LowLeafIndexes, IsLow
<1>4. ASSUME NEW i \in LowLeafIndexes(ls, v) PROVE i = p - 1
  <2>1. i \in 0..(Len(ls) - 1) /\ i + 1 \in DOMAIN ls /\ IsLow(ls, i + 1, v)
    BY <1>2 DEF LowLeafIndexes, IsLow
  <2>2. i + 1 = p
    BY <1>1, <2>1, LowIsUnique
  <2> QED
    BY <1>2, <2>1, <2>2
<1>5. LowLeafIndexes(ls, v) = {p - 1}
  BY <1>3, <1>4
<1>6. LowLeafIndex(ls, v) = p - 1
  BY <1>2, <1>5 DEF LowLeafIndex
<1> QED
  BY <1>1, <1>5, <1>6

\* The new list, after v has been placed after ls[p].
Placed(ls, p, v) ==
  Append([ls EXCEPT ![p] = IndexedLeaf(ls[p].value, v)], IndexedLeaf(v, ls[p].next))

\* The leaves after v has been placed, one by one.
LEMMA PlacedIs ==
  ASSUME NEW ls \in Seq(Leaf), NEW p \in DOMAIN ls, NEW v \in Nat
  PROVE  /\ Placed(ls, p, v) \in Seq(Leaf)
         /\ Len(Placed(ls, p, v)) = Len(ls) + 1
         /\ Placed(ls, p, v)[p] = IndexedLeaf(ls[p].value, v)
         /\ Placed(ls, p, v)[Len(ls) + 1] = IndexedLeaf(v, ls[p].next)
         /\ \A i \in 1..Len(ls) : i # p => Placed(ls, p, v)[i] = ls[i]
<1> DEFINE a == IndexedLeaf(ls[p].value, v)
           b == IndexedLeaf(v, ls[p].next)
           m == [ls EXCEPT ![p] = a]
<1>1. a \in Leaf /\ b \in Leaf
  BY LeafTypes DEF Leaf, IndexedLeaf
<1> HIDE DEF a, b
<1>2. m \in Seq(Leaf) /\ Len(m) = Len(ls) /\ \A j \in 1..Len(ls) : m[j] = IF j = p THEN a ELSE ls[j]
  BY <1>1, ExceptSeq
<1> HIDE DEF m
<1>3. /\ Append(m, b) \in Seq(Leaf) /\ Len(Append(m, b)) = Len(m) + 1
      /\ \A i \in 1..Len(m) : Append(m, b)[i] = m[i]
      /\ Append(m, b)[Len(m) + 1] = b
  BY <1>1, <1>2, AppendProperties
<1> QED
  BY <1>2, <1>3 DEF Placed, m, a, b

\* Placing a value that is not there after its low leaf keeps the list linked.
LEMMA PlacedLinks ==
  ASSUME NEW ls \in Seq(Leaf), Linking(ls), NEW p \in DOMAIN ls, NEW v \in Nat \ {0},
         IsLow(ls, p, v), ls[p].next # v
  PROVE  Linking(Placed(ls, p, v))
<1> DEFINE new == Placed(ls, p, v)
           n == Len(ls)
<1>1. \A i \in DOMAIN ls : ls[i].value \in Nat /\ ls[i].next \in Nat
  BY LeafTypes
<1>2. ls # <<>> /\ n \in Nat /\ DOMAIN ls = 1..n /\ p \in 1..n
  OBVIOUS
<1>3. /\ new \in Seq(Leaf) /\ Len(new) = n + 1
      /\ new[p] = IndexedLeaf(ls[p].value, v) /\ new[n + 1] = IndexedLeaf(v, ls[p].next)
      /\ \A i \in 1..n : i # p => new[i] = ls[i]
  BY PlacedIs
<1> HIDE DEF new, n
<1>4. /\ new[p].value = ls[p].value /\ new[p].next = v
      /\ new[n + 1].value = v /\ new[n + 1].next = ls[p].next
  BY <1>3 DEF IndexedLeaf
<1>5. /\ DOMAIN new = 1..(n + 1) /\ new # <<>>
      /\ \A i \in 1..n : new[i].value = ls[i].value
      /\ \A i \in 1..n : i # p => new[i].next = ls[i].next
  <2>1. DOMAIN new = 1..(n + 1)
    BY <1>2, <1>3
  <2>2. new # <<>>
    BY <1>2, <1>3
  <2> QED
    BY <1>3, <1>4, <2>1, <2>2
<1>6. ls[p].value < v /\ (ls[p].next = 0 \/ ls[p].next > v)
  BY <1>1, <1>2 DEF IsLow
<1>7. \A i \in 1..n : ls[i].value # v
  BY <1>1, <1>2, <1>6 DEF Linking, Gapless
<1>8. \A i \in 1..(n + 1) : new[i].value \in Nat /\ new[i].next \in Nat
  BY <1>5, <1>3, LeafTypes
<1>9. new[1].value = 0
  BY <1>2, <1>5, <1>4 DEF Linking
<1>10. Distinct(new)
  BY <1>2, <1>5, <1>4, <1>7 DEF Linking, Distinct
<1>11. ASSUME NEW i \in DOMAIN new, new[i].next # 0
      PROVE  new[i].next > new[i].value /\ \E j \in DOMAIN new : new[j].value = new[i].next
  <2>1. CASE i = p
    BY <1>2, <1>5, <1>4, <1>6, <2>1
  <2>2. CASE i = n + 1
    <3>1. PICK j \in 1..n : ls[j].value = ls[p].next
      BY <1>2, <1>5, <1>4, <1>11, <2>2 DEF Linking, Points
    <3>2. new[i].next > new[i].value
      BY <1>6, <1>11, <1>4, <2>2
    <3>3. j \in DOMAIN new /\ new[j].value = new[i].next
      BY <1>2, <1>5, <1>4, <2>2, <3>1
    <3> QED
      BY <3>2, <3>3
  <2>3. CASE i \in 1..n /\ i # p
    <3>1. PICK j \in 1..n : ls[j].value = ls[i].next
      BY <1>2, <1>5, <1>4, <1>11, <2>3 DEF Linking, Points
    <3>2. ls[i].next > ls[i].value
      BY <1>2, <1>5, <1>4, <1>11, <2>3 DEF Linking, Points
    <3> QED
      BY <1>2, <1>5, <1>4, <2>3, <3>1, <3>2
  <2> QED
    BY <1>2, <1>5, <1>4, <2>1, <2>2, <2>3
<1>12. ASSUME NEW i \in DOMAIN new, NEW k \in DOMAIN new, new[i].value < new[k].value
       PROVE  new[i].next # 0 /\ new[i].next <= new[k].value
  <2>1. \A a, b \in 1..n : ls[a].value < ls[b].value => ls[a].next # 0 /\ ls[a].next <= ls[b].value
    BY <1>2 DEF Linking, Gapless
  <2>2. CASE i = p
    <3>1. CASE k = n + 1
      BY <1>2, <1>5, <1>4, <2>2, <3>1
    <3>2. CASE k \in 1..n
      BY <1>1, <1>2, <1>5, <1>4, <1>6, <1>12, <2>1, <2>2, <3>2
    <3> QED
      BY <1>2, <1>5, <1>4, <3>1, <3>2
  <2>3. CASE i = n + 1
    <3>1. k \in 1..n /\ ls[p].value < ls[k].value
      BY <1>1, <1>2, <1>5, <1>4, <1>6, <1>12, <2>3
    <3> QED
      BY <1>1, <1>2, <1>5, <1>4, <2>1, <2>3, <3>1
  <2>4. CASE i \in 1..n /\ i # p
    <3>1. CASE k \in 1..n
      BY <1>2, <1>5, <1>4, <1>12, <2>1, <2>4, <3>1
    <3>2. CASE k = n + 1
      <4>1. ls[i].value < v /\ ls[i].value # ls[p].value
        BY <1>2, <1>5, <1>4, <1>12, <2>4, <3>2 DEF Linking, Distinct
      <4>2. ~(ls[p].value < ls[i].value)
        BY <1>1, <1>2, <1>6, <2>1, <2>4, <4>1
      <4>3. ls[i].next # 0 /\ ls[i].next <= ls[p].value
        BY <1>1, <1>2, <2>1, <2>4, <4>1, <4>2
      <4> QED
        BY <1>1, <1>2, <1>5, <1>4, <1>6, <2>4, <3>2, <4>3
    <3> QED
      BY <1>2, <1>5, <1>4, <3>1, <3>2
  <2> QED
    BY <1>2, <1>5, <1>4, <2>2, <2>3, <2>4
<1>13. ASSUME NEW w \in Nat \ {0} PROVE \E i \in DOMAIN new : IsLow(new, i, w)
  <2>1. PICK i \in 1..n : IsLow(ls, i, w)
    BY <1>2 DEF Linking, Covers
  <2>2. CASE i # p
    BY <1>2, <1>5, <1>4, <2>1, <2>2 DEF IsLow
  <2>3. CASE i = p /\ w <= v
    BY <1>2, <1>5, <1>4, <2>1, <2>3 DEF IsLow
  <2>4. CASE i = p /\ w > v
    BY <1>1, <1>2, <1>5, <1>4, <2>1, <2>4 DEF IsLow
  <2> QED
    BY <2>2, <2>3, <2>4
<1> QED
  BY <1>5, <1>9, <1>10, <1>11, <1>12, <1>13 DEF Linking, Points, Gapless, Covers, new

\* The sentinel and the first value are linked.
LEMMA FirstLinks ==
  ASSUME NEW v \in Nat \ {0}
  PROVE  /\ <<IndexedLeaf(0, v), IndexedLeaf(v, 0)>> \in Seq(Leaf)
         /\ Linking(<<IndexedLeaf(0, v), IndexedLeaf(v, 0)>>)
<1> DEFINE new == <<IndexedLeaf(0, v), IndexedLeaf(v, 0)>>
<1>1. new \in Seq(Leaf)
  BY DEF Leaf, IndexedLeaf
<1>2. /\ DOMAIN new = {1, 2} /\ new[1].value = 0 /\ new[1].next = v /\ new[2].value = v /\ new[2].next = 0
  BY DEF IndexedLeaf
<1> HIDE DEF new
<1>3. \A w \in Nat \ {0} : \E i \in DOMAIN new : IsLow(new, i, w)
  BY <1>2 DEF IsLow
<1>4. Linking(new)
  BY <1>2, <1>3 DEF Linking, Distinct, Points, Gapless, Covers
<1> QED
  BY <1>1, <1>4 DEF new

-----------------------------------------------------------------------------
(* Level 0 beside the list.                                                *)

\* Appending a slot to a row, slot by slot.
LEMMA RowAppendAt ==
  ASSUME NEW row, IsRow(row), NEW s
  PROVE  /\ \A j \in 1..Len(row) : Append(row, s)[j] = row[j]
         /\ Append(row, s)[Len(row) + 1] = s
<1>1. row \in Seq({row[i] : i \in DOMAIN row}) /\ Len(row) \in Nat
  BY DEF IsRow
<1>2. Append(row, s) = [j \in 1..(Len(row) + 1) |-> IF j = Len(row) + 1 THEN s ELSE row[j]]
  BY <1>1, AppendIs
<1> QED
  BY <1>1, <1>2

\* Level 0 of a tree is a row.
LEMMA LevelZeroIsRow ==
  ASSUME NEW ns, Levels(ns)
  PROVE  /\ IsRow(ns[1]) /\ 1 \in DOMAIN ns /\ DOMAIN ns = 1..Len(ns) /\ Len(ns) \in Nat
         /\ \A row : [ns EXCEPT ![1] = row][1] = row
  BY DEF Levels

\* The slots of a row are numbered from one.
LEMMA RowDomain ==
  ASSUME NEW row, IsRow(row)
  PROVE  DOMAIN row = 1..Len(row) /\ Len(row) \in Nat
<1>1. row \in Seq({row[i] : i \in DOMAIN row})
  BY DEF IsRow
<1> QED
  BY <1>1

\* The values passed are numbers.
LEMMA BatchType ==
  ASSUME NEW b \in Batches
  PROVE  b \in Seq(Nat)
  BY BatchesAssumption, ValuesAssumption, SeqMonotonic

\* What placing v after ls[p] makes of level 0 of ns.
PlacedIn(new, ls, ns, p, v, s) ==
  /\ Levels(new) /\ Paired(Placed(ls, p, v), new)
  /\ new[1][Len(ls) + 1] = s
  /\ new[1][p] # Nil
  /\ \A i \in 1..Len(ls) : i # p => new[1][i] = ns[1][i]

\* Placing a value writes the low leaf's slot and appends one: level 0 stays
\* paired with the leaves.
LEMMA PlacedPairs ==
  ASSUME NEW ls \in Seq(Leaf), NEW ns, Levels(ns), Paired(ls, ns),
         NEW p \in DOMAIN ls, NEW v \in Nat, NEW s \in {Commit(IndexedLeaf(v, ls[p].next)), Nil},
         NEW new,
         new = [ns EXCEPT ![1] = Append(Written(ns[1], p - 1, IndexedLeaf(ls[p].value, v)), s)]
  PROVE  PlacedIn(new, ls, ns, p, v, s)
<1> DEFINE low == IndexedLeaf(ls[p].value, v)
           w   == Written(ns[1], p - 1, low)
           row == Append(w, s)
           n   == Len(ls)
           pl  == Placed(ls, p, v)
<1>1. DOMAIN ls = 1..n /\ n \in Nat /\ p \in 1..n /\ (p - 1) + 1 = p
  OBVIOUS
<1>2. IsSlot(s) /\ IsSlot(Commit(low)) /\ Commit(low) # Nil
  BY DEF IsSlot, Commit, Nil
<1>3. IsRow(ns[1]) /\ Len(ns[1]) = n /\ DOMAIN ns[1] = 1..n
  BY LevelZeroIsRow, RowDomain DEF Paired
<1>4. w = [ns[1] EXCEPT ![p] = Commit(low)]
  BY <1>1 DEF Written
<1>5. new = [ns EXCEPT ![1] = row]
  OBVIOUS
<1>6. IsRow(w) /\ Len(w) = n
  BY <1>2, <1>3, <1>4, RowExcept
<1>7. \A i \in 1..n : w[i] = IF i = p THEN Commit(low) ELSE ns[1][i]
  BY <1>1, <1>3, <1>4
<1> HIDE DEF low, w
<1>8. IsRow(row) /\ Len(row) = n + 1 /\ row[n + 1] = s /\ \A i \in 1..n : row[i] = w[i]
  BY <1>2, <1>6, RowAppend, RowAppendAt
<1> HIDE DEF row
<1>9. Levels(new) /\ new[1] = row
  <2>1. Levels([ns EXCEPT ![1] = row])
    BY <1>8, LevelsExcept
  <2>2. [ns EXCEPT ![1] = row][1] = row
    BY LevelZeroIsRow
  <2> QED
    BY <1>5, <2>1, <2>2
<1> HIDE DEF n
<1>10. /\ pl \in Seq(Leaf) /\ Len(pl) = n + 1
      /\ pl[p] = low /\ pl[n + 1] = IndexedLeaf(v, ls[p].next)
      /\ \A i \in 1..n : i # p => pl[i] = ls[i]
  BY PlacedIs DEF low, n
<1> HIDE DEF pl
<1>11. DOMAIN pl = 1..(n + 1)
  BY <1>1, <1>10
<1>12. ASSUME NEW i \in 1..(n + 1) PROVE row[i] \in {Commit(pl[i]), Nil}
  <2>1. CASE i = n + 1
    BY <1>8, <1>10, <2>1
  <2>2. CASE i = p
    BY <1>1, <1>7, <1>8, <1>10, <2>2
  <2>3. CASE i \in 1..n /\ i # p
    BY <1>1, <1>7, <1>8, <1>10, <2>3 DEF Paired
  <2> QED
    BY <1>1, <2>1, <2>2, <2>3
<1>13. Paired(pl, new)
  BY <1>8, <1>9, <1>10, <1>11, <1>12 DEF Paired
<1> QED
  BY <1>1, <1>2, <1>7, <1>8, <1>9, <1>13 DEF PlacedIn, row, w, low, n, pl

\* The first value of an empty tree.
LEMMA FirstPairs ==
  ASSUME NEW ns, Levels(ns), NEW v \in Nat,
         NEW s \in {Commit(IndexedLeaf(v, 0)), Nil}
  PROVE  LET ls  == <<IndexedLeaf(0, v), IndexedLeaf(v, 0)>>
             new == [ns EXCEPT ![1] = <<Commit(IndexedLeaf(0, v)), s>>]
         IN  Levels(new) /\ Paired(ls, new) /\ new[1][1] # Nil /\ new[1][2] = s
<1> DEFINE a   == IndexedLeaf(0, v)
           b   == IndexedLeaf(v, 0)
           ls  == <<a, b>>
           row == <<Commit(a), s>>
           new == [ns EXCEPT ![1] = row]
<1>1. IsSlot(s) /\ IsSlot(Commit(a)) /\ Commit(a) # Nil
  BY DEF IsSlot, Commit, Nil
<1> HIDE DEF a, b
<1>2. DOMAIN row = {1, 2} /\ Len(row) = 2 /\ row[1] = Commit(a) /\ row[2] = s
  OBVIOUS
<1>3. row \in Seq({row[i] : i \in DOMAIN row})
  BY <1>2
<1>4. IsRow(row)
  BY <1>1, <1>2, <1>3 DEF IsRow
<1>5. DOMAIN ls = {1, 2} /\ Len(ls) = 2 /\ ls[1] = a /\ ls[2] = b
  OBVIOUS
<1>6. s \in {Commit(b), Nil}
  BY DEF b
<1> HIDE DEF row, ls
<1>7. Levels(new) /\ new[1] = row
  BY <1>4, LevelsExcept, LevelZeroIsRow
<1>8. Paired(ls, new)
  BY <1>2, <1>5, <1>6, <1>7 DEF Paired
<1> QED
  BY <1>1, <1>2, <1>7, <1>8 DEF new, row, ls, a, b

-----------------------------------------------------------------------------
(* The invariant is inductive.                                             *)

\* An empty tree is linked and paired.
LEMMA TreeInit == Init => TreeInv
<1> SUFFICES ASSUME Init PROVE TreeInv
  OBVIOUS
<1>1. <<>> \in Seq(Leaf) /\ <<>> \in Seq(Nat) /\ IsRow(<<>>)
  BY DEF IsRow
<1>2. Levels(<< <<>> >>)
  BY <1>1 DEF Levels
<1>3. TypeOK
  BY <1>1, <1>2 DEF Init, TypeOK
<1>4. Linking(<<>>) /\ Paired(<<>>, << <<>> >>)
  BY DEF Linking, Paired
<1> QED
  BY <1>3, <1>4 DEF Init, TreeInv, Committed, SavedInv, PcInv

\* The value a batch is at is a number.
LEMMA ValueType ==
  ASSUME TypeOK, pos <= Len(batch)
  PROVE  batch[pos] \in Nat
  BY DEF TypeOK

\* The first value of an empty tree, by either path.
LEMMA FirstStep ==
  ASSUME TreeInv, NEW v \in Nat \ {0}, NEW s \in {Commit(IndexedLeaf(v, 0)), Nil},
         leaves' = <<IndexedLeaf(0, v), IndexedLeaf(v, 0)>>,
         nodes' = [nodes EXCEPT ![1] = <<Commit(IndexedLeaf(0, v)), s>>],
         UNCHANGED <<saved, clean>>, modified' # {}, pc' # "recompute",
         s = Nil => pc' = "sorted"
  PROVE  /\ leaves' \in Seq(Leaf) /\ Levels(nodes') /\ Linking(leaves') /\ Paired(leaves, nodes)'
         /\ Committed' /\ SavedInv' /\ PcInv'
<1>1. Levels(nodes)
  BY DEF TreeInv, TypeOK
<1>2. Levels(nodes') /\ Paired(leaves', nodes') /\ nodes'[1][1] # Nil /\ nodes'[1][2] = s
  BY <1>1, FirstPairs
<1>3. leaves' \in Seq(Leaf) /\ Linking(leaves')
  BY FirstLinks
<1>4. DOMAIN leaves' = {1, 2} /\ Len(leaves') = 2 /\ leaves' # <<>>
  OBVIOUS
<1>5. Committed'
  BY <1>2, <1>4 DEF Committed
<1>6. SavedInv' /\ PcInv'
  BY <1>4 DEF TreeInv, SavedInv, PcInv
<1> QED
  BY <1>2, <1>3, <1>5, <1>6 DEF Paired

\* A further value, by either path.
LEMMA PlaceStep ==
  ASSUME TreeInv, NEW p \in DOMAIN leaves, NEW v \in Nat \ {0},
         IsLow(leaves, p, v), leaves[p].next # v,
         NEW s \in {Commit(IndexedLeaf(v, leaves[p].next)), Nil},
         leaves' = Placed(leaves, p, v),
         nodes' = [nodes EXCEPT ![1] = Append(Written(nodes[1], p - 1, IndexedLeaf(leaves[p].value, v)), s)],
         UNCHANGED <<saved, clean, pc>>, modified' # {}, pc # "recompute",
         pc = "sorted" => p = Len(leaves),
         s = Nil => pc = "sorted"
  PROVE  /\ leaves' \in Seq(Leaf) /\ Levels(nodes') /\ Linking(leaves') /\ Paired(leaves, nodes)'
         /\ Committed' /\ SavedInv' /\ PcInv'
<1> DEFINE n == Len(leaves)
<1>1. leaves \in Seq(Leaf) /\ Levels(nodes) /\ Linking(leaves) /\ Paired(leaves, nodes)
  BY DEF TreeInv, TypeOK
<1>2. DOMAIN leaves = 1..n /\ n \in Nat
  BY <1>1
<1>3. /\ Levels(nodes') /\ Paired(leaves', nodes')
      /\ nodes'[1][n + 1] = s /\ nodes'[1][p] # Nil
      /\ \A i \in 1..n : i # p => nodes'[1][i] = nodes[1][i]
  <2>1. v \in Nat
    OBVIOUS
  <2>2. PlacedIn(nodes', leaves, nodes, p, v, s)
    BY <1>1, <2>1, PlacedPairs
  <2> QED
    BY <2>2 DEF PlacedIn
<1>4. leaves' \in Seq(Leaf) /\ Len(leaves') = n + 1
  BY <1>1, PlacedIs
<1>5. Linking(leaves')
  BY <1>1, PlacedLinks
<1>6. s # Nil \/ pc = "sorted"
  OBVIOUS
<1> HIDE DEF n
<1>7. DOMAIN leaves' = 1..(n + 1) /\ leaves' # <<>>
  BY <1>2, <1>4
<1>8. ASSUME clean, NEW i \in 1..(n + 1)
      PROVE  nodes'[1][i] # Nil \/ (pc = "sorted" /\ i = n + 1)
  <2>1. CASE i = n + 1
    BY <1>3, <1>6, <2>1
  <2>2. CASE i = p
    BY <1>3, <2>2
  <2>3. CASE i \in 1..n /\ i # p
    <3>1. nodes[1][i] # Nil \/ (pc = "sorted" /\ i = n)
      BY <1>2, <1>8, <2>3 DEF TreeInv, Committed, n
    <3>2. ~(pc = "sorted" /\ i = n)
      BY <2>3 DEF n
    <3> QED
      BY <1>3, <2>3, <3>1, <3>2
  <2>4. i = n + 1 \/ i = p \/ (i \in 1..n /\ i # p)
    BY <1>2
  <2> QED
    BY <2>1, <2>2, <2>3, <2>4
<1>9. Committed'
  BY <1>4, <1>7, <1>8 DEF Committed
<1>10. SavedInv' /\ PcInv'
  BY <1>7 DEF TreeInv, SavedInv, PcInv
<1> QED
  BY <1>3, <1>4, <1>5, <1>9, <1>10 DEF Paired

\* A step that leaves the tree alone keeps what is said of it, if it does not
\* call an incomplete tree undamaged.
LEMMA SameTree ==
  ASSUME TreeInv, UNCHANGED <<leaves, nodes, saved>>,
         clean' => clean /\ ((pc' = "sorted" /\ modified' # {}) \/ ~(pc = "sorted" /\ modified # {}))
  PROVE  /\ leaves' \in Seq(Leaf) /\ Levels(nodes') /\ Linking(leaves') /\ Paired(leaves, nodes)'
         /\ Committed' /\ SavedInv'
  BY DEF TreeInv, TypeOK, Committed, SavedInv, Paired

\* An error return, panics included.
LEMMA FailStep ==
  ASSUME TreeInv, NEW e, UNCHANGED <<leaves, nodes>>, Return(e),
         e \in {"panic", "ErrInsertZero", "ErrDuplicate", "ErrUnsorted", "ErrLowLeafNotFound"},
         clean' = FALSE \/ clean' = (clean /\ modified = {})
  PROVE  TreeInv'
<1>1. clean' \in BOOLEAN
  BY DEF TreeInv, TypeOK
<1>2. UNCHANGED saved
  BY DEF Return
<1>3. clean' => clean /\ modified = {}
  OBVIOUS
<1>4. /\ leaves' \in Seq(Leaf) /\ Levels(nodes') /\ Linking(leaves') /\ Paired(leaves, nodes)'
      /\ Committed' /\ SavedInv'
  BY <1>2, <1>3, SameTree
<1>5. PcInv'
  BY DEF Return, PcInv
<1>6. Len(leaves') \in Nat /\ <<>> \in Seq(Nat)
  BY <1>4
<1>7. TypeOK'
  BY <1>1, <1>2, <1>4, <1>6 DEF TreeInv, TypeOK, Return
<1> QED
  BY <1>4, <1>5, <1>7 DEF TreeInv

\* A value that NaiveError lets through has one low leaf, which is not its
\* duplicate.
LEMMA NaiveOk ==
  ASSUME TreeInv, pos <= Len(batch), leaves # <<>>, NaiveError(batch[pos]) = "ok"
  PROVE  /\ batch[pos] \in Nat \ {0}
         /\ \E p \in DOMAIN leaves : /\ IsLow(leaves, p, batch[pos])
                                      /\ LowLeafIndex(leaves, batch[pos]) = p - 1
                                      /\ leaves[p].next # batch[pos]
<1> DEFINE v == batch[pos]
<1>1. v \in Nat
  BY ValueType DEF TreeInv
<1> HIDE DEF v
<1>2. v # 0
  BY DEF NaiveError, v
<1>3. leaves \in Seq(Leaf) /\ Linking(leaves)
  BY DEF TreeInv, TypeOK
<1>4. PICK p \in DOMAIN leaves : /\ IsLow(leaves, p, v) /\ LowLeafIndexes(leaves, v) = {p - 1}
                                 /\ LowLeafIndex(leaves, v) = p - 1
  BY <1>1, <1>2, <1>3, LowLeafIs
<1>5. (p - 1) + 1 = p
  BY <1>3
<1>6. leaves[p].next # v
  BY <1>2, <1>4, <1>5 DEF NaiveError, v
<1> QED
  BY <1>1, <1>2, <1>4, <1>6 DEF v

\* What the error of a value can be.
LEMMA ErrorTypes ==
  ASSUME NEW v
  PROVE  /\ NaiveError(v) \in {"ok", "ErrInsertZero", "ErrDuplicate", "ErrLowLeafNotFound"}
         /\ SortedError(v) \in {"ok", "ErrDuplicate", "ErrUnsorted"}
<1>1. NaiveError(v) \in {"ok", "ErrInsertZero", "ErrDuplicate", "ErrLowLeafNotFound"}
  BY DEF NaiveError
<1>2. SortedError(v) \in {"ok", "ErrDuplicate", "ErrUnsorted"}
  BY DEF SortedError
<1> QED
  BY <1>1, <1>2

\* The actions of insertBatchLocked's loop.
LEMMA NaiveFirstInv == ASSUME TreeInv, NaiveFirst PROVE TreeInv'
<1> DEFINE v == batch[pos]
<1>1. v \in Nat /\ v # 0
  BY ValueType DEF TreeInv, NaiveFirst, NaiveError
<1>2. Commit(IndexedLeaf(v, 0)) # Nil
  BY DEF Commit, Nil
<1>3. leaves' = <<IndexedLeaf(0, v), IndexedLeaf(v, 0)>>
  BY DEF NaiveFirst
<1>4. leaves'[1] = IndexedLeaf(0, v) /\ leaves'[2] = IndexedLeaf(v, 0)
  BY <1>3
<1>5. nodes' = [nodes EXCEPT ![1] = <<Commit(IndexedLeaf(0, v)), Commit(IndexedLeaf(v, 0))>>]
  BY <1>4 DEF NaiveFirst
<1>6. UNCHANGED <<saved, clean>> /\ modified' = {0, 1} /\ pc' = "naive"
  BY DEF NaiveFirst
<1> HIDE DEF v
<1>7. /\ leaves' \in Seq(Leaf) /\ Levels(nodes') /\ Linking(leaves') /\ Paired(leaves, nodes)'
      /\ Committed' /\ SavedInv' /\ PcInv'
  BY <1>1, <1>2, <1>3, <1>5, <1>6, FirstStep
<1>8. TypeOK'
  BY <1>7 DEF TreeInv, TypeOK, NaiveFirst
<1> QED
  BY <1>7, <1>8 DEF TreeInv

\* A further value of a naive batch is placed after the leaf the scan finds.
LEMMA NaiveInsertInv == ASSUME TreeInv, NaiveInsert PROVE TreeInv'
<1> DEFINE v == batch[pos]
<1>1. pc = "naive" /\ pos <= Len(batch) /\ leaves # <<>> /\ NaiveError(v) = "ok"
  BY DEF NaiveInsert
<1>2. v \in Nat \ {0}
  BY <1>1, NaiveOk
<1>3. PICK p \in DOMAIN leaves :
        IsLow(leaves, p, v) /\ LowLeafIndex(leaves, v) = p - 1 /\ leaves[p].next # v
  BY <1>1, NaiveOk
<1>4. p \in Nat /\ p # 0 /\ (p - 1) + 1 = p /\ Len(leaves) \in Nat
  BY DEF TreeInv, TypeOK
<1>5. /\ leaves' = Append([leaves EXCEPT ![p] = Linked(leaves[p], v)], NewLeaf(leaves[p], v))
      /\ nodes' = [nodes EXCEPT
                     ![1] = Append(Written(nodes[1], p - 1, Linked(leaves[p], v)),
                                   Commit(NewLeaf(leaves[p], v)))]
      /\ modified' = modified \cup {Len(leaves), p - 1}
      /\ pos' = pos + 1 /\ UNCHANGED <<pc, batch, parents, level, err, visible, clean, saved>>
  BY <1>3, <1>4 DEF NaiveInsert, Touched
<1> HIDE DEF v
<1>6. /\ leaves' = Placed(leaves, p, v)
      /\ nodes' = [nodes EXCEPT
                     ![1] = Append(Written(nodes[1], p - 1, IndexedLeaf(leaves[p].value, v)),
                                   Commit(IndexedLeaf(v, leaves[p].next)))]
  BY <1>5 DEF Placed, Linked, NewLeaf
<1>7. Commit(IndexedLeaf(v, leaves[p].next)) # Nil
  BY DEF Commit, Nil
<1>8. modified' # {} /\ modified' \subseteq Nat
  BY <1>4, <1>5 DEF TreeInv, TypeOK
<1>9. /\ leaves' \in Seq(Leaf) /\ Levels(nodes') /\ Linking(leaves') /\ Paired(leaves, nodes)'
      /\ Committed' /\ SavedInv' /\ PcInv'
  BY <1>1, <1>2, <1>3, <1>5, <1>6, <1>7, <1>8, PlaceStep
<1>10. TypeOK'
  BY <1>5, <1>8, <1>9 DEF TreeInv, TypeOK
<1> QED
  BY <1>9, <1>10 DEF TreeInv

\* The actions of InsertManySorted's loop.
LEMMA SortedFirstInv == ASSUME TreeInv, NEW b \in Seq(Nat), InsertManySorted(b) PROVE TreeInv'
<1>1. b \in Seq(Nat) /\ b # <<>> /\ b[1] \in Nat /\ b[1] # 0
  <2>1. b \in Seq(Nat) /\ b # <<>>
    BY DEF InsertManySorted
  <2>2. 1 \in DOMAIN b
    BY <2>1
  <2> QED
    BY <2>1, <2>2 DEF InsertManySorted
<1>2. pc = "idle" /\ pc' = "sorted" /\ batch' = b /\ UNCHANGED <<parents, level, err, visible, clean, saved>>
  BY DEF InsertManySorted
<1>3. CASE leaves = <<>>
  <2>1. leaves' = <<IndexedLeaf(0, b[1]), IndexedLeaf(b[1], 0)>>
    BY <1>3 DEF InsertManySorted
  <2>2. leaves'[1] = IndexedLeaf(0, b[1])
    BY <2>1
  <2>3. nodes' = [nodes EXCEPT ![1] = <<Commit(IndexedLeaf(0, b[1])), Nil>>]
    BY <1>3, <2>2 DEF InsertManySorted
  <2>4. modified' = {0, 1} /\ pos' = 2
    BY <1>3 DEF InsertManySorted
  <2>5. /\ leaves' \in Seq(Leaf) /\ Levels(nodes') /\ Linking(leaves') /\ Paired(leaves, nodes)'
        /\ Committed' /\ SavedInv' /\ PcInv'
    BY <1>1, <1>2, <2>1, <2>3, <2>4, FirstStep
  <2>6. TypeOK'
    BY <1>1, <1>2, <2>4, <2>5 DEF TreeInv, TypeOK
  <2> QED
    BY <2>5, <2>6 DEF TreeInv
<1>4. CASE leaves # <<>>
  <2>1. UNCHANGED <<leaves, nodes>> /\ modified' = {} /\ pos' = 1
    BY <1>4 DEF InsertManySorted, Tree
  <2>2. /\ leaves' \in Seq(Leaf) /\ Levels(nodes') /\ Linking(leaves') /\ Paired(leaves, nodes)'
        /\ Committed' /\ SavedInv'
    BY <1>2, <2>1, SameTree
  <2>3. PcInv'
    BY <1>2, <1>4, <2>1 DEF PcInv
  <2>4. TypeOK'
    BY <1>1, <1>2, <2>1, <2>2 DEF TreeInv, TypeOK
  <2> QED
    BY <2>2, <2>3, <2>4 DEF TreeInv
<1> QED
  BY <1>3, <1>4

\* A further value of a sorted batch is placed after the last leaf.
LEMMA SortedAppendInv == ASSUME TreeInv, SortedAppend PROVE TreeInv'
<1> DEFINE v == batch[pos]
           n == Len(leaves)
<1>1. pc = "sorted" /\ pos <= Len(batch) /\ SortedError(v) = "ok" /\ leaves # <<>>
  BY DEF SortedAppend, TreeInv, PcInv
<1>2. v \in Nat
  BY <1>1, ValueType DEF TreeInv
<1>3. leaves \in Seq(Leaf) /\ n \in Nat /\ n # 0 /\ n \in DOMAIN leaves /\ (n - 1) + 1 = n /\ n - 1 \in Nat
  BY <1>1 DEF TreeInv, TypeOK
<1>4. leaves[n].value \in Nat /\ leaves[n].next \in Nat
  BY <1>3, LeafTypes
<1>5. leaves[n].next = 0 /\ leaves[n].value < v
  BY <1>1, <1>2, <1>4 DEF SortedError
<1>6. /\ leaves' = Append([leaves EXCEPT ![n] = Linked(leaves[n], v)], IndexedLeaf(v, 0))
      /\ nodes' = [nodes EXCEPT ![1] = Append(Written(nodes[1], n - 1, Linked(leaves[n], v)), Nil)]
      /\ modified' = modified \cup {n - 1, n}
      /\ pos' = pos + 1 /\ UNCHANGED <<pc, batch, parents, level, err, visible, clean, saved>>
  BY DEF SortedAppend
<1> HIDE DEF v
<1>7. /\ leaves' = Placed(leaves, n, v)
      /\ nodes' = [nodes EXCEPT
                     ![1] = Append(Written(nodes[1], n - 1, IndexedLeaf(leaves[n].value, v)), Nil)]
  BY <1>5, <1>6 DEF Placed, Linked
<1>8. IsLow(leaves, n, v) /\ leaves[n].next # v /\ v \in Nat \ {0}
  BY <1>2, <1>4, <1>5 DEF IsLow
<1>9. modified' # {} /\ modified' \subseteq Nat
  BY <1>3, <1>6 DEF TreeInv, TypeOK
<1>10. /\ leaves' \in Seq(Leaf) /\ Levels(nodes') /\ Linking(leaves') /\ Paired(leaves, nodes)'
       /\ Committed' /\ SavedInv' /\ PcInv'
  BY <1>1, <1>3, <1>6, <1>7, <1>8, <1>9, PlaceStep
<1>11. TypeOK'
  BY <1>6, <1>9, <1>10 DEF TreeInv, TypeOK
<1> QED
  BY <1>10, <1>11 DEF TreeInv

\* recomputeLocked.
LEMMA BeginRecomputeInv == ASSUME TreeInv, BeginRecompute PROVE TreeInv'
<1> DEFINE n == Len(leaves)
           d == TargetDepth(Len(nodes[1]))
<1>1. leaves \in Seq(Leaf) /\ Levels(nodes) /\ Paired(leaves, nodes) /\ n \in Nat
  BY DEF TreeInv, TypeOK
<1>2. d \in Nat
  BY <1>1, TargetDepthType DEF Paired
<1>3. Levels(Grown) /\ Grown[1] = nodes[1]
  BY <1>1, <1>2, LevelsGrown
<1>4. UNCHANGED <<leaves, batch, pos, err, visible, clean, saved>> /\ pc' = "recompute" /\ level' = 1
  BY DEF BeginRecompute
<1>5. /\ Levels(nodes') /\ Paired(leaves, nodes')
      /\ clean => \A i \in DOMAIN leaves : nodes'[1][i] # Nil
  <2>1. CASE TailUnhashed
    <3> DEFINE row == [nodes[1] EXCEPT ![n] = Commit(leaves[n])]
    <3>1. leaves # <<>> /\ n \in DOMAIN leaves /\ DOMAIN leaves = 1..n
      BY <1>1, <2>1 DEF TailUnhashed, TreeInv, PcInv
    <3>2. IsRow(nodes[1]) /\ DOMAIN nodes[1] = 1..n /\ Len(nodes[1]) = n
      BY <1>1, LevelZeroIsRow, RowDomain DEF Paired
    <3>3. IsSlot(Commit(leaves[n])) /\ Commit(leaves[n]) # Nil
      BY DEF IsSlot, Commit, Nil
    <3>4. IsRow(row) /\ Len(row) = n
      BY <3>2, <3>3, RowExcept
    <3>5. \A i \in 1..n : row[i] = IF i = n THEN Commit(leaves[n]) ELSE nodes[1][i]
      BY <3>2
    <3>6. nodes' = [Grown EXCEPT ![1] = row]
      BY <1>3, <2>1 DEF BeginRecompute
    <3> HIDE DEF row
    <3>7. Levels(nodes') /\ nodes'[1] = row
      BY <1>3, <3>4, <3>6, LevelsExcept, LevelZeroIsRow
    <3>8. Paired(leaves, nodes')
      BY <1>1, <3>1, <3>4, <3>5, <3>7 DEF Paired
    <3>9. clean => \A i \in DOMAIN leaves : nodes'[1][i] # Nil
      BY <3>1, <3>3, <3>5, <3>7 DEF TreeInv, Committed
    <3> QED
      BY <3>7, <3>8, <3>9
  <2>2. CASE ~TailUnhashed
    <3>1. nodes' = Grown
      BY <2>2 DEF BeginRecompute
    <3>2. clean => \A i \in DOMAIN leaves : nodes'[1][i] # Nil
      BY <1>3, <2>2, <3>1 DEF TreeInv, Committed, TailUnhashed
    <3> QED
      BY <1>1, <1>3, <3>1, <3>2 DEF Paired
  <2> QED
    BY <2>1, <2>2
<1>6. modified' \subseteq Nat /\ parents' = {}
  <2>1. \A i \in Nat : Parent(i) \in Nat
    BY DEF Parent
  <2>2. modified \subseteq Nat
    BY DEF TreeInv, TypeOK
  <2>3. modified' = {Parent(i) : i \in modified} /\ parents' = {}
    BY DEF BeginRecompute
  <2> QED
    BY <2>1, <2>2, <2>3
<1>7. TypeOK'
  BY <1>4, <1>5, <1>6 DEF TreeInv, TypeOK
<1>8. Linking(leaves') /\ Paired(leaves, nodes)' /\ Committed' /\ SavedInv' /\ PcInv'
  BY <1>4, <1>5 DEF TreeInv, Paired, Committed, SavedInv, PcInv
<1> QED
  BY <1>7, <1>8 DEF TreeInv

\* A slot that is read is a slot.
LEMMA SlotType ==
  ASSUME NEW row, IsRow(row), NEW i \in Nat
  PROVE  IsSlot(SlotAt(row, i))
<1>1. row \in Seq({row[j] : j \in DOMAIN row}) /\ \A j \in DOMAIN row : IsSlot(row[j])
  BY DEF IsRow
<1>2. CASE i < Len(row)
  <2>1. i + 1 \in DOMAIN row
    BY <1>1, <1>2
  <2> QED
    BY <1>1, <1>2, <2>1 DEF SlotAt
<1>3. CASE ~(i < Len(row))
  BY <1>3 DEF SlotAt, IsSlot, Nil
<1> QED
  BY <1>2, <1>3

\* Hashing a node changes no slot of level 0.
LEMMA HashNodeInv == ASSUME TreeInv, NEW i \in modified, HashNode(i) PROVE TreeInv'
<1> DEFINE h   == IF Right(i) # Nil THEN Hash2(Left(i), Right(i)) ELSE Left(i)
           row == StoreAt(nodes[level + 1], i, h)
<1>1. Levels(nodes) /\ i \in Nat /\ level \in Nat /\ level # 0 /\ level + 1 # 1
  BY DEF TreeInv, TypeOK, PcInv, HashNode
<1>2. nodes' = [nodes EXCEPT ![level + 1] = row]
  BY DEF HashNode
<1>3. UNCHANGED <<leaves, pc, batch, pos, level, err, visible, clean, saved>> /\ pc = "recompute"
  BY DEF HashNode
<1>4. Levels(nodes') /\ nodes'[1] = nodes[1]
  <2>1. CASE level + 1 \in DOMAIN nodes
    <3>1. IsRow(nodes[level]) /\ IsRow(nodes[level + 1])
      BY <1>1, <2>1, LevelZeroIsRow DEF Levels
    <3>2. IsSlot(Left(i)) /\ IsSlot(Right(i))
      BY <1>1, <3>1, SlotType DEF Left, Right
    <3>3. IsSlot(h)
      BY <3>2 DEF IsSlot, Hash2
    <3> HIDE DEF h
    <3>4. IsRow(row)
      BY <1>1, <3>1, <3>3, RowStoreAt
    <3> HIDE DEF row
    <3> QED
      BY <1>1, <1>2, <3>4, LevelsExcept, LevelZeroIsRow
  <2>2. CASE level + 1 \notin DOMAIN nodes
    <3>1. nodes = [l \in DOMAIN nodes |-> nodes[l]]
      BY <1>1 DEF Levels
    <3>2. nodes' = nodes
      BY <1>2, <2>2, <3>1
    <3> QED
      BY <1>1, <3>2
  <2> QED
    BY <2>1, <2>2
<1>5. modified' \subseteq Nat /\ parents' \subseteq Nat
  <2>1. Parent(i) \in Nat
    BY <1>1 DEF Parent
  <2> QED
    BY <2>1 DEF HashNode, TreeInv, TypeOK
<1>6. TypeOK'
  BY <1>3, <1>4, <1>5 DEF TreeInv, TypeOK
<1>7. Linking(leaves') /\ Paired(leaves, nodes)' /\ Committed' /\ SavedInv' /\ PcInv'
  BY <1>3, <1>4 DEF TreeInv, Paired, Committed, SavedInv, PcInv
<1> QED
  BY <1>6, <1>7 DEF TreeInv

\* A state the invariant allows steps to another one: one case per action.
LEMMA TreeNext == TreeInv /\ [Next]_vars => TreeInv'
<1> SUFFICES ASSUME TreeInv, [Next]_vars PROVE TreeInv'
  OBVIOUS
<1>1. ASSUME NEW b \in Batches, InsertMany(b) PROVE TreeInv'
  <2>1. b \in Seq(Nat)
    BY BatchType
  <2>2. UNCHANGED <<leaves, nodes, saved, clean>> /\ pc = "idle"
    BY <1>1 DEF InsertMany, Tree
  <2>3. /\ leaves' \in Seq(Leaf) /\ Levels(nodes') /\ Linking(leaves') /\ Paired(leaves, nodes)'
        /\ Committed' /\ SavedInv'
    BY <2>2, SameTree
  <2>4. PcInv' /\ TypeOK'
    BY <1>1, <2>1, <2>3 DEF InsertMany, Tree, PcInv, TreeInv, TypeOK
  <2> QED
    BY <2>3, <2>4 DEF TreeInv
<1>2. ASSUME NEW b \in Batches, InsertManySorted(b) PROVE TreeInv'
  BY <1>2, BatchType, SortedFirstInv
<1>3. ASSUME NEW b \in Batches, NEW s \in BOOLEAN, Refuse(b, s) PROVE TreeInv'
  <2>1. UNCHANGED <<leaves, nodes, saved, clean, batch, pos, modified, parents, level, pc, visible>>
    BY <1>3 DEF Refuse, Tree, Writer
  <2>2. err' \in {"ErrNoValues", "ErrInsertZero"}
    BY <1>3 DEF Refuse
  <2> QED
    BY <2>1, <2>2 DEF TreeInv, TypeOK, Paired, Committed, SavedInv, PcInv
<1>4. CASE NaiveFirst
  BY <1>4, NaiveFirstInv
<1>5. CASE NaiveInsert
  BY <1>5, NaiveInsertInv
<1>6. CASE NaiveReject
  BY <1>6, FailStep, ErrorTypes DEF NaiveReject, Fail, Tree
<1>7. CASE SortedAppend
  BY <1>7, SortedAppendInv
<1>8. CASE SortedReject
  BY <1>8, FailStep, ErrorTypes DEF SortedReject, Fail, Tree
<1>9. CASE BeginRecompute
  BY <1>9, BeginRecomputeInv
<1>10. ASSUME NEW i \in modified, HashNode(i) PROVE TreeInv'
  BY <1>10, HashNodeInv
<1>11. ASSUME NEW i \in modified, HashPanic(i) PROVE TreeInv'
  BY <1>11, FailStep DEF HashPanic, Tree
<1>12. CASE NextLevel
  <2>1. UNCHANGED <<leaves, nodes, saved, clean, pc, batch, pos, err, visible>>
    BY <1>12 DEF NextLevel, Tree
  <2>2. pc = "recompute" /\ modified' = parents /\ parents' = {} /\ level' = level + 1
    BY <1>12 DEF NextLevel
  <2> QED
    BY <2>1, <2>2 DEF TreeInv, TypeOK, Paired, Committed, SavedInv, PcInv
<1>13. CASE EndRecompute
  <2>1. UNCHANGED <<leaves, nodes, saved, clean>> /\ pc = "recompute"
    BY <1>13 DEF EndRecompute, Return, Tree
  <2>2. /\ leaves' \in Seq(Leaf) /\ Levels(nodes') /\ Linking(leaves') /\ Paired(leaves, nodes)'
        /\ Committed' /\ SavedInv'
    BY <2>1, SameTree
  <2>3. Len(leaves') \in Nat /\ <<>> \in Seq(Nat)
    BY <2>2
  <2>4. PcInv' /\ TypeOK'
    BY <1>13, <2>1, <2>2, <2>3 DEF EndRecompute, Return, PcInv, TreeInv, TypeOK
  <2> QED
    BY <2>2, <2>4 DEF TreeInv
<1>14. CASE ExportState
  <2>1. /\ UNCHANGED <<leaves, nodes, batch, pos, modified, parents, level, pc, err, visible, clean>>
        /\ pc = "idle" /\ saved' = [leaves |-> leaves, nodes |-> nodes, clean |-> clean]
    BY <1>14 DEF ExportState, Tree, Writer
  <2>2. saved'.leaves = leaves /\ saved'.nodes = nodes /\ saved'.clean = clean
    BY <2>1
  <2>3. TypeOK'
    BY <2>1, <2>2 DEF TreeInv, TypeOK
  <2>4. Linking(leaves') /\ Paired(leaves, nodes)' /\ Committed' /\ PcInv'
    BY <2>1 DEF TreeInv, Paired, Committed, PcInv
  <2>5. SavedInv'
    BY <2>1, <2>2 DEF TreeInv, Paired, Committed, SavedInv
  <2> QED
    BY <2>3, <2>4, <2>5 DEF TreeInv
<1>15. CASE ImportState
  <2>1. /\ leaves' = saved.leaves /\ nodes' = saved.nodes /\ clean' = saved.clean
        /\ visible' = Len(saved.leaves) /\ err' = "ok" /\ pc = "idle"
        /\ UNCHANGED <<batch, pos, modified, parents, level, pc, saved>>
    BY <1>15 DEF ImportState, Writer
  <2>2. Len(saved.leaves) \in Nat
    BY DEF TreeInv, TypeOK
  <2>3. TypeOK'
    BY <2>1, <2>2 DEF TreeInv, TypeOK
  <2>4. Linking(leaves') /\ Paired(leaves, nodes)' /\ Committed' /\ SavedInv' /\ PcInv'
    BY <2>1 DEF TreeInv, Paired, Committed, SavedInv, PcInv
  <2> QED
    BY <2>3, <2>4 DEF TreeInv
<1>16. CASE UNCHANGED vars
  BY <1>16 DEF vars, TreeInv, TypeOK, Paired, Committed, SavedInv, PcInv
<1> QED
  BY <1>1, <1>2, <1>3, <1>4, <1>5, <1>6, <1>7, <1>8, <1>9, <1>10, <1>11, <1>12, <1>13, <1>14,
     <1>15, <1>16 DEF Next

\* Hence it holds in every state of every behaviour.
LEMMA TreeAlways == Spec => []TreeInv
  BY TreeInit, TreeNext, PTL DEF Spec

-----------------------------------------------------------------------------
\* The variables keep their types.
THEOREM TypeCorrect == Spec => []TypeOK
<1>1. TreeInv => TypeOK
  BY DEF TreeInv
<1> QED
  BY <1>1, TreeAlways, PTL

\* The leaves are a linked list in value order, inside batches, after failed
\* ones and after imports (insertBatchLocked, InsertManySorted).
THEOREM ListCorrect == Spec => []IndexedList
<1>1. TreeInv => IndexedList
  BY LinkingIsLinked DEF TreeInv, TypeOK, IndexedList
<1> QED
  BY <1>1, TreeAlways, PTL

\* findLowLeafIndexLocked has exactly one answer for every positive serial and none
\* for a negative one: a value below the sentinel's is below every leaf's.
THEOREM LowLeafUnique == Spec => []OneLowLeaf
<1>1. TreeInv => OneLowLeaf
  <2> SUFFICES ASSUME TreeInv, leaves # <<>>, NEW v \in Values \ {0}
               PROVE  /\ \E i \in DOMAIN leaves : LowLeafIndexes(leaves, v) = {i - 1}
                      /\ LowLeafIndexes(leaves, -v) = {}
    BY DEF OneLowLeaf
  <2>1. v \in Nat \ {0}
    BY ValuesAssumption
  <2>2. \E i \in DOMAIN leaves : LowLeafIndexes(leaves, v) = {i - 1}
    BY <2>1, LowLeafIs DEF TreeInv, TypeOK
  <2>3. ASSUME NEW i \in 0..(Len(leaves) - 1) PROVE ~(leaves[i + 1].value < -v)
    <3>1. leaves \in Seq(Leaf) /\ i + 1 \in 1..Len(leaves)
      BY DEF TreeInv, TypeOK
    <3>2. leaves[i + 1] \in Leaf
      BY <3>1
    <3>3. leaves[i + 1].value \in Nat
      BY <3>2 DEF Leaf
    <3> QED
      BY <2>1, <3>3
  <2> QED
    BY <2>2, <2>3 DEF LowLeafIndexes
<1> QED
  BY <1>1, TreeAlways, PTL

\* Level 0 holds the commitment of the leaf beside it, or nothing where a
\* sorted batch is under way or one has failed.
THEOREM LevelZeroCorrect == Spec => []LevelZeroPaired
<1>1. TreeInv => LevelZeroPaired
  BY DEF TreeInv, Paired, Committed, LevelZeroPaired
<1> QED
  BY <1>1, TreeAlways, PTL
=============================================================================
