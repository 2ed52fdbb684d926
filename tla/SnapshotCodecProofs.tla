------------------------ MODULE SnapshotCodecProofs ------------------------
(***************************************************************************)
(* Theorems about SnapshotCodec, for every set of values and batches and   *)
(* every count width.                                                      *)
(*                                                                         *)
(* What is read back is compared with what was written slot by slot, level *)
(* by level, and for a whole file: BinaryReads says what the reader makes  *)
(* of a file whose header is any later state's. That an empty tree has one *)
(* empty level, which both readers assume, is not part of TreeInv: EmptyInv*)
(* adds it.                                                                *)
(***************************************************************************)
EXTENDS SnapshotCodec, LeanIMTPlusProofs

\* A tree as ExportState can return it.
WellFormed(ls, ns) ==
  /\ ls \in Seq(Leaf) /\ Levels(ns) /\ Len(ns[1]) = Len(ls)
  /\ ls = <<>> => ns = << <<>> >>

\* A tree without leaves has one level, and no batch comes to its end on one.
EmptyInv ==
  /\ leaves = <<>> => nodes = << <<>> >>
  /\ saved.leaves = <<>> => saved.nodes = << <<>> >>
  /\ pc \in {"naive", "sorted"} => batch # <<>>
  /\ pc # "idle" /\ ~(pc = "naive" /\ pos = 1) => leaves # <<>>

-----------------------------------------------------------------------------
(* Slots and levels.                                                       *)

\* A nil slot and a digest come back as they were, in both formats.
LEMMA SlotKept ==
  ASSUME NEW s, IsSlot(s)
  PROVE  SlotOf(Entry(s)) = s /\ DecodeSlot(EncodeSlot(s)) = s
<1>1. CASE s = Nil
  BY <1>1 DEF SlotOf, Entry, DecodeSlot, EncodeSlot
<1>2. CASE s # Nil
  <2>1. s.kind # "empty"
    BY DEF IsSlot
  <2>2. s # Empty
    BY <2>1 DEF Empty
  <2> QED
    BY <1>2, <2>2 DEF SlotOf, Entry, BigTo32, DecodeSlot, EncodeSlot, EncodeHex
<1> QED
  BY <1>1, <1>2

\* A count that fits is written as it is.
LEMMA CountKept ==
  ASSUME NEW n \in Nat, n < CountWord
  PROVE  Uint32(n) = n
  BY CountWordAssumption DEF Uint32

\* A level that was written.
WrittenLevel(row) == [count |-> Uint32(Len(row)), entries |-> [i \in DOMAIN row |-> Entry(row[i])]]

\* A level comes back as it was.
LEMMA LevelKept ==
  ASSUME NEW row, IsRow(row), Len(row) < CountWord
  PROVE  /\ Slots(WrittenLevel(row)) = row
         /\ WrittenLevel(row).count = Len(row) /\ Len(WrittenLevel(row).entries) = Len(row)
<1> DEFINE n == Len(row)
<1>1. row \in Seq({row[i] : i \in DOMAIN row}) /\ \A i \in DOMAIN row : IsSlot(row[i])
  BY DEF IsRow
<1>2. n \in Nat /\ DOMAIN row = 1..n /\ row = [i \in 1..n |-> row[i]]
  BY <1>1
<1>3. WrittenLevel(row).count = n
  BY <1>2, CountKept DEF WrittenLevel
<1>4. WrittenLevel(row).entries = [i \in 1..n |-> Entry(row[i])]
  BY <1>2 DEF WrittenLevel
<1>5. Len(WrittenLevel(row).entries) = n
  BY <1>2, <1>4
<1>6. \A i \in 1..n : SlotOf(Entry(row[i])) = row[i]
  BY <1>1, <1>2, SlotKept
<1>7. Slots(WrittenLevel(row)) = [i \in 1..n |-> SlotOf(Entry(row[i]))]
  BY <1>3, <1>4 DEF Slots
<1> HIDE DEF n
<1>8. [i \in 1..n |-> SlotOf(Entry(row[i]))] = [i \in 1..n |-> row[i]]
  BY <1>6
<1> QED
  BY <1>2, <1>3, <1>5, <1>7, <1>8 DEF n

\* So does a level of hex strings.
LEMMA RowTextKept ==
  ASSUME NEW row, IsRow(row)
  PROVE  [i \in DOMAIN row |-> DecodeSlot(EncodeSlot(row[i]))] = row
<1>1. row \in Seq({row[i] : i \in DOMAIN row})
  BY DEF IsRow
<1>2. row = [i \in DOMAIN row |-> row[i]]
  BY <1>1
<1>3. \A i \in DOMAIN row : DecodeSlot(EncodeSlot(row[i])) = row[i]
  BY SlotKept DEF IsRow
<1> QED
  BY <1>2, <1>3

-----------------------------------------------------------------------------
(* Files.                                                                  *)

\* What well-formed levels are made of.
LEMMA LevelsAre ==
  ASSUME NEW ns, Levels(ns)
  PROVE  /\ Len(ns) \in Nat \ {0} /\ DOMAIN ns = 1..Len(ns) /\ ns = [l \in 1..Len(ns) |-> ns[l]]
         /\ \A l \in 1..Len(ns) : IsRow(ns[l]) /\ Len(ns[l]) \in Nat
<1>1. ns \in Seq({ns[l] : l \in DOMAIN ns}) /\ ns # <<>> /\ \A l \in DOMAIN ns : IsRow(ns[l])
  BY DEF Levels
<1>2. Len(ns) \in Nat \ {0} /\ DOMAIN ns = 1..Len(ns) /\ ns = [l \in 1..Len(ns) |-> ns[l]]
  BY <1>1
<1>3. ASSUME NEW l \in 1..Len(ns) PROVE Len(ns[l]) \in Nat
  <2>1. ns[l] \in Seq({ns[l][i] : i \in DOMAIN ns[l]})
    BY <1>1, <1>2, <1>3 DEF IsRow
  <2> QED
    BY <2>1
<1> QED
  BY <1>1, <1>2, <1>3

\* A header read from the tree or from a later state of it.
LaterHeader(h, ls, ns) ==
  /\ h.depth \in Nat /\ h.leafCount \in Nat
  /\ h.depth >= Depth(ns) /\ h.leafCount >= Len(ls) /\ h.leafCount < CountWord

\* A binary file is read to its end only when its header is that of the tree in
\* its body, and gives that tree.
LEMMA BinaryReads ==
  ASSUME NEW ls, NEW ns, NEW h, NEW number,
         WellFormed(ls, ns), LaterHeader(h, ls, ns),
         \A l \in DOMAIN ns : Len(ns[l]) < CountWord
  PROVE  LET file == ExportBinary([leaves |-> ls, nodes |-> ns], h, number) IN
         /\ Complete(file) <=> h.depth = Depth(ns) /\ h.leafCount = Len(ls)
         /\ ImportBinary(file) = IF Complete(file) THEN Loaded(ls, ns, number) ELSE Failed
<1> DEFINE file == ExportBinary([leaves |-> ls, nodes |-> ns], h, number)
           d    == Len(ns)
<1>1. /\ d \in Nat \ {0} /\ DOMAIN ns = 1..d /\ ns = [l \in 1..d |-> ns[l]]
      /\ \A l \in 1..d : IsRow(ns[l]) /\ Len(ns[l]) \in Nat
  BY LevelsAre DEF WellFormed
<1>2. ls \in Seq(Leaf) /\ Len(ls) \in Nat
  BY DEF WellFormed
<1>3. Depth(ns) = d - 1
  BY DEF Depth
<1>4. /\ file.version = 2 /\ file.depth = h.depth /\ file.leafCount = h.leafCount
      /\ file.number = number /\ file.leaves = ls
  BY CountKept DEF ExportBinary, LaterHeader
<1>5. file.levels = [l \in 1..d |-> WrittenLevel(ns[l])]
  BY <1>1 DEF ExportBinary, WrittenLevel
<1>6. Len(file.levels) = d
  BY <1>1, <1>5
<1>7. \A l \in 1..d : Len(file.levels[l].entries) >= file.levels[l].count
  <2>1. \A l \in 1..d : /\ Len(WrittenLevel(ns[l]).entries) = Len(ns[l])
                        /\ WrittenLevel(ns[l]).count = Len(ns[l])
    BY <1>1, LevelKept
  <2> QED
    BY <1>1, <1>5, <2>1
<1>8. Complete(file) <=> h.depth = Depth(ns) /\ h.leafCount = Len(ls)
  BY <1>1, <1>2, <1>3, <1>4, <1>6, <1>7 DEF Complete, LaterHeader
<1>9. ASSUME Complete(file) PROVE ImportBinary(file) = Loaded(ls, ns, number)
  <2>1. h.depth = d - 1 /\ h.leafCount = Len(ls)
    BY <1>3, <1>8, <1>9
  <2>2. \A l \in 1..d : Slots(file.levels[l]) = ns[l]
    BY <1>1, <1>5, LevelKept
  <2>3. [l \in 1..(file.depth + 1) |-> Slots(file.levels[l])] = ns
    <3>1. file.depth + 1 = d
      BY <1>1, <1>4, <2>1
    <3>2. [l \in 1..d |-> Slots(file.levels[l])] = [l \in 1..d |-> ns[l]]
      BY <2>2
    <3> QED
      BY <1>1, <3>1, <3>2
  <2>4. SubSeq(file.leaves, 1, file.leafCount) = ls
    BY <1>2, <1>4, <2>1, SubSeqFull
  <2> HIDE DEF file
  <2>5. CASE ls = <<>>
    <3>1. file.leafCount = 0 /\ ns = << <<>> >>
      BY <1>4, <2>1, <2>5 DEF WellFormed
    <3> QED
      BY <1>4, <1>9, <2>5, <3>1 DEF ImportBinary, NewTree
  <2>6. CASE ls # <<>>
    <3>1. file.leafCount # 0
      BY <1>2, <1>4, <2>1, <2>6
    <3>2. ImportNew(ns, ls, number) = Loaded(ls, ns, number)
      BY DEF ImportNew, WellFormed, Levels
    <3> QED
      BY <1>4, <1>9, <2>3, <2>4, <3>1, <3>2 DEF ImportBinary
  <2> QED
    BY <2>5, <2>6
<1>10. ASSUME ~Complete(file) PROVE ImportBinary(file) = Failed
  BY <1>10 DEF ImportBinary
<1> QED
  BY <1>8, <1>9, <1>10

\* A JSON file is read when its depth is that of its body, and gives the body.
LEMMA JSONReads ==
  ASSUME NEW ls, NEW ns, NEW h, NEW number, WellFormed(ls, ns)
  PROVE  LET file == ExportJSON([leaves |-> ls, nodes |-> ns], h, number) IN
         ImportJSON(file) = IF h.depth = Depth(ns) THEN Loaded(ls, ns, number) ELSE Failed
<1> DEFINE file == ExportJSON([leaves |-> ls, nodes |-> ns], h, number)
           d    == Len(ns)
           row(l) == [i \in DOMAIN ns[l] |-> DecodeSlot(EncodeSlot(ns[l][i]))]
<1>1. /\ d \in Nat \ {0} /\ DOMAIN ns = 1..d /\ ns = [l \in 1..d |-> ns[l]]
      /\ \A l \in 1..d : IsRow(ns[l]) /\ Len(ns[l]) \in Nat
  BY LevelsAre DEF WellFormed
<1>2. /\ file.version = 2 /\ file.depth = h.depth /\ file.number = number /\ file.leaves = ls
      /\ file.nodes = [l \in 1..d |-> [i \in DOMAIN ns[l] |-> EncodeSlot(ns[l][i])]]
  BY <1>1 DEF ExportJSON
<1>3. Len(file.nodes) = d /\ file.nodes # <<>>
  BY <1>1, <1>2
<1>4. ASSUME NEW l \in 1..d
      PROVE  [i \in DOMAIN file.nodes[l] |-> DecodeSlot(file.nodes[l][i])] = ns[l]
  <2>1. file.nodes[l] = [i \in DOMAIN ns[l] |-> EncodeSlot(ns[l][i])]
    BY <1>2
  <2>2. row(l) = ns[l]
    BY <1>1, RowTextKept
  <2> QED
    BY <2>1, <2>2
<1>5. [l \in DOMAIN file.nodes |-> [i \in DOMAIN file.nodes[l] |-> DecodeSlot(file.nodes[l][i])]] = ns
  <2>1. DOMAIN file.nodes = 1..d
    BY <1>2
  <2> QED
    BY <1>1, <1>4, <2>1
<1> HIDE DEF file
<1>6. ASSUME h.depth = Depth(ns) PROVE ImportJSON(file) = Loaded(ls, ns, number)
  <2>1. file.depth = Len(file.nodes) - 1
    BY <1>2, <1>3, <1>6 DEF Depth
  <2>2. CASE ls = <<>>
    BY <1>2, <2>1, <2>2 DEF ImportJSON, NewTree, WellFormed
  <2>3. CASE ls # <<>>
    <3>1. ImportNew(ns, ls, number) = Loaded(ls, ns, number)
      BY DEF ImportNew, WellFormed, Levels
    <3> QED
      BY <1>2, <1>5, <2>1, <2>3, <3>1 DEF ImportJSON
  <2> QED
    BY <2>2, <2>3
<1>7. ASSUME h.depth # Depth(ns) PROVE ImportJSON(file) = Failed
  BY <1>2, <1>3, <1>7 DEF ImportJSON, Depth
<1> QED
  BY <1>6, <1>7 DEF file

-----------------------------------------------------------------------------
(* Empty trees.                                                            *)

\* A tree starts empty, with its one level.
LEMMA EmptyInit == Init => EmptyInv
  BY DEF Init, EmptyInv

\* A list that something has been appended to is not empty.
LEMMA AppendedNotEmpty ==
  ASSUME NEW T, NEW q \in Seq(T), NEW i, NEW y, NEW x
  PROVE  Append([q EXCEPT ![i] = y], x) # <<>>
<1> DEFINE m == [q EXCEPT ![i] = y]
<1>1. Len(q) \in Nat /\ DOMAIN q = 1..Len(q) /\ q \in [1..Len(q) -> T]
  OBVIOUS
<1>2. m \in [1..Len(q) -> T \cup {y}]
  BY <1>1
<1>3. m \in Seq(T \cup {y})
  BY <1>1, <1>2
<1> HIDE DEF m
<1>4. Len(Append(m, x)) = Len(m) + 1 /\ Len(m) \in Nat
  BY <1>3
<1>5. Len(Append(m, x)) # 0
  BY <1>4
<1> QED
  BY <1>5 DEF m

\* No operation leaves levels behind without leaves.
LEMMA EmptyNext == TreeInv /\ EmptyInv /\ [Next]_vars => EmptyInv'
<1> SUFFICES ASSUME TreeInv, EmptyInv, [Next]_vars PROVE EmptyInv'
  OBVIOUS
<1>1. ASSUME NEW b \in Batches, InsertMany(b) PROVE EmptyInv'
  BY <1>1 DEF InsertMany, EmptyInv, Tree
<1>2. ASSUME NEW b \in Batches, InsertManySorted(b) PROVE EmptyInv'
  <2>1. pc' = "sorted" /\ batch' = b /\ b # <<>> /\ saved' = saved
    BY <1>2 DEF InsertManySorted
  <2>2. leaves' # <<>>
    BY <1>2 DEF InsertManySorted, Tree
  <2> QED
    BY <2>1, <2>2 DEF EmptyInv
<1>3. ASSUME NEW b \in Batches, NEW s \in BOOLEAN, Refuse(b, s) PROVE EmptyInv'
  BY <1>3 DEF Refuse, EmptyInv, Tree, Writer
<1>4. CASE NaiveFirst
  <2>1. leaves' # <<>> /\ UNCHANGED <<pc, batch, saved>>
    BY <1>4 DEF NaiveFirst
  <2> QED
    BY <2>1 DEF EmptyInv
<1>5. CASE NaiveInsert \/ SortedAppend
  <2>1. UNCHANGED <<pc, batch, saved>>
    BY <1>5 DEF NaiveInsert, SortedAppend
  <2>2. leaves \in Seq(Leaf) /\ \E i, y, x : leaves' = Append([leaves EXCEPT ![i] = y], x)
    BY <1>5 DEF NaiveInsert, SortedAppend, TreeInv, TypeOK
  <2>3. leaves' # <<>>
    BY <2>2, AppendedNotEmpty
  <2> QED
    BY <2>1, <2>3 DEF EmptyInv
<1>6. CASE NaiveReject \/ SortedReject \/ EndRecompute \/ \E i \in modified : HashPanic(i)
  <2>1. UNCHANGED <<leaves, nodes, saved>> /\ pc' = "idle"
    BY <1>6 DEF NaiveReject, SortedReject, Fail, EndRecompute, HashPanic, Return, Tree
  <2> QED
    BY <2>1 DEF EmptyInv
<1>7. CASE BeginRecompute
  <2>1. pos > Len(batch) /\ pc \in {"naive", "sorted"} /\ pc' = "recompute" /\ UNCHANGED <<leaves, saved>>
    BY <1>7 DEF BeginRecompute
  <2>2. batch # <<>> /\ Len(batch) \in Nat /\ Len(batch) # 0
    BY <2>1 DEF EmptyInv, TreeInv, TypeOK
  <2>3. pos # 1
    BY <2>1, <2>2
  <2> QED
    BY <2>1, <2>3 DEF EmptyInv
<1>8. CASE NextLevel \/ \E i \in modified : HashNode(i)
  <2>1. UNCHANGED <<leaves, pc, batch, saved>> /\ pc = "recompute"
    BY <1>8 DEF NextLevel, HashNode, Tree
  <2> QED
    BY <2>1 DEF EmptyInv
<1>9. CASE ExportState
  BY <1>9 DEF ExportState, EmptyInv, Tree, Writer
<1>10. CASE ImportState
  BY <1>10 DEF ImportState, EmptyInv, Writer
<1>11. CASE UNCHANGED vars
  BY <1>11 DEF vars, EmptyInv
<1> QED
  BY <1>1, <1>2, <1>3, <1>4, <1>5, <1>6, <1>7, <1>8, <1>9, <1>10, <1>11 DEF Next

\* Both invariants hold in every state of every behaviour.
LEMMA BothAlways == Spec => [](TreeInv /\ EmptyInv)
  BY TreeInit, TreeNext, EmptyInit, EmptyNext, PTL DEF Spec

\* So what ExportState returns is well formed.
LEMMA TreesAreWellFormed ==
  ASSUME TreeInv, EmptyInv
  PROVE  /\ WellFormed(leaves, nodes) /\ WellFormed(saved.leaves, saved.nodes)
         /\ 1 \in DOMAIN nodes
         /\ Depth(nodes) \in Nat /\ Depth(saved.nodes) \in Nat
         /\ Len(leaves) \in Nat /\ Len(saved.leaves) \in Nat
<1>1. Levels(nodes) /\ Levels(saved.nodes) /\ leaves \in Seq(Leaf) /\ saved.leaves \in Seq(Leaf)
  BY DEF TreeInv, TypeOK
<1>2. WellFormed(leaves, nodes) /\ WellFormed(saved.leaves, saved.nodes)
  BY <1>1 DEF TreeInv, EmptyInv, SavedInv, Paired, WellFormed
<1> QED
  BY <1>1, <1>2, LevelsAre DEF Depth

-----------------------------------------------------------------------------
\* Whatever operations a tree has been through, failed batches and imports among
\* them, what Export and ExportBinary write of it loads as that tree, and the
\* conversion of the one format gives the other.
THEOREM RoundTrip == Spec => []SnapshotRoundTrip
<1>1. TreeInv /\ EmptyInv => SnapshotRoundTrip
  <2> SUFFICES ASSUME TreeInv, EmptyInv PROVE SnapshotRoundTrip
    OBVIOUS
  <2> DEFINE h    == HeaderOf(Current)
             json == ExportJSON(Current, h, 7)
             tree == Loaded(leaves, nodes, 7)
  <2>1. Current = [leaves |-> leaves, nodes |-> nodes] /\ Current.leaves = leaves /\ Current.nodes = nodes
    BY DEF Current
  <2>2. h.depth = Depth(nodes) /\ h.leafCount = Len(leaves)
    BY <2>1 DEF HeaderOf
  <2>3. ImportJSON(json) = tree
    BY <2>1, <2>2, TreesAreWellFormed, JSONReads
  <2>4. ASSUME Fits(Current)
        PROVE  /\ ImportBinary(ExportBinary(Current, h, 7)) = tree
               /\ ConvertJSONToBinary(json) = ExportBinary(Current, h, 7)
    <3>1. (\A l \in DOMAIN nodes : Len(nodes[l]) < CountWord) /\ LaterHeader(h, leaves, nodes)
      <4>1. \A l \in DOMAIN nodes : Len(nodes[l]) < CountWord
        BY <2>1, <2>4 DEF Fits
      <4>2. Len(leaves) < CountWord
        BY <4>1, TreesAreWellFormed DEF WellFormed
      <4> QED
        BY <2>2, <4>1, <4>2, TreesAreWellFormed DEF LaterHeader
    <3>2. ImportBinary(ExportBinary(Current, h, 7)) = tree
      BY <2>1, <2>2, <3>1, TreesAreWellFormed, BinaryReads
    <3>3. tree # Failed /\ HeaderOf(tree) = h /\ tree.number = 7
      BY <2>1 DEF Loaded, Failed, HeaderOf
    <3>4. ConvertJSONToBinary(json) = ExportBinary(tree, h, 7)
      BY <2>3, <3>3 DEF ConvertJSONToBinary
    <3>5. ExportBinary(tree, h, 7) = ExportBinary(Current, h, 7)
      BY <2>1 DEF ExportBinary, Loaded
    <3> QED
      BY <3>2, <3>4, <3>5
  <2> QED
    BY <2>3, <2>4 DEF SnapshotRoundTrip
<1> QED
  BY <1>1, BothAlways, PTL

\* The locks ExportState, Root, Depth and LeafCount each take for themselves are
\* enough: whatever is inserted between them, a file is read as the tree its body
\* was taken from or not at all.
THEOREM RacedExports == Spec => []RacedExportIsWhole
<1>1. TreeInv /\ EmptyInv => RacedExportIsWhole
  <2> SUFFICES ASSUME TreeInv, EmptyInv, NEW h \in LaterHeaders
               PROVE  LET whole == Loaded(saved.leaves, saved.nodes, 7)
                          json  == ExportJSON(saved, h, 7) IN
                      /\ ImportJSON(json) \in {Failed, whole}
                      /\ (Fits(saved) /\ h.leafCount < CountWord) =>
                           /\ ImportBinary(ExportBinary(saved, h, 7)) \in {Failed, whole}
                           /\ ImportJSON(json) = whole => ImportBinary(ConvertJSONToBinary(json)) = whole
    BY DEF RacedExportIsWhole
  <2> DEFINE ls    == saved.leaves
             ns    == saved.nodes
             body  == [leaves |-> ls, nodes |-> ns]
             whole == Loaded(ls, ns, 7)
             json  == ExportJSON(saved, h, 7)
  <2>1. ExportJSON(saved, h, 7) = ExportJSON(body, h, 7) /\ ExportBinary(saved, h, 7) = ExportBinary(body, h, 7)
    BY DEF ExportJSON, ExportBinary
  <2>2. WellFormed(ls, ns) /\ Depth(ns) \in Nat /\ Len(ls) \in Nat /\ Depth(nodes) \in Nat /\ Len(leaves) \in Nat
    BY TreesAreWellFormed
  <2>3. h.depth \in Nat /\ h.leafCount \in Nat /\ h.depth >= Depth(ns) /\ h.leafCount >= Len(ls)
    BY <2>2 DEF LaterHeaders
  <2>4. ImportJSON(json) \in {Failed, whole}
    BY <2>1, <2>2, JSONReads
  <2>5. ASSUME Fits(saved), h.leafCount < CountWord
        PROVE  /\ ImportBinary(ExportBinary(saved, h, 7)) \in {Failed, whole}
               /\ ImportJSON(json) = whole => ImportBinary(ConvertJSONToBinary(json)) = whole
    <3>1. \A l \in DOMAIN ns : Len(ns[l]) < CountWord
      BY <2>5 DEF Fits
    <3>2. LaterHeader(h, ls, ns)
      BY <2>3, <2>5 DEF LaterHeader
    <3>3. ImportBinary(ExportBinary(saved, h, 7)) \in {Failed, whole}
      BY <2>1, <2>2, <3>1, <3>2, BinaryReads
    <3>4. ASSUME ImportJSON(json) = whole PROVE ImportBinary(ConvertJSONToBinary(json)) = whole
      <4> DEFINE g == HeaderOf(whole)
      <4>1. whole # Failed /\ g.depth = Depth(ns) /\ g.leafCount = Len(ls) /\ whole.number = 7
        BY DEF Loaded, Failed, HeaderOf
      <4>2. ConvertJSONToBinary(json) = ExportBinary(whole, g, 7)
        BY <3>4, <4>1 DEF ConvertJSONToBinary
      <4>3. ExportBinary(whole, g, 7) = ExportBinary(body, g, 7)
        BY DEF ExportBinary, Loaded
      <4>4. LaterHeader(g, ls, ns)
        BY <2>2, <2>3, <2>5, <4>1, CountWordAssumption DEF LaterHeader
      <4> HIDE DEF g
      <4>5. ImportBinary(ExportBinary(body, g, 7)) = whole
        BY <2>2, <3>1, <4>1, <4>4, BinaryReads
      <4> QED
        BY <4>2, <4>3, <4>5
    <3> QED
      BY <3>3, <3>4
  <2> QED
    BY <2>4, <2>5
<1> QED
  BY <1>1, BothAlways, PTL

\* A binary file that ends too early is an error at whatever byte it ends, and
\* loadSnapshot then keeps the tree it had.
THEOREM CutFiles == Spec => []CutFileRefused
<1>1. TreeInv /\ EmptyInv => CutFileRefused
  <2> SUFFICES ASSUME TreeInv, EmptyInv, Fits(Current), NEW old,
                      NEW file \in CutShort(ExportBinary(Current, HeaderOf(Current), 7))
               PROVE  LoadSnapshot(old, file) = old
    BY DEF CutFileRefused
  <2> DEFINE full == ExportBinary(Current, HeaderOf(Current), 7)
             d    == Len(nodes)
  <2>0. file \in CutShort(full)
    OBVIOUS
  <2>1. WellFormed(leaves, nodes) /\ Len(leaves) \in Nat /\ leaves \in Seq(Leaf)
    BY TreesAreWellFormed DEF WellFormed
  <2>2. /\ d \in Nat \ {0} /\ DOMAIN nodes = 1..d
        /\ \A l \in 1..d : IsRow(nodes[l]) /\ Len(nodes[l]) \in Nat /\ Len(nodes[l]) < CountWord
    BY <2>1, LevelsAre DEF WellFormed, Fits, Current
  <2>3. /\ full = [version |-> full.version, depth |-> full.depth, leafCount |-> full.leafCount,
                   number |-> full.number, root |-> full.root, levels |-> full.levels, leaves |-> full.leaves]
        /\ full.depth = d - 1 /\ full.leafCount = Len(leaves) /\ full.leaves = leaves
        /\ full.levels = [l \in 1..d |-> WrittenLevel(nodes[l])]
    <3>1. Len(leaves) < CountWord
      BY <2>1, <2>2 DEF WellFormed
    <3> QED
      BY <2>1, <2>2, <3>1, CountKept DEF ExportBinary, Current, HeaderOf, Depth, WrittenLevel
  <2>4. Len(full.levels) = d /\ full.levels \in Seq({full.levels[l] : l \in 1..d})
    BY <2>2, <2>3
  <2> HIDE DEF full, d
  <2>5. \/ \E k \in 0..(Len(full.leaves) - 1) : file = [full EXCEPT !.leaves = SubSeq(@, 1, k)]
        \/ \E l \in 0..(Len(full.levels) - 1) :
             file = [full EXCEPT !.leaves = <<>>, !.levels = SubSeq(@, 1, l)]
        \/ \E x \in {y \in (DOMAIN full.levels) \X (0..Len(leaves)) : y[2] < Len(full.levels[y[1]].entries)} :
             file = [full EXCEPT !.leaves = <<>>,
                                 !.levels = LastLevelCut(@, x[1], x[2])]
    BY <2>0 DEF CutShort
  <2>6. file.depth = d - 1 /\ file.leafCount = Len(leaves)
    BY <2>3, <2>5
  <2>7. ~Complete(file)
    <3>1. CASE \E k \in 0..(Len(full.leaves) - 1) : file = [full EXCEPT !.leaves = SubSeq(@, 1, k)]
      <4>1. PICK k \in 0..(Len(leaves) - 1) : file.leaves = SubSeq(leaves, 1, k)
        BY <2>3, <3>1
      <4>2. Len(file.leaves) = k
        BY <2>1, <4>1
      <4> QED
        BY <2>1, <2>6, <4>2 DEF Complete
    <3>2. CASE \E l \in 0..(Len(full.levels) - 1) :
                 file = [full EXCEPT !.leaves = <<>>, !.levels = SubSeq(@, 1, l)]
      <4>1. PICK l \in 0..(d - 1) : file.levels = SubSeq(full.levels, 1, l)
        BY <2>3, <2>4, <3>2
      <4>2. Len(file.levels) = l
        BY <2>4, <4>1
      <4> QED
        BY <2>2, <2>6, <4>2 DEF Complete
    <3>3. CASE \E x \in {y \in (DOMAIN full.levels) \X (0..Len(leaves)) : y[2] < Len(full.levels[y[1]].entries)} :
                 file = [full EXCEPT !.leaves = <<>>,
                                     !.levels = LastLevelCut(@, x[1], x[2])]
      <4>0. PICK x \in (1..d) \X (0..Len(leaves)) :
              /\ x[2] < Len(full.levels[x[1]].entries)
              /\ file.levels = LastLevelCut(full.levels, x[1], x[2])
        BY <2>3, <3>3
      <4>1. PICK m \in 1..d, n \in Nat :
              /\ n < Len(full.levels[m].entries)
              /\ file.levels = LastLevelCut(full.levels, m, n)
        <5>1. x[1] \in 1..d /\ x[2] \in Nat
          BY <2>1
        <5> QED
          BY <4>0, <5>1
      <4> DEFINE S == SubSeq(full.levels, 1, m)
      <4>2. Len(S) = m /\ DOMAIN S = 1..m /\ S[m] = full.levels[m] /\ S = [l \in 1..m |-> S[l]]
        BY <2>2, <2>4
      <4> DEFINE R == [count |-> S[m].count, entries |-> SubSeq(S[m].entries, 1, n)]
      <4>3. file.levels = [S EXCEPT ![m] = R]
        BY <4>1, <4>2 DEF LastLevelCut
      <4> HIDE DEF S, R
      <4>4. DOMAIN file.levels = 1..m /\ file.levels[m] = R
        BY <4>1, <4>2, <4>3
      <4>5. CASE m # d
        <5>1. file.levels = [l \in 1..m |-> file.levels[l]]
          BY <4>2, <4>3, <4>4
        <5>2. Len(file.levels) = m
          BY <5>1, <2>2
        <5>3. ~(m > d - 1)
          BY <2>2, <4>5
        <5> QED
          BY <2>6, <5>2, <5>3 DEF Complete
      <4>6. CASE m = d
        <5>1. S[m] = WrittenLevel(nodes[d]) /\ Len(S[m].entries) = Len(nodes[d]) /\ S[m].count = Len(nodes[d])
          BY <2>2, <2>3, <4>2, <4>6, LevelKept
        <5>2. file.levels[d].entries = SubSeq(S[m].entries, 1, n) /\ file.levels[d].count = Len(nodes[d])
          BY <4>4, <4>6, <5>1 DEF R
        <5>3. n < Len(nodes[d])
          BY <4>1, <4>2, <5>1
        <5>4. S[m].entries \in Seq({S[m].entries[i] : i \in DOMAIN nodes[d]})
          <6>1. S[m].entries = [i \in DOMAIN nodes[d] |-> Entry(nodes[d][i])]
            BY <5>1 DEF WrittenLevel
          <6>2. DOMAIN nodes[d] = 1..Len(nodes[d])
            BY <2>2 DEF IsRow
          <6> QED
            BY <2>2, <6>1, <6>2
        <5>5. Len(file.levels[d].entries) = n
          BY <5>1, <5>2, <5>3, <5>4
        <5>6. d \in 1..(file.depth + 1) /\ ~(n >= Len(nodes[d]))
          BY <2>2, <2>6, <5>3
        <5> QED
          BY <5>2, <5>5, <5>6 DEF Complete
      <4> QED
        BY <4>5, <4>6
    <3> QED
      BY <2>5, <3>1, <3>2, <3>3
  <2> QED
    BY <2>7 DEF LoadSnapshot, ImportBinary
<1> QED
  BY <1>1, BothAlways, PTL
=============================================================================
