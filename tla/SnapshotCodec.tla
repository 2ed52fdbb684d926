---------------------------- MODULE SnapshotCodec ---------------------------
(***************************************************************************)
(* The two snapshot formats: the binary one, which WASM clients load, and  *)
(* the JSON one, which servers load.                                       *)
(*                                                                         *)
(* An export takes the body (levels and leaves) from ExportState and reads *)
(* the header's depth, leaf count and root afterwards, each under a lock   *)
(* of its own, so they may be those of a later state of the tree.  A file  *)
(* is the record of its fields; a value read from 32 bytes or a hex string *)
(* is never nil, and Zero is the digest slot that holds the number 0.      *)
(* Depth has 16 bits and a CRL number 64, which a tree cannot outgrow and  *)
(* the server has cut the number to; counts have 32 bits.                  *)
(***************************************************************************)
EXTENDS LeanIMTPlus

CONSTANT CountWord   \* uint32 holds counts below this

ASSUME CountWordAssumption == CountWord \in Nat \ {0, 1}

Zero   == [kind |-> "zero"]
Failed == [err |-> "error"]

\* A tree as the importers return it, with the CRL number of the file.
Loaded(ls, ns, number) == [leaves |-> ls, nodes |-> ns, number |-> number]

NewTree(number) == Loaded(<<>>, << <<>> >>, number)

\* A header read while the tree was t.
HeaderOf(t) == [depth |-> Depth(t.nodes), leafCount |-> Len(t.leaves), root |-> RootOf(t.leaves, t.nodes)]

\* ImportState, into a new tree: the lengths it checks, then deep copies.
ImportNew(ns, ls, number) ==
  IF ns = <<>> \/ Len(ns[1]) # Len(ls) THEN Failed ELSE Loaded(ls, ns, number)

-----------------------------------------------------------------------------
(* The binary format.                                                      *)

Uint32(n) == n % CountWord

\* bigTo32: nil and zero are both 32 zero bytes; FromBytes never gives a nil.
BigTo32(slot) == IF slot = Nil THEN Zero ELSE slot

\* Mutant: every entry is written as present.
EntryPresent(slot) == [present |-> 1, hash |-> BigTo32(slot)]

Entry(slot)  == [present |-> IF slot # Nil THEN 1 ELSE 0, hash |-> BigTo32(slot)]
SlotOf(e)    == IF e.present = 1 THEN e.hash ELSE Nil

ExportBinary(body, header, number) ==
  [version   |-> 2,
   depth     |-> header.depth,
   leafCount |-> Uint32(header.leafCount),
   number    |-> number,
   root      |-> BigTo32(header.root),
   levels    |-> [l \in DOMAIN body.nodes |->
                    [count   |-> Uint32(Len(body.nodes[l])),
                     entries |-> [i \in DOMAIN body.nodes[l] |-> Entry(body.nodes[l][i])]]],
   leaves    |-> body.leaves]

\* Every ReadFull succeeds: depth+1 levels of as many entries as they announce, and
\* leafCount leaves. Where a level is announced and missing, its count is read
\* out of the leaves, which then fall short by those bytes.
Complete(file) ==
  /\ Len(file.levels) > file.depth
  /\ \A l \in 1..(file.depth + 1) : Len(file.levels[l].entries) >= file.levels[l].count
  /\ Len(file.leaves) >= file.leafCount

Slots(l) == [i \in 1..l.count |-> SlotOf(l.entries[i])]

\* Mutant: the end of the file ends a level or the leaves, without an error.
ImportBinaryLenient(file) ==
  IF file.leafCount = 0 THEN NewTree(file.number)
  ELSE Loaded(file.leaves,
              [l \in 1..(file.depth + 1) |->
                 IF l \in DOMAIN file.levels
                   THEN [i \in DOMAIN file.levels[l].entries |-> SlotOf(file.levels[l].entries[i])]
                   ELSE <<>>],
              file.number)

\* The root of the header is not read, and bytes after the last leaf are not
\* either. (Of a level or a header that announces less than there is, the next
\* record is read out of step; counts that fit never do.)
ImportBinary(file) ==
  IF file.version # 2 \/ ~Complete(file) THEN Failed
  ELSE IF file.leafCount = 0 THEN NewTree(file.number)
  ELSE ImportNew([l \in 1..(file.depth + 1) |-> Slots(file.levels[l])],
                 SubSeq(file.leaves, 1, file.leafCount), file.number)

\* WASM loadSnapshot: the package variable tree changes only on success.
LoadSnapshot(tree, file) ==
  IF ImportBinary(file) = Failed THEN tree ELSE ImportBinary(file)

-----------------------------------------------------------------------------
(* The JSON format.                                                        *)

\* hexenc.Encode of a digest: nil and zero are both "0x0". A nil slot is the
\* empty string instead, which hexenc.Decode refuses.
EncodeHex(slot) == IF slot = Nil THEN Zero ELSE slot
Empty           == [kind |-> "empty"]

EncodeSlot(slot) == IF slot = Nil THEN Empty ELSE EncodeHex(slot)
DecodeSlot(text) == IF text = Empty THEN Nil ELSE text

ExportJSON(body, header, number) ==
  [version   |-> 2,
   root      |-> EncodeHex(header.root),
   depth     |-> header.depth,
   leafCount |-> header.leafCount,
   size      |-> IF header.leafCount = 0 THEN 0 ELSE header.leafCount - 1,
   number    |-> number,
   nodes     |-> [l \in DOMAIN body.nodes |->
                    [i \in DOMAIN body.nodes[l] |-> EncodeSlot(body.nodes[l][i])]],
   leaves    |-> body.leaves]

\* Of the header only version and depth are checked against the body.
ImportJSON(file) ==
  IF \/ file.version # 2
     \/ file.nodes # <<>> /\ file.depth # Len(file.nodes) - 1
    THEN Failed
  ELSE IF file.leaves = <<>> THEN NewTree(file.number)
  ELSE ImportNew([l \in DOMAIN file.nodes |->
                    [i \in DOMAIN file.nodes[l] |-> DecodeSlot(file.nodes[l][i])]],
                 file.leaves, file.number)

\* Mutant: the header is copied from the JSON file.
ConvertJSONToBinaryHeader(file) ==
  LET t == ImportJSON(file)
      header == [depth |-> file.depth, leafCount |-> file.leafCount, root |-> file.root]
  IN  IF t = Failed THEN Failed ELSE ExportBinary(t, header, t.number)

\* --convert-binary: the header is that of the imported tree.
ConvertJSONToBinary(file) ==
  LET t == ImportJSON(file) IN
  IF t = Failed THEN Failed ELSE ExportBinary(t, HeaderOf(t), t.number)

-----------------------------------------------------------------------------
(* Properties.                                                             *)

\* A tree whose counts fit the binary format's.
Fits(t) == \A l \in DOMAIN t.nodes : Len(t.nodes[l]) < CountWord

Current == [leaves |-> leaves, nodes |-> nodes]

\* An export of the tree at rest loads as that tree, in both formats and through
\* the conversion: every slot that a failed batch has left nil stays nil, and
\* levels a failed batch has not grown stay missing.
SnapshotRoundTrip ==
  idle =>
    LET tree == Loaded(leaves, nodes, 7)
        json == ExportJSON(Current, HeaderOf(Current), 7)
    IN  /\ ImportJSON(json) = tree
        /\ Fits(Current) =>
             /\ ImportBinary(ExportBinary(Current, HeaderOf(Current), 7)) = tree
             /\ ConvertJSONToBinary(json) = ExportBinary(Current, HeaderOf(Current), 7)

\* The headers an export can write that took its body from `saved` while the
\* tree, which only grows, went on to the current state.
LaterHeaders ==
  [depth     : Depth(saved.nodes)..Depth(nodes),
   leafCount : Len(saved.leaves)..Len(leaves),
   root      : {RootOf(saved.leaves, saved.nodes), RootOf(leaves, nodes)}]

\* An export that races with insertions is refused on import or loads as the
\* very tree its body was taken from: never levels of one state with leaves or
\* depth of another. What JSON accepts, the conversion makes a good binary of.
RacedExportIsWhole ==
  idle =>
    LET whole == Loaded(saved.leaves, saved.nodes, 7) IN
    \A h \in LaterHeaders :
      LET json == ExportJSON(saved, h, 7) IN
      /\ ImportJSON(json) \in {Failed, whole}
      /\ (Fits(saved) /\ h.leafCount < CountWord) =>
           /\ ImportBinary(ExportBinary(saved, h, 7)) \in {Failed, whole}
           /\ ImportJSON(json) = whole => ImportBinary(ConvertJSONToBinary(json)) = whole

\* The first l levels, with n entries left of the last one.
LastLevelCut(levels, l, n) ==
  [SubSeq(levels, 1, l) EXCEPT
     ![l] = [count |-> levels[l].count, entries |-> SubSeq(levels[l].entries, 1, n)]]

\* What is left of a binary file cut short after its header: whole levels, a
\* level without its last entries, leaves.
CutShort(file) ==
  {[file EXCEPT !.leaves = SubSeq(@, 1, k)] : k \in 0..(Len(file.leaves) - 1)} \cup
  {[file EXCEPT !.leaves = <<>>, !.levels = SubSeq(@, 1, l)] : l \in 0..(Len(file.levels) - 1)} \cup
  {[file EXCEPT !.leaves = <<>>,
                !.levels = LastLevelCut(@, x[1], x[2])] :
     x \in {y \in (DOMAIN file.levels) \X (0..Len(leaves)) : y[2] < Len(file.levels[y[1]].entries)}}

\* A binary snapshot cut short after its header is refused (a cut within an entry
\* fails ReadFull as one before it does), and a client that had loaded another one
\* keeps it.
CutFileRefused ==
  idle /\ Fits(Current) =>
    LET old == Loaded(saved.leaves, saved.nodes, 3) IN
    \A file \in CutShort(ExportBinary(Current, HeaderOf(Current), 7)) : LoadSnapshot(old, file) = old
=============================================================================
