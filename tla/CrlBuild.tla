------------------------------ MODULE CrlBuild -----------------------------
(***************************************************************************)
(* From the serial numbers of a CRL to its tree: what the watcher's        *)
(* fetchAndRebuild and leanimt-plus-build do with them.  The serials are   *)
(* cleaned by DedupAndSortSerials and go into a new tree as one sorted     *)
(* batch; when nothing is left the tree stays empty.  LeanIMTPlus is the   *)
(* tree.                                                                   *)
(***************************************************************************)
EXTENDS LeanIMTPlus, Functions

CONSTANTS CRLs,       \* the lists of serials that are tried
          NilSerial   \* a nil *big.Int in such a list

ASSUME CRLsAssumption == CRLs \subseteq Seq(Int \cup {NilSerial}) /\ NilSerial \notin Int

VARIABLES serials,   \* parsed.RevokedSerials
          built      \* whether the batch has been given to the tree

buildVars == <<vars, serials, built>>

Positive(s) == s # NilSerial /\ s > 0

\* What is positive, in the order of the list.
Positives(list) ==
  LET out[i \in 0..Len(list)] ==
        IF i = 0 THEN <<>>
        ELSE IF Positive(list[i]) THEN Append(out[i - 1], list[i]) ELSE out[i - 1]
  IN  out[Len(list)]

\* sort.Slice: the elements rearranged. Equal ones are the same number, so it does
\* not matter that the sort is not stable.
Rearrangements(list) ==
  {[i \in DOMAIN list |-> list[p[i]]] : p \in Bijection(DOMAIN list, DOMAIN list)}

Sorted(list) ==
  CHOOSE out \in Rearrangements(list) : \A i, j \in DOMAIN list : i < j => out[i] <= out[j]

\* out[i] is kept when it differs from the last one kept.
Compact(out, s) == IF out # <<>> /\ out[Len(out)] = s THEN out ELSE Append(out, s)

Compacted(list) ==
  LET out[i \in 0..Len(list)] == IF i = 0 THEN <<>> ELSE Compact(out[i - 1], list[i])
  IN  out[Len(list)]

\* Mutants: duplicates stay; the last element is cut off with them.
DedupAndSortSerialsAll(list)   == Sorted(Positives(list))
DedupAndSortSerialsShort(list) ==
  LET out == Compacted(Sorted(Positives(list)))
  IN  SubSeq(out, 1, IF Len(out) <= 1 THEN Len(out) ELSE Len(out) - 1)

DedupAndSortSerials(list) == Compacted(Sorted(Positives(list)))

BuildInit == Init /\ serials \in CRLs /\ built = FALSE

\* The call of InsertManySorted, made only when a serial is left.
Build ==
  /\ ~built /\ built' = TRUE
  /\ LET list == DedupAndSortSerials(serials) IN
     IF list = <<>> THEN UNCHANGED vars
     ELSE InsertManySorted(list) \/ Refuse(list, TRUE)
  /\ UNCHANGED serials

Insert == Progress /\ UNCHANGED <<serials, built>>

BuildNext == Build \/ Insert

BuildSpec == BuildInit /\ [][BuildNext]_buildVars

-----------------------------------------------------------------------------
(* Properties.                                                             *)

Built == built /\ pc = "idle"

Revoked == {serials[i] : i \in {j \in DOMAIN serials : Positive(serials[j])}}

\* No list of serials makes the insertion fail, so a fetch that could be parsed
\* always leads to a new tree: zero, negative and repeated serials included.
BuildSucceeds == err = "ok"

\* The ascending enumeration of a finite set of numbers.
InOrder(S) ==
  CHOOSE s \in [1..Cardinality(S) -> S] : \A i, j \in DOMAIN s : i < j => s[i] < s[j]

\* The leaves over the sentinel and such an enumeration.
LeavesOver(s) ==
  [k \in 1..(Len(s) + 1) |->
     IndexedLeaf(IF k = 1 THEN 0 ELSE s[k - 1], IF k > Len(s) THEN 0 ELSE s[k])]

\* The root depends on the set of revoked serials only: whatever their order
\* and repetitions in the CRL, the tree is the reference tree over the
\* sentinel and the sorted set.
RootOfTheSet ==
  Built => IF Revoked = {} THEN RootOf(leaves, nodes) = Nil
           ELSE nodes = ReferenceNodes(LeavesOver(InOrder(Revoked)))
=============================================================================
