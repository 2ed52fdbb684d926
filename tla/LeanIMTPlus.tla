---------------------------- MODULE LeanIMTPlus ----------------------------
(***************************************************************************)
(* The LeanIMT+ tree of server/internal/leanimt_plus as a state machine.   *)
(*                                                                         *)
(* A writer holds the mutex from Begin... to the action that returns, and  *)
(* every iteration of its loops is an action: one value of a batch, one    *)
(* node of a level (Go iterates over a map, so in any order).  Readers     *)
(* take the read lock: they see the tree in the states with pc = "idle".   *)
(* A batch that fails half way returns before the upper levels are         *)
(* recomputed; the tree keeps what the batch had written.                  *)
(***************************************************************************)
EXTENDS LeanIMT

CONSTANTS Values,   \* the serial numbers batches have, zero among them, but none below it
          Batches   \* the arguments of InsertMany and InsertManySorted

ASSUME ValuesAssumption  == Values \subseteq Nat
ASSUME BatchesAssumption == Batches \subseteq Seq(Values)

VARIABLES
  leaves,    \* t.leaves
  nodes,     \* t.nodes, nodes[1] being level 0
  pc,        \* where the writer that holds the lock is, "idle" when none does
  batch,     \* its argument
  pos,       \* the next value of the batch
  modified,  \* the indices it has to recompute: of leaves, then of a level
  parents,   \* `next` of recomputeLocked: the indices of the level above
  level,     \* the level being recomputed
  err,       \* the outcome of the last operation, "ok" for nil
  visible,   \* history: how many leaves there were when the lock was free
  clean,     \* history: no batch has failed after changing the tree
  saved      \* the last state returned by ExportState

vars == <<leaves, nodes, pc, batch, pos, modified, parents, level, err,
          visible, clean, saved>>

Tree   == <<leaves, nodes>>
Writer == <<batch, pos, modified, parents, level>>

-----------------------------------------------------------------------------
Init ==
  /\ leaves = <<>> /\ nodes = << <<>> >>
  /\ pc = "idle" /\ batch = <<>> /\ pos = 1
  /\ modified = {} /\ parents = {} /\ level = 0
  /\ err = "ok" /\ visible = 0 /\ clean = TRUE
  /\ saved = [leaves |-> <<>>, nodes |-> << <<>> >>, clean |-> TRUE]

\* The operation returns: the deferred Unlock runs and readers see the tree.
Return(e) ==
  /\ pc' = "idle" /\ err' = e
  /\ batch' = <<>> /\ pos' = 1 /\ modified' = {} /\ parents' = {} /\ level' = 0
  /\ visible' = Len(leaves')
  /\ UNCHANGED saved

\* An error return leaves the levels above what was modified out of date.
Fail(e) ==
  /\ UNCHANGED Tree
  /\ Return(e)
  /\ clean' = (clean /\ modified = {})

-----------------------------------------------------------------------------
(* Insert and InsertMany: insertBatchLocked.                               *)

NaiveError(v) ==
  CASE v = 0 -> "ErrInsertZero"
    [] v # 0 /\ leaves # <<>> /\ LowLeafIndexes(leaves, v) = {} -> "ErrLowLeafNotFound"
    [] /\ v # 0 /\ leaves # <<>> /\ LowLeafIndexes(leaves, v) # {}
       /\ leaves[LowLeafIndex(leaves, v) + 1].next = v -> "ErrDuplicate"
    [] OTHER -> "ok"

InsertMany(b) ==
  /\ pc = "idle" /\ b # <<>>
  /\ pc' = "naive" /\ batch' = b /\ pos' = 1
  /\ UNCHANGED <<Tree, modified, parents, level, err, visible, clean, saved>>

\* ErrNoValues, and for the sorted variant a zero anywhere in the batch: both
\* are returned before the lock is taken.
Refuse(b, sorted) ==
  /\ pc = "idle"
  /\ \/ b = <<>> /\ err' = "ErrNoValues"
     \/ sorted /\ (\E i \in DOMAIN b : b[i] = 0) /\ err' = "ErrInsertZero"
  /\ UNCHANGED <<Tree, Writer, pc, visible, clean, saved>>

\* The first value of an empty tree also creates the sentinel {0, v}.
NaiveFirst ==
  /\ pc = "naive" /\ pos <= Len(batch) /\ leaves = <<>>
  /\ NaiveError(batch[pos]) = "ok"
  /\ leaves' = <<IndexedLeaf(0, batch[pos]), IndexedLeaf(batch[pos], 0)>>
  /\ nodes' = [nodes EXCEPT ![1] = <<Commit(leaves'[1]), Commit(leaves'[2])>>]
  /\ modified' = {0, 1}
  /\ pos' = pos + 1
  /\ UNCHANGED <<pc, batch, parents, level, err, visible, clean, saved>>

\* Mutants: the new leaf is the last one; the low leaf keeps its next value, its
\* commitment, or the hashes above it.
NewLeafLast(low, v)        == IndexedLeaf(v, 0)
LinkedNot(low, v)          == low
WrittenNot(row, idx, leaf) == row
TouchedNew(lowIdx)         == {Len(leaves)}

\* The leaf appended for v, the low leaf pointed at it, the latter's commitment
\* in level 0 (writeLeafLocked), and the two indices to recompute.
NewLeaf(low, v)         == IndexedLeaf(v, low.next)
Linked(low, v)          == IndexedLeaf(low.value, v)
Written(row, idx, leaf) == [row EXCEPT ![idx + 1] = Commit(leaf)]
Touched(lowIdx)         == {Len(leaves), lowIdx}

NaiveInsert ==
  /\ pc = "naive" /\ pos <= Len(batch) /\ leaves # <<>>
  /\ NaiveError(batch[pos]) = "ok"
  /\ LET v      == batch[pos]
         lowIdx == LowLeafIndex(leaves, v)
         low    == leaves[lowIdx + 1]
     IN  /\ leaves' = Append([leaves EXCEPT ![lowIdx + 1] = Linked(low, v)], NewLeaf(low, v))
         /\ nodes' = [nodes EXCEPT
                        ![1] = Append(Written(@, lowIdx, Linked(low, v)), Commit(NewLeaf(low, v)))]
         /\ modified' = modified \cup Touched(lowIdx)
  /\ pos' = pos + 1
  /\ UNCHANGED <<pc, batch, parents, level, err, visible, clean, saved>>

NaiveReject ==
  /\ pc = "naive" /\ pos <= Len(batch)
  /\ NaiveError(batch[pos]) # "ok"
  /\ Fail(NaiveError(batch[pos]))

-----------------------------------------------------------------------------
(* InsertManySorted: no scan, and each commitment hashed once, when the    *)
(* next value is known.  The tail's slot is nil in between.                *)

SortedError(v) ==
  LET tail == leaves[Len(leaves)] IN
  CASE tail.next # 0 -> "ErrUnsorted"
    [] tail.next = 0 /\ v = tail.value -> "ErrDuplicate"
    [] tail.next = 0 /\ v < tail.value -> "ErrUnsorted"
    [] OTHER -> "ok"

InsertManySorted(b) ==
  /\ pc = "idle" /\ b # <<>> /\ \A i \in DOMAIN b : b[i] # 0
  /\ pc' = "sorted" /\ batch' = b
  /\ IF leaves = <<>>
       THEN /\ leaves' = <<IndexedLeaf(0, b[1]), IndexedLeaf(b[1], 0)>>
            /\ nodes' = [nodes EXCEPT ![1] = <<Commit(leaves'[1]), Nil>>]
            /\ modified' = {0, 1} /\ pos' = 2
       ELSE /\ UNCHANGED Tree
            /\ modified' = {} /\ pos' = 1
  /\ UNCHANGED <<parents, level, err, visible, clean, saved>>

SortedAppend ==
  /\ pc = "sorted" /\ pos <= Len(batch)
  /\ SortedError(batch[pos]) = "ok"
  /\ LET v      == batch[pos]
         n      == Len(leaves)
         linked == Linked(leaves[n], v)
     IN  /\ leaves' = Append([leaves EXCEPT ![n] = linked], IndexedLeaf(v, 0))
         /\ nodes' = [nodes EXCEPT ![1] = Append(Written(@, n - 1, linked), Nil)]
         /\ modified' = modified \cup {n - 1, n}
  /\ pos' = pos + 1
  /\ UNCHANGED <<pc, batch, parents, level, err, visible, clean, saved>>

SortedReject ==
  /\ pc = "sorted" /\ pos <= Len(batch)
  /\ SortedError(batch[pos]) # "ok"
  /\ Fail(SortedError(batch[pos]))

-----------------------------------------------------------------------------
(* recomputeLocked: level by level, the ancestors of the modified leaves.  *)

Grown ==
  [l \in 1..(IF Len(nodes) > TargetDepth(Len(nodes[1])) + 1
               THEN Len(nodes) ELSE TargetDepth(Len(nodes[1])) + 1) |->
     IF l <= Len(nodes) THEN nodes[l] ELSE <<>>]

\* Mutant: a parent index counted from one.
ParentOneBased(i) == (i - 1) \div 2

Parent(i) == i \div 2

\* Mutant: the last leaf of a sorted batch is left without a commitment.
TailUnhashedNever == FALSE

TailUnhashed == pc = "sorted" /\ nodes[1][Len(leaves)] = Nil

\* The value loop is over: the sorted variant hashes its tail if that is still
\* nil, and missing levels are added.
BeginRecompute ==
  /\ pc \in {"naive", "sorted"} /\ pos > Len(batch)
  /\ nodes' = LET n == Len(leaves) IN
              IF TailUnhashed THEN [Grown EXCEPT ![1][n] = Commit(leaves[n])] ELSE Grown
  /\ pc' = "recompute" /\ level' = 1
  /\ modified' = {Parent(i) : i \in modified}
  /\ parents' = {}
  /\ UNCHANGED <<leaves, batch, pos, err, visible, clean, saved>>

Left(i)  == SlotAt(nodes[level], 2 * i)
Right(i) == SlotAt(nodes[level], 2 * i + 1)

\* One node; a left child without a sibling is promoted unchanged.
HashNode(i) ==
  /\ pc = "recompute" /\ i \in modified
  /\ ~(Left(i) = Nil /\ Right(i) # Nil)
  /\ LET h == IF Right(i) # Nil THEN Hash2(Left(i), Right(i)) ELSE Left(i)
     IN  nodes' = [nodes EXCEPT ![level + 1] = StoreAt(@, i, h)]
  /\ modified' = modified \ {i}
  /\ parents' = parents \cup {Parent(i)}
  /\ UNCHANGED <<leaves, pc, batch, pos, level, err, visible, clean, saved>>

\* Hash2 dereferences a nil operand: the panic unwinds through the deferred
\* Unlock, so the tree stays usable as it is.
HashPanic(i) ==
  /\ pc = "recompute" /\ i \in modified
  /\ Left(i) = Nil /\ Right(i) # Nil
  /\ UNCHANGED Tree
  /\ Return("panic")
  /\ clean' = FALSE

\* Mutant: the loop does not count up.
NextLevelStuck ==
  /\ pc = "recompute" /\ modified = {} /\ level < TargetDepth(Len(nodes[1]))
  /\ modified' = parents /\ parents' = {}
  /\ UNCHANGED <<Tree, pc, batch, pos, level, err, visible, clean, saved>>

NextLevel ==
  /\ pc = "recompute" /\ modified = {} /\ level < TargetDepth(Len(nodes[1]))
  /\ level' = level + 1 /\ modified' = parents /\ parents' = {}
  /\ UNCHANGED <<Tree, pc, batch, pos, err, visible, clean, saved>>

EndRecompute ==
  /\ pc = "recompute" /\ modified = {} /\ level >= TargetDepth(Len(nodes[1]))
  /\ UNCHANGED Tree
  /\ Return("ok")
  /\ UNCHANGED clean

-----------------------------------------------------------------------------
(* ExportState and ImportState: deep copies.  Import trusts the hashes and *)
(* the order of what it is given, here a state exported before.            *)

ExportState ==
  /\ pc = "idle"
  /\ saved' = [leaves |-> leaves, nodes |-> nodes, clean |-> clean]
  /\ UNCHANGED <<Tree, Writer, pc, err, visible, clean>>

ImportState ==
  /\ pc = "idle"
  /\ leaves' = saved.leaves /\ nodes' = saved.nodes /\ clean' = saved.clean
  /\ visible' = Len(saved.leaves) /\ err' = "ok"
  /\ UNCHANGED <<Writer, pc, saved>>

Next ==
  \/ \E b \in Batches : InsertMany(b) \/ InsertManySorted(b) \/ Refuse(b, TRUE) \/ Refuse(b, FALSE)
  \/ NaiveFirst \/ NaiveInsert \/ NaiveReject
  \/ SortedAppend \/ SortedReject
  \/ BeginRecompute
  \/ \E i \in modified : HashNode(i) \/ HashPanic(i)
  \/ NextLevel \/ EndRecompute
  \/ ExportState \/ ImportState

\* The writer is a goroutine that never blocks while it holds the lock.
Progress == 
  \/ NaiveFirst \/ NaiveInsert \/ NaiveReject \/ SortedAppend \/ SortedReject
  \/ BeginRecompute \/ NextLevel \/ EndRecompute
  \/ \E i \in modified : HashNode(i) \/ HashPanic(i)

Spec == Init /\ [][Next]_vars
FairSpec == Spec /\ WF_vars(Progress)

-----------------------------------------------------------------------------
(* Properties.                                                             *)

IsSlot(s)  == s.kind \in {"nil", "leaf", "node"}
IsRow(row) == row \in Seq({row[i] : i \in DOMAIN row}) /\ \A i \in DOMAIN row : IsSlot(row[i])

Levels(ns) ==
  ns \in Seq({ns[l] : l \in DOMAIN ns}) /\ ns # <<>> /\ \A l \in DOMAIN ns : IsRow(ns[l])

Leaf == [value : Nat, next : Nat]

\* The types of the variables.
TypeOK ==
  /\ leaves \in Seq(Leaf) /\ Levels(nodes)
  /\ saved.leaves \in Seq(Leaf) /\ Levels(saved.nodes)
  /\ pc \in {"idle", "naive", "sorted", "recompute"}
  /\ batch \in Seq(Nat) /\ pos \in Nat \ {0} /\ level \in Nat
  /\ modified \subseteq Nat /\ parents \subseteq Nat
  /\ err \in {"ok", "panic", "ErrNoValues", "ErrInsertZero", "ErrDuplicate",
              "ErrUnsorted", "ErrLowLeafNotFound"}
  /\ visible \in Nat /\ clean \in BOOLEAN
  /\ saved = [leaves |-> saved.leaves, nodes |-> saved.nodes, clean |-> saved.clean]
  /\ saved.clean \in BOOLEAN

\* ls[i].next is the smallest value of the list above ls[i].value, 0 if there is none.
NextIsSuccessor(ls, i) ==
  \/ ls[i].next = 0 /\ \A j \in DOMAIN ls : ls[j].value <= ls[i].value
  \/ \E j \in DOMAIN ls :
       /\ ls[i].next = ls[j].value /\ ls[i].value < ls[j].value
       /\ \A k \in DOMAIN ls : ~(ls[i].value < ls[k].value /\ ls[k].value < ls[j].value)

LinkedList(ls) ==
  ls # <<>> =>
    /\ ls[1].value = 0
    /\ \A i, j \in DOMAIN ls : i # j => ls[i].value # ls[j].value
    /\ \A i \in DOMAIN ls : NextIsSuccessor(ls, i)

\* The leaves are a linked list in value order over the sentinel and the
\* members: distinct values, each next value the successor, 0 at the largest
\* only. It holds inside a batch and after one that failed (leaf.go's
\* "implicit sorted linked list").
IndexedList == LinkedList(leaves)

\* findLowLeafIndexLocked has exactly one answer for every positive serial, so
\* the scan's choice of the first candidate does not matter, and none for a
\* negative one, which readers may ask for: ErrLowLeafNotFound, "invariant
\* violated", is the answer to those and to no other.
OneLowLeaf ==
  leaves # <<>> =>
    \A v \in Values \ {0} :
      /\ \E i \in DOMAIN leaves : LowLeafIndexes(leaves, v) = {i - 1}
      /\ LowLeafIndexes(leaves, -v) = {}

\* Level 0 never holds the commitment of anything but the leaf beside it; the
\* slot may be nil only inside a sorted batch or after one that failed.
LevelZeroPaired ==
  /\ Len(nodes[1]) = Len(leaves)
  /\ \A i \in DOMAIN leaves :
       \/ nodes[1][i] = Commit(leaves[i])
       \/ nodes[1][i] = Nil /\ (pc = "sorted" \/ ~clean)

-----------------------------------------------------------------------------
(* The hash tree the literature defines, to compare the levels with: a     *)
(* subtree over leaves lo+1 .. hi splits at the largest power of two below *)
(* its size.                                                               *)

CeilLog2(n) == CHOOSE d \in 0..n : 2^d >= n /\ \A e \in 0..n : 2^e >= n => d <= e

Split(n) == 2^(CeilLog2(n) - 1)

\* The hash over leaves lo+1 .. hi, given those of the smaller spans.
SpanHash(ls, tree, lo, hi) ==
  LET mid == lo + Split(hi - lo) IN
  IF hi <= lo + 1 THEN Commit(ls[lo + 1]) ELSE Hash2(tree[<<lo, mid>>], tree[<<mid, hi>>])

Subtree(ls) ==
  LET tree[span \in (0..Len(ls)) \X (0..Len(ls))] == SpanHash(ls, tree, span[1], span[2])
  IN  tree

\* How many nodes level l has, and where the leaves below node i of it end.
Width(n, l)    == (n + 2^l - 1) \div 2^l
Upper(n, i, l) == IF (i + 1) * 2^l < n THEN (i + 1) * 2^l ELSE n

ReferenceNodes(ls) ==
  LET n == Len(ls)
      tree == Subtree(ls)
  IN  [l \in 1..(CeilLog2(n) + 1) |->
         [i \in 1..Width(n, l - 1) |-> tree[<<(i - 1) * 2^(l - 1), Upper(n, i - 1, l - 1)>>]]]

idle == pc = "idle"

\* While no batch has failed, every level a reader sees is the one the leaves
\* determine: incremental recomputation of the modified paths loses nothing,
\* whatever mix of naive and sorted batches and imports came before.
MerkleConsistent ==
  idle /\ clean /\ leaves # <<>> => nodes = ReferenceNodes(leaves)

IsMember(v) == v # 0 /\ \E i \in DOMAIN leaves : leaves[i].value = v

\* While no batch has failed, a proof can be generated for every positive
\* serial, it verifies, and it is a membership proof exactly for the members.
ProofsComplete ==
  idle /\ clean /\ leaves # <<>> =>
    \A v \in Values \ {0} :
      LET p == GenerateProof(leaves, nodes, v) IN
      /\ p.type = IF IsMember(v) THEN "membership" ELSE "nonmembership"
      /\ VerifyProof(p)

\* No proof assembled from other parts verifies against the root for a claim
\* that is false: any claimed type and value, any leaf pair, the path of any
\* position with any of its directions flipped.
ProofsSound ==
  idle /\ clean /\ leaves # <<>> =>
    \A v \in Values \ {0}, t \in {"membership", "nonmembership"},
       claimed \in [value : Values, next : Values], phys \in 0..(Len(leaves) - 1) :
      LET path == PathOf(nodes, phys) IN
      \A dirs \in [1..Len(path) -> BOOLEAN] :
        VerifyProof([type |-> t, root |-> RootOf(leaves, nodes), value |-> v, leaf |-> claimed,
                     path |-> [k \in 1..Len(path) |-> [path[k] EXCEPT !.right = dirs[k]]]])
          => (t = "membership") = IsMember(v)

\* A tree no batch has damaged never hands a nil operand to Hash2, so only a
\* batch after a failed one can panic.
OperandsPresent ==
  pc = "recompute" /\ clean => \A i \in modified : Left(i) # Nil

\* README "Depth: dynamic, ceil(log2(leafCount))", as Status reports the two.
DepthIsCeilLog2 ==
  idle /\ leaves # <<>> => Depth(nodes) = CeilLog2(Len(leaves))

\* Every batch that takes the lock returns and releases it.
WriterReturns == (pc # "idle") ~> (pc = "idle")

\* To a caller that only sees the tree with the lock free, each batch is one
\* step of the abstract list, failed batches included.
UserValues(ls, n) == [i \in 1..(IF n = 0 THEN 0 ELSE n - 1) |-> ls[i + 1].value]

List == INSTANCE RevocationList WITH
  order  <- UserValues(leaves, visible),
  stored <- [order |-> UserValues(saved.leaves, Len(saved.leaves)), clean |-> saved.clean]

ImplementsList == List!Spec
=============================================================================
