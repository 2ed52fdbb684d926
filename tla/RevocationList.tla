--------------------------- MODULE RevocationList --------------------------
(***************************************************************************)
(* What the tree promises its callers: a list of distinct serial numbers   *)
(* that grows by batches, each batch in one step.  A batch is applied up   *)
(* to its first unacceptable value, whose error the caller gets.  The list *)
(* is in order of insertion because the root depends on that order.        *)
(***************************************************************************)
EXTENDS Naturals, Sequences

CONSTANT Batches

VARIABLES order,   \* the serial numbers in the tree, first inserted first
          err,     \* the outcome of the last operation
          clean,   \* no batch was cut short after it had changed the list
          stored   \* the last exported list

vars == <<order, err, clean, stored>>

Members == {order[i] : i \in DOMAIN order}

Init ==
  /\ order = <<>> /\ err = "ok" /\ clean = TRUE
  /\ stored = [order |-> <<>>, clean |-> TRUE]

\* The first k values of b are new, nonzero and distinct.
Insertable(b, k) ==
  \A i \in 1..k : b[i] # 0 /\ b[i] \notin Members /\ \A j \in 1..(i - 1) : b[j] # b[i]

\* The value a sorted batch compares its i-th value with, 0 in an empty list.
Before(b, i) == IF i > 1 THEN b[i - 1]
                ELSE IF order = <<>> THEN 0 ELSE order[Len(order)]

TailIsLargest == \A v \in Members : v <= order[Len(order)]

Ascending(b, k) == \A i \in 1..k : TailIsLargest /\ b[i] > Before(b, i)

\* A batch applied up to k. Only a list that was cut short before can make
\* the recomputation of the hashes panic.
Apply(b, k, e) ==
  /\ order' = order \o SubSeq(b, 1, k)
  /\ IF k = Len(b) THEN err' = "ok" \/ (~clean /\ err' = "panic") ELSE err' = e
  /\ clean' = (clean /\ k \in {0, Len(b)})
  /\ UNCHANGED stored

InsertMany(b) ==
  \E k \in 0..Len(b) :
    /\ Insertable(b, k)
    /\ k < Len(b) => ~Insertable(b, k + 1)
    /\ Apply(b, k, IF b[k + 1] = 0 THEN "ErrInsertZero" ELSE "ErrDuplicate")

InsertManySorted(b) ==
  \E k \in 0..Len(b) :
    /\ \A i \in DOMAIN b : b[i] # 0
    /\ Ascending(b, k)
    /\ k < Len(b) => ~Ascending(b, k + 1)
    /\ Apply(b, k, IF TailIsLargest /\ b[k + 1] = Before(b, k + 1) THEN "ErrDuplicate" ELSE "ErrUnsorted")

Refuse ==
  /\ err' \in {"ErrNoValues", "ErrInsertZero"}
  /\ UNCHANGED <<order, clean, stored>>

Export == stored' = [order |-> order, clean |-> clean] /\ UNCHANGED <<order, err, clean>>
Import == order' = stored.order /\ clean' = stored.clean /\ err' = "ok" /\ UNCHANGED stored

Next ==
  \/ \E b \in Batches \ {<<>>} : InsertMany(b) \/ InsertManySorted(b)
  \/ Refuse \/ Export \/ Import

Spec == Init /\ [][Next]_vars
=============================================================================
