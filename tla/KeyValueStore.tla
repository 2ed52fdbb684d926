--------------------------- MODULE KeyValueStore ---------------------------
(***************************************************************************)
(* The two implementations of store.Store, which differ in what a batch    *)
(* keeps and how it is flushed.  MemoryStore's batch keeps the slices it   *)
(* is given and is applied under the store's lock; BadgerStore's copies    *)
(* them and goes through a WriteBatch of the library, which commits as     *)
(* many transactions as the size needs, so that readers and a crash can    *)
(* see a part of it.                                                       *)
(*                                                                         *)
(* A slice is a slot of heap: one of the caller's buffers, the one the     *)
(* store has for a key, the copy batch operation j has made.  Keys are     *)
(* kept and copied like values; only values are followed.                  *)
(***************************************************************************)
EXTENDS Naturals, Sequences

CONSTANTS
  Keys, Values,
  Buffers,   \* the slices of the callers
  Absent,    \* no value under a key; the value of a deletion
  MaxOps     \* bound: operations in the batch

ASSUME OpsAssumption == MaxOps \in Nat /\ Absent \notin Keys \cup Values \cup Buffers \cup 1..MaxOps

\* The slices are different ones.
ASSUME SlotsAssumption == Keys \cap Buffers = {} /\ (Keys \cup Buffers) \cap 1..MaxOps = {}

VARIABLES
  kind,      \* "memory", "badger": which store was opened
  heap,      \* what is in each slice
  data,      \* data[k]: the slice the store has under k
  ops,       \* the batch's operations: [key, slice]
  next,      \* the operation a flush will commit next; 0 outside a flush
  told,      \* what the caller knows of its batch: "none", "nil", "error"
  given,     \* history: the operations as they were passed: [key, value]
  others,    \* history: keys set or deleted outside the batch since its flush began
  reused     \* history: a slice of an unflushed memory batch was overwritten

batch == <<ops, next, told, given, reused>>
vars  == <<kind, heap, data, batch, others>>

Slots      == Keys \cup Buffers \cup 1..MaxOps
Content(k) == IF data[k] = Absent THEN Absent ELSE heap[data[k]]

Init ==
  /\ kind \in {"memory", "badger"}
  /\ \E v \in Values : heap = [s \in Slots |-> v]
  /\ data = [k \in Keys |-> Absent]
  /\ ops = <<>> /\ next = 0 /\ told = "none"
  /\ given = <<>> /\ others = {} /\ reused = FALSE

-----------------------------------------------------------------------------
(* The callers' own slices.                                                *)

Kept(b) == kind = "memory" /\ \E j \in DOMAIN ops : ops[j].slice = b

Write(b, v) ==
  /\ heap' = [heap EXCEPT ![b] = v]
  /\ reused' = (reused \/ Kept(b))
  /\ UNCHANGED <<kind, data, ops, next, told, given, others>>

\* Get returns a copy: a slice nobody else has.
Get(k, b) ==
  /\ data[k] # Absent /\ ~Kept(b)
  /\ heap' = [heap EXCEPT ![b] = Content(k)]
  /\ UNCHANGED <<kind, data, batch, others>>

-----------------------------------------------------------------------------
(* Single writes; one that fails changes nothing.                          *)

\* Mutant: the value is not copied.
SetAliased(k, b) ==
  /\ data' = [data EXCEPT ![k] = b] /\ heap' = heap
  /\ others' = others \cup {k}
  /\ UNCHANGED <<kind, batch>>

Set(k, b) ==
  /\ data' = [data EXCEPT ![k] = k] /\ heap' = [heap EXCEPT ![k] = heap[b]]
  /\ others' = others \cup {k}
  /\ UNCHANGED <<kind, batch>>

Delete(k) ==
  /\ data' = [data EXCEPT ![k] = Absent]
  /\ others' = others \cup {k}
  /\ UNCHANGED <<kind, heap, batch>>

-----------------------------------------------------------------------------
(* The batch. It can be filled again after a flush.                        *)

\* Mutant: badger's batch keeps the caller's slice too.
KeptSliceAliased(b) == b

\* Mutant: copies are numbered from zero.
KeptSliceZero(b) == IF kind = "memory" THEN b ELSE Len(ops)

\* The slice an operation refers to: the caller's, or a copy.
KeptSlice(b) == IF kind = "memory" THEN b ELSE Len(ops) + 1

BatchAdd(k, slice, value) ==
  /\ next = 0 /\ Len(ops) < MaxOps
  /\ ops' = Append(ops, [key |-> k, slice |-> slice])
  /\ given' = Append(IF ops = <<>> THEN <<>> ELSE given, [key |-> k, value |-> value])
  /\ told' = (IF ops = <<>> THEN "none" ELSE told)
  /\ reused' = (ops # <<>> /\ reused)
  /\ UNCHANGED <<kind, data, next, others>>

BatchSet(k, b) ==
  /\ BatchAdd(k, KeptSlice(b), heap[b])
  /\ heap' = [heap EXCEPT ![KeptSlice(b)] = heap[b]]

BatchDelete(k) == BatchAdd(k, Absent, Absent) /\ heap' = heap

\* Operations m to n in their order: the last one on a key decides.
Apply(m, n) ==
  LET On(k)   == {j \in m..n : ops[j].key = k}
      Last(k) == ops[CHOOSE j \in On(k) : \A l \in On(k) : l <= j].slice
  IN /\ data' = [k \in Keys |-> IF On(k) = {} THEN data[k] ELSE IF Last(k) = Absent THEN Absent ELSE k]
     /\ heap' = [s \in Slots |->
                   IF s \in Keys /\ On(s) # {} /\ Last(s) # Absent THEN heap[Last(s)] ELSE heap[s]]

\* An empty batch is flushed without effect.
Outside == IF ops = <<>> THEN others ELSE {}

\* memoryBatch.Flush: one lock around the loop.
FlushMemory ==
  /\ kind = "memory"
  /\ Apply(1, Len(ops))
  /\ told' = IF ops = <<>> THEN told ELSE "nil"
  /\ ops' = <<>> /\ others' = Outside
  /\ UNCHANGED <<kind, next, given, reused>>

\* badgerBatch.Flush.
FlushBegins ==
  /\ kind = "badger" /\ next = 0
  /\ next' = 1 /\ others' = Outside
  /\ UNCHANGED <<kind, heap, data, ops, told, given, reused>>

\* The WriteBatch commits what fits one transaction.
Transaction(n) ==
  /\ next # 0 /\ n >= next
  /\ Apply(next, n)
  /\ next' = n + 1
  /\ UNCHANGED <<kind, ops, told, given, others, reused>>

\* Mutant: only the error of wb.Flush is returned.
FlushFailsSilently ==
  /\ next # 0
  /\ \/ next <= Len(ops) /\ ops' = ops /\ told' = "nil"
     \/ ops' = <<>> /\ told' = "error"
  /\ next' = 0
  /\ UNCHANGED <<kind, heap, data, given, others, reused>>

\* wb.Set or wb.Delete fails: the rest is cancelled and the batch kept. When wb.Flush
\* fails it has been emptied already.
FlushFails ==
  /\ next # 0
  /\ \/ next <= Len(ops) /\ ops' = ops
     \/ ops' = <<>>
  /\ told' = "error" /\ next' = 0
  /\ UNCHANGED <<kind, heap, data, given, others, reused>>

\* An emptied batch flushes well, which says nothing of what was in it before.
FlushReturns ==
  /\ next = Len(ops) + 1
  /\ told' = IF ops = <<>> THEN told ELSE "nil"
  /\ ops' = <<>> /\ next' = 0
  /\ UNCHANGED <<kind, heap, data, given, others, reused>>

\* The process ends; Badger's files stay.
Crash ==
  /\ data' = IF kind = "memory" THEN [k \in Keys |-> Absent] ELSE data
  /\ ops' = <<>> /\ next' = 0 /\ told' = "none"
  /\ given' = <<>> /\ others' = {} /\ reused' = FALSE
  /\ UNCHANGED <<kind, heap>>

Next ==
  \/ \E b \in Buffers : \/ \E v \in Values : Write(b, v)
                        \/ \E k \in Keys : Get(k, b) \/ Set(k, b) \/ BatchSet(k, b)
  \/ \E k \in Keys : Delete(k) \/ BatchDelete(k)
  \/ FlushMemory \/ FlushBegins \/ (\E n \in 1..Len(ops) : Transaction(n))
  \/ FlushFails \/ FlushReturns
  \/ Crash

Spec == Init /\ [][Next]_vars

-----------------------------------------------------------------------------
(* Properties.                                                             *)

\* The types of the variables.
TypeOK ==
  /\ kind \in {"memory", "badger"}
  /\ heap \in [Slots -> Values]
  /\ data \in [Keys -> Keys \cup Buffers \cup {Absent}]
  /\ Len(ops) <= MaxOps
  /\ \A j \in DOMAIN ops : ops[j].key \in Keys /\ ops[j].slice \in Slots \cup {Absent}
  /\ next \in 0..MaxOps + 1 /\ told \in {"none", "nil", "error"}
  /\ \A j \in DOMAIN given : given[j].key \in Keys /\ given[j].value \in Values \cup {Absent}
  /\ others \subseteq Keys /\ reused \in BOOLEAN

\* A flush that has succeeded left under every key what the batch was last given
\* for it: through transactions that took a part each, flushes that failed and
\* were repeated, and other goroutines' writes to other keys. Who uses the
\* memory store must leave the slices alone until then.
FlushedAsGiven ==
  told = "nil" /\ ~reused =>
    \A j \in DOMAIN given :
      given[j].key \notin others /\ (\A l \in DOMAIN given : given[l].key = given[j].key => l <= j)
        => Content(given[j].key) = given[j].value

\* What is stored changes by calls only, never by what callers do to slices that
\* they have passed in or got back.
StoredByCallsOnly ==
  [][\A b \in Buffers, v \in Values : Write(b, v) => \A k \in Keys : Content(k)' = Content(k)]_vars
=============================================================================
