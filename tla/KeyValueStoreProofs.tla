------------------------ MODULE KeyValueStoreProofs ------------------------
(***************************************************************************)
(* Theorems about KeyValueStore, for any keys, values, buffers and size of *)
(* a batch.                                                                *)
(*                                                                         *)
(* FlushedAsGiven is about the end of a flush, so the invariant follows the*)
(* batch from the start: what its operations refer to still holds what was *)
(* given (BatchInv), and the operations before `next` are in the store     *)
(* (FlushInv).                                                             *)
(***************************************************************************)
EXTENDS KeyValueStore, NaturalFacts, SequenceTheorems

Operation == [key : Keys, slice : Buffers \cup 1..MaxOps \cup {Absent}]
Gift      == [key : Keys, value : Values \cup {Absent}]

Types ==
  /\ kind \in {"memory", "badger"}
  /\ heap \in [Slots -> Values]
  /\ data \in [Keys -> Keys \cup {Absent}]
  /\ ops \in Seq(Operation) /\ Len(ops) <= MaxOps
  /\ next \in Nat /\ next <= Len(ops) + 1
  /\ told \in {"none", "nil", "error"}
  /\ given \in Seq(Gift)
  /\ others \subseteq Keys /\ reused \in BOOLEAN

\* The store has slices of its own.
OwnSlices == \A k \in Keys : data[k] \in {k, Absent}

\* What operation j would store, if it ran now.
Meant(j) == IF ops[j].slice = Absent THEN Absent ELSE heap[ops[j].slice]

\* A batch under way refers to what it was given, unless the caller of a memory
\* batch has used its slices again.
BatchInv ==
  ops # <<>> =>
    /\ Len(given) = Len(ops) /\ told # "nil"
    /\ \A j \in 1..Len(ops) :
         /\ given[j].key = ops[j].key
         /\ ops[j].slice # Absent => ops[j].slice \in IF kind = "memory" THEN Buffers ELSE {j}
         /\ ~reused => given[j].value = Meant(j)

\* j is the last of the first n operations given for its key.
LastGiven(j, n) == \A l \in 1..n : given[l].key = given[j].key => l <= j

\* The first n operations given are in the store.
Stored(n) ==
  \A j \in 1..n :
    LastGiven(j, n) /\ given[j].key \notin others => Content(given[j].key) = given[j].value

\* A flush has stored the operations before next; one that was told of all of them.
FlushInv ==
  /\ next # 0 => kind = "badger"
  /\ ~reused /\ next # 0 /\ ops # <<>> => Stored(next - 1)
  /\ ~reused /\ told = "nil" => Stored(Len(given))

StoreInv == Types /\ OwnSlices /\ BatchInv /\ FlushInv

-----------------------------------------------------------------------------
(* What the steps do to slices.                                            *)

\* The kinds of slices do not overlap.
LEMMA SlotsDiffer ==
  /\ Keys \cap Buffers = {} /\ (Keys \cup Buffers) \cap 1..MaxOps = {}
  /\ Absent \notin Slots /\ Absent \notin Values /\ Absent \notin Keys /\ MaxOps \in Nat
  BY OpsAssumption, SlotsAssumption DEF Slots

\* Entries of the batch.
LEMMA OpType ==
  ASSUME Types, NEW j \in 1..Len(ops)
  PROVE  /\ ops[j] \in Operation /\ ops[j].key \in Keys
         /\ ops[j].slice \in Buffers \cup 1..MaxOps \cup {Absent}
<1>1. ops[j] \in Operation
  BY DEF Types
<1> QED
  BY <1>1 DEF Operation

LEMMA GiftType ==
  ASSUME Types, NEW j \in 1..Len(given)
  PROVE  given[j] \in Gift /\ given[j].key \in Keys
<1>1. given[j] \in Gift
  BY DEF Types
<1> QED
  BY <1>1 DEF Gift

\* Operations m to n, run in their order: each key has what the last of them on it
\* meant, the others what they had, and no slice outside the store changes.
LEMMA ApplyStores ==
  ASSUME Types, OwnSlices, NEW m \in Nat \ {0}, NEW n \in Nat, n <= Len(ops), Apply(m, n)
  PROVE  /\ heap' \in [Slots -> Values] /\ data' \in [Keys -> Keys \cup {Absent}] /\ OwnSlices'
         /\ \A s \in Slots \ Keys : heap'[s] = heap[s]
         /\ \A k \in Keys : (\A j \in m..n : ops[j].key # k) => Content(k)' = Content(k)
         /\ \A j \in m..n, k \in Keys :
              ops[j].key = k /\ (\A l \in m..n : ops[l].key = k => l <= j) => Content(k)' = Meant(j)
<1> DEFINE On(k)   == {j \in m..n : ops[j].key = k}
           Final(k) == CHOOSE j \in On(k) : \A l \in On(k) : l <= j
           Last(k) == ops[Final(k)].slice
<1>1. m..n \subseteq 1..Len(ops) /\ m..n \subseteq Nat /\ Len(ops) \in Nat
  BY DEF Types
<1>2. ASSUME NEW k \in Keys, On(k) # {} PROVE Final(k) \in On(k) /\ \A l \in On(k) : l <= Final(k)
  <2>1. On(k) \in SUBSET Nat /\ \A l \in On(k) : l <= n
    BY <1>1
  <2>2. \E j \in On(k) : \A l \in On(k) : l <= j
    <3> HIDE DEF On
    <3> QED
      BY <1>2, <2>1, GreatestOf
  <2> QED
    BY <2>2
<1>3. ASSUME NEW k \in Keys, On(k) # {}, Last(k) # Absent PROVE Last(k) \in Slots /\ heap[Last(k)] \in Values
  <2>1. Last(k) \in Buffers \cup 1..MaxOps \cup {Absent}
    BY <1>1, <1>2, <1>3, OpType
  <2> QED
    BY <1>3, <2>1 DEF Slots, Types
<1>4. /\ data' = [k \in Keys |-> IF On(k) = {} THEN data[k] ELSE IF Last(k) = Absent THEN Absent ELSE k]
      /\ heap' = [s \in Slots |-> IF s \in Keys /\ On(s) # {} /\ Last(s) # Absent THEN heap[Last(s)] ELSE heap[s]]
  BY DEF Apply
<1>5. ASSUME NEW j \in m..n, \A l \in m..n : ops[l].key = ops[j].key => l <= j
      PROVE  On(ops[j].key) # {} /\ Last(ops[j].key) = ops[j].slice /\ ops[j].key \in Keys
  <2>1. j \in On(ops[j].key) /\ ops[j].key \in Keys
    BY <1>1, OpType
  <2>2. Final(ops[j].key) \in On(ops[j].key) /\ j <= Final(ops[j].key)
    BY <1>2, <2>1
  <2>3. Final(ops[j].key) <= j
    BY <1>5, <2>2
  <2>4. Final(ops[j].key) = j
    BY <1>1, <2>2, <2>3
  <2> QED
    BY <2>1, <2>4
<1> HIDE DEF On, Final, Last
<1>6. \A k \in Keys : data[k] \in {k, Absent} /\ k \in Slots /\ k # Absent
  BY SlotsDiffer DEF OwnSlices, Slots
<1>7. heap' \in [Slots -> Values]
  BY <1>3, <1>4 DEF Types
<1>8. data' \in [Keys -> Keys \cup {Absent}] /\ OwnSlices'
  BY <1>4, <1>6 DEF OwnSlices, Types
<1>9. \A s \in Slots \ Keys : heap'[s] = heap[s]
  BY <1>4
<1>10. ASSUME NEW k \in Keys, On(k) = {} PROVE Content(k)' = Content(k)
  <2>1. data'[k] = data[k] /\ heap'[k] = heap[k]
    BY <1>4, <1>6, <1>10
  <2> QED
    BY <1>6, <2>1 DEF Content
<1>11. ASSUME NEW k \in Keys, On(k) # {}
       PROVE  Content(k)' = IF Last(k) = Absent THEN Absent ELSE heap[Last(k)]
  <2>1. CASE Last(k) = Absent
    BY <1>4, <1>11, <2>1 DEF Content
  <2>2. CASE Last(k) # Absent
    <3>1. data'[k] = k /\ heap'[k] = heap[Last(k)]
      BY <1>4, <1>6, <1>11, <2>2
    <3> QED
      BY <1>6, <2>2, <3>1 DEF Content
  <2> QED
    BY <2>1, <2>2
<1>12. \A k \in Keys : (\A j \in m..n : ops[j].key # k) => Content(k)' = Content(k)
  <2>1. \A k \in Keys : (\A j \in m..n : ops[j].key # k) => On(k) = {}
    BY DEF On
  <2> QED
    BY <1>10, <2>1
<1>13. ASSUME NEW j \in m..n, NEW k \in Keys, ops[j].key = k, \A l \in m..n : ops[l].key = k => l <= j
       PROVE  Content(k)' = Meant(j)
  BY <1>5, <1>11, <1>13 DEF Meant
<1> QED
  BY <1>7, <1>8, <1>9, <1>12, <1>13

\* What was stored of the batch stays, where the keys of others are let out.
LEMMA StoredKept ==
  ASSUME Types, given' = given, others \subseteq others', NEW n \in Nat, n <= Len(given), Stored(n),
         \A k \in Keys \ others' : Content(k)' = Content(k)
  PROVE  Stored(n)'
<1> SUFFICES ASSUME NEW j \in 1..n, LastGiven(j, n), given[j].key \notin others'
             PROVE  Content(given[j].key)' = given'[j].value
  BY DEF Stored, LastGiven
<1>1. j \in 1..Len(given) /\ given[j].key \in Keys \ others'
  <2>1. j \in 1..Len(given)
    BY DEF Types
  <2> QED
    BY <2>1, GiftType
<1>2. Content(given[j].key) = given[j].value
  BY <1>1 DEF Stored
<1> QED
  BY <1>1, <1>2

\* A step that leaves the store's slices, and the batch unless it is told so.
LEMMA SlicesChange ==
  ASSUME StoreInv, UNCHANGED <<kind, data, ops, next, told, given, others>>,
         heap' \in [Slots -> Values], \A k \in Keys : heap'[k] = heap[k],
         reused' \in BOOLEAN, ~reused' => ~reused /\ \A j \in 1..Len(ops) : Meant(j)' = Meant(j)
  PROVE  StoreInv'
<1>1. Types' /\ OwnSlices'
  BY DEF StoreInv, Types, OwnSlices
<1>2. BatchInv'
  BY DEF StoreInv, BatchInv
<1>3. \A k \in Keys : Content(k)' = Content(k)
  BY DEF StoreInv, OwnSlices, Content
<1>4. ASSUME NEW n \in Nat, n <= Len(given), Stored(n) PROVE Stored(n)'
  BY <1>3, <1>4, StoredKept DEF StoreInv
<1>5. FlushInv'
  <2>1. Len(given) \in Nat /\ next \in Nat /\ Len(ops) \in Nat
    BY DEF StoreInv, Types
  <2>2. ops # <<>> /\ next # 0 => next - 1 \in Nat /\ next - 1 <= Len(given)
    BY <2>1 DEF StoreInv, Types, BatchInv
  <2>4. ~reused' /\ next' # 0 /\ ops' # <<>> => Stored(next - 1)'
    BY <1>4, <2>2 DEF StoreInv, FlushInv
  <2>5. ~reused' /\ told' = "nil" => Stored(Len(given))'
    BY <1>4, <2>1 DEF StoreInv, FlushInv
  <2> QED
    BY <2>4, <2>5 DEF StoreInv, FlushInv
<1> QED
  BY <1>1, <1>2, <1>5 DEF StoreInv

\* A caller writes to a slice of its own, or has Get write to one.
LEMMA WriteInv == ASSUME StoreInv, NEW b \in Buffers, NEW v \in Values, Write(b, v) PROVE StoreInv'
<1>1. b \in Slots /\ b \notin Keys /\ b \notin 1..MaxOps
  BY SlotsDiffer DEF Slots
<1>2. heap' = [heap EXCEPT ![b] = v] /\ heap \in [Slots -> Values]
  BY DEF Write, StoreInv, Types
<1>3. heap' \in [Slots -> Values] /\ \A s \in Slots \ {b} : heap'[s] = heap[s]
  BY <1>2
<1>4. reused' = (reused \/ Kept(b)) /\ UNCHANGED <<kind, data, ops, next, told, given, others>>
  BY DEF Write
<1>5. reused' \in BOOLEAN
  BY <1>4 DEF StoreInv, Types, Kept
<1>6. \A k \in Keys : heap'[k] = heap[k]
  BY <1>1, <1>3 DEF Slots
<1>7. ASSUME ~Kept(b), NEW j \in 1..Len(ops) PROVE Meant(j)' = Meant(j)
  <2>1. ops \in Seq(Operation) /\ j \in DOMAIN ops /\ ops # <<>> /\ Len(ops) <= MaxOps /\ j \in 1..MaxOps
    BY SlotsDiffer DEF StoreInv, Types
  <2>2. ops[j].slice # Absent => ops[j].slice \in IF kind = "memory" THEN Buffers ELSE {j}
    BY <2>1 DEF StoreInv, BatchInv
  <2>3. ops[j].slice # Absent => ops[j].slice \in Slots /\ ops[j].slice # b
    <3>1. CASE kind = "memory"
      BY <1>7, <2>1, <2>2, <3>1 DEF Kept, Slots
    <3>2. CASE kind # "memory"
      BY <1>1, <2>1, <2>2, <3>2 DEF Slots
    <3> QED
      BY <3>1, <3>2
  <2> QED
    BY <1>3, <1>4, <2>3 DEF Meant
<1> QED
  BY <1>3, <1>4, <1>5, <1>6, <1>7, SlicesChange

LEMMA GetInv == ASSUME StoreInv, NEW k \in Keys, NEW b \in Buffers, Get(k, b) PROVE StoreInv'
<1>1. Content(k) \in Values
  BY SlotsDiffer DEF Get, Content, StoreInv, OwnSlices, Types, Slots
<1>2. Write(b, Content(k))
  BY DEF Get, Write, batch, StoreInv, Types
<1> QED
  BY <1>1, <1>2, WriteInv

\* A single write.
LEMMA SingleWriteInv ==
  ASSUME StoreInv, NEW k \in Keys, UNCHANGED <<kind, batch>>, others' = others \cup {k},
         heap' \in [Slots -> Values], data' \in [Keys -> Keys \cup {Absent}], OwnSlices',
         \A s \in Slots \ {k} : heap'[s] = heap[s], \A l \in Keys \ {k} : data'[l] = data[l]
  PROVE  StoreInv'
<1>0. UNCHANGED <<kind, ops, next, told, given, reused>>
  BY DEF batch
<1>1. Types'
  BY <1>0 DEF StoreInv, Types
<1>2. ASSUME NEW j \in 1..Len(ops) PROVE Meant(j)' = Meant(j)
  <2>1. ops # <<>> /\ j \in 1..MaxOps
    BY SlotsDiffer DEF StoreInv, Types
  <2>2. ops[j].slice # Absent => ops[j].slice \in IF kind = "memory" THEN Buffers ELSE {j}
    BY <2>1 DEF StoreInv, BatchInv
  <2>3. ops[j].slice # Absent => ops[j].slice \in Slots \ {k}
    BY <2>1, <2>2, SlotsDiffer DEF Slots
  <2> QED
    BY <1>0, <2>3 DEF Meant
<1>3. BatchInv'
  BY <1>0, <1>2 DEF StoreInv, BatchInv
<1>4. \A l \in Keys \ others' : Content(l)' = Content(l)
  BY SlotsDiffer DEF StoreInv, OwnSlices, Content, Slots
<1>5. ASSUME NEW n \in Nat, n <= Len(given), Stored(n) PROVE Stored(n)'
  BY <1>0, <1>4, <1>5, StoredKept DEF StoreInv
<1>6. FlushInv'
  <2>1. Len(given) \in Nat /\ next \in Nat /\ Len(ops) \in Nat
    BY DEF StoreInv, Types
  <2>2. ops # <<>> /\ next # 0 => next - 1 \in Nat /\ next - 1 <= Len(given)
    BY <2>1 DEF StoreInv, Types, BatchInv
  <2>4. ~reused' /\ next' # 0 /\ ops' # <<>> => Stored(next - 1)'
    BY <1>0, <1>5, <2>2 DEF StoreInv, FlushInv
  <2>5. ~reused' /\ told' = "nil" => Stored(Len(given))'
    BY <1>0, <1>5, <2>1 DEF StoreInv, FlushInv
  <2> QED
    BY <1>0, <2>4, <2>5 DEF StoreInv, FlushInv
<1> QED
  BY <1>1, <1>3, <1>6 DEF StoreInv

LEMMA SetInv == ASSUME StoreInv, NEW k \in Keys, NEW b \in Buffers, Set(k, b) PROVE StoreInv'
<1>1. k \in Slots /\ b \in Slots
  BY DEF Slots
<1>2. heap' = [heap EXCEPT ![k] = heap[b]] /\ data' = [data EXCEPT ![k] = k] /\ heap[b] \in Values
  BY <1>1 DEF Set, StoreInv, Types
<1>3. heap' \in [Slots -> Values] /\ data' \in [Keys -> Keys \cup {Absent}]
  BY <1>2 DEF StoreInv, Types
<1>4. /\ \A s \in Slots \ {k} : heap'[s] = heap[s]
      /\ \A l \in Keys : data'[l] = IF l = k THEN k ELSE data[l]
  BY <1>2 DEF StoreInv, Types
<1>5. OwnSlices'
  BY <1>4 DEF StoreInv, OwnSlices
<1> QED
  BY <1>3, <1>4, <1>5, SingleWriteInv DEF Set

LEMMA DeleteInv == ASSUME StoreInv, NEW k \in Keys, Delete(k) PROVE StoreInv'
<1>1. heap' = heap /\ data' = [data EXCEPT ![k] = Absent]
  BY DEF Delete
<1>2. heap' \in [Slots -> Values] /\ data' \in [Keys -> Keys \cup {Absent}]
  BY <1>1 DEF StoreInv, Types
<1>3. \A l \in Keys : data'[l] = IF l = k THEN Absent ELSE data[l]
  BY <1>1 DEF StoreInv, Types
<1>4. OwnSlices'
  BY <1>3 DEF StoreInv, OwnSlices
<1> QED
  BY <1>1, <1>2, <1>3, <1>4, SingleWriteInv DEF Delete

-----------------------------------------------------------------------------
(* Filling the batch.                                                      *)

\* One operation more, which refers to a slice with what was given.
LEMMA BatchAddInv ==
  ASSUME StoreInv, NEW k \in Keys, NEW slice \in Buffers \cup 1..MaxOps \cup {Absent},
         NEW value \in Values \cup {Absent}, BatchAdd(k, slice, value),
         heap' \in [Slots -> Values],
         slice = Absent => value = Absent,
         slice # Absent => slice \in (IF kind = "memory" THEN Buffers ELSE {Len(ops) + 1}) /\ value = heap'[slice],
         \A s \in Slots \ {Len(ops) + 1} : heap'[s] = heap[s]
  PROVE  StoreInv'
<1>0. PICK n : n = Len(ops)
  OBVIOUS
<1> DEFINE old == IF ops = <<>> THEN <<>> ELSE given
<1>1. /\ next = 0 /\ n < MaxOps /\ UNCHANGED <<kind, data, next, others>>
      /\ ops' = Append(ops, [key |-> k, slice |-> slice])
      /\ given' = Append(old, [key |-> k, value |-> value])
      /\ told' = IF ops = <<>> THEN "none" ELSE told
      /\ reused' = (ops # <<>> /\ reused)
  BY <1>0 DEF BatchAdd
<1>2. /\ ops \in Seq(Operation) /\ n \in Nat /\ (n = 0 <=> ops = <<>>)
      /\ [key |-> k, slice |-> slice] \in Operation
  BY <1>0 DEF StoreInv, Types, Operation
<1>3. ops' \in Seq(Operation) /\ Len(ops') = n + 1 /\ ops' # <<>>
  BY <1>0, <1>1, <1>2
<1>4. old \in Seq(Gift) /\ Len(old) = n /\ [key |-> k, value |-> value] \in Gift
  BY <1>0, <1>2 DEF StoreInv, Types, BatchInv, Gift
<1>5. given' \in Seq(Gift) /\ Len(given') = n + 1
  BY <1>1, <1>4
<1>6. Types' /\ OwnSlices'
  <2>1. told' \in {"none", "nil", "error"} /\ reused' \in BOOLEAN
    BY <1>1 DEF StoreInv, Types
  <2>2. kind' \in {"memory", "badger"} /\ data' \in [Keys -> Keys \cup {Absent}] /\ others' \subseteq Keys
    BY <1>1 DEF StoreInv, Types
  <2>3. Len(ops') <= MaxOps /\ next' \in Nat /\ next' <= Len(ops') + 1
    BY <1>0, <1>1, <1>2, <1>3, SlotsDiffer
  <2> QED
    BY <1>1, <1>3, <1>5, <2>1, <2>2, <2>3 DEF StoreInv, Types, OwnSlices
<1>7. /\ \A j \in 1..n : ops'[j] = ops[j] /\ given'[j] = old[j]
      /\ ops'[n + 1] = [key |-> k, slice |-> slice] /\ given'[n + 1] = [key |-> k, value |-> value]
  BY <1>0, <1>1, <1>2, <1>4
<1>8. ASSUME NEW j \in 1..n
      PROVE  /\ given'[j].key = ops'[j].key
             /\ ops'[j].slice # Absent => ops'[j].slice \in IF kind' = "memory" THEN Buffers ELSE {j}
             /\ ~reused' => given'[j].value = Meant(j)'
  <2>1. ops # <<>> /\ old = given /\ ops'[j] = ops[j] /\ given'[j] = given[j] /\ kind' = kind
    <3>1. n # 0
      BY <1>2
    <3>2. ops # <<>> /\ old = given
      BY <1>2, <3>1
    <3> QED
      BY <1>1, <1>7, <3>2
  <2>2. /\ given[j].key = ops[j].key
        /\ ops[j].slice # Absent => ops[j].slice \in IF kind = "memory" THEN Buffers ELSE {j}
        /\ ~reused => given[j].value = Meant(j)
    BY <1>0, <2>1 DEF StoreInv, BatchInv
  <2>3. ops[j].slice # Absent => ops[j].slice \in Slots \ {n + 1}
    <3>1. j \in 1..MaxOps /\ j # n + 1 /\ n + 1 \in 1..MaxOps /\ MaxOps \in Nat
      BY <1>1, <1>2, SlotsDiffer
    <3>2. CASE kind = "memory"
      BY <2>2, <3>1, <3>2, SlotsDiffer DEF Slots
    <3>3. CASE kind # "memory"
      BY <2>2, <3>1, <3>3 DEF Slots
    <3> QED
      BY <3>2, <3>3
  <2>4. Meant(j)' = Meant(j)
    BY <1>0, <2>1, <2>3 DEF Meant
  <2> QED
    BY <1>1, <2>1, <2>2, <2>4
<1>9. /\ given'[n + 1].key = ops'[n + 1].key
      /\ ops'[n + 1].slice # Absent => ops'[n + 1].slice \in IF kind' = "memory" THEN Buffers ELSE {n + 1}
      /\ given'[n + 1].value = Meant(n + 1)'
  <2>1. ops'[n + 1].slice = slice /\ ops'[n + 1].key = k /\ given'[n + 1].value = value /\ given'[n + 1].key = k
    BY <1>7
  <2>2. Meant(n + 1)' = IF slice = Absent THEN Absent ELSE heap'[slice]
    BY <1>1, <2>1 DEF Meant
  <2> QED
    BY <1>0, <1>1, <2>1, <2>2
<1>10. BatchInv'
  <2>1. told' # "nil"
    <3>1. ops # <<>> => told # "nil"
      BY DEF StoreInv, BatchInv
    <3> QED
      BY <1>1, <3>1
  <2>2. 1..(n + 1) = (1..n) \cup {n + 1}
    BY <1>2
  <2> QED
    BY <1>3, <1>5, <1>8, <1>9, <2>1, <2>2 DEF BatchInv
<1>11. FlushInv'
  BY <1>1, <1>3, <1>10 DEF FlushInv, BatchInv
<1> QED
  BY <1>6, <1>10, <1>11 DEF StoreInv

LEMMA BatchSetInv == ASSUME StoreInv, NEW k \in Keys, NEW b \in Buffers, BatchSet(k, b) PROVE StoreInv'
<1>1. Len(ops) \in Nat /\ Len(ops) < MaxOps /\ Len(ops) + 1 \in 1..MaxOps
  BY SlotsDiffer DEF BatchSet, BatchAdd, StoreInv, Types
<1>2. b \in Slots /\ KeptSlice(b) \in Slots \ {Absent} /\ KeptSlice(b) \in Buffers \cup 1..MaxOps
  BY <1>1, SlotsDiffer DEF Slots, KeptSlice
<1>3. heap' = [heap EXCEPT ![KeptSlice(b)] = heap[b]] /\ heap[b] \in Values
  BY <1>2 DEF BatchSet, StoreInv, Types
<1>4. /\ heap' \in [Slots -> Values] /\ heap'[KeptSlice(b)] = heap[b]
      /\ \A s \in Slots \ {KeptSlice(b)} : heap'[s] = heap[s]
  BY <1>2, <1>3 DEF StoreInv, Types
<1>5. KeptSlice(b) \in IF kind = "memory" THEN Buffers ELSE {Len(ops) + 1}
  BY DEF KeptSlice
<1>6. \A s \in Slots \ {Len(ops) + 1} : heap'[s] = heap[s]
  <2>1. CASE kind = "memory"
    <3>1. KeptSlice(b) = b
      BY <2>1 DEF KeptSlice
    <3> QED
      BY <1>4, <3>1
  <2>2. CASE kind # "memory"
    BY <1>4, <1>5, <2>2
  <2> QED
    BY <2>1, <2>2
<1>7. BatchAdd(k, KeptSlice(b), heap[b])
  BY DEF BatchSet
<1> QED
  BY <1>2, <1>3, <1>4, <1>5, <1>6, <1>7, BatchAddInv

LEMMA BatchDeleteInv == ASSUME StoreInv, NEW k \in Keys, BatchDelete(k) PROVE StoreInv'
<1>1. BatchAdd(k, Absent, Absent) /\ heap' = heap /\ heap' \in [Slots -> Values]
  BY DEF BatchDelete, StoreInv, Types
<1> QED
  BY <1>1, BatchAddInv

-----------------------------------------------------------------------------
(* Flushes.                                                                *)

\* Operations next to n are run, in memory all of them: the first n are then stored.
LEMMA ApplyInv ==
  ASSUME StoreInv, NEW m \in Nat \ {0}, NEW n \in Nat, m <= n + 1, n <= Len(ops), Apply(m, n), ops # <<>>,
         given' = given, others' \subseteq others,
         ~reused, Stored(m - 1) \/ m = 1,
         \A j \in 1..(m - 1) : given[j].key \notin others' => given[j].key \notin others
  PROVE  Stored(n)'
<1> SUFFICES ASSUME NEW j \in 1..n, NEW k, k = given[j].key, LastGiven(j, n), k \notin others'
             PROVE  Content(k)' = given[j].value
  BY DEF Stored, LastGiven
<1>1. /\ j \in 1..Len(ops) /\ Len(given) = Len(ops) /\ Len(ops) \in Nat /\ n \in Nat
      /\ \A l \in 1..Len(ops) : given[l].key = ops[l].key /\ given[l].value = Meant(l)
  <2>1. Len(ops) \in Nat /\ Len(given) = Len(ops)
    BY DEF StoreInv, Types, BatchInv
  <2>2. \A l \in 1..Len(ops) : given[l].key = ops[l].key /\ given[l].value = Meant(l)
    BY DEF StoreInv, BatchInv
  <2> QED
    BY <2>1, <2>2
<1>2. k \in Keys /\ k = ops[j].key
  BY <1>1, GiftType DEF StoreInv
<1>3. /\ \A i \in Keys : (\A l \in m..n : ops[l].key # i) => Content(i)' = Content(i)
      /\ \A l \in m..n, i \in Keys :
           ops[l].key = i /\ (\A q \in m..n : ops[q].key = i => q <= l) => Content(i)' = Meant(l)
  BY ApplyStores DEF StoreInv
<1>4. \A l \in m..n : l \in 1..n /\ l \in 1..Len(ops) /\ (ops[l].key = k => l <= j)
  BY <1>1 DEF LastGiven
<1>5. CASE j \in m..n
  BY <1>1, <1>2, <1>3, <1>4, <1>5
<1>6. CASE j \notin m..n
  <2>1. j \in 1..(m - 1) /\ m # 1
    BY <1>6
  <2>2. \A l \in m..n : ops[l].key # k
    BY <1>4, <2>1
  <2>3. Content(k)' = Content(k)
    BY <1>2, <1>3, <2>2
  <2>4. \A l \in 1..(m - 1) : given[l].key = given[j].key => l <= j
    <3>1. ASSUME NEW l \in 1..(m - 1), given[l].key = given[j].key PROVE l <= j
      <4>1. l \in 1..n
        OBVIOUS
      <4> QED
        BY <3>1, <4>1 DEF LastGiven
    <3> QED
      BY <3>1
  <2>5. Content(k) = given[j].value
    BY <2>1, <2>4 DEF Stored, LastGiven
  <2> QED
    BY <2>3, <2>5
<1> QED
  BY <1>5, <1>6

\* The whole of a memory batch, under the store's lock.
LEMMA FlushMemoryInv == ASSUME StoreInv, FlushMemory PROVE StoreInv'
<1>1. /\ kind = "memory" /\ Apply(1, Len(ops)) /\ UNCHANGED <<kind, next, given, reused>>
      /\ told' = (IF ops = <<>> THEN told ELSE "nil") /\ ops' = <<>> /\ others' = Outside
  BY DEF FlushMemory
<1>2. Len(ops) \in Nat /\ Len(given) \in Nat /\ next = 0 /\ others' \subseteq others
  BY <1>1 DEF StoreInv, Types, FlushInv, Outside
<1>3. /\ heap' \in [Slots -> Values] /\ data' \in [Keys -> Keys \cup {Absent}] /\ OwnSlices'
      /\ \A k \in Keys : (\A j \in 1..Len(ops) : ops[j].key # k) => Content(k)' = Content(k)
  <2>1. PICK m \in Nat \ {0} : m = 1
    OBVIOUS
  <2>2. PICK n \in Nat : n = Len(ops)
    BY <1>2
  <2>3. Apply(m, n) /\ n <= Len(ops)
    BY <1>1, <2>1, <2>2
  <2> QED
    BY <2>1, <2>2, <2>3, ApplyStores DEF StoreInv
<1>4. Types' /\ OwnSlices'
  <2>1. heap' \in [Slots -> Values] /\ data' \in [Keys -> Keys \cup {Absent}] /\ OwnSlices'
    BY <1>3
  <2>2. ops' \in Seq(Operation) /\ Len(ops') = 0
    BY <1>1
  <2> QED
    BY <1>1, <1>2, <2>1, <2>2, SlotsDiffer DEF StoreInv, Types
<1>5. ASSUME ~reused, told' = "nil" PROVE Stored(Len(given))'
  <2>1. PICK n \in Nat : n = Len(given)
    BY <1>2
  <2>2. CASE ops = <<>>
    <3>1. \A k \in Keys : Content(k)' = Content(k)
      <4>1. \A k \in Keys, j \in 1..Len(ops) : ops[j].key # k
        BY <1>2, <2>2
      <4> QED
        BY <1>3, <4>1
    <3>2. Stored(n)
      BY <1>1, <1>5, <2>1, <2>2 DEF StoreInv, FlushInv
    <3>3. others' = others
      BY <1>1, <2>2 DEF Outside
    <3>4. Stored(n)'
      BY <1>1, <2>1, <3>1, <3>2, <3>3, StoredKept DEF StoreInv
    <3> QED
      BY <1>1, <2>1, <3>4
  <2>3. CASE ops # <<>>
    <3>1. n = Len(ops) /\ n # 0
      BY <2>1, <2>3 DEF StoreInv, BatchInv, Types
    <3>2. 1 \in Nat \ {0} /\ 1 <= n + 1 /\ n <= Len(ops) /\ \A j \in 1..(1 - 1) : FALSE
      BY <3>1
    <3>3. Stored(n)'
      BY <1>1, <1>2, <1>5, <2>3, <3>1, <3>2, ApplyInv
    <3> QED
      BY <1>1, <2>1, <3>3
  <2> QED
    BY <2>2, <2>3
<1>6. BatchInv' /\ FlushInv'
  BY <1>1, <1>2, <1>5 DEF BatchInv, FlushInv
<1> QED
  BY <1>4, <1>6 DEF StoreInv

LEMMA FlushBeginsInv == ASSUME StoreInv, FlushBegins PROVE StoreInv'
<1>1. /\ kind = "badger" /\ next = 0 /\ next' = 1 /\ others' = Outside
      /\ UNCHANGED <<kind, heap, data, ops, told, given, reused>>
  BY DEF FlushBegins
<1>2. others' \subseteq others /\ (ops = <<>> => others' = others) /\ others \subseteq Keys
  BY <1>1 DEF Outside, StoreInv, Types
<1>3. Types'
  BY <1>1, <1>2 DEF StoreInv, Types
<1>4. OwnSlices'
  BY <1>1 DEF StoreInv, OwnSlices
<1>5. BatchInv'
  BY <1>1 DEF StoreInv, BatchInv, Meant
<1>6. ~reused' /\ told' = "nil" => Stored(Len(given))'
  <2>1. told' = "nil" => ops = <<>>
    BY <1>1 DEF StoreInv, BatchInv
  <2>2. ops = <<>> => (Stored(Len(given))' <=> Stored(Len(given)))
    BY <1>1, <1>2 DEF Stored, LastGiven, Content
  <2> QED
    BY <1>1, <2>1, <2>2 DEF StoreInv, FlushInv
<1>7. Stored(next - 1)'
  <2>1. next' - 1 = 0
    BY <1>1
  <2> QED
    BY <2>1 DEF Stored
<1> QED
  BY <1>1, <1>3, <1>4, <1>5, <1>6, <1>7 DEF StoreInv, FlushInv

\* A transaction of the WriteBatch: a part of the operations.
LEMMA TransactionInv == ASSUME StoreInv, NEW n \in 1..Len(ops), Transaction(n) PROVE StoreInv'
<1>1. /\ next # 0 /\ n >= next /\ Apply(next, n) /\ next' = n + 1
      /\ UNCHANGED <<kind, ops, told, given, others, reused>>
  BY DEF Transaction
<1>2. /\ Len(ops) \in Nat /\ next \in Nat \ {0} /\ n \in Nat /\ n <= Len(ops) /\ next <= n + 1
      /\ ops # <<>> /\ kind = "badger" /\ told # "nil"
  BY <1>1 DEF StoreInv, Types, BatchInv, FlushInv
<1>3. /\ heap' \in [Slots -> Values] /\ data' \in [Keys -> Keys \cup {Absent}] /\ OwnSlices'
      /\ \A s \in Slots \ Keys : heap'[s] = heap[s]
  BY <1>1, <1>2, ApplyStores DEF StoreInv
<1>4. Types'
  BY <1>1, <1>2, <1>3 DEF StoreInv, Types
<1>5. BatchInv'
  <2>1. ASSUME NEW j \in 1..Len(ops) PROVE Meant(j)' = Meant(j)
    <3>1. j \in 1..MaxOps
      BY <1>2, SlotsDiffer DEF StoreInv, Types
    <3>2. ops[j].slice # Absent => ops[j].slice \in {j}
      BY <1>2 DEF StoreInv, BatchInv
    <3>3. j \in Slots \ Keys
      BY <3>1, SlotsDiffer DEF Slots
    <3> QED
      BY <1>1, <1>3, <3>2, <3>3 DEF Meant
  <2> QED
    BY <1>1, <2>1 DEF StoreInv, BatchInv
<1>6. ASSUME ~reused PROVE Stored(n)'
  BY <1>1, <1>2, <1>6, ApplyInv DEF StoreInv, FlushInv
<1>7. ~reused' => Stored(next - 1)'
  <2>1. next' - 1 = n
    BY <1>1, <1>2
  <2> QED
    BY <1>1, <1>6, <2>1
<1>8. FlushInv'
  BY <1>1, <1>2, <1>7 DEF FlushInv
<1> QED
  BY <1>3, <1>4, <1>5, <1>8 DEF StoreInv

LEMMA FlushFailsInv == ASSUME StoreInv, FlushFails PROVE StoreInv'
<1>1. /\ told' = "error" /\ next' = 0 /\ (ops' = ops \/ ops' = <<>>)
      /\ UNCHANGED <<kind, heap, data, given, others, reused>>
  BY DEF FlushFails
<1>2. ops' \in Seq(Operation) /\ Len(ops') <= MaxOps /\ Len(ops') \in Nat
  <2>1. CASE ops' = ops
    BY <2>1 DEF StoreInv, Types
  <2>2. CASE ops' = <<>>
    BY <2>2, SlotsDiffer
  <2> QED
    BY <1>1, <2>1, <2>2
<1>3. Types' /\ OwnSlices'
  BY <1>1, <1>2 DEF StoreInv, Types, OwnSlices
<1>4. BatchInv'
  <2>1. CASE ops' = ops
    BY <1>1, <2>1 DEF StoreInv, BatchInv, Meant
  <2>2. CASE ops' = <<>>
    BY <2>2 DEF BatchInv
  <2> QED
    BY <1>1, <2>1, <2>2
<1> QED
  BY <1>1, <1>3, <1>4 DEF StoreInv, FlushInv

LEMMA FlushReturnsInv == ASSUME StoreInv, FlushReturns PROVE StoreInv'
<1>1. /\ next = Len(ops) + 1 /\ told' = (IF ops = <<>> THEN told ELSE "nil") /\ ops' = <<>> /\ next' = 0
      /\ UNCHANGED <<kind, heap, data, given, others, reused>>
  BY DEF FlushReturns
<1>2. Types' /\ OwnSlices'
  <2>1. ops' \in Seq(Operation) /\ Len(ops') = 0
    BY <1>1
  <2> QED
    BY <1>1, <2>1, SlotsDiffer DEF StoreInv, Types, OwnSlices
<1>3. ASSUME ~reused, told' = "nil" PROVE Stored(Len(given))
  <2>1. CASE ops = <<>>
    BY <1>1, <1>3, <2>1 DEF StoreInv, FlushInv
  <2>2. CASE ops # <<>>
    <3>1. next - 1 = Len(given) /\ next # 0
      BY <1>1, <2>2 DEF StoreInv, Types, BatchInv
    <3>2. Stored(next - 1)
      BY <1>3, <2>2, <3>1 DEF StoreInv, FlushInv
    <3> QED
      BY <3>1, <3>2
  <2> QED
    BY <2>1, <2>2
<1>4. Stored(Len(given))' <=> Stored(Len(given))
  BY <1>1 DEF Stored, LastGiven, Content
<1> QED
  BY <1>1, <1>2, <1>3, <1>4 DEF StoreInv, BatchInv, FlushInv

LEMMA CrashInv == ASSUME StoreInv, Crash PROVE StoreInv'
<1>1. /\ data' = (IF kind = "memory" THEN [k \in Keys |-> Absent] ELSE data)
      /\ ops' = <<>> /\ next' = 0 /\ told' = "none" /\ given' = <<>> /\ others' = {} /\ reused' = FALSE
      /\ UNCHANGED <<kind, heap>>
  BY DEF Crash
<1>2. data' \in [Keys -> Keys \cup {Absent}] /\ OwnSlices'
  BY <1>1 DEF StoreInv, Types, OwnSlices
<1>3. ops' \in Seq(Operation) /\ Len(ops') = 0 /\ given' \in Seq(Gift)
  BY <1>1
<1>4. Types'
  <2>1. kind' \in {"memory", "badger"} /\ heap' \in [Slots -> Values]
    BY <1>1 DEF StoreInv, Types
  <2>2. Len(ops') <= MaxOps /\ next' <= Len(ops') + 1
    BY <1>1, <1>3, SlotsDiffer
  <2> QED
    BY <1>1, <1>2, <1>3, <2>1, <2>2 DEF Types
<1>5. FlushInv'
  BY <1>1 DEF FlushInv, Stored
<1> QED
  BY <1>1, <1>2, <1>4, <1>5 DEF StoreInv, BatchInv

-----------------------------------------------------------------------------
(* The theorems.                                                           *)

LEMMA StoreInit == Init => StoreInv
<1> SUFFICES ASSUME Init PROVE StoreInv
  OBVIOUS
<1>1. ops \in Seq(Operation) /\ Len(ops) = 0 /\ given \in Seq(Gift)
  BY DEF Init
<1>2. Types /\ OwnSlices
  <2>1. Len(ops) <= MaxOps /\ next <= Len(ops) + 1
    BY <1>1, SlotsDiffer DEF Init
  <2>2. heap \in [Slots -> Values]
    BY DEF Init
  <2>3. data \in [Keys -> Keys \cup {Absent}] /\ OwnSlices
    BY DEF Init, OwnSlices
  <2> QED
    BY <1>1, <2>1, <2>2, <2>3 DEF Init, Types
<1> QED
  BY <1>2 DEF Init, StoreInv, BatchInv, FlushInv

LEMMA StoreNext == StoreInv /\ [Next]_vars => StoreInv'
<1> SUFFICES ASSUME StoreInv, [Next]_vars PROVE StoreInv'
  OBVIOUS
<1>1. CASE \E b \in Buffers, v \in Values : Write(b, v)
  BY <1>1, WriteInv
<1>2. CASE \E b \in Buffers, k \in Keys : Get(k, b) \/ Set(k, b) \/ BatchSet(k, b)
  BY <1>2, GetInv, SetInv, BatchSetInv
<1>3. CASE \E k \in Keys : Delete(k) \/ BatchDelete(k)
  BY <1>3, DeleteInv, BatchDeleteInv
<1>4. CASE FlushMemory \/ FlushBegins \/ \E n \in 1..Len(ops) : Transaction(n)
  BY <1>4, FlushMemoryInv, FlushBeginsInv, TransactionInv
<1>5. CASE FlushFails \/ FlushReturns \/ Crash
  BY <1>5, FlushFailsInv, FlushReturnsInv, CrashInv
<1>6. CASE UNCHANGED vars
  BY <1>6 DEF vars, batch, StoreInv, Types, OwnSlices, BatchInv, Meant, FlushInv, Stored, LastGiven, Content
<1> QED
  BY <1>1, <1>2, <1>3, <1>4, <1>5, <1>6 DEF Next

THEOREM StoreInvariant == Spec => []StoreInv
  BY StoreInit, StoreNext, PTL DEF Spec

\* The variables of the stores have their types.
THEOREM StoreTypeCorrect == Spec => []TypeOK
<1>1. StoreInv => TypeOK
  <2> SUFFICES ASSUME StoreInv PROVE TypeOK
    OBVIOUS
  <2>1. \A j \in DOMAIN ops : ops[j].key \in Keys /\ ops[j].slice \in Slots \cup {Absent}
    BY OpType DEF StoreInv, Types, Slots
  <2>2. \A j \in DOMAIN given : given[j].key \in Keys /\ given[j].value \in Values \cup {Absent}
    BY GiftType DEF StoreInv, Types, Gift
  <2>3. next \in 0..MaxOps + 1
    BY SlotsDiffer DEF StoreInv, Types
  <2> QED
    BY <2>1, <2>2, <2>3 DEF TypeOK, StoreInv, Types
<1> QED
  BY StoreInvariant, <1>1, PTL

\* memoryBatch.Flush and badgerBatch.Flush: a flush that returned nil left under every
\* key what the batch was last given for it, however many transactions, failures and
\* retries there were, if nobody else wrote that key and a memory batch's slices were
\* left alone.
THEOREM FlushesAsGiven == Spec => []FlushedAsGiven
<1>1. StoreInv => FlushedAsGiven
  <2> SUFFICES ASSUME StoreInv, told = "nil", ~reused, NEW j \in DOMAIN given, given[j].key \notin others,
                      \A l \in DOMAIN given : given[l].key = given[j].key => l <= j
               PROVE  Content(given[j].key) = given[j].value
    BY DEF FlushedAsGiven
  <2>1. DOMAIN given = 1..Len(given)
    BY DEF StoreInv, Types
  <2> QED
    BY <2>1 DEF StoreInv, FlushInv, Stored, LastGiven
<1> QED
  BY StoreInvariant, <1>1, PTL

\* Set and Get of both stores: a caller that writes to a slice it has passed in or got
\* back does not change what is stored.
THEOREM CallersCannotReachIn == Spec => StoredByCallsOnly
<1>1. StoreInv /\ [Next]_vars =>
        [\A b \in Buffers, v \in Values : Write(b, v) => \A k \in Keys : Content(k)' = Content(k)]_vars
  <2> SUFFICES ASSUME StoreInv, NEW b \in Buffers, NEW v \in Values, Write(b, v), NEW k \in Keys
               PROVE  Content(k)' = Content(k)
    OBVIOUS
  <2>1. heap' = [heap EXCEPT ![b] = v] /\ data' = data /\ data[k] \in {k, Absent} /\ k # b /\ heap \in [Slots -> Values]
    BY SlotsDiffer DEF Write, StoreInv, OwnSlices, Types
  <2>2. k \in Slots /\ heap'[k] = heap[k]
    BY <2>1 DEF Slots
  <2> QED
    BY <2>1, <2>2 DEF Content
<1> QED
  BY StoreInvariant, <1>1, PTL DEF Spec, StoredByCallsOnly
=============================================================================
