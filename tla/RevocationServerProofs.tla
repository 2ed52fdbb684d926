----------------------- MODULE RevocationServerProofs ----------------------
(***************************************************************************)
(* Theorems about RevocationServer, for every sequence of issuers, every   *)
(* set of CRL numbers, every word size and every bound.                    *)
(*                                                                         *)
(* PairsFromOneCRL is not inductive: what the watcher will install depends *)
(* on the version it holds, and that variable is shared with the download  *)
(* of main's start-up.  ServerInv adds which phases exclude each other,    *)
(* what the version, the file and the entry are in each, and that the      *)
(* numbers of one issuer's CRLs increase.                                  *)
(***************************************************************************)
EXTENDS RevocationServer, TLAPS, SequenceTheorems

\* Before main serves there is no goroutine but main's.
PhaseInv ==
  /\ phase \in {"down", "boot"} => watch = "none" /\ exports = {}
  /\ phase = "down" => \A i \in Issuers : entry[i] = Absent

\* What main's start-up knows: nothing is loaded yet of the issuers that are left,
\* and the file a download is being copied to has been truncated.
BootInv ==
  phase = "boot" =>
    /\ \A j, k \in DOMAIN boot : boot[j] = boot[k] => j = k
    /\ \A k \in DOMAIN boot : entry[boot[k]] = Absent
    /\ boot # <<>> /\ stage = "copy" =>
         disk[loaded] = Partial /\ (version = 0 \/ version \in DOMAIN crls[loaded])

\* What the watcher knows of the CRL it has fetched.
WatchInv ==
  todo # <<>> =>
    /\ watch \in {"check", "build"} => version \in DOMAIN crls[issuer]
    /\ watch = "build" => ~NotNewer(issuer, crls[issuer][version])

\* MOICA's numbers increase.
Ordered ==
  \A i \in Issuers : \A v, w \in DOMAIN crls[i] :
    v < w /\ crls[i][v] # NoNumber /\ crls[i][w] # NoNumber => crls[i][v] < crls[i][w]

ServerInv == TypeOK /\ PhaseInv /\ BootInv /\ WatchInv /\ Ordered /\ PairsFromOneCRL

-----------------------------------------------------------------------------
\* A number that fits a word.
LEMMA Uint64Type ==
  ASSUME NEW n \in Numbers
  PROVE  Uint64(n) \in 0..(Word - 1)
<1>1. CASE n = NoNumber
  BY <1>1, WordAssumption DEF Uint64
<1>2. CASE n # NoNumber
  <2>1. n \in Nat /\ Word \in Nat /\ Word > 0
    BY <1>2, NumbersAssumption, WordAssumption
  <2>2. n % Word \in 0..(Word - 1)
    BY <2>1
  <2> QED
    BY <1>2, <2>2 DEF Uint64
<1> QED
  BY <1>1, <1>2

\* Every published CRL gives a well-formed snapshot.
LEMMA SnapshotType ==
  ASSUME TypeOK, NEW i \in Issuers, NEW v \in DOMAIN crls[i]
  PROVE  SnapshotOf(i, v) \in Snapshot /\ SnapshotOf(i, v).tree = v
<1>1. crls[i] \in Seq(Numbers)
  BY DEF TypeOK
<1>2. v \in Nat \ {0} /\ crls[i][v] \in Numbers
  BY <1>1
<1>3. Uint64(crls[i][v]) \in 0..(Word - 1)
  BY <1>2, Uint64Type
<1> QED
  BY <1>2, <1>3 DEF SnapshotOf, Snapshot

\* Published snapshots are well formed.
LEMMA PublishedType ==
  ASSUME TypeOK, NEW i \in Issuers, NEW s \in Published(i)
  PROVE  s \in Snapshot /\ s.tree \in DOMAIN crls[i] /\ s = SnapshotOf(i, s.tree)
  BY SnapshotType DEF Published

\* Publishing takes no CRL away.
LEMMA PublishGrows ==
  ASSUME TypeOK, NEW j \in Issuers, NEW n \in Numbers, Publish(j, n), NEW i \in Issuers
  PROVE  /\ crls' \in [Issuers -> Seq(Numbers)]
         /\ DOMAIN crls[i] \subseteq DOMAIN crls'[i]
         /\ \A v \in DOMAIN crls[i] : crls'[i][v] = crls[i][v]
         /\ Published(i) \subseteq Published(i)'
<1>1. crls[i] \in Seq(Numbers) /\ crls[j] \in Seq(Numbers) /\ crls \in [Issuers -> Seq(Numbers)]
  BY DEF TypeOK
<1>2. crls' = [crls EXCEPT ![j] = Append(crls[j], n)]
  BY DEF Publish
<1>3. crls' \in [Issuers -> Seq(Numbers)]
  BY <1>1, <1>2
<1>4. /\ DOMAIN crls[i] \subseteq DOMAIN crls'[i]
      /\ \A v \in DOMAIN crls[i] : crls'[i][v] = crls[i][v]
  BY <1>1, <1>2
<1>5. Published(i) \subseteq Published(i)'
  BY <1>4 DEF Published, SnapshotOf
<1> QED
  BY <1>3, <1>4, <1>5

\* Publishing keeps the numbers in order.
LEMMA PublishOrdered ==
  ASSUME TypeOK, Ordered, NEW j \in Issuers, NEW n \in Numbers, Publish(j, n)
  PROVE  Ordered'
<1>1. /\ crls[j] \in Seq(Numbers) /\ crls \in [Issuers -> Seq(Numbers)]
      /\ crls' = [crls EXCEPT ![j] = Append(crls[j], n)]
      /\ n # NoNumber => \A v \in DOMAIN crls[j] : crls[j][v] # NoNumber => n > crls[j][v]
  BY DEF TypeOK, Publish
<1>2. ASSUME NEW i \in Issuers, NEW v \in DOMAIN crls'[i], NEW w \in DOMAIN crls'[i],
             v < w, crls'[i][v] # NoNumber, crls'[i][w] # NoNumber
      PROVE  crls'[i][v] < crls'[i][w]
  <2>1. CASE i # j
    BY <2>1, <1>1, <1>2 DEF Ordered
  <2>2. CASE i = j
    <3>1. crls'[i] = Append(crls[j], n)
      BY <1>1, <2>2
    <3>2. v \in DOMAIN crls[j] /\ crls'[i][v] = crls[j][v]
      BY <3>1, <1>1, <1>2
    <3>3. CASE w \in DOMAIN crls[j]
      <4>1. crls'[i][w] = crls[j][w]
        BY <3>1, <1>1, <3>3
      <4> QED
        BY <4>1, <3>2, <3>3, <1>2 DEF Ordered
    <3>4. CASE w \notin DOMAIN crls[j]
      <4>1. crls'[i][w] = n
        BY <3>1, <1>1, <3>4
      <4>2. n \in Nat /\ crls[j][v] \in Nat
        <5>1. crls[j][v] \in Numbers /\ crls[j][v] # NoNumber /\ n # NoNumber
          BY <4>1, <3>2, <1>1, <1>2
        <5> QED
          BY <5>1, NumbersAssumption
      <4> QED
        BY <4>1, <4>2, <3>2, <1>1, <1>2
    <3> QED
      BY <3>3, <3>4
  <2> QED
    BY <2>1, <2>2
<1> QED
  BY <1>2 DEF Ordered

\* What a write leaves at a file of issuer j, by itself or after a loss of power.
LEMMA WritesKeeps ==
  ASSUME ServerInv, NEW j \in Issuers, NEW content \in Published(j) \cup {Absent, Partial}, Writes(j, content)
  PROVE  /\ disk' = [disk EXCEPT ![j] = content]
         /\ disk' \in [Issuers -> Snapshot \cup {Absent, Partial}]
         /\ remains' \in [Issuers -> SUBSET (Snapshot \cup {Absent, Partial})]
         /\ \A i \in Issuers : {disk'[i]} \cup remains'[i] \subseteq Published(i) \cup {Absent, Partial}
<1>1. content \in Snapshot \cup {Absent, Partial}
  BY PublishedType DEF ServerInv
<1>2. /\ disk \in [Issuers -> Snapshot \cup {Absent, Partial}]
      /\ remains \in [Issuers -> SUBSET (Snapshot \cup {Absent, Partial})]
  BY DEF ServerInv, TypeOK
<1>3. \A i \in Issuers : {disk[i]} \cup remains[i] \subseteq Published(i) \cup {Absent, Partial}
  BY DEF ServerInv, PairsFromOneCRL
<1>4. disk' = [disk EXCEPT ![j] = content]
  BY DEF Writes
<1>5. \/ remains' = remains
      \/ remains' = [remains EXCEPT ![j] = @ \cup {content, Partial}]
  BY DEF Writes
<1>6. remains' \in [Issuers -> SUBSET (Snapshot \cup {Absent, Partial})]
  BY <1>1, <1>2, <1>5
<1>7. \A i \in Issuers : remains'[i] \subseteq Published(i) \cup {Absent, Partial}
  BY <1>2, <1>3, <1>5
<1>8. \A i \in Issuers : disk'[i] \in Published(i) \cup {Absent, Partial}
  BY <1>2, <1>3, <1>4
<1> QED
  BY <1>1, <1>2, <1>4, <1>6, <1>7, <1>8

\* The issuers left after the first one are other ones.
LEMMA OthersLeft ==
  ASSUME ServerInv, phase = "boot", boot # <<>>
  PROVE  /\ loaded \in Issuers /\ Tail(boot) \in Seq(Issuers)
         /\ \A k \in DOMAIN Tail(boot) :
              k + 1 \in DOMAIN boot /\ Tail(boot)[k] = boot[k + 1] /\ boot[k + 1] # loaded
         /\ entry[loaded] = Absent
<1>1. boot \in Seq(Issuers)
  BY DEF ServerInv, TypeOK
<1>2. loaded = boot[1] /\ 1 \in DOMAIN boot
  BY <1>1, EmptySeq DEF loaded
<1>3. loaded \in Issuers /\ Tail(boot) \in Seq(Issuers)
  BY <1>1, <1>2
<1>4. \A k \in DOMAIN Tail(boot) : k \in Nat \ {0} /\ k + 1 \in DOMAIN boot /\ Tail(boot)[k] = boot[k + 1]
  BY <1>1
<1>5. \A k \in DOMAIN Tail(boot) : boot[k + 1] # loaded
  BY <1>2, <1>4 DEF ServerInv, BootInv
<1> QED
  BY <1>2, <1>3, <1>4, <1>5 DEF ServerInv, BootInv

-----------------------------------------------------------------------------
(* The invariant is inductive.                                             *)

\* The server starts down, with nothing published, released or stored.
LEMMA InvInit == Init => ServerInv
  BY IssuersAssumption, EmptySeq, BoundsAssumption, AbsentAssumption
     DEF Init, ServerInv, TypeOK, PhaseInv, BootInv, WatchInv, Ordered, PairsFromOneCRL, Published

\* main's steps through the issuers, which publish nothing and export nothing.
LEMMA BootStepKeeps == ServerInv /\ BootStep => ServerInv'
<1> SUFFICES ASSUME ServerInv, BootStep PROVE ServerInv'
  OBVIOUS
<1>1. UNCHANGED env
  BY DEF BootStep, Boot, ImportOk, ImportFails, ReimportFails, DownloadFails, DownloadBegins, CopyOk, CopyFails,
         DownloadStalls, Serve
<1>2. Ordered'
  BY <1>1 DEF ServerInv, Ordered, env
<1>3. \A i \in Issuers : Published(i)' = Published(i)
  BY <1>1 DEF Published, SnapshotOf, env
<1> SUFFICES TypeOK' /\ PhaseInv' /\ BootInv' /\ WatchInv' /\ PairsFromOneCRL'
  BY <1>2 DEF ServerInv
<1> USE DEF ServerInv, TypeOK, PhaseInv, BootInv, WatchInv, PairsFromOneCRL, env, files
<1>4. CASE Boot
  BY <1>3, <1>4, IssuersAssumption DEF Boot
<1>5. CASE Serve
  BY <1>3, <1>5, IssuersAssumption DEF Serve
<1>6. CASE ImportFails
  BY <1>3, <1>6 DEF ImportFails, Loading
<1>7. CASE DownloadStalls
  BY <1>3, <1>7 DEF DownloadStalls, Loading
<1>8. CASE ImportOk
  <2>1. phase = "boot" /\ boot # <<>> /\ disk[loaded] \notin {Absent, Partial}
    BY <1>8 DEF ImportOk, Loading, Importable
  <2>2. /\ entry' = [entry EXCEPT ![loaded] = disk[loaded]] /\ boot' = Tail(boot) /\ stage' = "import"
        /\ UNCHANGED <<crls, release, disk, remains, phase, watch, todo, version, exports, stops>>
    BY <1>8 DEF ImportOk, NextBoot
  <2>3. entry' \in [Issuers -> Snapshot \cup {Absent}]
    BY <2>1, <2>2, OthersLeft
  <2>4. \A j, k \in DOMAIN boot' : boot'[j] = boot'[k] => j = k
    BY <2>1, <2>2, OthersLeft
  <2>5. \A k \in DOMAIN boot' : entry'[boot'[k]] = Absent
    BY <2>1, <2>2, OthersLeft
  <2>6. PairsFromOneCRL'
    BY <1>3, <2>1, <2>2, OthersLeft
  <2>7. WatchInv'
    BY <2>1, <2>2
  <2> QED
    BY <2>1, <2>2, <2>3, <2>4, <2>5, <2>6, <2>7, OthersLeft
<1>9. CASE ReimportFails \/ DownloadFails
  <2>1. phase = "boot" /\ boot # <<>>
    BY <1>9 DEF ReimportFails, DownloadFails, Loading
  <2>2. /\ boot' = Tail(boot) /\ stage' = "import"
        /\ UNCHANGED <<crls, release, disk, remains, phase, entry, watch, todo, version, exports, stops>>
    BY <1>9 DEF ReimportFails, DownloadFails, NextBoot
  <2>3. /\ \A j, k \in DOMAIN boot' : boot'[j] = boot'[k] => j = k
        /\ \A k \in DOMAIN boot' : entry'[boot'[k]] = Absent
    BY <2>1, <2>2, OthersLeft
  <2> QED
    BY <1>3, <2>1, <2>2, <2>3, OthersLeft
<1>10. CASE DownloadBegins
  <2>1. phase = "boot" /\ boot # <<>> /\ release[loaded] # Absent /\ Writes(loaded, Partial)
    BY <1>10 DEF DownloadBegins, Loading
  <2>2. /\ version' = IF release[loaded] = Partial THEN 0 ELSE release[loaded].tree
        /\ stage' = "copy"
        /\ UNCHANGED <<crls, release, phase, boot, entry, watch, todo, exports, stops>>
    BY <1>10 DEF DownloadBegins
  <2>3. loaded \in Issuers
    BY <2>1, OthersLeft
  <2>4. release[loaded] \in Published(loaded) \cup {Partial}
    BY <2>1, <2>3
  <2>5. version' \in Nat /\ (version' = 0 \/ version' \in DOMAIN crls[loaded])
    <3>1. \A s \in Published(loaded) : s.tree \in Nat /\ s.tree \in DOMAIN crls[loaded]
      BY <2>3, PublishedType DEF Snapshot
    <3> QED
      BY <2>2, <2>4, <3>1
  <2>6. /\ disk' = [disk EXCEPT ![loaded] = Partial]
        /\ disk' \in [Issuers -> Snapshot \cup {Absent, Partial}]
        /\ remains' \in [Issuers -> SUBSET (Snapshot \cup {Absent, Partial})]
        /\ \A i \in Issuers : {disk'[i]} \cup remains'[i] \subseteq Published(i) \cup {Absent, Partial}
    BY <2>1, <2>3, WritesKeeps
  <2>7. TypeOK'
    BY <2>2, <2>5, <2>6
  <2>8. BootInv'
    BY <2>2, <2>3, <2>5, <2>6 DEF loaded
  <2>9. PairsFromOneCRL'
    BY <1>3, <2>2, <2>6
  <2> QED
    BY <2>1, <2>2, <2>7, <2>8, <2>9
<1>11. CASE CopyOk
  <2>1. phase = "boot" /\ boot # <<>> /\ stage = "copy"
    BY <1>11 DEF CopyOk, Loading
  <2>2. /\ Writes(loaded, IF version = 0 THEN Partial ELSE SnapshotOf(loaded, version))
        /\ stage' = "reimport" /\ version' = 0
        /\ UNCHANGED <<crls, release, phase, boot, entry, watch, todo, exports, stops>>
    BY <1>11 DEF CopyOk
  <2>3. loaded \in Issuers
    BY <2>1, OthersLeft
  <2>4. (IF version = 0 THEN Partial ELSE SnapshotOf(loaded, version)) \in Published(loaded) \cup {Absent, Partial}
    BY <2>1 DEF Published
  <2>5. /\ disk' \in [Issuers -> Snapshot \cup {Absent, Partial}]
        /\ remains' \in [Issuers -> SUBSET (Snapshot \cup {Absent, Partial})]
        /\ \A i \in Issuers : {disk'[i]} \cup remains'[i] \subseteq Published(i) \cup {Absent, Partial}
    BY <2>2, <2>3, <2>4, WritesKeeps
  <2>6. TypeOK'
    BY <2>2, <2>5
  <2>7. PairsFromOneCRL'
    BY <1>3, <2>2, <2>5
  <2> QED
    BY <2>1, <2>2, <2>6, <2>7
<1>12. CASE CopyFails
  <2>1. phase = "boot" /\ boot # <<>> /\ stage = "copy"
    BY <1>12 DEF CopyFails, Loading
  <2>2. PICK left \in {Absent, Partial} : Writes(loaded, left)
    BY <1>12 DEF CopyFails
  <2>3. /\ boot' = Tail(boot) /\ stage' = "import" /\ version' = 0
        /\ UNCHANGED <<crls, release, phase, entry, watch, todo, exports, stops>>
    BY <1>12 DEF CopyFails, NextBoot
  <2>4. loaded \in Issuers /\ boot' \in Seq(Issuers)
    BY <2>1, <2>3, OthersLeft
  <2>5. /\ disk' \in [Issuers -> Snapshot \cup {Absent, Partial}]
        /\ remains' \in [Issuers -> SUBSET (Snapshot \cup {Absent, Partial})]
        /\ \A i \in Issuers : {disk'[i]} \cup remains'[i] \subseteq Published(i) \cup {Absent, Partial}
    BY <2>2, <2>4, WritesKeeps
  <2>6. TypeOK'
    BY <2>3, <2>4, <2>5
  <2>7. PairsFromOneCRL'
    BY <1>3, <2>3, <2>5
  <2>8. \A j, k \in DOMAIN boot' : boot'[j] = boot'[k] => j = k
    BY <2>1, <2>3, OthersLeft
  <2>9. \A k \in DOMAIN boot' : entry'[boot'[k]] = Absent
    BY <2>1, <2>3, OthersLeft
  <2> QED
    BY <2>1, <2>3, <2>6, <2>7, <2>8, <2>9
<1> QED
  BY <1>4, <1>5, <1>6, <1>7, <1>8, <1>9, <1>10, <1>11, <1>12 DEF BootStep

\* The end of the process, or of the machine's power.
LEMMA StopsKeep == ServerInv /\ (Crash \/ PowerLoss \/ Exit) => ServerInv'
<1> SUFFICES ASSUME ServerInv, Crash \/ PowerLoss \/ Exit PROVE ServerInv'
  OBVIOUS
<1> USE DEF ServerInv, TypeOK, PhaseInv, BootInv, WatchInv, PairsFromOneCRL, env, files
<1>1. Gone /\ stops' \in Nat
  BY DEF Crash, PowerLoss, Exit
<1>2. /\ disk' \in [Issuers -> Snapshot \cup {Absent, Partial}]
      /\ remains' \in [Issuers -> SUBSET (Snapshot \cup {Absent, Partial})]
      /\ \A i \in Issuers : {disk'[i]} \cup remains'[i] \subseteq {disk[i]} \cup remains[i]
  <2>1. CASE PowerLoss
    <3>1. /\ disk' \in [Issuers -> UNION {remains[i] : i \in Issuers}]
          /\ \A i \in Issuers : disk'[i] \in remains[i]
          /\ remains' = [i \in Issuers |-> {disk'[i]}]
      BY <2>1 DEF PowerLoss
    <3>2. \A i \in Issuers : disk'[i] \in Snapshot \cup {Absent, Partial}
      BY <3>1
    <3> QED
      BY <3>1, <3>2
  <2>2. CASE Crash \/ Exit
    BY <2>2 DEF Crash, Exit
  <2> QED
    BY <2>1, <2>2
<1>3. \A i \in Issuers : Published(i)' = Published(i)
  BY <1>1 DEF Gone, Published, SnapshotOf
<1>4. Ordered'
  BY <1>1 DEF Gone, Ordered
<1>5. PairsFromOneCRL'
  BY <1>1, <1>2, <1>3 DEF Gone
<1> QED
  BY <1>1, <1>2, <1>4, <1>5, EmptySeq DEF Gone

\* A state the invariant allows steps to another one: one case per action.
LEMMA InvNext == ServerInv /\ [Next]_vars => ServerInv'
<1> SUFFICES ASSUME ServerInv, [Next]_vars PROVE ServerInv'
  OBVIOUS
<1> USE DEF ServerInv, TypeOK, PhaseInv, BootInv, WatchInv, PairsFromOneCRL, Published, SnapshotOf
<1>1. CASE \E i \in Issuers, n \in Numbers : Publish(i, n)
  <2>1. PICK j \in Issuers, n \in Numbers : Publish(j, n)
    BY <1>1
  <2>2. UNCHANGED <<release, disk, remains, phase, boot, stage, entry, watch, todo, version, exports, stops>>
    BY <2>1 DEF Publish, files
  <2>3. /\ crls' \in [Issuers -> Seq(Numbers)]
        /\ \A i \in Issuers : /\ DOMAIN crls[i] \subseteq DOMAIN crls'[i]
                              /\ \A v \in DOMAIN crls[i] : crls'[i][v] = crls[i][v]
                              /\ Published(i) \subseteq Published(i)'
    BY <2>1, PublishGrows
  <2>4. TypeOK'
    BY <2>2, <2>3
  <2>5. PhaseInv'
    BY <2>2
  <2>6. BootInv'
    <3>1. phase = "boot" /\ boot # <<>> => loaded \in Issuers
      BY OthersLeft
    <3> QED
      BY <2>2, <2>3, <3>1 DEF loaded
  <2>7. WatchInv'
    <3> SUFFICES ASSUME todo # <<>>
                 PROVE  /\ watch \in {"check", "build"} => version \in DOMAIN crls'[issuer]
                        /\ watch = "build" => ~NotNewer(issuer, crls'[issuer][version])
      BY <2>2 DEF NotNewer, issuer
    <3>1. issuer \in Issuers
      BY HeadTailProperties DEF issuer
    <3> QED
      BY <2>3, <3>1
  <2>8. PairsFromOneCRL'
    BY <2>2, <2>3
  <2>9. Ordered'
    BY <2>1, PublishOrdered
  <2> QED
    BY <2>4, <2>5, <2>6, <2>7, <2>8, <2>9
<1>2. CASE \E i \in Issuers : Release(i)
  <2>1. PICK j \in Issuers : Release(j)
    BY <1>2
  <2>2. UNCHANGED <<crls, disk, remains, phase, boot, stage, entry, watch, todo, version, exports, stops>>
    BY <2>1 DEF Release, files
  <2>3. \E a \in Published(j) \cup {Absent, Partial} : release' = [release EXCEPT ![j] = a]
    BY <2>1 DEF Release
  <2>4. TypeOK'
    BY <2>2, <2>3, PublishedType
  <2>5. PhaseInv' /\ BootInv' /\ WatchInv' /\ Ordered'
    BY <2>2 DEF NotNewer, issuer, loaded, Ordered
  <2>6. PairsFromOneCRL'
    BY <2>2, <2>3
  <2> QED
    BY <2>4, <2>5, <2>6
<1>3. CASE BootStep
  BY <1>3, BootStepKeeps
<1>4. CASE Crash \/ PowerLoss \/ Exit
  BY <1>4, StopsKeep
<1>5. CASE Polling
  <2>1. UNCHANGED <<crls, release, disk, remains, phase, boot, stage, entry, exports, stops>>
    BY <1>5 DEF Polling, FetchFails, FetchOk, FetchStalls, Skip, Rebuild, Sleep, Tick, WatcherReturns, env, files
  <2>2. Ordered' /\ PairsFromOneCRL'
    BY <2>1 DEF Ordered
  <2>3. CASE FetchFails \/ Skip
    <3>1. todo # <<>> /\ watch # "none" /\ watch' = "fetch" /\ todo' = Tail(todo) /\ version' = 0
      BY <2>3 DEF FetchFails, Skip, Working, NextIssuer
    <3>2. todo' \in Seq(Issuers) /\ phase # "boot"
      BY <3>1
    <3> QED
      BY <2>1, <2>2, <3>1, <3>2
  <2>4. CASE \E v \in 1..MaxVersions : FetchOk(v)
    BY <2>1, <2>2, <2>4, BoundsAssumption DEF FetchOk, Working, issuer
  <2>5. CASE Rebuild
    BY <2>1, <2>2, <2>5 DEF Rebuild, Working, NotNewer, issuer
  <2>6. CASE FetchStalls \/ Sleep \/ WatcherReturns
    BY <2>1, <2>2, <2>6 DEF FetchStalls, Sleep, WatcherReturns, Working, loaded
  <2>7. CASE Tick
    BY <2>1, <2>2, <2>7, IssuersAssumption DEF Tick, loaded
  <2> QED
    BY <1>5, <2>3, <2>4, <2>5, <2>6, <2>7 DEF Polling
<1>6. CASE Install
  <2>1. /\ watch = "build" /\ todo # <<>>
        /\ entry' = [entry EXCEPT ![issuer] = Built]
        /\ exports' = exports \cup {[issuer |-> issuer, snapshot |-> Built]}
        /\ watch' = "fetch" /\ todo' = Tail(todo) /\ version' = 0
        /\ UNCHANGED <<crls, release, disk, remains, phase, boot, stage, stops>>
    BY <1>6 DEF Install, Working, NextIssuer, env, files
  <2>2. issuer \in Issuers /\ todo' \in Seq(Issuers) /\ phase \notin {"down", "boot"}
    BY <2>1, HeadTailProperties DEF issuer
  <2>3. Built \in Published(issuer)
    BY <2>1 DEF Built
  <2>4. Built \in Snapshot
    BY <2>2, <2>3, PublishedType
  <2>5. TypeOK'
    BY <2>1, <2>2, <2>4
  <2>6. PhaseInv' /\ BootInv' /\ WatchInv' /\ Ordered'
    BY <2>1, <2>2 DEF Ordered
  <2>7. PairsFromOneCRL'
    BY <2>1, <2>2, <2>3
  <2> QED
    BY <2>5, <2>6, <2>7
<1>7. CASE ExportStep
  <2>1. PICK x \in exports : ExportOk(x) \/ ExportFails(x) \/ ExportTruncates(x)
    BY <1>7 DEF ExportStep
  <2>2. /\ exports' = exports \ {x}
        /\ UNCHANGED <<crls, release, phase, boot, stage, entry, watch, todo, version, stops>>
    BY <2>1 DEF ExportOk, ExportFails, ExportTruncates, env
  <2>3. x.issuer \in Issuers /\ x.snapshot \in Published(x.issuer)
    OBVIOUS
  <2>4. \/ UNCHANGED files
        \/ \E content \in {x.snapshot, Partial} : Writes(x.issuer, content)
    BY <2>1 DEF ExportOk, ExportFails, ExportTruncates, Destination
  <2>5. /\ disk' \in [Issuers -> Snapshot \cup {Absent, Partial}]
        /\ remains' \in [Issuers -> SUBSET (Snapshot \cup {Absent, Partial})]
        /\ \A i \in Issuers : {disk'[i]} \cup remains'[i] \subseteq Published(i) \cup {Absent, Partial}
    <3>1. CASE UNCHANGED files
      BY <3>1 DEF files
    <3>2. CASE \E content \in {x.snapshot, Partial} : Writes(x.issuer, content)
      <4>1. PICK content \in {x.snapshot, Partial} : Writes(x.issuer, content)
        BY <3>2
      <4>2. content \in Published(x.issuer) \cup {Absent, Partial}
        BY <2>3
      <4> HIDE DEF ServerInv, TypeOK, PairsFromOneCRL, Published
      <4> QED
        BY <4>1, <4>2, <2>3, WritesKeeps
    <3> QED
      BY <2>4, <3>1, <3>2
  <2>6. phase \notin {"down", "boot"}
    OBVIOUS
  <2>7. TypeOK'
    BY <2>2, <2>5
  <2>8. PhaseInv' /\ BootInv' /\ WatchInv' /\ Ordered'
    BY <2>2, <2>6 DEF NotNewer, issuer, Ordered
  <2>9. PairsFromOneCRL'
    BY <2>2, <2>5
  <2> QED
    BY <2>7, <2>8, <2>9
<1>8. CASE Signal \/ Drained
  BY <1>8 DEF Signal, Drained, env, files, issuer, NotNewer, Ordered
<1>9. CASE UNCHANGED vars
  BY <1>9 DEF vars, env, files, NotNewer, issuer, loaded, Ordered
<1> QED
  BY <1>1, <1>2, <1>3, <1>4, <1>5, <1>6, <1>7, <1>8, <1>9
     DEF Next, Environment, WatcherStep

\* Hence it holds in every state of every behaviour.
LEMMA InvAlways == Spec => []ServerInv
  BY InvInit, InvNext, PTL DEF Spec

-----------------------------------------------------------------------------
\* The variables keep their types.
THEOREM TypeCorrect == Spec => []TypeOK
<1>1. ServerInv => TypeOK
  BY DEF ServerInv
<1> QED
  BY <1>1, InvAlways, PTL

\* Whatever the server serves, stores, downloads or exports for an issuer is the
\* tree of one CRL of that issuer with that CRL's number (main.go's loop,
\* fetchAndRebuild, ExportFile, Download).
THEOREM PairsCorrect == Spec => []PairsFromOneCRL
<1>1. ServerInv => PairsFromOneCRL
  BY DEF ServerInv
<1> QED
  BY <1>1, InvAlways, PTL

\* fetchAndRebuild's comparison, with mirrors that lag: between two ends of the
\* process an older CRL's tree replaces a newer one's only when the older CRL has
\* no number, or when the newer one has none or one above 64 bits. So it never
\* does for an issuer whose CRLs are all numbered within 64 bits.
THEOREM NeverOlder == Spec => NeverReplacedByOlder
<1> DEFINE Forward(i) ==
      entry[i] # Absent /\ entry'[i] # Absent /\ entry'[i].tree < entry[i].tree =>
        \/ crls[i][entry'[i].tree] = NoNumber
        \/ ~Fits(crls[i][entry[i].tree])
<1>1. ASSUME ServerInv, [Next]_vars, NEW i \in Issuers PROVE Forward(i)
  <2> USE <1>1 DEF ServerInv
  <2>1. CASE ImportOk
    <3>1. loaded \in Issuers /\ entry[loaded] = Absent /\ entry' = [entry EXCEPT ![loaded] = disk[loaded]]
      BY <2>1, OthersLeft DEF ImportOk, Loading
    <3>2. i # loaded => entry'[i] = entry[i]
      BY <3>1 DEF TypeOK
    <3> QED
      BY <3>1, <3>2 DEF TypeOK, Snapshot
  <2>2. CASE Install
    <3>1. i # issuer => entry'[i] = entry[i]
      BY <2>2 DEF Install, TypeOK
    <3>2. ASSUME i = issuer, entry[i] # Absent, entry'[i].tree < entry[i].tree,
                 crls[i][entry'[i].tree] # NoNumber, Fits(crls[i][entry[i].tree])
          PROVE  FALSE
      <4> DEFINE old == crls[i][version]
                 new == crls[i][entry[i].tree]
      <4>1. version \in DOMAIN crls[i] /\ ~NotNewer(i, old)
        BY <2>2, <3>2 DEF Install, Working, WatchInv
      <4>2. entry'[i] = SnapshotOf(i, version) /\ entry'[i].tree = version
        BY <2>2, <3>2, <4>1, SnapshotType DEF Install, Built, TypeOK
      <4>3. /\ entry[i].tree \in DOMAIN crls[i]
            /\ entry[i].number = Uint64(new)
        BY <3>2, PublishedType DEF PairsFromOneCRL, SnapshotOf
      <4>4. old \in Nat /\ new \in Nat /\ new < Word /\ Word \in Nat \ {0}
        <5>1. crls[i] \in Seq(Numbers)
          BY DEF TypeOK
        <5>2. old \in Numbers \ {NoNumber} /\ new \in Numbers \ {NoNumber} /\ new < Word
          BY <5>1, <3>2, <4>1, <4>2, <4>3 DEF Fits
        <5> QED
          BY <5>2, NumbersAssumption, WordAssumption
      <4>5. old < new
        BY <3>2, <4>1, <4>2, <4>3 DEF Ordered, Fits
      <4>6. Uint64(old) = old /\ Uint64(new) = new
        BY <4>4, <4>5, NumbersAssumption DEF Uint64
      <4>7. ~(old <= new)
        BY <3>2, <4>1, <4>2, <4>3, <4>6 DEF NotNewer
      <4> QED
        BY <4>4, <4>5, <4>7
    <3> QED
      BY <3>1, <3>2 DEF TypeOK, Snapshot
  <2>3. CASE Gone
    BY <2>3 DEF Gone
  <2>4. CASE UNCHANGED entry
    BY <2>4 DEF TypeOK, Snapshot
  <2> QED
    BY <1>1, <2>1, <2>2, <2>3, <2>4 DEF Next, Environment, BootStep, Polling, WatcherStep, ExportStep, vars,
       Publish, Release, Boot, ImportFails, ReimportFails, DownloadFails, DownloadBegins, CopyOk, CopyFails,
       DownloadStalls, Serve, FetchFails, FetchOk, FetchStalls, Skip, Rebuild, Sleep, Tick, WatcherReturns,
       ExportOk, ExportFails, ExportTruncates, Crash, PowerLoss, Signal, Drained, Exit
<1>2. ServerInv /\ [Next]_vars => [\A i \in Issuers : Forward(i)]_vars
  BY <1>1
<1> QED
  BY <1>2, InvAlways, PTL DEF Spec, NeverReplacedByOlder

\* A snapshot file that can be imported is lost only when main could not read it at
\* its start and downloads over it, when the power fails before the kernel has
\* written it, or when gzip's last flush fails: a copy that fails only spoils what the
\* download had truncated, and every other writer renames a complete file.
THEOREM GoodFilesSurvive == Spec => GoodFileSurvives
<1> DEFINE Survives(i) ==
      Importable(disk[i]) /\ ~Importable(disk'[i]) =>
        \/ Loading("download") /\ i = loaded
        \/ PowerFaults /\ phase' = "down" /\ disk'[i] \in remains[i]
        \/ FlushFaults /\ disk'[i] = Partial
<1>1. ASSUME ServerInv, [Next]_vars, NEW i \in Issuers PROVE Survives(i)
  <2> USE <1>1 DEF ServerInv
  <2>1. CASE DownloadBegins
    BY <2>1 DEF DownloadBegins, Writes, TypeOK
  <2>2. CASE CopyOk \/ CopyFails
    <3>1. i # loaded => disk'[i] = disk[i]
      BY <2>2 DEF CopyOk, CopyFails, Writes, TypeOK
    <3>2. disk[loaded] = Partial
      BY <2>2 DEF CopyOk, CopyFails, Loading, BootInv
    <3> QED
      BY <3>1, <3>2 DEF Importable
  <2>3. ASSUME NEW x \in exports, ExportOk(x) PROVE Survives(i)
    <3>1. disk'[i] = IF i = x.issuer THEN x.snapshot ELSE disk[i]
      BY <2>3 DEF ExportOk, Destination, Writes, TypeOK
    <3>2. x.snapshot \notin {Absent, Partial}
      BY AbsentAssumption DEF TypeOK
    <3> QED
      BY <3>1, <3>2 DEF Importable
  <2>4. ASSUME NEW x \in exports, ExportTruncates(x) PROVE Survives(i)
    BY <2>4 DEF ExportTruncates, Destination, Writes, TypeOK
  <2>5. CASE PowerLoss
    BY <2>5 DEF PowerLoss, Gone
  <2>6. CASE UNCHANGED disk
    BY <2>6
  <2> QED
    BY <1>1, <2>1, <2>2, <2>3, <2>4, <2>5, <2>6
       DEF Next, Environment, BootStep, Polling, WatcherStep, ExportStep, vars, env, files,
       Publish, Release, Boot, ImportOk, ImportFails, ReimportFails, DownloadFails, DownloadStalls, Serve,
       FetchFails, FetchOk, FetchStalls, Skip, Rebuild, Install, Sleep, Tick, WatcherReturns, ExportFails,
       Crash, Signal, Drained, Exit
<1>2. ServerInv /\ [Next]_vars => [\A i \in Issuers : Survives(i)]_vars
  BY <1>1
<1> QED
  BY <1>2, InvAlways, PTL DEF Spec, GoodFileSurvives
=============================================================================
