------------------------- MODULE RootPipelineProofs ------------------------
(***************************************************************************)
(* Theorems about RootPipeline, for any number of runs, issuers, CRLs and  *)
(* faults.                                                                 *)
(*                                                                         *)
(* What is on-chain was in some run's working directory when it was sent,  *)
(* so the invariant follows the working directory: what a run checked out  *)
(* was committed; as long as the flag "changed" is not set its root.json   *)
(* files are those or cut short; past the commit step the usable ones are  *)
(* in the history, whichever way the run came there.                       *)
(***************************************************************************)
EXTENDS RootPipeline, TLAPS

Crl   == [root : 1..MaxVersions, number : 1..MaxVersions \cup {NoNumber}]
Files == Info \cup {Absent, Corrupt}
Steps == {"idle", "build", "commit", "check", "delete", "create", "verify", "post", "wait"}

TypeInv ==
  /\ crls \in [Issuers -> Seq(Crl)]
  /\ \A i \in Issuers : Len(crls[i]) <= MaxVersions
  /\ git \in [Issuers -> Files]
  /\ history \subseteq Issuers \X (Info \cup {Corrupt})
  /\ release \in [up : BOOLEAN, assets : [Issuers -> Info \cup {Absent}]]
  /\ pc \in [Runs -> Steps]
  /\ todo \in [Runs -> Seq(Issuers)]
  /\ base \in [Runs -> [Issuers -> Files]]
  /\ work \in [Runs -> [Issuers -> Files]]
  /\ snap \in [Runs -> [Issuers -> Info \cup {Absent}]]
  /\ flags \in [Runs -> [changed : BOOLEAN, force : BOOLEAN, expired : BOOLEAN]]
  /\ pending \subseteq [issuer : Issuers, info : Info]
  /\ chain \in [Issuers -> [root : 0..MaxVersions, number : 0..MaxVersions]]
  /\ faults \in 0..MaxFaults

\* What was committed: everything on the main branch.
GitInHistory == \A i \in Issuers : git[i] # Absent => <<i, git[i]>> \in history

\* Run r and issuer i's files in its working directory.
FileInv(r, i) ==
  /\ base[r][i] # Absent =>
       git[i] # Absent /\ work[r][i] # Absent /\ <<i, base[r][i]>> \in history
  /\ ~flags[r].changed => work[r][i] \in {base[r][i], Corrupt}
  /\ pc[r] \notin {"idle", "build", "commit"} /\ Readable(r, i) => <<i, work[r][i]>> \in history
  /\ ~WriteFaults /\ snap[r][i] # Absent =>
       /\ pc[r] \in {"build", "commit"} => flags[r].changed /\ work[r][i] = snap[r][i]
       /\ pc[r] \notin {"idle", "build", "commit"} => <<i, snap[r][i]>> \in history

RunInv(r) ==
  /\ pc[r] = "wait" => todo[r] # <<>>
  /\ pc[r] = "commit" => flags[r].changed
  /\ \A i \in Issuers : FileInv(r, i)

PipelineInv ==
  /\ TypeInv /\ GitInHistory
  /\ \A r \in Runs : RunInv(r)
  /\ ReleaseWasCommitted /\ OnChainWasCommitted

-----------------------------------------------------------------------------
(* A step of one run leaves the others alone, and nothing is uncommitted.  *)

Monotone ==
  /\ history \subseteq history'
  /\ \A i \in Issuers : git[i] # Absent => git'[i] # Absent

OthersAlone(r) ==
  \A q \in Runs \ {r} :
    /\ pc'[q] = pc[q] /\ todo'[q] = todo[q] /\ base'[q] = base[q]
    /\ work'[q] = work[q] /\ snap'[q] = snap[q] /\ flags'[q] = flags[q]

\* The part of another run's invariant that looks at git and history.
LEMMA RunsKept ==
  ASSUME NEW r, \A q \in Runs : RunInv(q), Monotone, OthersAlone(r), r \in Runs => RunInv(r)'
  PROVE  \A q \in Runs : RunInv(q)'
<1> SUFFICES ASSUME NEW q \in Runs, q # r PROVE RunInv(q)'
  OBVIOUS
<1>1. RunInv(q) /\ pc'[q] = pc[q] /\ todo'[q] = todo[q] /\ base'[q] = base[q]
      /\ work'[q] = work[q] /\ snap'[q] = snap[q] /\ flags'[q] = flags[q]
  BY DEF OthersAlone
<1> QED
  BY <1>1 DEF RunInv, FileInv, Readable, Monotone

\* What the other parts look at.
LEMMA SharedKept ==
  ASSUME PipelineInv, history \subseteq history', release' = release, chain' = chain, pending' = pending, git' = git
  PROVE  GitInHistory' /\ ReleaseWasCommitted' /\ OnChainWasCommitted'
  BY DEF PipelineInv, GitInHistory, ReleaseWasCommitted, OnChainWasCommitted

-----------------------------------------------------------------------------
(* Types.                                                                  *)

\* What the builder fetches is a CRL, and one with a number is usable.
LEMMA CrlType ==
  ASSUME TypeInv, NEW i \in Issuers, NEW c \in Crls(i)
  PROVE  c \in Crl /\ (c.number # NoNumber => c \in Info)
<1>1. PICK v \in DOMAIN crls[i] : c = crls[i][v]
  BY DEF Crls
<1>2. crls[i] \in Seq(Crl)
  BY DEF TypeInv
<1>3. c \in Crl
  BY <1>1, <1>2
<1> QED
  BY <1>3 DEF Crl, Info

LEMMA NewestType ==
  ASSUME TypeInv, NEW i \in Issuers, crls[i] # <<>>
  PROVE  Newest(i) \in Crls(i)
  BY DEF TypeInv, Crls, Newest

\* A step of MOICA.
LEMMA PublishTypes ==
  ASSUME TypeInv, NEW i \in Issuers, Publish(i)
  PROVE  TypeInv'
<1>1. Len(crls[i]) \in Nat /\ Len(crls[i]) + 1 \in 1..MaxVersions /\ crls[i] \in Seq(Crl)
  BY BoundsAssumption DEF TypeInv, Publish
<1>2. PICK c : c \in Crl /\ crls' = [crls EXCEPT ![i] = Append(@, c)]
  <2> DEFINE n == Len(crls[i]) + 1
             Roots == {n} \cup (IF n > 1 THEN {crls[i][n - 1].root} ELSE {})
             Nums == {n} \cup (IF MayOmit THEN {NoNumber} ELSE {})
  <2>1. PICK root \in Roots, number \in Nums :
          crls' = [crls EXCEPT ![i] = Append(@, [root |-> root, number |-> number])]
    BY DEF Publish
  <2>2. number \in 1..MaxVersions \cup {NoNumber}
    BY <1>1, <2>1
  <2>3. root \in 1..MaxVersions
    <3>1. n > 1 => n - 1 \in 1..Len(crls[i])
      BY <1>1
    <3>2. n > 1 => crls[i][n - 1] \in Crl
      BY <1>1, <3>1
    <3> QED
      BY <1>1, <2>1, <3>2 DEF Crl
  <2>4. [root |-> root, number |-> number] \in Crl
    BY <2>2, <2>3 DEF Crl
  <2> QED
    BY <2>1, <2>4
<1>3. crls' \in [Issuers -> Seq(Crl)] /\ \A j \in Issuers : Len(crls'[j]) <= MaxVersions
  <2>1. Append(crls[i], c) \in Seq(Crl) /\ Len(Append(crls[i], c)) <= MaxVersions
    BY <1>1, <1>2, BoundsAssumption
  <2> QED
    BY <1>2, <2>1 DEF TypeInv
<1> QED
  BY <1>3 DEF TypeInv, Publish, job

LEMMA FaultType ==
  ASSUME TypeInv, Fault \/ NoFault
  PROVE  faults' \in 0..MaxFaults
  BY BoundsAssumption DEF TypeInv, Fault, NoFault

LEMMA TodoType ==
  ASSUME TypeInv, NEW r \in Runs, todo[r] # <<>>, NextIssuer(r)
  PROVE  todo' \in [Runs -> Seq(Issuers)]
<1>1. todo[r] \in Seq(Issuers)
  BY DEF TypeInv
<1>2. Tail(todo[r]) \in Seq(Issuers)
  BY <1>1
<1> QED
  BY <1>2 DEF TypeInv, NextIssuer

\* The steps of a run, apart from Commit.
LEMMA RunTypes ==
  ASSUME TypeInv, NEW r \in Runs,
         \/ \E forced \in BOOLEAN : Start(r, forced)
         \/ BuildStep(r) \/ CommitFails(r)
         \/ NoUpload(r) \/ NeedsRelease(r) \/ DeleteRelease(r) \/ DeleteFails(r)
         \/ CreateRelease(r) \/ CreateFails(r)
         \/ VerifyFails(r) \/ VerifyOk(r) \/ (\E i \in Issuers : PostSkip(r, i) \/ Send(r, i)) \/ PostDone(r)
         \/ (RunInv(r) /\ (Mined(r) \/ WaitExpires(r)))
  PROVE  TypeInv'
<1> USE DEF TypeInv
<1>1. ASSUME NEW forced \in BOOLEAN, Start(r, forced) PROVE TypeInv'
  <2>1. [NoFlags EXCEPT !.force = forced] \in [changed : BOOLEAN, force : BOOLEAN, expired : BOOLEAN]
    BY DEF NoFlags
  <2>2. NoFiles \in [Issuers -> Info \cup {Absent}]
    BY DEF NoFiles
  <2> QED
    BY <1>1, <2>1, <2>2, IssuerSeqAssumption DEF Start, Goto, ci, Steps
<1>2. CASE BuildStep(r)
  <2>1. ASSUME NEW i \in Issuers, BuildFails(r, i) PROVE TypeInv'
    BY <2>1, FaultType, TodoType DEF BuildFails, Building, ci
  <2>2. ASSUME NEW i \in Issuers, BuildWriteFails(r, i) PROVE TypeInv'
    <3>1. Newest(i) \in Info
      BY <2>2, NewestType, CrlType DEF BuildWriteFails
    <3>2. PICK content \in {work[r][i], Corrupt} : work' = [work EXCEPT ![r][i] = content]
      BY <2>2 DEF BuildWriteFails
    <3>3. content \in Files
      BY <3>2 DEF Files
    <3>4. work' \in [Runs -> [Issuers -> Files]]
      BY <3>2, <3>3
    <3>5. snap' \in [Runs -> [Issuers -> Info \cup {Absent}]]
      BY <2>2, <3>1 DEF BuildWriteFails
    <3> QED
      BY <2>2, <3>4, <3>5, FaultType, TodoType DEF BuildWriteFails, Building, ci
  <2>3. ASSUME NEW i \in Issuers, NEW c \in Crls(i), BuildSame(r, i, c) PROVE TypeInv'
    BY <2>3, FaultType, TodoType DEF BuildSame, Fetched, Building, ci
  <2>4. ASSUME NEW i \in Issuers, NEW c \in Crls(i), BuildNew(r, i, c) PROVE TypeInv'
    <3>1. c \in Info
      BY <2>4, CrlType DEF BuildNew
    <3>2. work' \in [Runs -> [Issuers -> Files]] /\ snap' \in [Runs -> [Issuers -> Info \cup {Absent}]]
      BY <2>4, <3>1 DEF BuildNew, Files
    <3>3. flags' \in [Runs -> [changed : BOOLEAN, force : BOOLEAN, expired : BOOLEAN]]
      BY <2>4 DEF BuildNew
    <3>4. todo' \in [Runs -> Seq(Issuers)] /\ faults' \in 0..MaxFaults
      BY <2>4, FaultType, TodoType DEF BuildNew, Fetched, Building
    <3> QED
      BY <2>4, <3>2, <3>3, <3>4 DEF BuildNew, ci
  <2>5. ASSUME NEW i \in Issuers, NEW c \in Crls(i), BuildPanics(r, i, c) PROVE TypeInv'
    BY <2>5, FaultType DEF BuildPanics, Fetched, End, Goto, job, ci, Steps
  <2>6. CASE BuildDone(r)
    BY <2>6 DEF BuildDone, Goto, job, ci, Steps
  <2> QED
    BY <1>2, <2>1, <2>2, <2>3, <2>4, <2>5, <2>6 DEF BuildStep
<1>3. CASE CommitFails(r) \/ CreateFails(r) \/ VerifyFails(r) \/ PostDone(r)
  BY <1>3, FaultType DEF CommitFails, CreateFails, VerifyFails, PostDone, End, Goto, job, ci, Steps, NoFault
<1>4. CASE NoUpload(r) \/ NeedsRelease(r)
  BY <1>4, FaultType DEF NoUpload, NeedsRelease, AfterRelease, Goto, job, ci, Steps
<1>5. CASE DeleteRelease(r) \/ DeleteFails(r)
  <2>1. NoRelease \in [up : BOOLEAN, assets : [Issuers -> Info \cup {Absent}]]
    BY DEF NoRelease, NoFiles
  <2> QED
    BY <1>5, <2>1, FaultType DEF DeleteRelease, DeleteFails, Goto, job, ci, Steps
<1>6. CASE CreateRelease(r)
  BY <1>6 DEF CreateRelease, Assets, AfterRelease, Goto, job, Steps
<1>7. CASE VerifyOk(r)
  BY <1>7, IssuerSeqAssumption DEF VerifyOk, Goto, ci, Steps
<1>8. CASE \E i \in Issuers : PostSkip(r, i)
  BY <1>8, FaultType, TodoType DEF PostSkip, Posting, ci
<1>9. ASSUME NEW i \in Issuers, Send(r, i) PROVE TypeInv'
  <2>1. Tx(r, i) \in [issuer : Issuers, info : Info]
    BY <1>9 DEF Send, Sendable, Readable, Tx, Files
  <2> QED
    BY <1>9, <2>1 DEF Send, Goto, ci, job, Steps
<1>10. CASE RunInv(r) /\ (Mined(r) \/ WaitExpires(r))
  <2>1. todo[r] # <<>> /\ NextIssuer(r)
    BY <1>10 DEF RunInv, Mined, WaitExpires
  <2>2. todo' \in [Runs -> Seq(Issuers)]
    BY <2>1, TodoType
  <2>3. CASE Mined(r)
    BY <2>2, <2>3 DEF Mined, Goto, ci, Steps
  <2>4. CASE WaitExpires(r)
    <3>1. flags' \in [Runs -> [changed : BOOLEAN, force : BOOLEAN, expired : BOOLEAN]]
      BY <2>4 DEF WaitExpires
    <3> QED
      BY <2>2, <2>4, <3>1, FaultType DEF WaitExpires, Goto, ci, Steps
  <2> QED
    BY <1>10, <2>3, <2>4
<1> QED
  BY <1>1, <1>2, <1>3, <1>4, <1>5, <1>6, <1>7, <1>8, <1>9, <1>10

\* Commit writes what is in the working directory, no Absent among it.
LEMMA CommitTypes ==
  ASSUME TypeInv, NEW r \in Runs, RunInv(r), Commit(r)
  PROVE  TypeInv'
<1> USE DEF TypeInv
<1>1. \A i \in Modified(r) : work[r][i] \in Info \cup {Corrupt} /\ i \in Issuers
  <2> SUFFICES ASSUME NEW i \in Modified(r) PROVE work[r][i] \in Info \cup {Corrupt} /\ i \in Issuers
    OBVIOUS
  <2>1. i \in Issuers /\ work[r][i] # base[r][i]
    BY DEF Modified
  <2>2. work[r][i] \in Files
    BY <2>1
  <2>3. work[r][i] # Absent
    BY <2>1 DEF RunInv, FileInv
  <2> QED
    BY <2>1, <2>2, <2>3 DEF Files
<1>2. git' \in [Issuers -> Files]
  BY <1>1 DEF Commit, Files
<1>3. history' \subseteq Issuers \X (Info \cup {Corrupt})
  BY <1>1 DEF Commit
<1>4. work' \in [Runs -> [Issuers -> Files]]
  BY <1>2 DEF Commit
<1> QED
  BY <1>2, <1>3, <1>4 DEF Commit, Goto, Steps

\* The contract replaces a record by that of a transaction.
LEMMA MineTypes ==
  ASSUME TypeInv, NEW tx \in pending, Mine(tx)
  PROVE  TypeInv'
<1>1. tx \in [issuer : Issuers, info : Info] /\ pending' \subseteq [issuer : Issuers, info : Info]
  BY DEF TypeInv, Mine
<1>2. tx.issuer \in Issuers /\ tx.info \in [root : 0..MaxVersions, number : 0..MaxVersions]
  BY <1>1, BoundsAssumption DEF Info
<1>3. chain' = chain \/ chain' = [chain EXCEPT ![tx.issuer] = tx.info]
  BY DEF Mine, Contract!SetRoot
<1>4. chain' \in [Issuers -> [root : 0..MaxVersions, number : 0..MaxVersions]]
  BY <1>2, <1>3 DEF TypeInv
<1> QED
  BY <1>1, <1>4 DEF TypeInv, Mine, ci, job

LEMMA TypesNext ==
  ASSUME PipelineInv, [Next]_vars
  PROVE  TypeInv'
<1>1. TypeInv /\ \A r \in Runs : RunInv(r)
  BY DEF PipelineInv
<1>2. CASE \E i \in Issuers : Publish(i)
  BY <1>1, <1>2, PublishTypes
<1>3. ASSUME NEW r \in Runs, \/ \E forced \in BOOLEAN : Start(r, forced)
                             \/ BuildStep(r) \/ PublishStep(r) \/ PostStep(r)
      PROVE  TypeInv'
  <2>1. CASE Commit(r)
    BY <1>1, <2>1, CommitTypes
  <2>2. CASE ~Commit(r)
    BY <1>1, <1>3, <2>2, RunTypes DEF PublishStep, PostStep
  <2> QED
    BY <2>1, <2>2
<1>4. CASE \E tx \in pending : Mine(tx)
  BY <1>1, <1>4, MineTypes
<1>5. CASE UNCHANGED vars
  BY <1>1, <1>5 DEF vars, ci, job, TypeInv
<1> QED
  BY <1>2, <1>3, <1>4, <1>5 DEF Next

-----------------------------------------------------------------------------
(* The run's own invariant and what is committed, step by step.            *)

\* A checkout is what was committed.
LEMMA StartInv ==
  ASSUME PipelineInv, NEW r \in Runs, NEW forced \in BOOLEAN, Start(r, forced)
  PROVE  RunInv(r)' /\ OthersAlone(r)
<1> USE DEF PipelineInv
<1>1. /\ pc'[r] = "build" /\ base'[r] = git /\ work'[r] = git /\ snap'[r] = NoFiles
      /\ git' = git /\ history' = history
  BY DEF Start, Goto, TypeInv, ci
<1>2. \A i \in Issuers : FileInv(r, i)'
  BY <1>1 DEF FileInv, GitInHistory, NoFiles
<1>3. OthersAlone(r)
  BY DEF OthersAlone, Start, Goto, TypeInv
<1> QED
  BY <1>1, <1>2, <1>3 DEF RunInv

\* The builder's loop changes root.json together with the flag and the snapshot,
\* unless the disk fails.
LEMMA BuildInv ==
  ASSUME PipelineInv, NEW r \in Runs, BuildStep(r)
  PROVE  RunInv(r)' /\ OthersAlone(r) /\ UNCHANGED ci /\ UNCHANGED <<pending, chain>>
<1> DEFINE Goal == RunInv(r)' /\ OthersAlone(r) /\ UNCHANGED ci /\ UNCHANGED <<pending, chain>>
<1> USE DEF PipelineInv, TypeInv
<1>1. ASSUME NEW i \in Issuers, BuildFails(r, i) PROVE Goal
  BY <1>1 DEF BuildFails, Building, NextIssuer, OthersAlone, ci, RunInv, FileInv, Readable
<1>2. ASSUME NEW i \in Issuers, BuildWriteFails(r, i) PROVE Goal
  <2>1. PICK content \in {work[r][i], Corrupt} : work' = [work EXCEPT ![r][i] = content]
    BY <1>2 DEF BuildWriteFails
  <2>2. \A j \in Issuers : work'[r][j] = work[r][j] \/ work'[r][j] = Corrupt
    BY <2>1
  <2>3. WriteFaults /\ pc'[r] = "build" /\ base'[r] = base[r] /\ flags'[r] = flags[r] /\ UNCHANGED ci
    BY <1>2 DEF BuildWriteFails, Building
  <2>4. RunInv(r)'
    BY <2>2, <2>3, FilesAssumption DEF RunInv, FileInv, ci
  <2>5. OthersAlone(r)
    BY <1>2, <2>1 DEF BuildWriteFails, NextIssuer, OthersAlone
  <2> QED
    BY <1>2, <2>3, <2>4, <2>5 DEF BuildWriteFails
<1>3. ASSUME NEW i \in Issuers, NEW c \in Crls(i), BuildSame(r, i, c) PROVE Goal
  BY <1>3 DEF BuildSame, Fetched, Building, NextIssuer, OthersAlone, ci, RunInv, FileInv, Readable
<1>4. ASSUME NEW i \in Issuers, NEW c \in Crls(i), BuildNew(r, i, c) PROVE Goal
  <2>1. c # Absent
    BY <1>4, CrlType, FilesAssumption DEF BuildNew
  <2>2. \A j \in Issuers : /\ work'[r][j] = IF j = i THEN c ELSE work[r][j]
                           /\ snap'[r][j] = IF j = i THEN c ELSE snap[r][j]
    BY <1>4 DEF BuildNew
  <2>3. pc'[r] = "build" /\ base'[r] = base[r] /\ flags'[r].changed /\ UNCHANGED ci
    BY <1>4 DEF BuildNew, Fetched, Building
  <2>4. RunInv(r)'
    <3>1. pc[r] = "build" /\ git' = git /\ history' = history
      BY <1>4 DEF BuildNew, Fetched, Building, ci
    <3>2. ASSUME NEW j \in Issuers PROVE FileInv(r, j)'
      <4>1. FileInv(r, j)
        BY DEF RunInv
      <4>2. base'[r][j] # Absent => git'[j] # Absent /\ work'[r][j] # Absent /\ <<j, base'[r][j]>> \in history'
        BY <2>1, <2>2, <2>3, <3>1, <4>1 DEF FileInv
      <4>3. ~WriteFaults /\ snap'[r][j] # Absent => work'[r][j] = snap'[r][j]
        BY <2>2, <3>1, <4>1 DEF FileInv
      <4> QED
        BY <2>3, <4>2, <4>3 DEF FileInv
    <3> QED
      BY <2>3, <3>2 DEF RunInv
  <2>5. OthersAlone(r)
    BY <1>4 DEF BuildNew, NextIssuer, OthersAlone
  <2> QED
    BY <1>4, <2>3, <2>4, <2>5 DEF BuildNew
<1>5. ASSUME NEW i \in Issuers, NEW c \in Crls(i), BuildPanics(r, i, c) PROVE Goal
  BY <1>5 DEF BuildPanics, End, Goto, job, OthersAlone, ci, RunInv, FileInv
<1>6. CASE BuildDone(r)
  <2>1. /\ pc[r] = "build" /\ pc'[r] = (IF flags[r].changed THEN "commit" ELSE "check")
        /\ UNCHANGED <<ci, job, pending, chain>>
    BY <1>6 DEF BuildDone, Goto
  <2>2. \A i \in Issuers : FileInv(r, i)'
    BY <2>1 DEF RunInv, FileInv, Readable, job, ci
  <2>3. OthersAlone(r)
    BY <1>6 DEF BuildDone, Goto, job, OthersAlone
  <2> QED
    BY <2>1, <2>2, <2>3 DEF RunInv, job
<1> QED
  BY <1>1, <1>2, <1>3, <1>4, <1>5, <1>6 DEF BuildStep

\* The commit: what differs from the checkout enters the history, and the
\* working directory becomes what the main branch has.
LEMMA CommitInv ==
  ASSUME PipelineInv, NEW r \in Runs, Commit(r)
  PROVE  RunInv(r)' /\ OthersAlone(r) /\ Monotone /\ GitInHistory' /\ ReleaseWasCommitted' /\ OnChainWasCommitted'
<1> USE DEF PipelineInv, TypeInv
<1>1. pc[r] = "commit" /\ pc'[r] = "check" /\ base' = base /\ snap' = snap /\ flags' = flags /\ flags[r].changed
  BY DEF Commit, Goto, RunInv
<1>2. /\ work'[r] = git'
      /\ history \subseteq history' /\ \A i \in Modified(r) : <<i, work[r][i]>> \in history'
  BY DEF Commit
<1>3. \A i \in Issuers : git'[i] = (IF i \in Modified(r) THEN work[r][i] ELSE git[i])
  BY DEF Commit
<1>4. \A i \in Issuers : FileInv(r, i)
  BY DEF RunInv
<1>5. \A i \in Modified(r) : work[r][i] # Absent
  BY <1>4 DEF FileInv, Modified
<1>6. GitInHistory'
  BY <1>2, <1>3 DEF GitInHistory
<1>7. Monotone
  BY <1>2, <1>3, <1>5 DEF Monotone
<1>8. ASSUME NEW i \in Issuers PROVE FileInv(r, i)'
  <2>1. base[r][i] # Absent => git'[i] # Absent /\ work'[r][i] # Absent /\ <<i, base[r][i]>> \in history'
    BY <1>2, <1>4, <1>7 DEF FileInv, Monotone
  <2>2. work'[r][i] # Absent => <<i, work'[r][i]>> \in history'
    BY <1>2, <1>6 DEF GitInHistory
  <2>3. ~WriteFaults /\ snap[r][i] # Absent => <<i, snap[r][i]>> \in history'
    <3> SUFFICES ASSUME ~WriteFaults, snap[r][i] # Absent PROVE <<i, snap[r][i]>> \in history'
      OBVIOUS
    <3>1. work[r][i] = snap[r][i]
      BY <1>1, <1>4 DEF FileInv
    <3>2. CASE i \in Modified(r)
      BY <1>2, <3>1, <3>2
    <3>3. CASE i \notin Modified(r)
      BY <1>2, <1>4, <3>1, <3>3 DEF Modified, FileInv
    <3> QED
      BY <3>2, <3>3
  <2> QED
    BY <1>1, <2>1, <2>2, <2>3 DEF FileInv, Readable
<1>9. RunInv(r)'
  BY <1>1, <1>8 DEF RunInv
<1>10. OthersAlone(r)
  BY DEF Commit, Goto, OthersAlone
<1>11. ReleaseWasCommitted' /\ OnChainWasCommitted'
  BY <1>2 DEF Commit, ReleaseWasCommitted, OnChainWasCommitted
<1> QED
  BY <1>6, <1>7, <1>9, <1>10, <1>11

\* The other steps that publish change neither files nor flags; what is released
\* are the snapshots of a run past its commit.
LEMMA ReleaseInv ==
  ASSUME PipelineInv, NEW r \in Runs,
         \/ CommitFails(r) \/ NoUpload(r) \/ NeedsRelease(r) \/ DeleteRelease(r) \/ DeleteFails(r)
         \/ CreateRelease(r) \/ CreateFails(r)
  PROVE  /\ RunInv(r)' /\ OthersAlone(r) /\ git' = git /\ history' = history /\ UNCHANGED <<pending, chain>>
         /\ ReleaseWasCommitted'
<1> USE DEF PipelineInv, TypeInv
<1>1. /\ UNCHANGED <<job, git, history, pending, chain>>
      /\ \E s \in {"idle", "delete", "create", "verify"} : Goto(r, s)
  BY DEF CommitFails, NoUpload, NeedsRelease, DeleteRelease, DeleteFails, CreateRelease, CreateFails, End, AfterRelease, ci
<1>2. pc'[r] \in {"idle", "delete", "create", "verify"} /\ (pc'[r] # "idle" => pc[r] \in {"check", "delete", "create"})
  BY DEF CommitFails, NoUpload, NeedsRelease, DeleteRelease, DeleteFails, CreateRelease, CreateFails, End, AfterRelease, Goto
<1>3. RunInv(r)'
  BY <1>1, <1>2 DEF RunInv, FileInv, Readable, job
<1>4. OthersAlone(r)
  BY <1>1 DEF OthersAlone, Goto, job
<1>5. ReleaseWasCommitted'
  <2>1. CASE CreateRelease(r)
    <3>1. release'.assets = snap[r] /\ pc[r] = "create"
      BY <2>1 DEF CreateRelease, Assets
    <3> QED
      BY <1>1, <3>1 DEF ReleaseWasCommitted, RunInv, FileInv
  <2>2. CASE DeleteRelease(r)
    BY <2>2 DEF DeleteRelease, NoRelease, NoFiles, ReleaseWasCommitted
  <2>3. CASE release' = release
    BY <1>1, <2>3 DEF ReleaseWasCommitted
  <2> QED
    BY <2>1, <2>2, <2>3 DEF CommitFails, NoUpload, NeedsRelease, DeleteFails, CreateFails, ci
<1> QED
  BY <1>1, <1>3, <1>4, <1>5

\* Posting moves the run's program counter and its loop.
LEMMA PostLocal ==
  ASSUME PipelineInv, NEW r \in Runs, PostStep(r)
  PROVE  /\ UNCHANGED <<ci, base, work, snap, chain>>
         /\ pc[r] \in {"verify", "post", "wait"} /\ pc'[r] \in {"idle", "post", "wait"}
         /\ flags'[r].changed = flags[r].changed
         /\ pc'[r] = "wait" => todo'[r] # <<>>
         /\ OthersAlone(r)
<1> USE DEF PipelineInv, TypeInv
<1>1. CASE VerifyFails(r) \/ PostDone(r)
  BY <1>1 DEF VerifyFails, PostDone, End, Goto, job, OthersAlone
<1>2. CASE VerifyOk(r)
  BY <1>2 DEF VerifyOk, Goto, OthersAlone
<1>3. CASE \E i \in Issuers : PostSkip(r, i)
  BY <1>3 DEF PostSkip, Posting, NextIssuer, OthersAlone
<1>4. CASE \E i \in Issuers : Send(r, i)
  BY <1>4 DEF Send, Posting, Goto, job, OthersAlone
<1>5. CASE Mined(r)
  BY <1>5 DEF Mined, NextIssuer, Goto, OthersAlone
<1>6. CASE WaitExpires(r)
  <2>1. flags'[r].changed = flags[r].changed /\ \A q \in Runs \ {r} : flags'[q] = flags[q]
    BY <1>6 DEF WaitExpires
  <2> QED
    BY <1>6, <2>1 DEF WaitExpires, NextIssuer, Goto, OthersAlone
<1> QED
  BY <1>1, <1>2, <1>3, <1>4, <1>5, <1>6 DEF PostStep

\* A transaction carries a usable root.json of a run past its commit.
LEMMA PostInv ==
  ASSUME PipelineInv, NEW r \in Runs, PostStep(r)
  PROVE  RunInv(r)' /\ OthersAlone(r) /\ UNCHANGED ci /\ OnChainWasCommitted'
<1>1. RunInv(r)'
  BY PostLocal DEF PipelineInv, RunInv, FileInv, Readable, ci
<1>2. \A tx \in pending' \ pending : <<tx.issuer, tx.info>> \in history
  <2>1. ASSUME NEW i \in Issuers, Send(r, i)
        PROVE  pending' = pending \cup {Tx(r, i)} /\ <<i, work[r][i]>> \in history
    BY <2>1, PostLocal DEF Send, Sendable, PipelineInv, RunInv, FileInv
  <2>2. CASE \E i \in Issuers : Send(r, i)
    <3>1. PICK i \in Issuers : Send(r, i)
      BY <2>2
    <3>2. Tx(r, i).issuer = i /\ Tx(r, i).info = work[r][i]
      BY DEF Tx
    <3>3. \A tx \in pending' \ pending : tx = Tx(r, i)
      BY <2>1, <3>1
    <3> QED
      BY <2>1, <3>1, <3>2, <3>3
  <2>3. CASE pending' = pending
    BY <2>3
  <2> QED
    BY <2>2, <2>3 DEF PostStep, VerifyFails, VerifyOk, PostSkip, Mined, WaitExpires, PostDone
<1>3. OnChainWasCommitted'
  BY <1>2, PostLocal DEF PipelineInv, OnChainWasCommitted, ci
<1> QED
  BY <1>1, <1>3, PostLocal

\* A mined transaction's record was committed when it was sent.
LEMMA MineInv ==
  ASSUME PipelineInv, NEW tx \in pending, Mine(tx)
  PROVE  OnChainWasCommitted'
<1>1. tx.issuer \in Issuers /\ chain \in [Issuers -> [root : 0..MaxVersions, number : 0..MaxVersions]]
  BY DEF PipelineInv, TypeInv
<1>2. \/ chain' = chain
      \/ chain' = [chain EXCEPT ![tx.issuer] = tx.info]
  BY DEF Mine, Contract!SetRoot
<1>3. \A i \in Issuers : chain'[i] = chain[i] \/ (i = tx.issuer /\ chain'[i] = tx.info)
  BY <1>1, <1>2
<1>4. history' = history /\ pending' \subseteq pending
  BY DEF Mine, ci
<1> QED
  BY <1>3, <1>4 DEF PipelineInv, OnChainWasCommitted

-----------------------------------------------------------------------------
(* The invariant is inductive.                                             *)

LEMMA InvInit == Init => PipelineInv
<1> SUFFICES ASSUME Init PROVE PipelineInv
  OBVIOUS
<1>1. TypeInv
  <2>1. NoFiles \in [Issuers -> Info \cup {Absent}] /\ NoFiles \in [Issuers -> Files]
    BY DEF NoFiles, Files
  <2>2. NoFlags \in [changed : BOOLEAN, force : BOOLEAN, expired : BOOLEAN]
    BY DEF NoFlags
  <2> QED
    BY <2>1, <2>2, BoundsAssumption DEF Init, TypeInv, Contract!Init, Steps
<1>2. GitInHistory /\ ReleaseWasCommitted /\ OnChainWasCommitted
  BY DEF Init, GitInHistory, ReleaseWasCommitted, OnChainWasCommitted, NoFiles, Contract!Init
<1>3. \A r \in Runs : RunInv(r)
  BY DEF Init, RunInv, FileInv, NoFiles
<1> QED
  BY <1>1, <1>2, <1>3 DEF PipelineInv

LEMMA InvNext == PipelineInv /\ [Next]_vars => PipelineInv'
<1> SUFFICES ASSUME PipelineInv, [Next]_vars PROVE PipelineInv'
  OBVIOUS
<1>1. TypeInv'
  BY TypesNext
<1>2. \A r \in Runs : RunInv(r)
  BY DEF PipelineInv
<1>3. ASSUME UNCHANGED <<git, history, release, chain, pending>> PROVE Monotone /\ GitInHistory' /\ ReleaseWasCommitted' /\ OnChainWasCommitted'
  BY <1>3, SharedKept DEF Monotone
<1>4. CASE \E i \in Issuers : Publish(i)
  <2>1. UNCHANGED <<git, history, release, chain, pending>> /\ UNCHANGED <<pc, job>>
    BY <1>4 DEF Publish
  <2>2. \A r \in Runs : RunInv(r)'
    BY <1>2, <2>1 DEF job, RunInv, FileInv, Readable
  <2> QED
    BY <1>1, <1>3, <2>1, <2>2 DEF PipelineInv
<1>5. ASSUME NEW r \in Runs, NEW forced \in BOOLEAN, Start(r, forced) PROVE PipelineInv'
  <2>1. UNCHANGED <<git, history, release, chain, pending>>
    BY <1>5 DEF Start, ci
  <2>2. \A q \in Runs : RunInv(q)'
    BY <1>2, <1>3, <1>5, <2>1, StartInv, RunsKept
  <2> QED
    BY <1>1, <1>3, <2>1, <2>2 DEF PipelineInv
<1>6. ASSUME NEW r \in Runs, BuildStep(r) PROVE PipelineInv'
  <2>1. UNCHANGED <<git, history, release, chain, pending>>
    BY <1>6, BuildInv DEF ci
  <2>2. \A q \in Runs : RunInv(q)'
    BY <1>2, <1>3, <1>6, <2>1, BuildInv, RunsKept
  <2> QED
    BY <1>1, <1>3, <2>1, <2>2 DEF PipelineInv
<1>7. ASSUME NEW r \in Runs, Commit(r) PROVE PipelineInv'
  <2>1. \A q \in Runs : RunInv(q)'
    BY <1>2, <1>7, CommitInv, RunsKept
  <2> QED
    BY <1>1, <1>7, <2>1, CommitInv DEF PipelineInv
<1>8. ASSUME NEW r \in Runs,
             \/ CommitFails(r) \/ NoUpload(r) \/ NeedsRelease(r) \/ DeleteRelease(r) \/ DeleteFails(r)
             \/ CreateRelease(r) \/ CreateFails(r)
      PROVE  PipelineInv'
  <2>1. git' = git /\ history' = history /\ UNCHANGED <<pending, chain>>
    BY <1>8, ReleaseInv
  <2>2. \A q \in Runs : RunInv(q)'
    <3>1. Monotone
      BY <2>1 DEF Monotone
    <3> QED
      BY <1>2, <1>8, <3>1, ReleaseInv, RunsKept
  <2>3. GitInHistory' /\ OnChainWasCommitted'
    BY <2>1 DEF PipelineInv, GitInHistory, OnChainWasCommitted
  <2> QED
    BY <1>1, <1>8, <2>2, <2>3, ReleaseInv DEF PipelineInv
<1>9. ASSUME NEW r \in Runs, PostStep(r) PROVE PipelineInv'
  <2>1. git' = git /\ history' = history /\ release' = release
    BY <1>9, PostInv DEF ci
  <2>2. \A q \in Runs : RunInv(q)'
    <3>1. Monotone
      BY <2>1 DEF Monotone
    <3> QED
      BY <1>2, <1>9, <3>1, PostInv, RunsKept
  <2>3. GitInHistory' /\ ReleaseWasCommitted'
    BY <2>1 DEF PipelineInv, GitInHistory, ReleaseWasCommitted
  <2> QED
    BY <1>1, <1>9, <2>2, <2>3, PostInv DEF PipelineInv
<1>10. ASSUME NEW tx \in pending, Mine(tx) PROVE PipelineInv'
  <2>1. UNCHANGED <<ci, pc, job>>
    BY <1>10 DEF Mine
  <2>2. \A r \in Runs : RunInv(r)'
    BY <1>2, <2>1 DEF ci, job, RunInv, FileInv, Readable
  <2>3. GitInHistory' /\ ReleaseWasCommitted'
    BY <2>1 DEF ci, PipelineInv, GitInHistory, ReleaseWasCommitted
  <2> QED
    BY <1>1, <1>10, <2>2, <2>3, MineInv DEF PipelineInv
<1>11. CASE UNCHANGED vars
  <2>1. UNCHANGED <<git, history, release, chain, pending>> /\ UNCHANGED <<pc, job>>
    BY <1>11 DEF vars, ci
  <2>2. \A r \in Runs : RunInv(r)'
    BY <1>2, <2>1 DEF job, RunInv, FileInv, Readable
  <2> QED
    BY <1>1, <1>3, <2>1, <2>2 DEF PipelineInv
<1> QED
  BY <1>4, <1>5, <1>6, <1>7, <1>8, <1>9, <1>10, <1>11 DEF Next, PublishStep

LEMMA InvAlways == Spec => []PipelineInv
  BY InvInit, InvNext, PTL DEF Spec

-----------------------------------------------------------------------------
\* The variables keep their types: no absent file is ever committed or sent.
THEOREM TypeCorrect == Spec => []TypeOK
<1>1. PipelineInv => TypeOK
  <2> SUFFICES ASSUME PipelineInv PROVE TypeOK
    OBVIOUS
  <2>1. \A i \in Issuers : \A c \in Crls(i) : c.root \in 1..MaxVersions /\ c.number \in 1..MaxVersions \cup {NoNumber}
    BY CrlType DEF PipelineInv, Crl
  <2> QED
    BY <2>1 DEF PipelineInv, TypeInv, TypeOK, Files, Steps
<1> QED
  BY <1>1, InvAlways, PTL

\* What is on-chain, or on its way there, was committed as one root.json
\* first, whatever runs overlap, fail or are mined late (postRootOnChain).
THEOREM OnChainCommitted == Spec => []OnChainWasCommitted
<1>1. PipelineInv => OnChainWasCommitted
  BY DEF PipelineInv
<1> QED
  BY <1>1, InvAlways, PTL

\* A released snapshot's root was committed, when disks work (update-tree.yml).
THEOREM ReleaseCommitted == Spec => []ReleaseWasCommitted
<1>1. PipelineInv => ReleaseWasCommitted
  BY DEF PipelineInv
<1> QED
  BY <1>1, InvAlways, PTL

\* setRoot's comparison orders the records, whatever is sent.
THEOREM OnlyNewer == Spec => OnChainOnlyNewer
<1>1. PipelineInv /\ [Next]_vars => [\A i \in Issuers : chain'[i] # chain[i] => chain'[i].number > chain[i].number]_vars
  <2> SUFFICES ASSUME PipelineInv, Next, NEW i \in Issuers, chain'[i] # chain[i]
               PROVE  chain'[i].number > chain[i].number
    OBVIOUS
  <2>1. PICK tx \in pending : Mine(tx)
    <3>1. ASSUME NEW r \in Runs, \/ \E forced \in BOOLEAN : Start(r, forced)
                                 \/ BuildStep(r) \/ PublishStep(r) \/ PostStep(r)
          PROVE  chain' = chain
      BY <3>1, BuildInv, CommitInv, ReleaseInv, PostLocal DEF Start, PublishStep, Commit
    <3> QED
      BY <3>1 DEF Next, Publish
  <2>2. tx.issuer \in Issuers /\ chain \in [Issuers -> [root : 0..MaxVersions, number : 0..MaxVersions]]
    BY DEF PipelineInv, TypeInv
  <2>3. chain' = [chain EXCEPT ![tx.issuer] = tx.info] /\ tx.info.number > chain[tx.issuer].number
    BY <2>1 DEF Mine, Contract!SetRoot, Contract!Accepts
  <2> QED
    BY <2>2, <2>3
<1> QED
  BY <1>1, InvAlways, PTL DEF Spec, OnChainOnlyNewer
=============================================================================
