---------------------------- MODULE RootPipeline ---------------------------
(***************************************************************************)
(* The publishing pipeline: runs of update-tree.yml, which build the trees *)
(* with leanimt-plus-build, commit root.json, replace the GitHub release   *)
(* and post the roots on-chain with leanimt-plus-build --post-root.        *)
(*                                                                         *)
(* Runs may overlap (a scheduled one and a dispatched one: the workflow    *)
(* has no concurrency group), and every step that talks to GitHub, MOICA   *)
(* or the chain may fail: the faults are counted and bounded.  A CRL is a  *)
(* record [root, number]: the root of the tree its serials give and its    *)
(* number.  root.json and a snapshot carry the same two fields.            *)
(***************************************************************************)
EXTENDS Naturals, Sequences, FiniteSets

CONSTANTS
  Runs,         \* the workflow runs that can be active at a time
  IssuerSeq,    \* the issuers in the order the builder and the relayer take them
  Relayer,      \* the account of RELAYER_PRIVATE_KEY
  Absent,       \* no file, asset or committed root.json
  Corrupt,      \* a root.json cut short by a failed write
  NoNumber,     \* the number of a CRL without the extension
  MayOmit,      \* whether MOICA may omit the number
  WriteFaults,  \* whether the runner's disk may fail
  MaxVersions,  \* bound: CRLs per issuer
  MaxFaults     \* bound: faults of MOICA, GitHub, the runner and the chain

Issuers == {IssuerSeq[k] : k \in DOMAIN IssuerSeq}

\* The content of a usable root.json, of a snapshot, of a transaction.
Info == [root : 1..MaxVersions, number : 1..MaxVersions]

ASSUME IssuerSeqAssumption == IssuerSeq \in Seq(Issuers)
ASSUME BoundsAssumption    == MaxVersions \in Nat /\ MaxFaults \in Nat
ASSUME FaultAssumption     == MayOmit \in BOOLEAN /\ WriteFaults \in BOOLEAN /\ NoNumber \notin Nat
ASSUME FilesAssumption     == Absent # Corrupt /\ {Absent, Corrupt} \cap Info = {}

VARIABLES
  crls,      \* crls[i]: the CRLs issuer i has published
  git,       \* git[i]: data/<i>/root.json on the main branch
  history,   \* history: every root.json that was ever on the main branch
  release,   \* the release snapshot-latest: [up, assets]
  pc,        \* pc[r]: the step run r is at
  todo,      \* todo[r]: the issuers its current loop has still to do
  base,      \* base[r]: the root.json files it checked out
  work,      \* work[r]: root.json in its working directory
  snap,      \* snap[r]: the snapshots it exported
  flags,     \* flags[r]: [changed, force, expired]
  pending,   \* transactions sent and not mined
  chain,     \* the contract's storage
  faults     \* how many faults there have been

ci   == <<crls, git, history, release>>
job  == <<todo, base, work, snap, flags>>
vars == <<ci, pc, job, pending, chain, faults>>

Contract == INSTANCE RootStorage WITH roots <- chain, NoRoot <- 0

NoFiles == [i \in Issuers |-> Absent]
NoFlags == [changed |-> FALSE, force |-> FALSE, expired |-> FALSE]

Init ==
  /\ crls = [i \in Issuers |-> <<>>]
  /\ git = NoFiles /\ history = {}
  /\ release = [up |-> FALSE, assets |-> NoFiles]
  /\ pc = [r \in Runs |-> "idle"]
  /\ todo = [r \in Runs |-> <<>>]
  /\ base = [r \in Runs |-> NoFiles]
  /\ work = [r \in Runs |-> NoFiles]
  /\ snap = [r \in Runs |-> NoFiles]
  /\ flags = [r \in Runs |-> NoFlags]
  /\ pending = {}
  /\ Contract!Init
  /\ faults = 0

Fault   == faults < MaxFaults /\ faults' = faults + 1
NoFault == UNCHANGED faults

Goto(r, step) == pc' = [pc EXCEPT ![r] = step]

-----------------------------------------------------------------------------
(* MOICA: numbers increase; a CRL may revoke nothing new, and then has the *)
(* root of the one before.                                                 *)

Publish(i) ==
  /\ Len(crls[i]) < MaxVersions
  /\ LET n == Len(crls[i]) + 1 IN
     \E root \in {n} \cup (IF n > 1 THEN {crls[i][n - 1].root} ELSE {}),
        number \in {n} \cup (IF MayOmit THEN {NoNumber} ELSE {}) :
       crls' = [crls EXCEPT ![i] = Append(@, [root |-> root, number |-> number])]
  /\ UNCHANGED <<git, history, release, pc, job, pending, chain, faults>>

-----------------------------------------------------------------------------
(* A run starts with a fresh checkout: root.json is there, snapshots are   *)
(* not, being ignored by git.                                              *)

Start(r, forced) ==
  /\ pc[r] = "idle"
  /\ Goto(r, "build")
  /\ todo' = [todo EXCEPT ![r] = IssuerSeq]
  /\ base' = [base EXCEPT ![r] = git]
  /\ work' = [work EXCEPT ![r] = git]
  /\ snap' = [snap EXCEPT ![r] = NoFiles]
  /\ flags' = [flags EXCEPT ![r] = [NoFlags EXCEPT !.force = forced]]
  /\ UNCHANGED <<ci, pending, chain, faults>>

\* The job ends, after its last step or at one that failed.
End(r) == Goto(r, "idle") /\ UNCHANGED job

-----------------------------------------------------------------------------
(* leanimt-plus-build.                                                     *)

Building(r, i) == pc[r] = "build" /\ todo[r] # <<>> /\ Head(todo[r]) = i
NextIssuer(r)  == todo' = [todo EXCEPT ![r] = Tail(@)]

\* Fetch, parse, build or export failed.
BuildFails(r, i) ==
  /\ Building(r, i)
  /\ NextIssuer(r)
  /\ IF crls[i] = <<>> THEN NoFault ELSE Fault
  /\ UNCHANGED <<ci, pc, base, work, snap, flags, pending, chain>>

Newest(i)    == crls[i][Len(crls[i])]
SameRoot(r, i, c) == work[r][i] \notin {Absent, Corrupt} /\ work[r][i].root = c.root

\* The CRL c is fetched. A mirror that still has an older one is a fault.
Fetched(r, i, c) == Building(r, i) /\ IF c = Newest(i) THEN NoFault ELSE Fault

\* Root unchanged: nothing is exported, root.json keeps its number.
BuildSame(r, i, c) ==
  /\ Fetched(r, i, c) /\ SameRoot(r, i, c)
  /\ NextIssuer(r)
  /\ UNCHANGED <<ci, pc, base, work, snap, flags, pending, chain>>

\* Another root: snapshot, then root.json.
BuildNew(r, i, c) ==
  /\ Fetched(r, i, c) /\ ~SameRoot(r, i, c) /\ c.number # NoNumber
  /\ snap' = [snap EXCEPT ![r][i] = c]
  /\ work' = [work EXCEPT ![r][i] = c]
  /\ flags' = [flags EXCEPT ![r].changed = TRUE]
  /\ NextIssuer(r)
  /\ UNCHANGED <<ci, pc, base, pending, chain>>

\* The snapshot is exported, but writing root.json fails: before the file is
\* truncated or after.
BuildWriteFails(r, i) ==
  /\ WriteFaults
  /\ Building(r, i) /\ crls[i] # <<>> /\ ~SameRoot(r, i, Newest(i)) /\ Newest(i).number # NoNumber
  /\ snap' = [snap EXCEPT ![r][i] = Newest(i)]
  /\ \E content \in {work[r][i], Corrupt} : work' = [work EXCEPT ![r][i] = content]
  /\ NextIssuer(r)
  /\ Fault
  /\ UNCHANGED <<ci, pc, base, flags, pending, chain>>

\* CRLNumber.Uint64() of a CRL without a number dereferences nil.
BuildPanics(r, i, c) ==
  /\ Fetched(r, i, c) /\ ~SameRoot(r, i, c) /\ c.number = NoNumber
  /\ End(r)
  /\ UNCHANGED <<ci, pending, chain>>

\* Mutant: the roots are released and posted without a commit.
BuildDoneUncommitted(r) ==
  /\ pc[r] = "build" /\ todo[r] = <<>>
  /\ Goto(r, "check")
  /\ UNCHANGED <<ci, job, pending, chain, faults>>

BuildDone(r) ==
  /\ pc[r] = "build" /\ todo[r] = <<>>
  /\ Goto(r, IF flags[r].changed THEN "commit" ELSE "check")
  /\ UNCHANGED <<ci, job, pending, chain, faults>>

-----------------------------------------------------------------------------
(* Commit data: git add, commit, pull --rebase, push.                      *)

Modified(r) == {i \in Issuers : work[r][i] # base[r][i]}

\* The rebase conflicts when another run has changed the same file since the
\* checkout.
Conflict(r) == \E i \in Modified(r) : git[i] # base[r][i]

Commit(r) ==
  /\ pc[r] = "commit" /\ ~Conflict(r)
  /\ git' = [i \in Issuers |-> IF i \in Modified(r) THEN work[r][i] ELSE git[i]]
  /\ work' = [work EXCEPT ![r] = git']
  /\ history' = history \cup {<<i, work[r][i]>> : i \in Modified(r)}
  /\ Goto(r, "check")
  /\ UNCHANGED <<crls, release, todo, base, snap, flags, pending, chain, faults>>

\* Mutant: the job goes on after a failed commit.
CommitFailsOn(r) ==
  /\ pc[r] = "commit"
  /\ IF Conflict(r) THEN NoFault ELSE Fault
  /\ Goto(r, "check") /\ UNCHANGED job
  /\ UNCHANGED <<ci, pending, chain>>

\* On a conflict or a rejected push the job fails; the commit is lost.
CommitFails(r) ==
  /\ pc[r] = "commit"
  /\ IF Conflict(r) THEN NoFault ELSE Fault
  /\ End(r)
  /\ UNCHANGED <<ci, pending, chain>>

-----------------------------------------------------------------------------
(* The release is looked up, deleted and created again.                    *)

\* Mutant: force_post_root is ignored.
PostsChanged(r) == flags[r].changed

Posts(r) == flags[r].changed \/ flags[r].force

AfterRelease(r) ==
  /\ Goto(r, IF Posts(r) THEN "verify" ELSE "idle")
  /\ UNCHANGED job

NeedsUpload(r) == flags[r].changed \/ ~release.up

\* `gh release view` finds the WASM asset, which every release has.
NoUpload(r) ==
  /\ pc[r] = "check" /\ ~NeedsUpload(r)
  /\ AfterRelease(r)
  /\ UNCHANGED <<ci, pending, chain, faults>>

NoRelease == [up |-> FALSE, assets |-> NoFiles]

\* The roots changed or the release is not there; a lookup that fails counts
\* as the latter. Other runs may replace the release before this one deletes it.
NeedsRelease(r) ==
  /\ pc[r] = "check"
  /\ IF NeedsUpload(r) THEN NoFault ELSE Fault
  /\ Goto(r, "delete")
  /\ UNCHANGED <<ci, job, pending, chain>>

\* Whichever release is there; it does not matter when none is.
DeleteRelease(r) ==
  /\ pc[r] = "delete"
  /\ release' = NoRelease
  /\ Goto(r, "create")
  /\ UNCHANGED <<crls, git, history, job, pending, chain, faults>>

\* A deletion that fails is ignored.
DeleteFails(r) ==
  /\ pc[r] = "delete" /\ release.up
  /\ Fault
  /\ Goto(r, "create")
  /\ UNCHANGED <<ci, job, pending, chain>>

\* Mutant: the files uploaded are the root.json files.
AssetsRoots(r) == work[r]

\* Only the snapshots this run exported are in its working directory.
Assets(r) == snap[r]

CreateRelease(r) ==
  /\ pc[r] = "create" /\ ~release.up
  /\ release' = [up |-> TRUE, assets |-> Assets(r)]
  /\ AfterRelease(r)
  /\ UNCHANGED <<crls, git, history, pending, chain, faults>>

\* The release exists, jq cannot read a root.json, or GitHub does not answer: the
\* job fails here and does not come to post.
CreateFails(r) ==
  /\ pc[r] = "create"
  /\ IF release.up \/ \E i \in Issuers : work[r][i] = Corrupt THEN NoFault ELSE Fault
  /\ End(r)
  /\ UNCHANGED <<ci, pending, chain>>

-----------------------------------------------------------------------------
(* leanimt-plus-build --post-root.                                         *)

\* Secrets unset, no RPC, or VerifyContract failed.
VerifyFails(r) ==
  /\ pc[r] = "verify"
  /\ Fault
  /\ End(r)
  /\ UNCHANGED <<ci, pending, chain>>

VerifyOk(r) ==
  /\ pc[r] = "verify"
  /\ Goto(r, "post")
  /\ todo' = [todo EXCEPT ![r] = IssuerSeq]
  /\ UNCHANGED <<ci, base, work, snap, flags, pending, chain, faults>>

Posting(r, i) == pc[r] = "post" /\ todo[r] # <<>> /\ Head(todo[r]) = i

Readable(r, i) == work[r][i] \notin {Absent, Corrupt}

Sendable(r, i) == Readable(r, i) /\ ~flags[r].expired /\ Contract!Accepts(Relayer, i, work[r][i])

\* No usable root.json, the common deadline has passed, or the gas estimation
\* reverts with "stale CRL"; or the node refuses the transaction.
PostSkip(r, i) ==
  /\ Posting(r, i)
  /\ IF Sendable(r, i) THEN Fault ELSE NoFault
  /\ NextIssuer(r)
  /\ UNCHANGED <<ci, pc, base, work, snap, flags, pending, chain>>

Tx(r, i) == [issuer |-> i, info |-> work[r][i]]

Send(r, i) ==
  /\ Posting(r, i) /\ Sendable(r, i)
  /\ pending' = pending \cup {Tx(r, i)}
  /\ Goto(r, "wait")
  /\ UNCHANGED <<ci, job, chain, faults>>

\* WaitMined returns with a receipt, successful or reverted.
Mined(r) ==
  /\ pc[r] = "wait" /\ Tx(r, Head(todo[r])) \notin pending
  /\ Goto(r, "post")
  /\ NextIssuer(r)
  /\ UNCHANGED <<ci, base, work, snap, flags, pending, chain, faults>>

\* The five minutes are over, for the issuers that follow too. The
\* transaction stays with the nodes and may be mined later.
WaitExpires(r) ==
  /\ pc[r] = "wait"
  /\ Fault
  /\ Goto(r, "post")
  /\ NextIssuer(r)
  /\ flags' = [flags EXCEPT ![r].expired = TRUE]
  /\ UNCHANGED <<ci, base, work, snap, pending, chain>>

PostDone(r) ==
  /\ pc[r] = "post" /\ todo[r] = <<>>
  /\ End(r)
  /\ UNCHANGED <<ci, pending, chain, faults>>

\* The chain includes a transaction, in any order.
Mine(tx) ==
  /\ tx \in pending
  /\ Contract!SetRoot(Relayer, tx.issuer, tx.info)
  /\ pending' = pending \ {tx}
  /\ UNCHANGED <<ci, pc, job, faults>>

-----------------------------------------------------------------------------
Crls(i) == {crls[i][v] : v \in DOMAIN crls[i]}

BuildStep(r) ==
  \/ \E i \in Issuers :
       \/ BuildFails(r, i) \/ BuildWriteFails(r, i)
       \/ \E c \in Crls(i) : BuildSame(r, i, c) \/ BuildNew(r, i, c) \/ BuildPanics(r, i, c)
  \/ BuildDone(r)
PublishStep(r) ==
  \/ Commit(r) \/ CommitFails(r)
  \/ NoUpload(r) \/ NeedsRelease(r) \/ DeleteRelease(r) \/ DeleteFails(r)
  \/ CreateRelease(r) \/ CreateFails(r)
PostStep(r) ==
  \/ VerifyFails(r) \/ VerifyOk(r)
  \/ \E i \in Issuers : PostSkip(r, i) \/ Send(r, i)
  \/ Mined(r) \/ WaitExpires(r) \/ PostDone(r)

Next ==
  \/ \E i \in Issuers : Publish(i)
  \/ \E r \in Runs : \/ \E forced \in BOOLEAN : Start(r, forced)
                     \/ BuildStep(r) \/ PublishStep(r) \/ PostStep(r)
  \/ \E tx \in pending : Mine(tx)

Spec == Init /\ [][Next]_vars

\* Runs are started for ever by the schedule, no job hangs, and transactions
\* that were sent are mined. With finitely many faults all works in the end.
Scheduled ==
  /\ Spec
  /\ \A r \in Runs : /\ WF_vars(Start(r, FALSE))
                     /\ WF_vars(BuildStep(r)) /\ WF_vars(PublishStep(r)) /\ WF_vars(PostStep(r))
  /\ WF_vars(\E tx \in pending : Mine(tx))

\* Someone also dispatches the workflow with force_post_root, again and again.
Forced == Scheduled /\ \A r \in Runs : SF_vars(Start(r, TRUE))

-----------------------------------------------------------------------------
(* Properties.                                                             *)

\* The types of the variables.
TypeOK ==
  /\ \A i \in Issuers : \A c \in Crls(i) : c.root \in 1..MaxVersions /\ c.number \in 1..MaxVersions \cup {NoNumber}
  /\ git \in [Issuers -> Info \cup {Absent, Corrupt}]
  /\ \A h \in history : h[1] \in Issuers /\ h[2] \in Info \cup {Corrupt}
  /\ release.up \in BOOLEAN /\ release.assets \in [Issuers -> Info \cup {Absent}]
  /\ pc \in [Runs -> {"idle", "build", "commit", "check", "delete", "create", "verify", "post", "wait"}]
  /\ \A r \in Runs : todo[r] \in Seq(Issuers)
  /\ base \in [Runs -> [Issuers -> Info \cup {Absent, Corrupt}]]
  /\ work \in [Runs -> [Issuers -> Info \cup {Absent, Corrupt}]]
  /\ snap \in [Runs -> [Issuers -> Info \cup {Absent}]]
  /\ flags \in [Runs -> [changed : BOOLEAN, force : BOOLEAN, expired : BOOLEAN]]
  /\ pending \subseteq [issuer : Issuers, info : Info]
  /\ faults \in 0..MaxFaults
  /\ \A i \in Issuers : chain[i].root \in 0..MaxVersions /\ chain[i].number \in 0..MaxVersions

\* Whatever is on-chain or on its way there was committed first, root and
\* number as they stand in one root.json, so that anyone can look it up: with
\* runs that overlap, pushes that fail and transactions mined late.
OnChainWasCommitted ==
  /\ \A i \in Issuers : chain[i].number > 0 => <<i, chain[i]>> \in history
  /\ \A tx \in pending : <<tx.issuer, tx.info>> \in history

\* A snapshot in the release is that of a committed root.json (when the
\* runner's disk works), so the root a server loads from it is a published one.
ReleaseWasCommitted ==
  ~WriteFaults =>
    \A i \in Issuers : release.assets[i] # Absent => <<i, release.assets[i]>> \in history

\* README "gated on a monotonically increasing CRL number": an on-chain record
\* is only ever replaced by a later CRL's, though fetches see old CRLs, runs
\* overlap and transactions are mined late and in any order.
OnChainOnlyNewer ==
  [][\A i \in Issuers : chain'[i] # chain[i] => chain'[i].number > chain[i].number]_vars

\* README "Pre-built LeanIMT+ snapshots are published as GitHub Release
\* assets", from which servers start: a release that is created with snapshots
\* has one for every issuer with a committed root.
ReleaseHasEverySnapshot ==
  [][~release.up /\ release'.up /\ (\E i \in Issuers : release'.assets[i] # Absent) =>
       \A i \in Issuers : git[i] \notin {Absent, Corrupt} => release'.assets[i] # Absent]_vars

\* README "Roots are ... posted on-chain twice daily": when MOICA stops
\* publishing, the roots of the newest CRLs are on-chain in the end.
NewestRootOnChain ==
  <>[](\A i \in Issuers : crls[i] # <<>> => chain[i].root = Newest(i).root)
=============================================================================
