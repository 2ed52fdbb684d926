# TLA+ verification of LeanIMT+ revocation trees

This directory models the system that turns MOICA's certificate revocation
lists (CRLs) into LeanIMT+ Merkle trees, serves them, and publishes their roots:
the tree itself (`server/internal/leanimt_plus`), the server process
(`server/cmd/leanimt-plus-server`, `internal/crl`, `internal/manager`,
`internal/snapshot`), the builder and the workflow that publishes
(`server/cmd/leanimt-plus-build`, `internal/chain`,
`.github/workflows/update-tree.yml`), and the contract
(`onchain-contract/contracts/LeanIMTPlusRootStorage.sol`).
Every definition is written from the code; `PROJECT.json` says which lines.

## 1. The system

### Components, their state and their operations

| Component | State it keeps | Operations | Hard part |
|---|---|---|---|
| Tree (`insert.go`, `tree.go`, `state.go`) | `leaves` (insertion order, each with its `nextValue`), `nodes` (levels of hashes), one RW mutex | `InsertMany`, `InsertManySorted`, `ExportState`, `ImportState`, reads | batches that fail half way; levels recomputed incrementally, in map order |
| Proofs (`proof_gen.go`, `verify.go`) | none | `GenerateProof`, `VerifyProof` | levels without a sibling are skipped, bits packed |
| CRL to tree (`dedup.go`, `parser.go`) | none | `DedupAndSortSerials`, one `InsertManySorted` | nil, zero, negative, repeated serials |
| Watcher (`watcher.go`, `fetcher.go`) | the ticker, export goroutines (`wg`) | `Start`, `fetchAll`, `fetchAndRebuild`, `Wait` | builds outside any lock, concurrent exports, lagging mirrors, HTTP calls that never return |
| Tree manager (`manager.go`) | issuer -> tree, CRL number, one RW mutex | `SetTree`, `GetTree`, `GetProof`, `Status` | replaced while requests run; a writer and readers wait for each other |
| APIs (`api/rest`, `api/grpcapi`, `hexenc`) | two listeners, a goroutine per request | proof, status | the lock is released before the proof is generated; shutdown with requests in flight, unfinished ones among them; numbers as strings |
| Snapshots (`snapshot.go`, `download.go`) | a file per issuer | `ExportFile` (temp file + rename), `ImportFile`, `Download` (in place) | crashes, losses of power, truncated files, replaced assets |
| Snapshot formats (`snapshot.go`, `binary.go`) | none | `Export`, `Import`, `ExportBinary`, `ImportBinary` | header and body read under different locks, nil slots against zeros, 16/32/64-bit fields, files cut short |
| WASM client (`wasm/main.go`) | one tree | `loadSnapshot`, `generateProof`, `verifyProof` | a bad file must not replace a good tree; undecodable fields read as zero |
| Key-value store (`store`) | the keys | `Set`, `Delete`, `Get`, batches | who owns a slice; a flush that fails half way and is repeated |
| Server process (`leanimt-plus-server/main.go`) | start-up progress, shutdown | start-up loop, serve, graceful stop | crash at any step, shutdown during a rebuild |
| Builder (`leanimt-plus-build/main.go`) | `data/<issuer>/root.json`, snapshot files | build loop, `--post-root`, `--convert-binary` | one issuer fails, a write fails between two files |
| Relayer client (`internal/chain`) | the transactions sent | `VerifyContract`, `PostRoot`, `WaitMined` | deadline, late mining |
| Contract (`LeanIMTPlusRootStorage.sol`) | a record per issuer | `setRoot`, getters | order of transactions |
| Workflow (`update-tree.yml`) | git `main`, the release `snapshot-latest` | build, commit, release, post | overlapping runs, a step failing |

They interact like this. MOICA publishes CRLs. The *workflow* runs the builder,
which fetches each CRL, builds a tree, exports a snapshot, writes `root.json`;
the workflow commits the latter, puts the former into a GitHub release, and
runs the builder again to send `setRoot` transactions. A *server* starts from
local snapshot files or from that release, then its watcher fetches CRLs itself,
rebuilds a tree when a CRL is newer, replaces the entry in the manager and
exports a snapshot for the next start. Clients get proofs from a server over
REST or gRPC, or load a binary snapshot into the WASM module and generate them
themselves, and compare roots with the chain. CRL numbers tie it all together: the watcher,
and the contract, accept increasing numbers only.

### What makes each part correct

- *Tree.* The leaves are a linked list in value order over the sentinel and
  the members (each positive value has exactly one low leaf); level 0 holds the leaves'
  commitments, and every level is what the leaves determine, whatever the mix
  of batches; proofs exist for every positive value and prove the right claim only; a
  batch is atomic to readers. A batch that fails keeps its prefix: some of this
  survives it, some does not (section 4).
- *CRL to tree.* No list of serials makes a build fail, and the root depends on
  the set of revoked serials only.
- *Server.* A tree is always paired with the number of the CRL it was built
  from; a running server does not go back, where CRL numbers are there and fit 64 bits;
  a usable snapshot file is lost in three known ways only; the newest CRL is served in
  the end, unless an HTTP call hangs.
- *APIs.* Answers do not go back in time, over both listeners and all clients; a
  status is of one moment; requests and the watcher do not block each other for
  ever; a shutdown ends, unless a client leaves its request unfinished, and loses no
  request.
- *Formats and the wire.* What is read back is what was written, or an error:
  for damaged trees, exports that race insertions, files cut short, proofs that
  lost fields.
- *Store.* A flush that succeeds has stored what the batch was given, and what is
  stored is nobody else's slice.
- *Publishing.* On-chain records and released snapshots were committed first;
  records only go forward; the newest root reaches the chain.

## 2. Modules

```
LeanIMT            data: leaves, levels, proofs, verification        (operators)
LeanIMTPlus        the tree as a state machine                       EXTENDS LeanIMT
RevocationList     what the tree promises: a list that grows by batches
CrlBuild           CRL -> sorted serials -> new tree                 EXTENDS LeanIMTPlus
SnapshotCodec      the JSON and the binary snapshot format, WASM load EXTENDS LeanIMTPlus
ProofWire          proofs as the APIs and the WASM module send them  EXTENDS LeanIMTPlus
RevocationServer   main, watcher, manager, snapshot files, crashes
ProofService       the same with listeners, requests, lock, shutdown EXTENDS RevocationServer
RootStorage        the contract
RootPipeline       builder, workflow, relayer                        INSTANCE RootStorage
KeyValueStore      both stores and their batches
*Proofs            theorems about the module of that name
MerkleProofs       theorems about hashes and Merkle proofs, the wire, the list, the CRL's tree
NaturalFacts       lemmas: induction, least elements, powers of two
MC*                the values TLC uses for the constants
```

**LeanIMT** holds the pure part. `Hash2` is collision-free: a digest is the term
it was computed from, and a leaf commitment is never an inner node's digest,
because serials have at most 160 bits and digests 256. A nil `*big.Int` is the
slot `Nil`. `PathOf` is `buildProofLocked` and keeps one record per level that
has a sibling, which is what bit *i* of `LeafIndex` and `Siblings[i]` are.

**LeanIMTPlus** has `leaves` and `nodes` as in the Go struct and a program counter
for the writer that holds the mutex. One value of a batch is one step
(`NaiveFirst`, `NaiveInsert`, `SortedAppend`, or a rejection), so is one node of
`recomputeLocked` (`HashNode`), in any order, as Go iterates over maps. Readers hold
the read lock and see states with `pc = "idle"` only. An error returns with the
prefix kept and the upper levels not recomputed, and a nil operand makes `HashNode`
a `HashPanic`, which unwinds through the deferred `Unlock`. `ImportState` trusts
its argument; the model imports what was exported before, which is what snapshots
do. `visible`, `clean` and `saved.clean` are history variables: the length
readers see, and whether a batch has failed after changing the tree.

**RevocationList** is the abstract specification. A batch is one step: applied up
to the first value that is not acceptable. `LeanIMTPlus` implements it
(`ImplementsList`), with `order` mapped to the values of the leaves that are
visible with the lock free. The order is kept because the root depends on it. The
abstract list may answer "panic" only after a batch was cut short.

**CrlBuild** composes `DedupAndSortSerials` with a fresh tree: every list of `CRLs`
goes through `InsertManySorted` step by step. The three passes of the function are
`Positives`, `Sorted` and `Compacted`; `sort.Slice` is some ascending rearrangement.

**RevocationServer** has the server process in one module because its parts share
`mgr.trees` and the snapshot file. A CRL is an issuer and a position in the
sequence that issuer published, `crls[i][v]` its number or `NoNumber`; a tree is
the CRL it was built from. `boot`/`stage` are main's start-up loop, `watch`/`todo`
the watcher's `fetchAll`, `exports` the goroutines `fetchAndRebuild` starts.
Any error of `ImportFile` leads to a download, also when the file is good
(`ImportFails`). `Download` truncates its destination and fills it in place
(`DownloadBegins`, `CopyOk`, `CopyFails`), with an asset that may be unusable; the second
`ImportFile` may fail and leaves what is there (`ReimportFails`). `ExportFile` renames
(`ExportOk`), even a file cut short when `FlushFaults` lets the gzip flush fail whose error
`Export` drops (`ExportTruncates`). `FetchOk(v)` sees any published CRL, since mirrors lag. An
HTTP call may also never return, as `http.Get` has no timeout (`DownloadStalls`,
`FetchStalls`). `Crash` is the end of the process, possible everywhere. `PowerLoss`, with
`PowerFaults`, is the end of the machine: nothing is synced, so a file then holds anything
written to it since the last loss of power, or a part of it (`remains`). After a
signal, `Wait` covers the export goroutines only, so `Drained` can happen during a rebuild.
Numbers are reduced modulo `Word`, as `Uint64()` does; trees are told apart by
their CRL's position, so the properties see an older tree as older whatever its number.

**ProofService** adds the clients. A request is a record with a step: `arriving` until
all of it is there, which need not happen (`Arrives`, `HangsUp`, or neither), then `lookup` and
`generate` for a proof, `lock` and `read` for a status. `GetProof` holds the read lock for
the map lookup (`Lookup`) and generates from the tree it got, which the watcher may
have replaced meanwhile (`Generate`); `Status` holds it over the whole map
(`StatusLock`, one `StatusRead` per issuer, `StatusEnd`). `SetTree` is two steps: it
asks for the write lock (`SetTreeWaits`), which keeps new readers out, and gets it
when the last reader is gone. The server's own steps are those of
RevocationServer, whose `Install` happens inside `SetTree`. After the drain main stops the gRPC
listener, waits for its calls, stops the REST listener, waits for its requests, and
returns (`GracefulStop`, `Shutdown`, `Ends`). `ProofAnswer` is the error mapping of the two
handlers; only REST has a code for an empty tree. `floor` is a history variable: the
newest CRL, by position, a client has been answered from.

**SnapshotCodec** and **ProofWire** extend the tree, so that the trees they write are
all those its behaviours reach, damaged ones included. A file is the record
of its fields. `saved` (the last `ExportState`) is the body of an export that races
insertions, and `LaterHeaders` every header it can write, since header fields
are read later under locks of their own. `BigTo32` writes nil and zero alike, so a
level's entry carries a presence byte; `EncodeSlot` writes nil as the empty
string. `Uint32` keeps the width of counts. A string on the wire is what it decodes to;
`Missing` is one that does not decode where a number is expected, `MissingSlot` one
where a digest is. Direction bits are packed into `LeafIndex` and taken out by `Bit`.

**KeyValueStore** follows slices: `heap` says what is in each, `data` which one the store
has under a key. The memory batch refers to its caller's slices and is applied under
one lock; Badger's copies them, and its flush is a sequence of `Transaction`s of any
size, between which there are other writes, a failure or a crash. Badger
itself is external.

**RootStorage** is the contract: `Accepts` is its two `require`s. The other fields of
the record are written by the same assignment as the root and are left out.

**RootPipeline** has one program counter per workflow run and the shared state: git
(`git`, and `history` of all that ever was on `main`), the release, the chain and
the pending transactions. The steps are those of `update-tree.yml`, with their
`if:` conditions and what fails. Snapshots are ignored by git, so a checkout has
none (`Start`), and only those exported by this run are uploaded (`Assets`). Runs
overlap: the workflow has no `concurrency` group. `WaitMined` shares one
five-minute deadline over the issuers (`flags.expired`), and a transaction nobody
waits for stays in `pending` and may be mined later. A fault of GitHub, MOICA, the
runner or the chain counts against `MaxFaults`; an outcome the state forces (a
rebase conflict, a reverted gas estimation, a release that another run has created, a
`root.json` that jq cannot read) does not. Looking the release up, deleting it and
creating it are three steps (`NeedsRelease`, `DeleteRelease`, `CreateRelease`), with other
runs between them. Pending transactions are mined in
any order, which includes the order of their nonces; none is dropped or replaced.

## 3. Runs

Every property has a mutant (an operator beside the one it changes, commented as such)
that TLC finds to violate it.

| Run | Question | Bounds | Why they are enough |
|---|---|---|---|
| `tree_failures` | Linked list, low leaves, level 0, levels, proofs, nil operands and atomic batches under all sequences of batches, failures, exports, imports; does each of these trees survive both formats | serials 0..3, batches of up to 2 values, `CountWord` 4 | 3 members and the sentinel give 4 leaves; after a failed batch of each kind there is room for another one; every error arises; files are cut at every entry and leaf, exports raced by any number of batches; the full tree of 4 leaves does not fit its count, and is left out by `Fits` as a tree of 2^32 leaves is |
| `tree_growth` | Do levels and proofs stay right as the tree grows; can a false claim be proved; do proofs survive the wire; does the writer return | serials up to 4, single insertions, `FairSpec` | all insertion orders; 5 leaves are depth 3 with a leaf promoted over two levels; paths of different lengths. Every claim, leaf pair, position and flip of directions is tried for `ProofsSound`; every set of lost fields (the proof type, the direction bits and the list of siblings among them) and every set of single siblings for `LostFieldsProveNothing` |
| `crl_lists` | Does every serial list give a tree, and the one of its set | lists of up to 4 of nil, -1, 0, 1..4 | repetitions next to each other and apart, dropped elements everywhere |
| `server_one` | Pairing, going back, usable files; is the newest CRL served in the end | 1 issuer, 2 CRLs (numbers 1..3 or none), `Word` 3, 2 stops (crash, signal or loss of power), flush faults, stalls, `FairSpec` | number 3 wraps to 0, below the two others; an old snapshot, an old mirror or a truncated file can come before the newest CRL; two stops give a restart from a file, and one from what that restart left |
| `service_requests` | Do issuers mix; is a status of one moment; is an entry there when it is used | 2 issuers, 1 CRL each without a number (that of the first lists nothing), no stops, 1 client, every kind of serial | each poll rebuilds, so writers come again and again; exports of two issuers and a boot loop in progress at once; a `Status` loop of two rounds with `SetTree` waiting at each point of it; every answer of the handlers arises |
| `service_live` | Do answers go back; does every request that has arrived end; is one lost by a shutdown, and does it end | 1 issuer, 2 numbered CRLs, 1 stop, 1 client, stalls, `FairService` | an old snapshot or an old mirror comes before the newer CRL; a lookup before and a generation after a replacement; the signal comes with a rebuild, an export, a waiting writer, a hanging fetch or a request, finished or not, under way; one client asks again and again, each request after the last on either API |
| `store_batches` | Does a flush store what the batch was given; is what is stored anyone else's | 2 keys, 2 values, 2 buffers, 2 operations | two operations on one key or two, in one transaction or two, with a failure after each and a repetition, and a write of another goroutine in between |
| `pipeline_overlap` | On-chain records under overlapping runs | 2 runs, 1 issuer, 2 CRLs, 2 faults, disk faults, numbers may be missing | one run's late transaction against another's; a stale checkout |
| `pipeline_forced` | Committed first, with two issuers; newest root on-chain in the end, with forced dispatches | 1 run, 2 issuers, 2 CRLs, 2 faults | one issuer fails while the other changes; a failed post followed by a change and another failure |
| `tree_depth`, `pipeline_release`, `pipeline_scheduled` | Expected violations, section 4 | smallest that show it | |

Deadlock is checked in all runs but `crl_lists`, where the build of one CRL ends. The
other specifications never stop: a caller, an issuer or the schedule can always
act, or the process restart.

What the properties say of failing batches: `IndexedList`, `OneLowLeaf`,
`LevelZeroPaired` and `ImplementsList` hold after a failure too; `MerkleConsistent`,
`ProofsComplete`, `ProofsSound` and `OperandsPresent` are stated for trees that no
batch has damaged (`clean`). After a failure the upper levels are stale until
later batches touch them, and a sorted batch can leave a nil slot in level 0 that a
later batch hashes, which panics. The server never meets this: it
builds a fresh tree from a deduplicated, sorted list (`BuildSucceeds`) and drops it on
an error.

`OneLowLeaf` speaks of natural numbers and their negatives: a positive value has exactly
one low leaf, a negative one none. A negative serial number passes the checks of both
handlers, since `SetString` takes a sign, gets `ErrLowLeafNotFound` and is answered like a
failure of the server (`ProofAnswer`). In a CRL negative serials are dropped.

`GoodFileSurvives` names the three ways a usable file is lost. Main could not read it at
start-up, for whatever reason, and downloads over it. The power fails before the kernel
has written it, since `ExportFile` and `Download` call no `Sync`. Or gzip's last flush fails:
`ExportBinaryFile` checks the error of `gw.Close`, `Export` does not, and a full disk then
leaves a truncated file where a good one was. In all of them the newest CRL is still
served (`server_one`), because a restart downloads or the watcher rebuilds, and
the pairs stay right (`PairsCorrect`).

`NeverReplacedByOlder` and `ReadsNeverGoBack` compare positions in the sequence MOICA
published, not the numbers the server keeps. A running server does go back in two cases,
which `NeverReplacedByOlder` names: the older CRL has no number, so it is never
compared; or the newer one has none, or one above 64 bits, and the number kept
for it is too small. `ReadsNeverGoBack` leaves out issuers with such a CRL (`Numbered`), as
does `ServesNewest`. It ends with the process: a restarted server may serve an older
snapshot until its first fetch.

`StopsAfterSignal` leaves out executions in which a client keeps its request
unfinished for ever. `GracefulStop` and `Shutdown(context.Background())` wait for it, without
a deadline, and neither server has a timeout; so the process then does stay.

`FlushedAsGiven` excepts keys that others wrote since the flush began, and memory
batches whose slices the caller has overwritten before the flush: the memory batch
stores what is in the slice by then. When Badger's `wb.Flush` fails the batch has
already been emptied, so a second `Flush` returns nil and has stored nothing; `told`
says "error" of the operations then, as no successful flush was about them.

`ReleaseWasCommitted` is stated for a runner whose disk works. When writing
`root.json` fails after the snapshot was exported, and the other issuer changed,
the release gets a snapshot whose root was not committed.

## 4. Where the code and its documentation differ

- `tree_depth`: README.md gives the depth as `ceil(log2(leafCount))`. A batch that
  fails after its first value appends leaves without adding levels.
- `pipeline_release`: README.md says pre-built snapshots are published as release
  assets. A run in which one issuer's root changed replaces the whole release
  by one that has only that issuer's snapshot. No fault is needed.
- `pipeline_scheduled`: README.md says roots are posted twice daily. A post that fails
  once is not made up for by the schedule: the next run finds the committed
  root unchanged and skips the step. Only a dispatch with `force_post_root` repairs
  it, and with such dispatches `pipeline_forced` shows the root arrives. Two
  overlapping runs do the same without a fault: one creates the release between the
  other's deletion and creation, whose job then fails before it posts.

Two differences need no run. README.md gives `CRL_POLL_INTERVAL` as the interval between
polls, but one HTTP response that is never completed ends the polling for all issuers,
since `http.Get` has no timeout (`FetchStalls`): the server then goes on serving what it has,
which is the exception `ServesNewest` makes. And `store/store.go:13` promises atomic batch writes, while
Badger's WriteBatch commits as many transactions as the batch needs
(`Transaction`), so that a reader or a crash can see a part. Only the store's tests
use it.

## 5. Fairness

- *Tree* (`FairSpec`): weak fairness of the writer's own steps. It is a goroutine that does
  not block while it holds the mutex.
- *Server* (`FairSpec`): weak fairness of main's, the watcher's and the export goroutines'
  steps. Of an HTTP call it says only that it returns, fails or is one that stalls,
  which is a state of its own with no way out but the end of the process: neither
  `http.Get` nor `http.DefaultClient` has a timeout. Weak fairness of `Boot` is an assumption
  about the machine: something starts the server again. Strong fairness of
  `FetchNewest` is an assumption about MOICA: of the fetches tried again and again some
  reach it and see the newest CRL. Neither publishing nor releases nor stops nor
  stalls are fair; publishing and stopping are bounded.
- *Server with clients* (`FairService`): the same of the watcher's and the exports' steps, where the watcher
  includes its two steps of `SetTree`, and weak fairness of the steps of the shutdown.
  Handlers that run are strongly fair: a reader that waits for the lock is disabled each
  time a writer asks for it, but `sync.RWMutex` lets the readers a writer has kept out
  in before it admits the next writer. `WatcherReturns` is strongly fair: after the
  cancellation `Start`'s select finds its context ready each time and takes any
  ready case. CRLs without a number, which are rebuilt at each poll, need this: otherwise exports
  could be added to what main waits for again and again (`service_live`'s CRLs are
  numbered, so there the condition is not what makes it pass). Of clients, and of MOICA and
  the start-up, nothing is assumed here: they need not ask, stop asking, or finish a request.
- *Publishing* (`Scheduled`): weak fairness of starting scheduled runs, of each step of a
  job (jobs have a time limit), and of mining sent transactions. `Forced` adds
  strong fairness of a dispatch with `force_post_root`: an operator who keeps asking.
  Faults are bounded by `MaxFaults`, so from some point on nothing fails.

## 6. Proofs

The theorems hold for every value of the constants that satisfies the modules' named
assumptions: any number of issuers, CRLs, stops, any set of numbers and word size.

**RevocationServerProofs.** `TypeCorrect`, `PairsCorrect` (`PairsFromOneCRL`), `NeverOlder`
(`NeverReplacedByOlder`) and `GoodFilesSurvive` (`GoodFileSurvives`) follow from one
inductive invariant, `ServerInv`. The pairing alone is not inductive, for two
reasons. What `Install` or `CopyOk` writes depends on the variable `version`, so the
invariant must say that it is the position of a published CRL of the issuer in hand
(`BootInv`, `WatchInv`); and an export or the watcher must not run while main loads
(`PhaseInv`), since both share `version` and the file. What a loss of power can bring back
was one CRL's snapshot when it was written (`remains`, in the property itself).
`NeverOlder` needs two things besides. `WatchInv` keeps the answer of the comparison in
`fetchAndRebuild`: while the tree is built the answer of `NotNewer` still holds,
because nobody but the watcher replaces it after start-up, and main loads each issuer
once (`BootInv`, from `IssuersAssumption`). And MOICA's numbers ascend with the
positions (`Ordered`): so an older CRL that passes the comparison has no number, or the newer
one's was not kept whole. `GoodFilesSurvive` needs from `BootInv` that the file being copied to
is truncated already; its statement names the three ways a
file is lost. `InvNext` has one case per action; the two action properties then take one
step from `ServerInv`.

**LeanIMTPlusProofs.** `TypeCorrect`, `ListCorrect` (`IndexedList`), `LowLeafUnique`
(`OneLowLeaf`) and `LevelZeroCorrect` (`LevelZeroPaired`) follow from `TreeInv`, for every set
of serials and of batches. That a value has a low leaf cannot be had from `IndexedList`
without the greatest member below the value, which needs an induction; `TreeInv`
therefore keeps it as a part of its own (`Covers`) and shows that placing a value keeps it
(`PlacedLinks`: every later value either keeps its low leaf or gets the new one). The
other parts say that level 0 stays beside the leaves (`Paired`, `Committed`), that
the same holds of what was exported (`SavedInv`), and that a sorted batch never works on
an empty tree (`PcInv`). Both insertion paths go through the same two lemmas
(`FirstStep`, `PlaceStep`).

**ProofServiceProofs.** `ServiceImplementsServer` shows that the server with clients
implements RevocationServer, step by step; so everything proved there holds here.
On top of it, `ServiceInv` gives `ServiceTypeCorrect`, `StatusIsOneMoment`
(`StatusOneMoment`) and `ReadsMoveForward` (`ReadsNeverGoBack`), for any number of clients
and issuers. The last is not inductive as it stands: it compares a finished
request with what was known when it was made. The invariant says of each request, at
every step, that what it holds is no older than what was known then, and of the
entries that they are no older than anything a client knows (`FloorHeld`);
`Ordered` carries the latter over a `SetTree` (`InstallForward`), where all numbers fit. `StatusOneMoment`
rests on the lock: no `SetTree` while a request is in `read`. `NoneLost`
(`AcceptedIsAnswered`) has an invariant of its own, that the REST listener stops only after
the gRPC one has stopped and emptied.

**SnapshotCodecProofs.** `RoundTrip` (`SnapshotRoundTrip`), `RacedExports`
(`RacedExportIsWhole`) and `CutFiles` (`CutFileRefused`), for every set of serials and
batches and every count width. A slot comes back as it was (`SlotKept`), then a level
(`LevelKept`), then a file: `BinaryReads` says that a file whose header is of the
body's or of any later state is read to its end only when its depth and leaf count are
the body's. Readers answer a file without leaves with a new tree, so the proofs
need that an empty tree has one empty level and no more, also within a batch and
after one that failed; `EmptyInv` is that, and is shown inductive beside `TreeInv`.

**RootPipelineProofs.** `TypeCorrect`, `OnChainCommitted` (`OnChainWasCommitted`),
`ReleaseCommitted` (`ReleaseWasCommitted`) and `OnlyNewer` (`OnChainOnlyNewer`), for any number
of overlapping runs, issuers, CRLs and faults. What is sent was in some run's
working directory, so the invariant follows that directory (`FileInv`): what was checked
out was committed; without the flag "changed" the files are those or cut short;
past the commit step the usable ones are in `history`, whether the run committed them
or found nothing to commit. `RunsKept` says that a step of one run leaves the others'
part alone, as `history` only grows. `OnlyNewer` is the contract's requirement, and
needs the types only.

**NaturalFacts.** What a loop or a recursive function computes is proved by induction,
and the provers cannot instantiate the library's induction rules, whose parameter
is an operator. This module has them with a set as the parameter: a set of numbers
that has 0 and each successor of a member has every number (`Induction`), and the same
from all smaller ones (`StrongInduction`). They follow from well-founded inclusion of
finite sets. A proof then defines the set of the numbers with the property in question and shows
the two hypotheses of it. The module also has powers of two and division by them.

**MerkleProofs.** About the tree's hashes first. `LevelsAsDetermined` (`MerkleConsistent`) speaks
of trees at rest, so its invariant, `MerkleInv`, says what is right meanwhile. A slot is
right (`Good`) when it is what `HashNode` makes of its two children. In the value loop
all slots are, but the ancestors of the modified leaves (`LoopInv`, `Dirty`); in `recomputeLocked` all
but the ancestors of what is in `modified` or, a level higher, in `parents` (`RecomputeInv`). What is
below `level` has no gap: slot *i* of level *l* is there exactly when leaf *i* 2^*l* is
(`Full`), and no level ends in an empty slot (`Tight`). The last two are what a
reader needs, `Full` also what gives `LeftOperandsPresent` (`OperandsPresent`): a modified slot is
above an existing leaf. `HashNodeRecompute` is the step at the centre: the slot
written becomes right, and only its parent can cease to be so, which is put into `parents`.
New levels come into being as the batch grows the tree; slot 0 of such a level
is excepted until then, since its only leaf so far need not be modified.

Then, by induction over the levels, a tree at rest is the reference tree: the node of
span [*lo*, *hi*) is the hash of the two parts into which the reference definition splits it
(`NodeIsSpan`), and level *l* is as long as it should be (`RowLength`). `DepthWhenClean` gives the depth
that README.md states, for trees no batch has damaged. `EveryProofVerifies` (`ProofsComplete`, for positive values)
follows `walkPath` up the levels (`WalkReaches`). `NoFalseProof` (`ProofsSound`) goes down: since
`Hash2` has no collisions, the siblings of a position lead to the root from that
position's commitment only, whatever the direction bits say (`WalkOnly`); so a
claim that verifies is about a leaf of the list, and the list decides who is a member.

`ProofsSurviveTheWire` (`WireKeepsProofs`) needs that the bits packed into `LeafIndex` come out one
by one (`BitsKept`). `DamageIsHarmless` (`LostFieldsProveNothing`) is `WalkOnly` again: zeros in the
place of lost siblings are no digests of the tree, and direction bits do not
matter; without its siblings a leaf would have to be the root, which no commitment is.

`BatchesAreAtomic` (`ImplementsList`) is the refinement of RevocationList. The abstract
step is taken when the lock is released, so `ListInv` keeps until then how far the batch has
come: its first `pos - 1` values are the last leaves (`ProgressInv`), and in a sorted batch they
ascend from the largest value there was (`SortedInv`), which is how the comparison with the tail
in `InsertManySorted` decides the same as the abstract list. `Return` clears `batch`
and `pos`, so the abstract step follows from the state before it.

For CrlBuild, `DedupIs` says of any list of numbers and nils that `DedupAndSortSerials` ascends
strictly and has the positive members of the list and no other; it rests on an induction for
each pass, and on the existence of an ascending rearrangement (`CanSort`). `CrlInv`
follows the leaves through the batch. `NoListFails` (`BuildSucceeds`) and `RootOfEveryList`
(`RootOfTheSet`) are what follows of it, with `MerkleInv` for the hashes.

**KeyValueStoreProofs.** `StoreTypeCorrect`, `FlushesAsGiven` (`FlushedAsGiven`) and
`CallersCannotReachIn` (`StoredByCallsOnly`), for any keys, buffers, values and batch sizes. The
property is about the end of a flush. `StoreInv` follows the batch from its first
operation: what an operation refers to still holds the value that was given (`BatchInv`), the
store's slices are its own (`OwnSlices`), and a flush under way has stored the
operations before `next`, but for keys others wrote (`FlushInv`). That the last operation on a
key decides is the greatest element of a set (`GreatestOf`).

Only model-checked: the liveness properties, since fairness and `ENABLED` are
beyond the prover (`WriterReturns`, `ServesNewest`, `EveryRequestEnds`, `StopsAfterSignal`,
`NewestRootOnChain`). Every other property of a passing run is a theorem.

## 7. Not modelled, and what could follow

| Part | Why |
|---|---|
| DER parsing, HTTP, gzip, Poseidon, ethclient, Badger | external; their outcomes are the nondeterministic results above |
| Configuration (`internal/config`) | read once at the start; no state that changes |
| Generated bindings (`chain/contract`, `pkg/proto`) | generated |
| Benchmarks, deployment and development scripts | tools around the system, without state of their own |
| Routing, headers, logging, the JSON layout | no property is about them |

What could follow. That roots reach the chain is liveness; its safety half, that a run
which ends without a fault after a change has posted the root, could be stated and
proved. No theorem composes the modules: that what a server serves (`RevocationServer`) is
the tree `CrlBuild` makes of that CRL is the meaning given to a tree there.
