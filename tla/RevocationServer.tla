-------------------------- MODULE RevocationServer -------------------------
(***************************************************************************)
(* The server process: main's start-up from snapshots, the CRL watcher,    *)
(* the tree manager and the snapshot files, with crashes, restarts and     *)
(* graceful shutdown.                                                      *)
(*                                                                         *)
(* A CRL is known by its issuer and its position in the sequence MOICA has *)
(* published; a tree by the CRL it was built from (LeanIMTPlus and         *)
(* CrlBuild say how it is built).  MOICA, the release downloads and the    *)
(* file system are the environment: a fetch may see any published CRL (a   *)
(* mirror that lags), and every call to them may fail.  A call over HTTP   *)
(* may also never return, since http.Get has no timeout.  Files are never  *)
(* synced: what was written is on disk when the kernel gets to it.         *)
(***************************************************************************)
EXTENDS Naturals, Sequences, FiniteSets

CONSTANTS
  IssuerSeq,    \* the issuers in the order main and fetchAll take them
  Numbers,      \* the CRL numbers MOICA may use, NoNumber if it may omit one
  NoNumber,     \* a CRL without the number extension: a nil *big.Int
  Word,         \* uint64 holds numbers below this
  Absent,       \* no file, asset or map entry
  Partial,      \* a file that cannot be imported: cut short, or of another version
  FlushFaults,  \* whether gzip's last flush may fail (a full disk)
  PowerFaults,  \* whether the machine may lose power
  MaxVersions,  \* bound: CRLs per issuer
  MaxStops      \* bound: crashes and shutdowns

Issuers == {IssuerSeq[k] : k \in DOMAIN IssuerSeq}

\* main.go lists two issuers, each once.
ASSUME IssuersAssumption ==
  /\ IssuerSeq \in Seq(Issuers)
  /\ \A j, k \in DOMAIN IssuerSeq : IssuerSeq[j] = IssuerSeq[k] => j = k
ASSUME NumbersAssumption == NoNumber \notin Nat /\ Numbers \subseteq Nat \cup {NoNumber}
ASSUME WordAssumption    == Word \in Nat \ {0}
ASSUME FaultsAssumption  == FlushFaults \in BOOLEAN /\ PowerFaults \in BOOLEAN
ASSUME BoundsAssumption  == MaxVersions \in Nat /\ MaxStops \in Nat

\* What a *TreeEntry, a snapshot file or a release asset holds.
Snapshot == [tree : Nat \ {0}, number : 0..(Word - 1)]

ASSUME AbsentAssumption == {Absent, Partial} \cap Snapshot = {} /\ Absent # Partial

VARIABLES
  crls,     \* crls[i][v]: the number of issuer i's v-th CRL
  release,  \* release[i]: the snapshot asset of the GitHub release
  disk,     \* disk[i]: tree-snapshot.json.gz
  remains,  \* remains[i]: what may be there after a loss of power
  phase,    \* main: "down", "boot", "running", "draining", "stopping"
  boot,     \* the issuers main has still to load
  stage,    \* where main is with the first of them: "import", "download", "copy",
            \* "reimport", or "stalled" in a call that never returns
  entry,    \* mgr.trees
  watch,    \* the watcher: "none", "sleep", "fetch", "check", "build", "stalled"
  todo,     \* the issuers fetchAll has still to do
  version,  \* the CRL in hand, of the download or of the first issuer in todo
  exports,  \* the export goroutines that have not ended
  stops     \* how often the process has stopped

env   == <<crls, release>>
files == <<disk, remains>>
vars  == <<env, files, phase, boot, stage, entry, watch, todo, version, exports, stops>>

\* CRLNumber.Uint64(), and the zero value for a nil one.
Uint64(n) == IF n = NoNumber THEN 0 ELSE n % Word

\* A number that Uint64 keeps.
Fits(n) == n # NoNumber /\ n < Word

SnapshotOf(i, v) == [tree |-> v, number |-> Uint64(crls[i][v])]

Init ==
  /\ crls = [i \in Issuers |-> <<>>]
  /\ release = [i \in Issuers |-> Absent]
  /\ disk = [i \in Issuers |-> Absent]
  /\ remains = [i \in Issuers |-> {Absent}]
  /\ phase = "down" /\ boot = <<>> /\ stage = "import"
  /\ entry = [i \in Issuers |-> Absent]
  /\ watch = "none" /\ todo = <<>> /\ version = 0
  /\ exports = {} /\ stops = 0

-----------------------------------------------------------------------------
(* The environment.                                                        *)

\* MOICA numbers its CRLs in increasing order, when it numbers them.
Publish(i, n) ==
  /\ Len(crls[i]) < MaxVersions
  /\ n # NoNumber => \A v \in DOMAIN crls[i] : crls[i][v] # NoNumber => n > crls[i][v]
  /\ crls' = [crls EXCEPT ![i] = Append(@, n)]
  /\ UNCHANGED <<release, files, phase, boot, stage, entry, watch, todo, version, exports, stops>>

\* The publishing workflow replaces or drops an asset. It cannot export a CRL
\* without a number, and its own disk may have cut the file short.
Release(i) ==
  /\ \/ \E v \in DOMAIN crls[i] : crls[i][v] # NoNumber /\ release' = [release EXCEPT ![i] = SnapshotOf(i, v)]
     \/ \E asset \in {Absent, Partial} : release' = [release EXCEPT ![i] = asset]
  /\ UNCHANGED <<crls, files, phase, boot, stage, entry, watch, todo, version, exports, stops>>

-----------------------------------------------------------------------------
(* The snapshot files.                                                     *)

\* The file of issuer i is written, removed or replaced. Until the kernel has
\* written it a loss of power can leave any earlier content, or a part of it.
Writes(i, content) ==
  /\ disk' = [disk EXCEPT ![i] = content]
  /\ remains' = IF PowerFaults THEN [remains EXCEPT ![i] = @ \cup {content, Partial}] ELSE remains

-----------------------------------------------------------------------------
(* main's start-up.                                                        *)

Boot ==
  /\ phase = "down"
  /\ phase' = "boot" /\ boot' = IssuerSeq /\ stage' = "import"
  /\ UNCHANGED <<env, files, entry, watch, todo, version, exports, stops>>

Loading(s) == phase = "boot" /\ boot # <<>> /\ stage = s
loaded     == Head(boot)

\* The loop continues with the next issuer.
NextBoot == boot' = Tail(boot) /\ stage' = "import"

\* Mutant: a file cut short is taken for a tree.
ImportableAny(file) == file # Absent

Importable(file) == file \notin {Absent, Partial}

\* ImportFile succeeds on a complete file: after a restart, or right after the
\* download; SetTree.
ImportOk ==
  /\ Loading("import") \/ Loading("reimport")
  /\ Importable(disk[loaded])
  /\ entry' = [entry EXCEPT ![loaded] = disk[loaded]]
  /\ NextBoot
  /\ UNCHANGED <<env, files, phase, watch, todo, version, exports, stops>>

\* Any error of ImportFile leads to a download: there is no file, or no usable
\* one, or a good one could not be opened or read.
ImportFails ==
  /\ Loading("import")
  /\ stage' = "download"
  /\ UNCHANGED <<env, files, phase, boot, entry, watch, todo, version, exports, stops>>

\* What was downloaded is not usable, or could not be read.
ReimportFails ==
  /\ Loading("reimport")
  /\ NextBoot
  /\ UNCHANGED <<env, files, phase, entry, watch, todo, version, exports, stops>>

\* No release asset, or no network: the issuer is left for the watcher.
DownloadFails ==
  /\ Loading("download")
  /\ NextBoot
  /\ UNCHANGED <<env, files, phase, entry, watch, todo, version, exports, stops>>

\* HTTP 200: os.Create truncates the destination, io.Copy fills it in place.
\* Version 0 stands for an asset that is not usable.
DownloadBegins ==
  /\ Loading("download") /\ release[loaded] # Absent
  /\ Writes(loaded, Partial)
  /\ version' = IF release[loaded] = Partial THEN 0 ELSE release[loaded].tree
  /\ stage' = "copy"
  /\ UNCHANGED <<env, phase, boot, entry, watch, todo, exports, stops>>

CopyOk ==
  /\ Loading("copy")
  /\ Writes(loaded, IF version = 0 THEN Partial ELSE SnapshotOf(loaded, version))
  /\ stage' = "reimport" /\ version' = 0
  /\ UNCHANGED <<env, phase, boot, entry, watch, todo, exports, stops>>

\* The file is removed; an error of os.Remove is not looked at.
CopyFails ==
  /\ Loading("copy")
  /\ \E left \in {Absent, Partial} : Writes(loaded, left)
  /\ NextBoot /\ version' = 0
  /\ UNCHANGED <<env, phase, entry, watch, todo, exports, stops>>

\* GitHub never answers, or stops in the middle of the asset.
DownloadStalls ==
  /\ Loading("download") \/ Loading("copy")
  /\ stage' = "stalled" /\ version' = 0
  /\ UNCHANGED <<env, files, phase, boot, entry, watch, todo, exports, stops>>

\* main goes on to serve, and starts the watcher, which fetches at once.
Serve ==
  /\ phase = "boot" /\ boot = <<>>
  /\ phase' = "running" /\ watch' = "fetch" /\ todo' = IssuerSeq
  /\ UNCHANGED <<env, files, boot, stage, entry, version, exports, stops>>

-----------------------------------------------------------------------------
(* The watcher goroutine.                                                  *)

Working(s) == watch = s /\ todo # <<>>
issuer     == Head(todo)

NextIssuer == watch' = "fetch" /\ todo' = Tail(todo) /\ version' = 0

FetchFails ==
  /\ Working("fetch")
  /\ NextIssuer
  /\ UNCHANGED <<env, files, phase, boot, stage, entry, exports, stops>>

FetchOk(v) ==
  /\ Working("fetch") /\ v \in DOMAIN crls[issuer]
  /\ version' = v /\ watch' = "check"
  /\ UNCHANGED <<env, files, phase, boot, stage, entry, todo, exports, stops>>

\* MOICA never answers, or stops in the middle of the CRL.
FetchStalls ==
  /\ Working("fetch")
  /\ watch' = "stalled"
  /\ UNCHANGED <<env, files, phase, boot, stage, entry, todo, version, exports, stops>>

\* Mutants: only the same CRL is skipped; any CRL is once a tree is loaded.
NotNewerEqual(i, n)  == entry[i] # Absent /\ n # NoNumber /\ Uint64(n) = entry[i].number
NotNewerLoaded(i, n) == entry[i] # Absent

NotNewer(i, n) == entry[i] # Absent /\ n # NoNumber /\ Uint64(n) <= entry[i].number

Skip ==
  /\ Working("check") /\ NotNewer(issuer, crls[issuer][version])
  /\ NextIssuer
  /\ UNCHANGED <<env, files, phase, boot, stage, entry, exports, stops>>

\* From here on the new tree is built without a lock, the old one being served.
Rebuild ==
  /\ Working("check") /\ ~NotNewer(issuer, crls[issuer][version])
  /\ watch' = "build"
  /\ UNCHANGED <<env, files, phase, boot, stage, entry, todo, version, exports, stops>>

\* Mutant: the number of the CRL that is newest when the build has ended.
BuiltLate == [tree |-> version, number |-> Uint64(crls[issuer][Len(crls[issuer])])]

Built == SnapshotOf(issuer, version)

\* SetTree, and a goroutine that exports the tree.
Install ==
  /\ Working("build")
  /\ entry' = [entry EXCEPT ![issuer] = Built]
  /\ exports' = exports \cup {[issuer |-> issuer, snapshot |-> Built]}
  /\ NextIssuer
  /\ UNCHANGED <<env, files, phase, boot, stage, stops>>

\* fetchAll is done: wait for the ticker, or return when cancelled.
Sleep ==
  /\ watch = "fetch" /\ todo = <<>>
  /\ watch' = "sleep"
  /\ UNCHANGED <<env, files, phase, boot, stage, entry, todo, version, exports, stops>>

Tick ==
  /\ watch = "sleep"
  /\ watch' = "fetch" /\ todo' = IssuerSeq
  /\ UNCHANGED <<env, files, phase, boot, stage, entry, version, exports, stops>>

WatcherReturns ==
  /\ watch = "sleep" /\ phase \in {"draining", "stopping"}
  /\ watch' = "none"
  /\ UNCHANGED <<env, files, phase, boot, stage, entry, todo, version, exports, stops>>

\* Mutant: the goroutine shares the loop's issuer.
DestinationLoop(x) == IF todo # <<>> THEN issuer ELSE x.issuer

Destination(x) == x.issuer

\* ExportFile writes a temporary file and renames it; on an error it removes
\* the temporary file. Goroutines of one issuer end in any order.
ExportOk(x) ==
  /\ x \in exports
  /\ Writes(Destination(x), x.snapshot)
  /\ exports' = exports \ {x}
  /\ UNCHANGED <<env, phase, boot, stage, entry, watch, todo, version, stops>>

\* Mutant: the destination is removed, not the temporary file.
ExportFailsRemoving(x) ==
  /\ x \in exports
  /\ Writes(Destination(x), Absent)
  /\ exports' = exports \ {x}
  /\ UNCHANGED <<env, phase, boot, stage, entry, watch, todo, version, stops>>

ExportFails(x) ==
  /\ x \in exports
  /\ exports' = exports \ {x}
  /\ UNCHANGED <<env, files, phase, boot, stage, entry, watch, todo, version, stops>>

\* Export defers gw.Close and drops its error: when the last flush fails,
\* ExportFile renames a file cut short over the destination all the same.
ExportTruncates(x) ==
  /\ FlushFaults /\ x \in exports
  /\ Writes(Destination(x), Partial)
  /\ exports' = exports \ {x}
  /\ UNCHANGED <<env, phase, boot, stage, entry, watch, todo, version, stops>>

-----------------------------------------------------------------------------
(* The end of the process.                                                 *)

\* Memory and goroutines are gone; a temporary file may stay, never read.
Gone ==
  /\ phase' = "down" /\ boot' = <<>> /\ stage' = "import"
  /\ entry' = [i \in Issuers |-> Absent]
  /\ watch' = "none" /\ todo' = <<>> /\ version' = 0 /\ exports' = {}
  /\ UNCHANGED env

\* The process is killed or fails: what it has written stays.
Crash ==
  /\ phase # "down" /\ stops < MaxStops
  /\ Gone /\ stops' = stops + 1
  /\ UNCHANGED files

\* The machine stops, whether the server runs or not. ExportFile and Download call
\* no Sync, so what is found later need not be what was written last.
PowerLoss ==
  /\ PowerFaults /\ stops < MaxStops
  /\ disk' \in {d \in [Issuers -> UNION {remains[i] : i \in Issuers}] :
                \A i \in Issuers : d[i] \in remains[i]}
  /\ remains' = [i \in Issuers |-> {disk'[i]}]
  /\ Gone /\ stops' = stops + 1

\* SIGTERM: cancel, then watcher.Wait().
Signal ==
  /\ phase = "running" /\ stops < MaxStops
  /\ phase' = "draining" /\ stops' = stops + 1
  /\ UNCHANGED <<env, files, boot, stage, entry, watch, todo, version, exports>>

\* Wait covers the export goroutines, not the watcher itself: it can return
\* while fetchAll is in the middle of a rebuild that will start another one.
Drained ==
  /\ phase = "draining" /\ exports = {}
  /\ phase' = "stopping"
  /\ UNCHANGED <<env, files, boot, stage, entry, watch, todo, version, exports, stops>>

Exit ==
  /\ phase = "stopping"
  /\ Gone /\ UNCHANGED <<files, stops>>

BootStep == Boot \/ ImportOk \/ ImportFails \/ ReimportFails
              \/ DownloadFails \/ DownloadBegins \/ CopyOk \/ CopyFails \/ DownloadStalls \/ Serve
Polling == FetchFails \/ (\E v \in 1..MaxVersions : FetchOk(v)) \/ FetchStalls \/ Skip \/ Rebuild
             \/ Sleep \/ Tick \/ WatcherReturns
WatcherStep == Polling \/ Install
ExportStep == \E x \in exports : ExportOk(x) \/ ExportFails(x) \/ ExportTruncates(x)

Environment == \E i \in Issuers : Release(i) \/ \E n \in Numbers : Publish(i, n)

Next ==
  \/ Environment
  \/ BootStep \/ WatcherStep \/ ExportStep
  \/ Crash \/ PowerLoss \/ Signal \/ Drained \/ Exit

Spec == Init /\ [][Next]_vars

\* main, the watcher and the export goroutines keep running: a call over HTTP
\* returns, fails or is one of those that stall. Something starts the server
\* again when it is down, and of the fetches that are tried again and again, for
\* ever, some see the newest CRL.
FetchNewest(i) ==
  Working("fetch") /\ issuer = i /\ crls[i] # <<>> /\ FetchOk(Len(crls[i]))

Fairness ==
  /\ WF_vars(BootStep) /\ WF_vars(WatcherStep) /\ WF_vars(ExportStep)
  /\ WF_vars(Drained) /\ WF_vars(Exit)
  /\ \A i \in Issuers : SF_vars(FetchNewest(i))

FairSpec == Spec /\ Fairness

-----------------------------------------------------------------------------
(* Properties.                                                             *)

\* The types of the variables.
TypeOK ==
  /\ crls \in [Issuers -> Seq(Numbers)]
  /\ release \in [Issuers -> Snapshot \cup {Absent, Partial}]
  /\ disk \in [Issuers -> Snapshot \cup {Absent, Partial}]
  /\ remains \in [Issuers -> SUBSET (Snapshot \cup {Absent, Partial})]
  /\ phase \in {"down", "boot", "running", "draining", "stopping"}
  /\ boot \in Seq(Issuers) /\ todo \in Seq(Issuers)
  /\ stage \in {"import", "download", "copy", "reimport", "stalled"}
  /\ entry \in [Issuers -> Snapshot \cup {Absent}]
  /\ watch \in {"none", "sleep", "fetch", "check", "build", "stalled"}
  /\ version \in Nat /\ stops \in Nat
  /\ exports \subseteq [issuer : Issuers, snapshot : Snapshot]

Published(i) == {SnapshotOf(i, v) : v \in DOMAIN crls[i]}

\* A tree is never shown, stored or exported with the number of another CRL or
\* under another issuer, by whichever way it came: the watcher, a local file, one
\* that a loss of power has set back, a download whose asset was replaced
\* meanwhile, an export that ends late.
PairsFromOneCRL ==
  \A i \in Issuers :
    /\ entry[i] \in Published(i) \cup {Absent}
    /\ {disk[i], release[i]} \cup remains[i] \subseteq Published(i) \cup {Absent, Partial}
    /\ \A x \in exports : x.issuer = i => x.snapshot \in Published(i)

\* A running server replaces a tree by that of an older CRL in two cases only,
\* though mirrors lag: the older CRL has no number, which is never compared; or
\* the tree served is that of a CRL without a number, or with one above 64 bits,
\* of which too small a number was kept.
NeverReplacedByOlder ==
  [][\A i \in Issuers :
       entry[i] # Absent /\ entry'[i] # Absent /\ entry'[i].tree < entry[i].tree =>
         \/ crls[i][entry'[i].tree] = NoNumber
         \/ ~Fits(crls[i][entry[i].tree])]_vars

\* A snapshot file that can be imported is lost in three ways only: main, when it
\* starts, could not read it and downloads over it; the power fails before the
\* kernel has written it; gzip's last flush fails, which Export does not report. No
\* failing export, late goroutine, crash of the process or shutdown spoils it.
GoodFileSurvives ==
  [][\A i \in Issuers :
       Importable(disk[i]) /\ ~Importable(disk'[i]) =>
         \/ Loading("download") /\ i = loaded
         \/ PowerFaults /\ phase' = "down" /\ disk'[i] \in remains[i]
         \/ FlushFaults /\ disk'[i] = Partial]_vars

\* A call over HTTP that will never return.
Stalled == stage = "stalled" \/ watch = "stalled"

\* Every number of the issuer's CRLs is there and fits 64 bits.
Numbered(i) == \A v \in DOMAIN crls[i] : Fits(crls[i][v])

\* When MOICA stops publishing, every issuer whose CRLs are numbered is in the end
\* served from the newest one, whatever snapshots the server started from and
\* whatever became of its files; unless main or the watcher hangs in an HTTP call.
ServesNewest ==
  <>[](\/ Stalled
       \/ \A i \in Issuers :
            crls[i] # <<>> /\ Numbered(i) => entry[i] # Absent /\ entry[i].tree = Len(crls[i]))
=============================================================================
