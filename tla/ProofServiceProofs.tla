------------------------- MODULE ProofServiceProofs ------------------------
(***************************************************************************)
(* Theorems about ProofService, for every set of clients and whatever      *)
(* RevocationServerProofs allows.                                          *)
(*                                                                         *)
(* The server with its clients implements the server without them, so the  *)
(* server's invariant is there to build on.  Of each request the invariant *)
(* keeps what it has read against what is served now: entries only move    *)
(* forward while a request exists, and none moves while Status reads.      *)
(***************************************************************************)
EXTENDS ProofService, RevocationServerProofs

\* What a request has been told and has read of issuer i, against what is served.
Held(r, i) ==
  /\ r.since[i] # Absent => entry[i] # Absent /\ NoOlder(i, entry[i].tree, r.since[i])
  /\ r.got[i] # Absent => entry[i] # Absent /\ NoOlder(i, entry[i].tree, r.got[i].tree)
  /\ r.got[i] # Absent /\ r.since[i] # Absent => NoOlder(i, r.got[i].tree, r.since[i])

\* A request of the right form for its step.
Sound(r) ==
  /\ r \in RequestType
  /\ \A i \in Issuers : Held(r, i)
  /\ r.step = "generate" => \E i \in Issuers : r.asked = {i} /\ r.got[i] \in Snapshot
  /\ r.step \in {"arriving", "lookup", "lock"} => r.got = Nothing
  /\ r.step = "read" => r.got = [i \in Issuers |-> IF i \in r.left THEN Absent ELSE entry[i]]
  /\ r.step = "done" => \A i \in r.asked : r.since[i] # Absent => r.got[i] # Absent

\* What clients know of an issuer is no newer than what is served.
FloorHeld ==
  \A i \in Issuers : floor[i] # Absent => entry[i] # Absent /\ NoOlder(i, entry[i].tree, floor[i])

\* No client has reached a server that is not up.
NotYet ==
  phase \in {"down", "boot"} =>
    /\ \A a \in Apis : listener[a] = "closed"
    /\ \A c \in Clients : request[c] = NoRequest
    /\ floor = Nothing

ServiceInv ==
  /\ listener \in [Apis -> {"closed", "open", "stopped"}] /\ waiting \in BOOLEAN
  /\ floor \in [Issuers -> Nat \cup {Absent}]
  /\ DOMAIN request = Clients /\ request = [c \in Clients |-> request[c]]
  /\ \A c \in Clients : Sound(request[c])
  /\ FloorHeld /\ NotYet

-----------------------------------------------------------------------------
(* The server underneath.                                                  *)

\* Every step with clients is a step of the server, or none of its business.
LEMMA ServiceStepIsServerStep == [ServiceNext]_all => [Next]_vars
<1> SUFFICES ASSUME [ServiceNext]_all PROVE [Next]_vars
  OBVIOUS
<1>1. CASE (Environment \/ Background) /\ UNCHANGED service
  BY <1>1 DEF Background, Next, WatcherStep
<1>2. CASE SetTreeWaits \/ GracefulStop \/ Shutdown \/ \E a \in Apis : Listen(a)
  BY <1>2 DEF SetTreeWaits, GracefulStop, Shutdown, Listen
<1>3. CASE SetTree
  BY <1>3 DEF SetTree, Next, WatcherStep
<1>4. CASE \E c \in Clients, a \in Apis :
             AskStatus(c, a) \/ \E i \in Issuers, s \in Serials : AskProof(c, a, i, s)
  <2>1. ASSUME NEW c, NEW r, Accept(c, r) PROVE UNCHANGED vars
    BY <2>1 DEF Accept
  <2>2. ASSUME NEW c, NEW a, NEW i, NEW s, AskStatus(c, a) \/ AskProof(c, a, i, s) PROVE UNCHANGED vars
    BY <2>1, <2>2 DEF AskStatus, AskProof
  <2> QED
    BY <1>4, <2>2
<1>5. CASE \E c \in Clients : HandlerStep(c)
  <2> SUFFICES ASSUME NEW c \in Clients, HandlerStep(c) PROVE UNCHANGED vars
    BY <1>5
  <2>1. ASSUME NEW i \in Issuers, Lookup(c, i) PROVE UNCHANGED vars
    BY <2>1 DEF Lookup, Answered
  <2>2. ASSUME NEW i \in Issuers, Generate(c, i) PROVE UNCHANGED vars
    BY <2>2 DEF Generate, Answered
  <2>3. ASSUME NEW i \in Issuers, StatusRead(c, i) PROVE UNCHANGED vars
    BY <2>3 DEF StatusRead
  <2>4. CASE StatusLock(c)
    BY <2>4 DEF StatusLock
  <2>5. CASE StatusEnd(c)
    BY <2>5 DEF StatusEnd, Answered
  <2> QED
    BY <2>1, <2>2, <2>3, <2>4, <2>5 DEF HandlerStep
<1>6. CASE \E c \in Clients : ClientStep(c)
  BY <1>6 DEF ClientStep, Arrives, Refused, HangsUp, Dismissed
<1>7. CASE Ends
  BY <1>7 DEF Ends, Next
<1>8. CASE UNCHANGED all
  BY <1>8 DEF all
<1> QED
  BY <1>1, <1>2, <1>3, <1>4, <1>5, <1>6, <1>7, <1>8 DEF ServiceNext

\* The server with its clients implements RevocationServer: nothing a request does
\* reaches the watcher, the files or main.
THEOREM ServiceImplementsServer == ServiceSpec => Spec
<1>1. ServiceInit => Init
  BY DEF ServiceInit
<1> QED
  BY <1>1, ServiceStepIsServerStep, PTL DEF ServiceSpec, Spec

-----------------------------------------------------------------------------
(* Older and newer.                                                        *)

\* What is served is the tree of a CRL.
LEMMA EntryTree ==
  ASSUME ServerInv, NEW i \in Issuers, entry[i] # Absent
  PROVE  /\ entry[i] \in Snapshot /\ entry[i].tree \in Nat /\ entry[i].tree \in DOMAIN crls[i]
         /\ entry[i].number = Uint64(crls[i][entry[i].tree])
<1>1. entry[i] \in Published(i)
  BY DEF ServerInv, PairsFromOneCRL
<1>2. entry[i] \in Snapshot /\ entry[i].tree \in DOMAIN crls[i] /\ entry[i] = SnapshotOf(i, entry[i].tree)
  BY <1>1, PublishedType DEF ServerInv
<1>3. SnapshotOf(i, entry[i].tree).number = Uint64(crls[i][entry[i].tree])
  BY DEF SnapshotOf
<1> QED
  BY <1>2, <1>3 DEF Snapshot

\* NoOlder is transitive.
LEMMA NoOlderTransitive ==
  ASSUME NEW i, NEW l \in Nat, NEW m \in Nat, NEW n \in Nat, NoOlder(i, n, m), NoOlder(i, m, l)
  PROVE  NoOlder(i, n, l)
  BY DEF NoOlder, Numbered

\* A new CRL makes nothing older.
LEMMA NoOlderKept ==
  ASSUME NEW i, NEW m, NEW n, NoOlder(i, n, m),
         \A v \in DOMAIN crls[i] : v \in DOMAIN crls'[i] /\ crls'[i][v] = crls[i][v]
  PROVE  NoOlder(i, n, m)'
  BY DEF NoOlder, Numbered

\* SetTree moves an issuer forward.
LEMMA InstallForward ==
  ASSUME ServerInv, Install, NEW i \in Issuers, entry[i] # Absent
  PROVE  /\ entry'[i] \in Snapshot /\ entry'[i] # Absent /\ entry'[i].tree \in Nat
         /\ NoOlder(i, entry'[i].tree, entry[i].tree)
<1> USE DEF ServerInv
<1>1. CASE i # issuer
  <2>1. entry'[i] = entry[i]
    BY <1>1 DEF Install, TypeOK
  <2> QED
    BY <2>1, EntryTree DEF NoOlder
<1>2. CASE i = issuer
  <2>1. version \in DOMAIN crls[i] /\ ~NotNewer(i, crls[i][version])
    BY <1>2 DEF Install, Working, WatchInv
  <2>2. entry'[i] = SnapshotOf(i, version)
    BY <1>2 DEF Install, Built, TypeOK
  <2>3. SnapshotOf(i, version) \in Snapshot /\ SnapshotOf(i, version).tree = version
    BY <2>1, SnapshotType DEF SnapshotOf
  <2>4. version \in Nat /\ SnapshotOf(i, version) # Absent
    BY <2>3, AbsentAssumption DEF Snapshot
  <2>5. NoOlder(i, version, entry[i].tree)
    <3> SUFFICES ASSUME Numbered(i), version < entry[i].tree PROVE FALSE
      BY <2>4, EntryTree DEF NoOlder
    <3> DEFINE old == crls[i][version]
               new == crls[i][entry[i].tree]
    <3>1. crls[i] \in Seq(Numbers) /\ entry[i].tree \in DOMAIN crls[i] /\ entry[i].number = Uint64(new)
      BY EntryTree DEF TypeOK
    <3>2. Fits(old) /\ Fits(new)
      BY <2>1, <3>1 DEF Numbered
    <3>3. old \in Numbers /\ new \in Numbers
      BY <2>1, <3>1
    <3>4. old \in Nat /\ new \in Nat /\ old < Word /\ new < Word /\ Word \in Nat \ {0}
      BY <3>2, <3>3, NumbersAssumption, WordAssumption DEF Fits
    <3>5. old < new
      BY <2>1, <3>1, <3>2 DEF Ordered, Fits
    <3>6. Uint64(old) = old /\ Uint64(new) = new
      BY <3>4, NumbersAssumption DEF Uint64
    <3>7. ~(old <= new)
      BY <2>1, <3>1, <3>2, <3>6 DEF NotNewer, Fits
    <3> QED
      BY <3>4, <3>5, <3>7
  <2> QED
    BY <2>2, <2>3, <2>4, <2>5
<1> QED
  BY <1>1, <1>2

-----------------------------------------------------------------------------
(* The invariant is inductive.                                             *)

\* A client that has not asked knows nothing.
LEMMA NoRequestSound == Sound(NoRequest) /\ Sound(NoRequest)'
  BY DEF Sound, Held, NoRequest, RequestType, Nothing, Apis

\* Where nothing happens to the entries, requests stay as they are.
LEMMA SameEntries ==
  ASSUME ServiceInv, UNCHANGED <<entry, request, floor>>,
         \A i \in Issuers : \A v \in DOMAIN crls[i] : v \in DOMAIN crls'[i] /\ crls'[i][v] = crls[i][v]
  PROVE  (\A c \in Clients : Sound(request[c])') /\ FloorHeld'
<1>1. FloorHeld'
  BY NoOlderKept DEF ServiceInv, FloorHeld
<1>2. ASSUME NEW c \in Clients PROVE Sound(request[c])'
  <2> DEFINE r == request[c]
  <2>1. Sound(r) /\ r' = r
    BY DEF ServiceInv
  <2>2. ASSUME NEW i \in Issuers PROVE Held(r, i)'
    BY <2>1, <2>2, NoOlderKept DEF Sound, Held
  <2> QED
    BY <2>1, <2>2 DEF Sound
<1> QED
  BY <1>1, <1>2

\* A request is made with what clients know at that moment.
LEMMA AcceptedSound ==
  ASSUME ServiceInv, NEW a \in Apis, NEW asked \in SUBSET Issuers, NEW s \in Serials \cup {"none"}
  PROVE  Sound(Request(a, asked, s))
<1>1. Nothing \in [Issuers -> Snapshot \cup {Absent}] /\ \A i \in Issuers : Nothing[i] = Absent
  BY DEF Nothing
<1>2. floor \in [Issuers -> Nat \cup {Absent}] /\ FloorHeld
  BY DEF ServiceInv
<1> QED
  BY <1>1, <1>2 DEF Sound, Held, Request, RequestType, FloorHeld

\* A request changes and nothing else does.
LEMMA OneRequest ==
  ASSUME ServiceInv, NEW c \in Clients, NEW r, Sound(r), phase \notin {"down", "boot"},
         request' = [request EXCEPT ![c] = r], UNCHANGED <<vars, listener, waiting, floor>>
  PROVE  ServiceInv'
<1>1. UNCHANGED <<crls, entry, phase>>
  BY DEF vars, env
<1>2. Sound(r)'
  BY <1>1 DEF Sound, Held, NoOlder, Numbered
<1>3. \A d \in Clients : Sound(request[d])'
  <2> TAKE d \in Clients
  <2>1. CASE d = c
    BY <1>2, <2>1 DEF ServiceInv
  <2>2. CASE d # c
    <3>1. request'[d] = request[d] /\ Sound(request[d])
      BY <2>2 DEF ServiceInv
    <3> QED
      BY <1>1, <3>1 DEF Sound, Held, NoOlder, Numbered
  <2> QED
    BY <2>1, <2>2
<1> QED
  BY <1>1, <1>3 DEF ServiceInv, FloorHeld, NotYet, NoOlder, Numbered

\* A request in flight means that the server is up.
LEMMA UpWhileAsked ==
  ASSUME ServiceInv, NEW c \in Clients, request[c].step # "none"
  PROVE  phase \notin {"down", "boot"}
  BY DEF ServiceInv, NotYet, NoRequest

\* An answer: the request is done, and floor grows by what it was given from.
LEMMA AnsweredInv ==
  ASSUME ServiceInv, ServerInv, NEW c \in Clients, request[c].step # "none",
         NEW got \in [Issuers -> Snapshot \cup {Absent}], got = request[c].got,
         NEW a \in {"ok", "unknown", "unavailable", "internal"}, Answered(c, got, a),
         \A i \in request[c].asked : request[c].since[i] # Absent => got[i] # Absent
  PROVE  ServiceInv'
<1>0. PICK r : r = [request[c] EXCEPT !.step = "done", !.answer = a, !.got = got, !.serial = "none"]
  OBVIOUS
<1>1. Sound(request[c]) /\ DOMAIN request = Clients
  BY DEF ServiceInv
<1>2. r \in RequestType
  BY <1>0, <1>1 DEF Sound, RequestType
<1>3. /\ r.step = "done" /\ r.got = got /\ r.asked = request[c].asked /\ r.since = request[c].since
  BY <1>0, <1>1 DEF Sound, RequestType
<1>4. request' = [request EXCEPT ![c] = r] /\ UNCHANGED <<vars, listener, waiting>>
  BY <1>0, <1>1 DEF Answered
<1>5. UNCHANGED <<crls, entry, phase>>
  BY <1>4 DEF vars, env
<1>6. Sound(r)'
  <2>1. \A i \in Issuers : Held(r, i)
    BY <1>1, <1>3 DEF Sound, Held
  <2> QED
    BY <1>2, <1>3, <1>5, <2>1 DEF Sound, Held, NoOlder, Numbered
<1>7. \A d \in Clients : Sound(request[d])'
  <2> TAKE d \in Clients
  <2>1. CASE d = c
    BY <1>1, <1>4, <1>6, <2>1
  <2>2. CASE d # c
    <3>1. request'[d] = request[d] /\ Sound(request[d])
      BY <1>4, <2>2 DEF ServiceInv
    <3> QED
      BY <1>5, <3>1 DEF Sound, Held, NoOlder, Numbered
  <2> QED
    BY <2>1, <2>2
<1>8. \A i \in Issuers : /\ floor'[i] \in Nat \cup {Absent}
                         /\ floor'[i] # Absent => entry[i] # Absent /\ NoOlder(i, entry[i].tree, floor'[i])
  <2> TAKE i \in Issuers
  <2>1. /\ floor[i] \in Nat \cup {Absent}
        /\ floor[i] # Absent => entry[i] # Absent /\ NoOlder(i, entry[i].tree, floor[i])
        /\ got[i] # Absent => entry[i] # Absent /\ NoOlder(i, entry[i].tree, got[i].tree)
    BY <1>1 DEF ServiceInv, FloorHeld, Sound, Held
  <2>2. floor'[i] = IF got[i] = Absent THEN floor[i]
                    ELSE IF floor[i] = Absent THEN got[i].tree ELSE Max2(floor[i], got[i].tree)
    BY DEF Answered
  <2>3. CASE got[i] = Absent
    BY <2>1, <2>2, <2>3
  <2>4. CASE got[i] # Absent
    <3>1. got[i] \in Snapshot
      BY <2>4
    <3>2. got[i].tree \in Nat
      BY <3>1, WordAssumption DEF Snapshot
    <3>3. floor'[i] \in Nat /\ (floor'[i] = got[i].tree \/ (floor[i] # Absent /\ floor'[i] = floor[i]))
      <4>1. CASE floor[i] = Absent
        BY <2>2, <2>4, <3>2, <4>1
      <4>2. CASE floor[i] # Absent
        BY <2>1, <2>2, <2>4, <3>2, <4>2 DEF Max2
      <4> QED
        BY <4>1, <4>2
    <3> QED
      BY <2>1, <2>4, <3>3
  <2> QED
    BY <2>3, <2>4
<1>9. floor' \in [Issuers -> Nat \cup {Absent}] /\ FloorHeld'
  <2>1. DOMAIN floor' = Issuers /\ floor' = [i \in Issuers |-> floor'[i]]
    BY DEF Answered
  <2>2. floor' \in [Issuers -> Nat \cup {Absent}]
    BY <1>8, <2>1
  <2> QED
    BY <1>5, <1>8, <2>2 DEF FloorHeld, NoOlder, Numbered
<1>10. phase \notin {"down", "boot"}
  BY UpWhileAsked
<1>11. DOMAIN request' = Clients /\ request' = [d \in Clients |-> request'[d]]
  BY <1>4 DEF ServiceInv
<1> QED
  BY <1>4, <1>5, <1>7, <1>9, <1>10, <1>11 DEF ServiceInv, NotYet

\* A request arrives, is refused or is given up: it has read nothing.
LEMMA ClientInv == ASSUME ServiceInv, NEW c \in Clients, ClientStep(c) PROVE ServiceInv'
<1> DEFINE r == request[c]
<1>1. Arriving(c)
  BY DEF ClientStep, Arrives, Refused, HangsUp
<1>2. Sound(r) /\ r \in RequestType /\ DOMAIN request = Clients /\ r.got = Nothing
  BY <1>1 DEF ServiceInv, Sound, Arriving
<1>3. phase \notin {"down", "boot"}
  BY <1>1, UpWhileAsked DEF Arriving
<1>4. CASE Arrives(c)
  <2>1. PICK step \in {"lookup", "lock"} : request' = [request EXCEPT ![c].step = step]
    BY <1>4 DEF Arrives
  <2>2. PICK q : q = [r EXCEPT !.step = step]
    OBVIOUS
  <2>3. request' = [request EXCEPT ![c] = q] /\ UNCHANGED <<vars, listener, waiting, floor>>
    BY <1>2, <1>4, <2>1, <2>2 DEF Arrives
  <2>4. q \in RequestType /\ q.step = step /\ q.got = r.got /\ q.since = r.since
    BY <1>2, <2>2 DEF RequestType
  <2>5. Sound(q)
    BY <1>2, <2>4 DEF Sound, Held
  <2> QED
    BY <1>3, <2>3, <2>5, OneRequest
<1>5. ASSUME NEW a \in {"invalid", "gone"}, Dismissed(c, a) PROVE ServiceInv'
  <2>1. PICK q : q = [r EXCEPT !.step = "done", !.answer = a, !.asked = {}, !.serial = "none"]
    OBVIOUS
  <2>2. request' = [request EXCEPT ![c] = q] /\ UNCHANGED <<vars, listener, waiting, floor>>
    BY <1>2, <1>5, <2>1 DEF Dismissed
  <2>3. q \in RequestType /\ q.step = "done" /\ q.asked = {} /\ q.got = r.got /\ q.since = r.since
    BY <1>2, <2>1 DEF RequestType
  <2>4. Sound(q)
    BY <1>2, <2>3 DEF Sound, Held
  <2> QED
    BY <1>3, <2>2, <2>4, OneRequest
<1> QED
  BY <1>4, <1>5 DEF ClientStep, Refused, HangsUp

\* One case per step of a handler.
LEMMA HandlerInv == ASSUME ServiceInv, ServerInv, NEW c \in Clients, HandlerStep(c) PROVE ServiceInv'
<1> DEFINE r == request[c]
<1>1. Sound(r) /\ DOMAIN request = Clients
  BY DEF ServiceInv
<1>2. r \in RequestType /\ \A i \in Issuers : Held(r, i)
  BY <1>1 DEF Sound
<1>3. ASSUME NEW i \in Issuers, Lookup(c, i) PROVE ServiceInv'
  <2>1. r.step = "lookup" /\ r.asked = {i}
    BY <1>3 DEF Lookup
  <2>2. CASE entry[i] = Absent
    <3>1. Answered(c, Nothing, "unknown")
      BY <1>3, <2>2 DEF Lookup
    <3>2. \A j \in Issuers : r.since[j] # Absent => entry[j] # Absent
      BY <1>2 DEF Held
    <3>3. r.got = Nothing /\ Nothing \in [Issuers -> Snapshot \cup {Absent}]
      BY <1>1, <2>1 DEF Sound, Nothing
    <3> QED
      BY <2>1, <2>2, <3>1, <3>2, <3>3, AnsweredInv
  <2>3. CASE entry[i] # Absent
    <3> DEFINE q == [r EXCEPT !.step = "generate", !.got[i] = entry[i]]
    <3>1. request' = [request EXCEPT ![c] = q] /\ UNCHANGED <<vars, listener, waiting, floor>>
      BY <1>1, <1>3, <2>3 DEF Lookup
    <3>2. entry[i] \in Snapshot
      BY <2>3, EntryTree
    <3>3. q \in RequestType
      BY <1>2, <3>2 DEF RequestType
    <3>4. q.step = "generate" /\ q.asked = {i} /\ q.got[i] = entry[i] /\ q.since = r.since
          /\ \A j \in Issuers : j # i => q.got[j] = r.got[j]
      BY <1>2, <2>1 DEF RequestType
    <3> HIDE DEF q
    <3>5. \A j \in Issuers : Held(q, j)
      <4> TAKE j \in Issuers
      <4>1. Held(r, j)
        BY <1>2
      <4>2. CASE j # i
        BY <3>4, <4>1, <4>2 DEF Held
      <4>3. CASE j = i
        BY <2>3, <3>4, <4>1, <4>3, EntryTree DEF Held, NoOlder, Numbered
      <4> QED
        BY <4>2, <4>3
    <3>6. Sound(q)
      BY <3>2, <3>3, <3>4, <3>5 DEF Sound
    <3> QED
      BY <2>1, <3>1, <3>6, UpWhileAsked, OneRequest
  <2> QED
    BY <2>2, <2>3
<1>4. ASSUME NEW i \in Issuers, Generate(c, i) PROVE ServiceInv'
  <2>1. r.step = "generate" /\ r.asked = {i} /\ r.got[i] \in Snapshot
    BY <1>1, <1>4 DEF Generate, Sound
  <2> DEFINE a == ProofAnswer(r.api, r.serial, <<i, r.got[i].tree>>)
  <2>2. Answered(c, r.got, a)
    BY <1>4 DEF Generate
  <2>3. a \in {"ok", "unavailable", "internal"}
    BY DEF ProofAnswer
  <2>4. r.got \in [Issuers -> Snapshot \cup {Absent}]
    BY <1>2 DEF RequestType
  <2>5. \A j \in r.asked : r.got[j] # Absent
    BY <2>1, AbsentAssumption
  <2> HIDE DEF a
  <2> QED
    BY <2>1, <2>2, <2>3, <2>4, <2>5, AnsweredInv
<1>5. CASE StatusLock(c)
  <2> DEFINE q == [r EXCEPT !.step = "read", !.left = {i \in Issuers : entry[i] # Absent}]
  <2>1. r.step = "lock" /\ r.got = Nothing
    BY <1>1, <1>5 DEF StatusLock, Sound
  <2>2. request' = [request EXCEPT ![c] = q] /\ UNCHANGED <<vars, listener, waiting, floor>>
    BY <1>1, <1>5 DEF StatusLock
  <2>3. q \in RequestType
    BY <1>2 DEF RequestType
  <2>4. q.step = "read" /\ q.left = {i \in Issuers : entry[i] # Absent} /\ q.got = Nothing /\ q.since = r.since
    BY <1>2, <2>1 DEF RequestType
  <2> HIDE DEF q
  <2>5. \A i \in Issuers : Held(q, i)
    BY <1>2, <2>1, <2>4 DEF Held
  <2>6. q.got = [i \in Issuers |-> IF i \in q.left THEN Absent ELSE entry[i]]
    <3>1. \A i \in Issuers : (IF i \in q.left THEN Absent ELSE entry[i]) = Absent
      BY <2>4
    <3> QED
      BY <2>4, <3>1 DEF Nothing
  <2>7. Sound(q)
    BY <2>3, <2>4, <2>5, <2>6 DEF Sound
  <2> QED
    BY <2>1, <2>2, <2>7, UpWhileAsked, OneRequest
<1>6. ASSUME NEW i \in Issuers, StatusRead(c, i) PROVE ServiceInv'
  <2> DEFINE q == [r EXCEPT !.got[i] = entry[i], !.left = r.left \ {i}]
  <2>1. r.step = "read" /\ i \in r.left /\ r.got = [j \in Issuers |-> IF j \in r.left THEN Absent ELSE entry[j]]
    BY <1>1, <1>6 DEF StatusRead, Sound
  <2>2. request' = [request EXCEPT ![c] = q] /\ UNCHANGED <<vars, listener, waiting, floor>>
    BY <1>1, <1>6 DEF StatusRead
  <2>3. entry[i] \in Snapshot \cup {Absent}
    BY DEF ServerInv, TypeOK
  <2>4. q \in RequestType
    BY <1>2, <2>3 DEF RequestType
  <2>5. q.step = "read" /\ q.left = r.left \ {i} /\ q.since = r.since /\ q.got = [r.got EXCEPT ![i] = entry[i]]
    BY <1>2, <2>1 DEF RequestType
  <2> HIDE DEF q
  <2>6. q.got = [j \in Issuers |-> IF j \in q.left THEN Absent ELSE entry[j]]
    BY <2>1, <2>5
  <2>7. \A j \in Issuers : Held(q, j)
    <3> TAKE j \in Issuers
    <3>1. Held(r, j)
      BY <1>2
    <3>2. q.got[j] # Absent => q.got[j] = entry[j]
      BY <2>6
    <3> QED
      BY <2>5, <3>1, <3>2, EntryTree DEF Held, NoOlder, Numbered
  <2>8. Sound(q)
    BY <2>4, <2>5, <2>6, <2>7 DEF Sound
  <2> QED
    BY <2>1, <2>2, <2>8, UpWhileAsked, OneRequest
<1>7. CASE StatusEnd(c)
  <2>1. /\ r.step = "read" /\ r.left = {} /\ Answered(c, r.got, "ok")
        /\ r.got = [j \in Issuers |-> IF j \in r.left THEN Absent ELSE entry[j]]
    BY <1>1, <1>7 DEF StatusEnd, Sound
  <2>2. r.got \in [Issuers -> Snapshot \cup {Absent}] /\ r.asked \subseteq Issuers
    BY <1>2 DEF RequestType
  <2>3. \A j \in Issuers : r.since[j] # Absent => r.got[j] # Absent
    BY <1>2, <2>1 DEF Held
  <2> QED
    BY <2>1, <2>2, <2>3, AnsweredInv
<1> QED
  BY <1>3, <1>4, <1>5, <1>6, <1>7 DEF HandlerStep

\* No client knows anything of a server that starts.
LEMMA FreshInv ==
  ASSUME phase' = "down" \/ phase' = "boot", listener' = [a \in Apis |-> "closed"],
         request' = [c \in Clients |-> NoRequest], waiting' = FALSE, floor' = Nothing
  PROVE  ServiceInv'
<1>1. \A c \in Clients : request'[c] = NoRequest
  OBVIOUS
<1>2. \A c \in Clients : Sound(request[c])'
  BY <1>1, NoRequestSound
<1>3. floor' \in [Issuers -> Nat \cup {Absent}] /\ \A i \in Issuers : floor'[i] = Absent
  BY DEF Nothing
<1> QED
  BY <1>1, <1>2, <1>3 DEF ServiceInv, FloorHeld, NotYet

\* The environment and the server's steps but SetTree's and the end.
LEMMA BackgroundInv ==
  ASSUME ServiceInv, ServerInv, Environment \/ Background, UNCHANGED service
  PROVE  ServiceInv'
<1>1. UNCHANGED <<listener, request, waiting, floor>>
  BY DEF service
<1>2. \A i \in Issuers : \A v \in DOMAIN crls[i] : v \in DOMAIN crls'[i] /\ crls'[i][v] = crls[i][v]
  <2>1. CASE \E j \in Issuers, n \in Numbers : Publish(j, n)
    BY <2>1, PublishGrows DEF ServerInv
  <2>2. CASE UNCHANGED crls
    BY <2>2
  <2> QED
    BY <2>1, <2>2 DEF Environment, Background, Release, BootStep, Boot, ImportOk, ImportFails, ReimportFails,
       DownloadFails, DownloadBegins, CopyOk, CopyFails, DownloadStalls, Serve, Polling, FetchFails, FetchOk,
       FetchStalls, Skip, Rebuild, Sleep, Tick, WatcherReturns, ExportStep, ExportOk, ExportFails, ExportTruncates, Signal, Drained, env
<1>3. CASE ImportOk
  <2>1. phase = "boot" /\ phase' = "boot"
    BY <1>3 DEF ImportOk, Loading
  <2>2. /\ \A a \in Apis : listener[a] = "closed"
        /\ \A c \in Clients : request[c] = NoRequest
        /\ floor = Nothing
    BY <2>1 DEF ServiceInv, NotYet
  <2>3. \A c \in Clients : Sound(request[c])'
    BY <1>1, <2>2, NoRequestSound
  <2>4. FloorHeld'
    BY <1>1, <2>2 DEF FloorHeld, Nothing
  <2> QED
    BY <1>1, <2>1, <2>2, <2>3, <2>4 DEF ServiceInv, NotYet
<1>4. CASE UNCHANGED entry /\ (phase' \in {"down", "boot"} => phase \in {"down", "boot"})
  <2>1. (\A c \in Clients : Sound(request[c])') /\ FloorHeld'
    BY <1>1, <1>2, <1>4, SameEntries
  <2>2. NotYet'
    BY <1>1, <1>4 DEF ServiceInv, NotYet
  <2> QED
    BY <1>1, <2>1, <2>2 DEF ServiceInv
<1> QED
  BY <1>3, <1>4 DEF Environment, Background, Publish, Release, BootStep, Boot, ImportFails, ReimportFails,
     DownloadFails, DownloadBegins, CopyOk, CopyFails, DownloadStalls, Serve, Polling, FetchFails, FetchOk,
     FetchStalls, Skip, Rebuild, Sleep, Tick, WatcherReturns, ExportStep, ExportOk, ExportFails, ExportTruncates, Signal, Drained, env

\* SetTree: no request is in Status's loop, and entries move forward.
LEMMA SetTreeInv == ASSUME ServiceInv, ServerInv, SetTree PROVE ServiceInv'
<1>1. Install /\ Readers = {} /\ waiting' = FALSE /\ UNCHANGED <<listener, request, floor, crls, phase>>
  BY DEF SetTree, LockFree, Install, env
<1>2. ASSUME NEW i \in Issuers, entry[i] # Absent
      PROVE  /\ entry[i].tree \in Nat /\ entry'[i] # Absent /\ entry'[i].tree \in Nat
             /\ NoOlder(i, entry'[i].tree, entry[i].tree)
  BY <1>1, <1>2, InstallForward, EntryTree
<1>3. ASSUME NEW i \in Issuers, NEW n \in Nat, entry[i] # Absent, NoOlder(i, entry[i].tree, n)
      PROVE  entry'[i] # Absent /\ NoOlder(i, entry'[i].tree, n)
  BY <1>2, <1>3, NoOlderTransitive
<1>4. FloorHeld'
  <2> SUFFICES ASSUME NEW i \in Issuers, floor'[i] # Absent
               PROVE  entry'[i] # Absent /\ NoOlder(i, entry'[i].tree, floor[i])
    BY <1>1 DEF FloorHeld, NoOlder, Numbered
  <2>1. floor[i] \in Nat /\ entry[i] # Absent /\ NoOlder(i, entry[i].tree, floor[i])
    BY <1>1 DEF ServiceInv, FloorHeld
  <2> QED
    BY <1>3, <2>1
<1>5. ASSUME NEW c \in Clients PROVE Sound(request[c])'
  <2> DEFINE r == request[c]
  <2>1. Sound(r) /\ request'[c] = r /\ r.step # "read" /\ r \in RequestType
    BY <1>1 DEF ServiceInv, Readers, Sound
  <2>2. ASSUME NEW i \in Issuers PROVE Held(request[c], i)'
    <3>1. Held(r, i)
      BY <2>1 DEF Sound
    <3>2. r.since[i] \in Nat \cup {Absent} /\ (r.got[i] # Absent => r.got[i].tree \in Nat)
      BY <2>1, WordAssumption DEF RequestType, Snapshot
    <3>3. r.since[i] # Absent => entry'[i] # Absent /\ NoOlder(i, entry'[i].tree, r.since[i])
      BY <1>3, <3>1, <3>2 DEF Held
    <3>4. r.got[i] # Absent => entry'[i] # Absent /\ NoOlder(i, entry'[i].tree, r.got[i].tree)
      BY <1>3, <3>1, <3>2 DEF Held
    <3> QED
      BY <1>1, <2>1, <3>1, <3>3, <3>4 DEF Held, NoOlder, Numbered
  <2> QED
    BY <2>1, <2>2 DEF Sound
<1> QED
  BY <1>1, <1>4, <1>5 DEF ServiceInv, NotYet

\* A listener and the lock's queue are no request's business.
LEMMA ListenerInv ==
  ASSUME ServiceInv, UNCHANGED <<vars, request, floor>>,
         listener' \in [Apis -> {"closed", "open", "stopped"}], waiting' \in BOOLEAN,
         phase \notin {"down", "boot"} \/ UNCHANGED listener
  PROVE  ServiceInv'
<1>1. UNCHANGED <<entry, crls, phase>>
  BY DEF vars, env
<1>2. (\A c \in Clients : Sound(request[c])') /\ FloorHeld'
  BY <1>1, SameEntries
<1> QED
  BY <1>1, <1>2 DEF ServiceInv, NotYet

\* A state the invariant allows steps to another one: one case per action.
LEMMA ServiceNextInv == ServiceInv /\ ServerInv /\ [ServiceNext]_all => ServiceInv'
<1> SUFFICES ASSUME ServiceInv, ServerInv, [ServiceNext]_all PROVE ServiceInv'
  OBVIOUS
<1>1. CASE (Environment \/ Background) /\ UNCHANGED service
  BY <1>1, BackgroundInv
<1>2. CASE SetTreeWaits
  BY <1>2, ListenerInv DEF SetTreeWaits, ServiceInv
<1>3. CASE SetTree
  BY <1>3, SetTreeInv
<1>4. ASSUME NEW a \in Apis, Listen(a) PROVE ServiceInv'
  <2>1. listener' \in [Apis -> {"closed", "open", "stopped"}] /\ phase \notin {"down", "boot"}
    BY <1>4 DEF Listen, ServiceInv
  <2> QED
    BY <1>4, <2>1, ListenerInv DEF Listen, ServiceInv
<1>5. CASE GracefulStop \/ Shutdown
  <2>1. listener' \in [Apis -> {"closed", "open", "stopped"}] /\ phase \notin {"down", "boot"}
    BY <1>5 DEF GracefulStop, Shutdown, ServiceInv
  <2> QED
    BY <1>5, <2>1, ListenerInv DEF GracefulStop, Shutdown, ServiceInv
<1>6. ASSUME NEW c \in Clients, NEW a \in Apis, NEW asked \in SUBSET Issuers,
             NEW s \in Serials \cup {"none"}, Accept(c, Request(a, asked, s))
      PROVE  ServiceInv'
  <2>1. PICK r : r = Request(a, asked, s)
    OBVIOUS
  <2>2. Sound(r) /\ r.api = a /\ Accept(c, r)
    BY <1>6, <2>1, AcceptedSound DEF Request
  <2>3. phase \notin {"down", "boot"}
    BY <2>2 DEF Accept, ServiceInv, NotYet
  <2> QED
    BY <2>2, <2>3, OneRequest DEF Accept
<1>7. CASE \E c \in Clients, a \in Apis :
             AskStatus(c, a) \/ \E i \in Issuers, s \in Serials : AskProof(c, a, i, s)
  BY <1>6, <1>7 DEF AskStatus, AskProof
<1>8. ASSUME NEW c \in Clients, ClientStep(c) \/ HandlerStep(c) PROVE ServiceInv'
  BY <1>8, ClientInv, HandlerInv
<1>9. CASE Ends
  <2>1. phase' = "down"
    BY <1>9 DEF Ends, Crash, PowerLoss, Exit, Gone
  <2> QED
    BY <1>9, <2>1, FreshInv DEF Ends
<1>10. CASE UNCHANGED all
  <2>1. UNCHANGED <<vars, listener, request, waiting, floor>>
    BY <1>10 DEF all, service
  <2> QED
    BY <2>1, ListenerInv DEF ServiceInv
<1> QED
  BY <1>1, <1>2, <1>3, <1>4, <1>5, <1>7, <1>8, <1>9, <1>10 DEF ServiceNext

\* It holds when nothing has started.
LEMMA ServiceInitInv == ServiceInit => ServiceInv
<1> SUFFICES ASSUME ServiceInit PROVE ServiceInv
  OBVIOUS
<1>1. phase = "down" /\ Fresh
  BY DEF ServiceInit, Init
<1>2. floor \in [Issuers -> Nat \cup {Absent}] /\ \A i \in Issuers : floor[i] = Absent
  BY <1>1 DEF Fresh, Nothing
<1> QED
  BY <1>1, <1>2, NoRequestSound DEF Fresh, ServiceInv, FloorHeld, NotYet

\* Both invariants hold in every state of every behaviour.
LEMMA ServiceAlways == ServiceSpec => [](ServiceInv /\ ServerInv)
<1>1. ServiceInit => ServiceInv /\ ServerInv
  BY ServiceInitInv, InvInit DEF ServiceInit
<1>2. ServiceInv /\ ServerInv /\ [ServiceNext]_all => (ServiceInv /\ ServerInv)'
  BY ServiceNextInv, ServiceStepIsServerStep, InvNext
<1> QED
  BY <1>1, <1>2, PTL DEF ServiceSpec

-----------------------------------------------------------------------------
\* The variables keep their types, and a handler that generates a proof has an
\* entry to do it from (GetProof's ok).
THEOREM ServiceTypeCorrect == ServiceSpec => []ServiceTypeOK
<1>1. ServiceInv => ServiceTypeOK
  BY DEF ServiceInv, ServiceTypeOK, Sound
<1> QED
  BY <1>1, ServiceAlways, PTL

\* Status's read lock makes its answer the state of one moment (manager.go:86).
THEOREM StatusIsOneMoment == ServiceSpec => []StatusOneMoment
<1>1. ServiceInv => StatusOneMoment
  BY DEF ServiceInv, StatusOneMoment, Sound, Readers
<1> QED
  BY <1>1, ServiceAlways, PTL

\* Requests one after the other never see an issuer's tree go back to an older CRL,
\* over both APIs and however many clients, as long as all its CRLs are numbered
\* within 64 bits: GetProof may release the lock before it generates the proof, and
\* the watcher's comparison is all that orders trees.
THEOREM ReadsMoveForward == ServiceSpec => []ReadsNeverGoBack
<1>1. ServiceInv => ReadsNeverGoBack
  <2> SUFFICES ASSUME ServiceInv, NEW c \in Clients, request[c].step = "done",
                      NEW i \in request[c].asked, request[c].since[i] # Absent
               PROVE  request[c].got[i] # Absent /\ NoOlder(i, request[c].got[i].tree, request[c].since[i])
    BY DEF ReadsNeverGoBack
  <2>1. Sound(request[c]) /\ i \in Issuers
    BY DEF ServiceInv, Sound, RequestType
  <2> QED
    BY <2>1 DEF Sound, Held
<1> QED
  BY <1>1, ServiceAlways, PTL

\* Once REST is stopped gRPC is too, and no call is left in it.
Stopped == listener["rest"] = "stopped" => listener["grpc"] = "stopped" /\ InFlightOf("grpc") = {}

\* A handler's step neither moves the request to the other API nor forgets it.
LEMMA HandlerKeepsForm ==
  ASSUME ServiceInv, NEW c \in Clients, HandlerStep(c)
  PROVE  request'[c].api = request[c].api /\ request'[c].step # "none"
<1>1. DOMAIN request = Clients /\ request[c] \in RequestType
  BY DEF ServiceInv, Sound
<1>2. ASSUME NEW got, NEW a, Answered(c, got, a)
      PROVE  request'[c].api = request[c].api /\ request'[c].step # "none"
  BY <1>1, <1>2 DEF Answered, RequestType
<1>3. ASSUME NEW i \in Issuers, Lookup(c, i)
      PROVE  request'[c].api = request[c].api /\ request'[c].step # "none"
  <2>1. CASE entry[i] = Absent
    BY <1>2, <1>3, <2>1 DEF Lookup
  <2>2. CASE entry[i] # Absent
    BY <1>1, <1>3, <2>2 DEF Lookup, RequestType
  <2> QED
    BY <2>1, <2>2
<1>4. ASSUME NEW i \in Issuers, StatusRead(c, i)
      PROVE  request'[c].api = request[c].api /\ request'[c].step # "none"
  BY <1>1, <1>4 DEF StatusRead, RequestType
<1>5. ASSUME StatusLock(c)
      PROVE  request'[c].api = request[c].api /\ request'[c].step # "none"
  BY <1>1, <1>5 DEF StatusLock, RequestType
<1>6. ASSUME \/ StatusEnd(c)
             \/ \E i \in Issuers : Generate(c, i)
      PROVE  request'[c].api = request[c].api /\ request'[c].step # "none"
  BY <1>2, <1>6 DEF StatusEnd, Generate
<1> QED
  BY <1>3, <1>4, <1>5, <1>6 DEF HandlerStep

\* Nor does a request that arrives or is dismissed.
LEMMA ClientKeepsForm ==
  ASSUME ServiceInv, NEW c \in Clients, ClientStep(c)
  PROVE  /\ request'[c].api = request[c].api /\ request'[c].step # "none"
         /\ Arriving(c) /\ UNCHANGED listener /\ \A d \in Clients \ {c} : request'[d] = request[d]
<1>1. DOMAIN request = Clients /\ request[c] \in RequestType
  BY DEF ServiceInv, Sound
<1>2. CASE Arrives(c)
  BY <1>1, <1>2 DEF Arrives, RequestType
<1>3. ASSUME NEW a, Arriving(c), Dismissed(c, a)
      PROVE  /\ request'[c].api = request[c].api /\ request'[c].step # "none"
             /\ Arriving(c) /\ UNCHANGED listener /\ \A d \in Clients \ {c} : request'[d] = request[d]
  BY <1>1, <1>3 DEF Dismissed, RequestType
<1> QED
  BY <1>2, <1>3 DEF ClientStep, Refused, HangsUp

\* What stops stays stopped and empty: a stopped listener accepts nothing.
LEMMA StoppedNext ==
  ASSUME ServiceInv, Stopped, [ServiceNext]_all
  PROVE  Stopped'
<1> USE DEF Stopped, InFlightOf, InFlight, Arriving, Handled
<1>1. DOMAIN request = Clients /\ listener \in [Apis -> {"closed", "open", "stopped"}]
  BY DEF ServiceInv
<1>2. CASE UNCHANGED <<listener, request>>
  BY <1>2
<1>3. CASE \E a \in Apis : Listen(a)
  BY <1>1, <1>3 DEF Listen, Apis
<1>4. ASSUME NEW c \in Clients, NEW r, Accept(c, r) PROVE Stopped'
  <2>1. CASE r.api = "grpc"
    BY <1>1, <1>4, <2>1 DEF Accept
  <2>2. CASE r.api # "grpc"
    <3>1. request' = [request EXCEPT ![c] = r] /\ listener' = listener
      BY <1>4 DEF Accept
    <3>2. \A d \in Clients : request'[d].api = "grpc" => request'[d] = request[d]
      BY <1>1, <2>2, <3>1
    <3> QED
      BY <3>1, <3>2
  <2> QED
    BY <2>1, <2>2
<1>5. CASE \E c \in Clients : HandlerStep(c)
  <2> PICK c \in Clients : HandlerStep(c)
    BY <1>5
  <2>1. listener' = listener /\ InFlight(c)
    BY DEF HandlerStep, Lookup, Generate, StatusLock, StatusRead, StatusEnd, Answered
  <2>2. \A d \in Clients \ {c} : request'[d] = request[d]
    BY <1>1 DEF HandlerStep, Lookup, Generate, StatusLock, StatusRead, StatusEnd, Answered
  <2>3. request'[c].api = request[c].api
    BY HandlerKeepsForm
  <2> QED
    BY <2>1, <2>2, <2>3
<1>6. CASE GracefulStop
  BY <1>1, <1>6 DEF GracefulStop, Apis
<1>7. CASE Shutdown
  BY <1>1, <1>7 DEF Shutdown, Apis
<1>8. CASE Ends
  BY <1>8 DEF Ends, Apis
<1>9. CASE (Environment \/ Background) /\ UNCHANGED service
  BY <1>2, <1>9 DEF service
<1>10. CASE SetTreeWaits \/ SetTree \/ UNCHANGED all
  BY <1>2, <1>10 DEF SetTreeWaits, SetTree, all, service
<1>11. CASE \E c \in Clients, a \in Apis :
             AskStatus(c, a) \/ \E i \in Issuers, s \in Serials : AskProof(c, a, i, s)
  BY <1>4, <1>11 DEF AskStatus, AskProof
<1>12. CASE \E c \in Clients : ClientStep(c)
  <2> PICK c \in Clients : ClientStep(c)
    BY <1>12
  <2> QED
    BY ClientKeepsForm
<1> QED
  BY <1>3, <1>5, <1>6, <1>7, <1>8, <1>9, <1>10, <1>11, <1>12 DEF ServiceNext

LEMMA StoppedAlways == ServiceSpec => []Stopped
<1>1. ServiceInit => Stopped
  BY DEF ServiceInit, Fresh, Stopped, Apis
<1> QED
  BY <1>1, StoppedNext, ServiceAlways, PTL DEF ServiceSpec

\* A step that takes a request in flight away ends the process.
LEMMA OnlyEndsForgets ==
  ASSUME ServiceInv, [ServiceNext]_all, NEW c \in Clients, InFlight(c), request'[c].step = "none"
  PROVE  Ends
<1>1. DOMAIN request = Clients /\ request[c].step # "none" /\ request[c] \in RequestType
  BY DEF ServiceInv, InFlight, Arriving, Handled, Sound
<1>2. CASE UNCHANGED request
  BY <1>1, <1>2
<1>3. ASSUME NEW d \in Clients, NEW r, Accept(d, r) PROVE FALSE
  BY <1>1, <1>3 DEF Accept
<1>4. ASSUME NEW d \in Clients, HandlerStep(d) PROVE FALSE
  <2>1. CASE d # c
    <3>1. request'[c] = request[c]
      BY <1>1, <1>4, <2>1 DEF HandlerStep, Lookup, Generate, StatusLock, StatusRead, StatusEnd, Answered
    <3> QED
      BY <1>1, <3>1
  <2>2. CASE d = c
    BY <1>1, <1>4, <2>2, HandlerKeepsForm
  <2> QED
    BY <2>1, <2>2
<1>5. CASE \E d \in Clients, a \in Apis :
             AskStatus(d, a) \/ \E i \in Issuers, s \in Serials : AskProof(d, a, i, s)
  BY <1>3, <1>5 DEF AskStatus, AskProof
<1>6. ASSUME NEW d \in Clients, ClientStep(d) PROVE FALSE
  BY <1>1, <1>6, ClientKeepsForm
<1> QED
  BY <1>2, <1>4, <1>5, <1>6
  DEF ServiceNext, service, all, SetTreeWaits, SetTree, Listen, GracefulStop, Shutdown

\* Only a crash loses a request: main does not return before the handlers have
\* (main.go:110, 111).
THEOREM NoneLost == ServiceSpec => AcceptedIsAnswered
<1>1. ASSUME ServiceInv, ServerInv, Stopped, [ServiceNext]_all
      PROVE  \A c \in Clients : InFlight(c) /\ request'[c].step = "none" => stops' > stops
  <2> SUFFICES ASSUME NEW c \in Clients, InFlight(c), request'[c].step = "none"
               PROVE  stops' > stops
    OBVIOUS
  <2>1. Ends
    BY <1>1, OnlyEndsForgets
  <2>2. CASE Crash \/ PowerLoss
    BY <1>1, <2>2 DEF Crash, PowerLoss, ServerInv, TypeOK
  <2>3. CASE Exit /\ MainReturns
    <3>1. request[c].api \in Apis
      BY <1>1 DEF ServiceInv, Sound, RequestType
    <3> QED
      BY <1>1, <2>3, <3>1 DEF MainReturns, Stopped, InFlightOf, Apis
  <2> QED
    BY <2>1, <2>2, <2>3 DEF Ends
<1>2. ServiceInv /\ ServerInv /\ Stopped /\ [ServiceNext]_all =>
        [\A c \in Clients : InFlight(c) /\ request'[c].step = "none" => stops' > stops]_all
  BY <1>1
<1> QED
  BY <1>2, ServiceAlways, StoppedAlways, PTL DEF ServiceSpec, AcceptedIsAnswered
=============================================================================
