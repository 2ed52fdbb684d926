----------------------------- MODULE ProofService ---------------------------
(***************************************************************************)
(* The server of RevocationServer with its clients: the REST and the gRPC  *)
(* listener, proof and status requests, the manager's read-write lock, and *)
(* the order in which main stops it all.                                   *)
(*                                                                         *)
(* Status holds the read lock while it goes over the issuers; GetProof     *)
(* takes it to look the entry up, and generates the proof after releasing  *)
(* it, from a tree that may by then have been replaced.  A writer that     *)
(* waits for the lock keeps new readers out (sync.RWMutex).  A request is  *)
(* in flight before all of it is there: the message of a gRPC call or the  *)
(* body of an HTTP request may never come, and no timeout ends the wait    *)
(* (net/http waits for the body after the handler, which the model puts    *)
(* before it).  Trees are not changed once they are installed: LeanIMT's   *)
(* GenerateProof says what a proof is.  The id of an issuer main does not  *)
(* know is answered like that of one not loaded.  Listener failures are    *)
(* log.Fatalf, as is a gRPC Serve that GracefulStop has overtaken: they    *)
(* end the process like Crash.                                             *)
(***************************************************************************)
EXTENDS RevocationServer

CONSTANTS
  Clients,      \* request goroutines, one request each at a time
  NoneRevoked,  \* the issuers and positions of CRLs that list no serial
  Serials       \* the kinds of serial number clients ask for

ASSUME SerialsAssumption == Serials \subseteq {"malformed", "zero", "negative", "positive"}

Apis == {"rest", "grpc"}

VARIABLES
  listener,  \* listener[a]: "closed", "open", "stopped"
  request,   \* request[c]: the client's last request
  waiting,   \* a SetTree of the watcher is blocked in Lock
  floor      \* history: floor[i], the newest tree a client has been answered from

service == <<listener, request, waiting, floor>>
all     == <<vars, service>>

Nothing == [i \in Issuers |-> Absent]

\* asked: the issuers it is about; left: those Status has still to visit; got: the
\* entries it has read; since: floor when it was made.
Request(api, asked, serial) ==
  [step |-> "arriving", api |-> api, asked |-> asked, serial |-> serial, left |-> {},
   got |-> Nothing, since |-> floor, answer |-> "none"]

NoRequest ==
  [step |-> "none", api |-> "rest", asked |-> {}, serial |-> "none", left |-> {},
   got |-> Nothing, since |-> Nothing, answer |-> "none"]

Arriving(c) == request[c].step = "arriving"
Handled(c)  == request[c].step \in {"lookup", "generate", "lock", "read"}
InFlight(c) == Arriving(c) \/ Handled(c)
Readers     == {c \in Clients : request[c].step = "read"}

Fresh ==
  /\ listener = [a \in Apis |-> "closed"]
  /\ request = [c \in Clients |-> NoRequest]
  /\ waiting = FALSE /\ floor = Nothing

ServiceInit == Init /\ Fresh

-----------------------------------------------------------------------------
(* Requests.                                                               *)

Listen(a) ==
  /\ phase \in {"running", "draining", "stopping"} /\ listener[a] = "closed"
  /\ listener' = [listener EXCEPT ![a] = "open"]
  /\ UNCHANGED <<vars, request, waiting, floor>>

Accept(c, r) ==
  /\ listener[r.api] = "open" /\ ~InFlight(c)
  /\ request' = [request EXCEPT ![c] = r]
  /\ UNCHANGED <<vars, listener, waiting, floor>>

AskProof(c, a, i, s) == Accept(c, Request(a, {i}, s))

AskStatus(c, a) == Accept(c, Request(a, Issuers, "none"))

\* All of the request is there, and its handler runs.
Arrives(c) ==
  /\ Arriving(c) /\ request[c].serial # "malformed"
  /\ request' = [request EXCEPT ![c].step = IF request[c].serial = "none" THEN "lock" ELSE "lookup"]
  /\ UNCHANGED <<vars, listener, waiting, floor>>

\* The request has ended without a look at the trees.
Dismissed(c, a) ==
  /\ request' = [request EXCEPT ![c].step = "done", ![c].answer = a, ![c].asked = {}, ![c].serial = "none"]
  /\ UNCHANGED <<vars, listener, waiting, floor>>

\* A serial that is empty, too long or not hexadecimal is refused at once; a
\* sign is part of what SetString takes.
Refused(c) == Arriving(c) /\ request[c].serial = "malformed" /\ Dismissed(c, "invalid")

\* The client closes the connection before it has sent it all.
HangsUp(c) == Arriving(c) /\ Dismissed(c, "gone")

ClientStep(c) == Arrives(c) \/ Refused(c) \/ HangsUp(c)

Max2(m, n) == IF m > n THEN m ELSE n

\* The answer reaches the client, who knows what it was answered from.
Answered(c, got, a) ==
  /\ request' = [request EXCEPT ![c].step = "done", ![c].answer = a, ![c].got = got, ![c].serial = "none"]
  /\ floor' = [i \in Issuers |->
                 IF got[i] = Absent THEN floor[i]
                 ELSE IF floor[i] = Absent THEN got[i].tree ELSE Max2(floor[i], got[i].tree)]
  /\ UNCHANGED <<vars, listener, waiting>>

\* Mutant: the second result of the map lookup is not looked at.
LookupUnchecked(c, i) ==
  /\ request[c].step = "lookup" /\ request[c].asked = {i} /\ ~waiting
  /\ request' = [request EXCEPT ![c].step = "generate", ![c].got[i] = entry[i]]
  /\ UNCHANGED <<vars, listener, waiting, floor>>

\* GetProof: RLock, the map lookup, RUnlock.
Lookup(c, i) ==
  /\ request[c].step = "lookup" /\ request[c].asked = {i} /\ ~waiting
  /\ IF entry[i] = Absent
       THEN Answered(c, Nothing, "unknown")
       ELSE /\ request' = [request EXCEPT ![c].step = "generate", ![c].got[i] = entry[i]]
            /\ UNCHANGED <<vars, listener, waiting, floor>>

\* What the handlers make of GenerateProof's outcome: only REST has a code of its
\* own for an empty tree. A negative serial has no low leaf.
ProofAnswer(a, serial, crl) ==
  CASE serial = "zero" -> "internal"
    [] serial # "zero" /\ crl \in NoneRevoked -> IF a = "rest" THEN "unavailable" ELSE "internal"
    [] serial = "negative" /\ crl \notin NoneRevoked -> "internal"
    [] OTHER -> "ok"

Generate(c, i) ==
  /\ request[c].step = "generate" /\ request[c].asked = {i}
  /\ Answered(c, request[c].got, ProofAnswer(request[c].api, request[c].serial, <<i, request[c].got[i].tree>>))

\* Status: RLock, then the entries of the map in any order, then RUnlock.
StatusLock(c) ==
  /\ request[c].step = "lock" /\ ~waiting
  /\ request' = [request EXCEPT ![c].step = "read", ![c].left = {i \in Issuers : entry[i] # Absent}]
  /\ UNCHANGED <<vars, listener, waiting, floor>>

StatusRead(c, i) ==
  /\ request[c].step = "read" /\ i \in request[c].left
  /\ request' = [request EXCEPT ![c].got[i] = entry[i], ![c].left = @ \ {i}]
  /\ UNCHANGED <<vars, listener, waiting, floor>>

StatusEnd(c) ==
  /\ request[c].step = "read" /\ request[c].left = {}
  /\ Answered(c, request[c].got, "ok")

HandlerStep(c) ==
  \/ \E i \in Issuers : Lookup(c, i) \/ Generate(c, i) \/ StatusRead(c, i)
  \/ StatusLock(c) \/ StatusEnd(c)

-----------------------------------------------------------------------------
(* The server's own steps.                                                 *)

\* SetTree asks for the write lock: from now on no reader gets in.
SetTreeWaits ==
  /\ Working("build") /\ ~waiting
  /\ waiting' = TRUE
  /\ UNCHANGED <<vars, listener, request, floor>>

\* Mutant: SetTree writes while Status reads.
LockGranted == TRUE

\* The readers that were in are out.
LockFree == Readers = {}

\* Mutant: the deferred Unlock is missing.
SetTreeLocked ==
  /\ waiting /\ LockFree
  /\ Install
  /\ UNCHANGED <<waiting, listener, request, floor>>

SetTree ==
  /\ waiting /\ LockFree
  /\ Install
  /\ waiting' = FALSE /\ UNCHANGED <<listener, request, floor>>

\* grpcServer.GracefulStop closes the listener and waits for the calls in
\* progress; httpServer.Shutdown then does the same. Neither has a deadline.
InFlightOf(a) == {c \in Clients : InFlight(c) /\ request[c].api = a}

GracefulStop ==
  /\ phase = "stopping" /\ listener["grpc"] # "stopped"
  /\ listener' = [listener EXCEPT !["grpc"] = "stopped"]
  /\ UNCHANGED <<vars, request, waiting, floor>>

Shutdown ==
  /\ phase = "stopping" /\ listener["grpc"] = "stopped" /\ InFlightOf("grpc") = {}
  /\ listener["rest"] # "stopped"
  /\ listener' = [listener EXCEPT !["rest"] = "stopped"]
  /\ UNCHANGED <<vars, request, waiting, floor>>

\* Mutant: Shutdown does not wait.
MainReturnsAtOnce == listener["rest"] = "stopped"

MainReturns == listener["rest"] = "stopped" /\ InFlightOf("rest") = {}

Ends ==
  /\ Crash \/ PowerLoss \/ (Exit /\ MainReturns)
  /\ listener' = [a \in Apis |-> "closed"]
  /\ request' = [c \in Clients |-> NoRequest]
  /\ waiting' = FALSE /\ floor' = Nothing

Background == BootStep \/ Polling \/ ExportStep \/ Signal \/ Drained

ServiceNext ==
  \/ (Environment \/ Background) /\ UNCHANGED service
  \/ SetTreeWaits \/ SetTree
  \/ \E a \in Apis : Listen(a)
  \/ \E c \in Clients, a \in Apis :
       AskStatus(c, a) \/ \E i \in Issuers, s \in Serials : AskProof(c, a, i, s)
  \/ \E c \in Clients : ClientStep(c) \/ HandlerStep(c)
  \/ GracefulStop \/ Shutdown \/ Ends

ServiceSpec == ServiceInit /\ [][ServiceNext]_all

Step(A) == A /\ UNCHANGED service

\* main after the signal.
Stopping == Step(Drained) \/ GracefulStop \/ Shutdown \/ (phase = "stopping" /\ Ends /\ stops' = stops)

\* The watcher, the export goroutines and main's shutdown keep running. Start's
\* select takes any of its ready cases, so in the end that of the cancelled context.
\* A request's goroutine gets the lock once no writer waits (RWMutex lets the readers
\* in that a writer has kept out before the next writer). Of clients, MOICA and the
\* start-up nothing is assumed: a request may never arrive.
ServiceFairness ==
  /\ WF_all(Step(Polling) \/ SetTreeWaits \/ SetTree) /\ SF_all(Step(WatcherReturns))
  /\ WF_all(Step(ExportStep)) /\ WF_all(Stopping)
  /\ \A c \in Clients : SF_all(HandlerStep(c))

FairService == ServiceSpec /\ ServiceFairness

-----------------------------------------------------------------------------
(* Properties.                                                             *)

RequestType ==
  [step : {"none", "arriving", "lookup", "generate", "lock", "read", "done"}, api : Apis,
   asked : SUBSET Issuers, serial : Serials \cup {"none"}, left : SUBSET Issuers,
   got : [Issuers -> Snapshot \cup {Absent}], since : [Issuers -> Nat \cup {Absent}],
   answer : {"none", "ok", "invalid", "gone", "unknown", "unavailable", "internal"}]

\* The types of the variables; a proof is generated from an entry that is there.
ServiceTypeOK ==
  /\ listener \in [Apis -> {"closed", "open", "stopped"}]
  /\ request \in [Clients -> RequestType]
  /\ \A c \in Clients : request[c].step = "generate" =>
       \E i \in Issuers : request[c].asked = {i} /\ request[c].got[i] \in Snapshot
  /\ waiting \in BOOLEAN /\ floor \in [Issuers -> Nat \cup {Absent}]

\* A status answer shows the trees of all issuers as they were at one moment: what
\* has been read of one issuer is still what is served when the last is read,
\* whatever the watcher does in between.
StatusOneMoment ==
  \A c \in Readers : request[c].got =
    [i \in Issuers |-> IF i \in request[c].left THEN Absent ELSE entry[i]]

\* No older, up to issuers with a CRL the watcher's comparison cannot place.
NoOlder(i, tree, than) == tree >= than \/ ~Numbered(i)

\* What a request is answered from is the tree of no older CRL than what any request
\* that had ended when it was made was answered from, on either API: no proof is
\* against a root that status has already reported as replaced, and no issuer
\* becomes unknown again. It is so where all numbers are there and fit 64 bits.
ReadsNeverGoBack ==
  \A c \in Clients :
    request[c].step = "done" =>
      \A i \in request[c].asked :
        request[c].since[i] # Absent =>
          /\ request[c].got[i] # Absent
          /\ NoOlder(i, request[c].got[i].tree, request[c].since[i])

\* A request that has been accepted is lost by a crash only: the listeners stop one
\* after the other, and main returns when the last handler has.
AcceptedIsAnswered ==
  [][\A c \in Clients : InFlight(c) /\ request'[c].step = "none" => stops' > stops]_all

\* Handlers and watcher never wait for each other for ever: no request that has
\* arrived stays with its handler.
EveryRequestEnds == \A c \in Clients : []<>~Handled(c)

\* After the signal the process ends, with rebuilds, exports, requests and a watcher
\* that hangs under way, and more requests coming; unless a client leaves a request
\* unfinished for ever, which GracefulStop and Shutdown wait for.
StopsAfterSignal ==
  \/ []<>(phase \notin {"draining", "stopping"})
  \/ \E c \in Clients : <>[]Arriving(c)
=============================================================================
