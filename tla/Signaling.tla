------------------------------ MODULE Signaling ------------------------------
(***************************************************************************)
(* The signaling of node_sync: clients and file servers meet through the   *)
(* metadata server.  A file server registers its address; the metadata     *)
(* server relays a client's offer to a registered file server over a       *)
(* connection of its own and passes the answers back.                      *)
(*                                                                         *)
(* Each process is one event loop, so a callback is one step.  A peer      *)
(* connection has two gathering events, and the handler of each acts if it *)
(* finds gathering complete by then: a client sends its offer once or      *)
(* twice, each time over a connection of its own, and a file server        *)
(* answers each request once or twice.                                     *)
(*                                                                         *)
(* Messages are a set, and those of one connection and direction arrive in *)
(* order: only answers are more than one, and numbered.  Processes crash;  *)
(* a crash loses the process's memory and its connections, and what was on *)
(* its way may or may not still arrive.                                    *)
(***************************************************************************)
EXTENDS Naturals, Sequences, FiniteSets

CONSTANTS
  Client,           \* runs of client.js, each with one offer
  Late,             \* bound: those whose first event may be handled late
  LateAnswer,       \* bound: requests for whose answerer it may
  FileServer,       \* runs of file_server.js, numbered: a restart is another one
  Addr,             \* addresses and ports; the protocol is a digest of the port
  Places,           \* bound: << f, a >> if run f may listen at address a
  NoServer,         \* "no file server"
  MaxRequests,      \* bound: requests that reach the metadata server
  MaxRestarts       \* bound: restarts of the metadata server

ASSUME SignalingAssumption ==
  /\ MaxRestarts \in Nat
  /\ NoServer \notin FileServer
  /\ Late \subseteq Client
  /\ FileServer \subseteq Nat /\ Places \subseteq FileServer \X Addr

\* A client's requests, in order; the second is there if its first event was late.
Request == Client \X {1} \cup Late \X {2}

VARIABLES
  ms,               \* the metadata server: up or down
  epoch,            \* how many times it was restarted
  fs_DB,            \* its records, in order of registration; all have one userID
  relay,            \* relay[r]: its connection to a file server for request r
  route,            \* route[r]: the address that connection is made to
  server,           \* server[r]: the file server at its other end
  fs,               \* fs[f]: the life of a file server
  addr,             \* addr[f]: where it listens, once started
  registeredIn,     \* registeredIn[f]: the epoch whose record it was promised
  job,              \* job[r]: the answerer a file server made for request r
  made,             \* made[r]: how often that answerer's answer was sent
  client,           \* client[c]: the life of a client
  link,             \* link[r]: the client's connection to the metadata server
  got,              \* history: the answers handed over on link[r], in order
  wire              \* messages on their way

msVars == << ms, epoch, fs_DB, relay, route, server >>
fsVars == << fs, addr, registeredIn, job, made >>
clientVars == << client, link, got >>
vars == << msVars, fsVars, clientVars, wire >>

Live(f) == fs[f] \in {"starting", "registering", "registered", "unregistered"}

\* An answer: the request whose offer it was made for, and which sending of it.
AnswerTo(r, n) == [offer |-> r, n |-> n]
Answers == [offer : Request, n : 1..2]

Messages ==
  [kind : {"FS_REGISTER"}, fs : FileServer, at : Addr]
    \cup [kind : {"FS_REGISTER_OK"}, fs : FileServer, epoch : 0..MaxRestarts]
    \cup [kind : {"UPLOAD_REQUEST", "RELAYED_REQUEST"}, offer : Request]
    \cup [kind : {"UPLOAD_READY"}, offer : Request, n : 1..2]
    \cup [kind : {"ANSWER"}, to : Request, offer : Request, n : 1..2]

TypeOK ==
  /\ ms \in {"up", "down"}
  /\ epoch \in 0..MaxRestarts
  /\ fs_DB \in Seq(Addr)
  /\ relay \in [Request -> {"none", "connecting", "refused", "open", "closing"}]
  /\ route \in [Request -> Addr \cup {NoServer}]
  /\ server \in [Request -> FileServer \cup {NoServer}]
  /\ fs \in [FileServer -> {"new", "starting", "registering", "registered",
                            "unregistered", "dead"}]
  /\ addr \in [FileServer -> Addr \cup {NoServer}]
  /\ registeredIn \in [FileServer -> 0..MaxRestarts]
  /\ job \in [Request -> {"none", "answering", "done"}]
  /\ made \in [Request -> 0..2]
  /\ client \in [Client -> {"idle", "again", "sent", "gone"}]
  /\ link \in [Request -> {"none", "open", "closed"}]
  /\ got \in [Request -> Seq(Answers)]
  /\ wire \subseteq Messages

Init ==
  /\ ms = "up" /\ epoch = 0 /\ fs_DB = << >>
  /\ relay = [r \in Request |-> "none"] /\ route = [r \in Request |-> NoServer]
  /\ server = [r \in Request |-> NoServer] /\ link = [r \in Request |-> "none"]
  /\ fs = [f \in FileServer |-> "new"] /\ addr = [f \in FileServer |-> NoServer]
  /\ registeredIn = [f \in FileServer |-> 0]
  /\ job = [r \in Request |-> "none"] /\ made = [r \in Request |-> 0]
  /\ client = [c \in Client |-> "idle"]
  /\ got = [r \in Request |-> << >>] /\ wire = {}

\* What is on its way to a file server, and from it.
ToServer(f) ==
  {m \in wire : \/ m.kind = "FS_REGISTER_OK" /\ m.fs = f
                \/ m.kind = "RELAYED_REQUEST" /\ server[m.offer] = f}
FromServer(f) ==
  {m \in wire : \/ m.kind = "FS_REGISTER" /\ m.fs = f
                \/ m.kind = "UPLOAD_READY" /\ server[m.offer] = f}

\* A connection keeps the order of what is sent over it: the first answer comes first.
InOrder(m) == \A e \in wire : e.kind = m.kind /\ e.offer = m.offer => m.n <= e.n

\* What the metadata server sent before it went down may still arrive.
FromMS == {m \in wire : m.kind \in {"FS_REGISTER_OK", "RELAYED_REQUEST", "ANSWER"}}

-----------------------------------------------------------------------------
(* The file server                                                         *)

\* listen(), then connect() to the metadata server; a port in use ends the process.
\* Runs are numbered as they start.
FSStart(f, a) ==
  /\ fs[f] = "new" /\ \A g \in FileServer : g < f => fs[g] # "new"
  /\ \A g \in FileServer : Live(g) => addr[g] # a
  /\ fs' = [fs EXCEPT ![f] = "starting"]
  /\ addr' = [addr EXCEPT ![f] = a]
  /\ UNCHANGED << msVars, registeredIn, job, made, clientVars, wire >>

\* A connection failure is logged and never retried.
FSConnect(f) ==
  /\ fs[f] = "starting"
  /\ IF ms = "up"
     THEN /\ fs' = [fs EXCEPT ![f] = "registering"]
          /\ wire' = wire \cup {[kind |-> "FS_REGISTER", fs |-> f, at |-> addr[f]]}
     ELSE /\ fs' = [fs EXCEPT ![f] = "unregistered"]
          /\ UNCHANGED wire
  /\ UNCHANGED << msVars, addr, registeredIn, job, made, clientVars >>

\* FS_REGISTER_OK: the connection is closed, and the registration never renewed.
FSRegistered(m) ==
  /\ m.kind = "FS_REGISTER_OK" /\ fs[m.fs] = "registering"
  /\ fs' = [fs EXCEPT ![m.fs] = "registered"]
  /\ registeredIn' = [registeredIn EXCEPT ![m.fs] = m.epoch]
  /\ wire' = wire \ {m}
  /\ UNCHANGED << msVars, addr, job, made, clientVars >>

\* Mutant: one answerer for the whole file server, so a request replaces the one before.
FSRequestShared(m) ==
  /\ m.kind = "RELAYED_REQUEST"
  /\ job' = [r \in Request |-> IF r = m.offer THEN "answering"
                              ELSE IF job[r] = "answering" /\ server[r] = server[m.offer]
                              THEN "done" ELSE job[r]]
  /\ made' = [made EXCEPT ![m.offer] = 0]
  /\ wire' = wire \ {m}
  /\ UNCHANGED << msVars, fs, addr, registeredIn, clientVars >>

\* UPLOAD_REQUEST: an answerer of its own for each request, which has sent nothing yet.
FSRequest(m) ==
  /\ m.kind = "RELAYED_REQUEST"
  /\ job' = [job EXCEPT ![m.offer] = "answering"]
  /\ made' = [made EXCEPT ![m.offer] = 0]
  /\ wire' = wire \ {m}
  /\ UNCHANGED << msVars, fs, addr, registeredIn, clientVars >>

\* Mutant: the answer is held back while another one is being made.
FSAnswerAlone(r) ==
  /\ job[r] = "answering"
  /\ \A q \in Request \ {r} : job[q] # "answering"
  /\ job' = [job EXCEPT ![r] = "done"]
  /\ made' = [made EXCEPT ![r] = @ + 1]
  /\ wire' = wire \cup IF relay[r] \in {"open", "closing"}
                       THEN {[kind |-> "UPLOAD_READY", offer |-> r, n |-> made[r] + 1]} ELSE {}
  /\ UNCHANGED << msVars, fs, addr, registeredIn, clientVars >>

\* A gathering event finds gathering complete: the answer goes out on the connection of
\* its request, and nowhere if that is closed.  A first event handled late is followed
\* by the second, which sends it again.
FSAnswer(r) ==
  /\ job[r] = "answering"
  /\ made' = [made EXCEPT ![r] = @ + 1]
  /\ \/ job' = [job EXCEPT ![r] = "done"]
     \/ made[r] = 0 /\ r \in LateAnswer /\ UNCHANGED job
  /\ wire' = wire \cup IF relay[r] \in {"open", "closing"}
                       THEN {[kind |-> "UPLOAD_READY", offer |-> r, n |-> made[r] + 1]} ELSE {}
  /\ UNCHANGED << msVars, fs, addr, registeredIn, clientVars >>

\* Killed, or ended by error_handler: nothing is taken back from the metadata server.
FSCrash(f) ==
  /\ Live(f)
  /\ fs' = [fs EXCEPT ![f] = "dead"]
  /\ registeredIn' = [registeredIn EXCEPT ![f] = 0]
  /\ job' = [r \in Request |-> IF job[r] = "answering" /\ server[r] = f THEN "done" ELSE job[r]]
  /\ \E lost \in SUBSET FromServer(f) : wire' = wire \ (ToServer(f) \cup lost)
  /\ UNCHANGED << msVars, addr, made, clientVars >>

-----------------------------------------------------------------------------
(* The metadata server                                                     *)

\* Mutant: a record of the same userID is replaced.
MSRegisterUpsert(m) ==
  /\ ms = "up" /\ m.kind = "FS_REGISTER"
  /\ fs_DB' = << m.at >>
  /\ wire' = (wire \ {m}) \cup
       IF Live(m.fs) THEN {[kind |-> "FS_REGISTER_OK", fs |-> m.fs, epoch |-> epoch]} ELSE {}
  /\ UNCHANGED << ms, epoch, relay, route, server, fsVars, clientVars >>

MSRegister(m) ==
  /\ ms = "up" /\ m.kind = "FS_REGISTER"
  /\ fs_DB' = Append(fs_DB, m.at)
  /\ wire' = (wire \ {m}) \cup
       IF Live(m.fs) THEN {[kind |-> "FS_REGISTER_OK", fs |-> m.fs, epoch |-> epoch]} ELSE {}
  /\ UNCHANGED << ms, epoch, relay, route, server, fsVars, clientVars >>

\* The process ends, with its records and its connections.
MSDown ==
  /\ ms' = "down"
  /\ relay' = [r \in Request |-> "none"]
  /\ route' = [r \in Request |-> NoServer]
  /\ link' = [r \in Request |-> IF link[r] = "open" THEN "closed" ELSE link[r]]
  /\ fs_DB' = << >>
  /\ \E kept \in SUBSET FromMS : wire' = kept
  /\ UNCHANGED << epoch, server, fsVars, client, got >>

\* Mutant: the search goes through all records and keeps the last that matches.
MSRequestLast(m) ==
  /\ ms = "up" /\ m.kind = "UPLOAD_REQUEST"
  /\ IF fs_DB = << >>
     THEN MSDown
     ELSE /\ relay' = [relay EXCEPT ![m.offer] = "connecting"]
          /\ route' = [route EXCEPT ![m.offer] = fs_DB[Len(fs_DB)]]
          /\ wire' = wire \ {m}
          /\ UNCHANGED << ms, epoch, fs_DB, server, fsVars, clientVars >>

\* The record is searched by userID.  Every record has the one asked for, so the
\* first is taken; with no record the handler throws and the process is gone.
MSRequest(m) ==
  /\ ms = "up" /\ m.kind = "UPLOAD_REQUEST"
  /\ IF fs_DB = << >>
     THEN MSDown
     ELSE /\ relay' = [relay EXCEPT ![m.offer] = "connecting"]
          /\ route' = [route EXCEPT ![m.offer] = Head(fs_DB)]
          /\ wire' = wire \ {m}
          /\ UNCHANGED << ms, epoch, fs_DB, server, fsVars, clientVars >>

\* The connection to the record's address; a failure has no handler.
RelayConnect(r) ==
  /\ ms = "up" /\ relay[r] = "connecting"
  /\ \/ \E f \in FileServer :
          /\ Live(f) /\ addr[f] = route[r]
          /\ server' = [server EXCEPT ![r] = f]
          /\ relay' = [relay EXCEPT ![r] = "open"]
          /\ wire' = wire \cup {[kind |-> "RELAYED_REQUEST", offer |-> r]}
     \/ /\ ~\E f \in FileServer : Live(f) /\ addr[f] = route[r]
        /\ relay' = [relay EXCEPT ![r] = "refused"]
        /\ UNCHANGED << server, wire >>
  /\ UNCHANGED << ms, epoch, fs_DB, route, fsVars, clientVars >>

\* Mutant: "connection" is shared by all requests, so any client may get the answer.
RelayAnswerShared(m) ==
  /\ ms = "up" /\ m.kind = "UPLOAD_READY" /\ InOrder(m)
  /\ relay[m.offer] \in {"open", "closing"}
  /\ relay' = [relay EXCEPT ![m.offer] = "closing"]
  /\ \E r \in {q \in Request : link[q] = "open"} :
       wire' = (wire \ {m})
                 \cup {[kind |-> "ANSWER", to |-> r, offer |-> m.offer, n |-> m.n]}
  /\ UNCHANGED << ms, epoch, fs_DB, route, server, fsVars, clientVars >>

\* What the file server sends goes to the client the request came from, and the relay is
\* closed, each time; what arrives while it closes is passed on, or dropped.
RelayAnswer(m) ==
  /\ ms = "up" /\ m.kind = "UPLOAD_READY" /\ InOrder(m)
  /\ relay[m.offer] \in {"open", "closing"}
  /\ relay' = [relay EXCEPT ![m.offer] = "closing"]
  /\ \/ wire' = (wire \ {m}) \cup
            IF link[m.offer] = "open"
            THEN {[kind |-> "ANSWER", to |-> m.offer, offer |-> m.offer, n |-> m.n]} ELSE {}
     \/ relay[m.offer] = "closing" /\ wire' = wire \ {m}
  /\ UNCHANGED << ms, epoch, fs_DB, route, server, fsVars, clientVars >>

\* Somebody kills it, and starts it again with no records.
MSCrash == ms = "up" /\ MSDown

MSRestart ==
  /\ ms = "down" /\ epoch < MaxRestarts
  /\ ms' = "up" /\ epoch' = epoch + 1
  /\ UNCHANGED << fs_DB, relay, route, server, fsVars, clientVars, wire >>

-----------------------------------------------------------------------------
(* The client                                                              *)

NextRequest(c) == << c, IF client[c] = "idle" THEN 1 ELSE 2 >>

\* Mutant: the request names the file server instead of carrying the offer.
ClientRequestNoOffer(c) ==
  /\ client[c] = "idle" /\ ms = "up"
  /\ client' = [client EXCEPT ![c] = "sent"]
  /\ link' = [link EXCEPT ![<< c, 1 >>] = "open"]
  /\ wire' = wire \cup {[kind |-> "UPLOAD_REQUEST", offer |-> NoServer]}
  /\ UNCHANGED << msVars, fsVars, got >>

\* A gathering event finds gathering complete: connect anew, and send the offer; a
\* failure is only logged.  A first event handled late is followed by the second.
ClientRequest(c) ==
  /\ client[c] \in {"idle", "again"}
  /\ Cardinality({r \in Request : link[r] # "none"}) < MaxRequests
  /\ \/ client' = [client EXCEPT ![c] = "sent"]
     \/ client[c] = "idle" /\ c \in Late /\ client' = [client EXCEPT ![c] = "again"]
  /\ IF ms = "up"
     THEN /\ link' = [link EXCEPT ![NextRequest(c)] = "open"]
          /\ wire' = wire \cup {[kind |-> "UPLOAD_REQUEST", offer |-> NextRequest(c)]}
     ELSE UNCHANGED << link, wire >>
  /\ UNCHANGED << msVars, fsVars, got >>

\* Whatever arrives is taken for the answer; the connection is left as it is.
ClientAnswer(m) ==
  /\ m.kind = "ANSWER" /\ InOrder(m)
  /\ got' = [got EXCEPT ![m.to] = Append(@, AnswerTo(m.offer, m.n))]
  /\ wire' = wire \ {m}
  /\ UNCHANGED << msVars, fsVars, client, link >>

\* Somebody ends it.
ClientExit(c) ==
  /\ client[c] \in {"again", "sent"}
  /\ client' = [client EXCEPT ![c] = "gone"]
  /\ link' = [r \in Request |-> IF r[1] = c /\ link[r] = "open" THEN "closed" ELSE link[r]]
  /\ \E lost \in SUBSET {m \in wire : m.kind = "UPLOAD_REQUEST" /\ m.offer[1] = c} :
       wire' = wire \ (lost \cup {m \in wire : m.kind = "ANSWER" /\ m.to[1] = c})
  /\ UNCHANGED << msVars, fsVars, got >>

-----------------------------------------------------------------------------
MSStep ==
  \/ \E m \in wire : MSRegister(m) \/ MSRequest(m) \/ RelayAnswer(m)
  \/ \E r \in Request : RelayConnect(r)

FSStep ==
  \/ \E f \in FileServer : FSConnect(f)
  \/ \E m \in wire : FSRegistered(m) \/ FSRequest(m)
  \/ \E r \in Request : FSAnswer(r)

ClientStep == \E m \in wire : ClientAnswer(m)

\* What people and failing machines do to the processes.
Environment ==
  \/ \E p \in Places : FSStart(p[1], p[2])
  \/ \E f \in FileServer : FSCrash(f)
  \/ \E c \in Client : ClientRequest(c) \/ ClientExit(c)
  \/ MSCrash \/ MSRestart

Next == MSStep \/ FSStep \/ ClientStep \/ Environment

Spec == Init /\ [][Next]_vars

\* The event loops and the network go on; nobody has to start or kill anything.
FairSpec == Spec /\ WF_vars(MSStep \/ FSStep \/ ClientStep)

-----------------------------------------------------------------------------
(* Properties                                                              *)

\* A file server that was told FS_REGISTER_OK has its record for as long as that
\* metadata server runs; so a request it relays meets a record and cannot crash it.
PromiseKept ==
  \A f \in FileServer :
    fs[f] = "registered" /\ registeredIn[f] = epoch /\ ms = "up"
      => \E i \in 1..Len(fs_DB) : fs_DB[i] = addr[f]

\* All requests to one metadata server are led to its oldest record, whatever the
\* order in which file servers come, go and come back.
OldestServes ==
  \A r \in Request :
    relay[r] # "none" => /\ fs_DB # << >> /\ route[r] = Head(fs_DB)
                         /\ relay[r] = "open" => addr[server[r]] = route[r]

\* A client waits on a connection: there is no timeout.
Waiting(r) == link[r] = "open" /\ got[r] = << >>

\* Something still works on the answer to a request.
Underway(r) ==
  \/ \E m \in wire : m.kind \notin {"FS_REGISTER", "FS_REGISTER_OK"} /\ m.offer = r
  \/ relay[r] = "connecting"
  \/ relay[r] = "open" /\ job[r] = "answering"

\* Nobody listened where the oldest record said, or the file server asked has ended;
\* neither is noticed, and nobody else is asked.
Abandoned(r) ==
  \/ relay[r] = "refused"
  \/ relay[r] = "open" /\ fs[server[r]] = "dead"

\* However many clients share the servers, and whichever servers end and come back: a
\* request whose client waits is being answered, unless it met an ended file server.
NoneForgotten == \A r \in Request : Waiting(r) => Underway(r) \/ Abandoned(r)

\* And its answer reaches the client, if its own file server stays.
Resolved == \A r \in Request : Waiting(r) ~> ~Waiting(r) \/ Abandoned(r)

\* The metadata server and the file servers together keep the promise of OfferAnswer.
Exchange ==
  INSTANCE OfferAnswer WITH
    Sending <- 1..2,
    asked <- {r \in Request : link[r] # "none"}

\* Requests and answers of several clients cross at the servers, which crash and come
\* back, and a client may ask and be answered twice: still each request is handed
\* answers to itself only, and each sending of them once.
ExchangeSpec == Exchange!Spec

=============================================================================
