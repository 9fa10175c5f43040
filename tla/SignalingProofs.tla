--------------------------- MODULE SignalingProofs ---------------------------
(***************************************************************************)
(* Proofs about Signaling, for any clients, file servers and addresses and *)
(* any number of restarts and of gathering events handled late.            *)
(***************************************************************************)
EXTENDS Signaling, SequenceTheorems, TLAPS

\* The kinds of messages, and what each carries.
LEMMA MessageFields ==
  ASSUME NEW m \in Messages
  PROVE  /\ m.kind \in {"FS_REGISTER", "FS_REGISTER_OK", "UPLOAD_REQUEST", "RELAYED_REQUEST",
                        "UPLOAD_READY", "ANSWER"}
         /\ m.kind = "FS_REGISTER" => m.fs \in FileServer /\ m.at \in Addr
         /\ m.kind = "FS_REGISTER_OK" => m.fs \in FileServer /\ m.epoch \in 0..MaxRestarts
         /\ m.kind \in {"UPLOAD_REQUEST", "RELAYED_REQUEST", "UPLOAD_READY", "ANSWER"}
              => m.offer \in Request
         /\ m.kind \in {"UPLOAD_READY", "ANSWER"} => m.n \in 1..2
         /\ m.kind = "ANSWER" => m.to \in Request
BY DEF Messages

\* A request is known by its kind and its offer, and an answer by its number too.
LEMMA MessageKey ==
  ASSUME NEW m \in Messages, NEW e \in Messages, m.kind = e.kind, m.offer = e.offer
  PROVE  /\ m.kind \in {"UPLOAD_REQUEST", "RELAYED_REQUEST"} => m = e
         /\ m.kind = "UPLOAD_READY" /\ m.n = e.n => m = e
         /\ m.kind = "ANSWER" /\ m.n = e.n /\ m.to = e.to => m = e
BY DEF Messages

\* Each process sends messages of a kind.
LEMMA MessagesSent ==
  /\ \A f \in FileServer, a \in Addr :
       [kind |-> "FS_REGISTER", fs |-> f, at |-> a] \in Messages
  /\ \A f \in FileServer, e \in 0..MaxRestarts :
       [kind |-> "FS_REGISTER_OK", fs |-> f, epoch |-> e] \in Messages
  /\ \A k \in {"UPLOAD_REQUEST", "RELAYED_REQUEST"}, r \in Request :
       [kind |-> k, offer |-> r] \in Messages
  /\ \A r \in Request, n \in 1..2 :
       [kind |-> "UPLOAD_READY", offer |-> r, n |-> n] \in Messages
  /\ \A r, q \in Request, n \in 1..2 :
       [kind |-> "ANSWER", to |-> q, offer |-> r, n |-> n] \in Messages
BY DEF Messages

\* What a client sends next is one of its requests.
LEMMA NextIsRequest ==
  ASSUME NEW c \in Client, ClientRequest(c), client[c] = "again" => c \in Late
  PROVE  NextRequest(c) \in Request
BY DEF NextRequest, Request, ClientRequest

\* A file server that was started listens somewhere.
Listening == \A f \in FileServer : fs[f] # "new" => addr[f] \in Addr

\* An answerer that is not done has sent its answer at most once; and only a client whose
\* first event was late is expected to send again.
Counted ==
  /\ \A r \in Request : job[r] = "answering" => made[r] \in 0..1
  /\ \A c \in Client : client[c] = "again" => c \in Late

TypeInv == TypeOK /\ Listening /\ Counted

\* No process was started yet, and none sent anything.
LEMMA TypeInit == Init => TypeInv
<1>. SUFFICES ASSUME Init PROVE TypeInv
  OBVIOUS
<1>1. epoch \in 0..MaxRestarts /\ registeredIn \in [FileServer -> 0..MaxRestarts]
  BY SignalingAssumption DEF Init, SignalingAssumption
<1>2. got \in [Request -> Seq(Answers)] BY DEF Init
<1>3. TypeOK BY <1>1, <1>2 DEF Init, TypeOK
<1>. QED BY <1>3 DEF Init, TypeInv, Listening, Counted

\* A file server is started where it may listen.
LEMMA Starts ==
  ASSUME \E p \in Places : FSStart(p[1], p[2])
  PROVE  \E f \in FileServer, a \in Addr : FSStart(f, a)
BY SignalingAssumption DEF SignalingAssumption

\* Each step keeps the types.
LEMMA TypeStep == TypeInv /\ [Next]_vars => TypeInv'
<1>. SUFFICES ASSUME TypeInv, [Next]_vars PROVE TypeInv'
  OBVIOUS
<1>. USE DEF TypeInv, msVars, fsVars, clientVars
<1>1. CASE MSStep
  <2>1. ASSUME NEW m \in wire, MSRegister(m) PROVE TypeInv'
    <3>1. m \in Messages /\ m.kind = "FS_REGISTER" BY <2>1 DEF TypeOK, MSRegister
    <3>2. m.fs \in FileServer /\ m.at \in Addr BY <3>1, MessageFields
    <3>3. fs_DB' \in Seq(Addr) BY <2>1, <3>2 DEF TypeOK, MSRegister
    <3>4. wire' \subseteq Messages BY <2>1, <3>2, MessagesSent DEF TypeOK, MSRegister
    <3>. QED BY <2>1, <3>3, <3>4 DEF TypeOK, MSRegister, Listening, Counted
  <2>2. ASSUME MSDown PROVE TypeInv'
    <3>1. wire' \subseteq Messages BY <2>2 DEF TypeOK, MSDown, FromMS
    <3>. QED BY <2>2, <3>1 DEF TypeOK, MSDown, Listening, Counted
  <2>3. ASSUME NEW m \in wire, MSRequest(m) PROVE TypeInv'
    <3>1. m \in Messages /\ m.kind = "UPLOAD_REQUEST" BY <2>3 DEF TypeOK, MSRequest
    <3>2. CASE fs_DB = << >> BY <2>2, <2>3, <3>2 DEF MSRequest
    <3>3. CASE fs_DB # << >>
      <4>1. Head(fs_DB) \in Addr BY <3>3 DEF TypeOK
      <4>2. m.offer \in Request BY <3>1, MessageFields
      <4>. QED BY <2>3, <3>3, <4>1, <4>2 DEF TypeOK, MSRequest, Listening, Counted
    <3>. QED BY <3>2, <3>3
  <2>4. ASSUME NEW m \in wire, RelayAnswer(m) PROVE TypeInv'
    <3>1. m \in Messages /\ m.kind = "UPLOAD_READY" BY <2>4 DEF TypeOK, RelayAnswer
    <3>2. m.offer \in Request /\ m.n \in 1..2 BY <3>1, MessageFields
    <3>3. wire' \subseteq Messages
      <4>1. [kind |-> "ANSWER", to |-> m.offer, offer |-> m.offer, n |-> m.n] \in Messages
        BY <3>2, MessagesSent
      <4>. QED BY <2>4, <4>1 DEF TypeOK, RelayAnswer
    <3>. QED BY <2>4, <3>2, <3>3 DEF TypeOK, RelayAnswer, Listening, Counted
  <2>5. ASSUME NEW r \in Request, RelayConnect(r) PROVE TypeInv'
    <3>1. wire' \subseteq Messages BY <2>5, MessagesSent DEF TypeOK, RelayConnect
    <3>. QED BY <2>5, <3>1 DEF TypeOK, RelayConnect, Listening, Counted
  <2>. QED BY <1>1, <2>1, <2>3, <2>4, <2>5 DEF MSStep
<1>2. CASE FSStep
  <2>1. ASSUME NEW f \in FileServer, FSConnect(f) PROVE TypeInv'
    <3>1. wire' \subseteq Messages
      BY <2>1, MessagesSent DEF TypeOK, FSConnect, Listening, Counted
    <3>. QED BY <2>1, <3>1 DEF TypeOK, FSConnect, Listening, Counted
  <2>2. ASSUME NEW m \in wire, FSRegistered(m) PROVE TypeInv'
    <3>1. m \in Messages /\ m.kind = "FS_REGISTER_OK" BY <2>2 DEF TypeOK, FSRegistered
    <3>2. m.fs \in FileServer /\ m.epoch \in 0..MaxRestarts BY <3>1, MessageFields
    <3>. QED BY <2>2, <3>2 DEF TypeOK, FSRegistered, Listening, Counted
  <2>3. ASSUME NEW m \in wire, FSRequest(m) PROVE TypeInv'
    <3>1. m \in Messages /\ m.kind = "RELAYED_REQUEST" BY <2>3 DEF TypeOK, FSRequest
    <3>2. m.offer \in Request BY <3>1, MessageFields
    <3>. QED BY <2>3, <3>2 DEF TypeOK, FSRequest, Listening, Counted
  <2>4. ASSUME NEW r \in Request, FSAnswer(r) PROVE TypeInv'
    <3>1. /\ job[r] = "answering" /\ made[r] \in 0..1 /\ made[r] + 1 \in 1..2
          /\ made' = [made EXCEPT ![r] = made[r] + 1] /\ made'[r] = made[r] + 1
      BY <2>4 DEF TypeOK, Counted, FSAnswer
    <3>2. made' \in [Request -> 0..2]
      <4>1. 1..2 \subseteq 0..2 OBVIOUS
      <4>. QED BY <3>1, <4>1 DEF TypeOK
    <3>3. wire' \subseteq Messages
      <4>1. [kind |-> "UPLOAD_READY", offer |-> r, n |-> made[r] + 1] \in Messages
        BY <3>1, MessagesSent
      <4>. QED BY <2>4, <4>1 DEF TypeOK, FSAnswer
    <3>4. job' \in [Request -> {"none", "answering", "done"}]
      <4>1. CASE job' = [job EXCEPT ![r] = "done"] BY <4>1 DEF TypeOK
      <4>2. CASE job' = job BY <4>2 DEF TypeOK
      <4>. QED BY <2>4, <4>1, <4>2 DEF FSAnswer
    <3>5. TypeOK' BY <2>4, <3>2, <3>3, <3>4 DEF TypeOK, FSAnswer
    <3>6. \A q \in Request : job'[q] = "answering" => made'[q] \in 0..1
      BY <2>4, <3>1 DEF TypeOK, Counted, FSAnswer
    <3>7. Counted' BY <2>4, <3>6 DEF Counted, FSAnswer
    <3>. QED BY <2>4, <3>5, <3>7 DEF FSAnswer, Listening
  <2>. QED BY <1>2, <2>1, <2>2, <2>3, <2>4 DEF FSStep
<1>3. CASE ClientStep
  <2>1. PICK m \in wire : ClientAnswer(m) BY <1>3 DEF ClientStep
  <2>2. m \in Messages /\ m.kind = "ANSWER" BY <2>1 DEF TypeOK, ClientAnswer
  <2>3. AnswerTo(m.offer, m.n) \in Answers /\ m.to \in Request
    BY <2>2, MessageFields DEF AnswerTo, Answers
  <2>4. got' \in [Request -> Seq(Answers)] BY <2>1, <2>3 DEF TypeOK, ClientAnswer
  <2>. QED BY <2>1, <2>4 DEF TypeOK, ClientAnswer, Listening, Counted
<1>4. CASE Environment
  <2>1. ASSUME NEW f \in FileServer, NEW a \in Addr, FSStart(f, a) PROVE TypeInv'
    BY <2>1 DEF TypeOK, FSStart, Listening, Counted
  <2>2. ASSUME NEW f \in FileServer, FSCrash(f) PROVE TypeInv'
    <3>1. wire' \subseteq Messages BY <2>2 DEF TypeOK, FSCrash
    <3>2. job' \in [Request -> {"none", "answering", "done"}] BY <2>2 DEF TypeOK, FSCrash
    <3>3. registeredIn' \in [FileServer -> 0..MaxRestarts]
      BY <2>2, SignalingAssumption DEF TypeOK, FSCrash, SignalingAssumption
    <3>4. TypeOK' BY <2>2, <3>1, <3>2, <3>3 DEF TypeOK, FSCrash
    <3>5. Listening' BY <2>2 DEF TypeOK, FSCrash, Listening, Live
    <3>6. Counted' BY <2>2 DEF TypeOK, FSCrash, Counted
    <3>. QED BY <3>4, <3>5, <3>6
  <2>3. ASSUME NEW c \in Client, ClientRequest(c) PROVE TypeInv'
    <3>1. NextRequest(c) \in Request BY <2>3, NextIsRequest DEF Counted
    <3>2. wire' \subseteq Messages BY <2>3, <3>1, MessagesSent DEF TypeOK, ClientRequest
    <3>. QED BY <2>3, <3>2 DEF TypeOK, ClientRequest, Listening, Counted
  <2>4. ASSUME NEW c \in Client, ClientExit(c) PROVE TypeInv'
    <3>1. wire' \subseteq Messages BY <2>4 DEF TypeOK, ClientExit
    <3>. QED BY <2>4, <3>1 DEF TypeOK, ClientExit, Listening, Counted
  <2>5. CASE MSCrash
    <3>1. wire' \subseteq Messages BY <2>5 DEF TypeOK, MSCrash, MSDown, FromMS
    <3>. QED BY <2>5, <3>1 DEF TypeOK, MSCrash, MSDown, Listening, Counted
  <2>6. CASE MSRestart
    <3>1. epoch' \in 0..MaxRestarts
      BY <2>6, SignalingAssumption DEF TypeOK, MSRestart, SignalingAssumption
    <3>. QED BY <2>6, <3>1 DEF TypeOK, MSRestart, Listening, Counted
  <2>. QED BY <1>4, <2>1, <2>2, <2>3, <2>4, <2>5, <2>6, Starts DEF Environment
<1>5. CASE UNCHANGED vars BY <1>5 DEF TypeOK, Listening, Counted, vars
<1>. QED BY <1>1, <1>2, <1>3, <1>4, <1>5 DEF Next

\* Every variable has its type, in any interleaving of crashes and restarts.
THEOREM TypeCorrect == Spec => []TypeOK
<1>1. TypeInv => TypeOK BY DEF TypeInv
<1>. QED BY <1>1, TypeInit, TypeStep, PTL DEF Spec

-----------------------------------------------------------------------------
(* Registration                                                            *)

HasRecord(a) == \E i \in 1..Len(fs_DB) : fs_DB[i] = a

\* What a file server was promised is told of in the present or an earlier epoch, and
\* the record of the present one is there; the message that asks for it is still true.
RegisterInv ==
  /\ \A m \in wire : m.kind = "FS_REGISTER" => fs[m.fs] # "new" /\ m.at = addr[m.fs]
  /\ \A m \in wire : m.kind = "FS_REGISTER_OK" =>
       /\ fs[m.fs] # "new" /\ m.epoch <= epoch
       /\ m.epoch = epoch /\ ms = "up" => HasRecord(addr[m.fs])
  /\ \A f \in FileServer :
       /\ registeredIn[f] <= epoch
       /\ fs[f] = "registered" /\ registeredIn[f] = epoch /\ ms = "up" => HasRecord(addr[f])

\* Nobody is registered to begin with.
LEMMA RegisterInit == Init => RegisterInv
BY SignalingAssumption DEF Init, RegisterInv, SignalingAssumption

\* A record stays when another one is put behind it.
LEMMA RecordStays ==
  ASSUME fs_DB \in Seq(Addr), NEW a, NEW b \in Addr, HasRecord(a) \/ a = b,
         fs_DB' = Append(fs_DB, b)
  PROVE  HasRecord(a)'
<1>1. /\ Len(fs_DB') = Len(fs_DB) + 1 /\ Len(fs_DB) \in Nat
      /\ \A i \in 1..Len(fs_DB) : fs_DB'[i] = fs_DB[i]
      /\ fs_DB'[Len(fs_DB) + 1] = b
  BY AppendProperties
<1>2. Len(fs_DB) + 1 \in 1..Len(fs_DB') /\
      \A i \in 1..Len(fs_DB) : i \in 1..Len(fs_DB')
  BY <1>1
<1>. QED BY <1>1, <1>2 DEF HasRecord

\* Each step keeps the register true to what was promised.
LEMMA RegisterStep == TypeInv /\ RegisterInv /\ [Next]_vars => RegisterInv'
<1>. SUFFICES ASSUME TypeInv, RegisterInv, [Next]_vars PROVE RegisterInv'
  OBVIOUS
<1>. USE DEF RegisterInv, msVars, fsVars, clientVars
<1>0. /\ \A m \in wire : m.kind \in {"FS_REGISTER", "FS_REGISTER_OK"} => m.fs \in FileServer
      /\ epoch \in Nat
      /\ \A f \in FileServer : registeredIn[f] \in Nat
  BY MessageFields, SignalingAssumption DEF TypeInv, TypeOK, SignalingAssumption
\* Most steps send no such message and change no record.
<1>1. ASSUME \A m \in wire' : m.kind \in {"FS_REGISTER", "FS_REGISTER_OK"} => m \in wire,
             UNCHANGED << fs_DB, epoch, fs, addr, registeredIn >>,
             ms' = ms
      PROVE  RegisterInv'
  BY <1>1 DEF HasRecord
<1>7. ASSUME MSDown PROVE RegisterInv'
  <2>1. wire' \subseteq wire /\ ms' = "down" /\ UNCHANGED << epoch, fs, addr, registeredIn >>
    BY <1>7 DEF MSDown, FromMS
  <2>. QED BY <2>1
<1>2. CASE MSStep
  <2>1. ASSUME NEW m \in wire, MSRegister(m) PROVE RegisterInv'
    <3>1. /\ m \in Messages /\ m.kind = "FS_REGISTER" /\ m.fs \in FileServer /\ m.at \in Addr
          /\ fs_DB \in Seq(Addr) /\ fs_DB' = Append(fs_DB, m.at) /\ ms' = ms /\ epoch' = epoch
          /\ UNCHANGED << fs, addr, registeredIn >>
      BY <2>1, MessageFields DEF TypeInv, TypeOK, MSRegister
    <3>2. \A a : HasRecord(a) \/ a = m.at => HasRecord(a)' BY <3>1, RecordStays
    <3>3. ASSUME NEW n \in wire', n \notin wire
          PROVE  n.kind = "FS_REGISTER_OK" /\ n.fs = m.fs /\ n.epoch = epoch
      BY <2>1, <3>3 DEF MSRegister
    <3>. QED BY <1>0, <3>1, <3>2, <3>3
  <2>3. ASSUME NEW m \in wire, MSRequest(m) PROVE RegisterInv'
    BY <1>1, <1>7, <2>3 DEF MSRequest
  <2>4. ASSUME NEW m \in wire, RelayAnswer(m) PROVE RegisterInv'
    BY <1>1, <2>4 DEF RelayAnswer
  <2>5. ASSUME NEW r \in Request, RelayConnect(r) PROVE RegisterInv'
    BY <1>1, <2>5 DEF RelayConnect
  <2>. QED BY <1>2, <2>1, <2>3, <2>4, <2>5 DEF MSStep
<1>3. CASE FSStep
  <2>1. ASSUME NEW f \in FileServer, FSConnect(f) PROVE RegisterInv'
    <3>1. /\ fs[f] = "starting" /\ fs'[f] \in {"registering", "unregistered"}
          /\ \A g \in FileServer \ {f} : fs'[g] = fs[g]
          /\ UNCHANGED << fs_DB, epoch, ms, addr, registeredIn >>
      BY <2>1 DEF TypeInv, TypeOK, FSConnect
    <3>2. \A n \in wire' : n \in wire \/ (n.kind = "FS_REGISTER" /\ n.fs = f /\ n.at = addr[f])
      BY <2>1 DEF FSConnect
    <3>. QED BY <1>0, <3>1, <3>2 DEF HasRecord
  <2>2. ASSUME NEW m \in wire, FSRegistered(m) PROVE RegisterInv'
    <3>1. /\ m.kind = "FS_REGISTER_OK" /\ m.fs \in FileServer /\ fs[m.fs] = "registering"
          /\ fs'[m.fs] = "registered" /\ registeredIn'[m.fs] = m.epoch
          /\ \A g \in FileServer \ {m.fs} : fs'[g] = fs[g] /\ registeredIn'[g] = registeredIn[g]
          /\ wire' \subseteq wire /\ UNCHANGED << fs_DB, epoch, ms, addr >>
      BY <1>0, <2>2 DEF TypeInv, TypeOK, FSRegistered
    <3>. QED BY <1>0, <3>1 DEF HasRecord
  <2>3. ASSUME NEW m \in wire, FSRequest(m) PROVE RegisterInv'
    BY <1>1, <2>3 DEF FSRequest
  <2>4. ASSUME NEW r \in Request, FSAnswer(r) PROVE RegisterInv'
    BY <1>1, <2>4 DEF FSAnswer
  <2>. QED BY <1>3, <2>1, <2>2, <2>3, <2>4 DEF FSStep
<1>4. CASE ClientStep BY <1>1, <1>4 DEF ClientStep, ClientAnswer
<1>5. CASE Environment
  <2>1. ASSUME NEW f \in FileServer, NEW a \in Addr, FSStart(f, a) PROVE RegisterInv'
    <3>1. /\ fs[f] = "new" /\ fs'[f] = "starting"
          /\ \A g \in FileServer \ {f} : fs'[g] = fs[g] /\ addr'[g] = addr[g]
          /\ UNCHANGED << wire, fs_DB, epoch, ms, registeredIn >>
      BY <2>1 DEF TypeInv, TypeOK, FSStart
    <3>. QED BY <1>0, <3>1 DEF HasRecord
  <2>2. ASSUME NEW f \in FileServer, FSCrash(f) PROVE RegisterInv'
    <3>1. /\ fs'[f] = "dead" /\ wire' \subseteq wire
          /\ \A g \in FileServer \ {f} : fs'[g] = fs[g] /\ registeredIn'[g] = registeredIn[g]
          /\ registeredIn'[f] = 0 /\ UNCHANGED << fs_DB, epoch, ms, addr >>
      BY <2>2 DEF TypeInv, TypeOK, FSCrash
    <3>. QED BY <1>0, <3>1 DEF HasRecord
  <2>3. ASSUME NEW c \in Client, ClientRequest(c) PROVE RegisterInv'
    BY <1>1, <2>3 DEF ClientRequest
  <2>4. ASSUME NEW c \in Client, ClientExit(c) PROVE RegisterInv'
    BY <1>1, <2>4 DEF ClientExit
  <2>5. CASE MSCrash BY <1>7, <2>5 DEF MSCrash
  <2>6. CASE MSRestart
    <3>1. epoch' = epoch + 1 /\ UNCHANGED << wire, fs, addr, registeredIn >>
      BY <2>6 DEF MSRestart
    <3>2. \A m \in wire : m.kind = "FS_REGISTER_OK" => m.epoch \in Nat
      BY MessageFields, SignalingAssumption DEF TypeInv, TypeOK, SignalingAssumption
    <3>. QED BY <1>0, <3>1, <3>2
  <2>. QED BY <1>5, <2>1, <2>2, <2>3, <2>4, <2>5, <2>6, Starts DEF Environment
<1>6. CASE UNCHANGED vars BY <1>1, <1>6 DEF vars
<1>. QED BY <1>2, <1>3, <1>4, <1>5, <1>6 DEF Next

\* A file server that was told FS_REGISTER_OK has its record for as long as that metadata
\* server runs: for any number of restarts, and messages of any age.
THEOREM PromisesAreKept == Spec => []PromiseKept
<1>1. RegisterInv => PromiseKept BY DEF RegisterInv, PromiseKept, HasRecord
<1>2. Spec => []TypeInv BY TypeInit, TypeStep, PTL DEF Spec
<1>. QED BY <1>1, <1>2, RegisterInit, RegisterStep, PTL DEF Spec

-----------------------------------------------------------------------------
(* Relaying                                                                *)

\* While the metadata server runs its first record stays the first, and every relay goes
\* where the first record says.
RelayInv ==
  \A r \in Request :
    /\ relay[r] # "none" => ms = "up" /\ fs_DB # << >> /\ route[r] = Head(fs_DB)
    /\ relay[r] = "open" => /\ server[r] \in FileServer /\ fs[server[r]] # "new"
                            /\ addr[server[r]] = route[r]

\* No request was relayed yet.
LEMMA RelayInit == Init => RelayInv
BY DEF Init, RelayInv

\* Each step keeps the relays at the oldest file server.
LEMMA RelayStep == TypeInv /\ RelayInv /\ [Next]_vars => RelayInv'
<1>. SUFFICES ASSUME TypeInv, RelayInv, [Next]_vars PROVE RelayInv'
  OBVIOUS
<1>. USE DEF RelayInv, msVars, fsVars, clientVars
\* Most steps leave records and relays alone, and no file server becomes new.
<1>1. ASSUME UNCHANGED << ms, fs_DB, relay, route, server, addr >>,
             \A f \in FileServer : fs[f] # "new" => fs'[f] # "new"
      PROVE  RelayInv'
  BY <1>1
<1>2. CASE MSStep
  <2>1. ASSUME NEW m \in wire, MSRegister(m) PROVE RelayInv'
    <3>1. /\ m \in Messages /\ m.kind = "FS_REGISTER" /\ m.fs \in FileServer /\ m.at \in Addr
          /\ fs_DB \in Seq(Addr) /\ fs_DB' = Append(fs_DB, m.at) /\ ms' = ms
          /\ UNCHANGED << fs, addr, relay, route, server >>
      BY <2>1, MessageFields DEF TypeInv, TypeOK, MSRegister
    <3>2. /\ Len(fs_DB') = Len(fs_DB) + 1 /\ Len(fs_DB) \in Nat
          /\ \A i \in 1..Len(fs_DB) : fs_DB'[i] = fs_DB[i]
          /\ fs_DB'[Len(fs_DB) + 1] = m.at
      BY <3>1, AppendProperties
    <3>4. fs_DB # << >> => fs_DB' # << >> /\ Head(fs_DB') = Head(fs_DB)
      <4>. SUFFICES ASSUME fs_DB # << >> PROVE fs_DB' # << >> /\ Head(fs_DB') = Head(fs_DB)
        OBVIOUS
      <4>1. Len(fs_DB) # 0 BY <3>1
      <4>2. 1 \in 1..Len(fs_DB) BY <3>2, <4>1
      <4>3. Head(fs_DB) = fs_DB[1] BY <3>1, <4>1
      <4>4. fs_DB' # << >> /\ fs_DB' \in Seq(Addr) BY <3>1, AppendProperties
      <4>5. Head(fs_DB') = fs_DB'[1] BY <4>4
      <4>. QED BY <3>2, <4>2, <4>3, <4>4, <4>5
    <3>. QED BY <3>1, <3>4
  <2>2. ASSUME MSDown PROVE RelayInv'
    BY <2>2 DEF MSDown
  <2>3. ASSUME NEW m \in wire, MSRequest(m) PROVE RelayInv'
    <3>1. m.offer \in Request BY <2>3, MessageFields DEF TypeInv, TypeOK, MSRequest
    <3>2. CASE fs_DB = << >> BY <2>2, <2>3, <3>2 DEF MSRequest
    <3>3. CASE fs_DB # << >>
      <4>1. /\ ms = "up" /\ relay'[m.offer] = "connecting" /\ route'[m.offer] = Head(fs_DB)
            /\ \A r \in Request \ {m.offer} : relay'[r] = relay[r] /\ route'[r] = route[r]
            /\ UNCHANGED << ms, fs_DB, server, fs, addr >>
        BY <2>3, <3>1, <3>3 DEF MSRequest, TypeInv, TypeOK
      <4>. QED BY <3>3, <4>1
    <3>. QED BY <3>2, <3>3
  <2>4. ASSUME NEW m \in wire, RelayAnswer(m) PROVE RelayInv'
    <3>1. m.offer \in Request BY <2>4, MessageFields DEF TypeInv, TypeOK, RelayAnswer
    <3>. QED BY <2>4, <3>1 DEF RelayAnswer, TypeInv, TypeOK
  <2>5. ASSUME NEW r \in Request, RelayConnect(r) PROVE RelayInv'
    <3>1. CASE \E f \in FileServer :
                 /\ Live(f) /\ addr[f] = route[r]
                 /\ server' = [server EXCEPT ![r] = f] /\ relay' = [relay EXCEPT ![r] = "open"]
      BY <2>5, <3>1 DEF RelayConnect, Live, TypeInv, TypeOK
    <3>2. CASE relay' = [relay EXCEPT ![r] = "refused"] /\ UNCHANGED server
      BY <2>5, <3>2 DEF RelayConnect, TypeInv, TypeOK
    <3>. QED BY <2>5, <3>1, <3>2 DEF RelayConnect
  <2>. QED BY <1>2, <2>1, <2>3, <2>4, <2>5 DEF MSStep
<1>3. CASE FSStep
  <2>1. ASSUME NEW f \in FileServer, FSConnect(f) PROVE RelayInv'
    BY <1>1, <2>1 DEF FSConnect, TypeInv, TypeOK
  <2>2. ASSUME NEW m \in wire, FSRegistered(m) PROVE RelayInv'
    BY <1>1, <2>2 DEF FSRegistered, TypeInv, TypeOK
  <2>3. CASE (\E m \in wire : FSRequest(m)) \/ (\E r \in Request : FSAnswer(r))
    BY <1>1, <2>3 DEF FSRequest, FSAnswer
  <2>. QED BY <1>3, <2>1, <2>2, <2>3 DEF FSStep
<1>4. CASE ClientStep BY <1>1, <1>4 DEF ClientStep, ClientAnswer
<1>5. CASE Environment
  <2>1. ASSUME NEW f \in FileServer, NEW a \in Addr, FSStart(f, a) PROVE RelayInv'
    <3>1. /\ fs[f] = "new" /\ fs'[f] = "starting"
          /\ \A g \in FileServer \ {f} : fs'[g] = fs[g] /\ addr'[g] = addr[g]
          /\ UNCHANGED << ms, fs_DB, relay, route, server >>
      BY <2>1 DEF TypeInv, TypeOK, FSStart
    <3>. QED BY <3>1
  <2>2. ASSUME NEW f \in FileServer, FSCrash(f) PROVE RelayInv'
    BY <1>1, <2>2 DEF FSCrash, TypeInv, TypeOK
  <2>3. CASE \E c \in Client : ClientRequest(c) \/ ClientExit(c)
    BY <1>1, <2>3 DEF ClientRequest, ClientExit
  <2>4. CASE MSCrash BY <2>4 DEF MSCrash, MSDown
  <2>5. CASE MSRestart BY <2>5 DEF MSRestart
  <2>. QED BY <1>5, <2>1, <2>2, <2>3, <2>4, <2>5, Starts DEF Environment
<1>6. CASE UNCHANGED vars BY <1>1, <1>6 DEF vars
<1>. QED BY <1>2, <1>3, <1>4, <1>5, <1>6 DEF Next

\* All requests to one metadata server are led to its oldest record.
THEOREM AllGoToTheOldest == Spec => []OldestServes
<1>1. RelayInv => OldestServes BY DEF RelayInv, OldestServes
<1>2. Spec => []TypeInv BY TypeInit, TypeStep, PTL DEF Spec
<1>. QED BY <1>1, <1>2, RelayInit, RelayStep, PTL DEF Spec

-----------------------------------------------------------------------------
(* Requests and answers                                                    *)

Travels(kind, r) == \E m \in wire : m.kind = kind /\ m.offer = r

\* A request is at one place until its answer is made: on its way, with a relay that is
\* being connected, on its way to the file server, or at an answerer.
OnePlace(r) ==
  /\ link[r] = "none" =>
       /\ relay[r] = "none" /\ job[r] = "none"
       /\ ~Travels("UPLOAD_REQUEST", r) /\ ~Travels("RELAYED_REQUEST", r)
  /\ Travels("UPLOAD_REQUEST", r) =>
       relay[r] = "none" /\ job[r] = "none" /\ ~Travels("RELAYED_REQUEST", r)
  /\ relay[r] = "connecting" => job[r] = "none" /\ ~Travels("RELAYED_REQUEST", r)
  /\ Travels("RELAYED_REQUEST", r) => job[r] = "none"
  /\ job[r] = "none" => made[r] = 0

\* A client's next request was not sent before.
NextIsNew ==
  \A c \in Client : /\ client[c] = "idle" => link[<< c, 1 >>] = "none"
                    /\ client[c] \in {"idle", "again"} /\ c \in Late => link[<< c, 2 >>] = "none"

RequestInv == NextIsNew /\ \A r \in Request : OnePlace(r)

\* No client has asked yet.
LEMMA RequestInit == Init => RequestInv
BY DEF Init, RequestInv, NextIsNew, OnePlace, Travels, Request

\* What was on its way alone and is taken does not travel any more.
LEMMA Taken ==
  ASSUME wire \subseteq Messages, NEW m \in wire,
         m.kind \in {"UPLOAD_REQUEST", "RELAYED_REQUEST"}
  PROVE  ~\E e \in wire \ {m} : e.kind = m.kind /\ e.offer = m.offer
BY MessageKey

\* Each step keeps every request at one place.
LEMMA RequestStep == TypeInv /\ RequestInv /\ [Next]_vars => RequestInv'
<1>. SUFFICES ASSUME TypeInv, RequestInv, [Next]_vars PROVE RequestInv'
  OBVIOUS
<1>. USE DEF RequestInv, msVars, fsVars, clientVars
\* Most steps move no request.
<1>1. ASSUME \A m \in wire' : m \in wire \/ m.kind \notin {"UPLOAD_REQUEST", "RELAYED_REQUEST"},
             UNCHANGED << job, made, link, client >>,
             \A r \in Request : \/ relay'[r] = relay[r]
                                \/ relay[r] \in {"open", "closing"} /\ relay'[r] = "closing"
      PROVE  RequestInv'
  <2>1. \A r \in Request : OnePlace(r)' BY <1>1 DEF OnePlace, Travels
  <2>. QED BY <1>1, <2>1 DEF NextIsNew
\* The others move one.
<1>2. ASSUME NEW r \in Request, OnePlace(r)',
             \A m \in wire' : m \in wire \/ m.offer = r,
             \A q \in Request \ {r} : UNCHANGED << relay[q], job[q], made[q], link[q] >>
      PROVE  \A q \in Request : OnePlace(q)'
  BY <1>2 DEF OnePlace, Travels
<1>3. ASSUME MSDown PROVE RequestInv'
  <2>1. /\ UNCHANGED << job, made, client >> /\ \A r \in Request : relay'[r] = "none"
        /\ \A r \in Request : link'[r] = "none" <=> link[r] = "none"
        /\ \A m \in wire' : m \in wire /\ m.kind # "UPLOAD_REQUEST"
    BY <1>3 DEF MSDown, FromMS
  <2>2. \A r \in Request : OnePlace(r)' BY <2>1 DEF OnePlace, Travels
  <2>3. NextIsNew'
    <3>1. \A c \in Client : << c, 1 >> \in Request /\ (c \in Late => << c, 2 >> \in Request)
      BY DEF Request
    <3>. QED BY <2>1, <3>1 DEF NextIsNew
  <2>. QED BY <2>2, <2>3
<1>4. CASE MSStep
  <2>1. ASSUME NEW m \in wire, MSRegister(m) PROVE RequestInv'
    BY <1>1, <2>1 DEF MSRegister
  <2>2. ASSUME NEW m \in wire, MSRequest(m), fs_DB # << >> PROVE RequestInv'
    <3>. DEFINE r == m.offer
    <3>1. m.kind = "UPLOAD_REQUEST" /\ r \in Request /\ wire' = wire \ {m}
      BY <2>2, MessageFields DEF TypeInv, TypeOK, MSRequest
    <3>2. /\ relay'[r] = "connecting" /\ \A q \in Request \ {r} : relay'[q] = relay[q]
          /\ UNCHANGED << job, made, client, link >>
      BY <2>2, <3>1 DEF TypeInv, TypeOK, MSRequest
    <3>3. ~Travels("UPLOAD_REQUEST", r)' /\ Travels("UPLOAD_REQUEST", r)
      BY <3>1, Taken DEF TypeInv, TypeOK, Travels
    <3>4. Travels("RELAYED_REQUEST", r)' => Travels("RELAYED_REQUEST", r)
      BY <3>1 DEF Travels
    <3>5. OnePlace(r)' BY <3>1, <3>2, <3>3, <3>4 DEF OnePlace
    <3>6. \A q \in Request : OnePlace(q)' BY <1>2, <3>1, <3>2, <3>5
    <3>. QED BY <3>2, <3>6 DEF NextIsNew
  <2>3. ASSUME NEW m \in wire, RelayAnswer(m) PROVE RequestInv'
    <3>1. m.offer \in Request BY <2>3, MessageFields DEF TypeInv, TypeOK, RelayAnswer
    <3>2. /\ relay[m.offer] \in {"open", "closing"} /\ relay'[m.offer] = "closing"
          /\ \A q \in Request \ {m.offer} : relay'[q] = relay[q]
          /\ \A e \in wire' : e \in wire \/ e.kind = "ANSWER"
          /\ UNCHANGED << job, made, link, client >>
      BY <2>3, <3>1 DEF TypeInv, TypeOK, RelayAnswer
    <3>3. \A r \in Request : \/ relay'[r] = relay[r]
                             \/ relay[r] \in {"open", "closing"} /\ relay'[r] = "closing"
      BY <3>1, <3>2
    <3>. QED BY <1>1, <3>2, <3>3
  <2>4. ASSUME NEW r \in Request, RelayConnect(r) PROVE RequestInv'
    <3>1. relay[r] = "connecting" /\ UNCHANGED << job, made, client, link >>
      BY <2>4 DEF RelayConnect
    <3>2. /\ relay'[r] \in {"open", "refused"} /\ \A q \in Request \ {r} : relay'[q] = relay[q]
          /\ \A m \in wire' : m \in wire \/ (m.kind = "RELAYED_REQUEST" /\ m.offer = r)
      BY <2>4 DEF TypeInv, TypeOK, RelayConnect
    <3>3. Travels("UPLOAD_REQUEST", r)' => Travels("UPLOAD_REQUEST", r)
      BY <3>2 DEF Travels
    <3>4. OnePlace(r)' BY <3>1, <3>2, <3>3 DEF OnePlace
    <3>5. \A q \in Request : OnePlace(q)' BY <1>2, <3>1, <3>2, <3>4
    <3>. QED BY <3>1, <3>5 DEF NextIsNew
  <2>. QED BY <1>3, <1>4, <2>1, <2>2, <2>3, <2>4 DEF MSStep, MSRequest
<1>5. CASE FSStep
  <2>1. ASSUME NEW f \in FileServer, FSConnect(f) PROVE RequestInv'
    BY <1>1, <2>1 DEF FSConnect
  <2>2. ASSUME NEW m \in wire, FSRegistered(m) PROVE RequestInv'
    BY <1>1, <2>2 DEF FSRegistered
  <2>3. ASSUME NEW m \in wire, FSRequest(m) PROVE RequestInv'
    <3>. DEFINE r == m.offer
    <3>1. m.kind = "RELAYED_REQUEST" /\ r \in Request /\ wire' = wire \ {m}
      BY <2>3, MessageFields DEF TypeInv, TypeOK, FSRequest
    <3>2. /\ job'[r] = "answering"
          /\ \A q \in Request \ {r} : job'[q] = job[q] /\ made'[q] = made[q]
          /\ UNCHANGED << relay, client, link >>
      BY <2>3, <3>1 DEF TypeInv, TypeOK, FSRequest
    <3>3. ~Travels("RELAYED_REQUEST", r)' /\ Travels("RELAYED_REQUEST", r)
      BY <3>1, Taken DEF TypeInv, TypeOK, Travels
    <3>4. Travels("UPLOAD_REQUEST", r)' => Travels("UPLOAD_REQUEST", r)
      BY <3>1 DEF Travels
    <3>5. OnePlace(r)' BY <3>1, <3>2, <3>3, <3>4 DEF OnePlace
    <3>6. \A q \in Request : OnePlace(q)' BY <1>2, <3>1, <3>2, <3>5
    <3>. QED BY <3>2, <3>6 DEF NextIsNew
  <2>4. ASSUME NEW r \in Request, FSAnswer(r) PROVE RequestInv'
    <3>1. /\ job[r] = "answering" /\ UNCHANGED << relay, client, link >>
          /\ \A m \in wire' : m \in wire \/ (m.kind = "UPLOAD_READY" /\ m.offer = r)
      BY <2>4 DEF FSAnswer
    <3>2. \A q \in Request \ {r} : job'[q] = job[q] /\ made'[q] = made[q]
      BY <2>4 DEF TypeInv, TypeOK, FSAnswer
    <3>3. job'[r] # "none"
      <4>1. CASE job' = [job EXCEPT ![r] = "done"] BY <4>1 DEF TypeInv, TypeOK
      <4>. QED BY <2>4, <3>1, <4>1 DEF FSAnswer
    <3>4. \A k \in {"UPLOAD_REQUEST", "RELAYED_REQUEST"} : Travels(k, r)' => Travels(k, r)
      BY <3>1 DEF Travels
    <3>5. OnePlace(r)' BY <3>1, <3>3, <3>4 DEF OnePlace
    <3>6. \A q \in Request : OnePlace(q)' BY <1>2, <3>1, <3>2, <3>5
    <3>. QED BY <3>1, <3>6 DEF NextIsNew
  <2>. QED BY <1>5, <2>1, <2>2, <2>3, <2>4 DEF FSStep
<1>6. CASE ClientStep BY <1>1, <1>6 DEF ClientStep, ClientAnswer
<1>7. CASE Environment
  <2>1. ASSUME NEW f \in FileServer, NEW a \in Addr, FSStart(f, a) PROVE RequestInv'
    BY <1>1, <2>1 DEF FSStart
  <2>2. ASSUME NEW f \in FileServer, FSCrash(f) PROVE RequestInv'
    <3>1. wire' \subseteq wire /\ UNCHANGED << relay, client, link, made >> BY <2>2 DEF FSCrash
    <3>2. \A r \in Request : job'[r] = job[r] \/ (job[r] = "answering" /\ job'[r] = "done")
      BY <2>2 DEF FSCrash
    <3>3. \A r \in Request : OnePlace(r)' BY <3>1, <3>2 DEF OnePlace, Travels
    <3>. QED BY <3>1, <3>3 DEF NextIsNew
  <2>3. ASSUME NEW c \in Client, ClientRequest(c) PROVE RequestInv'
    <3>1. PICK r \in Request : r = NextRequest(c)
      BY <2>3, NextIsRequest DEF TypeInv, Counted
    <3>2. /\ UNCHANGED << relay, job, made >>
          /\ \A q \in Request \ {r} : link'[q] = link[q]
          /\ \A m \in wire' : m \in wire \/ (m.kind = "UPLOAD_REQUEST" /\ m.offer = r)
          /\ ms = "up" => link'[r] = "open"
          /\ ms # "up" => link' = link /\ wire' = wire
      BY <2>3, <3>1 DEF TypeInv, TypeOK, ClientRequest
    <3>3. link[r] = "none"
      <4>1. CASE client[c] = "idle" BY <3>1, <4>1 DEF NextRequest, NextIsNew
      <4>2. CASE client[c] = "again" BY <3>1, <4>2 DEF NextRequest, NextIsNew, TypeInv, Counted
      <4>. QED BY <2>3, <4>1, <4>2 DEF ClientRequest
    <3>4. Travels("RELAYED_REQUEST", r)' => Travels("RELAYED_REQUEST", r)
      BY <3>2 DEF Travels
    <3>5. OnePlace(r)'
      <4>1. CASE ms = "up" BY <3>2, <3>3, <3>4, <4>1 DEF OnePlace
      <4>2. CASE ms # "up" BY <3>2, <4>2 DEF OnePlace, Travels
      <4>. QED BY <4>1, <4>2
    <3>6. \A q \in Request : OnePlace(q)' BY <1>2, <3>1, <3>2, <3>5
    <3>7. NextIsNew'
      <4>1. /\ \A d \in Client \ {c} : client'[d] = client[d]
            /\ client'[c] = "sent" \/ (client[c] = "idle" /\ client'[c] = "again")
        <5>1. CASE client' = [client EXCEPT ![c] = "sent"] BY <5>1 DEF TypeInv, TypeOK
        <5>2. CASE client[c] = "idle" /\ client' = [client EXCEPT ![c] = "again"]
          BY <5>2 DEF TypeInv, TypeOK
        <5>. QED BY <2>3, <5>1, <5>2 DEF ClientRequest
      <4>2. \A d \in Client : /\ << d, 1 >> \in Request /\ (d \in Late => << d, 2 >> \in Request)
                              /\ d # c => << d, 1 >> # r /\ << d, 2 >> # r
                              /\ client[c] = "idle" => << c, 2 >> # r
        BY <3>1 DEF Request, NextRequest
      <4>. QED BY <3>2, <4>1, <4>2 DEF NextIsNew
    <3>. QED BY <3>6, <3>7
  <2>4. ASSUME NEW c \in Client, ClientExit(c) PROVE RequestInv'
    <3>1. /\ UNCHANGED << relay, job, made >> /\ wire' \subseteq wire
          /\ \A r \in Request : link'[r] = "none" <=> link[r] = "none"
          /\ \A d \in Client \ {c} : client'[d] = client[d]
          /\ client'[c] = "gone"
      BY <2>4 DEF TypeInv, TypeOK, ClientExit
    <3>2. \A r \in Request : OnePlace(r)' BY <3>1 DEF OnePlace, Travels
    <3>3. \A d \in Client : << d, 1 >> \in Request /\ (d \in Late => << d, 2 >> \in Request)
      BY DEF Request
    <3>. QED BY <3>1, <3>2, <3>3 DEF NextIsNew
  <2>5. CASE MSCrash BY <1>3, <2>5 DEF MSCrash
  <2>6. CASE MSRestart BY <1>1, <2>6 DEF MSRestart
  <2>. QED BY <1>7, <2>1, <2>2, <2>3, <2>4, <2>5, <2>6, Starts DEF Environment
<1>8. CASE UNCHANGED vars BY <1>1, <1>8 DEF vars
<1>. QED BY <1>4, <1>5, <1>6, <1>7, <1>8 DEF Next

\* What a request was handed is of sendings made; what is on its way is of others, and
\* goes back to the request it answers.
Handed(r) == {got[r][i] : i \in DOMAIN got[r]}

AnswerInv ==
  /\ \A r \in Request : \A a \in Handed(r) : a.n <= made[r]
  /\ \A m \in wire : m.kind \in {"UPLOAD_READY", "ANSWER"} =>
       m.n <= made[m.offer] /\ AnswerTo(m.offer, m.n) \notin Handed(m.offer)
  /\ \A m \in wire : m.kind = "ANSWER" => m.to = m.offer
  /\ \A m, e \in wire :
       m.kind = "UPLOAD_READY" /\ e.kind = "ANSWER" /\ m.offer = e.offer => m.n # e.n

\* No answer was made yet.
LEMMA AnswerInit == Init => AnswerInv
BY DEF Init, AnswerInv, Handed

\* What is handed over is added to what was.
LEMMA HandedOver ==
  ASSUME NEW r \in Request, NEW a \in Answers, got \in [Request -> Seq(Answers)],
         got' = [got EXCEPT ![r] = Append(@, a)]
  PROVE  /\ Handed(r)' = Handed(r) \cup {a}
         /\ \A q \in Request \ {r} : Handed(q)' = Handed(q)
<1>1. got'[r] = Append(got[r], a) /\ got[r] \in Seq(Answers) OBVIOUS
<1>2. /\ Len(got'[r]) = Len(got[r]) + 1 /\ Len(got[r]) \in Nat
      /\ \A i \in 1..Len(got[r]) : got'[r][i] = got[r][i]
      /\ got'[r][Len(got[r]) + 1] = a
      /\ DOMAIN got'[r] = 1..Len(got'[r]) /\ DOMAIN got[r] = 1..Len(got[r])
  BY <1>1, AppendProperties
<1>3. DOMAIN got'[r] = DOMAIN got[r] \cup {Len(got[r]) + 1} BY <1>2
<1>4. Handed(r)' = Handed(r) \cup {a} BY <1>2, <1>3 DEF Handed
<1>. QED BY <1>4 DEF Handed

\* Each step keeps the answers apart.
LEMMA AnswerStep == TypeInv /\ RequestInv /\ AnswerInv /\ [Next]_vars => AnswerInv'
<1>. SUFFICES ASSUME TypeInv, RequestInv, AnswerInv, [Next]_vars PROVE AnswerInv'
  OBVIOUS
<1>. USE DEF AnswerInv, msVars, fsVars, clientVars
\* Most steps make no answer and hand none over.
<1>1. ASSUME UNCHANGED << made, got >>,
             \A m \in wire' : m.kind \in {"UPLOAD_READY", "ANSWER"} => m \in wire
      PROVE  AnswerInv'
  BY <1>1 DEF Handed
<1>2. CASE MSStep
  <2>1. ASSUME NEW m \in wire, MSRegister(m) PROVE AnswerInv'
    BY <1>1, <2>1 DEF MSRegister
  <2>2. ASSUME NEW m \in wire, MSRequest(m) PROVE AnswerInv'
    BY <1>1, <2>2 DEF MSRequest, MSDown, FromMS
  <2>3. ASSUME NEW m \in wire, RelayAnswer(m) PROVE AnswerInv'
    <3>. DEFINE answer == [kind |-> "ANSWER", to |-> m.offer, offer |-> m.offer, n |-> m.n]
    <3>1. m.kind = "UPLOAD_READY" /\ UNCHANGED << made, got >> BY <2>3 DEF RelayAnswer
    <3>2. \A e \in wire' : e \in wire \ {m} \/ e = answer BY <2>3 DEF RelayAnswer
    <3>3. \A r : Handed(r)' = Handed(r) BY <3>1 DEF Handed
    <3>4. /\ answer.kind = "ANSWER" /\ answer.to = m.offer /\ answer.offer = m.offer
          /\ answer.n = m.n
      OBVIOUS
    <3>5. \A e \in wire : e.kind = "UPLOAD_READY" /\ e.offer = m.offer /\ e.n = m.n => e = m
      BY <3>1, MessageKey DEF TypeInv, TypeOK
    <3>. HIDE DEF answer
    <3>. QED BY <3>1, <3>2, <3>3, <3>4, <3>5
  <2>4. ASSUME NEW r \in Request, RelayConnect(r) PROVE AnswerInv'
    BY <1>1, <2>4 DEF RelayConnect
  <2>. QED BY <1>2, <2>1, <2>2, <2>3, <2>4 DEF MSStep
<1>3. CASE FSStep
  <2>1. ASSUME NEW f \in FileServer, FSConnect(f) PROVE AnswerInv'
    BY <1>1, <2>1 DEF FSConnect
  <2>2. ASSUME NEW m \in wire, FSRegistered(m) PROVE AnswerInv'
    BY <1>1, <2>2 DEF FSRegistered
  <2>3. ASSUME NEW m \in wire, FSRequest(m) PROVE AnswerInv'
    <3>1. m.kind = "RELAYED_REQUEST" /\ m.offer \in Request
      BY <2>3, MessageFields DEF TypeInv, TypeOK, FSRequest
    <3>2. job[m.offer] = "none" /\ made[m.offer] = 0
      BY <3>1 DEF RequestInv, OnePlace, Travels
    <3>3. made' = made /\ got' = got /\ wire' \subseteq wire
      BY <2>3, <3>1, <3>2 DEF TypeInv, TypeOK, FSRequest
    <3>. QED BY <1>1, <3>3
  <2>4. ASSUME NEW r \in Request, FSAnswer(r) PROVE AnswerInv'
    <3>. DEFINE ready == [kind |-> "UPLOAD_READY", offer |-> r, n |-> made[r] + 1]
    <3>1. /\ got' = got /\ made[r] \in Nat /\ made'[r] = made[r] + 1
          /\ \A q \in Request \ {r} : made'[q] = made[q]
          /\ \A q \in Request : made[q] \in Nat
      <4>0. made \in [Request -> 0..2] BY DEF TypeInv, TypeOK
      <4>1. \A q \in Request : made[q] \in Nat BY <4>0
      <4>2. made' = [made EXCEPT ![r] = made[r] + 1] /\ got' = got BY <2>4 DEF FSAnswer
      <4>. QED BY <4>0, <4>1, <4>2
    <3>2. \A m \in wire' : m \in wire \/ m = ready BY <2>4 DEF FSAnswer
    <3>3. /\ ready.kind = "UPLOAD_READY" /\ ready.offer = r /\ ready.n = made[r] + 1
      OBVIOUS
    <3>4. \A q : Handed(q)' = Handed(q) BY <3>1 DEF Handed
    <3>5. \A q \in Request : \A a \in Handed(q) : a.n \in Nat
      <4>1. ASSUME NEW q \in Request, NEW i \in DOMAIN got[q] PROVE got[q][i] \in Answers
        BY DEF TypeInv, TypeOK
      <4>. QED BY <4>1 DEF Handed, Answers
    <3>6. \A m \in wire : m.kind \in {"UPLOAD_READY", "ANSWER"} => m.n \in Nat /\ m.offer \in Request
      <4>1. \A m \in wire : m \in Messages BY DEF TypeInv, TypeOK
      <4>2. \A m \in Messages : m.kind \in {"UPLOAD_READY", "ANSWER"} =>
              m.n \in 1..2 /\ m.offer \in Request
        BY MessageFields
      <4>. QED BY <4>1, <4>2
    <3>7. AnswerTo(r, made[r] + 1) \notin Handed(r)
      BY <3>1, <3>5 DEF AnswerTo
    <3>8. \A q \in Request : \A a \in Handed(q) : a.n <= made'[q] BY <3>1, <3>5
    <3>9. \A m \in wire : m.kind \in {"UPLOAD_READY", "ANSWER"} => m.n <= made'[m.offer]
      BY <3>1, <3>6
    <3>. HIDE DEF ready
    <3>10. \A m \in wire' : m.kind \in {"UPLOAD_READY", "ANSWER"} =>
              m.n <= made'[m.offer] /\ AnswerTo(m.offer, m.n) \notin Handed(m.offer)
      BY <3>1, <3>2, <3>3, <3>7, <3>9
    <3>11. \A m, e \in wire' :
              m.kind = "UPLOAD_READY" /\ e.kind = "ANSWER" /\ m.offer = e.offer => m.n # e.n
      <4>1. \A e \in wire : e.kind = "ANSWER" /\ e.offer = r => e.n # made[r] + 1
        BY <3>1, <3>6
      <4>. QED BY <3>2, <3>3, <4>1
    <3>. QED BY <3>2, <3>3, <3>4, <3>8, <3>10, <3>11
  <2>. QED BY <1>3, <2>1, <2>2, <2>3, <2>4 DEF FSStep
<1>4. CASE ClientStep
  <2>1. PICK m \in wire : ClientAnswer(m) BY <1>4 DEF ClientStep
  <2>. DEFINE r == m.offer
  <2>2. m.kind = "ANSWER" /\ m.to = r /\ r \in Request /\ wire' = wire \ {m} /\ made' = made
    BY <2>1, MessageFields DEF TypeInv, TypeOK, ClientAnswer
  <2>3. AnswerTo(r, m.n) \in Answers
    BY <2>2, MessageFields DEF AnswerTo, Answers, TypeInv, TypeOK
  <2>4. /\ Handed(r)' = Handed(r) \cup {AnswerTo(r, m.n)}
        /\ \A q \in Request \ {r} : Handed(q)' = Handed(q)
    BY <2>1, <2>2, <2>3, HandedOver DEF TypeInv, TypeOK, ClientAnswer
  <2>5. AnswerTo(r, m.n).n = m.n /\ m.n <= made[r] BY <2>2 DEF AnswerTo
  <2>6. ASSUME NEW e \in wire', e.kind \in {"UPLOAD_READY", "ANSWER"}, e.offer = r
        PROVE  e.n # m.n
    <3>1. e \in wire /\ e # m BY <2>2, <2>6
    <3>2. e.kind = "ANSWER" => e.to = r BY <2>6, <3>1
    <3>3. e.kind = "ANSWER" /\ e.n = m.n => e = m
      BY <2>2, <2>6, <3>1, <3>2, MessageKey DEF TypeInv, TypeOK
    <3>. QED BY <2>2, <2>6, <3>1, <3>3
  <2>7. \A e \in wire' : e.kind \in {"UPLOAD_READY", "ANSWER"} =>
          e.n <= made'[e.offer] /\ AnswerTo(e.offer, e.n) \notin Handed(e.offer)'
    <3>1. ASSUME NEW e \in wire', e.kind \in {"UPLOAD_READY", "ANSWER"}
          PROVE  AnswerTo(e.offer, e.n) \notin Handed(e.offer)'
      <4>1. e \in wire /\ e.offer \in Request /\ AnswerTo(e.offer, e.n) \notin Handed(e.offer)
        BY <2>2, <3>1, MessageFields DEF TypeInv, TypeOK
      <4>2. CASE e.offer = r
        <5>1. AnswerTo(r, e.n) # AnswerTo(r, m.n) BY <2>6, <3>1, <4>2 DEF AnswerTo
        <5>. QED BY <2>4, <4>1, <4>2, <5>1
      <4>. QED BY <2>4, <4>1, <4>2
    <3>. QED BY <2>2, <3>1
  <2>8. \A q \in Request : \A a \in Handed(q)' : a.n <= made'[q]
    BY <2>2, <2>4, <2>5
  <2>. QED BY <2>2, <2>7, <2>8
<1>5. CASE Environment
  <2>1. ASSUME NEW f \in FileServer, NEW a \in Addr, FSStart(f, a) PROVE AnswerInv'
    BY <1>1, <2>1 DEF FSStart
  <2>2. ASSUME NEW f \in FileServer, FSCrash(f) PROVE AnswerInv'
    BY <1>1, <2>2 DEF FSCrash
  <2>3. CASE \E c \in Client : ClientRequest(c) \/ ClientExit(c)
    BY <1>1, <2>3 DEF ClientRequest, ClientExit
  <2>4. CASE MSCrash \/ MSRestart BY <1>1, <2>4 DEF MSCrash, MSDown, FromMS, MSRestart
  <2>. QED BY <1>5, <2>1, <2>2, <2>3, <2>4, Starts DEF Environment
<1>6. CASE UNCHANGED vars BY <1>1, <1>6 DEF vars
<1>. QED BY <1>2, <1>3, <1>4, <1>5, <1>6 DEF Next

-----------------------------------------------------------------------------
(* OfferAnswer is implemented                                              *)

\* The requests that were sent.
Asked == {r \in Request : link[r] # "none"}

\* The variables of OfferAnswer are these, the sendings and what was handed over.
LEMMA ExchangeVars ==
  /\ Exchange!vars = << Asked, made, got >>
  /\ Exchange!vars' = << Asked', made', got' >>
BY DEF Exchange!vars, Asked

\* The initial states are initial states of OfferAnswer.
LEMMA ExchangeStarts == Init => Exchange!Init
BY DEF Init, Exchange!Init

\* Each step is a step of OfferAnswer, or none.
LEMMA ExchangeMoves ==
  TypeInv /\ RequestInv /\ AnswerInv /\ [Next]_vars => [Exchange!Next]_(Exchange!vars)
<1>. SUFFICES ASSUME TypeInv, RequestInv, AnswerInv, [Next]_vars
              PROVE  Exchange!Next \/ UNCHANGED Exchange!vars
  OBVIOUS
<1>. USE DEF msVars, fsVars, clientVars
\* Most steps make and hand over nothing, and no request is new.
<1>1. ASSUME UNCHANGED << made, got >>, \A r \in Request : link'[r] = "none" <=> link[r] = "none"
      PROVE  UNCHANGED Exchange!vars
  <2>1. Asked' = Asked BY <1>1 DEF Asked
  <2>. QED BY <1>1, <2>1, ExchangeVars
<1>2. ASSUME MSDown PROVE UNCHANGED Exchange!vars
  <2>1. /\ UNCHANGED << made, got >>
        /\ \A r \in Request : link'[r] = "none" <=> link[r] = "none"
    BY <1>2 DEF MSDown
  <2>. QED BY <1>1, <2>1
<1>3. CASE MSStep
  BY <1>1, <1>2, <1>3 DEF MSStep, MSRegister, MSRequest, RelayAnswer, RelayConnect
<1>4. CASE FSStep
  <2>1. CASE \/ \E f \in FileServer : FSConnect(f)
             \/ \E m \in wire : FSRegistered(m)
    BY <1>1, <2>1 DEF FSConnect, FSRegistered
  <2>2. ASSUME NEW m \in wire, FSRequest(m) PROVE UNCHANGED Exchange!vars
    <3>1. m.kind = "RELAYED_REQUEST" /\ m.offer \in Request
      BY <2>2, MessageFields DEF TypeInv, TypeOK, FSRequest
    <3>2. job[m.offer] = "none" /\ made[m.offer] = 0
      BY <3>1 DEF RequestInv, OnePlace, Travels
    <3>3. made' = made /\ UNCHANGED << got, link >>
      BY <2>2, <3>1, <3>2 DEF TypeInv, TypeOK, FSRequest
    <3>. QED BY <1>1, <3>3
  <2>3. ASSUME NEW r \in Request, FSAnswer(r) PROVE Exchange!Next
    <3>1. /\ job[r] = "answering" /\ made' = [made EXCEPT ![r] = @ + 1]
          /\ UNCHANGED << got, link >>
      BY <2>3 DEF FSAnswer
    <3>2. r \in Asked /\ Asked' = Asked BY <3>1 DEF RequestInv, OnePlace, Asked
    <3>3. made[r] + 1 \in 1..2 BY <3>1 DEF TypeInv, Counted
    <3>4. Exchange!Answer(r) BY <3>1, <3>2, <3>3 DEF Exchange!Answer, Asked
    <3>. QED BY <3>4 DEF Exchange!Next
  <2>. QED BY <1>4, <2>1, <2>2, <2>3 DEF FSStep
<1>5. CASE ClientStep
  <2>1. PICK m \in wire : ClientAnswer(m) BY <1>5 DEF ClientStep
  <2>2. PICK r \in Request, n \in 1..2 : r = m.offer /\ n = m.n /\ m.to = r
    BY <2>1, MessageFields DEF TypeInv, TypeOK, ClientAnswer, AnswerInv
  <2>3. n <= made[r] /\ AnswerTo(r, n) \notin Handed(r)
    BY <2>1, <2>2 DEF ClientAnswer, AnswerInv
  <2>4. /\ got' = [got EXCEPT ![r] = Append(@, AnswerTo(r, n))]
        /\ UNCHANGED << made, link >>
    BY <2>1, <2>2 DEF ClientAnswer
  <2>5. Asked' = Asked BY <2>4 DEF Asked
  <2>6. Exchange!Deliver(r, n)
    BY <2>3, <2>4, <2>5 DEF Exchange!Deliver, Exchange!Handed, Handed, AnswerTo, Asked
  <2>. QED BY <2>6 DEF Exchange!Next
<1>6. CASE Environment
  <2>1. CASE \/ \E f \in FileServer, a \in Addr : FSStart(f, a)
             \/ \E f \in FileServer : FSCrash(f)
             \/ MSRestart
    BY <1>1, <2>1 DEF FSStart, FSCrash, MSRestart
  <2>2. ASSUME NEW c \in Client, ClientRequest(c)
        PROVE  Exchange!Next \/ UNCHANGED Exchange!vars
    <3>1. PICK r \in Request : r = NextRequest(c)
      BY <2>2, NextIsRequest DEF TypeInv, Counted
    <3>2. link[r] = "none"
      <4>1. CASE client[c] = "idle" BY <3>1, <4>1 DEF NextRequest, RequestInv, NextIsNew
      <4>2. CASE client[c] = "again"
        BY <3>1, <4>2 DEF NextRequest, RequestInv, NextIsNew, TypeInv, Counted
      <4>. QED BY <2>2, <4>1, <4>2 DEF ClientRequest
    <3>3. CASE ms = "up"
      <4>1. /\ UNCHANGED << made, got >> /\ link'[r] = "open"
            /\ \A q \in Request \ {r} : link'[q] = link[q]
        BY <2>2, <3>1, <3>3 DEF TypeInv, TypeOK, ClientRequest
      <4>2. r \notin Asked /\ Asked' = Asked \cup {r} BY <3>2, <4>1 DEF Asked
      <4>3. Exchange!Ask(r) BY <4>1, <4>2 DEF Exchange!Ask, Asked
      <4>. QED BY <4>3 DEF Exchange!Next
    <3>4. CASE ms # "up"
      BY <1>1, <2>2, <3>4 DEF ClientRequest
    <3>. QED BY <3>3, <3>4
  <2>3. ASSUME NEW c \in Client, ClientExit(c) PROVE UNCHANGED Exchange!vars
    <3>1. /\ UNCHANGED << made, got >>
          /\ \A r \in Request : link'[r] = "none" <=> link[r] = "none"
      BY <2>3 DEF ClientExit
    <3>. QED BY <1>1, <3>1
  <2>4. CASE MSCrash BY <1>2, <2>4 DEF MSCrash
  <2>. QED BY <1>6, <2>1, <2>2, <2>3, <2>4, Starts DEF Environment
<1>7. CASE UNCHANGED vars BY <1>1, <1>7 DEF vars
<1>. QED BY <1>3, <1>4, <1>5, <1>6, <1>7 DEF Next

\* Metadata server and file servers together implement OfferAnswer: whatever crashes and
\* comes back, and however often the same is asked and answered, a request is handed
\* answers to itself only, after they were sent, and each sending once.
THEOREM AnswersFindTheirRequest == Spec => ExchangeSpec
<1>1. Spec => []TypeInv BY TypeInit, TypeStep, PTL DEF Spec
<1>2. Spec => []RequestInv BY <1>1, RequestInit, RequestStep, PTL DEF Spec
<1>3. Spec => []AnswerInv BY <1>1, <1>2, AnswerInit, AnswerStep, PTL DEF Spec
<1>. QED BY <1>1, <1>2, <1>3, ExchangeStarts, ExchangeMoves, PTL
         DEF Spec, ExchangeSpec, Exchange!Spec

\* Appending what is not there keeps a sequence free of repetitions.
LEMMA NoRepetition ==
  ASSUME NEW S, NEW q \in Seq(S), NEW a \in S,
         \A i \in DOMAIN q : q[i] # a,
         \A i, j \in DOMAIN q : q[i] = q[j] => i = j
  PROVE  \A i, j \in DOMAIN Append(q, a) : Append(q, a)[i] = Append(q, a)[j] => i = j
<1>1. /\ Len(Append(q, a)) = Len(q) + 1 /\ Len(q) \in Nat
      /\ \A i \in 1..Len(q) : Append(q, a)[i] = q[i]
      /\ Append(q, a)[Len(q) + 1] = a
      /\ DOMAIN Append(q, a) = 1..Len(Append(q, a)) /\ DOMAIN q = 1..Len(q)
  BY AppendProperties
<1>2. \A i \in DOMAIN Append(q, a) : i \in DOMAIN q \/ i = Len(q) + 1 BY <1>1
<1>. QED BY <1>1, <1>2

\* Whatever implements OfferAnswer hands over own answers, and no sending twice.
OwnInv == Exchange!TypeOK /\ Exchange!OwnAnswer /\ Exchange!NothingTwice

LEMMA OwnStep == OwnInv /\ [Exchange!Next]_(Exchange!vars) => OwnInv'
<1>. SUFFICES ASSUME OwnInv, [Exchange!Next]_(Exchange!vars) PROVE OwnInv'
  OBVIOUS
<1>. USE DEF OwnInv
<1>0. /\ Asked \subseteq Request /\ made \in [Request -> 0..2]
      /\ got \in [Request -> Seq(Answers)]
  <2>1. (1..2) \cup {0} = 0..2 OBVIOUS
  <2>. QED BY <2>1 DEF Exchange!TypeOK, Exchange!Answers, Answers, Asked
<1>. DEFINE Own == \A q \in Request : /\ made[q] # 0 => q \in Asked
                                     /\ \A a \in Handed(q) : a.offer = q /\ a.n <= made[q]
            Once == \A q \in Request : \A i, j \in DOMAIN got[q] : got[q][i] = got[q][j] => i = j
<1>9. Own /\ Once BY DEF Exchange!OwnAnswer, Exchange!NothingTwice, Exchange!Handed, Handed, Asked
<1>10. ASSUME Asked' \subseteq Request, made' \in [Request -> 0..2],
              got' \in [Request -> Seq(Answers)], Own', Once'
       PROVE  OwnInv'
  <2>1. (1..2) \cup {0} = 0..2 OBVIOUS
  <2>2. Exchange!TypeOK' BY <1>10, <2>1 DEF Exchange!TypeOK, Exchange!Answers, Answers, Asked
  <2>3. Exchange!OwnAnswer' BY <1>10 DEF Exchange!OwnAnswer, Exchange!Handed, Handed, Asked
  <2>4. Exchange!NothingTwice' BY <1>10 DEF Exchange!NothingTwice
  <2>. QED BY <2>2, <2>3, <2>4
<1>1. ASSUME NEW r \in Request, Exchange!Ask(r) PROVE OwnInv'
  <2>1. Asked' = Asked \cup {r} /\ made' = made /\ got' = got
    BY <1>1 DEF Exchange!Ask, Asked
  <2>. QED BY <1>0, <1>9, <1>10, <2>1 DEF Handed
<1>2. ASSUME NEW r \in Request, Exchange!Answer(r) PROVE OwnInv'
  <2>1. /\ made[r] + 1 \in 1..2 /\ made' = [made EXCEPT ![r] = made[r] + 1]
        /\ Asked' = Asked /\ got' = got /\ r \in Asked
    BY <1>2 DEF Exchange!Answer, Asked
  <2>2. made' \in [Request -> 0..2] /\ \A q \in Request : made[q] \in Nat
    <3>1. 1..2 \subseteq 0..2 /\ 0..2 \subseteq Nat OBVIOUS
    <3>. QED BY <1>0, <2>1, <3>1
  <2>3. \A q \in Request : made[q] <= made'[q] /\ made'[q] \in Nat /\ (q # r => made'[q] = made[q])
    BY <1>0, <2>1, <2>2
  <2>4. ASSUME NEW q \in Request, NEW a \in Handed(q) PROVE a.n \in Nat
    <3>1. \A i \in DOMAIN got[q] : got[q][i] \in Answers BY <1>0
    <3>. QED BY <2>4, <3>1 DEF Handed, Answers
  <2>5. \A q : Handed(q)' = Handed(q) BY <2>1 DEF Handed
  <2>6. \A q \in Request : \A a \in Handed(q)' : a.offer = q /\ a.n <= made'[q]
    BY <1>9, <2>2, <2>3, <2>4, <2>5
  <2>7. Own' BY <1>9, <2>1, <2>3, <2>6
  <2>8. Once' BY <1>9, <2>1
  <2>. QED BY <1>0, <1>10, <2>1, <2>2, <2>7, <2>8
<1>3. ASSUME NEW r \in Request, NEW n \in 1..2, Exchange!Deliver(r, n) PROVE OwnInv'
  <2>1. /\ n <= made[r] /\ AnswerTo(r, n) \notin Handed(r)
        /\ got' = [got EXCEPT ![r] = Append(@, AnswerTo(r, n))]
        /\ Asked' = Asked /\ made' = made
    BY <1>3 DEF Exchange!Deliver, Exchange!Handed, Handed, AnswerTo, Asked
  <2>2. AnswerTo(r, n) \in Answers /\ AnswerTo(r, n).offer = r /\ AnswerTo(r, n).n = n
    BY DEF AnswerTo, Answers
  <2>3. got[r] \in Seq(Answers) /\ got' \in [Request -> Seq(Answers)]
        /\ got'[r] = Append(got[r], AnswerTo(r, n))
        /\ \A q \in Request \ {r} : got'[q] = got[q]
    BY <1>0, <2>1, <2>2
  <2>4. /\ Handed(r)' = Handed(r) \cup {AnswerTo(r, n)}
        /\ \A q \in Request \ {r} : Handed(q)' = Handed(q)
    BY <1>0, <2>1, <2>2, HandedOver
  <2>5. Own' BY <1>9, <2>1, <2>2, <2>4
  <2>6. Once'
    <3>1. \A i \in DOMAIN got[r] : got[r][i] # AnswerTo(r, n) BY <2>1 DEF Handed
    <3>2. \A i, j \in DOMAIN got'[r] : got'[r][i] = got'[r][j] => i = j
      <4>1. \A i, j \in DOMAIN got[r] : got[r][i] = got[r][j] => i = j BY <1>9
      <4>. HIDE DEF Once
      <4>2. LET long == Append(got[r], AnswerTo(r, n))
            IN  \A i, j \in DOMAIN long : long[i] = long[j] => i = j
        BY <2>2, <2>3, <3>1, <4>1, NoRepetition
      <4>. QED BY <2>3, <4>2
    <3>. QED BY <1>9, <2>3, <3>2
  <2>. QED BY <1>0, <1>10, <2>1, <2>3, <2>5, <2>6
<1>4. CASE UNCHANGED Exchange!vars
  <2>1. UNCHANGED << Asked, made, got >> BY <1>4, ExchangeVars
  <2>. QED BY <1>0, <1>9, <1>10, <2>1 DEF Handed
<1>. QED BY <1>1, <1>2, <1>3, <1>4, Zenon DEF Exchange!Next

\* What OfferAnswer lets a client rely on holds of the programs together: in spite of one
\* userID for all, of second requests and of every restart, nobody gets an answer to another
\* request, nor the same sending twice.
THEOREM OwnAnswersOnly == Spec => []Exchange!OwnAnswer /\ []Exchange!NothingTwice
<1>1. Exchange!Init => OwnInv
  BY DEF Exchange!Init, OwnInv, Exchange!TypeOK, Exchange!OwnAnswer, Exchange!NothingTwice,
         Exchange!Handed
<1>2. OwnInv => Exchange!OwnAnswer /\ Exchange!NothingTwice BY DEF OwnInv
<1>. QED BY <1>1, <1>2, OwnStep, AnswersFindTheirRequest, PTL DEF ExchangeSpec, Exchange!Spec

-----------------------------------------------------------------------------
(* No request is forgotten                                                 *)

\* Where the exchange of a waiting client's request is, or what ended it.
Calm(r) ==
  \/ Travels("UPLOAD_REQUEST", r)
  \/ relay[r] \in {"connecting", "refused"}
  \/ relay[r] = "open" /\ \/ fs[server[r]] = "dead"
                          \/ Travels("RELAYED_REQUEST", r)
                          \/ job[r] = "answering"
                          \/ Travels("UPLOAD_READY", r)
  \/ Travels("ANSWER", r)

CalmInv == \A r \in Request : Waiting(r) => Calm(r)

\* Nobody waits to begin with.
LEMMA CalmInit == Init => CalmInv
BY DEF Init, CalmInv, Waiting

\* Each step keeps the exchange of every waiting client at a place, or meets an ended
\* file server.
LEMMA CalmStep == TypeInv /\ RelayInv /\ AnswerInv /\ CalmInv /\ [Next]_vars => CalmInv'
<1>. SUFFICES ASSUME TypeInv, RelayInv, AnswerInv, CalmInv, [Next]_vars PROVE CalmInv'
  OBVIOUS
<1>. USE DEF CalmInv, msVars, fsVars, clientVars
\* What was sent travels on.
<1>0. ASSUME NEW r \in Request, NEW m \in wire', m.offer = r,
             m.kind \in {"UPLOAD_REQUEST", "ANSWER"}
      PROVE  Calm(r)'
  BY <1>0 DEF Calm, Travels
\* The requests a step does not move.
<1>1. ASSUME NEW r \in Request, UNCHANGED << relay[r], server[r], link[r], got[r] >>,
             relay[r] = "open" =>
               job'[r] = job[r] /\ (fs[server[r]] = "dead" => fs'[server[r]] = "dead"),
             \A m \in wire : m \in wire' \/ m.kind \in {"FS_REGISTER", "FS_REGISTER_OK"}
                                         \/ m.offer # r
      PROVE  Waiting(r)' => Calm(r)'
  <2>1. \A k \in {"UPLOAD_REQUEST", "RELAYED_REQUEST", "UPLOAD_READY", "ANSWER"} :
          Travels(k, r) => Travels(k, r)'
    BY <1>1 DEF Travels
  <2>. QED BY <1>1, <2>1 DEF Calm, Waiting
<1>2. ASSUME UNCHANGED << relay, server, link, got, job >>,
             \A f \in FileServer : fs[f] = "dead" => fs'[f] = "dead",
             \A m \in wire : m \in wire' \/ m.kind \in {"FS_REGISTER", "FS_REGISTER_OK"}
      PROVE  CalmInv'
  BY <1>1, <1>2 DEF RelayInv
<1>3. ASSUME MSDown PROVE CalmInv'
  BY <1>3 DEF MSDown, Waiting
<1>4. CASE MSStep
  <2>1. ASSUME NEW m \in wire, MSRegister(m) PROVE CalmInv'
    BY <1>2, <2>1 DEF MSRegister
  <2>2. ASSUME NEW m \in wire, MSRequest(m), fs_DB # << >> PROVE CalmInv'
    <3>1. m.kind = "UPLOAD_REQUEST" /\ m.offer \in Request /\ wire' = wire \ {m}
      BY <2>2, MessageFields DEF TypeInv, TypeOK, MSRequest
    <3>2. /\ relay'[m.offer] = "connecting"
          /\ \A q \in Request \ {m.offer} : relay'[q] = relay[q]
          /\ UNCHANGED << server, link, got, job, fs >>
      BY <2>2, <3>1 DEF TypeInv, TypeOK, MSRequest
    <3>3. Calm(m.offer)' BY <3>2 DEF Calm
    <3>. QED BY <1>1, <3>1, <3>2, <3>3
  <2>3. ASSUME NEW m \in wire, RelayAnswer(m) PROVE CalmInv'
    <3>. DEFINE answer == [kind |-> "ANSWER", to |-> m.offer, offer |-> m.offer, n |-> m.n]
    <3>1. /\ m.kind = "UPLOAD_READY" /\ m.offer \in Request
          /\ relay[m.offer] \in {"open", "closing"} /\ wire \ {m} \subseteq wire'
          /\ relay[m.offer] = "open" /\ link[m.offer] = "open" => answer \in wire'
      BY <2>3, MessageFields DEF TypeInv, TypeOK, RelayAnswer
    <3>2. /\ \A q \in Request \ {m.offer} : relay'[q] = relay[q]
          /\ UNCHANGED << server, link, got, job, fs >>
      BY <2>3, <3>1 DEF TypeInv, TypeOK, RelayAnswer
    <3>3. answer.kind = "ANSWER" /\ answer.offer = m.offer OBVIOUS
    <3>. HIDE DEF answer
    <3>4. Waiting(m.offer)' => Calm(m.offer)'
      <4>1. CASE relay[m.offer] = "open"
        BY <1>0, <3>1, <3>2, <3>3, <4>1 DEF Waiting
      <4>2. CASE relay[m.offer] = "closing"
        <5>1. \A k \in {"UPLOAD_REQUEST", "ANSWER"} : Travels(k, m.offer) => Travels(k, m.offer)'
          BY <3>1 DEF Travels
        <5>. QED BY <3>1, <3>2, <4>2, <5>1 DEF Calm, Waiting
      <4>. QED BY <3>1, <4>1, <4>2
    <3>. QED BY <1>1, <3>1, <3>2, <3>4
  <2>4. ASSUME NEW r \in Request, RelayConnect(r) PROVE CalmInv'
    <3>1. /\ relay[r] = "connecting" /\ wire \subseteq wire'
          /\ \A q \in Request \ {r} : relay'[q] = relay[q] /\ server'[q] = server[q]
          /\ UNCHANGED << link, got, job, fs >>
      BY <2>4 DEF TypeInv, TypeOK, RelayConnect
    <3>2. Calm(r)'
      <4>1. CASE relay' = [relay EXCEPT ![r] = "refused"]
        BY <4>1 DEF Calm, TypeInv, TypeOK
      <4>2. CASE /\ relay' = [relay EXCEPT ![r] = "open"]
                 /\ wire' = wire \cup {[kind |-> "RELAYED_REQUEST", offer |-> r]}
        <5>. DEFINE request == [kind |-> "RELAYED_REQUEST", offer |-> r]
        <5>1. request \in wire' /\ request.kind = "RELAYED_REQUEST" /\ request.offer = r
          BY <4>2
        <5>. HIDE DEF request
        <5>2. Travels("RELAYED_REQUEST", r)' BY <5>1 DEF Travels
        <5>3. relay'[r] = "open" BY <4>2 DEF TypeInv, TypeOK
        <5>. QED BY <5>2, <5>3 DEF Calm
      <4>. QED BY <2>4, <4>1, <4>2 DEF RelayConnect
    <3>. QED BY <1>1, <3>1, <3>2
  <2>. QED BY <1>3, <1>4, <2>1, <2>2, <2>3, <2>4 DEF MSStep, MSRequest
<1>5. CASE FSStep
  <2>1. ASSUME NEW f \in FileServer, FSConnect(f) PROVE CalmInv'
    <3>1. \A g \in FileServer : fs[g] = "dead" => fs'[g] = "dead" BY <2>1 DEF FSConnect, TypeInv, TypeOK
    <3>. QED BY <1>2, <2>1, <3>1 DEF FSConnect
  <2>2. ASSUME NEW m \in wire, FSRegistered(m) PROVE CalmInv'
    <3>1. \A g \in FileServer : fs[g] = "dead" => fs'[g] = "dead" BY <2>2 DEF FSRegistered, TypeInv, TypeOK
    <3>. QED BY <1>2, <2>2, <3>1 DEF FSRegistered
  <2>3. ASSUME NEW m \in wire, FSRequest(m) PROVE CalmInv'
    <3>1. m.kind = "RELAYED_REQUEST" /\ m.offer \in Request /\ wire' = wire \ {m}
      BY <2>3, MessageFields DEF TypeInv, TypeOK, FSRequest
    <3>2. /\ job'[m.offer] = "answering"
          /\ \A q \in Request \ {m.offer} : job'[q] = job[q]
          /\ UNCHANGED << relay, server, link, got, fs >>
      BY <2>3, <3>1 DEF TypeInv, TypeOK, FSRequest
    <3>3. \A k \in {"UPLOAD_REQUEST", "ANSWER"} : Travels(k, m.offer) => Travels(k, m.offer)'
      BY <3>1 DEF Travels
    <3>4. Waiting(m.offer)' => Calm(m.offer)' BY <3>1, <3>2, <3>3 DEF Calm, Waiting
    <3>. QED BY <1>1, <3>1, <3>2, <3>4
  <2>4. ASSUME NEW r \in Request, FSAnswer(r) PROVE CalmInv'
    <3>. DEFINE ready == [kind |-> "UPLOAD_READY", offer |-> r, n |-> made[r] + 1]
    <3>1. /\ wire \subseteq wire' /\ (relay[r] = "open" => ready \in wire')
          /\ UNCHANGED << relay, server, link, got, fs >>
          /\ \A q \in Request \ {r} : job'[q] = job[q]
      BY <2>4 DEF TypeInv, TypeOK, FSAnswer
    <3>2. ready.kind = "UPLOAD_READY" /\ ready.offer = r OBVIOUS
    <3>. HIDE DEF ready
    <3>3. \A k \in {"UPLOAD_REQUEST", "ANSWER"} : Travels(k, r) => Travels(k, r)'
      BY <3>1 DEF Travels
    <3>4. relay[r] = "open" => Travels("UPLOAD_READY", r)' BY <3>1, <3>2 DEF Travels
    <3>5. Waiting(r)' => Calm(r)' BY <3>1, <3>3, <3>4 DEF Calm, Waiting
    <3>. QED BY <1>1, <3>1, <3>5
  <2>. QED BY <1>5, <2>1, <2>2, <2>3, <2>4 DEF FSStep
<1>6. CASE ClientStep
  <2>1. PICK m \in wire : ClientAnswer(m) BY <1>6 DEF ClientStep
  <2>2. m.kind = "ANSWER" /\ m.to = m.offer /\ m.offer \in Request /\ wire' = wire \ {m}
    BY <2>1, MessageFields DEF TypeInv, TypeOK, ClientAnswer, AnswerInv
  <2>3. /\ \A q \in Request \ {m.offer} : got'[q] = got[q]
        /\ got'[m.offer] = Append(got[m.offer], AnswerTo(m.offer, m.n))
        /\ got[m.offer] \in Seq(Answers) /\ AnswerTo(m.offer, m.n) \in Answers
        /\ UNCHANGED << relay, server, link, job, fs >>
    BY <2>1, <2>2, MessageFields DEF TypeInv, TypeOK, ClientAnswer, AnswerTo, Answers
  <2>4. ~Waiting(m.offer)' BY <2>3, AppendProperties DEF Waiting
  <2>. QED BY <1>1, <2>2, <2>3, <2>4
<1>7. CASE Environment
  <2>1. ASSUME NEW f \in FileServer, NEW a \in Addr, FSStart(f, a) PROVE CalmInv'
    <3>1. \A g \in FileServer : fs[g] = "dead" => fs'[g] = "dead" BY <2>1 DEF FSStart, TypeInv, TypeOK
    <3>. QED BY <1>2, <2>1, <3>1 DEF FSStart
  <2>2. ASSUME NEW f \in FileServer, FSCrash(f) PROVE CalmInv'
    <3>1. /\ fs'[f] = "dead" /\ \A g \in FileServer : fs[g] = "dead" => fs'[g] = "dead"
          /\ UNCHANGED << relay, server, link, got >>
      BY <2>2 DEF FSCrash, TypeInv, TypeOK
    <3>2. \A r \in Request : job'[r] = job[r] \/ server[r] = f BY <2>2 DEF FSCrash
    <3>3. \A m \in wire : \/ m \in wire' \/ m.kind \in {"FS_REGISTER", "FS_REGISTER_OK"}
                          \/ m.kind \in {"RELAYED_REQUEST", "UPLOAD_READY"} /\ server[m.offer] = f
      BY <2>2 DEF FSCrash, ToServer, FromServer
    <3>4. ASSUME NEW r \in Request PROVE Waiting(r)' => Calm(r)'
      <4>1. \A k \in {"UPLOAD_REQUEST", "ANSWER"} : Travels(k, r) => Travels(k, r)'
        BY <3>3 DEF Travels
      <4>2. CASE server[r] = f BY <3>1, <4>1, <4>2 DEF Calm, Waiting
      <4>3. CASE server[r] # f BY <1>1, <3>1, <3>2, <3>3, <4>3 DEF RelayInv
      <4>. QED BY <4>2, <4>3
    <3>. QED BY <3>4
  <2>3. ASSUME NEW c \in Client, ClientRequest(c) PROVE CalmInv'
    <3>1. PICK r \in Request : r = NextRequest(c)
      BY <2>3, NextIsRequest DEF TypeInv, Counted
    <3>2. /\ UNCHANGED << relay, server, job, fs, got >> /\ wire \subseteq wire'
          /\ \A q \in Request \ {r} : link'[q] = link[q]
      BY <2>3, <3>1 DEF TypeInv, TypeOK, ClientRequest
    <3>3. CASE ms = "up"
      <4>. DEFINE sent == [kind |-> "UPLOAD_REQUEST", offer |-> r]
      <4>1. sent \in wire' /\ sent.kind = "UPLOAD_REQUEST" /\ sent.offer = r
        BY <2>3, <3>1, <3>3 DEF ClientRequest
      <4>2. Calm(r)' BY <4>1 DEF Calm, Travels
      <4>. QED BY <1>1, <3>2, <4>2
    <3>4. CASE ms # "up"
      BY <1>1, <2>3, <3>2, <3>4 DEF ClientRequest
    <3>. QED BY <3>3, <3>4
  <2>4. ASSUME NEW c \in Client, ClientExit(c) PROVE CalmInv'
    <3>1. /\ UNCHANGED << relay, server, job, fs, got >>
          /\ \A r \in Request : r[1] # c => link'[r] = link[r]
          /\ \A r \in Request : r[1] = c => link'[r] # "open"
      BY <2>4 DEF TypeInv, TypeOK, ClientExit
    <3>2. \A m \in wire : m \in wire' \/ m.offer[1] = c
      BY <2>4 DEF ClientExit, AnswerInv
    <3>3. ASSUME NEW r \in Request PROVE Waiting(r)' => Calm(r)'
      <4>1. CASE r[1] = c BY <3>1, <4>1 DEF Waiting
      <4>2. CASE r[1] # c BY <1>1, <3>1, <3>2, <4>2
      <4>. QED BY <4>1, <4>2
    <3>. QED BY <3>3
  <2>5. CASE MSCrash BY <1>3, <2>5 DEF MSCrash
  <2>6. CASE MSRestart BY <1>2, <2>6 DEF MSRestart
  <2>. QED BY <1>7, <2>1, <2>2, <2>3, <2>4, <2>5, <2>6, Starts DEF Environment
<1>8. CASE UNCHANGED vars BY <1>2, <1>8 DEF vars
<1>. QED BY <1>4, <1>5, <1>6, <1>7, <1>8 DEF Next

\* No request is dropped, for any number of clients and servers: one whose client waits is
\* being answered, unless it met a file server that has ended.
THEOREM NobodyIsForgotten == Spec => []NoneForgotten
<1>1. CalmInv => NoneForgotten BY DEF CalmInv, Calm, Travels, NoneForgotten, Underway, Abandoned
<1>2. Spec => []TypeInv BY TypeInit, TypeStep, PTL DEF Spec
<1>3. Spec => []RelayInv BY <1>2, RelayInit, RelayStep, PTL DEF Spec
<1>4. Spec => []RequestInv BY <1>2, RequestInit, RequestStep, PTL DEF Spec
<1>5. Spec => []AnswerInv BY <1>2, <1>4, AnswerInit, AnswerStep, PTL DEF Spec
<1>. QED BY <1>1, <1>2, <1>3, <1>5, CalmInit, CalmStep, PTL DEF Spec
=============================================================================
