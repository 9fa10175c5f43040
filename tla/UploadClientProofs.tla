------------------------- MODULE UploadClientProofs -------------------------
(***************************************************************************)
(* Proofs about UploadClient, for any number of packets and uploads.       *)
(***************************************************************************)
EXTENDS UploadClient, SequenceTheorems, WellFoundedInduction, TLAPS

\* The bounds, without the rule.
LEMMA Bounds == Packets \in Nat \ {0} /\ MaxUploads \in Nat
BY UploadAssumption DEF UploadAssumption

\* The fields and their values, for stores one at a time.
LEMMA StoreFields ==
  ASSUME NEW w \in Content, NEW f, NEW v, << f, v >> \in Store
  PROVE  [w EXCEPT ![f] = v] \in Content
<1>1. PICK g \in {"data", "target", "type", "writable"} :
        << f, v >> \in {g} \X {c[g] : c \in Content}
  BY DEF Store
<1>2. f = g /\ \E c \in Content : v = c[g] BY <1>1
<1>3. CASE g = "data" BY <1>2, <1>3 DEF Content
<1>4. CASE g = "target" BY <1>2, <1>4 DEF Content
<1>5. CASE g = "type" BY <1>2, <1>5 DEF Content
<1>6. CASE g = "writable" BY <1>2, <1>6 DEF Content
<1>. QED BY <1>3, <1>4, <1>5, <1>6

\* What the two threads store.
LEMMA StoresAreStores ==
  /\ << "data", "offer" >> \in Store /\ << "data", "answer" >> \in Store
  /\ << "target", "NULL" >> \in Store /\ << "target", "wsi" >> \in Store
  /\ << "type", "UPLOAD_REQUEST" >> \in Store /\ << "type", "UPLOAD_READY" >> \in Store
  /\ << "writable", "asked" >> \in Store
<1>. DEFINE full == [data |-> "offer", target |-> "wsi", type |-> "UPLOAD_REQUEST",
                     writable |-> "asked"]
            late == [data |-> "answer", target |-> "NULL", type |-> "UPLOAD_READY",
                     writable |-> "asked"]
<1>1. full \in Content /\ late \in Content BY DEF Content
<1>2. \A c \in Content : /\ << "data", c.data >> \in Store /\ << "target", c.target >> \in Store
                         /\ << "type", c.type >> \in Store
                         /\ << "writable", c.writable >> \in Store
  BY DEF Store
<1>. QED BY <1>1, <1>2

\* Libwebsockets takes the request back.
LEMMA RequestTaken ==
  ASSUME NEW w \in Content
  PROVE  [w EXCEPT !.writable = "idle"] \in Content
BY DEF Content

\* Nothing has been stored or sent to begin with.
LEMMA TypeInit == Init => TypeOK
<1>. SUFFICES ASSUME Init PROVE TypeOK
  OBVIOUS
<1>1. Blank \in Content BY DEF Blank, Content
<1>2. buffer \in [Thread -> Seq(Store)] BY DEF Init, Thread
<1>3. sent \in 0..Packets /\ uploads \in 0..MaxUploads BY Bounds DEF Init
<1>4. client_exit \in BOOLEAN /\ uploading \in BOOLEAN BY DEF Init
<1>. QED BY <1>1, <1>2, <1>3, <1>4 DEF Init, TypeOK

\* A finite set of positions has a last one.
LEMMA LargestBelow ==
  ASSUME NEW n \in Nat, NEW S \in SUBSET (1..n), S # {}
  PROVE  \E i \in S : \A j \in S : j <= i
<1>. DEFINE T == {n - i : i \in S}
<1>1. T \subseteq Nat /\ T # {}
  <2>1. \A i \in S : n - i \in Nat OBVIOUS
  <2>2. PICK i \in S : TRUE OBVIOUS
  <2>3. n - i \in T BY <2>2
  <2>. QED BY <2>1, <2>3
<1>2. PICK x \in T : \A y \in T : ~(<< y, x >> \in OpToRel(<, Nat))
  <2>. HIDE DEF T
  <2>. QED BY <1>1, NatLessThanWellFounded, WFMin, Zenon
<1>3. PICK i \in S : x = n - i OBVIOUS
<1>4. \A j \in S : ~(n - j < n - i)
  BY <1>1, <1>2, <1>3 DEF OpToRel
<1>5. i \in 1..n /\ \A j \in S : j \in 1..n OBVIOUS
<1>. HIDE DEF T
<1>. QED BY <1>4, <1>5

\* A read gives what is in memory, or one of the thread's own stores of that field.
LEMMA ReadGives ==
  ASSUME NEW t \in Thread, buffer[t] \in Seq(Store), NEW f
  PROVE  \/ Read(t, f) = write_data[f] /\ \A k \in 1..Len(buffer[t]) : buffer[t][k][1] # f
         \/ \E k \in 1..Len(buffer[t]) : buffer[t][k][1] = f /\ Read(t, f) = buffer[t][k][2]
<1>. DEFINE own == {i \in 1..Len(buffer[t]) : buffer[t][i][1] = f}
            last == CHOOSE i \in own : \A j \in own : j <= i
<1>1. Read(t, f) = IF own = {} THEN write_data[f] ELSE buffer[t][last][2]
  BY DEF Read
<1>2. CASE own = {} BY <1>1, <1>2
<1>3. CASE own # {}
  <2>1. \E i \in own : \A j \in own : j <= i
    <3>1. Len(buffer[t]) \in Nat /\ own \in SUBSET (1..Len(buffer[t])) OBVIOUS
    <3>. HIDE DEF own
    <3>. QED BY <1>3, <3>1, LargestBelow
  <2>2. last \in own BY <2>1
  <2>. QED BY <1>1, <1>3, <2>2
<1>. QED BY <1>2, <1>3

\* A field holds what it may hold, read through the buffer or not.
LEMMA ReadType ==
  ASSUME TypeOK, NEW t \in Thread
  PROVE  /\ Read(t, "data") \in {"empty", "offer", "answer"}
         /\ Read(t, "type") \in {"FS_REGISTER", "UPLOAD_REQUEST", "UPLOAD_READY"}
<1>1. buffer[t] \in Seq(Store) BY DEF TypeOK
<1>2. ASSUME NEW k \in 1..Len(buffer[t])
      PROVE  /\ buffer[t][k][1] = "data" => buffer[t][k][2] \in {"empty", "offer", "answer"}
             /\ buffer[t][k][1] = "type"
                  => buffer[t][k][2] \in {"FS_REGISTER", "UPLOAD_REQUEST", "UPLOAD_READY"}
  <2>1. buffer[t][k] \in Store BY <1>1
  <2>2. PICK g \in {"data", "target", "type", "writable"} :
          buffer[t][k] \in {g} \X {c[g] : c \in Content}
    BY <2>1 DEF Store
  <2>3. buffer[t][k][1] = g /\ \E c \in Content : buffer[t][k][2] = c[g] BY <2>2
  <2>4. CASE g = "data" BY <2>3, <2>4 DEF Content
  <2>5. CASE g = "type" BY <2>3, <2>5 DEF Content
  <2>. QED BY <2>2, <2>3, <2>4, <2>5
<1>3. write_data["data"] \in {"empty", "offer", "answer"} /\
      write_data["type"] \in {"FS_REGISTER", "UPLOAD_REQUEST", "UPLOAD_READY"}
  BY DEF TypeOK, Content
<1>4. Read(t, "data") \in {"empty", "offer", "answer"} BY <1>1, <1>2, <1>3, ReadGives
<1>5. Read(t, "type") \in {"FS_REGISTER", "UPLOAD_REQUEST", "UPLOAD_READY"}
  BY <1>1, <1>2, <1>3, ReadGives
<1>. QED BY <1>4, <1>5

\* Each step keeps the types.
LEMMA TypeStep == TypeOK /\ [Next]_vars => TypeOK'
<1>. SUFFICES ASSUME TypeOK, [Next]_vars PROVE TypeOK'
  OBVIOUS
<1>. USE DEF connVars, dataVars, peerVars
<1>1. Blank \in Content BY DEF Blank, Content
<1>2. [write_data EXCEPT !.writable = "idle"] \in Content BY RequestTaken DEF TypeOK
<1>3. CASE Main
  <2>1. CASE Connect
    <3>1. uploads' \in 0..MaxUploads BY <2>1, Bounds DEF TypeOK, Connect
    <3>2. app' \in {"queue", "crashed"} /\ conn' \in {"none", "connecting", "open", "closed"}
      BY <2>1 DEF TypeOK, Connect
    <3>3. write_data' \in Content BY <1>1, <2>1 DEF Connect
    <3>4. client_exit' \in BOOLEAN BY <2>1 DEF Connect
    <3>. QED BY <2>1, <3>1, <3>2, <3>3, <3>4 DEF TypeOK, Connect
  <2>2. CASE Fill
    <3>1. buffer' \in [Thread -> Seq(Store)]
      BY <2>2, StoresAreStores DEF TypeOK, Fill, Write, Thread
    <3>. QED BY <2>2, <3>1 DEF TypeOK, Fill
  <2>3. CASE AskWritable
    <3>1. buffer' = buffer \/ Write("main", << << "writable", "asked" >> >>)
      BY <2>3 DEF AskWritable
    <3>2. << << "writable", "asked" >> >> \in Seq(Store) BY StoresAreStores
    <3>3. buffer["main"] \o << << "writable", "asked" >> >> \in Seq(Store)
      BY <3>2 DEF TypeOK, Thread
    <3>4. buffer' \in [Thread -> Seq(Store)]
      BY <3>1, <3>3 DEF TypeOK, Write, Thread
    <3>. QED BY <2>3, <3>4 DEF TypeOK, AskWritable
  <2>4. CASE Again
    <3>1. buffer' \in [Thread -> Seq(Store)] BY <2>4 DEF Again
    <3>2. sent' \in 0..Packets BY <2>4, Bounds DEF Again
    <3>. QED BY <2>4, <3>1, <3>2 DEF TypeOK, Again
  <2>5. CASE QueueWork \/ CreateOffer \/ GetDataChannel \/ Describe \/ Wait \/ Parse
    BY <2>5 DEF TypeOK, QueueWork, CreateOffer, GetDataChannel, Describe, Wait, Parse
  <2>6. CASE SetRemoteDescription \/ Exit \/ Run
    BY <2>6 DEF TypeOK, SetRemoteDescription, Exit, Run
  <2>7. CASE FreeJson \/ Destroy
    BY <2>7 DEF TypeOK, FreeJson, Destroy
  <2>. QED BY <1>3, <2>1, <2>2, <2>3, <2>4, <2>5, <2>6, <2>7 DEF Main
<1>4. CASE Established \/ Closed \/ End(FALSE) \/ End(TRUE) \/ Answer
  BY <1>2, <1>4 DEF TypeOK, Established, Closed, End, Answer
<1>5. CASE Writeable
  <2>1. ASSUME request' = Read("worker", "data")
        PROVE  request' \in {"none", "empty", "offer", "answer"}
    BY <2>1, ReadType DEF Thread
  <2>. QED BY <1>2, <1>5, <2>1 DEF TypeOK, Writeable
<1>6. CASE Receive
  <2>1. buffer' \in [Thread -> Seq(Store)]
    BY <1>6, StoresAreStores DEF TypeOK, Receive, Write, Thread
  <2>. QED BY <1>6, <2>1 DEF TypeOK, Receive
<1>7. CASE Peer
  <2>1. CASE Send
    <3>1. sent' \in 0..Packets BY <2>1, Bounds DEF TypeOK, Send
    <3>. QED BY <2>1, <3>1 DEF TypeOK, Send
  <2>2. CASE ApplyOffer \/ OnOpen \/ OnOpenReturn
    BY <2>2 DEF TypeOK, ApplyOffer, OnOpen, OnOpenReturn
  <2>. QED BY <1>7, <2>1, <2>2 DEF Peer
<1>8. ASSUME NEW t \in Thread, Flush(t) PROVE TypeOK'
  <2>1. PICK i \in 1..Len(buffer[t]) :
          /\ write_data' = [write_data EXCEPT ![buffer[t][i][1]] = buffer[t][i][2]]
          /\ buffer' = [buffer EXCEPT ![t] = SubSeq(@, 1, i - 1) \o SubSeq(@, i + 1, Len(@))]
    BY <1>8 DEF Flush
  <2>2. buffer[t] \in Seq(Store) /\ buffer[t][i] \in Store BY DEF TypeOK
  <2>3. write_data' \in Content
    <3>1. buffer[t][i] = << buffer[t][i][1], buffer[t][i][2] >> BY <2>2 DEF Store
    <3>. QED BY <2>1, <2>2, <3>1, StoreFields DEF TypeOK
  <2>4. SubSeq(buffer[t], 1, i - 1) \in Seq(Store)
    BY <2>1, <2>2
  <2>5. SubSeq(buffer[t], i + 1, Len(buffer[t])) \in Seq(Store)
    BY <2>1, <2>2
  <2>6. buffer' \in [Thread -> Seq(Store)]
    BY <2>1, <2>4, <2>5 DEF TypeOK
  <2>. QED BY <1>8, <2>3, <2>6 DEF TypeOK, Flush
<1>9. CASE Spin \/ Done \/ UNCHANGED vars
  BY <1>9 DEF TypeOK, Spin, Done, vars
<1>. QED BY <1>3, <1>4, <1>5, <1>6, <1>7, <1>8, <1>9 DEF Next, Service, Memory

-----------------------------------------------------------------------------
(* The stack of sy_upload and the packets of on_open                       *)

\* sy_upload goes past uv_run only when the worker has ended, and past Destroy only when
\* on_open has; on_open ends with all packets handed over.
StackInv ==
  /\ app \in {"free", "destroy", "returned"} => worker = "done"
  /\ uploading => peer = "live" /\ app \in {"linger", "run", "free", "destroy", "crashed"}
  /\ ~uploading => sent \in {0, Packets}

\* There is neither a worker nor a peer to begin with.
LEMMA StackInit == Init => StackInv
BY DEF Init, StackInv

\* Each step keeps main behind the worker and on_open.
LEMMA StackStep == StackInv /\ [Next]_vars => StackInv'
<1>. SUFFICES ASSUME StackInv, [Next]_vars PROVE StackInv'
  OBVIOUS
<1>. USE DEF StackInv, connVars, dataVars, peerVars
<1>1. CASE Main
  <2>1. CASE Connect \/ QueueWork \/ CreateOffer \/ GetDataChannel \/ Describe
    BY <2>1 DEF Connect, QueueWork, CreateOffer, GetDataChannel, Describe
  <2>2. CASE Fill \/ AskWritable \/ Wait \/ Parse \/ SetRemoteDescription
    BY <2>2 DEF Fill, AskWritable, Wait, Parse, SetRemoteDescription
  <2>3. CASE Exit \/ Run \/ FreeJson \/ Destroy \/ Again
    BY <2>3 DEF Exit, Run, FreeJson, Destroy, Again
  <2>. QED BY <1>1, <2>1, <2>2, <2>3 DEF Main
<1>2. CASE Service \/ End(TRUE) \/ Closed \/ Answer
  BY <1>2 DEF Service, Established, Writeable, Receive, End, Closed, Answer, Serving
<1>3. CASE Peer
  <2>1. CASE ApplyOffer BY <2>1 DEF ApplyOffer
  <2>2. CASE OnOpen BY <2>2 DEF OnOpen, SignalFree
  <2>3. CASE Send BY <2>3 DEF Send
  <2>4. CASE OnOpenReturn BY <2>4 DEF OnOpenReturn
  <2>. QED BY <1>3, <2>1, <2>2, <2>3, <2>4 DEF Peer
<1>4. CASE Memory
  <2>1. UNCHANGED << app, worker, peer, uploading, sent >>
    BY <1>4, Zenon DEF Memory, Flush
  <2>. QED BY <2>1
<1>5. CASE Spin \/ Done \/ UNCHANGED vars
  BY <1>5 DEF Spin, Done, vars
<1>. QED BY <1>1, <1>2, <1>3, <1>4, <1>5 DEF Next

-----------------------------------------------------------------------------
(* The struct write_data, while stores keep their order                    *)

MainStores == {<< "data", "offer" >>, << "target", "wsi" >>, << "type", "UPLOAD_REQUEST" >>,
               << "writable", "asked" >>}
WorkerStores == {<< "data", "answer" >>, << "target", "NULL" >>, << "type", "UPLOAD_READY" >>}

Precedes(f, g) ==
  \/ f = "data" /\ g \in {"target", "type", "writable"}
  \/ f = "target" /\ g \in {"type", "writable"}
  \/ f = "type" /\ g = "writable"

\* A thread stores each field once, in the order of the code.
QueueInv ==
  /\ \A k \in 1..Len(buffer["main"]) : buffer["main"][k] \in MainStores
  /\ \A k \in 1..Len(buffer["worker"]) : buffer["worker"][k] \in WorkerStores
  /\ \A t \in Thread : \A j, k \in 1..Len(buffer[t]) :
       j < k => Precedes(buffer[t][j][1], buffer[t][k][1])

Early == app \in {"start", "queue", "offer", "channel", "describe", "fill"}

\* Before the struct is filled nobody has stored, asked or answered anything.
EarlyInv ==
  /\ Early => /\ buffer["main"] = << >> /\ buffer["worker"] = << >>
              /\ request = "none" /\ answer = "none"
  /\ Early /\ app # "start" => write_data = Blank
  /\ app = "start" => worker = "none"
  /\ app = "writable" => /\ write_data.writable = "idle" /\ ~Pending("main", "writable")
                         /\ request = "none"

\* Then, until the answer comes, the struct holds the offer as far as main's stores have
\* arrived, and the worker has sent it at most once, whole.
FilledInv ==
  ~Early /\ answer # "taken" =>
    /\ buffer["worker"] = << >>
    /\ answer # "none" => request = "offer"
    /\ IF Pending("main", "data") THEN Pending("main", "type") ELSE write_data.data = "offer"
    /\ IF Pending("main", "target") THEN Pending("main", "type")
                                    ELSE write_data.target = "wsi"
    /\ write_data.type = IF Pending("main", "type") THEN "FS_REGISTER" ELSE "UPLOAD_REQUEST"
    /\ write_data.writable = "asked" => buffer["main"] = << >> /\ request = "none"
    /\ request = "offer" => buffer["main"] = << >>

\* And from then on the answer, as far as the worker's stores have arrived.
AnsweredInv ==
  ~Early /\ answer = "taken" =>
    /\ request = "offer" /\ buffer["main"] = << >> /\ write_data.writable = "idle"
    /\ IF Pending("worker", "data") THEN Pending("worker", "type")
                                    ELSE write_data.data = "answer"
    /\ write_data.type = IF Pending("worker", "type") THEN "UPLOAD_REQUEST" ELSE "UPLOAD_READY"

SharedInv ==
  /\ request \in {"none", "offer"}
  /\ app \notin {"crashed", "returned"} =>
       /\ QueueInv /\ EarlyInv /\ FilledInv /\ AnsweredInv
       /\ app = "parse" => write_data.type = "UPLOAD_READY"

\* The store buffers are empty to begin with.
LEMMA SharedInit == Init => SharedInv
<1>. SUFFICES ASSUME Init PROVE SharedInv
  OBVIOUS
<1>1. buffer["main"] = << >> /\ buffer["worker"] = << >> BY DEF Init, Thread
<1>2. QueueInv BY <1>1 DEF QueueInv, Thread
<1>. QED BY <1>1, <1>2 DEF Init, SharedInv, EarlyInv, FilledInv, AnsweredInv, Early

\* When the oldest store leaves a buffer, the others move up.
LEMMA OldestGone ==
  ASSUME NEW S, NEW b \in Seq(S), Len(b) \in Nat \ {0}
  PROVE  LET tail == SubSeq(b, 2, Len(b))
         IN  /\ tail \in Seq(S) /\ Len(tail) = Len(b) - 1
             /\ \A k \in 1..(Len(b) - 1) : tail[k] = b[k + 1]
<1>1. \A k \in 2..Len(b) : b[k] \in S OBVIOUS
<1>2. 2 \in Int /\ Len(b) \in Int OBVIOUS
<1>3. SubSeq(b, 2, Len(b)) \in Seq(S) BY <1>1, <1>2, SubSeqProperties
<1>4. Len(SubSeq(b, 2, Len(b))) = IF 2 <= Len(b) THEN Len(b) - 2 + 1 ELSE 0
  BY <1>1, <1>2, SubSeqProperties
<1>5. \A k \in 1..(Len(b) - 2 + 1) : SubSeq(b, 2, Len(b))[k] = b[2 + k - 1]
  BY <1>1, <1>2, SubSeqProperties
<1>6. \A n \in Nat \ {0} : /\ (IF 2 <= n THEN n - 2 + 1 ELSE 0) = n - 1
                           /\ \A k \in 1..(n - 1) : k \in 1..(n - 2 + 1) /\ 2 + k - 1 = k + 1
  OBVIOUS
<1>. QED BY <1>3, <1>4, <1>5, <1>6

\* With stores in order it is the oldest one that arrives; the others move up.
LEMMA FlushOldest ==
  ASSUME ~Weak, TypeOK, NEW t \in Thread, Flush(t)
  PROVE  /\ Len(buffer[t]) \in Nat \ {0} /\ buffer[t][1] \in Store
         /\ write_data' = [write_data EXCEPT ![buffer[t][1][1]] = buffer[t][1][2]]
         /\ Len(buffer'[t]) = Len(buffer[t]) - 1
         /\ \A k \in 1..Len(buffer'[t]) : buffer'[t][k] = buffer[t][k + 1]
         /\ \A u \in Thread \ {t} : buffer'[u] = buffer[u]
         /\ UNCHANGED << app, uploads, client_exit, worker, connVars, peerVars >>
<1>1. PICK i \in 1..Len(buffer[t]) :
        /\ i = 1
        /\ write_data' = [write_data EXCEPT ![buffer[t][i][1]] = buffer[t][i][2]]
        /\ buffer' = [buffer EXCEPT ![t] = SubSeq(@, 1, i - 1) \o SubSeq(@, i + 1, Len(@))]
        /\ UNCHANGED << app, uploads, client_exit, worker, connVars, peerVars >>
  BY DEF Flush
<1>2. buffer[t] \in Seq(Store) /\ buffer \in [Thread -> Seq(Store)] BY DEF TypeOK
<1>3. Len(buffer[t]) \in Nat \ {0} /\ buffer[t][1] \in Store BY <1>1, <1>2
<1>4. buffer'[t] = SubSeq(buffer[t], 1, 0) \o SubSeq(buffer[t], 2, Len(buffer[t]))
  BY <1>1, <1>2
<1>. DEFINE b == buffer[t]
            head == SubSeq(b, 1, 0)
            tail == SubSeq(b, 2, Len(b))
<1>5. head \in Seq(Store) /\ Len(head) = 0 BY <1>2, <1>3
<1>6. tail \in Seq(Store) /\ Len(tail) = Len(b) - 1 /\
      \A k \in 1..(Len(b) - 1) : tail[k] = b[k + 1]
  BY <1>2, <1>3, OldestGone
<1>7. Len(buffer'[t]) = Len(buffer[t]) - 1 /\
      \A k \in 1..(Len(b) - 1) : buffer'[t][k] = b[k + 1]
  <2>. HIDE DEF head, tail
  <2>1. buffer'[t] = head \o tail BY <1>4 DEF head, tail
  <2>. QED BY <1>3, <1>5, <1>6, <2>1
<1>. QED BY <1>1, <1>2, <1>3, <1>7

\* Of the fields that wait, only the one that arrives stops waiting.
LEMMA FlushPending ==
  ASSUME ~Weak, TypeOK, QueueInv, NEW t \in Thread, Flush(t)
  PROVE  /\ \A f : Pending(t, f)' <=> Pending(t, f) /\ f # buffer[t][1][1]
         /\ \A u \in Thread \ {t} : \A f : Pending(u, f)' <=> Pending(u, f)
         /\ QueueInv'
<1>. DEFINE n == Len(buffer[t])
<1>1. /\ n \in Nat \ {0} /\ Len(buffer'[t]) = n - 1
      /\ \A k \in 1..(n - 1) : buffer'[t][k] = buffer[t][k + 1]
      /\ \A u \in Thread \ {t} : buffer'[u] = buffer[u]
  BY FlushOldest
<1>2. \A k \in 2..n : Precedes(buffer[t][1][1], buffer[t][k][1])
  BY <1>1 DEF QueueInv
<1>3. \A k \in 2..n : buffer[t][k][1] # buffer[t][1][1]
  BY <1>2 DEF Precedes
<1>4. ASSUME NEW f PROVE Pending(t, f)' <=> Pending(t, f) /\ f # buffer[t][1][1]
  <2>1. ASSUME Pending(t, f)' PROVE Pending(t, f) /\ f # buffer[t][1][1]
    <3>1. PICK k \in 1..(n - 1) : buffer'[t][k][1] = f BY <1>1, <2>1 DEF Pending
    <3>2. k + 1 \in 2..n /\ buffer[t][k + 1][1] = f BY <1>1, <3>1
    <3>. QED BY <1>1, <1>3, <3>2 DEF Pending
  <2>2. ASSUME Pending(t, f), f # buffer[t][1][1] PROVE Pending(t, f)'
    <3>1. PICK k \in 1..n : buffer[t][k][1] = f BY <2>2 DEF Pending
    <3>2. k - 1 \in 1..(n - 1) /\ buffer'[t][k - 1][1] = f BY <1>1, <2>2, <3>1
    <3>. QED BY <1>1, <3>2 DEF Pending
  <2>. QED BY <2>1, <2>2
<1>5. \A u \in Thread \ {t} : \A f : Pending(u, f)' <=> Pending(u, f)
  BY <1>1 DEF Pending
<1>6. QueueInv'
  <2>1. \A j, k \in 1..(n - 1) :
          j < k => Precedes(buffer'[t][j][1], buffer'[t][k][1])
    <3>. SUFFICES ASSUME NEW j \in 1..(n - 1), NEW k \in 1..(n - 1), j < k
                  PROVE  Precedes(buffer[t][j + 1][1], buffer[t][k + 1][1])
      BY <1>1
    <3>1. j + 1 \in 1..n /\ k + 1 \in 1..n /\ j + 1 < k + 1 BY <1>1
    <3>. QED BY <3>1 DEF QueueInv
  <2>2. \A k \in 1..(n - 1) : buffer'[t][k] = buffer[t][k + 1] /\ k + 1 \in 1..n BY <1>1
  <2>3. CASE t = "main"
    <3>1. buffer'["worker"] = buffer["worker"] BY <1>1, <2>3 DEF Thread
    <3>. QED BY <1>1, <2>1, <2>2, <2>3, <3>1 DEF QueueInv, Thread
  <2>4. CASE t = "worker"
    <3>1. buffer'["main"] = buffer["main"] BY <1>1, <2>4 DEF Thread
    <3>. QED BY <1>1, <2>1, <2>2, <2>4, <3>1 DEF QueueInv, Thread
  <2>. QED BY <2>3, <2>4 DEF Thread
<1>. QED BY <1>4, <1>5, <1>6

\* A store of main's arrives.
LEMMA FlushMain ==
  ASSUME ~Weak, TypeOK, SharedInv, Flush("main")
  PROVE  SharedInv'
<1>. DEFINE f == buffer["main"][1][1]
<1>1. UNCHANGED << app, worker, request, answer >> BY FlushOldest DEF Thread, connVars
<1>. SUFFICES ASSUME app \notin {"crashed", "returned"} PROVE SharedInv'
  BY <1>1 DEF SharedInv
<1>. USE DEF SharedInv
<1>2. /\ buffer["main"] # << >> /\ buffer["main"][1] \in MainStores
      /\ write_data' = [write_data EXCEPT ![f] = buffer["main"][1][2]]
      /\ buffer'["worker"] = buffer["worker"]
  BY FlushOldest DEF QueueInv, Thread
<1>3. /\ \A g : Pending("main", g)' <=> Pending("main", g) /\ g # f
      /\ \A g : Pending("worker", g)' <=> Pending("worker", g)
      /\ QueueInv'
  BY FlushPending DEF Thread
<1>4. Pending("main", f) BY FlushOldest DEF Pending, Thread
<1>5. ~Early /\ answer # "taken" BY <1>2 DEF EarlyInv, AnsweredInv
<1>6. request = "none" /\ write_data.writable = "idle" /\ answer = "none"
  <2>1. write_data["writable"] \in {"idle", "asked"} BY DEF TypeOK, Content
  <2>. QED BY <1>2, <1>5, <2>1 DEF FilledInv, TypeOK
<1>7. \A k \in 1..Len(buffer["main"]) : k = 1 \/ Precedes(f, buffer["main"][k][1])
  BY FlushOldest DEF QueueInv, Thread
<1>8. \A g : Pending("main", g) => g = f \/ Precedes(f, g) BY <1>7 DEF Pending
<1>9. CASE f = "data"
  <2>1. write_data'.data = "offer" /\ write_data'.target = write_data.target /\
        write_data'.type = write_data.type /\ write_data'.writable = "idle"
    BY <1>2, <1>6, <1>9 DEF MainStores, TypeOK, Content
  <2>. QED BY <1>1, <1>2, <1>3, <1>4, <1>5, <1>6, <1>8, <1>9, <2>1
           DEF EarlyInv, FilledInv, AnsweredInv, Early
<1>10. CASE f = "target"
  <2>1. write_data'.data = write_data.data /\ write_data'.target = "wsi" /\
        write_data'.type = write_data.type /\ write_data'.writable = "idle"
    BY <1>2, <1>6, <1>10 DEF MainStores, TypeOK, Content
  <2>. QED BY <1>1, <1>2, <1>3, <1>4, <1>5, <1>6, <1>8, <1>10, <2>1
           DEF EarlyInv, FilledInv, AnsweredInv, Early
<1>11. CASE f = "type"
  <2>1. write_data'.data = write_data.data /\ write_data'.target = write_data.target /\
        write_data'.type = "UPLOAD_REQUEST" /\ write_data'.writable = "idle"
    BY <1>2, <1>6, <1>11 DEF MainStores, TypeOK, Content
  <2>2. ~Pending("main", "data") /\ ~Pending("main", "target")
    BY <1>8, <1>11 DEF Precedes
  <2>. QED BY <1>1, <1>2, <1>3, <1>4, <1>5, <1>6, <1>11, <2>1, <2>2
           DEF EarlyInv, FilledInv, AnsweredInv, Early
<1>12. CASE f = "writable"
  <2>1. write_data'.data = write_data.data /\ write_data'.target = write_data.target /\
        write_data'.type = write_data.type /\ write_data'.writable = "asked"
    BY <1>2, <1>12 DEF MainStores, TypeOK, Content
  <2>2. \A g : ~Pending("main", g) \/ g = "writable" BY <1>8, <1>12 DEF Precedes
  <2>3. buffer'["main"] = << >>
    <3>1. \A g : ~Pending("main", g)' BY <1>3, <1>12, <2>2
    <3>2. Len(buffer'["main"]) \in Nat BY FlushOldest DEF Thread
    <3>3. Len(buffer'["main"]) = 0
      <4>1. ASSUME Len(buffer'["main"]) # 0 PROVE FALSE
        <5>1. 1 \in 1..Len(buffer'["main"]) BY <3>2, <4>1
        <5>. QED BY <3>1, <5>1 DEF Pending
      <4>. QED BY <4>1
    <3>4. buffer'["main"] \in Seq(Store) BY TypeStep DEF TypeOK, Thread, Next, Memory
    <3>. QED BY <3>3, <3>4
  <2>4. app # "writable" BY <1>4, <1>12 DEF EarlyInv
  <2>. QED BY <1>1, <1>2, <1>3, <1>4, <1>5, <1>6, <1>12, <2>1, <2>2, <2>3, <2>4
           DEF EarlyInv, FilledInv, AnsweredInv, Early
<1>. QED BY <1>2, <1>9, <1>10, <1>11, <1>12 DEF MainStores

\* A store of the worker's arrives.
LEMMA FlushWorker ==
  ASSUME ~Weak, TypeOK, SharedInv, Flush("worker")
  PROVE  SharedInv'
<1>. DEFINE f == buffer["worker"][1][1]
<1>1. UNCHANGED << app, worker, request, answer >> BY FlushOldest DEF Thread, connVars
<1>. SUFFICES ASSUME app \notin {"crashed", "returned"} PROVE SharedInv'
  BY <1>1 DEF SharedInv
<1>. USE DEF SharedInv
<1>2. /\ buffer["worker"] # << >> /\ buffer["worker"][1] \in WorkerStores
      /\ write_data' = [write_data EXCEPT ![f] = buffer["worker"][1][2]]
      /\ buffer'["main"] = buffer["main"]
  BY FlushOldest DEF QueueInv, Thread
<1>3. /\ \A g : Pending("worker", g)' <=> Pending("worker", g) /\ g # f
      /\ \A g : Pending("main", g)' <=> Pending("main", g)
      /\ QueueInv'
  BY FlushPending DEF Thread
<1>4. Pending("worker", f) BY FlushOldest DEF Pending, Thread
<1>5. ~Early /\ answer = "taken" BY <1>2 DEF EarlyInv, FilledInv
<1>6. app # "writable" /\ request = "offer" /\ buffer["main"] = << >> /\
      write_data.writable = "idle"
  BY <1>5 DEF EarlyInv, AnsweredInv
<1>7. \A k \in 1..Len(buffer["worker"]) : k = 1 \/ Precedes(f, buffer["worker"][k][1])
  BY FlushOldest DEF QueueInv, Thread
<1>8. \A g : Pending("worker", g) => g = f \/ Precedes(f, g) BY <1>7 DEF Pending
<1>9. CASE f = "data"
  <2>1. write_data'.data = "answer" /\ write_data'.type = write_data.type /\
        write_data'.writable = "idle"
    BY <1>2, <1>6, <1>9 DEF WorkerStores, TypeOK, Content
  <2>. QED BY <1>1, <1>2, <1>3, <1>4, <1>5, <1>6, <1>8, <1>9, <2>1
           DEF EarlyInv, FilledInv, AnsweredInv, Early
<1>10. CASE f = "target"
  <2>1. write_data'.data = write_data.data /\ write_data'.type = write_data.type /\
        write_data'.writable = "idle"
    BY <1>2, <1>6, <1>10 DEF WorkerStores, TypeOK, Content
  <2>. QED BY <1>1, <1>2, <1>3, <1>4, <1>5, <1>6, <1>8, <1>10, <2>1
           DEF EarlyInv, FilledInv, AnsweredInv, Early
<1>11. CASE f = "type"
  <2>1. write_data'.data = write_data.data /\ write_data'.type = "UPLOAD_READY" /\
        write_data'.writable = "idle"
    BY <1>2, <1>6, <1>11 DEF WorkerStores, TypeOK, Content
  <2>2. ~Pending("worker", "data") BY <1>8, <1>11 DEF Precedes
  <2>. QED BY <1>1, <1>2, <1>3, <1>4, <1>5, <1>6, <1>11, <2>1, <2>2
           DEF EarlyInv, FilledInv, AnsweredInv, Early
<1>. QED BY <1>2, <1>9, <1>10, <1>11 DEF WorkerStores

\* sy_upload fills the struct and asks for the connection to be written to.
LEMMA FillStep ==
  ASSUME TypeOK, SharedInv, Fill
  PROVE  SharedInv'
<1>. DEFINE new == << << "data", "offer" >>, << "target", "wsi" >>,
                      << "type", "UPLOAD_REQUEST" >> >>
<1>1. /\ app = "fill" /\ app' = "writable" /\ UNCHANGED << worker, request, answer, write_data >>
      /\ buffer' = [buffer EXCEPT !["main"] = @ \o new]
  BY DEF Fill, Write, connVars
<1>2. /\ buffer["main"] = << >> /\ buffer["worker"] = << >>
      /\ request = "none" /\ answer = "none" /\ write_data = Blank
  BY <1>1 DEF SharedInv, EarlyInv, Early
<1>3. buffer'["worker"] = << >> BY <1>1, <1>2 DEF TypeOK, Thread
<1>4. buffer'["main"] = new
  <2>1. new \in Seq(Store) BY StoresAreStores
  <2>2. buffer'["main"] = << >> \o new BY <1>1, <1>2 DEF TypeOK, Thread
  <2>. HIDE DEF new
  <2>. QED BY <2>1, <2>2, ConcatEmptySeq
<1>5. /\ Len(buffer'["main"]) = 3
      /\ buffer'["main"][1] = << "data", "offer" >> /\ buffer'["main"][2] = << "target", "wsi" >>
      /\ buffer'["main"][3] = << "type", "UPLOAD_REQUEST" >>
  BY <1>4
<1>6. \A k : k \in 1..Len(buffer'["main"]) <=> k \in {1, 2, 3} BY <1>5
<1>7. Pending("main", "data")' /\ Pending("main", "target")' /\ Pending("main", "type")' /\
      ~Pending("main", "writable")'
  BY <1>5, <1>6 DEF Pending
<1>8. QueueInv'
  <2>1. \A k \in 1..Len(buffer'["main"]) : buffer'["main"][k] \in MainStores
    BY <1>5, <1>6 DEF MainStores
  <2>2. \A k \in {1, 2, 3} : \A j \in {1, 2, 3} :
          j < k => Precedes(buffer'["main"][j][1], buffer'["main"][k][1])
    BY <1>5 DEF Precedes
  <2>3. \A k : ~(k \in 1..Len(buffer'["worker"])) BY <1>3
  <2>. QED BY <1>6, <2>1, <2>2, <2>3 DEF QueueInv, Thread
<1>9. write_data'.type = "FS_REGISTER" /\ write_data'.writable = "idle" BY <1>1, <1>2 DEF Blank
<1>. QED BY <1>1, <1>2, <1>3, <1>7, <1>8, <1>9
         DEF SharedInv, EarlyInv, FilledInv, AnsweredInv, Early

\* Main's last store, by which the worker is asked to send.
LEMMA AskWritableStep ==
  ASSUME TypeOK, SharedInv, AskWritable
  PROVE  SharedInv'
<1>. DEFINE b == buffer["main"]
            new == << << "writable", "asked" >> >>
<1>1. app = "writable" /\ UNCHANGED << worker, request, answer, write_data >>
  BY DEF AskWritable, connVars
<1>2. CASE app' = "crashed" BY <1>1, <1>2 DEF SharedInv
<1>3. CASE buffer' = buffer /\ app' = "wait"
  BY <1>1, <1>3 DEF SharedInv, QueueInv, EarlyInv, FilledInv, AnsweredInv, Early, Pending
<1>4. CASE buffer' = [buffer EXCEPT !["main"] = @ \o new] /\ app' = "wait"
  <2>1. /\ buffer'["worker"] = buffer["worker"] /\ buffer'["main"] = b \o new
        /\ b \in Seq(Store) /\ new \in Seq(Store)
    BY <1>4, StoresAreStores DEF TypeOK, Thread
  <2>2. /\ Len(buffer'["main"]) = Len(b) + 1 /\ Len(b) \in Nat
        /\ \A k \in 1..Len(b) : buffer'["main"][k] = b[k]
        /\ buffer'["main"][Len(b) + 1] = << "writable", "asked" >>
    <3>1. << "writable", "asked" >> \in Store BY StoresAreStores
    <3>2. buffer'["main"] = Append(b, << "writable", "asked" >>)
      BY <2>1, <3>1, AppendIsConcat
    <3>. QED BY <2>1, <3>1, <3>2, AppendProperties
  <2>3. \A k : k \in 1..Len(buffer'["main"]) <=> k \in 1..Len(b) \/ k = Len(b) + 1 BY <2>2
  <2>4. /\ \A g : Pending("main", g)' <=> Pending("main", g) \/ g = "writable"
        /\ \A g : Pending("worker", g)' <=> Pending("worker", g)
    <3>. HIDE DEF new
    <3>1. ASSUME NEW g PROVE Pending("main", g)' <=> Pending("main", g) \/ g = "writable"
      <4>1. << "writable", "asked" >>[1] = "writable" OBVIOUS
      <4>2. Len(b) + 1 \in 1..Len(buffer'["main"]) BY <2>3
      <4>. QED BY <2>2, <2>3, <4>1, <4>2 DEF Pending
    <3>. QED BY <2>1, <3>1 DEF Pending
  <2>5. QueueInv /\ ~Pending("main", "writable") /\ request = "none" /\
        write_data.writable = "idle" /\ answer = "none" /\ ~Early
    BY <1>1 DEF SharedInv, EarlyInv, FilledInv, AnsweredInv, Early, TypeOK
  <2>6. QueueInv'
    <3>1. \A k \in 1..Len(b) : b[k][1] # "writable" BY <2>5 DEF Pending
    <3>2. \A k \in 1..Len(b) : Precedes(b[k][1], "writable")
      BY <2>5, <3>1 DEF QueueInv, MainStores, Precedes
    <3>3. \A k \in 1..Len(buffer'["main"]) : buffer'["main"][k] \in MainStores
      BY <2>2, <2>3, <2>5 DEF QueueInv, MainStores
    <3>4. ASSUME NEW j \in 1..Len(buffer'["main"]), NEW k \in 1..Len(buffer'["main"]), j < k
          PROVE  Precedes(buffer'["main"][j][1], buffer'["main"][k][1])
      <4>1. j \in 1..Len(b) BY <2>2, <3>4
      <4>2. CASE k \in 1..Len(b)
        BY <2>2, <2>5, <3>4, <4>1, <4>2 DEF QueueInv, Thread
      <4>3. CASE k = Len(b) + 1
        BY <2>2, <3>2, <4>1, <4>3
      <4>. QED BY <2>3, <4>2, <4>3
    <3>. QED BY <2>1, <2>5, <3>3, <3>4 DEF QueueInv, Thread
  <2>. QED BY <1>1, <1>4, <2>1, <2>4, <2>5, <2>6
           DEF SharedInv, EarlyInv, FilledInv, AnsweredInv, Early
<1>5. app' = "crashed" \/ (app' = "wait" /\ (buffer' = buffer \/
                            buffer' = [buffer EXCEPT !["main"] = @ \o new]))
  BY DEF AskWritable, Write
<1>. QED BY <1>2, <1>3, <1>4, <1>5

\* What the worker sends when it is asked: by then all of the struct is there.
LEMMA WriteableStep ==
  ASSUME TypeOK, StackInv, SharedInv, Writeable
  PROVE  SharedInv'
<1>1. /\ app # "crashed" /\ worker = "service" /\ write_data.writable = "asked"
      /\ write_data' = [write_data EXCEPT !.writable = "idle"]
      /\ UNCHANGED << worker, answer, buffer >>
  BY DEF Writeable, Serving
<1>2. CASE app = "returned"
  BY <1>1, <1>2 DEF StackInv
<1>3. CASE app # "returned"
  <2>1. QueueInv /\ EarlyInv /\ FilledInv /\ AnsweredInv BY <1>1, <1>3 DEF SharedInv
  <2>2. ~Early
    <3>1. write_data # Blank BY <1>1 DEF Blank
    <3>. QED BY <1>1, <2>1, <3>1 DEF EarlyInv
  <2>3. answer # "taken" BY <1>1, <2>1, <2>2 DEF AnsweredInv
  <2>4. /\ buffer["main"] = << >> /\ buffer["worker"] = << >> /\ request = "none"
        /\ answer = "none"
    BY <1>1, <2>1, <2>2, <2>3 DEF FilledInv, TypeOK
  <2>5. \A g : ~Pending("main", g) BY <2>4 DEF Pending
  <2>6. write_data.data = "offer" /\ write_data.target = "wsi" /\
        write_data.type = "UPLOAD_REQUEST"
    BY <2>1, <2>2, <2>3, <2>5 DEF FilledInv
  <2>7. \A g : Read("worker", g) = write_data[g]
    <3>1. buffer["worker"] \in Seq(Store) BY DEF TypeOK, Thread
    <3>2. \A k : ~(k \in 1..Len(buffer["worker"])) BY <2>4
    <3>. QED BY <3>1, <3>2, ReadGives DEF Thread
  <2>8. request' = "offer" /\ app' = app BY <2>6, <2>7 DEF Writeable
  <2>9. /\ write_data'.data = "offer" /\ write_data'.target = "wsi"
        /\ write_data'.type = "UPLOAD_REQUEST" /\ write_data'.writable = "idle"
    BY <1>1, <2>6 DEF TypeOK, Content
  <2>10. QueueInv' /\ \A g : ~Pending("main", g)' BY <1>1, <2>1, <2>5 DEF QueueInv, Pending
  <2>11. app # "writable" /\ app # "parse"
    BY <1>1, <1>3, <2>1, <2>6 DEF EarlyInv, SharedInv
  <2>. QED BY <1>1, <2>2, <2>3, <2>4, <2>8, <2>9, <2>10, <2>11
           DEF SharedInv, EarlyInv, FilledInv, AnsweredInv, Early
<1>. QED BY <1>2, <1>3

\* The worker takes the answer to what it has sent.
LEMMA ReceiveStep ==
  ASSUME TypeOK, SharedInv, Receive
  PROVE  SharedInv'
<1>. DEFINE new == << << "data", "answer" >>, << "target", "NULL" >>,
                      << "type", "UPLOAD_READY" >> >>
<1>1. /\ app # "crashed" /\ answer = "coming" /\ answer' = "taken"
      /\ UNCHANGED << app, worker, request, write_data >>
      /\ buffer' = [buffer EXCEPT !["worker"] = @ \o new]
  BY DEF Receive, Write, Serving
<1>. SUFFICES ASSUME app # "returned" PROVE SharedInv'
  BY <1>1 DEF SharedInv
<1>2. QueueInv /\ EarlyInv /\ FilledInv /\ AnsweredInv BY <1>1 DEF SharedInv
<1>3. ~Early /\ app # "writable" BY <1>1, <1>2 DEF EarlyInv, FilledInv, Early
<1>4. /\ buffer["worker"] = << >> /\ request = "offer" /\ buffer["main"] = << >>
      /\ write_data.writable = "idle"
  <2>1. write_data["writable"] \in {"idle", "asked"} BY DEF TypeOK, Content
  <2>. QED BY <1>1, <1>2, <1>3, <2>1 DEF FilledInv
<1>5. \A g : ~Pending("main", g) BY <1>4 DEF Pending
<1>6. write_data.type = "UPLOAD_REQUEST" BY <1>1, <1>2, <1>3, <1>5 DEF FilledInv
<1>7. buffer'["main"] = << >> BY <1>1, <1>4 DEF TypeOK, Thread
<1>8. buffer'["worker"] = new
  <2>1. new \in Seq(Store) BY StoresAreStores
  <2>2. buffer'["worker"] = << >> \o new BY <1>1, <1>4 DEF TypeOK, Thread
  <2>. HIDE DEF new
  <2>. QED BY <2>1, <2>2, ConcatEmptySeq
<1>9. /\ Len(buffer'["worker"]) = 3
      /\ buffer'["worker"][1] = << "data", "answer" >>
      /\ buffer'["worker"][2] = << "target", "NULL" >>
      /\ buffer'["worker"][3] = << "type", "UPLOAD_READY" >>
  BY <1>8
<1>10. \A k : k \in 1..Len(buffer'["worker"]) <=> k \in {1, 2, 3} BY <1>9
<1>11. Pending("worker", "data")' /\ Pending("worker", "type")' BY <1>9, <1>10 DEF Pending
<1>12. QueueInv'
  <2>1. \A k \in 1..Len(buffer'["worker"]) : buffer'["worker"][k] \in WorkerStores
    BY <1>9, <1>10 DEF WorkerStores
  <2>2. \A k \in {1, 2, 3} : \A j \in {1, 2, 3} :
          j < k => Precedes(buffer'["worker"][j][1], buffer'["worker"][k][1])
    BY <1>9 DEF Precedes
  <2>3. \A k : ~(k \in 1..Len(buffer'["main"])) BY <1>7
  <2>. QED BY <1>10, <2>1, <2>2, <2>3 DEF QueueInv, Thread
<1>13. app # "parse" BY <1>1, <1>6 DEF SharedInv
<1>. QED BY <1>1, <1>3, <1>4, <1>6, <1>7, <1>11, <1>12, <1>13
         DEF SharedInv, EarlyInv, FilledInv, AnsweredInv, Early

\* Each step keeps the shared struct as full as its type says, when stores arrive in order.
LEMMA SharedStep ==
  ~Weak /\ TypeOK /\ StackInv /\ SharedInv /\ [Next]_vars => SharedInv'
<1>. SUFFICES ASSUME ~Weak, TypeOK, StackInv, SharedInv, [Next]_vars PROVE SharedInv'
  OBVIOUS
<1>1. CASE Main
  <2>1. CASE Connect
    <3>1. app = "start" /\ app' \in {"queue", "crashed"} /\ write_data' = Blank /\
          UNCHANGED << worker, request, answer, buffer >>
      BY <2>1 DEF Connect
    <3>. QED BY <3>1 DEF SharedInv, QueueInv, EarlyInv, FilledInv, AnsweredInv, Early
  <2>2. CASE QueueWork \/ CreateOffer \/ GetDataChannel
    <3>1. app \in {"queue", "offer", "channel"} /\ app' \in {"offer", "channel", "describe"} /\
          UNCHANGED << request, answer, buffer, write_data >>
      BY <2>2 DEF QueueWork, CreateOffer, GetDataChannel, connVars, dataVars
    <3>. QED BY <3>1 DEF SharedInv, QueueInv, EarlyInv, FilledInv, AnsweredInv, Early
  <2>3. CASE Describe
    <3>1. app = "describe" /\ app' \in {"fill", "crashed"} /\
          UNCHANGED << request, answer, buffer, write_data >>
      BY <2>3 DEF Describe, connVars, dataVars
    <3>. QED BY <3>1 DEF SharedInv, QueueInv, EarlyInv, FilledInv, AnsweredInv, Early
  <2>4. CASE Fill BY <2>4, FillStep
  <2>5. CASE AskWritable BY <2>5, AskWritableStep
  <2>6. CASE Wait
    <3>1. app = "wait" /\ app' = "parse" /\ Read("main", "type") = "UPLOAD_READY" /\
          UNCHANGED << worker, request, answer, buffer, write_data >>
      BY <2>6 DEF Wait, connVars, dataVars
    <3>2. write_data.type = "UPLOAD_READY"
      <4>1. buffer["main"] \in Seq(Store) BY DEF TypeOK, Thread
      <4>2. \A k \in 1..Len(buffer["main"]) :
              buffer["main"][k][1] = "type" => buffer["main"][k][2] = "UPLOAD_REQUEST"
        BY <3>1 DEF SharedInv, QueueInv, MainStores
      <4>3. Read("main", "type") = write_data["type"]
        BY <3>1, <4>1, <4>2, ReadGives DEF Thread
      <4>. QED BY <3>1, <4>3
    <3>. QED BY <3>1, <3>2
             DEF SharedInv, QueueInv, EarlyInv, FilledInv, AnsweredInv, Early, Pending
  <2>7. CASE Parse \/ SetRemoteDescription \/ Exit \/ Run \/ FreeJson
    <3>1. app \in {"parse", "remote", "linger", "run", "free"} /\
          app' \in {"remote", "linger", "run", "free", "destroy", "crashed"} /\
          UNCHANGED << worker, request, answer, buffer, write_data >>
      BY <2>7 DEF Parse, SetRemoteDescription, Exit, Run, FreeJson, connVars, dataVars
    <3>. QED BY <3>1
             DEF SharedInv, QueueInv, EarlyInv, FilledInv, AnsweredInv, Early, Pending
  <2>8. CASE Destroy BY <2>8 DEF Destroy, SharedInv, connVars
  <2>9. CASE Again
    <3>1. app' = "start" /\ worker' = "none" /\ request' = "none" /\ answer' = "none" /\
          buffer' = [t \in Thread |-> << >>]
      BY <2>9 DEF Again
    <3>2. buffer'["main"] = << >> /\ buffer'["worker"] = << >> BY <3>1 DEF Thread
    <3>3. QueueInv' BY <3>2 DEF QueueInv, Thread
    <3>. QED BY <3>1, <3>2, <3>3 DEF SharedInv, EarlyInv, FilledInv, AnsweredInv, Early
  <2>. QED BY <1>1, <2>1, <2>2, <2>3, <2>4, <2>5, <2>6, <2>7, <2>8, <2>9 DEF Main
<1>2. CASE Established
  <2>1. app # "crashed" /\ worker = "service" /\
        UNCHANGED << app, worker, request, answer, buffer >> /\
        write_data' \in {write_data, [write_data EXCEPT !.writable = "idle"]}
    BY <1>2 DEF Established, Serving
  <2>2. /\ write_data'.data = write_data.data /\ write_data'.target = write_data.target
        /\ write_data'.type = write_data.type
        /\ write_data'.writable \in {write_data.writable, "idle"}
    BY <2>1 DEF TypeOK, Content
  <2>3. write_data = Blank => write_data' = Blank
    BY <2>1 DEF Blank
  <2>. QED BY <2>1, <2>2, <2>3
           DEF SharedInv, QueueInv, EarlyInv, FilledInv, AnsweredInv, Early, Pending
<1>3. CASE Writeable BY <1>3, WriteableStep
<1>4. CASE Receive BY <1>4, ReceiveStep
<1>5. CASE End(FALSE) \/ End(TRUE) \/ Closed
  <2>1. UNCHANGED << app, request, answer, buffer, write_data >> /\
        (worker = "service" \/ UNCHANGED worker)
    BY <1>5 DEF End, Closed, Serving, dataVars
  <2>. QED BY <2>1
           DEF SharedInv, QueueInv, EarlyInv, FilledInv, AnsweredInv, Early, Pending
<1>6. CASE Answer
  <2>1. request = "offer" /\ answer = "none" /\ answer' = "coming" /\
        UNCHANGED << app, worker, request, buffer, write_data >>
    BY <1>6 DEF Answer, dataVars
  <2>. QED BY <2>1
           DEF SharedInv, QueueInv, EarlyInv, FilledInv, AnsweredInv, Early, Pending
<1>7. CASE Peer \/ Spin \/ Done \/ UNCHANGED vars
  <2>1. UNCHANGED << app, worker, request, answer, buffer, write_data >>
    BY <1>7 DEF Peer, ApplyOffer, OnOpen, Send, OnOpenReturn, Spin, Done, vars, connVars, dataVars
  <2>. QED BY <2>1
           DEF SharedInv, QueueInv, EarlyInv, FilledInv, AnsweredInv, Early, Pending
<1>8. CASE Memory BY <1>8, FlushMain, FlushWorker DEF Memory, Thread
<1>. QED BY <1>1, <1>2, <1>3, <1>4, <1>5, <1>6, <1>7, <1>8 DEF Next, Service

-----------------------------------------------------------------------------
(* The struct write_data, in whatever order stores arrive                  *)

\* A thread stores each field once, and what it stores is what the code says.
OnceInv ==
  /\ \A k \in 1..Len(buffer["main"]) : buffer["main"][k] \in MainStores
  /\ \A k \in 1..Len(buffer["worker"]) : buffer["worker"][k] \in WorkerStores
  /\ \A t \in Thread : \A j, k \in 1..Len(buffer[t]) : j < k => buffer[t][j][1] # buffer[t][k][1]

\* What of main's is in memory is not on its way there.
ArrivedInv ==
  \A s \in MainStores : write_data[s[1]] = s[2] => ~Pending("main", s[1])

\* Before the struct is filled nobody has stored, asked or answered anything.
BeforeInv ==
  /\ Early => buffer["main"] = << >> /\ request = "none" /\ answer = "none"
  /\ Early /\ app # "start" => write_data = Blank
  /\ app = "start" => worker = "none"
  /\ app = "writable" => /\ write_data.writable = "idle" /\ ~Pending("main", "writable")
                         /\ request = "none"

\* When the whole offer is sent all of main's stores have arrived, and only then is there an
\* answer, whose type arrives in its turn.
SentInv ==
  /\ request = "offer" => buffer["main"] = << >> /\ write_data.writable = "idle"
  /\ answer # "none" => request = "offer"
  /\ answer # "taken" => buffer["worker"] = << >>
  /\ answer = "taken" => Pending("worker", "type") \/ write_data.type = "UPLOAD_READY"

EitherInv == OnceInv /\ ArrivedInv /\ BeforeInv /\ SentInv

\* The store buffers are empty to begin with, and the struct is blank.
LEMMA EitherInit == Init => EitherInv
<1>. SUFFICES ASSUME Init PROVE EitherInv
  OBVIOUS
<1>1. buffer["main"] = << >> /\ buffer["worker"] = << >> BY DEF Init, Thread
<1>2. OnceInv /\ \A f : ~Pending("main", f) BY <1>1 DEF OnceInv, Pending, Thread
<1>. QED BY <1>1, <1>2 DEF Init, EitherInv, ArrivedInv, BeforeInv, SentInv

\* When a store leaves a buffer, those behind it move up.
LEMMA OneGone ==
  ASSUME NEW S, NEW b \in Seq(S), NEW i \in 1..Len(b)
  PROVE  LET rest == SubSeq(b, 1, i - 1) \o SubSeq(b, i + 1, Len(b))
         IN  /\ rest \in Seq(S) /\ Len(rest) = Len(b) - 1
             /\ \A k \in 1..(Len(b) - 1) : rest[k] = IF k < i THEN b[k] ELSE b[k + 1]
<1>. DEFINE n == Len(b)
            head == SubSeq(b, 1, i - 1)
            tail == SubSeq(b, i + 1, n)
<1>1. n \in Nat /\ i \in 1..n OBVIOUS
<1>2. \A k \in 1..n : b[k] \in S OBVIOUS
<1>3. /\ head \in Seq(S) /\ Len(head) = i - 1
      /\ \A k \in 1..(i - 1) : head[k] = b[k]
  <2>1. \A k \in 1..(i - 1) : b[k] \in S BY <1>1, <1>2
  <2>2. 1 \in Int /\ i - 1 \in Int BY <1>1
  <2>3. head \in Seq(S) /\ Len(head) = (IF 1 <= i - 1 THEN (i - 1) - 1 + 1 ELSE 0)
    BY <2>1, <2>2, SubSeqProperties
  <2>4. \A k \in 1..((i - 1) - 1 + 1) : head[k] = b[1 + k - 1]
    BY <2>1, <2>2, SubSeqProperties
  <2>. HIDE DEF head
  <2>. QED BY <1>1, <2>3, <2>4
<1>4. /\ tail \in Seq(S) /\ Len(tail) = n - i
      /\ \A k \in 1..(n - i) : tail[k] = b[k + i]
  <2>1. \A k \in (i + 1)..n : b[k] \in S BY <1>1, <1>2
  <2>2. i + 1 \in Int /\ n \in Int BY <1>1
  <2>3. tail \in Seq(S) /\ Len(tail) = (IF i + 1 <= n THEN n - (i + 1) + 1 ELSE 0)
    BY <2>1, <2>2, SubSeqProperties
  <2>4. \A k \in 1..(n - (i + 1) + 1) : tail[k] = b[(i + 1) + k - 1]
    BY <2>1, <2>2, SubSeqProperties
  <2>. HIDE DEF tail
  <2>. QED BY <1>1, <2>3, <2>4
<1>. HIDE DEF head, tail
<1>5. /\ head \o tail \in Seq(S) /\ Len(head \o tail) = n - 1
      /\ \A k \in 1..(n - 1) :
           (head \o tail)[k] = IF k < i THEN b[k] ELSE b[k + 1]
  <2>1. /\ head \o tail \in Seq(S) /\ Len(head \o tail) = Len(head) + Len(tail)
        /\ \A k \in 1..(Len(head) + Len(tail)) :
             (head \o tail)[k] = IF k <= Len(head) THEN head[k] ELSE tail[k - Len(head)]
    BY <1>3, <1>4, ConcatProperties
  <2>2. Len(head) + Len(tail) = n - 1 BY <1>1, <1>3, <1>4
  <2>3. ASSUME NEW k \in 1..(n - 1)
        PROVE  (head \o tail)[k] = IF k < i THEN b[k] ELSE b[k + 1]
    <3>1. CASE k < i
      <4>1. k \in 1..(i - 1) /\ k <= Len(head) BY <1>1, <1>3, <3>1
      <4>. QED BY <1>3, <2>1, <2>2, <3>1, <4>1
    <3>2. CASE ~(k < i)
      <4>1. /\ ~(k <= Len(head)) /\ k - (i - 1) \in 1..(n - i)
            /\ k - (i - 1) + i = k + 1 /\ k - Len(head) = k - (i - 1)
        BY <1>1, <1>3, <3>2
      <4>2. tail[k - (i - 1)] = b[k + 1] BY <1>4, <4>1
      <4>. QED BY <2>1, <2>2, <3>2, <4>1, <4>2
    <3>. QED BY <3>1, <3>2
  <2>. QED BY <2>1, <2>2, <2>3
<1>. QED BY <1>5 DEF head, tail

\* The place of a store in the buffer, before the one at i left it.
PlaceBefore(k, i) == IF k < i THEN k ELSE k + 1

\* Whichever store arrives, its field is in memory and no longer waits; nothing else changes.
LEMMA FlushAny ==
  ASSUME TypeOK, OnceInv, NEW t \in Thread, Flush(t)
  PROVE  /\ OnceInv'
         /\ \A u \in Thread \ {t} : buffer'[u] = buffer[u]
         /\ UNCHANGED << app, worker, request, answer >>
         /\ \E i \in 1..Len(buffer[t]) :
              /\ write_data' = [write_data EXCEPT ![buffer[t][i][1]] = buffer[t][i][2]]
              /\ \A f : Pending(t, f)' <=> Pending(t, f) /\ f # buffer[t][i][1]
<1>1. PICK i \in 1..Len(buffer[t]) :
        /\ write_data' = [write_data EXCEPT ![buffer[t][i][1]] = buffer[t][i][2]]
        /\ buffer' = [buffer EXCEPT ![t] = SubSeq(@, 1, i - 1) \o SubSeq(@, i + 1, Len(@))]
  BY DEF Flush
<1>. DEFINE b == buffer[t]
            n == Len(b)
            rest == SubSeq(b, 1, i - 1) \o SubSeq(b, i + 1, n)
<1>2. b \in Seq(Store) /\ n \in Nat /\ i \in 1..n BY <1>1 DEF TypeOK
<1>3. Len(rest) = n - 1 /\ \A k \in 1..(n - 1) : rest[k] = IF k < i THEN b[k] ELSE b[k + 1]
  BY <1>2, OneGone
<1>4. buffer'[t] = rest /\ \A u \in Thread \ {t} : buffer'[u] = buffer[u]
  BY <1>1 DEF TypeOK
<1>. HIDE DEF rest
<1>5. /\ Len(buffer'[t]) = n - 1
      /\ \A k \in 1..(n - 1) : buffer'[t][k] = b[PlaceBefore(k, i)]
      /\ \A k \in 1..(n - 1) : PlaceBefore(k, i) \in 1..n \ {i}
      /\ \A j, k \in 1..(n - 1) : j < k => PlaceBefore(j, i) < PlaceBefore(k, i)
  BY <1>2, <1>3, <1>4 DEF PlaceBefore
<1>6. \A k \in 1..n \ {i} : b[k][1] # b[i][1]
  <2>1. \A j, k \in 1..n : j < k => b[j][1] # b[k][1] BY DEF OnceInv
  <2>2. \A k \in 1..n \ {i} : k < i \/ i < k BY <1>2
  <2>. QED BY <1>2, <2>1, <2>2
<1>7. ASSUME NEW f PROVE Pending(t, f)' <=> Pending(t, f) /\ f # b[i][1]
  <2>1. ASSUME Pending(t, f)' PROVE Pending(t, f) /\ f # b[i][1]
    <3>1. PICK k \in 1..(n - 1) : buffer'[t][k][1] = f BY <1>5, <2>1 DEF Pending
    <3>2. PlaceBefore(k, i) \in 1..n \ {i} /\ b[PlaceBefore(k, i)][1] = f BY <1>5, <3>1
    <3>. QED BY <1>6, <3>2 DEF Pending
  <2>2. ASSUME Pending(t, f), f # b[i][1] PROVE Pending(t, f)'
    <3>1. PICK k \in 1..n : b[k][1] = f BY <2>2 DEF Pending
    <3>2. PICK m \in 1..(n - 1) : PlaceBefore(m, i) = k
      <4>1. CASE k < i
        <5>1. k \in 1..(n - 1) /\ PlaceBefore(k, i) = k BY <1>2, <4>1 DEF PlaceBefore
        <5>. QED BY <5>1
      <4>2. CASE ~(k < i)
        <5>1. k # i BY <2>2, <3>1
        <5>2. k - 1 \in 1..(n - 1) /\ ~(k - 1 < i) /\ k - 1 + 1 = k BY <1>2, <4>2, <5>1
        <5>. QED BY <5>2 DEF PlaceBefore
      <4>. QED BY <4>1, <4>2
    <3>. QED BY <1>5, <3>1, <3>2 DEF Pending
  <2>. QED BY <2>1, <2>2
<1>8. OnceInv'
  <2>1. ASSUME NEW j \in 1..(n - 1), NEW k \in 1..(n - 1), j < k
        PROVE  buffer'[t][j][1] # buffer'[t][k][1]
    <3>1. /\ PlaceBefore(j, i) \in 1..n /\ PlaceBefore(k, i) \in 1..n
          /\ PlaceBefore(j, i) < PlaceBefore(k, i)
      BY <1>5, <2>1
    <3>2. \A x, y \in 1..n : x < y => b[x][1] # b[y][1] BY DEF OnceInv
    <3>3. b[PlaceBefore(j, i)][1] # b[PlaceBefore(k, i)][1] BY <3>1, <3>2
    <3>4. /\ buffer'[t][j] = b[PlaceBefore(j, i)]
          /\ buffer'[t][k] = b[PlaceBefore(k, i)]
      BY <1>5
    <3>. QED BY <3>3, <3>4
  <2>2. ASSUME NEW P, \A k \in 1..n : b[k] \in P
        PROVE  \A k \in 1..Len(buffer'[t]) : buffer'[t][k] \in P
    <3>1. ASSUME NEW k \in 1..(n - 1) PROVE buffer'[t][k] \in P
      <4>1. PlaceBefore(k, i) \in 1..n /\ buffer'[t][k] = b[PlaceBefore(k, i)] BY <1>5
      <4>. QED BY <2>2, <4>1
    <3>. QED BY <1>5, <3>1
  <2>3. \A u \in Thread : \A j, k \in 1..Len(buffer'[u]) :
          j < k => buffer'[u][j][1] # buffer'[u][k][1]
    <3>1. \A j, k \in 1..Len(buffer'[t]) : j < k => buffer'[t][j][1] # buffer'[t][k][1]
      BY <1>5, <2>1
    <3>. QED BY <1>4, <3>1 DEF OnceInv
  <2>4. CASE t = "main"
    <3>1. buffer'["worker"] = buffer["worker"] BY <1>4, <2>4 DEF Thread
    <3>2. \A k \in 1..Len(buffer'["main"]) : buffer'["main"][k] \in MainStores
      BY <2>2, <2>4 DEF OnceInv
    <3>. QED BY <2>3, <3>1, <3>2 DEF OnceInv
  <2>5. CASE t = "worker"
    <3>1. buffer'["main"] = buffer["main"] BY <1>4, <2>5 DEF Thread
    <3>2. \A k \in 1..Len(buffer'["worker"]) : buffer'["worker"][k] \in WorkerStores
      BY <2>2, <2>5 DEF OnceInv
    <3>. QED BY <2>3, <3>1, <3>2 DEF OnceInv
  <2>. QED BY <2>4, <2>5 DEF Thread
<1>9. UNCHANGED << app, worker, request, answer >> BY DEF Flush, connVars
<1>. QED BY <1>1, <1>4, <1>7, <1>8, <1>9

\* A store of main's arrives, before anything is sent whole.
LEMMA EitherFlushMain ==
  ASSUME TypeOK, EitherInv, Flush("main")
  PROVE  EitherInv'
<1>. USE DEF EitherInv
<1>1. /\ OnceInv' /\ buffer'["worker"] = buffer["worker"]
      /\ UNCHANGED << app, worker, request, answer >>
  BY FlushAny DEF Thread
<1>2. PICK i \in 1..Len(buffer["main"]) :
        /\ write_data' = [write_data EXCEPT ![buffer["main"][i][1]] = buffer["main"][i][2]]
        /\ \A f : Pending("main", f)' <=> Pending("main", f) /\ f # buffer["main"][i][1]
  BY FlushAny DEF Thread
<1>3. buffer["main"][i] \in MainStores BY DEF OnceInv
<1>4. ~Early /\ request # "offer" /\ answer = "none" BY DEF BeforeInv, SentInv
<1>5. ArrivedInv'
  <2>1. ASSUME NEW s \in MainStores, write_data'[s[1]] = s[2] PROVE ~Pending("main", s[1])'
    <3>1. CASE s[1] = buffer["main"][i][1] BY <1>2, <3>1
    <3>2. CASE s[1] # buffer["main"][i][1]
      <4>1. write_data'[s[1]] = write_data[s[1]] BY <1>2, <3>2
      <4>. QED BY <1>2, <2>1, <4>1 DEF ArrivedInv
    <3>. QED BY <3>1, <3>2
  <2>. QED BY <2>1 DEF ArrivedInv
<1>6. app = "writable" => write_data'.writable = "idle"
  <2>1. Pending("main", buffer["main"][i][1]) BY DEF Pending
  <2>2. app = "writable" => buffer["main"][i][1] # "writable" BY <2>1 DEF BeforeInv
  <2>. QED BY <1>2, <2>2 DEF BeforeInv
<1>7. BeforeInv' BY <1>1, <1>2, <1>4, <1>6 DEF BeforeInv, Early
<1>8. SentInv' BY <1>1, <1>4 DEF SentInv
<1>. QED BY <1>1, <1>5, <1>7, <1>8

\* A store of the worker's arrives, when main's all have.
LEMMA EitherFlushWorker ==
  ASSUME TypeOK, EitherInv, Flush("worker")
  PROVE  EitherInv'
<1>. USE DEF EitherInv
<1>1. /\ OnceInv' /\ buffer'["main"] = buffer["main"]
      /\ UNCHANGED << app, worker, request, answer >>
  BY FlushAny DEF Thread
<1>2. PICK i \in 1..Len(buffer["worker"]) :
        /\ write_data' = [write_data EXCEPT ![buffer["worker"][i][1]] = buffer["worker"][i][2]]
        /\ \A f : Pending("worker", f)' <=> Pending("worker", f) /\ f # buffer["worker"][i][1]
  BY FlushAny DEF Thread
<1>3. buffer["worker"][i] \in WorkerStores BY DEF OnceInv
<1>4. answer = "taken" /\ request = "offer" /\ buffer["main"] = << >> BY DEF SentInv
<1>5. ~Early /\ app # "writable" BY <1>4 DEF BeforeInv
<1>6. \A f : ~Pending("main", f)' BY <1>1, <1>4 DEF Pending
<1>7. write_data'.writable = write_data.writable BY <1>2, <1>3 DEF WorkerStores
<1>8. Pending("worker", "type")' \/ write_data'.type = "UPLOAD_READY"
  <2>1. CASE buffer["worker"][i][1] = "type"
    BY <1>2, <1>3, <2>1 DEF WorkerStores, TypeOK, Content
  <2>2. CASE buffer["worker"][i][1] # "type"
    BY <1>2, <1>4, <2>2 DEF SentInv
  <2>. QED BY <2>1, <2>2
<1>9. ArrivedInv' BY <1>6 DEF ArrivedInv
<1>10. BeforeInv' BY <1>1, <1>5 DEF BeforeInv, Early
<1>11. SentInv' BY <1>1, <1>4, <1>7, <1>8 DEF SentInv
<1>. QED BY <1>1, <1>9, <1>10, <1>11

\* Main fills the struct, which is blank, with stores that are all still to arrive.
LEMMA EitherFill ==
  ASSUME TypeOK, EitherInv, Fill
  PROVE  EitherInv'
<1>. DEFINE new == << << "data", "offer" >>, << "target", "wsi" >>,
                      << "type", "UPLOAD_REQUEST" >> >>
<1>. USE DEF EitherInv
<1>1. /\ app = "fill" /\ app' = "writable" /\ UNCHANGED << worker, request, answer, write_data >>
      /\ buffer' = [buffer EXCEPT !["main"] = @ \o new]
  BY DEF Fill, Write, connVars
<1>2. /\ buffer["main"] = << >> /\ buffer["worker"] = << >>
      /\ request = "none" /\ answer = "none" /\ write_data = Blank
  BY <1>1 DEF BeforeInv, SentInv, Early
<1>3. buffer'["worker"] = << >> BY <1>1, <1>2 DEF TypeOK, Thread
<1>4. buffer'["main"] = new
  <2>1. new \in Seq(Store) BY StoresAreStores
  <2>2. buffer'["main"] = << >> \o new BY <1>1, <1>2 DEF TypeOK, Thread
  <2>. HIDE DEF new
  <2>. QED BY <2>1, <2>2, ConcatEmptySeq
<1>5. /\ Len(buffer'["main"]) = 3
      /\ buffer'["main"][1] = << "data", "offer" >> /\ buffer'["main"][2] = << "target", "wsi" >>
      /\ buffer'["main"][3] = << "type", "UPLOAD_REQUEST" >>
  BY <1>4
<1>6. \A k : k \in 1..Len(buffer'["main"]) <=> k \in {1, 2, 3} BY <1>5
<1>7. ~Pending("main", "writable")' BY <1>5, <1>6 DEF Pending
<1>8. OnceInv'
  <2>1. \A k \in 1..Len(buffer'["main"]) : buffer'["main"][k] \in MainStores
    BY <1>5, <1>6 DEF MainStores
  <2>2. \A k \in {1, 2, 3} : \A j \in {1, 2, 3} :
          j < k => buffer'["main"][j][1] # buffer'["main"][k][1]
    BY <1>5
  <2>3. \A k : ~(k \in 1..Len(buffer'["worker"])) BY <1>3
  <2>. QED BY <1>6, <2>1, <2>2, <2>3 DEF OnceInv, Thread
<1>9. ArrivedInv' /\ write_data'.writable = "idle"
  BY <1>1, <1>2 DEF ArrivedInv, MainStores, Blank
<1>10. BeforeInv' BY <1>1, <1>2, <1>7, <1>9 DEF BeforeInv, Early
<1>11. SentInv' BY <1>1, <1>2, <1>3 DEF SentInv
<1>. QED BY <1>8, <1>9, <1>10, <1>11

\* Main asks once, and the asking is one more store that may arrive before the others.
LEMMA EitherAsk ==
  ASSUME TypeOK, EitherInv, AskWritable
  PROVE  EitherInv'
<1>. DEFINE b == buffer["main"]
            new == << << "writable", "asked" >> >>
<1>. USE DEF EitherInv
<1>1. app = "writable" /\ app' \in {"wait", "crashed"} /\
      UNCHANGED << worker, request, answer, write_data >>
  BY DEF AskWritable, connVars
<1>2. /\ write_data.writable = "idle" /\ ~Pending("main", "writable") /\ request = "none"
      /\ answer = "none" /\ buffer["worker"] = << >>
  BY <1>1 DEF BeforeInv, SentInv, TypeOK
<1>3. CASE buffer' = buffer
  BY <1>1, <1>2, <1>3 DEF OnceInv, ArrivedInv, BeforeInv, SentInv, Early, Pending
<1>4. CASE buffer' = [buffer EXCEPT !["main"] = @ \o new]
  <2>1. /\ buffer'["worker"] = buffer["worker"] /\ buffer'["main"] = b \o new
        /\ b \in Seq(Store)
    BY <1>4, StoresAreStores DEF TypeOK, Thread
  <2>2. /\ Len(buffer'["main"]) = Len(b) + 1 /\ Len(b) \in Nat
        /\ \A k \in 1..Len(b) : buffer'["main"][k] = b[k]
        /\ buffer'["main"][Len(b) + 1] = << "writable", "asked" >>
    <3>1. << "writable", "asked" >> \in Store BY StoresAreStores
    <3>2. buffer'["main"] = Append(b, << "writable", "asked" >>)
      BY <2>1, <3>1, AppendIsConcat
    <3>. QED BY <2>1, <3>1, <3>2, AppendProperties
  <2>3. \A k : k \in 1..Len(buffer'["main"]) <=> k \in 1..Len(b) \/ k = Len(b) + 1 BY <2>2
  <2>4. \A g : Pending("main", g)' => Pending("main", g) \/ g = "writable"
    <3>. HIDE DEF new
    <3>. QED BY <2>2, <2>3 DEF Pending
  <2>5. OnceInv'
    <3>1. \A k \in 1..Len(b) : b[k][1] # "writable" BY <1>2 DEF Pending
    <3>2. \A k \in 1..Len(buffer'["main"]) : buffer'["main"][k] \in MainStores
      BY <2>2, <2>3 DEF OnceInv, MainStores
    <3>3. ASSUME NEW j \in 1..Len(buffer'["main"]), NEW k \in 1..Len(buffer'["main"]), j < k
          PROVE  buffer'["main"][j][1] # buffer'["main"][k][1]
      <4>1. j \in 1..Len(b) BY <2>2, <3>3
      <4>2. CASE k \in 1..Len(b)
        BY <2>2, <3>3, <4>1, <4>2 DEF OnceInv, Thread
      <4>3. CASE k = Len(b) + 1
        BY <2>2, <3>1, <4>1, <4>3
      <4>. QED BY <2>3, <4>2, <4>3
    <3>. QED BY <2>1, <3>2, <3>3 DEF OnceInv, Thread
  <2>6. ArrivedInv' BY <1>1, <1>2, <2>4 DEF ArrivedInv, MainStores
  <2>7. BeforeInv' BY <1>1 DEF BeforeInv, Early
  <2>8. SentInv' BY <1>1, <1>2, <2>1 DEF SentInv
  <2>. QED BY <2>5, <2>6, <2>7, <2>8
<1>. QED BY <1>3, <1>4 DEF AskWritable, Write

\* The worker sends what it finds; when that is the whole offer, everything has arrived.
LEMMA EitherWriteable ==
  ASSUME TypeOK, EitherInv, Writeable
  PROVE  EitherInv'
<1>. USE DEF EitherInv
<1>1. /\ worker = "service" /\ write_data.writable = "asked"
      /\ write_data' = [write_data EXCEPT !.writable = "idle"]
      /\ app' \in {app, "crashed"} /\ UNCHANGED << worker, answer, buffer >>
  BY DEF Writeable, Serving
<1>2. request # "offer" /\ answer = "none" /\ buffer["worker"] = << >>
  BY <1>1 DEF SentInv, TypeOK
<1>3. ~Early /\ app # "writable"
  <2>1. write_data # Blank BY <1>1 DEF Blank
  <2>. QED BY <1>1, <2>1 DEF BeforeInv
<1>4. /\ write_data'.data = write_data.data /\ write_data'.target = write_data.target
      /\ write_data'.type = write_data.type /\ write_data'.writable = "idle"
  BY <1>1 DEF TypeOK, Content
<1>5. \A f : Pending("main", f)' <=> Pending("main", f) BY <1>1 DEF Pending
<1>6. OnceInv' BY <1>1 DEF OnceInv
<1>7. ArrivedInv' BY <1>4, <1>5 DEF ArrivedInv, MainStores
<1>8. BeforeInv' BY <1>1, <1>3 DEF BeforeInv, Early
<1>9. request' = "offer" => buffer["main"] = << >>
  <2>. SUFFICES ASSUME request' = "offer" PROVE buffer["main"] = << >>
    OBVIOUS
  <2>1. Read("worker", "type") = "UPLOAD_REQUEST" /\ Read("worker", "target") = "wsi" /\
        Read("worker", "data") = "offer"
    BY <1>2 DEF Writeable
  <2>2. \A g : Read("worker", g) = write_data[g]
    <3>1. buffer["worker"] \in Seq(Store) BY DEF TypeOK, Thread
    <3>2. \A k : ~(k \in 1..Len(buffer["worker"])) BY <1>2
    <3>. QED BY <3>1, <3>2, ReadGives DEF Thread
  <2>3. \A s \in MainStores : write_data[s[1]] = s[2] BY <1>1, <2>1, <2>2 DEF MainStores
  <2>4. \A s \in MainStores : ~Pending("main", s[1]) BY <2>3 DEF ArrivedInv
  <2>5. \A k : ~(k \in 1..Len(buffer["main"])) BY <2>4 DEF OnceInv, Pending
  <2>6. buffer["main"] \in Seq(Store) /\ Len(buffer["main"]) \in Nat BY DEF TypeOK, Thread
  <2>7. Len(buffer["main"]) = 0
    <3>1. Len(buffer["main"]) # 0 => 1 \in 1..Len(buffer["main"]) BY <2>6
    <3>. QED BY <2>5, <3>1
  <2>. QED BY <2>6, <2>7
<1>10. SentInv' BY <1>1, <1>2, <1>4, <1>9 DEF SentInv
<1>. QED BY <1>6, <1>7, <1>8, <1>10

\* The worker takes the answer and stores it; main has nothing left to arrive.
LEMMA EitherReceive ==
  ASSUME TypeOK, EitherInv, Receive
  PROVE  EitherInv'
<1>. DEFINE new == << << "data", "answer" >>, << "target", "NULL" >>,
                      << "type", "UPLOAD_READY" >> >>
<1>. USE DEF EitherInv
<1>1. /\ answer = "coming" /\ answer' = "taken"
      /\ UNCHANGED << app, worker, request, write_data >>
      /\ buffer' = [buffer EXCEPT !["worker"] = @ \o new]
  BY DEF Receive, Write, Serving
<1>2. /\ buffer["worker"] = << >> /\ request = "offer" /\ buffer["main"] = << >>
      /\ write_data.writable = "idle"
  BY <1>1 DEF SentInv
<1>3. ~Early /\ app # "writable" BY <1>1, <1>2 DEF BeforeInv
<1>4. buffer'["main"] = << >> BY <1>1, <1>2 DEF TypeOK, Thread
<1>5. buffer'["worker"] = new
  <2>1. new \in Seq(Store) BY StoresAreStores
  <2>2. buffer'["worker"] = << >> \o new BY <1>1, <1>2 DEF TypeOK, Thread
  <2>. HIDE DEF new
  <2>. QED BY <2>1, <2>2, ConcatEmptySeq
<1>6. /\ Len(buffer'["worker"]) = 3
      /\ buffer'["worker"][1] = << "data", "answer" >>
      /\ buffer'["worker"][2] = << "target", "NULL" >>
      /\ buffer'["worker"][3] = << "type", "UPLOAD_READY" >>
  BY <1>5
<1>7. \A k : k \in 1..Len(buffer'["worker"]) <=> k \in {1, 2, 3} BY <1>6
<1>8. Pending("worker", "type")' BY <1>6, <1>7 DEF Pending
<1>9. OnceInv'
  <2>1. \A k \in 1..Len(buffer'["worker"]) : buffer'["worker"][k] \in WorkerStores
    BY <1>6, <1>7 DEF WorkerStores
  <2>2. \A k \in {1, 2, 3} : \A j \in {1, 2, 3} :
          j < k => buffer'["worker"][j][1] # buffer'["worker"][k][1]
    BY <1>6
  <2>3. \A k : ~(k \in 1..Len(buffer'["main"])) BY <1>4
  <2>. QED BY <1>7, <2>1, <2>2, <2>3 DEF OnceInv, Thread
<1>10. ArrivedInv' BY <1>4 DEF ArrivedInv, Pending
<1>11. BeforeInv' BY <1>1, <1>3 DEF BeforeInv, Early
<1>12. SentInv' BY <1>1, <1>2, <1>4, <1>8 DEF SentInv
<1>. QED BY <1>9, <1>10, <1>11, <1>12

\* Each step keeps the answer safe from main's stores, on either build.
LEMMA EitherStep ==
  TypeOK /\ StackInv /\ EitherInv /\ [Next]_vars => EitherInv'
<1>. SUFFICES ASSUME TypeOK, StackInv, EitherInv, [Next]_vars PROVE EitherInv'
  OBVIOUS
<1>1. ASSUME UNCHANGED << request, answer, buffer, write_data >>,
             worker' = worker \/ app # "start",
             app' = app \/ (app # "start" /\ app' \notin {"start", "writable"} /\
                            (Early' => Early))
      PROVE  EitherInv'
  BY <1>1 DEF EitherInv, OnceInv, ArrivedInv, BeforeInv, SentInv, Pending, Early
<1>2. CASE Connect
  <2>1. app = "start" /\ app' \in {"queue", "crashed"} /\ write_data' = Blank /\
        UNCHANGED << worker, request, answer, buffer >>
    BY <1>2 DEF Connect
  <2>2. /\ buffer["main"] = << >> /\ buffer["worker"] = << >>
        /\ request = "none" /\ answer = "none"
    BY <2>1 DEF EitherInv, BeforeInv, SentInv, Early
  <2>3. OnceInv' BY <2>1 DEF EitherInv, OnceInv
  <2>4. ArrivedInv' BY <2>1, <2>2 DEF ArrivedInv, Pending
  <2>5. BeforeInv' /\ SentInv' BY <2>1, <2>2 DEF BeforeInv, SentInv, Early
  <2>. QED BY <2>3, <2>4, <2>5 DEF EitherInv
<1>3. CASE QueueWork \/ CreateOffer \/ GetDataChannel \/ Describe
  <2>1. UNCHANGED << request, answer, buffer, write_data >> /\ app # "start" /\
        app' \notin {"start", "writable"} /\ Early
    BY <1>3 DEF QueueWork, CreateOffer, GetDataChannel, Describe, connVars, dataVars, Early
  <2>. QED BY <1>1, <2>1
<1>4. CASE Wait \/ Parse \/ SetRemoteDescription \/ Exit \/ Run \/ FreeJson \/ Destroy
  <2>1. UNCHANGED << request, answer, buffer, write_data >> /\ app # "start" /\
        app' \notin {"start", "writable"} /\ ~Early'
    BY <1>4 DEF Wait, Parse, SetRemoteDescription, Exit, Run, FreeJson, Destroy, connVars,
                dataVars, Early
  <2>. QED BY <1>1, <2>1
<1>5. CASE Again
  <2>1. app' = "start" /\ worker' = "none" /\ request' = "none" /\ answer' = "none" /\
        buffer' = [t \in Thread |-> << >>]
    BY <1>5 DEF Again
  <2>2. buffer'["main"] = << >> /\ buffer'["worker"] = << >> BY <2>1 DEF Thread
  <2>3. OnceInv' BY <2>2 DEF OnceInv, Thread
  <2>4. ArrivedInv' BY <2>2 DEF ArrivedInv, Pending
  <2>. QED BY <2>1, <2>2, <2>3, <2>4 DEF EitherInv, BeforeInv, SentInv, Early
<1>6. CASE Established
  <2>1. UNCHANGED << app, worker, request, answer, buffer >> /\
        write_data' \in {write_data, [write_data EXCEPT !.writable = "idle"]}
    BY <1>6 DEF Established
  <2>2. /\ write_data'.data = write_data.data /\ write_data'.target = write_data.target
        /\ write_data'.type = write_data.type
        /\ write_data'.writable \in {write_data.writable, "idle"}
    BY <2>1 DEF TypeOK, Content
  <2>3. write_data = Blank => write_data' = Blank BY <2>1 DEF Blank
  <2>4. ArrivedInv' BY <2>1, <2>2 DEF EitherInv, ArrivedInv, MainStores, Pending
  <2>. QED BY <2>1, <2>2, <2>3, <2>4
           DEF EitherInv, OnceInv, BeforeInv, SentInv, Early, Pending
<1>7. CASE End(FALSE) \/ End(TRUE) \/ Closed
  <2>1. UNCHANGED << app, request, answer, buffer, write_data >> /\
        (worker = "service" \/ UNCHANGED worker)
    BY <1>7 DEF End, Closed, Serving, dataVars
  <2>2. worker = "service" => app # "start" BY DEF EitherInv, BeforeInv
  <2>. QED BY <1>1, <2>1, <2>2
<1>8. CASE Answer
  <2>1. request = "offer" /\ answer = "none" /\ answer' = "coming" /\
        UNCHANGED << app, worker, request, buffer, write_data >>
    BY <1>8 DEF Answer, dataVars
  <2>. QED BY <2>1
           DEF EitherInv, OnceInv, ArrivedInv, BeforeInv, SentInv, Early, Pending
<1>9. CASE Peer \/ Spin \/ Done \/ UNCHANGED vars
  <2>1. UNCHANGED << app, worker, request, answer, write_data, buffer >>
    BY <1>9 DEF Peer, ApplyOffer, OnOpen, Send, OnOpenReturn, Spin, Done, vars, connVars, dataVars
  <2>. QED BY <1>1, <2>1
<1>10. CASE Fill \/ AskWritable BY <1>10, EitherFill, EitherAsk
<1>11. CASE Writeable \/ Receive BY <1>11, EitherWriteable, EitherReceive
<1>12. CASE Memory BY <1>12, EitherFlushMain, EitherFlushWorker DEF Memory, Thread
<1>. QED BY <1>2, <1>3, <1>4, <1>5, <1>6, <1>7, <1>8, <1>9, <1>10, <1>11, <1>12
         DEF Next, Main, Service

-----------------------------------------------------------------------------
(* Theorems                                                                *)

\* Every variable has its type, whatever the threads do and in which order stores arrive.
THEOREM TypeCorrect == Spec => []TypeOK
BY TypeInit, TypeStep, PTL DEF Spec

\* Main is always behind the worker and on_open.
LEMMA StackInvariant == Spec => []StackInv
BY StackInit, StackStep, PTL DEF Spec

\* When sy_upload returns neither the worker nor on_open, which have pointers into its
\* stack, still runs: for any number of packets and uploads, on either build.
THEOREM NobodyUsesTheStack == Spec => []StackOutlived
<1>1. StackInv => StackOutlived BY DEF StackInv, StackOutlived
<1>. QED BY <1>1, StackInvariant, PTL

\* Destroy never cuts an upload short: what has been sent by then is nothing or all.
THEOREM DestroyWaits == Spec => []NeverCutShort
<1>1. StackInv => NeverCutShort BY DEF StackInv, NeverCutShort
<1>. QED BY <1>1, StackInvariant, PTL

\* With stores in order, what the worker sends is the complete offer, though no lock
\* guards the struct.
THEOREM OrderedRequest == ASSUME ~Weak PROVE Spec => []RequestIsOffer
<1>1. Init => SharedInv BY SharedInit
<1>2. TypeOK /\ StackInv /\ SharedInv /\ [Next]_vars => SharedInv' BY SharedStep
<1>3. SharedInv => RequestIsOffer BY DEF SharedInv, RequestIsOffer
<1>. QED BY <1>1, <1>2, <1>3, TypeCorrect, StackInvariant, PTL DEF Spec

\* With stores in order, behind its loop sy_upload reads the complete answer.
THEOREM OrderedAnswer == ASSUME ~Weak PROVE Spec => []AnswerArrived
<1>1. Init => SharedInv BY SharedInit
<1>2. TypeOK /\ StackInv /\ SharedInv /\ [Next]_vars => SharedInv' BY SharedStep
<1>3. TypeOK /\ SharedInv => AnswerArrived
  <2>. SUFFICES ASSUME TypeOK, SharedInv, app = "parse"
                PROVE  Read("main", "data") = "answer"
    BY DEF AnswerArrived
  <2>1. write_data.type = "UPLOAD_READY" /\ AnsweredInv /\ FilledInv /\ ~Early
    BY DEF SharedInv, Early
  <2>2. answer = "taken" BY <2>1 DEF FilledInv
  <2>3. buffer["main"] = << >> /\ ~Pending("worker", "type") BY <2>1, <2>2 DEF AnsweredInv
  <2>4. write_data["data"] = "answer"
    <3>1. Pending("worker", "data") => Pending("worker", "type") BY <2>1, <2>2 DEF AnsweredInv
    <3>. QED BY <2>1, <2>2, <2>3, <3>1 DEF AnsweredInv
  <2>5. Read("main", "data") = write_data["data"]
    <3>1. buffer["main"] \in Seq(Store) BY DEF TypeOK, Thread
    <3>2. \A k : ~(k \in 1..Len(buffer["main"])) BY <2>3
    <3>. QED BY <3>1, <3>2, ReadGives DEF Thread
  <2>. QED BY <2>4, <2>5
<1>. QED BY <1>1, <1>2, <1>3, TypeCorrect, StackInvariant, PTL DEF Spec

\* The answer that was taken is not lost to a late store of main's, on either build: when the
\* worker's stores have arrived, the loop around usleep ends.
THEOREM AnswerIsNotOverwritten == Spec => []AnswerStays
<1>1. TypeOK /\ EitherInv => AnswerStays
  <2>. SUFFICES ASSUME TypeOK, EitherInv, answer = "taken"
                PROVE  /\ Read("worker", "type") = "UPLOAD_READY"
                       /\ \A i \in 1..Len(buffer["main"]) : buffer["main"][i][1] # "type"
    BY DEF AnswerStays
  <2>1. buffer["main"] = << >> BY DEF EitherInv, SentInv
  <2>2. \A i : ~(i \in 1..Len(buffer["main"])) BY <2>1
  <2>3. buffer["worker"] \in Seq(Store) BY DEF TypeOK, Thread
  <2>4. \A k \in 1..Len(buffer["worker"]) :
          buffer["worker"][k][1] = "type" => buffer["worker"][k][2] = "UPLOAD_READY"
    BY DEF EitherInv, OnceInv, WorkerStores
  <2>5. \/ Read("worker", "type") = write_data["type"] /\ ~Pending("worker", "type")
        \/ \E k \in 1..Len(buffer["worker"]) :
             buffer["worker"][k][1] = "type" /\ Read("worker", "type") = buffer["worker"][k][2]
    <3>1. "worker" \in Thread BY DEF Thread
    <3>. QED BY <2>3, <3>1, ReadGives DEF Pending
  <2>6. Pending("worker", "type") \/ write_data["type"] = "UPLOAD_READY"
    BY DEF EitherInv, SentInv
  <2>. QED BY <2>2, <2>4, <2>5, <2>6
<1>. QED BY <1>1, EitherInit, EitherStep, TypeCorrect, StackInvariant, PTL DEF Spec

-----------------------------------------------------------------------------
(* Where sy_upload waits                                                   *)

\* The worker serves the connection from QueueWork to its end, and is told to end before
\* anybody waits for it.
ServeInv ==
  /\ conn \in {"connecting", "open"} => worker = "service" \/ app \in {"queue", "crashed"}
  /\ app \notin {"start", "returned", "crashed"} =>
       conn # "none" /\ (worker # "none" \/ app = "queue")
  /\ app = "run" => client_exit

\* Where each wait of sy_upload may stand.  Around usleep: an answer was taken, and main reads
\* it as soon as the type has arrived; or one is coming, to a worker that serves; or the offer
\* was sent, and the servers have it; or it is to be sent, to a connection that is there or
\* may be yet; or there is no hope.  In uv_run: the worker has ended, or serves and finds the
\* flag set.
WaitStands ==
  /\ app = "wait" =>
       \/ answer = "taken" /\ (Read("main", "type") = "UPLOAD_READY" \/ Pending("worker", "type"))
       \/ answer = "coming" /\ conn = "open" /\ worker = "service"
       \/ Unanswered /\ worker = "service"
       \/ /\ request = "none" /\ conn \in {"connecting", "open"} /\ worker = "service"
          /\ conn = "connecting" \/ write_data.writable = "asked" \/ Pending("main", "writable")
       \/ Hopeless
  /\ app = "run" => worker = "done" \/ (worker = "service" /\ client_exit)

\* Each step keeps the worker with its connection.
LEMMA ServeStep == ServeInv /\ [Next]_vars => ServeInv'
<1>. SUFFICES ASSUME ServeInv, [Next]_vars PROVE ServeInv'
  OBVIOUS
<1>. USE DEF ServeInv, connVars, dataVars, peerVars
<1>1. CASE Main
  <2>1. CASE Connect \/ QueueWork \/ CreateOffer \/ GetDataChannel \/ Describe
    BY <2>1 DEF Connect, QueueWork, CreateOffer, GetDataChannel, Describe
  <2>2. CASE Fill \/ AskWritable \/ Wait \/ Parse \/ SetRemoteDescription
    BY <2>2 DEF Fill, AskWritable, Wait, Parse, SetRemoteDescription
  <2>3. CASE Exit BY <2>3 DEF Exit
  <2>4. CASE Run \/ FreeJson \/ Destroy \/ Again
    BY <2>4 DEF Run, FreeJson, Destroy, Again
  <2>. QED BY <1>1, <2>1, <2>2, <2>3, <2>4 DEF Main
<1>2. CASE Service \/ End(TRUE) \/ Closed \/ Answer
  BY <1>2 DEF Service, Established, Writeable, Receive, End, Closed, Answer, Serving
<1>3. CASE Peer BY <1>3 DEF Peer, ApplyOffer, OnOpen, Send, OnOpenReturn, SignalFree
<1>4. CASE Memory
  <2>1. UNCHANGED << app, worker, conn, client_exit >>
    BY <1>4, Zenon DEF Memory, Flush
  <2>. QED BY <2>1
<1>5. CASE Spin \/ Done \/ UNCHANGED vars
  BY <1>5 DEF Spin, Done, vars
<1>. QED BY <1>1, <1>2, <1>3, <1>4, <1>5 DEF Next

\* Nothing goes out before the connection is there, and no type says UPLOAD_READY before an
\* answer was taken.
ReadyInv ==
  /\ conn \in {"none", "connecting"} => request = "none"
  /\ app # "start" /\ answer # "taken" => write_data.type # "UPLOAD_READY"

\* Each step keeps the type behind the answer.
LEMMA ReadyStep == TypeOK /\ EitherInv /\ ReadyInv /\ [Next]_vars => ReadyInv'
<1>. SUFFICES ASSUME TypeOK, EitherInv, ReadyInv, [Next]_vars PROVE ReadyInv'
  OBVIOUS
<1>. USE DEF ReadyInv, connVars, dataVars, peerVars
<1>1. CASE Main
  <2>1. CASE Connect
    <3>1. request = "none" BY <2>1 DEF Connect, EitherInv, BeforeInv, Early
    <3>. QED BY <2>1, <3>1 DEF Connect, Blank
  <2>2. CASE QueueWork \/ CreateOffer \/ GetDataChannel \/ Describe
    BY <2>2 DEF QueueWork, CreateOffer, GetDataChannel, Describe
  <2>3. CASE Fill \/ AskWritable \/ Wait \/ Parse \/ SetRemoteDescription
    BY <2>3 DEF Fill, AskWritable, Wait, Parse, SetRemoteDescription
  <2>4. CASE Exit \/ Run \/ FreeJson \/ Destroy \/ Again
    BY <2>4 DEF Exit, Run, FreeJson, Destroy, Again
  <2>. QED BY <1>1, <2>1, <2>2, <2>3, <2>4 DEF Main
<1>2. CASE Established \/ Writeable
  <2>1. write_data' \in {write_data, [write_data EXCEPT !.writable = "idle"]}
    BY <1>2 DEF Established, Writeable
  <2>2. write_data'.type = write_data.type BY <2>1 DEF TypeOK, Content
  <2>3. conn' = "open" /\ answer' = answer /\ app # "start"
    BY <1>2 DEF Established, Writeable, Serving, EitherInv, BeforeInv
  <2>. QED BY <2>2, <2>3
<1>3. CASE Receive \/ End(FALSE) \/ End(TRUE) \/ Closed \/ Answer
  BY <1>3 DEF Receive, End, Closed, Answer, Serving
<1>4. CASE Peer \/ Spin \/ Done \/ UNCHANGED vars
  BY <1>4 DEF Peer, ApplyOffer, OnOpen, Send, OnOpenReturn, Spin, Done, vars
<1>5. CASE Memory
  <2>1. UNCHANGED << app, conn, request, answer >> BY <1>5, Zenon DEF Memory, Flush
  <2>2. SUFFICES ASSUME app # "start", answer # "taken" PROVE write_data'.type # "UPLOAD_READY"
    BY <2>1
  <2>3. PICK t \in Thread : Flush(t) BY <1>5 DEF Memory
  <2>4. PICK i \in 1..Len(buffer[t]) :
          write_data' = [write_data EXCEPT ![buffer[t][i][1]] = buffer[t][i][2]]
    BY <2>3 DEF Flush
  <2>5. t = "main" BY <2>2, <2>4 DEF EitherInv, SentInv, Thread
  <2>6. buffer[t][i] \in MainStores BY <2>4, <2>5 DEF EitherInv, OnceInv
  <2>. QED BY <2>2, <2>4, <2>6 DEF MainStores, TypeOK, Content
<1>. QED BY <1>1, <1>2, <1>3, <1>4, <1>5 DEF Next, Service

\* Before an answer was taken main cannot read that there is one.
LEMMA NotReady ==
  ASSUME TypeOK, EitherInv, ReadyInv, app # "start", answer # "taken"
  PROVE  Read("main", "type") # "UPLOAD_READY"
<1>1. "main" \in Thread /\ buffer["main"] \in Seq(Store) BY DEF TypeOK, Thread
<1>2. \/ Read("main", "type") = write_data["type"]
      \/ \E k \in 1..Len(buffer["main"]) :
           buffer["main"][k][1] = "type" /\ Read("main", "type") = buffer["main"][k][2]
  BY <1>1, ReadGives
<1>3. \A k \in 1..Len(buffer["main"]) : buffer["main"][k] \in MainStores
  BY DEF EitherInv, OnceInv
<1>. QED BY <1>2, <1>3 DEF MainStores, ReadyInv

\* Where there is no hope there is none later: no step of any thread ends the loop.
LEMMA HopelessStep ==
  TypeOK /\ EitherInv /\ ReadyInv /\ Hopeless /\ [Next]_vars => Hopeless'
<1>. SUFFICES ASSUME TypeOK, EitherInv, ReadyInv, Hopeless, [Next]_vars PROVE Hopeless'
  OBVIOUS
<1>. USE DEF connVars, dataVars, peerVars
<1>0. /\ app = "wait" /\ answer # "taken" /\ conn \in {"open", "closed"}
      /\ conn = "open" => /\ request = "none" /\ answer = "none"
                          /\ write_data.writable = "idle" /\ ~Pending("main", "writable")
  BY DEF Hopeless, EitherInv, SentInv, TypeOK
<1>1. CASE Main
  <2>1. Read("main", "type") # "UPLOAD_READY" BY <1>0, NotReady
  <2>. QED BY <1>0, <1>1, <2>1
           DEF Main, Connect, QueueWork, CreateOffer, GetDataChannel, Describe, Fill, AskWritable,
               Wait, Parse, SetRemoteDescription, Exit, Run, FreeJson, Destroy, Again
<1>2. CASE Service
  <2>1. ~Established /\ ~Writeable /\ ~Receive
    BY <1>0 DEF Established, Writeable, Receive
  <2>. QED BY <1>0, <1>2, <2>1 DEF Service, End, Hopeless
<1>3. CASE End(TRUE) \/ Closed BY <1>0, <1>3 DEF End, Closed, Hopeless
<1>4. CASE Answer BY <1>0, <1>4 DEF Answer
<1>5. CASE Peer \/ Spin \/ Done \/ UNCHANGED vars
  <2>1. UNCHANGED << app, conn, request, answer, write_data, buffer >>
    BY <1>5 DEF Peer, ApplyOffer, OnOpen, Send, OnOpenReturn, Spin, Done, vars
  <2>. QED BY <2>1 DEF Hopeless, Pending
<1>6. CASE Memory
  <2>1. UNCHANGED << app, conn, request, answer >> BY <1>6, Zenon DEF Memory, Flush
  <2>2. CASE conn = "closed" BY <1>0, <2>1, <2>2 DEF Hopeless
  <2>3. CASE conn = "open"
    <3>1. PICK t \in Thread : Flush(t) BY <1>6 DEF Memory
    <3>2. t = "main" BY <1>0, <3>1 DEF Flush, EitherInv, SentInv, Thread
    <3>3. PICK i \in 1..Len(buffer["main"]) :
            /\ write_data' = [write_data EXCEPT ![buffer["main"][i][1]] = buffer["main"][i][2]]
            /\ \A f : Pending("main", f)' <=> Pending("main", f) /\ f # buffer["main"][i][1]
      <4>1. OnceInv BY DEF EitherInv
      <4>2. Flush("main") /\ "main" \in Thread BY <3>1, <3>2 DEF Thread
      <4>. QED BY <4>1, <4>2, FlushAny
    <3>4. buffer["main"][i][1] # "writable" BY <1>0, <2>3 DEF Pending
    <3>5. write_data'.writable = "idle" BY <1>0, <2>3, <3>3, <3>4 DEF TypeOK, Content
    <3>6. ~Pending("main", "writable")' BY <1>0, <2>3, <3>3
    <3>. QED BY <1>0, <2>1, <2>3, <3>5, <3>6 DEF Hopeless
  <2>. QED BY <1>0, <2>2, <2>3
<1>. QED BY <1>1, <1>2, <1>3, <1>4, <1>5, <1>6 DEF Next

\* Where sy_upload may wait, on either build: for a step of its own threads that is there to
\* be taken, for the servers, or without hope; and the last is for good.  It is the safety
\* half of Returns, whose exceptions are these two.
THEOREM WaitsStand == Spec => []WaitStands /\ [][Hopeless => Hopeless']_vars
<1>1. Init => ServeInv /\ ReadyInv BY DEF Init, ServeInv, ReadyInv, Blank
<1>2. TypeOK /\ ServeInv /\ EitherInv /\ ReadyInv /\ AnswerStays => WaitStands
  <2>. SUFFICES ASSUME TypeOK, ServeInv, EitherInv, ReadyInv, AnswerStays PROVE WaitStands
    OBVIOUS
  <2>1. app = "run" => worker = "done" \/ (worker = "service" /\ client_exit)
    BY DEF ServeInv, TypeOK
  <2>2. ASSUME answer = "taken", ~Pending("worker", "type")
        PROVE  Read("main", "type") = "UPLOAD_READY"
    <3>1. "main" \in Thread /\ "worker" \in Thread BY DEF Thread
    <3>2. buffer["main"] \in Seq(Store) /\ buffer["worker"] \in Seq(Store)
      BY <3>1 DEF TypeOK
    <3>3. \/ Read("worker", "type") = write_data["type"]
          \/ \E k \in 1..Len(buffer["worker"]) : buffer["worker"][k][1] = "type"
      BY <3>1, <3>2, ReadGives
    <3>4. write_data["type"] = "UPLOAD_READY" BY <2>2, <3>3 DEF AnswerStays, Pending
    <3>5. \/ Read("main", "type") = write_data["type"]
          \/ \E k \in 1..Len(buffer["main"]) : buffer["main"][k][1] = "type"
      BY <3>1, <3>2, ReadGives
    <3>. QED BY <2>2, <3>4, <3>5 DEF AnswerStays
  <2>3. ASSUME app = "wait", answer # "taken", conn # "closed"
        PROVE  /\ worker = "service" /\ conn \in {"connecting", "open"}
               /\ conn = "connecting" => request = "none"
               /\ request = "none" => answer = "none"
    BY <2>3 DEF ServeInv, ReadyInv, EitherInv, SentInv, TypeOK
  <2>4. write_data.writable \in {"idle", "asked"} /\ answer \in {"none", "coming", "taken"}
    BY DEF TypeOK, Content
  <2>. QED BY <2>1, <2>2, <2>3, <2>4 DEF WaitStands, Hopeless, Unanswered
<1>3. Spec => []EitherInv BY EitherInit, EitherStep, TypeCorrect, StackInvariant, PTL DEF Spec
<1>4. Spec => []ServeInv BY <1>1, ServeStep, PTL DEF Spec
<1>5. Spec => []ReadyInv BY <1>1, <1>3, ReadyStep, TypeCorrect, PTL DEF Spec
<1>6. TypeOK /\ EitherInv /\ ReadyInv /\ [Next]_vars => [Hopeless => Hopeless']_vars
  BY HopelessStep
<1>7. Spec => []WaitStands
  BY <1>2, <1>3, <1>4, <1>5, TypeCorrect, AnswerIsNotOverwritten, PTL
<1>8. Spec => [][Hopeless => Hopeless']_vars
  BY <1>3, <1>5, <1>6, TypeCorrect, PTL DEF Spec
<1>. QED BY <1>7, <1>8
=============================================================================
