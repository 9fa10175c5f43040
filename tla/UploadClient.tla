---------------------------- MODULE UploadClient ----------------------------
(***************************************************************************)
(* The C upload client: main calls sy_upload again and again.  One upload  *)
(* runs on three threads: the application ("main"), a libuv worker in      *)
(* lwst_uv_connect that serves the connection to the metadata server, and  *)
(* the peer's signaling thread, on which on_open sends the packets.        *)
(*                                                                         *)
(* main and worker share the struct write_data without a lock.  Their      *)
(* stores pass through a buffer per thread: in order on the 64 bit build,  *)
(* in any order for different fields on ARM (Weak).  The peer is what      *)
(* RTCPeerConnection shows of it: one offer, one channel, and a Destroy    *)
(* that waits for a running on_open.                                       *)
(***************************************************************************)
EXTENDS Naturals, Sequences

CONSTANTS
  Weak,             \* stores of a thread may pass each other
  Packets,          \* packets of an upload; the code sends 1251
  MaxUploads        \* bound: calls of sy_upload

ASSUME UploadAssumption ==
  /\ Weak \in BOOLEAN
  /\ Packets \in Nat \ {0} /\ MaxUploads \in Nat

VARIABLES
  app,              \* where main is in sy_upload
  uploads,          \* uploads begun
  client_exit,      \* the flag on sy_upload's stack
  worker,           \* lwst_uv_connect: none, service or done
  conn,             \* the connection: none, connecting, open or closed
  write_data,       \* memory: the struct's fields, and libwebsockets' request flag
  buffer,           \* buffer[t]: stores of thread t not yet in memory, oldest first
  request,          \* what was sent to the metadata server, "none" before
  answer,           \* its UPLOAD_READY: none, coming or taken
  offer,            \* the peer's local description: none, posted, applied or failed
  peer,             \* the peer: none, live or destroyed
  channel,          \* its channel: none, connecting, open or closed
  uploading,        \* on_open runs on the signaling thread
  sent              \* packets it has handed to Send

connVars == << conn, request, answer >>
dataVars == << write_data, buffer >>
peerVars == << offer, peer, channel, uploading, sent >>
vars == << app, uploads, client_exit, worker, connVars, dataVars, peerVars >>

Thread == {"main", "worker"}
Content == [data : {"empty", "offer", "answer"}, target : {"NULL", "wsi"},
            type : {"FS_REGISTER", "UPLOAD_REQUEST", "UPLOAD_READY"}, writable : {"idle", "asked"}]
Store == UNION {{f} \X {c[f] : c \in Content} : f \in {"data", "target", "type", "writable"}}

TypeOK ==
  /\ app \in {"start", "queue", "offer", "channel", "describe", "fill", "writable", "wait",
              "parse", "remote", "linger", "run", "free", "destroy", "returned", "crashed"}
  /\ uploads \in 0..MaxUploads
  /\ client_exit \in BOOLEAN
  /\ worker \in {"none", "service", "done"}
  /\ conn \in {"none", "connecting", "open", "closed"}
  /\ write_data \in Content
  /\ buffer \in [Thread -> Seq(Store)]
  /\ request \in {"none", "empty", "offer", "answer"}
  /\ answer \in {"none", "coming", "taken"}
  /\ offer \in {"none", "posted", "applied", "failed"}
  /\ peer \in {"none", "live", "destroyed"}
  /\ channel \in {"none", "connecting", "open", "closed"}
  /\ uploading \in BOOLEAN
  /\ sent \in 0..Packets

Blank == [data |-> "empty", target |-> "NULL", type |-> "FS_REGISTER", writable |-> "idle"]

Init ==
  /\ app = "start" /\ uploads = 0 /\ client_exit = FALSE /\ worker = "none"
  /\ conn = "none" /\ request = "none" /\ answer = "none"
  /\ write_data = Blank /\ buffer = [t \in Thread |-> << >>]
  /\ offer = "none" /\ peer = "none" /\ channel = "none"
  /\ uploading = FALSE /\ sent = 0

\* What thread t reads: its own latest store, or memory.
Read(t, field) ==
  LET own == {i \in 1..Len(buffer[t]) : buffer[t][i][1] = field}
  IN  IF own = {} THEN write_data[field]
      ELSE buffer[t][CHOOSE i \in own : \A j \in own : j <= i][2]

Write(t, stores) == buffer' = [buffer EXCEPT ![t] = @ \o stores]

\* A store of thread t to a field is on its way to memory.
Pending(t, f) == \E k \in 1..Len(buffer[t]) : buffer[t][k][1] = f

\* A store reaches memory.
Flush(t) ==
  \E i \in 1..Len(buffer[t]) :
    /\ IF Weak THEN \A j \in 1..(i - 1) : buffer[t][j][1] # buffer[t][i][1] ELSE i = 1
    /\ write_data' = [write_data EXCEPT ![buffer[t][i][1]] = buffer[t][i][2]]
    /\ buffer' = [buffer EXCEPT ![t] = SubSeq(@, 1, i - 1) \o SubSeq(@, i + 1, Len(@))]
    /\ UNCHANGED << app, uploads, client_exit, worker, connVars, peerVars >>

-----------------------------------------------------------------------------
(* sy_upload                                                               *)

\* lwst_initial; when it fails its result 0 is dereferenced.
Connect ==
  /\ app = "start" /\ uploads < MaxUploads
  /\ uploads' = uploads + 1
  /\ write_data' = Blank /\ client_exit' = FALSE
  /\ \/ app' = "queue" /\ conn' = "connecting"
     \/ app' = "crashed" /\ UNCHANGED conn
  /\ UNCHANGED << worker, request, answer, buffer, peerVars >>

QueueWork ==
  /\ app = "queue"
  /\ worker' = "service" /\ app' = "offer"
  /\ UNCHANGED << uploads, client_exit, connVars, dataVars, peerVars >>

\* RTCPeerConnection_Init, the ondatachannel callback and CreateOffer.
CreateOffer ==
  /\ app = "offer"
  /\ peer' = "live" /\ offer' = "posted" /\ app' = "channel"
  /\ UNCHANGED << uploads, client_exit, worker, connVars, dataVars, channel, uploading, sent >>

\* GetDataChannel and the onopen callback: the channel cannot open before the answer.
GetDataChannel ==
  /\ app = "channel"
  /\ channel' = "connecting" /\ app' = "describe"
  /\ UNCHANGED << uploads, client_exit, worker, connVars, dataVars, offer, peer,
                  uploading, sent >>

\* After one second the description is read, and used whether or not it is there.
Describe ==
  /\ app = "describe"
  /\ app' = IF offer = "applied" THEN "fill" ELSE "crashed"
  /\ UNCHANGED << uploads, client_exit, worker, connVars, dataVars, peerVars >>

\* Mutant: the type is stored before what it announces.
FillTypeFirst ==
  /\ app = "fill"
  /\ Write("main", << << "writable", "asked" >>, << "type", "UPLOAD_REQUEST" >>,
                      << "target", "wsi" >>, << "data", "offer" >> >>)
  /\ app' = "writable"
  /\ UNCHANGED << uploads, client_exit, worker, connVars, write_data, peerVars >>

Fill ==
  /\ app = "fill"
  /\ Write("main", << << "data", "offer" >>, << "target", "wsi" >>,
                      << "type", "UPLOAD_REQUEST" >> >>)
  /\ app' = "writable"
  /\ UNCHANGED << uploads, client_exit, worker, connVars, write_data, peerVars >>

\* Mutant: the type is stored once more after the request to write.
AskThenType ==
  /\ app = "writable"
  /\ app' = "wait"
  /\ Write("main", << << "writable", "asked" >>, << "type", "UPLOAD_REQUEST" >> >>)
  /\ UNCHANGED << uploads, client_exit, worker, connVars, write_data, peerVars >>

\* libwebsocket_callback_on_writable, on a connection the worker may have freed.
AskWritable ==
  /\ app = "writable"
  /\ \/ app' = "wait"
     \/ app' = "crashed" /\ conn = "closed"
  /\ IF conn = "closed" THEN UNCHANGED buffer ELSE Write("main", << << "writable", "asked" >> >>)
  /\ UNCHANGED << uploads, client_exit, worker, connVars, write_data, peerVars >>

\* The loop around usleep: it ends with the answer, and with nothing else.
Spin ==
  /\ app = "wait" /\ Read("main", "type") # "UPLOAD_READY"
  /\ UNCHANGED vars

Wait ==
  /\ app = "wait" /\ Read("main", "type") = "UPLOAD_READY"
  /\ app' = "parse"
  /\ UNCHANGED << uploads, client_exit, worker, connVars, dataVars, peerVars >>

\* Without an "answer" in the text the result of json_string_value is NULL, and copied.
Parse ==
  /\ app = "parse"
  /\ app' = IF Read("main", "data") = "answer" THEN "remote" ELSE "crashed"
  /\ UNCHANGED << uploads, client_exit, worker, connVars, dataVars, peerVars >>

\* A refused answer is only logged, and then the channel stays as it is.
SetRemoteDescription ==
  /\ app = "remote"
  /\ app' = "linger"
  /\ UNCHANGED << uploads, client_exit, worker, connVars, dataVars, peerVars >>

Exit ==
  /\ app = "linger"
  /\ client_exit' = TRUE /\ app' = "run"
  /\ UNCHANGED << uploads, worker, connVars, dataVars, peerVars >>

\* Mutant: the loop is run without waiting for its work (UV_RUN_NOWAIT).
RunNoWait ==
  /\ app = "run"
  /\ app' = "free"
  /\ UNCHANGED << uploads, client_exit, worker, connVars, dataVars, peerVars >>

\* uv_run returns when the worker has.
Run ==
  /\ app = "run" /\ worker = "done"
  /\ app' = "free"
  /\ UNCHANGED << uploads, client_exit, worker, connVars, dataVars, peerVars >>

\* The second json_decref is of an object the first one has freed.
FreeJson ==
  /\ app = "free"
  /\ app' \in {"destroy", "crashed"}
  /\ UNCHANGED << uploads, client_exit, worker, connVars, dataVars, peerVars >>

\* Mutant: Destroy goes past the signaling thread.
DestroyAtOnce ==
  /\ app = "destroy"
  /\ peer' = "destroyed" /\ channel' = "closed" /\ uploading' = FALSE
  /\ app' = "returned"
  /\ UNCHANGED << uploads, client_exit, worker, connVars, dataVars, offer, sent >>

\* RTCPeerConnection_Destroy; UPLOAD_OK is returned in any case.
Destroy ==
  /\ app = "destroy" /\ ~uploading
  /\ peer' = "destroyed" /\ channel' = "closed"
  /\ app' = "returned"
  /\ UNCHANGED << uploads, client_exit, worker, connVars, dataVars, offer, uploading, sent >>

\* main sleeps and begins the next upload; nothing of this one is used again.
Again ==
  /\ app = "returned" /\ uploads < MaxUploads
  /\ app' = "start" /\ worker' = "none"
  /\ conn' = "none" /\ request' = "none" /\ answer' = "none"
  /\ offer' = "none" /\ peer' = "none" /\ channel' = "none" /\ sent' = 0
  /\ buffer' = [t \in Thread |-> << >>]
  /\ UNCHANGED << uploads, client_exit, write_data, uploading >>

-----------------------------------------------------------------------------
(* lwst_uv_connect and callback_client, on the worker                      *)

Serving == worker = "service" /\ app # "crashed"

\* CLIENT_ESTABLISHED; a request to write made before may have been lost.
Established ==
  /\ Serving /\ conn = "connecting"
  /\ conn' = "open"
  /\ \/ UNCHANGED write_data
     \/ write_data' = [write_data EXCEPT !.writable = "idle"]
  /\ UNCHANGED << app, uploads, client_exit, worker, request, answer, buffer, peerVars >>

\* CLIENT_CONNECTION_ERROR and CLOSED are only logged; the connection is freed.
Closed ==
  /\ Serving /\ conn \in {"connecting", "open"}
  /\ conn' = "closed"
  /\ UNCHANGED << app, uploads, client_exit, worker, request, answer, dataVars, peerVars >>

\* CLIENT_WRITEABLE
Writeable ==
  /\ Serving /\ conn = "open" /\ write_data.writable = "asked"
  /\ write_data' = [write_data EXCEPT !.writable = "idle"]
  /\ IF Read("worker", "type") = "UPLOAD_REQUEST"
     THEN IF Read("worker", "target") = "wsi"
          THEN request' = Read("worker", "data") /\ UNCHANGED app
          ELSE app' = "crashed" /\ UNCHANGED request
     ELSE UNCHANGED << request, app >>
  /\ UNCHANGED << uploads, client_exit, worker, conn, answer, buffer, peerVars >>

\* Mutant: the type is stored first.
ReceiveTypeFirst ==
  /\ Serving /\ conn = "open" /\ answer = "coming"
  /\ answer' = "taken"
  /\ Write("worker", << << "type", "UPLOAD_READY" >>, << "data", "answer" >>,
                        << "target", "NULL" >> >>)
  /\ UNCHANGED << app, uploads, client_exit, worker, conn, request, write_data, peerVars >>

\* CLIENT_RECEIVE: memset and strcpy as one store, the type last.
Receive ==
  /\ Serving /\ conn = "open" /\ answer = "coming"
  /\ answer' = "taken"
  /\ Write("worker", << << "data", "answer" >>, << "target", "NULL" >>,
                        << "type", "UPLOAD_READY" >> >>)
  /\ UNCHANGED << app, uploads, client_exit, worker, conn, request, write_data, peerVars >>

\* Mutant: the service loop looks at the connection and not at the flag.
EndWhenClosed(failed) ==
  /\ Serving /\ (conn = "closed" \/ failed)
  /\ worker' = "done"
  /\ UNCHANGED << app, uploads, client_exit, connVars, dataVars, peerVars >>

\* Between two calls of libwebsocket_service: the flag is set, or a call failed.
End(failed) ==
  /\ Serving /\ (client_exit \/ failed)
  /\ worker' = "done" /\ conn' = "closed"
  /\ UNCHANGED << app, uploads, client_exit, request, answer, dataVars, peerVars >>

\* The metadata server and the file server behind it, who may also never answer.
Answer ==
  /\ request = "offer" /\ answer = "none" /\ conn = "open" /\ app # "crashed"
  /\ answer' = "coming"
  /\ UNCHANGED << app, uploads, client_exit, worker, conn, request, dataVars, peerVars >>

-----------------------------------------------------------------------------
(* The signaling thread                                                    *)

SignalFree == peer = "live" /\ ~uploading /\ app # "crashed"

ApplyOffer ==
  /\ SignalFree /\ offer = "posted"
  /\ offer' \in {"applied", "failed"}
  /\ UNCHANGED << app, uploads, client_exit, worker, connVars, dataVars, peer, channel,
                  uploading, sent >>

OnOpen ==
  /\ SignalFree /\ channel = "connecting" /\ app \in {"linger", "run", "free", "destroy"}
  /\ channel' = "open" /\ uploading' = TRUE
  /\ UNCHANGED << app, uploads, client_exit, worker, connVars, dataVars, offer, peer, sent >>

\* Mutant: one packet more than there are.
SendTooMany ==
  /\ uploading /\ sent <= Packets /\ app # "crashed"
  /\ sent' = sent + 1
  /\ UNCHANGED << app, uploads, client_exit, worker, connVars, dataVars, offer, peer,
                  channel, uploading >>

\* The result of Send is not looked at.
Send ==
  /\ uploading /\ sent < Packets /\ app # "crashed"
  /\ sent' = sent + 1
  /\ UNCHANGED << app, uploads, client_exit, worker, connVars, dataVars, offer, peer,
                  channel, uploading >>

OnOpenReturn ==
  /\ uploading /\ sent = Packets /\ app # "crashed"
  /\ uploading' = FALSE
  /\ UNCHANGED << app, uploads, client_exit, worker, connVars, dataVars, offer, peer,
                  channel, sent >>

-----------------------------------------------------------------------------
Main ==
  \/ Connect \/ QueueWork \/ CreateOffer \/ GetDataChannel \/ Describe
  \/ Fill \/ AskWritable \/ Wait \/ Parse \/ SetRemoteDescription
  \/ Exit \/ Run \/ FreeJson \/ Destroy \/ Again

Service == Established \/ Writeable \/ Receive \/ End(FALSE)

Peer == ApplyOffer \/ OnOpen \/ Send \/ OnOpenReturn

Memory == \E t \in Thread : Flush(t)

\* The last upload has returned, or the process is gone.
Done ==
  /\ app = "crashed" \/ (app = "returned" /\ uploads = MaxUploads)
  /\ UNCHANGED vars

Next == Main \/ Service \/ Peer \/ Memory \/ Answer \/ Closed \/ End(TRUE)
        \/ Spin \/ Done

Spec == Init /\ [][Next]_vars

\* Every thread goes on, and a store reaches memory.  Nobody has to answer.
FairSpec ==
  /\ Spec
  /\ WF_vars(Main) /\ WF_vars(Service) /\ WF_vars(Memory)
  /\ WF_vars(ApplyOffer) /\ WF_vars(Send) /\ WF_vars(OnOpenReturn)

-----------------------------------------------------------------------------
(* Properties                                                              *)

\* What goes out is the whole offer, though main and worker share the struct unlocked.
RequestIsOffer == request \in {"none", "offer"}

\* "wait for FS_UPLOAD_READY fs SDP and candidate": behind the loop the text is there.
AnswerArrived == app = "parse" => Read("main", "data") = "answer"

\* client_exit and work live on sy_upload's stack: when it returns neither the worker
\* nor on_open, which were given their addresses, still runs.
StackOutlived == app = "returned" => worker # "service" /\ ~uploading

\* An upload that has begun is carried to its end: Destroy does not cut it short.
NeverCutShort == peer = "destroyed" => sent \in {0, Packets}

\* The answer that has been taken is not lost again: no late store of main's takes back the
\* type the worker has stored, or will take it back, so the loop around usleep can end.
AnswerStays ==
  answer = "taken" => /\ Read("worker", "type") = "UPLOAD_READY"
                      /\ \A i \in 1..Len(buffer["main"]) : buffer["main"][i][1] # "type"

\* sy_upload waits for an answer that cannot come: the connection is gone, or it is there
\* and nothing was sent, and nothing asks to be, since the request to write was lost.
Hopeless ==
  /\ app = "wait" /\ answer # "taken"
  /\ \/ conn = "closed"
     \/ /\ conn = "open" /\ request = "none"
        /\ write_data.writable = "idle" /\ ~Pending("main", "writable")

\* It waits for the servers, on a connection that is there: the metadata server may have
\* found nobody to ask, and a file server that has ended answers no more.
Unanswered == app = "wait" /\ conn = "open" /\ request # "none" /\ answer = "none"

\* There are two ways for sy_upload not to end, both at the loop around usleep: an answer that
\* cannot come, and one that nobody sends.  In every other case it returns, or the process
\* ends: what is asked to be written is written, an answer that comes is taken from the
\* connection and seen through the struct, and uv_run and Destroy get what they wait for.
Returns ==
  app = "queue" ~> app \in {"returned", "crashed"} \/ []Hopeless \/ []Unanswered

\* "close the libwebsocket connection and then start rtcdc connection": by the time the
\* channel of the rtcdc connection is open the websocket is closed.
ClosedBeforeRtcdc == channel = "open" => conn = "closed"
=============================================================================
