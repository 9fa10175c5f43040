----------------------------- MODULE FileServer -----------------------------
(***************************************************************************)
(* The C file server.  One thread serves two websocket contexts: its own,  *)
(* on which upload requests come, and, in a loop nested in the callback    *)
(* that starts that context, the connection to the metadata server on      *)
(* which it registers.  A second thread, the peer's signaling thread,      *)
(* makes the answer to a request.                                          *)
(***************************************************************************)
EXTENDS Naturals, FiniteSets

CONSTANTS
  Clients           \* connections on which a request may come

VARIABLES
  main,             \* the thread: create, register (the nested loop), serve, answer,
                    \* ended or crashed
  sync_exit,        \* the flag that ends the nested loop
  conn,             \* the connection to the metadata server: none, connecting, open,
                    \* failed or closed
  write_data,       \* of that connection: none, FS_REGISTER or blank
  register,         \* the registration: none, sent, confirmed or acknowledged
  session,          \* session[c]: its pointer to a write_data: NULL or allocated
  request,          \* request[c]: none, queued, taken or answered
  description       \* the answer: none, posted, applied or failed

metaVars == << sync_exit, conn, write_data, register >>
vars == << main, metaVars, session, request, description >>

TypeOK ==
  /\ main \in {"create", "register", "serve", "answer", "ended", "crashed"}
  /\ sync_exit \in BOOLEAN
  /\ conn \in {"none", "connecting", "open", "failed", "closed"}
  /\ write_data \in {"none", "FS_REGISTER", "blank"}
  /\ register \in {"none", "sent", "confirmed", "acknowledged"}
  /\ session \in [Clients -> {"NULL", "allocated"}]
  /\ request \in [Clients -> {"none", "queued", "taken", "answered"}]
  /\ Cardinality({c \in Clients : request[c] = "taken"}) <= 1
  /\ description \in {"none", "posted", "applied", "failed"}

Init ==
  /\ main = "create" /\ sync_exit = FALSE /\ conn = "none" /\ write_data = "none"
  /\ register = "none" /\ session = [c \in Clients |-> "NULL"]
  /\ request = [c \in Clients |-> "none"] /\ description = "none"

-----------------------------------------------------------------------------
\* libwebsocket_create_context: without a context the program ends.  The protocol's
\* INIT callback runs inside it, and uses the result of lwst_initial even if it is 0.
CreateContext ==
  /\ main = "create"
  /\ \/ main' = "register" /\ conn' = "connecting"
     \/ main' \in {"ended", "crashed"} /\ UNCHANGED conn
  /\ UNCHANGED << sync_exit, write_data, register, session, request, description >>

(* The nested loop: callback_sync *)

Nested == main = "register" /\ ~sync_exit

Established ==
  /\ Nested /\ conn = "connecting"
  /\ conn' = "open" /\ write_data' = "FS_REGISTER"
  /\ UNCHANGED << main, sync_exit, register, session, request, description >>

Writeable ==
  /\ Nested /\ conn = "open" /\ write_data = "FS_REGISTER"
  /\ register' = "sent" /\ write_data' = "blank"
  /\ UNCHANGED << main, sync_exit, conn, session, request, description >>

\* FS_REGISTER_OK: the callback's -1 closes the connection, whose CLOSED comes at once.
Registered ==
  /\ Nested /\ conn = "open" /\ register = "confirmed"
  /\ register' = "acknowledged" /\ conn' = "closed" /\ sync_exit' = TRUE
  /\ UNCHANGED << main, write_data, session, request, description >>

\* Mutant: CLOSED is only logged, as it is in callback_fileserver.
ClosedLogged ==
  /\ Nested /\ conn = "open"
  /\ conn' = "closed"
  /\ UNCHANGED << main, sync_exit, write_data, register, session, request, description >>

\* CLOSED by the other side
Closed ==
  /\ Nested /\ conn = "open"
  /\ conn' = "closed" /\ sync_exit' = TRUE
  /\ UNCHANGED << main, write_data, register, session, request, description >>

\* CLIENT_CONNECTION_ERROR is only logged.
ConnectionError ==
  /\ Nested /\ conn = "connecting"
  /\ conn' = "failed"
  /\ UNCHANGED << main, sync_exit, write_data, register, session, request, description >>

\* The loop ends, and with it the callback and libwebsocket_create_context.
LeaveNested ==
  /\ main = "register" /\ sync_exit
  /\ main' = "serve"
  /\ UNCHANGED << metaVars, session, request, description >>

-----------------------------------------------------------------------------
(* The outer loop: callback_fileserver *)

\* Mutant: the callback returns, and the answer is to follow.
TakeRequestAsync(c) ==
  /\ main = "serve" /\ request[c] = "queued"
  /\ request' = [request EXCEPT ![c] = "taken"]
  /\ description' = "posted"
  /\ UNCHANGED << main, metaVars, session >>

\* UPLOAD_REQUEST: the answerer, SetRemoteDescription and CreateAnswer.
TakeRequest(c) ==
  /\ main = "serve" /\ request[c] = "queued"
  /\ main' = "answer" /\ request' = [request EXCEPT ![c] = "taken"]
  /\ description' = "posted"
  /\ UNCHANGED << metaVars, session >>

\* The signaling thread has the answer, or its offer was refused.
OnSuccess ==
  /\ main = "answer" /\ description = "posted"
  /\ description' \in {"applied", "failed"}
  /\ UNCHANGED << main, metaVars, session, request >>

\* LocalDescription is read and used, there or not, and the text is copied to the
\* connection's write_data, from where it is sent.
Answer(c) ==
  /\ main = "answer" /\ request[c] = "taken"
  /\ IF description = "applied" /\ session[c] # "NULL"
     THEN main' = "serve" /\ request' = [request EXCEPT ![c] = "answered"]
     ELSE main' = "crashed" /\ UNCHANGED request
  /\ description' = "none"
  /\ UNCHANGED << metaVars, session >>

\* libwebsocket_service fails.
ServiceFails ==
  /\ \/ main = "register" /\ main' = "serve"
     \/ main = "serve" /\ main' = "ended"
  /\ UNCHANGED << metaVars, session, request, description >>

-----------------------------------------------------------------------------
(* The other programs *)

\* The metadata server registers whatever it is sent.
Confirm ==
  /\ register = "sent" /\ conn = "open"
  /\ register' = "confirmed"
  /\ UNCHANGED << main, sync_exit, conn, write_data, session, request, description >>

\* The port is bound before the nested loop runs: requests can queue from then on.
Request(c) ==
  /\ main \in {"register", "serve", "answer"} /\ request[c] = "none"
  /\ request' = [request EXCEPT ![c] = "queued"]
  /\ UNCHANGED << main, metaVars, session, description >>

-----------------------------------------------------------------------------
\* A loop with nothing to do goes on; a process that is gone does not come back.
Idle ==
  /\ \/ main = "register" /\ conn = "failed"
     \/ main = "serve"
     \/ main \in {"ended", "crashed"}
  /\ UNCHANGED vars

Sync == CreateContext \/ Established \/ Writeable \/ Registered \/ LeaveNested

Serve == \E c \in Clients : TakeRequest(c) \/ Answer(c)

Outside == Confirm \/ Closed \/ ConnectionError \/ ServiceFails \/ \E c \in Clients : Request(c)

Next == Sync \/ Serve \/ OnSuccess \/ Outside \/ Idle

Spec == Init /\ [][Next]_vars

\* The thread goes on, and a metadata server that stays connected confirms.
FairSpec == Spec /\ WF_vars(Sync) /\ WF_vars(Serve) /\ WF_vars(Confirm)

-----------------------------------------------------------------------------
(* Properties                                                              *)

\* The thread in the nested loop waits for nothing that cannot come any more: the connection
\* may still be made, there is the registration to write, or an answer to it to read.  The
\* one exception is a connection that was never made.
NestedGoesOn ==
  Nested => \/ conn \in {"connecting", "failed"}
            \/ conn = "open" /\ (write_data = "FS_REGISTER" \/ register \in {"sent", "confirmed"})

\* The loop nested in a callback holds up no request for good: each is taken up, unless
\* the process ends or the connection to the metadata server failed.
TakenUp ==
  \A c \in Clients : request[c] = "queued" ~>
    request[c] # "queued" \/ main \in {"ended", "crashed"} \/ [](conn = "failed")

\* "create answer": an answer that has been made for a request is sent, unless the
\* program ends.
Answered ==
  \A c \in Clients : request[c] = "taken" /\ description = "applied" ~>
    request[c] = "answered" \/ main = "ended"
=============================================================================
