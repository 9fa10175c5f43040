-------------------------- MODULE FileServerProofs --------------------------
(***************************************************************************)
(* Proofs about FileServer, for any set of connections.                    *)
(***************************************************************************)
EXTENDS FileServer, FiniteSetTheorems, TLAPS

Taken == {c \in Clients : request[c] = "taken"}

\* One request at a time is in the works: the thread that took it is in its callback until
\* it is answered, or has crashed there.
OneAtATime ==
  /\ Taken # {} => main \in {"answer", "crashed"}
  /\ \A c, d \in Taken : c = d

\* The types of the variables, without the count of the requests.
Typed ==
  /\ main \in {"create", "register", "serve", "answer", "ended", "crashed"}
  /\ conn \in {"none", "connecting", "open", "failed", "closed"}
  /\ write_data \in {"none", "FS_REGISTER", "blank"}
  /\ register \in {"none", "sent", "confirmed", "acknowledged"}
  /\ session \in [Clients -> {"NULL", "allocated"}]
  /\ request \in [Clients -> {"none", "queued", "taken", "answered"}]
  /\ description \in {"none", "posted", "applied", "failed"}

Flag == sync_exit \in BOOLEAN

\* A set whose elements are all the same one has at most one.
LEMMA AtMostOne ==
  ASSUME NEW S, \A c, d \in S : c = d
  PROVE  Cardinality(S) <= 1
<1>1. CASE S = {} BY <1>1, FS_EmptySet
<1>2. CASE S # {}
  <2>1. PICK c : S = {c} BY <1>2
  <2>2. Cardinality({c}) = 1 BY FS_Singleton
  <2>. QED BY <2>1, <2>2
<1>. QED BY <1>1, <1>2

\* Each step keeps the types.
LEMMA TypedStep == Typed /\ [Next]_vars => Typed'
<1>. SUFFICES ASSUME Typed, [Next]_vars PROVE Typed'
  OBVIOUS
<1>. USE DEF Typed
<1>1. CASE Sync
  BY <1>1 DEF Sync, CreateContext, Established, Writeable, Registered, LeaveNested, metaVars
<1>2. ASSUME NEW c \in Clients, TakeRequest(c) PROVE Typed' BY <1>2 DEF TakeRequest, metaVars
<1>3. ASSUME NEW c \in Clients, Answer(c) PROVE Typed' BY <1>3 DEF Answer, metaVars
<1>4. CASE OnSuccess BY <1>4 DEF OnSuccess, metaVars
<1>5. CASE Confirm \/ Closed \/ ConnectionError
  BY <1>5 DEF Confirm, Closed, ConnectionError
<1>6. CASE ServiceFails BY <1>6 DEF ServiceFails, metaVars
<1>7. ASSUME NEW c \in Clients, Request(c) PROVE Typed' BY <1>7 DEF Request, metaVars
<1>8. CASE UNCHANGED vars BY <1>8 DEF vars, metaVars
<1>. QED BY <1>1, <1>2, <1>3, <1>4, <1>5, <1>6, <1>7, <1>8 DEF Next, Serve, Outside, Idle

\* The flag of the nested loop is set, and nothing else happens to it.
LEMMA FlagStep == Flag /\ [Next]_vars => Flag'
BY DEF Flag, Next, Sync, CreateContext, Established, Writeable, Registered, LeaveNested, Serve,
       TakeRequest, Answer, OnSuccess, Outside, Confirm, Closed, ConnectionError, ServiceFails,
       Request, Idle, vars, metaVars

\* Only the thread that is in no callback takes a request.
LEMMA OneStep == Typed /\ OneAtATime /\ [Next]_vars => OneAtATime'
<1>. SUFFICES ASSUME Typed, OneAtATime, [Next]_vars PROVE OneAtATime'
  OBVIOUS
<1>. USE DEF Typed, OneAtATime, Taken
<1>1. ASSUME UNCHANGED request, main' = main \/ main \notin {"answer", "crashed"}
      PROVE  OneAtATime'
  BY <1>1
<1>2. CASE Sync \/ OnSuccess \/ Confirm \/ Closed \/ ConnectionError \/ ServiceFails \/ UNCHANGED vars
  BY <1>1, <1>2
  DEF Sync, CreateContext, Established, Writeable, Registered, LeaveNested, OnSuccess, Confirm,
      Closed, ConnectionError, ServiceFails, vars, metaVars
<1>3. ASSUME NEW c \in Clients, TakeRequest(c) PROVE OneAtATime' BY <1>3 DEF TakeRequest
<1>4. ASSUME NEW c \in Clients, Answer(c) PROVE OneAtATime' BY <1>4 DEF Answer
<1>5. ASSUME NEW c \in Clients, Request(c) PROVE OneAtATime' BY <1>5 DEF Request
<1>. QED BY <1>2, <1>3, <1>4, <1>5 DEF Next, Serve, Outside, Idle

\* Every variable has its type, and never more than one upload request is being answered,
\* on however many connections they come.
THEOREM TypeCorrect == Spec => []TypeOK
<1>1. Init => Typed /\ OneAtATime /\ Flag
  <2>1. Init => Flag BY DEF Init, Flag
  <2>. QED BY <2>1 DEF Init, Typed, OneAtATime, Taken
<1>2. Typed /\ OneAtATime /\ Flag => TypeOK
  <2>. SUFFICES ASSUME Typed, OneAtATime, Flag PROVE TypeOK
    OBVIOUS
  <2>1. Cardinality(Taken) <= 1 BY AtMostOne DEF OneAtATime
  <2>2. sync_exit \in BOOLEAN BY DEF Flag
  <2>. QED BY <2>1, <2>2 DEF Typed, TypeOK, Taken
<1>. QED BY <1>1, <1>2, TypedStep, FlagStep, OneStep, PTL DEF Spec

-----------------------------------------------------------------------------
(* The nested loop, and what becomes of a request                          *)

\* In the nested loop the connection is made before anything is written, what is written is
\* the registration, and the loop is told when the connection is closed.
LoopInv ==
  /\ main = "create" => conn = "none" /\ write_data = "none" /\ register = "none" /\ ~sync_exit
  /\ conn = "connecting" => register = "none" /\ write_data = "none"
  /\ conn = "open" /\ ~sync_exit => write_data = "FS_REGISTER" \/ register \in {"sent", "confirmed"}
  /\ conn = "closed" => sync_exit
  /\ conn = "none" => main \in {"create", "ended", "crashed"}

\* Each step keeps LoopInv: only CLOSED takes the connection away, and it sets the flag.
LEMMA LoopStep == LoopInv /\ [Next]_vars => LoopInv'
<1>. SUFFICES ASSUME LoopInv, [Next]_vars PROVE LoopInv'
  OBVIOUS
<1>. USE DEF LoopInv
<1>1. CASE CreateContext BY <1>1 DEF CreateContext
<1>2. CASE Established BY <1>2 DEF Established, Nested
<1>3. CASE Writeable BY <1>3 DEF Writeable, Nested
<1>4. CASE Registered BY <1>4 DEF Registered, Nested
<1>5. CASE LeaveNested \/ ServiceFails BY <1>5 DEF LeaveNested, ServiceFails, metaVars
<1>6. CASE Closed BY <1>6 DEF Closed, Nested
<1>7. CASE ConnectionError BY <1>7 DEF ConnectionError, Nested
<1>8. CASE Confirm BY <1>8 DEF Confirm
<1>9. CASE Serve \/ OnSuccess \/ (\E c \in Clients : Request(c)) \/ UNCHANGED vars
  BY <1>9 DEF Serve, TakeRequest, Answer, OnSuccess, Request, vars, metaVars
<1>. QED BY <1>1, <1>2, <1>3, <1>4, <1>5, <1>6, <1>7, <1>8, <1>9 DEF Next, Sync, Outside, Idle

\* The loop nested in the callback never waits for what cannot come, unless the connection
\* was never made: it is told of every connection that closes.
THEOREM NestedLoopGoesOn == Spec => []NestedGoesOn
<1>1. Init => LoopInv BY Zenon DEF Init, LoopInv
<1>2. Typed /\ LoopInv => NestedGoesOn BY DEF Typed, LoopInv, NestedGoesOn, Nested
<1>3. Init => Typed BY DEF Init, Typed
<1>. QED BY <1>1, <1>2, <1>3, TypedStep, LoopStep, PTL DEF Spec

\* The pointer of no session is ever set, and so no request has been answered.
UnsetInv == \A c \in Clients : session[c] = "NULL" /\ request[c] # "answered"

\* Once a request is taken the thread serves no other: it is busy with it, or has crashed.
FirstIsLast == main = "answer" => main' \in {"answer", "crashed"}

\* Each step keeps UnsetInv: Answer, which would answer, finds NULL.
LEMMA UnsetStep == Typed /\ UnsetInv /\ [Next]_vars => UnsetInv' /\ FirstIsLast
<1>. SUFFICES ASSUME Typed, UnsetInv, [Next]_vars PROVE UnsetInv' /\ FirstIsLast
  OBVIOUS
<1>. USE DEF UnsetInv, FirstIsLast
<1>1. CASE Sync \/ OnSuccess \/ Confirm \/ Closed \/ ConnectionError \/ ServiceFails \/ UNCHANGED vars
  BY <1>1
  DEF Sync, CreateContext, Established, Writeable, Registered, LeaveNested, OnSuccess, Confirm,
      Closed, ConnectionError, ServiceFails, Nested, vars, metaVars
<1>2. ASSUME NEW c \in Clients, TakeRequest(c) PROVE UnsetInv' /\ FirstIsLast
  BY <1>2 DEF TakeRequest, Typed
<1>3. ASSUME NEW c \in Clients, Answer(c) PROVE UnsetInv' /\ FirstIsLast
  BY <1>3 DEF Answer
<1>4. ASSUME NEW c \in Clients, Request(c) PROVE UnsetInv' /\ FirstIsLast
  BY <1>4 DEF Request, Typed
<1>. QED BY <1>1, <1>2, <1>3, <1>4 DEF Next, Serve, Outside, Idle

\* What run `unanswered` finds in an instance is so in every one: no request is ever
\* answered, and the first one that is taken is the last.
THEOREM NoRequestIsAnswered == Spec => []UnsetInv /\ [][FirstIsLast]_vars
<1>1. Init => Typed BY DEF Init, Typed
<1>2. Init => UnsetInv BY DEF Init, UnsetInv
<1>. QED BY <1>1, <1>2, TypedStep, UnsetStep, PTL DEF Spec
=============================================================================
