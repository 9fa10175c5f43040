------------------------------- MODULE Drivers -------------------------------
(***************************************************************************)
(* The two test programs of the wrapper, offer.cc ("O") and answer.cc      *)
(* ("A"), in two terminals.  They exchange their descriptions through the  *)
(* files offerSDP and answerSDP, and a person starts them, presses Enter   *)
(* and types.  offer.cc exists twice: one sends a burst (src_64), the      *)
(* other what is typed (src_arm).                                          *)
(*                                                                         *)
(* A program is its sequence of library calls and stops; next to it runs   *)
(* its peer, condensed from module RTCPeerConnection: a description that   *)
(* is made and grows candidates, the "demo" channel of its own that it     *)
(* sends on, and the other program's channel, which it hears through       *)
(* on_datachannel.  Utils keeps the two globals that live from             *)
(* Libwebrtc_Init to the end of the process.                               *)
(***************************************************************************)
EXTENDS Naturals, Sequences

CONSTANTS
  Burst,            \* messages offer.cc sends in its loop; the code has 60
  MaxLines          \* bound: lines a person types into a program

ASSUME DriversAssumption == Burst \in Nat \ {0} /\ MaxLines \in Nat

Side == {"O", "A"}
Other == [O |-> "A", A |-> "O"]

VARIABLES
  at,               \* at[s]: what program s does next
  factory,          \* factory[s]: _factory of Utils: NULL, held or leaked
  signal,           \* signal[s]: the thread _signal: none, running or deleted
  file,             \* file[s]: the text s writes for the other one
  local,            \* local[s]: the local description of its peer
  copy,             \* copy[s]: what LocalDescription gave the program
  remote,           \* remote[s]: what its peer took for the other's description
  handler,          \* handler[s]: on_datachannel is set
  channel,          \* channel[s]: the channel s made
  wire,             \* wire[s]: what it carries: 0 announces the channel, then messages
  wired,            \* wired[s]: its other end has an onmessage
  sends,            \* sends[s]: how often Send was called
  taken,            \* history: taken[s]: the messages that Send took
  got,              \* history: got[s]: the messages of s the other's on_message had
  eof,              \* eof[s]: the input of s has ended
  hasty             \* history: a person did not wait until the other program waits

utilVars == << factory, signal >>
textVars == << file, local, copy, remote >>
chanVars == << handler, channel, wire, wired, sends, taken, got >>
vars == << at, utilVars, textVars, chanVars, eof, hasty >>

Texts == {"empty", "stale", "bare", "full", "long"}

TypeOK ==
  /\ at \in [Side -> {"start", "init", "factory", "peer", "offer", "describe", "truncate", "write",
                      "enter", "read", "answer", "enter2", "burst", "input", "linger",
                      "destroy", "dispose", "stop", "exit", "exited", "crashed"}]
  /\ factory \in [Side -> {"NULL", "held", "leaked"}]
  /\ signal \in [Side -> {"none", "running", "deleted"}]
  /\ file \in [Side -> Texts \cup {"absent"}]
  /\ local \in [Side -> {"none", "asked", "stale", "bare", "full", "long"}]
  /\ copy \in [Side -> {"none", "stale", "bare", "full", "long"}]
  /\ remote \in [Side -> {"none", "stale", "bare", "full"}]
  /\ handler \in [Side -> BOOLEAN]
  /\ channel \in [Side -> {"none", "connecting", "open", "closed"}]
  /\ wired \in [Side -> BOOLEAN] /\ eof \in [Side -> BOOLEAN] /\ hasty \in BOOLEAN
  /\ \A s \in Side : /\ sends[s] \in 0..(Burst + MaxLines)
                     /\ wire[s] \in Seq(0..sends[s])
                     /\ taken[s] \in Seq(1..sends[s]) /\ got[s] \in Seq(1..sends[s])

\* The files may be there from an earlier time.
Init ==
  /\ at = [s \in Side |-> "start"]
  /\ factory = [s \in Side |-> "NULL"] /\ signal = [s \in Side |-> "none"]
  /\ file \in [Side -> {"absent", "stale"}]
  /\ local = [s \in Side |-> "none"] /\ copy = [s \in Side |-> "none"]
  /\ remote = [s \in Side |-> "none"]
  /\ handler = [s \in Side |-> FALSE] /\ channel = [s \in Side |-> "none"]
  /\ wire = [s \in Side |-> << >>] /\ wired = [s \in Side |-> FALSE]
  /\ sends = [s \in Side |-> 0] /\ taken = [s \in Side |-> << >>]
  /\ got = [s \in Side |-> << >>]
  /\ eof = [s \in Side |-> FALSE] /\ hasty = FALSE

\* The order of the calls: of answer.cc, and of the two offer.cc, which differ in what comes
\* after the answer.
AnswerCalls ==
  << "start", "init", "factory", "peer", "read", "answer", "describe", "truncate", "write",
     "input", "destroy", "dispose", "stop", "exit", "exited" >>
BurstCalls ==
  << "start", "init", "factory", "peer", "offer", "describe", "truncate", "write", "enter",
     "read", "enter2", "burst", "linger", "destroy", "dispose", "stop", "exit", "exited" >>
TypedCalls ==
  << "start", "init", "factory", "peer", "offer", "describe", "truncate", "write", "enter",
     "read", "input", "destroy", "dispose", "stop", "exit", "exited" >>

Programs(s) == IF s = "A" THEN {AnswerCalls} ELSE {BurstCalls, TypedCalls}

Goto(s, place) == at' = [at EXCEPT ![s] = place]

Proceed(s) ==
  \E program \in Programs(s) : \E n \in 1..(Len(program) - 1) :
    program[n] = at[s] /\ Goto(s, program[n + 1])

Crash(s) == Goto(s, "crashed")

Ended(s) == at[s] \in {"exited", "crashed"}

\* The peer of s is there and runs callbacks.
Live(s) ==
  at[s] \notin {"start", "init", "factory", "peer", "dispose", "stop", "exit", "exited",
                "crashed"}

-----------------------------------------------------------------------------
(* The beginning and the end                                               *)

\* A person starts a program; answer.cc is to wait for offer.cc's "getchar".
Start(s) ==
  /\ at[s] = "start" /\ Proceed(s)
  /\ hasty' = (hasty \/ (s = "A" /\ at["O"] # "enter"))
  /\ UNCHANGED << utilVars, textVars, chanVars, eof >>

\* Libwebrtc_Init: the thread _signal, then the factory, which is made with it.
LibInit(s) ==
  /\ Proceed(s)
  /\ \/ at[s] = "init" /\ signal' = [signal EXCEPT ![s] = "running"] /\ UNCHANGED factory
     \/ at[s] = "factory" /\ factory' = [factory EXCEPT ![s] = "held"] /\ UNCHANGED signal
  /\ UNCHANGED << textVars, chanVars, eof, hasty >>

\* Mutant: on_datachannel is set after the remote description, with onmessage.
PeerUnheard(s) ==
  /\ at[s] = "peer" /\ Proceed(s)
  /\ channel' = [channel EXCEPT ![s] = "connecting"]
  /\ UNCHANGED << utilVars, textVars, handler, wire, wired, sends, taken, got, eof,
                  hasty >>

\* RTCPeerConnection_Init, which makes the channel, and on_datachannel.
Peer(s) ==
  /\ at[s] = "peer" /\ Proceed(s)
  /\ channel' = [channel EXCEPT ![s] = "connecting"]
  /\ handler' = [handler EXCEPT ![s] = TRUE]
  /\ UNCHANGED << utilVars, textVars, wire, wired, sends, taken, got, eof, hasty >>

\* RTCPeerConnection_Destroy: what is still on the wire may be cut off.
Destroy(s) ==
  /\ at[s] = "destroy" /\ Proceed(s)
  /\ channel' = [channel EXCEPT ![s] = "closed"]
  /\ \E n \in 0..Len(wire[s]) :
       wire' = [wire EXCEPT ![s] = SubSeq(@, 1, n), ![Other[s]] = << >>]
  /\ UNCHANGED << utilVars, textVars, handler, wired, sends, taken, got, eof, hasty >>

\* Mutant: the thread is deleted first, and then the factory given up.
DisposeThreadFirst(s) ==
  /\ Proceed(s)
  /\ \/ at[s] = "dispose" /\ signal' = [signal EXCEPT ![s] = "deleted"] /\ UNCHANGED factory
     \/ at[s] = "stop" /\ factory' = [factory EXCEPT ![s] = "leaked"] /\ UNCHANGED signal
  /\ UNCHANGED << textVars, chanVars, eof, hasty >>

\* Libwebrtc_Dispose: release() gives the factory up without freeing it; then _signal is
\* stopped and deleted.  The thread _worker, which nothing uses, is not.
Dispose(s) ==
  /\ Proceed(s)
  /\ \/ at[s] = "dispose" /\ factory' = [factory EXCEPT ![s] = "leaked"] /\ UNCHANGED signal
     \/ at[s] = "stop" /\ signal' = [signal EXCEPT ![s] = "deleted"] /\ UNCHANGED factory
  /\ UNCHANGED << textVars, chanVars, eof, hasty >>

\* exit runs the destructor of _factory, on the thread of _signal.
Exit(s) ==
  /\ at[s] = "exit"
  /\ IF factory[s] = "held" /\ signal[s] # "running" THEN Crash(s) ELSE Proceed(s)
  /\ UNCHANGED << utilVars, textVars, chanVars, eof, hasty >>

\* A person interrupts it, or the machine does.
Kill(s) ==
  /\ Live(s) /\ Crash(s)
  /\ channel' = [channel EXCEPT ![s] = "closed"]
  /\ wire' = [r \in Side |-> << >>]
  /\ UNCHANGED << utilVars, textVars, handler, wired, sends, taken, got, eof, hasty >>

-----------------------------------------------------------------------------
(* The descriptions                                                        *)

\* CreateOffer, and CreateAnswer, which fails on a peer that heard nothing.  GetDataChannel
\* and onmessage follow: the channel is there already, and nothing comes in on it.
Ask(s) ==
  /\ at[s] \in {"offer", "answer"} /\ Proceed(s)
  /\ local' = [local EXCEPT ![s] = IF s = "A" /\ remote["A"] = "none" THEN "none" ELSE "asked"]
  /\ UNCHANGED << utilVars, file, copy, remote, chanVars, eof, hasty >>

\* The result is applied, and candidates join it.  With many of them the text is longer
\* than the other program's buffer.  An answer to an old offer is of no more use than that.
\* Nobody looks after the copy is made.
Applied(s) ==
  /\ Live(s) /\ copy[s] = "none"
  /\ \/ local[s] = "asked" /\ local' = [local EXCEPT ![s] = IF remote[s] = "stale" THEN "stale"
                                                            ELSE "bare"]
     \/ local[s] = "bare" /\ \E text \in {"full", "long"} : local' = [local EXCEPT ![s] = text]
  /\ UNCHANGED << at, utilVars, file, copy, remote, chanVars, eof, hasty >>

\* Mutant: a description that is still to be applied is copied as well.
DescribeAsked(s) ==
  /\ at[s] = "describe"
  /\ IF local[s] = "none"
     THEN Crash(s) /\ UNCHANGED copy
     ELSE Proceed(s) /\ copy' = [copy EXCEPT ![s] = local[s]]
  /\ UNCHANGED << utilVars, file, local, remote, chanVars, eof, hasty >>

\* After a sleep the description is copied as it is by then; without one the program
\* prints what NULL points to.
Describe(s) ==
  /\ at[s] = "describe"
  /\ IF local[s] \in {"none", "asked"}
     THEN Crash(s) /\ UNCHANGED copy
     ELSE Proceed(s) /\ copy' = [copy EXCEPT ![s] = local[s]]
  /\ UNCHANGED << utilVars, file, local, remote, chanVars, eof, hasty >>

\* fopen "wb"
Truncate(s) ==
  /\ at[s] = "truncate" /\ Proceed(s)
  /\ file' = [file EXCEPT ![s] = "empty"]
  /\ UNCHANGED << utilVars, local, copy, remote, chanVars, eof, hasty >>

\* Mutant: the file stays open, and the text in the program's buffer.
WriteUnclosed(s) ==
  /\ at[s] = "write" /\ Proceed(s)
  /\ UNCHANGED << utilVars, textVars, chanVars, eof, hasty >>

\* fwrite and fclose
Write(s) ==
  /\ at[s] = "write" /\ Proceed(s)
  /\ file' = [file EXCEPT ![s] = copy[s]]
  /\ UNCHANGED << utilVars, local, copy, remote, chanVars, eof, hasty >>

\* The person presses Enter, first when answer.cc has done its part.
Enter(s) ==
  /\ at[s] \in {"enter", "enter2"} /\ Proceed(s)
  /\ hasty' = (hasty \/ (at[s] = "enter" /\ at["A"] # "input"))
  /\ UNCHANGED << utilVars, textVars, chanVars, eof >>

\* fopen, fread into 2048 bytes and SetRemoteDescription.  An absent file is a NULL handle,
\* and crashes.  The bytes of a long one end without a 0: the text is refused, or read past
\* its end.
\* offer.cc reads from the handle of the file it has closed, not of the one it opened:
\* the C library may give it the new file, nothing, or crash.
Read(s) ==
  /\ at[s] = "read"
  /\ \/ /\ file[Other[s]] # "absent"
        /\ \E text \in {file[Other[s]]} \cup (IF s = "O" THEN {"empty"} ELSE {}) :
             remote' = [remote EXCEPT ![s] = IF text \in {"empty", "long"} THEN "none" ELSE text]
        /\ Proceed(s)
     \/ /\ s = "O" \/ file[Other[s]] \in {"absent", "long"}
        /\ Crash(s)
        /\ UNCHANGED remote
  /\ UNCHANGED << utilVars, file, local, copy, chanVars, eof, hasty >>

-----------------------------------------------------------------------------
(* The channels                                                            *)

\* Both peers have the present description of the other, and one knows where it is.
Connected ==
  /\ \A s \in Side : Live(s) /\ remote[s] \in {"bare", "full"}
  /\ \E s \in Side : remote[s] = "full"

Opens(s) ==
  /\ Connected /\ channel[s] = "connecting"
  /\ channel' = [channel EXCEPT ![s] = "open"]
  /\ wire' = [wire EXCEPT ![s] = << 0 >>]
  /\ UNCHANGED << at, utilVars, textVars, handler, wired, sends, taken, got, eof, hasty >>

\* Mutant: on_datachannel gets the channel with its first message.
DeliverLate(s) ==
  /\ Live(Other[s]) /\ wire[s] # << >>
  /\ wire' = [wire EXCEPT ![s] = Tail(@)]
  /\ IF Head(wire[s]) # 0 /\ ~wired[s]
     THEN wired' = [wired EXCEPT ![s] = handler[Other[s]]] /\ UNCHANGED got
     ELSE /\ got' = [got EXCEPT ![s] = IF wired[s] /\ Head(wire[s]) # 0
                                      THEN Append(@, Head(wire[s])) ELSE @]
          /\ UNCHANGED wired
  /\ UNCHANGED << at, utilVars, textVars, handler, channel, sends, taken, eof, hasty >>

\* At the other end: on_datachannel sets onmessage, or on_message is called, if it is set.
Deliver(s) ==
  /\ Live(Other[s]) /\ wire[s] # << >>
  /\ wire' = [wire EXCEPT ![s] = Tail(@)]
  /\ IF Head(wire[s]) = 0
     THEN wired' = [wired EXCEPT ![s] = handler[Other[s]]] /\ UNCHANGED got
     ELSE /\ got' = [got EXCEPT ![s] = IF wired[s] THEN Append(@, Head(wire[s])) ELSE @]
          /\ UNCHANGED wired
  /\ UNCHANGED << at, utilVars, textVars, handler, channel, sends, taken, eof, hasty >>

\* The other program has gone, which a peer learns later.
Closes(s) ==
  /\ channel[s] = "open" /\ Live(s) /\ ~Live(Other[s])
  /\ channel' = [channel EXCEPT ![s] = "closed"]
  /\ UNCHANGED << at, utilVars, textVars, handler, wire, wired, sends, taken, got, eof,
                  hasty >>

\* Only an open channel takes a message; the program does not look.
Send(s) ==
  /\ sends' = [sends EXCEPT ![s] = @ + 1]
  /\ IF channel[s] = "open"
     THEN /\ wire' = [wire EXCEPT ![s] = Append(@, sends[s] + 1)]
          /\ taken' = [taken EXCEPT ![s] = Append(@, sends[s] + 1)]
     ELSE UNCHANGED << wire, taken >>
  /\ UNCHANGED << utilVars, textVars, handler, channel, wired, got, hasty >>

\* Mutant: only messages that were taken are counted.
SendBurstAll(s) ==
  /\ at[s] = "burst" /\ UNCHANGED eof
  /\ \/ Len(taken[s]) < Burst /\ sends[s] < Burst /\ UNCHANGED at /\ Send(s)
     \/ /\ Len(taken[s]) = Burst /\ Proceed(s)
        /\ UNCHANGED << utilVars, textVars, chanVars, hasty >>

\* The loop of src_64, and its end.
SendBurst(s) ==
  /\ at[s] = "burst" /\ UNCHANGED eof
  /\ \/ sends[s] < Burst /\ UNCHANGED at /\ Send(s)
     \/ /\ sends[s] = Burst /\ Proceed(s)
        /\ UNCHANGED << utilVars, textVars, chanVars, hasty >>

\* sleep(3)
Linger(s) ==
  /\ at[s] = "linger" /\ Proceed(s)
  /\ UNCHANGED << utilVars, textVars, chanVars, eof, hasty >>

\* The loop around fscanf: a word; at the end of the input fscanf gives EOF, which is not
\* 0, so the loop goes on with empty words.
SendLine(s) ==
  /\ at[s] = "input" /\ UNCHANGED << at, eof >>
  /\ sends[s] < MaxLines /\ Send(s)

Quit(s) ==
  /\ at[s] = "input" /\ ~eof[s] /\ Proceed(s)
  /\ UNCHANGED << utilVars, textVars, chanVars, eof, hasty >>

EndOfInput(s) ==
  /\ at[s] = "input" /\ ~eof[s]
  /\ eof' = [eof EXCEPT ![s] = TRUE]
  /\ UNCHANGED << at, utilVars, textVars, chanVars, hasty >>

\* As SendLine, when MaxLines is reached.
Spin(s) == at[s] = "input" /\ eof[s] /\ sends[s] = MaxLines /\ UNCHANGED vars

-----------------------------------------------------------------------------
\* What a program does without a person.
Run(s) ==
  \/ LibInit(s) \/ Peer(s) \/ Ask(s) \/ Describe(s) \/ Truncate(s) \/ Write(s) \/ Read(s)
  \/ SendBurst(s) \/ Linger(s) \/ Destroy(s) \/ Dispose(s) \/ Exit(s)

Person(s) == Start(s) \/ Enter(s) \/ SendLine(s) \/ Quit(s) \/ EndOfInput(s) \/ Kill(s)

Network(s) == Opens(s) \/ Deliver(s) \/ Closes(s)

Over == (\A s \in Side : Ended(s)) /\ UNCHANGED vars

Next == (\E s \in Side : Run(s) \/ Person(s) \/ Applied(s) \/ Network(s) \/ Spin(s)) \/ Over

Spec == Init /\ [][Next]_vars

\* Programs run and messages arrive.  Nobody has to type, and no channel has to open.
FairSpec == Spec /\ WF_vars(\E s \in Side : Run(s)) /\ WF_vars(\E s \in Side : Deliver(s))

-----------------------------------------------------------------------------
(* Properties                                                              *)

\* The other program's on_message has had the messages that were taken, in order and from
\* the first: both programs set on_datachannel before anything can open a channel, and a
\* channel is wired before its first message, whoever is faster.
GotIsPrefix ==
  \A s \in Side : Len(got[s]) <= Len(taken[s]) /\ got[s] = SubSeq(taken[s], 1, Len(got[s]))

\* A person who waits until the other program waits gives no peer an old description or
\* half a file: each file is closed before the program asks for a key.
HearsPresent ==
  ~hasty => /\ \A s \in Side : remote[s] # "stale"
            /\ at["A"] = "answer" => remote["A"] = file["O"] \/ file["O"] = "long"

\* No factory outlives its thread: it is made after the thread and given up before, step by
\* step in Libwebrtc_Init and Libwebrtc_Dispose, so that exit finds nothing to destruct.
FactoryHasThread == \A s \in Side : factory[s] = "held" => signal[s] = "running"

\* What was taken is heard, to the last message, unless one of the programs leaves.
Heard ==
  \A s \in Side : got[s] # taken[s] ~> got[s] = taken[s] \/ \E r \in Side : ~Live(r)

\* From the burst on, and from Destroy on, a program needs nobody to come to its end,
\* also when the channel never opened or the other program has gone.
Ends == \A s \in Side : at[s] \in {"burst", "destroy"} ~> Ended(s)
=============================================================================
