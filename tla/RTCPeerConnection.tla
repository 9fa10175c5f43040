-------------------------- MODULE RTCPeerConnection --------------------------
(***************************************************************************)
(* One peer: the C wrapper RTCPeerConnection.cpp / RTCDataChannel.cpp over *)
(* libwebrtc, used by one application thread while libwebrtc calls it back *)
(* on the peer's own signaling thread.                                     *)
(*                                                                         *)
(* Every call the wrapper makes on a libwebrtc object is a proxy: the      *)
(* caller is blocked until the signaling thread is free and has run it.    *)
(* The wrapper's own stores are not.  A step of the application thread is  *)
(* therefore at most one library call with the stores that no callback can *)
(* tell apart from it; "app" says where in an API call the thread is.      *)
(***************************************************************************)
EXTENDS Naturals, Sequences

CONSTANTS
  LocalChan,        \* channels this peer creates
  RemoteChan,       \* channels the other peer opens towards this one
  NoChan,           \* the NULL channel
  Negotiations,     \* bound: descriptions the application asks for
  Early,            \* rule: callbacks are installed before the remote description
  Reopen            \* may the application ask for a channel after Close?

ASSUME ChanAssumption ==
  /\ NoChan \notin LocalChan \cup RemoteChan
  /\ LocalChan \cap RemoteChan = {}
ASSUME NegotiationsAssumption == Negotiations \in Nat
ASSUME RulesAssumption == Early \in BOOLEAN /\ Reopen \in BOOLEAN

Chan == LocalChan \cup RemoteChan

VARIABLES
  app,              \* where the application thread is in the API
  destroying,       \* Shutdown runs inside RTCPeerConnection_Destroy
  obj,              \* the PeerConnection_Obj: unborn, live or freed
  signal,           \* the signaling thread: none, running or stopped
  callback,         \* the channel whose onopen runs on that thread
  posted,           \* results of CreateOffer/CreateAnswer on their way to it
  asked,            \* descriptions asked for so far, at most Negotiations
  pcState,          \* libwebrtc's peer connection: its signaling state
  local,            \* version of the local description, 0 for none
  remote,           \* version of the remote description, 0 for none
  held,             \* the description LocalDescription/RemoteDescription copies
  dataChannel,      \* WebRtcPeerConnection::data_channel_
  target,           \* the channel an unfinished API call works on
  mem,              \* mem[c]: the wrapper object of c: unborn, live, freed
  lib,              \* lib[c]: libwebrtc's channel behind it
  observed,         \* observed[c]: libwebrtc calls the object back
  wired,            \* wired[c]: ctx_ and obj_ of the object are set
  onopen,           \* onopen[c]: the handler pointer is stored
  userdata,         \* userdata[c]: its argument is stored
  onmessage,        \* onmessage[c]: the handler pointer is stored
  ondatachannel,    \* the application replaced the default, which only logs
  delivered,        \* remote channels the application was handed
  opened,           \* history: what kOpen of c met: not_yet, handled, bare, unseen
  dropped           \* history: channels a message of which found no handler

apiVars  == << app, destroying, target, held, asked >>
peerVars == << obj, signal, pcState, local, remote, posted >>
chanVars == << dataChannel, mem, lib, observed, wired >>
handVars == << onopen, userdata, onmessage, ondatachannel >>
seenVars == << delivered, opened, dropped >>
vars == << apiVars, peerVars, chanVars, handVars, seenVars, callback >>

-----------------------------------------------------------------------------
\* Where the application thread can be.
InInit     == {"start", "socket", "create", "register", "wire"}
InShutdown == {"pcClose", "dcClose", "dcUnregister",
               "destroyClose", "destroyUnregister", "free"}
Positions  == InInit \cup InShutdown \cup
              {"idle", "userdata", "copy", "close", "unregister", "closed",
               "stop", "delete", "gone", "crashed"}

NoDescription == << "none", 0 >>

TypeOK ==
  /\ app \in Positions
  /\ destroying \in BOOLEAN
  /\ obj \in {"unborn", "live", "freed"}
  /\ signal \in {"none", "running", "stopped"}
  /\ callback \in Chan \cup {NoChan}
  /\ posted \in Seq({"offer", "answer", "error"})
  /\ asked \in 0..Negotiations
  /\ pcState \in {"none", "stable", "have-local-offer", "have-remote-offer", "closed"}
  /\ local \in Nat
  /\ remote \in Nat
  /\ held \in {"none", "local", "remote"} \X Nat
  /\ dataChannel \in Chan \cup {NoChan}
  /\ target \in Chan \cup {NoChan}
  /\ mem \in [Chan -> {"unborn", "live", "freed"}]
  /\ lib \in [Chan -> {"none", "null", "connecting", "open", "closed"}]
  /\ observed \in [Chan -> BOOLEAN]
  /\ wired \in [Chan -> BOOLEAN]
  /\ onopen \in [Chan -> BOOLEAN]
  /\ userdata \in [Chan -> BOOLEAN]
  /\ onmessage \in [Chan -> BOOLEAN]
  /\ ondatachannel \in BOOLEAN
  /\ delivered \in SUBSET RemoteChan
  /\ opened \in [Chan -> {"not_yet", "handled", "bare", "unseen"}]
  /\ dropped \in SUBSET Chan

Init ==
  /\ app = "start" /\ destroying = FALSE /\ target = NoChan
  /\ held = NoDescription /\ asked = 0
  /\ obj = "unborn" /\ signal = "none" /\ callback = NoChan
  /\ pcState = "none" /\ local = 0 /\ remote = 0 /\ posted = << >>
  /\ dataChannel = NoChan
  /\ mem = [c \in Chan |-> "unborn"]
  /\ lib = [c \in Chan |-> "none"]
  /\ observed = [c \in Chan |-> FALSE]
  /\ wired = [c \in Chan |-> FALSE]
  /\ onopen = [c \in Chan |-> FALSE]
  /\ userdata = [c \in Chan |-> FALSE]
  /\ onmessage = [c \in Chan |-> FALSE]
  /\ ondatachannel = FALSE
  /\ delivered = {} /\ dropped = {}
  /\ opened = [c \in Chan |-> "not_yet"]

\* The signaling thread is between two callbacks: it takes the next one, or the
\* library call the application thread waits for.
SignalFree == signal = "running" /\ callback = NoChan /\ app # "crashed"

\* Both descriptions are in place: channels open and the other peer's arrive.
Negotiated == local > 0 /\ remote > 0 /\ pcState # "closed"

\* Which descriptions libwebrtc accepts, by side and by kind, and where they lead.
Accepts(side, kind) ==
  pcState \in CASE side = "local"  /\ kind = "offer"  -> {"stable", "have-local-offer"}
                [] side = "remote" /\ kind = "offer"  -> {"stable", "have-remote-offer"}
                [] side = "local"  /\ kind = "answer" -> {"have-remote-offer"}
                [] side = "remote" /\ kind = "answer" -> {"have-local-offer"}

StateAfter(side, kind) ==
  CASE kind = "answer" -> "stable"
    [] kind = "offer" /\ side = "local"  -> "have-local-offer"
    [] kind = "offer" /\ side = "remote" -> "have-remote-offer"

\* A refused description is only logged (DummySetSessionDescriptionObserver).
ApplyLocal(kind) ==
  IF Accepts("local", kind)
  THEN local' = local + 1 /\ pcState' = StateAfter("local", kind)
  ELSE UNCHANGED << local, pcState >>

-----------------------------------------------------------------------------
(* RTCPeerConnection_Init                                                  *)

\* The constructor starts the threads and makes the factory.
Construct ==
  /\ app = "start"
  /\ app' = "socket" /\ obj' = "live" /\ signal' = "running"
  /\ UNCHANGED << destroying, target, held, asked, pcState, local, remote, posted,
                  chanVars, handVars, seenVars, callback >>

\* GetSocket -> InitConnection: the library's connection, observed by this object.
InitConnection ==
  /\ app = "socket" /\ SignalFree
  /\ app' = "create" /\ pcState' = "stable"
  /\ UNCHANGED << destroying, target, held, asked, obj, signal, local, remote, posted,
                  chanVars, handVars, seenVars, callback >>

\* A closed connection gives NULL; RTCDataChannel_Init wraps it all the same.
CreateDataChannel(c) ==
  /\ app = "create" /\ SignalFree /\ mem[c] = "unborn"
  /\ lib' = [lib EXCEPT ![c] = IF pcState = "closed" THEN "null" ELSE "connecting"]
  /\ mem' = [mem EXCEPT ![c] = "live"]
  /\ target' = c /\ app' = "register"
  /\ UNCHANGED << destroying, held, asked, peerVars, dataChannel, observed, wired,
                  handVars, seenVars, callback >>

\* SetDataChannel: callbacks are possible from here, before the object is wired.
RegisterObserver ==
  /\ app = "register"
  /\ lib[target] # "null" => SignalFree
  /\ observed' = [observed EXCEPT ![target] = lib[target] # "null"]
  /\ app' = "wire"
  /\ UNCHANGED << destroying, target, held, asked, peerVars, dataChannel, mem, lib, wired,
                  handVars, seenVars, callback >>

\* Mutant: obj_ is left out of the cyclic pointers.
WireChannelWithoutObj ==
  /\ app = "wire"
  /\ dataChannel' = target /\ target' = NoChan /\ app' = "idle"
  /\ UNCHANGED << destroying, held, asked, peerVars, mem, lib, observed, wired,
                  handVars, seenVars, callback >>

\* The cyclic pointers, and the result stored in data_channel_.
WireChannel ==
  /\ app = "wire"
  /\ wired' = [wired EXCEPT ![target] = TRUE]
  /\ dataChannel' = target /\ target' = NoChan /\ app' = "idle"
  /\ UNCHANGED << destroying, held, asked, peerVars, mem, lib, observed,
                  handVars, seenVars, callback >>

-----------------------------------------------------------------------------
(* Calls of the application                                                *)

\* Mutant: the request is made twice, on the library and through the unused member function.
AskTwice(kind) ==
  /\ app = "idle" /\ SignalFree /\ asked < Negotiations
  /\ kind = "answer" => pcState = "have-remote-offer"
  /\ posted' = posted \o << kind, kind >>
  /\ asked' = asked + 1
  /\ UNCHANGED << app, destroying, target, held, obj, signal, pcState, local, remote,
                  chanVars, handVars, seenVars, callback >>

\* Mutant: the answer comes as the provisional one AddPrAnswer sets.
AskPrAnswer(kind) ==
  /\ app = "idle" /\ SignalFree /\ asked < Negotiations
  /\ kind = "answer" => pcState = "have-remote-offer"
  /\ posted' = Append(posted, IF kind = "answer" THEN "pranswer" ELSE kind)
  /\ asked' = asked + 1
  /\ UNCHANGED << app, destroying, target, held, obj, signal, pcState, local, remote,
                  chanVars, handVars, seenVars, callback >>

\* The result is posted; both callbacks the caller passed are stored and never called.
Ask(kind) ==
  /\ app = "idle" /\ SignalFree /\ asked < Negotiations
  /\ \E result \in {kind, "error"} :
       /\ result = "answer" => pcState = "have-remote-offer"
       /\ posted' = Append(posted, result)
  /\ asked' = asked + 1
  /\ UNCHANGED << app, destroying, target, held, obj, signal, pcState, local, remote,
                  chanVars, handVars, seenVars, callback >>

CreateOffer  == Ask("offer")
CreateAnswer == Ask("answer")

SetLocalDescription(kind) ==
  /\ app = "idle" /\ SignalFree /\ asked < Negotiations
  /\ asked' = asked + 1
  /\ ApplyLocal(kind)
  /\ UNCHANGED << app, destroying, target, held, obj, signal, remote, posted,
                  chanVars, handVars, seenVars, callback >>

\* NULL, an unparsable text and a refused description all return in silence.
SetRemoteDescription(kind) ==
  /\ app = "idle" /\ SignalFree /\ remote < Negotiations
  /\ Early => ondatachannel /\ dataChannel # NoChan /\ userdata[dataChannel]
  /\ Accepts("remote", kind)
  /\ remote' = remote + 1
  /\ pcState' = StateAfter("remote", kind)
  /\ UNCHANGED << apiVars, obj, signal, local, posted,
                  chanVars, handVars, seenVars, callback >>

\* The call to the library returns a pointer into it ...
ReadDescription(side, version) ==
  /\ app = "idle" /\ SignalFree /\ version > 0
  /\ held' = << side, version >> /\ app' = "copy"
  /\ UNCHANGED << destroying, target, asked, peerVars,
                  chanVars, handVars, seenVars, callback >>

LocalDescription  == ReadDescription("local", local)
RemoteDescription == ReadDescription("remote", remote)

\* ... whose fields are copied on the application thread afterwards.
CopyDescription ==
  /\ app = "copy"
  /\ held' = NoDescription /\ app' = "idle"
  /\ UNCHANGED << destroying, target, asked, peerVars,
                  chanVars, handVars, seenVars, callback >>

\* Mutant: a channel is made without looking whether there is one.
GetDataChannelAlways ==
  /\ app = "idle" /\ Reopen
  /\ \E c \in LocalChan : mem[c] = "unborn"
  /\ dataChannel' = NoChan /\ app' = "create"
  /\ UNCHANGED << destroying, target, held, asked, peerVars, mem, lib, observed, wired,
                  handVars, seenVars, callback >>

\* GetDataChannel and CreateDataChannel: the label counts only if there is none yet.
GetDataChannel ==
  /\ app = "idle" /\ dataChannel = NoChan /\ Reopen
  /\ \E c \in LocalChan : mem[c] = "unborn"
  /\ app' = "create"
  /\ UNCHANGED << destroying, target, held, asked, peerVars,
                  chanVars, handVars, seenVars, callback >>

SetCallback_ondatachannel ==
  /\ app = "idle"
  /\ ondatachannel' = TRUE
  /\ UNCHANGED << apiVars, peerVars, chanVars, onopen, userdata, onmessage,
                  seenVars, callback >>

\* The channels the application has a pointer to.
Known == (IF dataChannel = NoChan THEN {} ELSE {dataChannel}) \cup delivered

SetCallback_onmessage(c) ==
  /\ app = "idle" /\ c \in Known
  /\ onmessage' = [onmessage EXCEPT ![c] = TRUE]
  /\ UNCHANGED << apiVars, peerVars, chanVars, onopen, userdata, ondatachannel,
                  seenVars, callback >>

\* Two stores, and the signaling thread may open the channel between them.
SetCallback_onopen(c) ==
  /\ app = "idle" /\ c \in Known
  /\ onopen' = [onopen EXCEPT ![c] = TRUE]
  /\ target' = c /\ app' = "userdata"
  /\ UNCHANGED << destroying, held, asked, peerVars, chanVars, userdata, onmessage,
                  ondatachannel, seenVars, callback >>

StoreUserdata ==
  /\ app = "userdata"
  /\ userdata' = [userdata EXCEPT ![target] = TRUE]
  /\ target' = NoChan /\ app' = "idle"
  /\ UNCHANGED << destroying, held, asked, peerVars, chanVars, onopen, onmessage,
                  ondatachannel, seenVars, callback >>

-----------------------------------------------------------------------------
(* Shutdown, from RTCPeerConnection_Close and RTCPeerConnection_Destroy    *)

Close(destroy) ==
  /\ app = "idle"
  /\ destroying' = destroy /\ app' = "pcClose"
  /\ UNCHANGED << target, held, asked, peerVars, chanVars, handVars, seenVars, callback >>

AfterShutdown == IF destroying THEN "stop" ELSE "idle"

\* Mutant: Shutdown goes straight to the data channel.
SkipCloseConnection ==
  /\ app = "pcClose" /\ SignalFree
  /\ app' = IF dataChannel = NoChan THEN AfterShutdown ELSE "dcClose"
  /\ UNCHANGED << destroying, target, held, asked, peerVars,
                  chanVars, handVars, seenVars, callback >>

\* peer_connection_->Close()
CloseConnection ==
  /\ app = "pcClose" /\ SignalFree
  /\ pcState' = "closed"
  /\ app' = IF dataChannel = NoChan THEN AfterShutdown ELSE "dcClose"
  /\ UNCHANGED << destroying, target, held, asked, obj, signal, local, remote, posted,
                  chanVars, handVars, seenVars, callback >>

\* WebRtcDataChannel::Close: the library's Close, before the test for NULL ...
CloseChannel(at, c, next) ==
  /\ app = at
  /\ IF lib[c] = "null"
     THEN app' = "crashed" /\ UNCHANGED lib
     ELSE SignalFree /\ app' = next /\ lib' = [lib EXCEPT ![c] = "closed"]
  /\ UNCHANGED << destroying, target, held, asked, peerVars, dataChannel, mem, observed, wired,
                  handVars, seenVars, callback >>

\* Mutant: unregistering is left to somebody else, as in the destructor.
UnregisterNobody(at, c, next) ==
  /\ app = at /\ SignalFree
  /\ app' = next
  /\ UNCHANGED << destroying, target, held, asked, peerVars, chanVars,
                  handVars, seenVars, callback >>

\* Mutant: the reference is dropped with the observer.
UnregisterAndRelease(at, c, next) ==
  /\ app = at /\ SignalFree
  /\ observed' = [observed EXCEPT ![c] = FALSE]
  /\ lib' = [lib EXCEPT ![c] = "null"]
  /\ app' = next
  /\ UNCHANGED << destroying, target, held, asked, peerVars, dataChannel, mem, wired,
                  handVars, seenVars, callback >>

\* Mutant: the observer is removed without going through the signaling thread.
UnregisterAtOnce(at, c, next) ==
  /\ app = at
  /\ observed' = [observed EXCEPT ![c] = FALSE]
  /\ app' = next
  /\ UNCHANGED << destroying, target, held, asked, peerVars, dataChannel, mem, lib, wired,
                  handVars, seenVars, callback >>

\* ... and then its UnregisterObserver.
UnregisterObserver(at, c, next) ==
  /\ app = at /\ SignalFree
  /\ observed' = [observed EXCEPT ![c] = FALSE]
  /\ app' = next
  /\ UNCHANGED << destroying, target, held, asked, peerVars, dataChannel, mem, lib, wired,
                  handVars, seenVars, callback >>

\* Shutdown closes the channel, then RTCDataChannel_Destroy closes it again and deletes.
ShutdownChannel ==
  \/ CloseChannel("dcClose", dataChannel, "dcUnregister")
  \/ UnregisterObserver("dcUnregister", dataChannel, "destroyClose")
  \/ CloseChannel("destroyClose", dataChannel, "destroyUnregister")
  \/ UnregisterObserver("destroyUnregister", dataChannel, "free")

\* RTCDataChannel_Close, called by the application on a channel it has: "user's duty".
RTCDataChannel_Close(c) ==
  /\ app = "idle" /\ c \in Known
  /\ target' = c /\ app' = "close"
  /\ UNCHANGED << destroying, held, asked, peerVars, chanVars, handVars, seenVars, callback >>

UserClose ==
  \/ CloseChannel("close", target, "unregister")
  \/ UnregisterObserver("unregister", target, "closed")

UserClosed ==
  /\ app = "closed"
  /\ target' = NoChan /\ app' = "idle"
  /\ UNCHANGED << destroying, held, asked, peerVars, chanVars, handVars, seenVars, callback >>

FreeChannel ==
  /\ app = "free"
  /\ mem' = [mem EXCEPT ![dataChannel] = "freed"]
  /\ dataChannel' = NoChan /\ app' = AfterShutdown
  /\ UNCHANGED << destroying, target, held, asked, peerVars, lib, observed, wired,
                  handVars, seenVars, callback >>

\* Mutant: the thread is joined only once its queue is empty.
StopThreadsWhenDrained ==
  /\ app = "stop" /\ SignalFree /\ posted = << >>
  /\ signal' = "stopped" /\ app' = "delete"
  /\ UNCHANGED << destroying, target, held, asked, obj, pcState, local, remote, posted,
                  chanVars, handVars, seenVars, callback >>

\* The destructor joins the threads; what is still posted is never delivered.
StopThreads ==
  /\ app = "stop" /\ SignalFree
  /\ signal' = "stopped" /\ app' = "delete"
  /\ UNCHANGED << destroying, target, held, asked, obj, pcState, local, remote, posted,
                  chanVars, handVars, seenVars, callback >>

Delete ==
  /\ app = "delete"
  /\ obj' = "freed" /\ app' = "gone"
  /\ UNCHANGED << destroying, target, held, asked, signal, pcState, local, remote, posted,
                  chanVars, handVars, seenVars, callback >>

-----------------------------------------------------------------------------
(* The signaling thread                                                    *)

\* OnSuccess applies the description itself; OnFailure only logs.
OnResult ==
  /\ SignalFree /\ posted # << >>
  /\ posted' = Tail(posted)
  /\ IF Head(posted) = "error" THEN UNCHANGED << local, pcState >>
                               ELSE ApplyLocal(Head(posted))
  /\ UNCHANGED << apiVars, obj, signal, remote, chanVars, handVars, seenVars, callback >>

\* OnStateChange at kOpen: libwebrtc reports it once, to whoever is observing.
OnOpen(c) ==
  /\ SignalFree /\ Negotiated /\ lib[c] = "connecting"
  /\ lib' = [lib EXCEPT ![c] = "open"]
  /\ callback' = IF observed[c] /\ onopen[c] THEN c ELSE NoChan
  /\ opened' = [opened EXCEPT ![c] = IF ~(observed[c] /\ onopen[c]) THEN "unseen"
                                     ELSE IF userdata[c] THEN "handled" ELSE "bare"]
  /\ UNCHANGED << apiVars, peerVars, dataChannel, mem, observed, wired, handVars,
                  delivered, dropped >>

OnOpenReturn ==
  /\ callback # NoChan /\ app # "crashed"
  /\ callback' = NoChan
  /\ UNCHANGED << apiVars, peerVars, chanVars, handVars, seenVars >>

OnMessage(c) ==
  /\ SignalFree /\ lib[c] = "open" /\ observed[c]
  /\ dropped' = IF onmessage[c] THEN dropped ELSE dropped \cup {c}
  /\ UNCHANGED << apiVars, peerVars, chanVars, handVars, delivered, opened, callback >>

\* Mutant: the default callback, which only logs, is called in place of the application's.
OnDataChannelLogged(c) ==
  /\ SignalFree /\ Negotiated /\ mem[c] = "unborn"
  /\ mem' = [mem EXCEPT ![c] = "live"]
  /\ lib' = [lib EXCEPT ![c] = "connecting"]
  /\ observed' = [observed EXCEPT ![c] = TRUE]
  /\ wired' = [wired EXCEPT ![c] = TRUE]
  /\ UNCHANGED << apiVars, peerVars, dataChannel, handVars, seenVars, callback >>

\* The new wrapper is complete when the handler sees it: all on this thread.
OnDataChannel(c) ==
  /\ SignalFree /\ Negotiated /\ mem[c] = "unborn"
  /\ mem' = [mem EXCEPT ![c] = "live"]
  /\ lib' = [lib EXCEPT ![c] = "connecting"]
  /\ observed' = [observed EXCEPT ![c] = TRUE]
  /\ wired' = [wired EXCEPT ![c] = TRUE]
  /\ delivered' = IF ondatachannel THEN delivered \cup {c} ELSE delivered
  /\ \E set \in BOOLEAN :
       /\ set => ondatachannel
       /\ Early /\ ondatachannel => set
       /\ onmessage' = [onmessage EXCEPT ![c] = set]
  /\ UNCHANGED << apiVars, peerVars, dataChannel, onopen, userdata, ondatachannel,
                  opened, dropped, callback >>

\* The other peer, or the transport, ends a channel: kClosed is ignored.
OnClosed(c) ==
  /\ SignalFree /\ lib[c] \in {"connecting", "open"}
  /\ lib' = [lib EXCEPT ![c] = "closed"]
  /\ UNCHANGED << apiVars, peerVars, dataChannel, mem, observed, wired, handVars,
                  seenVars, callback >>

-----------------------------------------------------------------------------
\* Steps inside an API call: once begun, the call goes on.
InCall ==
  \/ Construct \/ InitConnection
  \/ \E c \in LocalChan : CreateDataChannel(c)
  \/ RegisterObserver \/ WireChannel
  \/ StoreUserdata \/ CopyDescription
  \/ CloseConnection \/ ShutdownChannel \/ FreeChannel
  \/ UserClose \/ UserClosed
  \/ StopThreads \/ Delete

NewCall ==
  \/ CreateOffer \/ CreateAnswer
  \/ \E kind \in {"offer", "answer"} : SetLocalDescription(kind) \/ SetRemoteDescription(kind)
  \/ LocalDescription \/ RemoteDescription
  \/ GetDataChannel \/ SetCallback_ondatachannel
  \/ \E c \in Chan :
       SetCallback_onopen(c) \/ SetCallback_onmessage(c) \/ RTCDataChannel_Close(c)
  \/ \E destroy \in BOOLEAN : Close(destroy)

Callbacks ==
  \/ OnResult \/ OnOpenReturn
  \/ \E c \in Chan : OnOpen(c) \/ OnMessage(c) \/ OnClosed(c)
  \/ \E c \in RemoteChan : OnDataChannel(c)

\* The peer is destroyed, or the process is: nothing more happens.
Done == app \in {"gone", "crashed"} /\ UNCHANGED vars

Next == InCall \/ NewCall \/ Callbacks \/ Done

Spec == Init /\ [][Next]_vars

\* A thread that can run does, and the application's onopen returns.
FairSpec == Spec /\ WF_vars(InCall) /\ WF_vars(OnOpenReturn)

-----------------------------------------------------------------------------
(* Properties                                                              *)

\* No callback runs into freed memory: whatever libwebrtc may still call, the
\* channel objects it observes and the peer object itself, is alive.
NoFreedCallback ==
  /\ signal = "running" => obj = "live"
  /\ \A c \in Chan : observed[c] => mem[c] = "live"

\* A running onopen holds its channel: fully wired and alive until it returns,
\* although SetDataChannel registers the observer before ctx_ and obj_ are set.
OpenHoldsChannel ==
  callback # NoChan => wired[callback] /\ mem[callback] = "live" /\ signal = "running"

\* An application that asks for no channel after Close never has one over NULL,
\* which WebRtcDataChannel::Close would dereference before it tests it.
NoNullChannel ==
  ~Reopen => /\ app \in {"dcClose", "destroyClose"} => lib[dataChannel] # "null"
             /\ app = "close" => lib[target] # "null"
             /\ app # "crashed"

\* When the peer is gone no channel object it made is left behind, however many
\* times the application closed and reopened.
NoLeak ==
  app = "gone" => \A c \in LocalChan : mem[c] # "live"

\* With one negotiation the description LocalDescription copies is still libwebrtc's
\* current one: it is not replaced, and so freed, while the application thread reads it.
CopyIsLive ==
  Negotiations <= 1 /\ app = "copy" => held \in {<< "local", local >>, << "remote", remote >>}

\* With the callbacks installed before the remote description nothing is missed:
\* every open finds onopen and its argument, every channel of the other peer is
\* handed over and none of its messages is thrown away.
NothingMissed ==
  Early => /\ \A c \in LocalChan : opened[c] \in {"not_yet", "handled"}
           /\ \A c \in RemoteChan : mem[c] # "unborn" => c \in delivered
           /\ dropped \cap RemoteChan = {}

\* Every call into the wrapper returns, Destroy included: it waits for a running
\* onopen and for nothing else.
CallsReturn == app \notin {"idle", "gone"} ~> app \in {"idle", "gone", "crashed"}

\* How far the life of a channel has come, for DataChannelLifetime.
Phase(c) ==
  IF mem[c] = "unborn" THEN "absent"
  ELSE IF mem[c] = "freed" THEN "freed"
  ELSE IF observed[c] THEN "attached" ELSE "detached"

Lifetime ==
  INSTANCE DataChannelLifetime WITH busy <- callback, phase <- [c \in Chan |-> Phase(c)]

\* The channels live the life DataChannelLifetime promises: attached, detached and
\* freed in order, with no call on a channel that is not attached and none cut short.
LifetimeSpec == Lifetime!Spec

-----------------------------------------------------------------------------
(* The inductive invariant behind the safety properties                    *)

\* Where the application thread is decides which objects and threads exist.
ThreadInv ==
  /\ obj = IF app = "start" THEN "unborn" ELSE IF app = "gone" THEN "freed" ELSE "live"
  /\ signal = IF app = "start" THEN "none"
              ELSE IF app \in {"delete", "gone"} THEN "stopped" ELSE "running"
  /\ callback # NoChan => signal = "running" /\ observed[callback] /\ onopen[callback]
  /\ app \in {"start", "socket"} <=> pcState = "none"
  /\ app \in (InShutdown \ {"pcClose"}) \cup {"stop", "delete", "gone"} => pcState = "closed"

\* An observed object is alive, and a handler only ever sits in a wired one.
ChannelInv ==
  \A c \in Chan :
    /\ observed[c] => mem[c] = "live"
    /\ lib[c] \in {"none", "null"} => ~observed[c]
    /\ onopen[c] => wired[c]
    /\ mem[c] = "unborn" => lib[c] = "none" /\ ~wired[c]

\* data_channel_ and the channel under construction are this peer's only live ones.
OwnerInv ==
  /\ dataChannel # NoChan =>
       /\ dataChannel \in LocalChan
       /\ mem[dataChannel] = "live" /\ wired[dataChannel]
  /\ app \in {"register", "wire"} =>
       /\ target \in LocalChan
       /\ mem[target] = "live" /\ lib[target] # "none" /\ ~onopen[target]
  /\ app = "register" => ~observed[target]
  /\ app = "userdata" => target \in Chan /\ onopen[target]
  /\ app \in {"close", "unregister", "closed"} => target \in Chan /\ mem[target] = "live"
  /\ app \in InInit \cup {"stop", "delete", "gone"} => dataChannel = NoChan
  /\ app \in InShutdown \ {"pcClose"} => dataChannel # NoChan
  /\ \A c \in LocalChan : mem[c] = "live" =>
       c = dataChannel \/ (app \in {"register", "wire"} /\ c = target)
  /\ delivered \subseteq {c \in RemoteChan : mem[c] = "live" /\ wired[c]}

\* Once closed the channel cannot open, and between Close and delete it stays unobserved.
ShutdownInv ==
  /\ app \in InShutdown \ {"pcClose", "dcClose"} => lib[dataChannel] = "closed"
  /\ app \in {"destroyClose", "destroyUnregister", "free"} => ~observed[dataChannel]
  /\ app \in {"unregister", "closed"} => lib[target] = "closed"

\* Only a connection that is closed already gives a NULL channel.
NullInv ==
  ~Reopen => /\ \A c \in Chan : lib[c] # "null"
             /\ app = "create" => pcState # "closed"
             /\ app # "crashed"

\* An open connection has its channels alive, a channel still to open is observed, and
\* the rule puts the callbacks before the remote description, without which none opens.
EarlyInv ==
  /\ pcState # "closed" =>
       /\ \A c \in LocalChan : mem[c] # "freed"
       /\ \A c \in Chan : lib[c] # "null"
  /\ \A c \in Chan : lib[c] = "connecting" =>
       observed[c] \/ (app = "register" /\ c = target)
  /\ \A c \in Chan : userdata[c] => onopen[c]
  /\ Early =>
       /\ remote > 0 => ondatachannel
       /\ remote > 0 /\ pcState # "closed" => dataChannel # NoChan /\ userdata[dataChannel]
       /\ \A c \in RemoteChan : mem[c] # "unborn" => onmessage[c]

\* Each description asked for is applied once at most.
CopyInv ==
  /\ local + Len(posted) <= asked
  /\ app = "copy" =>
       held = << "remote", remote >> \/ \E v \in 1..local : held = << "local", v >>

IInv == TypeOK /\ ThreadInv /\ ChannelInv /\ OwnerInv /\ ShutdownInv /\ NullInv
        /\ EarlyInv /\ NothingMissed /\ CopyInv
=============================================================================
