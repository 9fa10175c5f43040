----------------------- MODULE RTCPeerConnectionProofs -----------------------
(***************************************************************************)
(* Proofs about RTCPeerConnection, for every set of channels, every bound  *)
(* on the negotiations and every rule the application may follow.          *)
(***************************************************************************)
EXTENDS RTCPeerConnection, TLAPS

USE DEF Chan, InInit, InShutdown, Positions

\* The constructor only starts the threads and the object.
LEMMA ConstructStep ==
  ASSUME IInv, Construct
  PROVE  IInv'
<1>. USE ChanAssumption, NegotiationsAssumption, RulesAssumption
         DEF IInv, Construct, SignalFree, NoDescription, apiVars, peerVars, chanVars,
             handVars, seenVars
<1>1. TypeOK' /\ ThreadInv' /\ ChannelInv' /\ OwnerInv' /\ ShutdownInv' /\ NullInv' /\
      EarlyInv' /\ NothingMissed' /\ CopyInv'
  BY DEF TypeOK, ThreadInv, ChannelInv, OwnerInv, ShutdownInv, NullInv, EarlyInv,
         NothingMissed, CopyInv
<1>. QED BY <1>1 DEF IInv

\* Making the library's connection touches no channel.
LEMMA InitConnectionStep ==
  ASSUME IInv, InitConnection
  PROVE  IInv'
<1>. USE ChanAssumption, NegotiationsAssumption, RulesAssumption
         DEF IInv, InitConnection, SignalFree, NoDescription, apiVars, peerVars, chanVars,
             handVars, seenVars
<1>1. EarlyInv'
  BY DEF ThreadInv, EarlyInv
<1>2. TypeOK' /\ ThreadInv' /\ ChannelInv' /\ OwnerInv' /\ ShutdownInv' /\ NullInv' /\
      NothingMissed' /\ CopyInv'
  BY DEF TypeOK, ThreadInv, ChannelInv, OwnerInv, ShutdownInv, NullInv, NothingMissed, CopyInv
<1>. QED BY <1>1, <1>2 DEF IInv

\* A new wrapper is alive, unobserved and the one under construction.
LEMMA CreateDataChannelStep ==
  ASSUME IInv, NEW c \in LocalChan, CreateDataChannel(c)
  PROVE  IInv'
<1>. USE ChanAssumption, NegotiationsAssumption, RulesAssumption
         DEF IInv, CreateDataChannel, SignalFree, NoDescription, apiVars, peerVars, chanVars,
             handVars, seenVars
<1>1. ChannelInv'
  BY DEF TypeOK, ChannelInv
<1>2. OwnerInv'
  BY DEF TypeOK, ChannelInv, OwnerInv
<1>3. TypeOK' /\ ThreadInv' /\ ShutdownInv' /\ NullInv' /\ EarlyInv' /\ NothingMissed' /\
      CopyInv'
  BY DEF TypeOK, ThreadInv, ShutdownInv, NullInv, EarlyInv, NothingMissed, CopyInv
<1>. QED BY <1>1, <1>2, <1>3 DEF IInv

\* The object is observed before it is wired, while it has no handler.
LEMMA RegisterObserverStep ==
  ASSUME IInv, RegisterObserver
  PROVE  IInv'
<1>. USE ChanAssumption, NegotiationsAssumption, RulesAssumption
         DEF IInv, RegisterObserver, SignalFree, NoDescription, apiVars, peerVars, chanVars,
             handVars, seenVars
<1>1. TypeOK'
  BY DEF TypeOK, OwnerInv
<1>2. ThreadInv'
  BY DEF TypeOK, ThreadInv, ChannelInv
<1>3. ChannelInv'
  BY DEF TypeOK, ChannelInv, OwnerInv
<1>4. EarlyInv'
  BY DEF TypeOK, EarlyInv
<1>5. OwnerInv' /\ ShutdownInv' /\ NullInv' /\ NothingMissed' /\ CopyInv'
  BY DEF OwnerInv, ShutdownInv, NullInv, NothingMissed, CopyInv
<1>. QED BY <1>1, <1>2, <1>3, <1>4, <1>5 DEF IInv

\* The wired object becomes data_channel_.
LEMMA WireChannelStep ==
  ASSUME IInv, WireChannel
  PROVE  IInv'
<1>. USE ChanAssumption, NegotiationsAssumption, RulesAssumption
         DEF WireChannel, SignalFree, NoDescription, apiVars, peerVars, chanVars,
             handVars, seenVars
<1>0. TypeOK
  BY DEF IInv
<1>1. TypeOK'
  <2>1. app' \in Positions /\ target' \in Chan \cup {NoChan}
    BY DEF Positions
  <2>2. wired' \in [Chan -> BOOLEAN] /\ dataChannel' \in Chan \cup {NoChan}
    BY <1>0 DEF TypeOK
  <2>. QED BY <1>0, <2>1, <2>2 DEF TypeOK
<1>. USE DEF IInv
<1>2. ChannelInv'
  BY DEF ChannelInv, OwnerInv
<1>3. OwnerInv'
  BY DEF TypeOK, OwnerInv
<1>4. EarlyInv'
  BY DEF OwnerInv, EarlyInv
<1>5. ThreadInv' /\ ShutdownInv' /\ NullInv' /\ NothingMissed' /\ CopyInv'
  BY DEF ThreadInv, ShutdownInv, NullInv, NothingMissed, CopyInv
<1>. QED BY <1>1, <1>2, <1>3, <1>4, <1>5 DEF IInv

\* The second store of SetCallback_onopen.
LEMMA StoreUserdataStep ==
  ASSUME IInv, StoreUserdata
  PROVE  IInv'
<1>. USE ChanAssumption, NegotiationsAssumption, RulesAssumption
         DEF IInv, StoreUserdata, SignalFree, NoDescription, apiVars, peerVars, chanVars,
             handVars, seenVars
<1>1. EarlyInv'
  BY DEF OwnerInv, EarlyInv
<1>2. TypeOK' /\ ThreadInv' /\ ChannelInv' /\ OwnerInv' /\ ShutdownInv' /\ NullInv' /\
      NothingMissed' /\ CopyInv'
  BY DEF TypeOK, ThreadInv, ChannelInv, OwnerInv, ShutdownInv, NullInv, NothingMissed, CopyInv
<1>. QED BY <1>1, <1>2 DEF IInv

\* The copy ends without touching the library.
LEMMA CopyDescriptionStep ==
  ASSUME IInv, CopyDescription
  PROVE  IInv'
<1>. USE ChanAssumption, NegotiationsAssumption, RulesAssumption
         DEF IInv, CopyDescription, SignalFree, NoDescription, apiVars, peerVars, chanVars,
             handVars, seenVars
<1>1. TypeOK' /\ ThreadInv' /\ ChannelInv' /\ OwnerInv' /\ ShutdownInv' /\ NullInv' /\
      EarlyInv' /\ NothingMissed' /\ CopyInv'
  BY DEF TypeOK, ThreadInv, ChannelInv, OwnerInv, ShutdownInv, NullInv, EarlyInv,
         NothingMissed, CopyInv
<1>. QED BY <1>1 DEF IInv

\* From here on the connection gives only NULL channels.
LEMMA CloseConnectionStep ==
  ASSUME IInv, CloseConnection
  PROVE  IInv'
<1>. USE ChanAssumption, NegotiationsAssumption, RulesAssumption
         DEF IInv, CloseConnection, SignalFree, NoDescription, AfterShutdown, apiVars,
             peerVars, chanVars, handVars, seenVars
<1>1. TypeOK' /\ ThreadInv' /\ ChannelInv' /\ OwnerInv' /\ ShutdownInv' /\ NullInv' /\
      EarlyInv' /\ NothingMissed' /\ CopyInv'
  BY DEF TypeOK, ThreadInv, ChannelInv, OwnerInv, ShutdownInv, NullInv, EarlyInv,
         NothingMissed, CopyInv
<1>. QED BY <1>1 DEF IInv

\* Either Close of Shutdown: no callback runs, the channel can no longer open.
LEMMA ShutdownCloseChannelStep ==
  ASSUME IInv, NEW at \in {"dcClose", "destroyClose"},
         NEW next \in {"dcUnregister", "destroyUnregister"},
         (at = "dcClose") <=> (next = "dcUnregister"), CloseChannel(at, dataChannel, next)
  PROVE  IInv'
<1>. USE ChanAssumption, NegotiationsAssumption, RulesAssumption
         DEF IInv, SignalFree, NoDescription, CloseChannel, apiVars, peerVars, chanVars,
             handVars, seenVars
<1>1. TypeOK'
  <2>1. app' \in Positions OBVIOUS
  <2>2. lib' \in [Chan -> {"none", "null", "connecting", "open", "closed"}]
    BY DEF TypeOK
  <2>. QED BY <2>1, <2>2 DEF TypeOK
<1>2. ChannelInv'
  BY DEF TypeOK, ChannelInv, OwnerInv
<1>3. ShutdownInv'
  BY DEF TypeOK, OwnerInv, ShutdownInv
<1>4. NullInv'
  BY DEF TypeOK, OwnerInv, NullInv
<1>5. EarlyInv'
  BY DEF TypeOK, EarlyInv
<1>6. ThreadInv' /\ OwnerInv' /\ NothingMissed' /\ CopyInv'
  BY DEF ThreadInv, OwnerInv, NothingMissed, CopyInv
<1>. QED BY <1>1, <1>2, <1>3, <1>4, <1>5, <1>6 DEF IInv

\* Either UnregisterObserver of Shutdown: no callback runs on the channel.
LEMMA ShutdownUnregisterStep ==
  ASSUME IInv, NEW at \in {"dcUnregister", "destroyUnregister"},
         NEW next \in {"destroyClose", "free"},
         (at = "dcUnregister") <=> (next = "destroyClose"), UnregisterObserver(at, dataChannel, next)
  PROVE  IInv'
<1>. USE ChanAssumption, NegotiationsAssumption, RulesAssumption
         DEF IInv, SignalFree, NoDescription, UnregisterObserver, apiVars, peerVars, chanVars,
             handVars, seenVars
<1>1. ShutdownInv'
  BY DEF TypeOK, OwnerInv, ShutdownInv
<1>2. EarlyInv'
  BY DEF ShutdownInv, EarlyInv
<1>3. TypeOK' /\ ThreadInv' /\ ChannelInv' /\ OwnerInv' /\ NullInv' /\ NothingMissed' /\
      CopyInv'
  BY DEF TypeOK, ThreadInv, ChannelInv, OwnerInv, NullInv, NothingMissed, CopyInv
<1>. QED BY <1>1, <1>2, <1>3 DEF IInv

\* The application starts to close a channel it knows.
LEMMA RTCDataChannel_CloseStep ==
  ASSUME IInv, NEW c \in Chan, RTCDataChannel_Close(c)
  PROVE  IInv'
<1>. USE ChanAssumption, NegotiationsAssumption, RulesAssumption
         DEF IInv, RTCDataChannel_Close, SignalFree, NoDescription, Known, apiVars, peerVars,
             chanVars, handVars, seenVars
<1>1. TypeOK' /\ ThreadInv' /\ ChannelInv' /\ OwnerInv' /\ ShutdownInv' /\ NullInv' /\
      EarlyInv' /\ NothingMissed' /\ CopyInv'
  BY DEF TypeOK, ThreadInv, ChannelInv, OwnerInv, ShutdownInv, NullInv, EarlyInv,
         NothingMissed, CopyInv
<1>. QED BY <1>1 DEF IInv

\* Its Close, as in Shutdown.
LEMMA UserCloseChannelStep ==
  ASSUME IInv, CloseChannel("close", target, "unregister")
  PROVE  IInv'
<1>. USE ChanAssumption, NegotiationsAssumption, RulesAssumption
         DEF IInv, SignalFree, NoDescription, CloseChannel, apiVars, peerVars, chanVars,
             handVars, seenVars
<1>1. ChannelInv'
  BY DEF TypeOK, ChannelInv, OwnerInv
<1>2. ShutdownInv'
  BY DEF TypeOK, OwnerInv, ShutdownInv
<1>3. NullInv'
  BY DEF TypeOK, OwnerInv, NullInv
<1>4. EarlyInv'
  BY DEF TypeOK, EarlyInv
<1>5. TypeOK'
  BY DEF TypeOK
<1>6. ThreadInv' /\ CopyInv'
  BY DEF ThreadInv, CopyInv
<1>7. OwnerInv'
  BY DEF OwnerInv
<1>8. NothingMissed'
  BY DEF NothingMissed
<1>. QED BY <1>1, <1>2, <1>3, <1>4, <1>5, <1>6, <1>7, <1>8 DEF IInv

\* Its UnregisterObserver, as in Shutdown.
LEMMA UserUnregisterStep ==
  ASSUME IInv, UnregisterObserver("unregister", target, "closed")
  PROVE  IInv'
<1>. USE ChanAssumption, NegotiationsAssumption, RulesAssumption
         DEF IInv, SignalFree, NoDescription, UnregisterObserver, apiVars, peerVars, chanVars,
             handVars, seenVars
<1>1. EarlyInv'
  BY DEF ShutdownInv, EarlyInv
<1>2. TypeOK' /\ ThreadInv' /\ ChannelInv' /\ OwnerInv' /\ ShutdownInv' /\ NullInv' /\
      NothingMissed' /\ CopyInv'
  BY DEF TypeOK, ThreadInv, ChannelInv, OwnerInv, ShutdownInv, NullInv, NothingMissed, CopyInv
<1>. QED BY <1>1, <1>2 DEF IInv

\* And its return.
LEMMA UserClosedStep ==
  ASSUME IInv, UserClosed
  PROVE  IInv'
<1>. USE ChanAssumption, NegotiationsAssumption, RulesAssumption
         DEF IInv, UserClosed, SignalFree, NoDescription, apiVars, peerVars, chanVars,
             handVars, seenVars
<1>1. TypeOK' /\ ThreadInv' /\ ChannelInv' /\ OwnerInv' /\ ShutdownInv' /\ NullInv' /\
      EarlyInv' /\ NothingMissed' /\ CopyInv'
  BY DEF TypeOK, ThreadInv, ChannelInv, OwnerInv, ShutdownInv, NullInv, EarlyInv,
         NothingMissed, CopyInv
<1>. QED BY <1>1 DEF IInv

\* The freed object is unobserved and no longer data_channel_.
LEMMA FreeChannelStep ==
  ASSUME IInv, FreeChannel
  PROVE  IInv'
<1>. USE ChanAssumption, NegotiationsAssumption, RulesAssumption
         DEF IInv, FreeChannel, SignalFree, NoDescription, AfterShutdown, apiVars, peerVars,
             chanVars, handVars, seenVars
<1>1. TypeOK'
  BY DEF TypeOK, ThreadInv
<1>2. ChannelInv'
  BY DEF ChannelInv, ShutdownInv
<1>3. OwnerInv'
  BY DEF TypeOK, OwnerInv
<1>4. EarlyInv'
  BY DEF ThreadInv, OwnerInv, EarlyInv
<1>5. NothingMissed'
  BY DEF OwnerInv, NothingMissed
<1>6. ThreadInv' /\ ShutdownInv' /\ NullInv' /\ CopyInv'
  BY DEF ThreadInv, ShutdownInv, NullInv, CopyInv
<1>. QED BY <1>1, <1>2, <1>3, <1>4, <1>5, <1>6 DEF IInv

\* The signaling thread is joined between two callbacks.
LEMMA StopThreadsStep ==
  ASSUME IInv, StopThreads
  PROVE  IInv'
<1>. USE ChanAssumption, NegotiationsAssumption, RulesAssumption
         DEF IInv, StopThreads, SignalFree, NoDescription, apiVars, peerVars, chanVars,
             handVars, seenVars
<1>1. TypeOK' /\ ThreadInv' /\ ChannelInv' /\ OwnerInv' /\ ShutdownInv' /\ NullInv' /\
      EarlyInv' /\ NothingMissed' /\ CopyInv'
  BY DEF TypeOK, ThreadInv, ChannelInv, OwnerInv, ShutdownInv, NullInv, EarlyInv,
         NothingMissed, CopyInv
<1>. QED BY <1>1 DEF IInv

\* The peer object goes once no thread can call it.
LEMMA DeleteStep ==
  ASSUME IInv, Delete
  PROVE  IInv'
<1>. USE ChanAssumption, NegotiationsAssumption, RulesAssumption
         DEF IInv, Delete, SignalFree, NoDescription, apiVars, peerVars, chanVars, handVars,
             seenVars
<1>1. TypeOK' /\ ThreadInv' /\ ChannelInv' /\ OwnerInv' /\ ShutdownInv' /\ NullInv' /\
      EarlyInv' /\ NothingMissed' /\ CopyInv'
  BY DEF TypeOK, ThreadInv, ChannelInv, OwnerInv, ShutdownInv, NullInv, EarlyInv,
         NothingMissed, CopyInv
<1>. QED BY <1>1 DEF IInv

\* A request only posts its result.
LEMMA AskStep ==
  ASSUME IInv, NEW kind \in {"offer", "answer"}, Ask(kind)
  PROVE  IInv'
<1>. USE ChanAssumption, NegotiationsAssumption, RulesAssumption
         DEF IInv, Ask, SignalFree, NoDescription, apiVars, peerVars, chanVars, handVars,
             seenVars
<1>1. CopyInv'
  BY DEF TypeOK, CopyInv
<1>2. TypeOK' /\ ThreadInv' /\ ChannelInv' /\ OwnerInv' /\ ShutdownInv' /\ NullInv' /\
      EarlyInv' /\ NothingMissed'
  BY DEF TypeOK, ThreadInv, ChannelInv, OwnerInv, ShutdownInv, NullInv, EarlyInv,
         NothingMissed
<1>. QED BY <1>1, <1>2 DEF IInv

\* A local description given by the application counts as one asked for.
LEMMA SetLocalDescriptionStep ==
  ASSUME IInv, NEW kind \in {"offer", "answer"}, SetLocalDescription(kind)
  PROVE  IInv'
<1>. USE ChanAssumption, NegotiationsAssumption, RulesAssumption
         DEF IInv, SetLocalDescription, SignalFree, NoDescription, ApplyLocal, Accepts,
             StateAfter, apiVars, peerVars, chanVars, handVars, seenVars
<1>1. CopyInv'
  BY DEF TypeOK, CopyInv
<1>2. TypeOK' /\ ThreadInv' /\ ChannelInv' /\ OwnerInv' /\ ShutdownInv' /\ NullInv' /\
      EarlyInv' /\ NothingMissed'
  BY DEF TypeOK, ThreadInv, ChannelInv, OwnerInv, ShutdownInv, NullInv, EarlyInv,
         NothingMissed
<1>. QED BY <1>1, <1>2 DEF IInv

\* Under the Early rule the callbacks are there already.
LEMMA SetRemoteDescriptionStep ==
  ASSUME IInv, NEW kind \in {"offer", "answer"}, SetRemoteDescription(kind)
  PROVE  IInv'
<1>. USE ChanAssumption, NegotiationsAssumption, RulesAssumption
         DEF IInv, SetRemoteDescription, SignalFree, NoDescription, Accepts, StateAfter,
             apiVars, peerVars, chanVars, handVars, seenVars
<1>1. TypeOK' /\ ThreadInv' /\ ChannelInv' /\ OwnerInv' /\ ShutdownInv' /\ NullInv' /\
      EarlyInv' /\ NothingMissed' /\ CopyInv'
  BY DEF TypeOK, ThreadInv, ChannelInv, OwnerInv, ShutdownInv, NullInv, EarlyInv,
         NothingMissed, CopyInv
<1>. QED BY <1>1 DEF IInv

\* The pointer read is the current description.
LEMMA ReadDescriptionStep ==
  ASSUME IInv, NEW side \in {"local", "remote"}, NEW version \in Nat,
         version = IF side = "local" THEN local ELSE remote, ReadDescription(side, version)
  PROVE  IInv'
<1>. USE ChanAssumption, NegotiationsAssumption, RulesAssumption
         DEF IInv, ReadDescription, SignalFree, NoDescription, apiVars, peerVars, chanVars,
             handVars, seenVars
<1>1. TypeOK' /\ ThreadInv' /\ ChannelInv' /\ OwnerInv' /\ ShutdownInv' /\ NullInv' /\
      EarlyInv' /\ NothingMissed' /\ CopyInv'
  BY DEF TypeOK, ThreadInv, ChannelInv, OwnerInv, ShutdownInv, NullInv, EarlyInv,
         NothingMissed, CopyInv
<1>. QED BY <1>1 DEF IInv

\* A second channel is made only once the first is gone.
LEMMA GetDataChannelStep ==
  ASSUME IInv, GetDataChannel
  PROVE  IInv'
<1>. USE ChanAssumption, NegotiationsAssumption, RulesAssumption
         DEF IInv, GetDataChannel, SignalFree, NoDescription, apiVars, peerVars, chanVars,
             handVars, seenVars
<1>1. TypeOK' /\ ThreadInv' /\ ChannelInv' /\ OwnerInv' /\ ShutdownInv' /\ NullInv' /\
      EarlyInv' /\ NothingMissed' /\ CopyInv'
  BY DEF TypeOK, ThreadInv, ChannelInv, OwnerInv, ShutdownInv, NullInv, EarlyInv,
         NothingMissed, CopyInv
<1>. QED BY <1>1 DEF IInv

\* One store.
LEMMA SetCallback_ondatachannelStep ==
  ASSUME IInv, SetCallback_ondatachannel
  PROVE  IInv'
<1>. USE ChanAssumption, NegotiationsAssumption, RulesAssumption
         DEF IInv, SetCallback_ondatachannel, SignalFree, NoDescription, apiVars, peerVars,
             chanVars, handVars, seenVars
<1>1. TypeOK' /\ ThreadInv' /\ ChannelInv' /\ OwnerInv' /\ ShutdownInv' /\ NullInv' /\
      EarlyInv' /\ NothingMissed' /\ CopyInv'
  BY DEF TypeOK, ThreadInv, ChannelInv, OwnerInv, ShutdownInv, NullInv, EarlyInv,
         NothingMissed, CopyInv
<1>. QED BY <1>1 DEF IInv

\* One store.
LEMMA SetCallback_onmessageStep ==
  ASSUME IInv, NEW c \in Chan, SetCallback_onmessage(c)
  PROVE  IInv'
<1>. USE ChanAssumption, NegotiationsAssumption, RulesAssumption
         DEF IInv, SetCallback_onmessage, SignalFree, NoDescription, Known, apiVars, peerVars,
             chanVars, handVars, seenVars
<1>1. TypeOK' /\ ThreadInv' /\ ChannelInv' /\ OwnerInv' /\ ShutdownInv' /\ NullInv' /\
      EarlyInv' /\ NothingMissed' /\ CopyInv'
  BY DEF TypeOK, ThreadInv, ChannelInv, OwnerInv, ShutdownInv, NullInv, EarlyInv,
         NothingMissed, CopyInv
<1>. QED BY <1>1 DEF IInv

\* The handler is stored in a wired object.
LEMMA SetCallback_onopenStep ==
  ASSUME IInv, NEW c \in Chan, SetCallback_onopen(c)
  PROVE  IInv'
<1>. USE ChanAssumption, NegotiationsAssumption, RulesAssumption
         DEF IInv, SetCallback_onopen, SignalFree, NoDescription, Known, apiVars, peerVars,
             chanVars, handVars, seenVars
<1>1. ChannelInv'
  BY DEF ChannelInv, OwnerInv
<1>2. OwnerInv'
  BY DEF TypeOK, OwnerInv
<1>3. TypeOK' /\ ThreadInv' /\ ShutdownInv' /\ NullInv' /\ EarlyInv' /\ NothingMissed' /\
      CopyInv'
  BY DEF TypeOK, ThreadInv, ShutdownInv, NullInv, EarlyInv, NothingMissed, CopyInv
<1>. QED BY <1>1, <1>2, <1>3 DEF IInv

\* Close and Destroy begin alike.
LEMMA CloseStep ==
  ASSUME IInv, NEW destroy \in BOOLEAN, Close(destroy)
  PROVE  IInv'
<1>. USE ChanAssumption, NegotiationsAssumption, RulesAssumption
         DEF IInv, Close, SignalFree, NoDescription, apiVars, peerVars, chanVars, handVars,
             seenVars
<1>1. TypeOK' /\ ThreadInv' /\ ChannelInv' /\ OwnerInv' /\ ShutdownInv' /\ NullInv' /\
      EarlyInv' /\ NothingMissed' /\ CopyInv'
  BY DEF TypeOK, ThreadInv, ChannelInv, OwnerInv, ShutdownInv, NullInv, EarlyInv,
         NothingMissed, CopyInv
<1>. QED BY <1>1 DEF IInv

\* A result is consumed, and applied once at most.
LEMMA OnResultStep ==
  ASSUME IInv, OnResult
  PROVE  IInv'
<1>. USE ChanAssumption, NegotiationsAssumption, RulesAssumption
         DEF IInv, OnResult, SignalFree, NoDescription, ApplyLocal, Accepts, StateAfter,
             apiVars, peerVars, chanVars, handVars, seenVars
<1>1. ThreadInv'
  BY DEF TypeOK, ThreadInv
<1>2. NullInv'
  BY DEF TypeOK, NullInv
<1>3. EarlyInv'
  BY DEF TypeOK, EarlyInv
<1>4. CopyInv'
  <2>1. Len(posted) \in Nat /\ Len(posted') = Len(posted) - 1
    BY DEF TypeOK
  <2>2. local' \in {local, local + 1} BY DEF TypeOK
  <2>. QED BY <2>1, <2>2 DEF TypeOK, CopyInv
<1>5. TypeOK' /\ ChannelInv' /\ OwnerInv' /\ ShutdownInv' /\ NothingMissed'
  BY DEF TypeOK, ChannelInv, OwnerInv, ShutdownInv, NothingMissed
<1>. QED BY <1>1, <1>2, <1>3, <1>4, <1>5 DEF IInv

\* onopen starts only on an observed channel that has it.
LEMMA OnOpenStep ==
  ASSUME IInv, NEW c \in Chan, OnOpen(c)
  PROVE  IInv'
<1>. USE ChanAssumption, NegotiationsAssumption, RulesAssumption
         DEF IInv, OnOpen, SignalFree, NoDescription, Negotiated, apiVars, peerVars, chanVars,
             handVars, seenVars
<1>1. NothingMissed'
  BY DEF ChannelInv, OwnerInv, EarlyInv, NothingMissed
<1>2. TypeOK' /\ ThreadInv' /\ ChannelInv' /\ OwnerInv' /\ ShutdownInv' /\ NullInv' /\
      EarlyInv' /\ CopyInv'
  BY DEF TypeOK, ThreadInv, ChannelInv, OwnerInv, ShutdownInv, NullInv, EarlyInv, CopyInv
<1>. QED BY <1>1, <1>2 DEF IInv

\* The signaling thread is free again.
LEMMA OnOpenReturnStep ==
  ASSUME IInv, OnOpenReturn
  PROVE  IInv'
<1>. USE ChanAssumption, NegotiationsAssumption, RulesAssumption
         DEF IInv, OnOpenReturn, SignalFree, NoDescription, apiVars, peerVars, chanVars,
             handVars, seenVars
<1>1. TypeOK' /\ ThreadInv' /\ ChannelInv' /\ OwnerInv' /\ ShutdownInv' /\ NullInv' /\
      EarlyInv' /\ NothingMissed' /\ CopyInv'
  BY DEF TypeOK, ThreadInv, ChannelInv, OwnerInv, ShutdownInv, NullInv, EarlyInv,
         NothingMissed, CopyInv
<1>. QED BY <1>1 DEF IInv

\* A message of the other peer's channel finds its handler under the Early rule.
LEMMA OnMessageStep ==
  ASSUME IInv, NEW c \in Chan, OnMessage(c)
  PROVE  IInv'
<1>. USE ChanAssumption, NegotiationsAssumption, RulesAssumption
         DEF IInv, OnMessage, SignalFree, NoDescription, apiVars, peerVars, chanVars,
             handVars, seenVars
<1>1. NothingMissed'
  BY DEF ChannelInv, EarlyInv, NothingMissed
<1>2. TypeOK' /\ ThreadInv' /\ ChannelInv' /\ OwnerInv' /\ ShutdownInv' /\ NullInv' /\
      EarlyInv' /\ CopyInv'
  BY DEF TypeOK, ThreadInv, ChannelInv, OwnerInv, ShutdownInv, NullInv, EarlyInv, CopyInv
<1>. QED BY <1>1, <1>2 DEF IInv

\* A channel of the other peer is complete when it is announced.
LEMMA OnDataChannelStep ==
  ASSUME IInv, NEW c \in RemoteChan, OnDataChannel(c)
  PROVE  IInv'
<1>. USE ChanAssumption, NegotiationsAssumption, RulesAssumption
         DEF IInv, OnDataChannel, SignalFree, NoDescription, Negotiated, apiVars, peerVars,
             chanVars, handVars, seenVars
<1>1. ChannelInv'
  BY DEF TypeOK, ChannelInv
<1>2. OwnerInv'
  BY DEF TypeOK, OwnerInv
<1>3. ShutdownInv'
  BY DEF ChannelInv, ShutdownInv
<1>4. EarlyInv'
  BY DEF TypeOK, EarlyInv
<1>5. NothingMissed'
  BY DEF EarlyInv, NothingMissed
<1>6. TypeOK' /\ ThreadInv' /\ NullInv' /\ CopyInv'
  BY DEF TypeOK, ThreadInv, NullInv, CopyInv
<1>. QED BY <1>1, <1>2, <1>3, <1>4, <1>5, <1>6 DEF IInv

\* A closed channel never opens again.
LEMMA OnClosedStep ==
  ASSUME IInv, NEW c \in Chan, OnClosed(c)
  PROVE  IInv'
<1>. USE ChanAssumption, NegotiationsAssumption, RulesAssumption
         DEF IInv, OnClosed, SignalFree, NoDescription, apiVars, peerVars, chanVars, handVars,
             seenVars
<1>1. TypeOK' /\ ThreadInv' /\ ChannelInv' /\ OwnerInv' /\ ShutdownInv' /\ NullInv' /\
      EarlyInv' /\ NothingMissed' /\ CopyInv'
  BY DEF TypeOK, ThreadInv, ChannelInv, OwnerInv, ShutdownInv, NullInv, EarlyInv,
         NothingMissed, CopyInv
<1>. QED BY <1>1 DEF IInv

-----------------------------------------------------------------------------
\* The initial state satisfies the invariant.
LEMMA InitIInv == Init => IInv
<1>. SUFFICES ASSUME Init PROVE IInv OBVIOUS
<1>. USE ChanAssumption, NegotiationsAssumption, RulesAssumption DEF Init
<1>1. TypeOK
  <2>1. posted \in Seq({"offer", "answer", "error"}) OBVIOUS
  <2>2. held \in {"none", "local", "remote"} \X Nat BY DEF NoDescription
  <2>3. asked \in 0..Negotiations OBVIOUS
  <2>4. /\ mem \in [Chan -> {"unborn", "live", "freed"}]
        /\ lib \in [Chan -> {"none", "null", "connecting", "open", "closed"}]
        /\ opened \in [Chan -> {"not_yet", "handled", "bare", "unseen"}]
    OBVIOUS
  <2>5. /\ observed \in [Chan -> BOOLEAN] /\ wired \in [Chan -> BOOLEAN]
        /\ onopen \in [Chan -> BOOLEAN] /\ userdata \in [Chan -> BOOLEAN]
        /\ onmessage \in [Chan -> BOOLEAN]
    OBVIOUS
  <2>6. /\ app \in Positions /\ destroying \in BOOLEAN /\ ondatachannel \in BOOLEAN
        /\ obj \in {"unborn", "live", "freed"} /\ signal \in {"none", "running", "stopped"}
        /\ callback \in Chan \cup {NoChan} /\ dataChannel \in Chan \cup {NoChan}
        /\ target \in Chan \cup {NoChan}
        /\ pcState \in {"none", "stable", "have-local-offer", "have-remote-offer", "closed"}
        /\ local \in Nat /\ remote \in Nat
        /\ delivered \in SUBSET RemoteChan /\ dropped \in SUBSET Chan
    OBVIOUS
  <2>. QED BY <2>1, <2>2, <2>3, <2>4, <2>5, <2>6 DEF TypeOK
<1>2. ThreadInv /\ ChannelInv BY DEF ThreadInv, ChannelInv
<1>3. OwnerInv /\ ShutdownInv BY DEF OwnerInv, ShutdownInv
<1>4. NullInv /\ EarlyInv /\ NothingMissed BY DEF NullInv, EarlyInv, NothingMissed
<1>5. CopyInv BY DEF CopyInv
<1>. QED BY <1>1, <1>2, <1>3, <1>4, <1>5 DEF IInv

\* A step that changes nothing keeps it.
LEMMA StutterStep ==
  ASSUME IInv, UNCHANGED vars
  PROVE  IInv'
BY DEF IInv, TypeOK, ThreadInv, ChannelInv, OwnerInv, ShutdownInv, NullInv, EarlyInv,
       NothingMissed, CopyInv, vars, apiVars, peerVars, chanVars, handVars, seenVars

\* Every step of either thread keeps the invariant.
LEMMA NextStep ==
  ASSUME IInv, [Next]_vars
  PROVE  IInv'
<1>1. CASE InCall
  <2>1. ASSUME NEW c \in LocalChan, CreateDataChannel(c) PROVE IInv'
    BY <2>1, CreateDataChannelStep
  <2>2. CASE ShutdownChannel
    <3>1. CASE CloseChannel("dcClose", dataChannel, "dcUnregister")
      BY <3>1, ShutdownCloseChannelStep
    <3>2. CASE UnregisterObserver("dcUnregister", dataChannel, "destroyClose")
      BY <3>2, ShutdownUnregisterStep
    <3>3. CASE CloseChannel("destroyClose", dataChannel, "destroyUnregister")
      BY <3>3, ShutdownCloseChannelStep
    <3>4. CASE UnregisterObserver("destroyUnregister", dataChannel, "free")
      BY <3>4, ShutdownUnregisterStep
    <3>. QED BY <2>2, <3>1, <3>2, <3>3, <3>4 DEF ShutdownChannel
  <2>3. CASE UserClose
    BY <2>3, UserCloseChannelStep, UserUnregisterStep DEF UserClose
  <2>. QED
    BY <1>1, <2>1, <2>2, <2>3, ConstructStep, InitConnectionStep, RegisterObserverStep,
       WireChannelStep, StoreUserdataStep, CopyDescriptionStep, CloseConnectionStep,
       FreeChannelStep, UserClosedStep, StopThreadsStep, DeleteStep
    DEF InCall
<1>2. CASE NewCall
  <2>1. ASSUME NEW kind \in {"offer", "answer"},
               SetLocalDescription(kind) \/ SetRemoteDescription(kind)
        PROVE  IInv'
    BY <2>1, SetLocalDescriptionStep, SetRemoteDescriptionStep
  <2>2. ASSUME NEW c \in Chan, SetCallback_onopen(c) \/ SetCallback_onmessage(c)
                                \/ RTCDataChannel_Close(c)
        PROVE  IInv'
    BY <2>2, SetCallback_onopenStep, SetCallback_onmessageStep, RTCDataChannel_CloseStep
  <2>3. CASE CreateOffer \/ CreateAnswer
    BY <2>3, AskStep DEF CreateOffer, CreateAnswer
  <2>4. CASE LocalDescription \/ RemoteDescription
    <3>1. local \in Nat /\ remote \in Nat BY DEF IInv, TypeOK
    <3>. QED BY <2>4, <3>1, ReadDescriptionStep DEF LocalDescription, RemoteDescription
  <2>5. ASSUME NEW destroy \in BOOLEAN, Close(destroy) PROVE IInv'
    BY <2>5, CloseStep
  <2>. QED
    BY <1>2, <2>1, <2>2, <2>3, <2>4, <2>5, GetDataChannelStep, SetCallback_ondatachannelStep
    DEF NewCall
<1>3. CASE Callbacks
  <2>1. ASSUME NEW c \in Chan, OnOpen(c) \/ OnMessage(c) \/ OnClosed(c) PROVE IInv'
    BY <2>1, OnOpenStep, OnMessageStep, OnClosedStep
  <2>2. ASSUME NEW c \in RemoteChan, OnDataChannel(c) PROVE IInv'
    BY <2>2, OnDataChannelStep
  <2>. QED BY <1>3, <2>1, <2>2, OnResultStep, OnOpenReturnStep DEF Callbacks
<1>4. CASE Done
  BY <1>4, StutterStep DEF Done
<1>5. CASE UNCHANGED vars
  BY <1>5, StutterStep
<1>. QED BY <1>1, <1>2, <1>3, <1>4, <1>5 DEF Next

-----------------------------------------------------------------------------
\* The inductive invariant holds of every reachable state.
THEOREM Invariant == Spec => []IInv
<1>1. Init => IInv BY InitIInv
<1>2. IInv /\ [Next]_vars => IInv' BY NextStep
<1>. QED BY <1>1, <1>2, PTL DEF Spec

\* The state of the two threads, the objects and the handlers is well formed.
THEOREM TypeCorrect == Spec => []TypeOK
<1>1. IInv => TypeOK BY DEF IInv
<1>. QED BY <1>1, Invariant, PTL

\* libwebrtc never calls into a freed channel wrapper or a freed peer object.
THEOREM NoCallbackIntoFreedMemory == Spec => []NoFreedCallback
<1>1. IInv => NoFreedCallback
  BY DEF IInv, ThreadInv, ChannelInv, NoFreedCallback
<1>. QED BY <1>1, Invariant, PTL

\* A running onopen keeps its channel wired and alive.
THEOREM OnOpenHoldsItsChannel == Spec => []OpenHoldsChannel
<1>1. IInv => OpenHoldsChannel
  BY DEF IInv, TypeOK, ThreadInv, ChannelInv, OpenHoldsChannel
<1>. QED BY <1>1, Invariant, PTL

\* Shutdown meets no NULL channel unless the application asked for one after Close.
THEOREM ShutdownMeetsNoNullChannel == Spec => []NoNullChannel
<1>1. IInv => NoNullChannel
  <2>. SUFFICES ASSUME IInv, ~Reopen PROVE NoNullChannel BY DEF NoNullChannel
  <2>1. app \in {"dcClose", "destroyClose"} => dataChannel \in Chan
    BY DEF IInv, OwnerInv
  <2>2. app = "close" => target \in Chan
    BY DEF IInv, OwnerInv
  <2>. QED BY <2>1, <2>2 DEF IInv, NullInv, NoNullChannel
<1>. QED BY <1>1, Invariant, PTL

\* The wrapper leaves none of its own channel objects behind.
THEOREM ShutdownLeavesNoChannel == Spec => []NoLeak
<1>1. IInv => NoLeak
  BY ChanAssumption DEF IInv, OwnerInv, NoLeak
<1>. QED BY <1>1, Invariant, PTL

\* Callbacks installed before the remote description see everything there is to see.
THEOREM EarlyCallbacksMissNothing == Spec => []NothingMissed
<1>1. IInv => NothingMissed BY DEF IInv
<1>. QED BY <1>1, Invariant, PTL

\* A peer that negotiates once copies a description nobody replaces meanwhile.
THEOREM OneNegotiationCopiesSafely == Spec => []CopyIsLive
<1>1. IInv => CopyIsLive
  <2>. SUFFICES ASSUME IInv, Negotiations <= 1, app = "copy", held # << "remote", remote >>
                PROVE  held = << "local", local >>
    BY DEF CopyIsLive
  <2>1. PICK v \in 1..local : held = << "local", v >> BY DEF IInv, CopyInv
  <2>2. local <= 1
    BY NegotiationsAssumption DEF IInv, TypeOK, CopyInv
  <2>. QED BY <2>1, <2>2 DEF IInv, TypeOK
<1>. QED BY <1>1, Invariant, PTL

-----------------------------------------------------------------------------
(* The wrapper implements DataChannelLifetime                              *)

\* The wrapper's initial state is the initial state of the channels' lives.
LEMMA LifetimeInit == Init => Lifetime!Init
BY DEF Init, Phase, Lifetime!Init

\* Objects left alone keep their phase.
LEMMA SameLives ==
  ASSUME UNCHANGED << mem, observed, callback >>
  PROVE  UNCHANGED Lifetime!vars
BY DEF Phase, Lifetime!vars

\* A step that touches one object changes the phase of that object only.
LEMMA OneLifeChanges ==
  ASSUME NEW c \in Chan, NEW from, NEW to,
         \A d \in Chan \ {c} : mem'[d] = mem[d] /\ observed'[d] = observed[d],
         Phase(c) = from, Phase(c)' = to
  PROVE  Lifetime!MoveTo(c, from, to)
BY DEF Phase, Lifetime!MoveTo

\* Every step of the wrapper is a step of the channels' lives, or leaves them alone.
LEMMA LifetimeStep ==
  ASSUME IInv, [Next]_vars
  PROVE  [Lifetime!Next]_(Lifetime!vars)
<1>. USE DEF IInv, SignalFree, apiVars, peerVars, chanVars, handVars, seenVars
<1>1. ASSUME NEW c \in LocalChan, CreateDataChannel(c) PROVE Lifetime!Create(c)
  <2>1. Phase(c) = "absent" /\ Phase(c)' = "detached"
    BY <1>1 DEF TypeOK, ChannelInv, CreateDataChannel, Phase
  <2>2. \A d \in Chan \ {c} : mem'[d] = mem[d] /\ observed'[d] = observed[d]
    BY <1>1 DEF TypeOK, CreateDataChannel
  <2>. QED BY <1>1, <2>1, <2>2, OneLifeChanges DEF CreateDataChannel, Lifetime!Create
<1>2. CASE RegisterObserver
  <2>1. target \in Chan /\ mem[target] = "live" /\ ~observed[target]
    BY <1>2 DEF OwnerInv, RegisterObserver
  <2>2. CASE lib[target] = "null"
    BY <1>2, <2>1, <2>2, SameLives DEF TypeOK, RegisterObserver
  <2>3. CASE lib[target] # "null"
    <3>1. Phase(target) = "detached" BY <2>1 DEF Phase
    <3>2. Phase(target)' = "attached" BY <1>2, <2>1, <2>3 DEF TypeOK, RegisterObserver, Phase
    <3>3. \A d \in Chan \ {target} : mem'[d] = mem[d] /\ observed'[d] = observed[d]
      BY <1>2 DEF TypeOK, RegisterObserver
    <3>4. Lifetime!MoveTo(target, "detached", "attached")
      <4>1. target' = target BY <1>2 DEF RegisterObserver
      <4>. QED BY <2>1, <3>1, <3>2, <3>3, <4>1 DEF Phase, Lifetime!MoveTo
    <3>5. Lifetime!Attach(target)
      BY <1>2, <2>3, <3>4 DEF RegisterObserver, Lifetime!Attach
    <3>. QED BY <2>1, <3>5 DEF Lifetime!Next
  <2>. QED BY <2>2, <2>3
<1>3. ASSUME NEW c \in Chan, NEW at, NEW next, UnregisterObserver(at, c, next), mem[c] = "live"
      PROVE  [Lifetime!Next]_(Lifetime!vars)
  <2>1. CASE ~observed[c]
    BY <1>3, <2>1, SameLives DEF TypeOK, UnregisterObserver
  <2>2. CASE observed[c]
    <3>1. Phase(c) = "attached" /\ Phase(c)' = "detached"
      BY <1>3, <2>2 DEF TypeOK, UnregisterObserver, Phase
    <3>2. \A d \in Chan \ {c} : mem'[d] = mem[d] /\ observed'[d] = observed[d]
      BY <1>3 DEF TypeOK, UnregisterObserver
    <3>3. Lifetime!Detach(c)
      BY <1>3, <3>1, <3>2, OneLifeChanges DEF UnregisterObserver, Lifetime!Detach
    <3>. QED BY <3>3 DEF Lifetime!Next
  <2>. QED BY <2>1, <2>2
<1>4. CASE FreeChannel
  <2>1. PICK c \in Chan : c = dataChannel BY <1>4 DEF OwnerInv, FreeChannel
  <2>2. mem[c] = "live" /\ ~observed[c] /\ callback # c
    BY <1>4, <2>1, ChanAssumption DEF OwnerInv, ShutdownInv, ThreadInv, FreeChannel
  <2>3. Phase(c) = "detached" /\ Phase(c)' = "freed"
    BY <1>4, <2>1, <2>2 DEF TypeOK, FreeChannel, Phase
  <2>4. \A d \in Chan \ {c} : mem'[d] = mem[d] /\ observed'[d] = observed[d]
    BY <1>4, <2>1 DEF TypeOK, FreeChannel
  <2>5. Lifetime!Free(c)
    BY <1>4, <2>2, <2>3, <2>4, OneLifeChanges DEF FreeChannel, Lifetime!Free
  <2>. QED BY <2>5 DEF Lifetime!Next
<1>5. ASSUME NEW c \in Chan, OnOpen(c) PROVE [Lifetime!Next]_(Lifetime!vars)
  <2>1. CASE observed[c] /\ onopen[c]
    <3>1. Phase(c) = "attached" BY <2>1 DEF ChannelInv, Phase
    <3>2. UNCHANGED [d \in Chan |-> Phase(d)] BY <1>5 DEF OnOpen, Phase
    <3>3. Lifetime!Call(c) BY <1>5, <2>1, <3>1, <3>2 DEF OnOpen, Lifetime!Call
    <3>. QED BY <3>3 DEF Lifetime!Next
  <2>2. CASE ~(observed[c] /\ onopen[c])
    BY <1>5, <2>2, SameLives DEF OnOpen
  <2>. QED BY <2>1, <2>2
<1>6. CASE OnOpenReturn
  <2>1. PICK c \in Chan : c = callback BY <1>6 DEF TypeOK, OnOpenReturn
  <2>2. UNCHANGED [d \in Chan |-> Phase(d)] BY <1>6 DEF OnOpenReturn, Phase
  <2>3. Lifetime!Return(c) BY <1>6, <2>1, <2>2 DEF OnOpenReturn, Lifetime!Return
  <2>. QED BY <2>3 DEF Lifetime!Next
<1>7. ASSUME NEW c \in RemoteChan, OnDataChannel(c) PROVE Lifetime!Accept(c)
  <2>1. Phase(c) = "absent" /\ Phase(c)' = "attached"
    BY <1>7 DEF TypeOK, OnDataChannel, Phase
  <2>2. \A d \in Chan \ {c} : mem'[d] = mem[d] /\ observed'[d] = observed[d]
    BY <1>7 DEF TypeOK, OnDataChannel
  <2>. QED BY <1>7, <2>1, <2>2, OneLifeChanges DEF OnDataChannel, Lifetime!Accept
<1>8. ASSUME UNCHANGED << mem, observed, callback >> PROVE [Lifetime!Next]_(Lifetime!vars)
  BY <1>8, SameLives
<1>9. CASE InCall
  <2>1. CASE \E c \in LocalChan : CreateDataChannel(c)
    BY <1>1, <2>1 DEF Lifetime!Next
  <2>2. CASE ShutdownChannel \/ UserClose
    <3>1. ASSUME NEW at, NEW c, NEW next, CloseChannel(at, c, next)
          PROVE  [Lifetime!Next]_(Lifetime!vars)
      BY <1>8, <3>1 DEF CloseChannel
    <3>2. ASSUME NEW at \in {"dcUnregister", "destroyUnregister"}, app = at
          PROVE  dataChannel \in Chan /\ mem[dataChannel] = "live"
      BY <3>2 DEF OwnerInv
    <3>3. CASE UnregisterObserver("unregister", target, "closed")
      <4>1. target \in Chan /\ mem[target] = "live" BY <3>3 DEF OwnerInv, UnregisterObserver
      <4>. QED BY <1>3, <3>3, <4>1
    <3>4. CASE UnregisterObserver("dcUnregister", dataChannel, "destroyClose")
      <4>1. app = "dcUnregister" BY <3>4 DEF UnregisterObserver
      <4>. QED BY <1>3, <3>2, <3>4, <4>1
    <3>5. CASE UnregisterObserver("destroyUnregister", dataChannel, "free")
      <4>1. app = "destroyUnregister" BY <3>5 DEF UnregisterObserver
      <4>. QED BY <1>3, <3>2, <3>5, <4>1
    <3>. QED BY <2>2, <3>1, <3>3, <3>4, <3>5 DEF ShutdownChannel, UserClose
  <2>3. CASE Construct \/ InitConnection \/ WireChannel \/ StoreUserdata \/ CopyDescription
    BY <1>8, <2>3 DEF Construct, InitConnection, WireChannel, StoreUserdata, CopyDescription
  <2>4. CASE CloseConnection \/ StopThreads \/ Delete \/ UserClosed
    BY <1>8, <2>4 DEF CloseConnection, StopThreads, Delete, UserClosed
  <2>. QED BY <1>2, <1>4, <1>9, <2>1, <2>2, <2>3, <2>4 DEF InCall
<1>10. CASE NewCall
  BY <1>8, <1>10 DEF NewCall, CreateOffer, CreateAnswer, Ask, SetLocalDescription,
     SetRemoteDescription, LocalDescription, RemoteDescription, ReadDescription, GetDataChannel,
     SetCallback_ondatachannel, SetCallback_onopen, SetCallback_onmessage, Close,
     RTCDataChannel_Close
<1>11. CASE Callbacks
  <2>1. ASSUME NEW c \in Chan, OnMessage(c) \/ OnClosed(c)
        PROVE  [Lifetime!Next]_(Lifetime!vars)
    BY <1>8, <2>1 DEF OnMessage, OnClosed
  <2>2. CASE OnResult
    BY <1>8, <2>2 DEF OnResult
  <2>3. CASE \E c \in RemoteChan : OnDataChannel(c)
    BY <1>7, <2>3 DEF Lifetime!Next
  <2>. QED BY <1>5, <1>6, <1>11, <2>1, <2>2, <2>3 DEF Callbacks
<1>12. CASE Done \/ UNCHANGED vars
  BY <1>8, <1>12 DEF Done, vars
<1>. QED BY <1>9, <1>10, <1>11, <1>12 DEF Next

\* The channels of the wrapper live the life DataChannelLifetime promises: no call on a
\* detached or freed object, no object detached or freed under a running call.
THEOREM WrapperKeepsLifetime == Spec => LifetimeSpec
<1>1. Init => Lifetime!Init BY LifetimeInit
<1>2. IInv /\ [Next]_vars => [Lifetime!Next]_(Lifetime!vars) BY LifetimeStep
<1>. QED BY <1>1, <1>2, Invariant, PTL DEF Spec, LifetimeSpec, Lifetime!Spec

\* Whatever lives the life of a channel keeps its object under a running call.
LEMMA LifeStep ==
  ASSUME Lifetime!TypeOK, Lifetime!CallsOnAttached, [Lifetime!Next]_(Lifetime!vars)
  PROVE  Lifetime!TypeOK' /\ Lifetime!CallsOnAttached' /\ Lifetime!NoneCutShort /\
         Lifetime!FreedForGood
<1>. USE ChanAssumption
     DEF Lifetime!TypeOK, Lifetime!CallsOnAttached, Lifetime!NoneCutShort, Lifetime!FreedForGood,
         Lifetime!MoveTo
<1>1. ASSUME NEW c \in Chan, Lifetime!Create(c) \/ Lifetime!Accept(c) \/ Lifetime!Attach(c)
      PROVE  Lifetime!TypeOK' /\ Lifetime!CallsOnAttached' /\ Lifetime!NoneCutShort /\
             Lifetime!FreedForGood
  BY <1>1 DEF Lifetime!Create, Lifetime!Accept, Lifetime!Attach
<1>2. ASSUME NEW c \in Chan, Lifetime!Detach(c) \/ Lifetime!Free(c)
      PROVE  Lifetime!TypeOK' /\ Lifetime!CallsOnAttached' /\ Lifetime!NoneCutShort /\
             Lifetime!FreedForGood
  BY <1>2 DEF Lifetime!Detach, Lifetime!Free
<1>3. ASSUME NEW c \in Chan, Lifetime!Call(c) \/ Lifetime!Return(c)
      PROVE  Lifetime!TypeOK' /\ Lifetime!CallsOnAttached' /\ Lifetime!NoneCutShort /\
             Lifetime!FreedForGood
  BY <1>3 DEF Lifetime!Call, Lifetime!Return
<1>4. CASE UNCHANGED Lifetime!vars BY <1>4 DEF Lifetime!vars
<1>. QED BY <1>1, <1>2, <1>3, <1>4 DEF Lifetime!Next

\* What DataChannelLifetime lets a client rely on holds of the wrapper's channels: a running
\* onopen keeps its object attached until it returns, and a freed object is never called.
THEOREM ChannelsAreReliable ==
  Spec => []Lifetime!CallsOnAttached /\ [][Lifetime!NoneCutShort /\ Lifetime!FreedForGood]_(Lifetime!vars)
<1>1. Lifetime!Init => Lifetime!TypeOK /\ Lifetime!CallsOnAttached
  BY DEF Lifetime!Init, Lifetime!TypeOK, Lifetime!CallsOnAttached
<1>. QED BY <1>1, LifeStep, WrapperKeepsLifetime, PTL DEF LifetimeSpec, Lifetime!Spec

-----------------------------------------------------------------------------
(* Why calls return: the part of CallsReturn that needs no fairness        *)

\* A call that waits for the signaling thread waits for a running onopen only, and the call
\* that makes a channel finds one to make.
GoesOn ==
  app \notin {"idle", "gone", "crashed"} /\ callback = NoChan =>
    /\ app \notin {"start", "delete"} => SignalFree
    /\ app = "create" => \E c \in LocalChan : mem[c] = "unborn"

\* The steps of a call that are still to come, at most.
Left == [p \in Positions |->
  CASE p \in {"idle", "gone", "crashed"} -> 0
    [] p \in {"wire", "userdata", "copy", "closed", "delete"} -> 1
    [] p \in {"register", "unregister", "stop"} -> 2
    [] p \in {"create", "close", "free"} -> 3
    [] p \in {"socket", "destroyUnregister"} -> 4
    [] p \in {"start", "destroyClose"} -> 5
    [] p = "dcUnregister" -> 6
    [] p = "dcClose" -> 7
    [] p = "pcClose" -> 8]

\* Once begun, a call only comes closer to its end, whatever the signaling thread does.
ComesCloser == app # "idle" => app' = app \/ Left[app'] < Left[app]

\* The channel a call is about to make is still to be made: only this thread makes them.
UnbornInv ==
  /\ app \in {"start", "socket"} => \A c \in LocalChan : mem[c] = "unborn"
  /\ app = "create" => \E c \in LocalChan : mem[c] = "unborn"

\* Every step outside CreateDataChannel leaves the unborn local channels alone.
LEMMA UnbornStep ==
  ASSUME LocalChan # {}, IInv, UnbornInv, [Next]_vars
  PROVE  UnbornInv'
<1>1. ASSUME UNCHANGED mem, app' = app \/ app' \notin {"start", "socket", "create"}
      PROVE  UnbornInv'
  BY <1>1 DEF UnbornInv
<1>2. CASE InCall
  <2>1. CASE Construct \/ InitConnection
    BY <2>1 DEF Construct, InitConnection, UnbornInv, chanVars
  <2>2. CASE \E c \in LocalChan : CreateDataChannel(c)
    BY <2>2 DEF CreateDataChannel, UnbornInv
  <2>3. CASE FreeChannel
    BY <2>3 DEF FreeChannel, AfterShutdown, UnbornInv
  <2>4. CASE RegisterObserver \/ WireChannel \/ StoreUserdata \/ CopyDescription
    BY <1>1, <2>4 DEF RegisterObserver, WireChannel, StoreUserdata, CopyDescription, chanVars
  <2>5. CASE CloseConnection \/ ShutdownChannel \/ UserClose
    BY <1>1, <2>5
    DEF CloseConnection, ShutdownChannel, UserClose, CloseChannel, UnregisterObserver,
        AfterShutdown, chanVars
  <2>6. CASE UserClosed \/ StopThreads \/ Delete
    BY <1>1, <2>6 DEF UserClosed, StopThreads, Delete, chanVars
  <2>. QED BY <1>2, <2>1, <2>2, <2>3, <2>4, <2>5, <2>6 DEF InCall
<1>3. CASE NewCall
  <2>1. CASE GetDataChannel BY <2>1 DEF GetDataChannel, UnbornInv, chanVars
  <2>2. CASE ~GetDataChannel
    BY <1>1, <1>3, <2>2
    DEF NewCall, CreateOffer, CreateAnswer, Ask, SetLocalDescription, SetRemoteDescription,
        LocalDescription, RemoteDescription, ReadDescription, SetCallback_ondatachannel,
        SetCallback_onopen, SetCallback_onmessage, Close, RTCDataChannel_Close, apiVars, chanVars
  <2>. QED BY <2>1, <2>2
<1>4. CASE Callbacks
  <2>1. CASE OnResult \/ OnOpenReturn \/
             \E c \in Chan : OnOpen(c) \/ OnMessage(c) \/ OnClosed(c)
    BY <1>1, <2>1 DEF OnResult, OnOpenReturn, OnOpen, OnMessage, OnClosed, apiVars, chanVars
  <2>2. ASSUME NEW c \in RemoteChan, OnDataChannel(c) PROVE UnbornInv'
    <3>1. app' = app /\ mem' = [mem EXCEPT ![c] = "live"] BY <2>2 DEF OnDataChannel, apiVars
    <3>2. \A d \in LocalChan : mem'[d] = mem[d] BY <3>1, ChanAssumption DEF IInv, TypeOK
    <3>. QED BY <3>1, <3>2 DEF UnbornInv
  <2>. QED BY <1>4, <2>1, <2>2 DEF Callbacks
<1>5. CASE Done \/ UNCHANGED vars
  BY <1>1, <1>5 DEF Done, vars, apiVars, chanVars
<1>. QED BY <1>2, <1>3, <1>4, <1>5 DEF Next

\* Each action of the application thread goes to a place with less to do.
LEMMA CloserStep ==
  ASSUME IInv, [Next]_vars
  PROVE  ComesCloser
<1>1. app \in Positions BY DEF IInv, TypeOK
<1>2. CASE InCall
  <2>1. CASE Construct \/ InitConnection \/ RegisterObserver \/ WireChannel
    BY <2>1 DEF Construct, InitConnection, RegisterObserver, WireChannel, ComesCloser, Left
  <2>2. CASE \E c \in LocalChan : CreateDataChannel(c)
    BY <2>2 DEF CreateDataChannel, ComesCloser, Left
  <2>3. CASE StoreUserdata \/ CopyDescription \/ UserClosed
    BY <2>3 DEF StoreUserdata, CopyDescription, UserClosed, ComesCloser, Left
  <2>4. CASE CloseConnection \/ FreeChannel \/ StopThreads \/ Delete
    BY <2>4 DEF CloseConnection, FreeChannel, StopThreads, Delete, AfterShutdown, ComesCloser, Left
  <2>5. CASE ShutdownChannel
    BY <2>5 DEF ShutdownChannel, CloseChannel, UnregisterObserver, ComesCloser, Left
  <2>6. CASE UserClose
    BY <2>6 DEF UserClose, CloseChannel, UnregisterObserver, ComesCloser, Left
  <2>. QED BY <1>2, <2>1, <2>2, <2>3, <2>4, <2>5, <2>6 DEF InCall
<1>3. CASE NewCall
  BY <1>3
  DEF NewCall, CreateOffer, CreateAnswer, Ask, SetLocalDescription, SetRemoteDescription,
      LocalDescription, RemoteDescription, ReadDescription, GetDataChannel,
      SetCallback_ondatachannel, SetCallback_onopen, SetCallback_onmessage, Close,
      RTCDataChannel_Close, ComesCloser, apiVars
<1>4. CASE Callbacks
  BY <1>4 DEF Callbacks, OnResult, OnOpenReturn, OnOpen, OnMessage, OnClosed, OnDataChannel,
              ComesCloser, apiVars
<1>5. CASE Done \/ UNCHANGED vars
  BY <1>5 DEF Done, vars, apiVars, ComesCloser
<1>. QED BY <1>2, <1>3, <1>4, <1>5 DEF Next

\* Init makes one channel, so there is one.  Then a call into the wrapper, Destroy included,
\* is held up by nothing but a running onopen, and has at most eight steps.
THEOREM CallsGoOn ==
  ASSUME LocalChan # {}
  PROVE  Spec => []GoesOn /\ [][ComesCloser]_vars
<1>1. Init => UnbornInv BY DEF Init, UnbornInv
<1>2. IInv /\ UnbornInv /\ [Next]_vars => UnbornInv' BY UnbornStep
<1>3. IInv /\ [Next]_vars => ComesCloser BY CloserStep
<1>4. IInv /\ UnbornInv => GoesOn
  BY DEF IInv, ThreadInv, UnbornInv, GoesOn, SignalFree
<1>. QED BY <1>1, <1>2, <1>3, <1>4, Invariant, PTL DEF Spec
=============================================================================
