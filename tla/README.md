# Verification of webrtc-wrapper-proto

The repository is a prototype of file synchronisation over WebRTC. It holds a C wrapper of
libwebrtc's peer connection (`lib_sync/src_64/webrtc`), C programs on top of it (`cli`, `fs`,
`sy_lwst.c`), an earlier client over librtcdc (`cli_rtcdc.c`), and the same system again as three
node.js programs (`node_sync`). This directory models it in TLA+: TLC checks the modules on small
instances, and TLAPS proves the safety properties for every value of the constants: any number of
channels, clients, servers, restarts, packets and files of any length.

    tlc -config MCRTCPeerConnection.cfg MCRTCPeerConnection    # one run; all are listed below
    tlapm RTCPeerConnectionProofs.tla                          # the proofs of one module

## 1. The system

An upload goes like this. A *file server* registers its address and port with the *metadata server*
and waits. A *client* makes a peer connection with a data channel, and sends its offer to the metadata
server (`UPLOAD_REQUEST`). The metadata server looks up a file server, opens a connection to it and
relays the offer. The file server makes a peer of its own, sets the offer, and sends back an answer
(`UPLOAD_READY`), which the metadata server passes to the client. The client sets the answer; the data
channel opens; the client's `onopen` sends the file.

| component | state it keeps | operations | talks to | module |
|---|---|---|---|---|
| `RTCPeerConnection.cpp` | the object and its two threads, libwebrtc's connection, `data_channel_`, the callbacks | Init, CreateOffer/Answer, Set/LocalDescription, Set/RemoteDescription, GetDataChannel, CreateDataChannel, Close, Destroy; OnSuccess, OnDataChannel | libwebrtc by proxy calls, which block; libwebrtc calls back on the signaling thread | `RTCPeerConnection` |
| `RTCDataChannel.cpp` | the object, its observer registration, the pointers `ctx_`/`obj_`, handlers and user data | Init, Close, Destroy, Send, setters; OnStateChange, OnMessage | as above | `RTCPeerConnection` |
| `ms/metadata_server.js` | `fs_DB`, one outgoing connection per request | FS_REGISTER, UPLOAD_REQUEST, relaying, passing back | clients and file servers, websockets | `Signaling` |
| `fs/file_server.js` | its registration, one answerer per request | start, register, FS_REGISTER_OK, UPLOAD_REQUEST, answer | metadata server | `Signaling` |
| `client/client.js` | its peer and channel, its connections, the FileReader's events, `packet_index` | offer, candidates, request, answer; slicing and sending of the file | metadata server, its own peer connection | `Signaling` (among others), `ClientUpload` (alone, to the last packet) |
| `cli/client.c` | the struct `write_data`, the flag `client_exit`, the peer | `sy_upload`, `callback_client`, `on_open` | libuv worker, signaling thread, metadata server | `UploadClient` |
| `fs/file_server.c` | two websocket contexts, `write_data` per connection, `sync_exit` | `main`, `callback_sync`, `callback_fileserver` | metadata server, clients | `FileServer` |
| `sy_lwst.c` | none of its own | `lwst_initial`, `lwst_connect`, `lwst_uv_connect` | libwebsockets | in `UploadClient` and `FileServer` |
| `cli/cli_rtcdc.c` | the files to send, the receiver's static `FILE *` | `uv_client_upload`, `download_client_on_message` | librtcdc | `FileTransfer` |
| `Utils.cpp` | the global factory and threads | `Libwebrtc_Init`, `Libwebrtc_Dispose`, the destructors at exit | the manual drivers | `Drivers` |
| `offer.cc`, `answer.cc` | the files `offerSDP`, `answerSDP` and the buffers they are read into | manual drivers: a person starts them in two terminals, presses Enter and types | the wrapper, each other's file | `Drivers` |
| `_Main.cc` | none beyond two peers | manual driver: two peers in one process, a command at a time | the wrapper | none |

There are copies of the wrapper. The sources in `src_arm/webrtc` are those of `src_64/webrtc`; the
ARM Makefile compiles `src_arm/webrtc-arm`, whose `RTCDataChannel.cpp` is identical too and whose
`RTCPeerConnection.cpp` differs in the `const` of AddRef and Release and in one constraint that is
commented out. The models read `src_64`; where the map names `src_arm` it names the same code there.

### What is hard about it, and what makes each part correct

*The wrapper.* The application's thread stores into the objects without a lock while the signaling
thread calls them back. Observers are raw pointers, `AddRef`/`Release` do nothing, and the destructor
of a channel does not unregister it. Correct means: no callback enters freed memory, a running
`onopen` keeps its channel, nothing is freed twice or left behind, an application that installs its
callbacks first misses no event, and every call returns.

*node_sync.* Processes start, crash and restart in any order; nothing is retried and nobody has a
timeout; all records carry the same userID; the handlers of gathering events may send a request, or an
answer, twice. Correct means: a request gets answers to its own offer only and each that was sent
at most once, a registration that was acknowledged is kept, and a request is not lost between the
servers unless the file server it met has ended.

*The C client.* `sy_upload`, the libuv worker and the signaling thread share a struct and the stack of
`sy_upload` without a lock. Correct means: what goes out is the complete offer, what is parsed is the
complete answer, nobody uses the stack after the return, and an upload is not cut in the middle.

*The C file server.* One thread runs a service loop inside a callback of another one. Correct means:
no request waits for good behind the nested loop, and each is answered.

*The file transfer over librtcdc.* Correct means: the receiver's files are the sender's, and a lost
packet never puts one file's text into another.

*The upload of `client.js`.* Chunks of any length are cut into slices, in a loop that holds the only
thread, while the channel may close. Correct means: the packets are numbered through and are the file
from its start, "Success" means all of it, and every upload that begins comes to an end.

*The manual drivers.* Two programs, a person and two files, with `sleep` for synchronisation. Correct
means: a person who waits for the prompts gives no peer an old or half-written description, messages
arrive in order and from the first, the programs come to their end, and the factory does not outlive
its threads.

PROJECT.json lists every hazard at its line with the properties that would catch it.

## 2. Modules

| module | what it is |
|---|---|
| `DataChannelLifetime` | abstract: the life of a channel object, and calls on it one at a time |
| `RTCPeerConnection` | one peer: both wrapper classes, libwebrtc below, any application above |
| `OfferAnswer` | abstract: requests, answers sent for them once or more, and which answers a request is handed |
| `Signaling` | clients, file servers and the metadata server of node_sync |
| `UploadClient` | the C client's three threads |
| `FileServer` | the C file server's thread and its peer |
| `FileCopy` | abstract: copying files one at a time |
| `FileTransfer` | sender and receiver of cli_rtcdc.c |
| `ClientUpload` | one client.js, from its start to the last packet |
| `Drivers` | offer.cc and answer.cc, Utils.cpp, and the person between them |
| `MC...` | the instances TLC checks; each .cfg gives the constants their values |
| `RTCPeerConnectionProofs`, `SignalingProofs`, `UploadClientProofs`, `FileServerProofs`, `FileTransferProofs`, `ClientUploadProofs`, `DriversProofs` | the theorems about each, with their proofs |
| `FileCopyProofs` | that FileTransfer implements FileCopy |

Definitions that begin with `\* Mutant:` are not part of any specification. Each is a plausible bug in
the action below it; put in that action's place it breaks the property PROJECT.json names with it.

### RTCPeerConnection

libwebrtc's objects are proxies: a call is run by the peer's signaling thread and the caller waits
until that thread is free and has run it. The guard `SignalFree` is that wait. A step of the
application thread is one library call, with the stores next to it that no callback can tell apart
from the call; wherever a callback can come in between, there are two steps. `app` is the program
counter: `idle` between API calls, otherwise the place inside one. So `RTCPeerConnection_Init` is
Construct, InitConnection, CreateDataChannel, RegisterObserver, WireChannel, and
`SetCallback_onopen` is two stores, SetCallback_onopen and StoreUserdata. Shutdown is written once
and used by Close and by Destroy (`destroying`): it closes the connection, then the channel (Close
and unregister), which RTCDataChannel_Destroy does once more before the delete.

libwebrtc is external and modelled from how it is used. It keeps a signaling state that accepts some
descriptions and refuses others, two descriptions by version number, a queue of results it has still
to deliver, and a state per channel. It opens a channel once both descriptions are there, reports
`kOpen` once, and gives NULL for a channel of a closed connection. A callback other than `onopen` is
one step; `onopen` can take long, since the applications send from it, so it begins in `OnOpen` and
ends in `OnOpenReturn`. The constants `Early` and `Reopen` are rules an application keeps or not:
callbacks before the remote description; asking for a channel after Close.

`opened` and `dropped` are history: they record what an event met and no guard reads them.

### Signaling

Each process is one event loop, so a callback is one step. A peer connection reports gathering
twice, and the handlers of `client.js:57-63` and `file_server.js:133-139` look at the state and not
at the event: an event that is handled late finds gathering complete as well as the next one. So a
client sends its offer once, or twice over two connections, and a file server answers a request once
or twice. `Request` has a client's first and second request, `made` counts the sendings of an
answer, and each carries its number. `ClientUpload` has the two events themselves; here they are the
choice in `ClientRequest` and `FSAnswer`.

Messages are a set, `wire`. Only answers can be two on one connection; `InOrder` keeps their order.
The relay is closed after each answer (`metadata_server.js:89`), and a second one that arrives while
it closes may be passed on or dropped. When a process ends, its connections end: messages to it
vanish and messages from it are lost or still delivered, in any combination. The metadata server
also ends by itself: a request it has no record for makes the handler throw
(`metadata_server.js:79`), and the step is the same `MSDown` as a kill. A restart of a file server
is another element of `FileServer`, at any address that `Places` allows. `registeredIn`, and `got`
with the answers a request was handed in their order, are history.

The bounds `Late`, `LateAnswer`, `Places` and `MaxRequests` say which clients and answerers may be
late, where a run of the file server may listen, and how many requests there are; the proofs hold
for all their values.

### UploadClient

Plain stores to the shared struct go through a buffer per thread (`buffer`) and reach memory later
(`Flush`): first in, first out on the 64 bit build; with `Weak`, as on ARM, stores to different
fields may pass each other. Reads see the thread's own buffer first. Filling `data` with memset and
strcpy is one store, because no property distinguishes the parts. The peer is what RTCPeerConnection
shows of one: an offer that is applied later or refused, a channel that opens after the answer is
set, and a Destroy that waits for a running `on_open`. `crashed` stands for the places where the
code dereferences NULL (the result of `lwst_initial`, an absent local description, a missing
"answer") or uses what is freed (the connection in `AskWritable`, the second `json_decref` in
`FreeJson`); for the last two the process may also survive.

### FileServer

libwebsockets is modelled by four facts the code relies on: the protocols' `PROTOCOL_INIT` runs inside
`libwebsocket_create_context`, which is where the nested loop is; the memory of a session starts as
zeros; the listening socket takes connections from then on; a callback's -1 closes the connection.
`main` is the one thread. The pointer of a session is never set on the protocol that receives the
requests (finding `unanswered`), so no value of `session` other than NULL occurs, and the code after
it (`SERVER_WRITEABLE`) is unreachable and has no action. The text that is sent also carries the
answer's type and sdp in the object meant for the offer (`file_server.c:143-144`); no module models
the JSON's shape.

### FileTransfer

A character is known by its file and its position; a packet is an index and characters. `SendBuf` is
one `fgets` with its packet: it reads to the end of the line, of the buffer or of the file, and
sends as many characters as `strlen` finds, which is fewer when there is a NUL. The receiver's
handle `pFILE` is NULL at first, a file when open, and -1 after `fclose`, when it still points to
what was closed: using it may crash. The packets carry no file number beyond the name packet, so
whether files mix depends on that handle alone. `LineEnd` and `Measured` are the arithmetic of line,
buffer and file ends.

### ClientUpload

JavaScript's one thread runs callbacks to their end, so a callback is one step: `OnStat`, `OnOffer`,
`OnLocalDescription`, `OnGatheringStateChange`, `OnConnect`, `OnAnswer`, `OnOpen`, `OnLoadStart`,
`OnLoadEnd`, `OnReadError`. The callback for file data is the exception: it busy-waits after each
slice, so `OnData` begins its loop and each `Slice` is a turn of it; `Free` keeps every other
callback out until the loop is done, while the peer connection's own threads (`Gather`,
`ChannelOpens`, `ChannelCloses`) go on. The peer connection is external. Its events are queued, but
the handler of gathering reads `iceGatheringState` as it is by the time it runs; hence two queued
events may both find it "complete" and send two requests, which is why there are two `Requests`.
What is sent is a history of packets, and the text of the file is a sequence of positions, so that
`CopySpec` can say that the packets together are the file.

### Drivers

`at` is each program's place in the list of its calls (`AnswerCalls` for answer.cc, `BurstCalls` and
`TypedCalls` for the two offer.cc); an action belongs to one or two places and `Proceed` takes it to
the next. `Libwebrtc_Init` and `Libwebrtc_Dispose` are two steps each, in the order of `Utils.cpp`:
the thread is started (`init`), then the factory is made with it (`factory`); the factory is given
up (`dispose`, line 102), then the thread is deleted (`stop`, 110). The `sleep`s are not steps: what
they are meant to wait for may or may not have happened (`Applied`). `GetDataChannel` and the
setting of `onmessage` are part of `Ask`, because the channel exists since `Peer` and nothing can
come in on it before the descriptions are exchanged; `SetRemoteDescription` is part of `Read`, the
call before it. The peers are condensed to what the drivers can tell: a description that is asked
for, applied, and grown by candidates, and an ordered channel per direction whose announcement (0)
comes before its messages. A description is known by how far it got (`bare`, `full`), and by being
older (`stale`) or longer than the reader's 2048 bytes (`long`). Each program is started once.
`hasty` is history: a person who did not wait for the other program's prompt.

## 3. Runs

| run | cfg | properties | states |
|---|---|---|---|
| `peer` | MCRTCPeerConnection | TypeOK, OpenHoldsChannel, NoNullChannel, CopyIsLive, NothingMissed, CallsReturn | 9 585 |
| `reopen` | MCReopen | NoFreedCallback, NoLeak, IInv, LifetimeSpec | 375 723 |
| `signaling` | MCSignaling | TypeOK, PromiseKept, OldestServes, NoneForgotten, ExchangeSpec, Resolved | 615 524 |
| `upload` | MCUploadClient | TypeOK, RequestIsOffer, AnswerArrived, StackOutlived, NeverCutShort, AnswerStays, Returns | 334 |
| `fileserver` | MCFileServer | TypeOK, NestedGoesOn, TakenUp | 255 |
| `copy` | MCFileTransfer | CopySpec | 214 384 |
| `lost` | MCLostPacket | TypeOK, NeverMixed | 678 376 |
| `nodeclient` | MCClientUpload | TypeOK, Framed, CopySpec, Asked, Uploaded | 49 777 |
| `drivers` | MCDrivers | TypeOK, GotIsPrefix, HearsPresent, FactoryHasThread, Heard, Ends | 204 018 |
| `arm` | MCUploadArm | AnswerArrived: violated | |
| `rtcdc` | MCRtcdc | ClosedBeforeRtcdc: violated | |
| `unanswered` | MCUnanswered | Answered: violated | |

What they show, and why the bounds are enough:

- **peer**: an application like `client.c`, which sets its callbacks before the answer and asks for no
  channel after Close. One local channel (the one Init makes), one the other peer opens, one
  negotiation. Under these rules a running `onopen` has a wired and living channel, no NULL channel is
  dereferenced, the copied description is current, no event is missed, and every call returns.
- **reopen**: any application. Two local channels, so that one is freed while the other is
  made, and calls in any order. It checks the inductive invariant before it is relied on in the proofs,
  and that the peer refines DataChannelLifetime. In this run the application may crash the process by
  closing a NULL channel; freed memory is still never called.
- **signaling**: two requests, of two clients at once or both of the first client, whose second may
  be answered twice (`LateAnswer`); two file servers, the second at the address of the first or at
  another; one restart of the metadata server. Two requests and two answers cross, at two servers or
  at one; two file servers are two machines or one restarted; one restart is enough to have records
  promised by an earlier metadata server. `ExchangeSpec`: whatever is sent twice, a request is
  handed answers to itself only, and each sending once. `OldestServes` is what the code's single
  userID amounts to: all requests go to the oldest record, gone or not. `NoneForgotten` says that a
  request whose client waits is in somebody's hands, and `Resolved` that it gets its answer, unless
  nobody listened where the record says or the file server asked has ended (`Abandoned`), of which
  the code tells nobody.
- **upload**: two uploads in a row, so that what follows a return is in the run (each upload has a
  struct, a connection and a peer of its own, and starts from blank ones), and two packets, because
  an upload must be able to be in the middle. Shows that the order of plain stores suffices with
  ordered stores, that nobody uses the returned stack, that Destroy does not interrupt an `on_open`
  that has begun, and that no late store of main's takes back the type the worker has stored with an
  answer. `Returns` says when the loop around `usleep` has no end. Either no answer can come
  (`Hopeless`): the connection is gone, or it is there and nothing is asked to be written, because
  the request to write was made before the connection was and got lost. Or nobody sends one
  (`Unanswered`): the offer is out, the connection open, and the servers silent, as when the
  metadata server cannot reach the file server (`metadata_server.js:79`) or the C file server ends
  (finding `unanswered`). In every other case `sy_upload` returns or crashes.
- **fileserver**: two requests, so one can wait for the other and for the nested loop. A request
  waits for good only when the connection to the metadata server fails: `CLIENT_CONNECTION_ERROR`
  does not set `sync_exit`. Except for that, the nested loop always has its next event to come
  (`NestedGoesOn`): the connection, the turn to write, or the confirmation.
- **copy**: two files of up to three characters and a buffer for two, so that lines and files end inside
  and between packets, and empty files occur. Text files over a channel that loses nothing are copied
  exactly (refinement of FileCopy).
- **lost**: any file, NUL characters included, and one packet lost. What is on disk may be short but
  is never another file's and never out of order. It is a matter of exactly one packet: with an end and
  a name lost in a row the next file's text would go into the file before it, so one is the bound.
- **nodeclient**: files of 0, 1, 4 and 6 units or none at all, slices of 2 and chunks of 1 to 5:
  chunks that are shorter than a slice, a whole number of slices, and slices and a rest; more than
  one chunk; an empty file. The channel closes at any turn of the loop.
- **drivers**: both offer.cc, each program with an old file of the other's or none, two messages in
  a burst and one typed line, so that a message can be lost at the end, in front, or not; kills,
  early keys and the end of input anywhere. `FactoryHasThread` holds between the two halves of
  Libwebrtc_Init and of Libwebrtc_Dispose too: were the thread deleted before the factory is
  released, it would not.

A run checks deadlock unless its cfg turns it off. The Signaling run does, because all processes
may end there. In the other modules a state where the program really stops has an explicit step
(`Done`, `Idle`, `Over`) or, where it spins, `Spin`; any other stop is an error.

### Findings

1. `arm`: `callback_client` stores the text and then the type, without a barrier; on ARM
   `sy_upload` may see the type first and parse its own offer (`src_arm/cli/client.c:208-211`; the code
   notes that a mutex is needed).
2. `rtcdc`: `client.c:218` says "close the libwebsocket connection and then start rtcdc connection"; the
   rtcdc connection starts at 228 and the websocket is closed after 232.
3. `unanswered`: the C file server copies the answer through a pointer that only the other protocol's
   callback sets (`file_server.c:148`, `177`); no request is answered.

Seen while modelling, each a choice or a branch of an action and not a run of its own:

- `client.js:74` says "whenever recieve answer then close the connection;"; nobody closes it.
- `client.js:59-72`: two queued gathering events can send two upload requests
  (`OnGatheringStateChange`).
- `offer.cc:61` of src_64 (60 of src_arm) reads from `offer_file`, which is closed, and not from the
  file just opened: it may get the answer, nothing, or crash (`Read`).
- The drivers print a description before they write it, and `LocalDescription` is NULL when the result
  has not been applied within the sleep (`Describe`); the same sleep is in `client.c:187`.
- The 2048 bytes a description is read into have no room for the final 0 of a longer one (`Read`).
- At the end of its input `fscanf` returns EOF, which is not 0, and the loop goes on forever (`Spin`).
- `Libwebrtc_Dispose` releases the factory without freeing it and does not stop `_worker`
  (`Dispose`). The leak is what keeps the static destructor from using a deleted thread
  (`FactoryHasThread`).
- The wrappers of channels the other peer opened are never freed; `lwst_initial` returns 0 on failure
  and its callers dereference it.

## 4. Fairness

- RTCPeerConnection: weak fairness of `InCall` (the application thread, once in a call, goes on when
  it can) and of `OnOpenReturn` (the application's `onopen` is a finite loop). libwebrtc is not
  obliged to call anything. `CallsReturn` needs no strong fairness although each call waits for
  `SignalFree`: only `onopen` occupies the thread for more than a step, and a channel opens once.
- Signaling: weak fairness of the steps of the processes together (`MSStep \/ FSStep \/
  ClientStep`): event loops turn and the network delivers. It is enough that some step is taken as
  long as there is one, because each takes a message or an exchange further and there are finitely
  many. Sending requests, starting, killing and exiting are the environment's, and have none.
- UploadClient: weak fairness of the three threads and of stores reaching memory. `Answer`, `OnOpen`
  and `Closed` have none: the servers need not answer, a channel need not open, a connection need
  not fail.
- FileServer: weak fairness of the thread in both loops and of the metadata server's confirmation.
- ClientUpload: weak fairness of `Loop`, the event loop, which never waits for anything else, and of
  `Gather`. A file stream delivers its chunks and then its end. The network and the channel have none.
- Drivers: weak fairness of the programs between two waits for the person, and of messages on a
  channel that is open. The person, `Applied` and `Opens` have none: nobody has to type, and no
  channel has to open.

## 5. Proofs

All theorems are about `Spec` without fairness, and so hold with it. Liveness is beyond the prover and
stays with TLC; what is proved of it is its safety half: that nothing waits for what cannot come any
more, and that each step leaves fewer to go. Most properties are not inductive; each section says what
the invariant adds, and why.

| module | theorem | says | assuming |
|---|---|---|---|
| RTCPeerConnectionProofs | TypeCorrect | TypeOK | |
| | Invariant | IInv | |
| | NoCallbackIntoFreedMemory | NoFreedCallback | |
| | OnOpenHoldsItsChannel | OpenHoldsChannel | |
| | ShutdownMeetsNoNullChannel | NoNullChannel | (the property: without Reopen) |
| | ShutdownLeavesNoChannel | NoLeak | |
| | EarlyCallbacksMissNothing | NothingMissed | (the property: with Early) |
| | OneNegotiationCopiesSafely | CopyIsLive | (the property: one negotiation) |
| | WrapperKeepsLifetime | the peer implements DataChannelLifetime | |
| | ChannelsAreReliable | and has its guarantees CallsOnAttached, NoneCutShort, FreedForGood | |
| | CallsGoOn | a call waits for a running `onopen` at most, and each step shortens it | there is a local channel |
| SignalingProofs | TypeCorrect | TypeOK | |
| | PromisesAreKept | PromiseKept | |
| | AllGoToTheOldest | OldestServes | |
| | AnswersFindTheirRequest | the signaling implements OfferAnswer | |
| | OwnAnswersOnly | and has its guarantees OwnAnswer, NothingTwice | |
| | NobodyIsForgotten | NoneForgotten | (the property: but for ended file servers) |
| UploadClientProofs | TypeCorrect | TypeOK | |
| | NobodyUsesTheStack | StackOutlived | |
| | DestroyWaits | NeverCutShort | |
| | OrderedRequest | RequestIsOffer | stores arrive in order (`~Weak`) |
| | OrderedAnswer | AnswerArrived | `~Weak` |
| | AnswerIsNotOverwritten | AnswerStays | |
| | WaitsStand | where the loop around `usleep` and `uv_run` may wait, and that hope once lost stays lost | |
| FileServerProofs | TypeCorrect | TypeOK | |
| | NestedLoopGoesOn | NestedGoesOn | |
| | NoRequestIsAnswered | the pointer stays NULL; the first request taken is the last | |
| FileTransferProofs | TypeCorrect | TypeOK | |
| | TextsStayApart | NeverMixed | at most one packet is lost |
| FileCopyProofs | SendingIsCopying | FileTransfer implements FileCopy | nothing is lost, no NUL in a text |
| | ClosedFilesAreWhole | and has its guarantees Faithful, OneOpen, NothingLost | as above |
| ClientUploadProofs | TypeCorrect | TypeOK | |
| | PacketsAreFramed | Framed | |
| | UploadIsCopying | ClientUpload implements FileCopy | |
| | SuccessMeansWhole | "Success" is for the whole file, unless a packet was dropped | |
| | CompletionIsAsked | until a request is made, an event that will make it is queued | |
| | UploadGoesOn | an upload always has a next step, and each leaves less to do | |
| DriversProofs | TypeCorrect | TypeOK | |
| | HeardInOrder | GotIsPrefix | |
| | PatienceIsEnough | HearsPresent | |
| | FactoryIsGivenUp | FactoryHasThread | |
| | NothingGetsStuck | what was taken has been heard or is on the wire, and is heard in turn | |
| | EndGoesOn | a program at its end always has a next call, and fewer after it | |

The assumptions on constants are named where the constants are declared, and only bound what the
model counts or exclude a value that stands for "none". Those of the last column are needed: run
`arm` refutes `AnswerArrived` with `Weak`; two packets lost in a row, an end and a name, put the
next file's text into the file before; a NUL cuts the rest of its line off.

**RTCPeerConnection.** That freed memory is not called rests on the channel being unobserved between
Close and delete, which rests on nobody observing it again meanwhile, which rests on where the
application thread is. `IInv` has these parts:

- `ThreadInv`: where the application thread is decides which objects and threads exist;
- `ChannelInv`: an observed object is alive, and a handler sits only in a wired one;
- `OwnerInv`: `data_channel_` and the channel under construction are the only live ones of this peer
  (so deleting `data_channel_` leaves none);
- `ShutdownInv`: a closed channel stays closed, and is unobserved between Close and delete;
- `NullInv`: without Reopen there is no NULL channel;
- `EarlyInv`: with the rule, the callbacks are in place before a remote description is, and no
  channel opens without one;
- `CopyInv`: each description asked for is applied at most once, so with one negotiation the one that
  is being copied cannot have been replaced.

There is one lemma per action, each with a step for every part of IInv the action can disturb;
`NextStep` puts them together. The refinement is proved action by action in `LifetimeStep`: each
step of the peer is a step of the life of one channel, or none (lemmas SameLives, OneLifeChanges).
What DataChannelLifetime guarantees of itself is proved from its own actions (`LifeStep`) and
carries over: the object of a running call is attached and stays so until the call returns, and a
freed one stays freed.

`GoesOn` and `ComesCloser` are the part of CallsReturn that needs no fairness. A call is either free to
make its next step or waits for `onopen`, and finds a channel to make (`UnbornInv`: only this thread
makes them); `Left` counts the steps a call has left at most, and every step of the thread lowers it.

**Signaling.** `RegisterInv` speaks of the messages too: a promise on its way says which metadata server
made it, and its record is there if that one still runs. `RelayInv`: a relay goes where the
first record says, and the first record stays the first while its server runs.

The refinement maps the requests that were sent (`asked`) to those whose connection was made, and
`made` and `got` to themselves; it rests on two invariants. `RequestInv`: a request is in one place
at a time (on its way, relayed, or at one answerer) and a client's next request was never sent
before, so that an answerer is made once for each and no count starts again. `AnswerInv`: what is on
its way was sent, is not yet handed over, is not in two places, and goes back to the request it
answers. OfferAnswer's own guarantees, answers to one's own request that had been sent and no
sending twice, follow from its actions (`OwnStep`) and carry over. They do not say that a request is
answered once only, which is not so.

`CalmInv` follows a waiting client's request through the connections an exchange needs, as far as
these stand: the relay is to be made, was refused, or leads to a file server that has the request,
makes the answer, has sent it, or has ended.

**UploadClient.** `StackInv` is the program order that keeps the stack in use: main passes `uv_run`
only when the worker is done, and `Destroy` only when `on_open` is. `SharedInv` follows the struct
through the store buffers: each thread stores a field once and the type last (`QueueInv`); until the
answer, the type says UPLOAD_REQUEST only when the whole offer has arrived (`FilledInv`), and from
then on UPLOAD_READY only when the whole answer has (`AnsweredInv`). `EitherInv` does with less and
holds with `Weak` too: a buffer has each field once at most (`OnceInv`), so that stores which pass
each other never pass one to the same field; what has arrived is not on its way a second time
(`ArrivedInv`); nothing is stored, asked or answered before the struct is filled (`BeforeInv`); and
when the whole offer is sent, all of main's stores have arrived, and only then can there be an
answer (`SentInv`). For `WaitsStand`, `ServeInv` ties the worker to its connection and `client_exit`
to `uv_run`, and `ReadyInv` says that nothing goes out before the connection is there and no type
says UPLOAD_READY before an answer was taken. `WaitStands` then goes through the cases in which main
is in one of its two loops; that the hopeless one is final is `HopelessStep`: with all of main's
stores made, nobody asks to write again.

**FileServer.** A request is taken only by a thread that is in no callback, and is in hand until it
is answered (`OneAtATime`), so two connections never have the one description between them.
`LoopInv` follows the registration through the nested loop: on an open connection there is a
registration to write, or one that is sent, unless the flag that ends the loop is set, and a closed
connection has set it. `UnsetInv` is the finding `unanswered` for any number of connections: no
session of the protocol that takes requests ever gets its pointer, so the step that would send an
answer is the process's last.

**FileTransfer and FileCopy.** `MayBeOpen(i, k)` says that the receiver may have file k open when it
comes to packet i of the wire. `HandleInv`: text of a file is never behind a place where another may
be open, given that a lost end is made good by the next name and a lost name by the end before it.
`OrderInv` adds the order of the characters on the wire and on the disk. For the refinement, where
nothing is lost, `CopyInv` says more: each packet on the way goes on exactly where the one before
led (`Chain`), and the receiver stands where the first one goes on, so that each packet that arrives
is one step of FileCopy. FileCopy's own guarantees (`RelyStep`) then say it without a refinement:
what is closed is the sender's file, what is open is a beginning of it, and what was received is not
given up.

**ClientUpload.** `LoopInv`: the loop's index stays on the grid of slices inside the chunk, and the
packet counter is the number of packets sent, unless the channel has closed, after which none is
sent. What the packets carry together, `Sent`, is a recursive function; that it is the one function
that strings them together, and what one packet more adds to it, is proved by a least counterexample
(`StringsAgree`, `OneMore`). `CopyInv` relates it to the file: the chunk in hand is the end of what
was read (`ChunkInv`), the packets reach up to `Place`, which is where the loop is in that chunk
(`CarryInv`), unless one was missed, which takes a closed channel (`MissedInv`); and at "loadend"
the place is the end of the file (`EndInv`). `RequestInv` counts the two events of gathering against
the two requests; `ToDo` counts what an upload has left: events of the reader, chunks, and slices,
of which each brings the place on.

**Drivers.** `WireInv` relates, per channel, what was taken, what is on the wire and what was heard:
the wire goes on behind what was heard, with the announcement in front until it is wired, and
nothing of it exists before the other program has a peer with `on_datachannel`. `Patient` says where
the two programs can be relative to each other when nobody was hasty: one that is about to read
finds a file that is written, by a program that is past its writing. `ClosedInv` says that a channel
is only closed when a program has gone, which is why nothing of it can be missing while both are
there; `BurstInv` that the loop starts at nothing and stops at its bound, and `ToGo` counts the
calls and turns that are left. `GivenUpInv` is FactoryHasThread with what holds between the two
halves of Libwebrtc_Init and Libwebrtc_Dispose.

Model-checked and not proved: liveness, that is `CallsReturn`, `Resolved`, `Returns`, `TakenUp`,
`Asked`, `Uploaded`, `Heard` and `Ends`. Their safety halves are CallsGoOn, NobodyIsForgotten,
WaitsStand, NestedLoopGoesOn, CompletionIsAsked, UploadGoesOn, NothingGetsStuck and EndGoesOn. These
say that the next step can be taken by naming what its guard needs, not with ENABLED, which is out
of the prover's reach too.

## 6. Not modelled, and why

- The setters of the six callbacks the wrapper only logs, the stubs at the end of
  RTCPeerConnection.cpp, `AddCandidate` (nothing calls it): no state.
- `RTCDataChannel_Send`: it reads the object and hands a buffer to libwebrtc. The callers ignore its
  result, so there is nothing to compare a failure with.
- The destruction of the wrapper of a remote channel: no code does it. `NoLeak` is about local
  channels for this reason.
- The content of JSON, SDP and candidates; logging; the build files.
- `_Main.cc`: it makes two peers in one process and issues a command per line. Its calls are among those
  `RTCPeerConnection` allows its application in any order, and it keeps no state of its own.
- A lost or repeated message on a living websocket: the transport is TCP.
- Texts longer than the 2048 bytes of `data` (`client.c:202-204`, `109-122`), texts that are no JSON
  (`client.c:109-122`), and requests without offer or sdp (`file_server.c:130-134`): the models'
  messages are well-formed and fit.
- A NULL from CreatePeerConnection (`RTCPeerConnection.cpp:623-644`). `StopThreads` stops both
  threads of a peer in one step (597-602): the worker thread calls nothing of the wrapper.
- A Destroy that waits for a callback in `Drivers`: `on_message` is one step there. That Destroy
  waits for a long `onopen` is RTCPeerConnection's and UploadClient's.
- More than one lost packet in `FileTransfer`: `NeverMixed` does not hold for a lost end and name in
  a row.

## 7. Plan

Done, in this order: the peer with its data channels and their lifetime, its proofs, the signaling,
the C client, the C file server, the file transfer, the upload of `client.js`, the manual drivers with
Utils, and the proofs of all of them.

Left:
1. A composition of UploadClient with FileServer and the metadata server's relay, in place of the
   condensed `Answer`; and the peers of UploadClient and Drivers shown to be abstractions of
   RTCPeerConnection.
2. A rule for `onmessage` of local channels, of which NothingMissed says nothing yet.
