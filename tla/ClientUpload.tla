---------------------------- MODULE ClientUpload ----------------------------
(***************************************************************************)
(* client_upload of node_sync's client: one process from its start to the  *)
(* last packet of the file.                                                *)
(*                                                                         *)
(* JavaScript runs on one thread.  A callback is one step, except the one  *)
(* for file data: it busy-waits after each slice, so it is a step per      *)
(* slice, with no other callback between.  The peer connection gathers     *)
(* candidates, opens and closes the channel on threads of its own and      *)
(* queues events; a property of it, like iceGatheringState, is read as it  *)
(* is by then.                                                             *)
(***************************************************************************)
EXTENDS Naturals, Sequences

CONSTANTS
  FileSizes,        \* sizes a file may have, in the units data.length counts
  SliceSize,        \* slice_size; the code has 8192
  ChunkSize,        \* how much a file stream hands over at most
  NoFile,           \* "there is no file at file_path"
  Undefined         \* JavaScript's

ASSUME ClientUploadAssumption ==
  /\ FileSizes \subseteq Nat
  /\ SliceSize \in Nat \ {0} /\ ChunkSize \in Nat \ {0}

VARIABLES
  file,             \* the size of the file at file_path, or NoFile
  process,          \* running, or ended by an exception nobody catches
  stat,             \* the callback of fs.stat: pending or done
  offer,            \* creating, setting (its description), applied
  gathering,        \* iceGatheringState: new, gathering or complete
  changes,          \* queued icegatheringstatechange events
  request,          \* request[r]: the connection of the r-th upload request
  remote,           \* an answer is set
  channel,          \* offerer_dc: connecting, open or closed
  onopen,           \* its event: none, queued or handled
  reader,           \* the FileReader: none, starting, reading or loadend
  read,             \* units the stream has handed over
  packet_index,     \* Undefined until loadstart
  data, i,          \* the chunk and the counter of the slicing loop
  sent,             \* packets the open channel took
  missed            \* a packet was handed to a closed channel, which kept quiet

peerVars == << offer, gathering, changes, request, remote, channel >>
fileVars == << reader, read, packet_index, data, i, sent, missed >>
vars == << file, process, stat, peerVars, onopen, fileVars >>

\* The units of the file, each known by its position.
Text == IF file = NoFile THEN << >> ELSE [p \in 1..file |-> << 1, p >>]

Requests == 1..2    \* one for each queued event that finds the state complete

Packet(index, slice) == [index |-> index, length |-> Len(slice), data |-> slice]

\* The condition of the loop, i < data.length / slice_size, without the fraction.
Slicing == i * SliceSize < Len(data)

\* The event loop can run a callback.
Free == process = "running" /\ ~Slicing

TypeOK ==
  /\ file \in FileSizes \cup {NoFile}
  /\ process \in {"running", "ended"}
  /\ stat \in {"pending", "done"}
  /\ offer \in {"creating", "setting", "applied"}
  /\ gathering \in {"new", "gathering", "complete"}
  /\ changes \in 0..2
  /\ request \in [Requests -> {"none", "connecting", "open", "failed", "answered"}]
  /\ remote \in BOOLEAN
  /\ channel \in {"connecting", "open", "closed"}
  /\ onopen \in {"none", "queued", "handled"}
  /\ reader \in {"none", "starting", "reading", "loadend"}
  /\ read \in 0..Len(Text)
  /\ packet_index \in Nat \cup {Undefined}
  /\ Len(data) <= ChunkSize /\ i * SliceSize < Len(data) + SliceSize
  /\ sent \in Seq([index : Nat, length : Nat, data : Seq({1} \X Nat)])
  /\ missed \in BOOLEAN

\* What runs before the first callback: stat, the peer connection with its handler,
\* the channel with its handler, createOffer.
Init ==
  /\ file \in FileSizes \cup {NoFile}
  /\ process = "running" /\ stat = "pending" /\ offer = "creating"
  /\ gathering = "new" /\ changes = 0
  /\ request = [r \in Requests |-> "none"] /\ remote = FALSE
  /\ channel = "connecting" /\ onopen = "none"
  /\ reader = "none" /\ read = 0 /\ packet_index = Undefined
  /\ data = << >> /\ i = 0 /\ sent = << >> /\ missed = FALSE

Throw == process' = "ended"

-----------------------------------------------------------------------------
(* Signaling                                                               *)

OnStat ==
  /\ Free /\ stat = "pending"
  /\ stat' = "done"
  /\ IF file = NoFile THEN Throw ELSE UNCHANGED process
  /\ UNCHANGED << file, peerVars, onopen, fileVars >>

\* createOffer's callbacks: set_local_description or error_handler.
OnOffer ==
  /\ Free /\ offer = "creating"
  /\ \/ offer' = "setting" /\ UNCHANGED process
     \/ Throw /\ UNCHANGED offer
  /\ UNCHANGED << file, stat, gathering, changes, request, remote, channel, onopen, fileVars >>

\* Mutant: the handler of gathering is set here and not at the start.
OnLocalDescriptionRegisters ==
  /\ Free /\ offer = "setting"
  /\ \/ offer' = "applied" /\ changes' = 0 /\ UNCHANGED process
     \/ Throw /\ UNCHANGED << offer, changes >>
  /\ UNCHANGED << file, stat, gathering, request, remote, channel, onopen, fileVars >>

\* setLocalDescription's: the success is only logged.
OnLocalDescription ==
  /\ Free /\ offer = "setting"
  /\ \/ offer' = "applied" /\ UNCHANGED process
     \/ Throw /\ UNCHANGED offer
  /\ UNCHANGED << file, stat, gathering, changes, request, remote, channel, onopen, fileVars >>

\* onicegatheringstatechange looks at the peer connection and not at the event, so two
\* events that have queued up both find the state complete, and each sends a request.
OnGatheringStateChange ==
  /\ Free /\ changes > 0
  /\ changes' = changes - 1
  /\ IF gathering = "complete"
     THEN \E r \in Requests :
            /\ request[r] = "none" /\ \A q \in 1..(r - 1) : request[q] # "none"
            /\ request' = [request EXCEPT ![r] = "connecting"]
     ELSE UNCHANGED request
  /\ UNCHANGED << file, process, stat, offer, gathering, remote, channel, onopen, fileVars >>

\* "connect" sends the offer; "connectFailed" is only logged.
OnConnect(r) ==
  /\ Free /\ request[r] = "connecting"
  /\ \E result \in {"open", "failed"} : request' = [request EXCEPT ![r] = result]
  /\ UNCHANGED << file, process, stat, offer, gathering, changes, remote, channel, onopen,
                  fileVars >>

\* Any message is taken for the answer.  A second answer meets a peer connection that
\* has one, which refuses it or throws.
OnAnswer(r) ==
  /\ Free /\ request[r] = "open"
  /\ request' = [request EXCEPT ![r] = "answered"]
  /\ remote' = TRUE
  /\ \/ UNCHANGED process
     \/ remote /\ Throw
  /\ UNCHANGED << file, stat, offer, gathering, changes, channel, onopen, fileVars >>

-----------------------------------------------------------------------------
(* The peer connection's own threads                                       *)

Gather ==
  /\ process = "running"
  /\ \/ gathering = "new" /\ offer \in {"setting", "applied"} /\ gathering' = "gathering"
     \/ gathering = "gathering" /\ gathering' = "complete"
  /\ changes' = changes + 1
  /\ UNCHANGED << file, process, stat, offer, request, remote, channel, onopen, fileVars >>

ChannelOpens ==
  /\ process = "running" /\ channel = "connecting" /\ remote
  /\ channel' = "open" /\ onopen' = "queued"
  /\ UNCHANGED << file, process, stat, offer, gathering, changes, request, remote, fileVars >>

\* The other peer leaves.  There is no handler for it.
ChannelCloses ==
  /\ process = "running" /\ channel = "open"
  /\ channel' = "closed"
  /\ UNCHANGED << file, process, stat, offer, gathering, changes, request, remote, onopen,
                  fileVars >>

-----------------------------------------------------------------------------
(* The file                                                                *)

\* onopen: a FileReader with its handlers, and readAsText.
OnOpen ==
  /\ Free /\ onopen = "queued"
  /\ onopen' = "handled" /\ reader' = "starting"
  /\ UNCHANGED << file, process, stat, peerVars, read, packet_index, data, i, sent, missed >>

OnLoadStart ==
  /\ Free /\ reader = "starting"
  /\ reader' = "reading" /\ packet_index' = 0
  /\ UNCHANGED << file, process, stat, peerVars, onopen, read, data, i, sent, missed >>

\* Mutant: the counter goes on from chunk to chunk.
OnDataGoesOn ==
  /\ Free /\ reader = "reading"
  /\ \E n \in 1..ChunkSize :
       /\ read + n <= Len(Text)
       /\ data' = SubSeq(Text, read + 1, read + n)
       /\ read' = read + n
  /\ UNCHANGED << file, process, stat, peerVars, onopen, reader, packet_index, i, sent, missed >>

\* A chunk of the file, of any length the stream likes; the loop begins.
OnData ==
  /\ Free /\ reader = "reading"
  /\ \E n \in 1..ChunkSize :
       /\ read + n <= Len(Text)
       /\ data' = SubSeq(Text, read + 1, read + n)
       /\ read' = read + n
  /\ i' = 0
  /\ UNCHANGED << file, process, stat, peerVars, onopen, reader, packet_index, sent, missed >>

\* Mutant: the slices are cut one unit too early.
SliceShort ==
  /\ process = "running" /\ Slicing
  /\ LET slice == SubSeq(data, i * SliceSize + 1, i * SliceSize + SliceSize - 1)
     IN  sent' = Append(sent, Packet(packet_index, slice))
  /\ packet_index' = packet_index + 1 /\ i' = i + 1
  /\ UNCHANGED << file, process, stat, peerVars, onopen, reader, read, data, missed >>

\* Mutant: the packets are numbered within their chunk.
SliceNumbered ==
  /\ process = "running" /\ Slicing /\ channel = "open"
  /\ sent' = Append(sent, Packet(i, SubSeq(data, i * SliceSize + 1,
                       IF (i + 1) * SliceSize < Len(data) THEN (i + 1) * SliceSize ELSE Len(data))))
  /\ packet_index' = packet_index + 1 /\ i' = i + 1
  /\ UNCHANGED << file, process, stat, peerVars, onopen, reader, read, data, missed >>

\* One turn of the loop.  data.slice stops at the end of data.  A closed channel throws,
\* or drops the packet.
Slice ==
  /\ process = "running" /\ Slicing
  /\ LET end == IF (i + 1) * SliceSize < Len(data) THEN (i + 1) * SliceSize ELSE Len(data)
         packet == Packet(packet_index, SubSeq(data, i * SliceSize + 1, end))
     IN  \/ /\ channel = "open"
            /\ sent' = Append(sent, packet)
            /\ packet_index' = packet_index + 1 /\ i' = i + 1
            /\ UNCHANGED << process, missed >>
         \/ /\ channel = "closed"
            /\ missed' = TRUE
            /\ packet_index' = packet_index + 1 /\ i' = i + 1
            /\ UNCHANGED << process, sent >>
         \/ /\ channel = "closed"
            /\ Throw
            /\ UNCHANGED << sent, packet_index, i, missed >>
  /\ UNCHANGED << file, stat, peerVars, onopen, reader, read, data >>

\* Mutant: a failure to read is only logged.
OnReadErrorLogged ==
  /\ Free /\ reader = "reading"
  /\ reader' = "none"
  /\ UNCHANGED << file, process, stat, peerVars, onopen, read, packet_index, data, i, sent,
                  missed >>

\* "error" throws; a file that is not there has no other end.
OnReadError ==
  /\ Free /\ reader = "reading"
  /\ Throw
  /\ UNCHANGED << file, stat, peerVars, onopen, fileVars >>

\* Mutant: the end is reported with the last chunk still to come.
OnLoadEndEarly ==
  /\ Free /\ reader = "reading" /\ file # NoFile /\ read + ChunkSize >= Len(Text)
  /\ reader' = "loadend"
  /\ UNCHANGED << file, process, stat, peerVars, onopen, read, packet_index, data, i, sent,
                  missed >>

\* "loadend" prints "Success".
OnLoadEnd ==
  /\ Free /\ reader = "reading" /\ file # NoFile /\ read = Len(Text)
  /\ reader' = "loadend"
  /\ UNCHANGED << file, process, stat, peerVars, onopen, read, packet_index, data, i, sent,
                  missed >>

-----------------------------------------------------------------------------
(* What is queued for the event loop by the process's own doing.           *)
Loop ==
  \/ OnStat \/ OnOffer \/ OnLocalDescription \/ OnGatheringStateChange
  \/ OnOpen \/ OnLoadStart \/ OnData \/ Slice \/ OnLoadEnd
  \/ OnReadError

\* The metadata server, what is behind it, and the network.
Outside == (\E r \in Requests : OnConnect(r) \/ OnAnswer(r)) \/ ChannelOpens \/ ChannelCloses

\* Nothing is left to happen: the process is gone, or idles with its peer connection,
\* for nobody closes that.
Over ==
  /\ \/ process = "ended"
     \/ ~remote /\ gathering = "complete" /\ \E r \in Requests : request[r] = "failed"
     \/ reader = "loadend" /\ channel = "closed"
  /\ UNCHANGED vars

Next == Loop \/ Gather \/ Outside \/ Over

Spec == Init /\ [][Next]_vars

\* The event loop turns, gathering ends, and a file stream goes on to its end.
FairSpec == Spec /\ WF_vars(Loop) /\ WF_vars(Gather)

-----------------------------------------------------------------------------
(* Properties                                                              *)

\* Whatever chunks the stream makes and whenever the channel closes, the packets are
\* numbered through without a gap, none is empty and none is longer than a slice:
\* the loop's arithmetic per chunk agrees with the numbering across chunks.
Framed ==
  \A n \in 1..Len(sent) :
    /\ sent[n].index = n - 1
    /\ sent[n].length \in 1..SliceSize /\ Len(sent[n].data) = sent[n].length

\* What the packets carry together.
Sent[n \in 0..Len(sent)] == IF n = 0 THEN << >> ELSE Sent[n - 1] \o sent[n].data

Copy ==
  INSTANCE FileCopy WITH
    text <- << Text >>,
    disk <- << [state |-> IF reader \in {"none", "starting"} THEN "absent"
                          ELSE IF reader = "loadend" /\ ~missed THEN "closed" ELSE "open",
                data |-> Sent[Len(sent)]] >>

\* The packets are the file from its start, whatever the chunks, and "Success" means the
\* whole of it, unless the channel closed meanwhile and kept quiet about it.
CopySpec == Copy!Spec

\* An offer that is applied is asked for with all its candidates, however gathering and
\* the event loop interleave; the handler never finds itself one event short.
Asked == offer = "applied" ~> request[1] # "none" \/ process = "ended"

\* Once the channel has opened the upload comes to an end: "Success", or the end of the
\* process, though nobody watches the channel while the loop holds the thread.
Uploaded == onopen = "queued" ~> reader = "loadend" \/ process = "ended"
=============================================================================
