------------------------- MODULE ClientUploadProofs -------------------------
(***************************************************************************)
(* Proofs about ClientUpload, for any sizes of files, chunks and slices.   *)
(***************************************************************************)
EXTENDS ClientUpload, SequenceTheorems, WellFoundedInduction, TLAPS

Units == {1} \X Nat
Packets == [index : Nat, length : Nat, data : Seq(Units)]

\* The types of what the loop works on.
DataInv ==
  /\ data \in Seq(Units) /\ Len(data) <= ChunkSize
  /\ i \in Nat /\ i * SliceSize < Len(data) + SliceSize

\* Packets are numbered from loadstart on, chunk after chunk, by one counter; it runs away
\* from the packets only when the channel has closed, which is for good.
CountInv ==
  /\ reader \in {"none", "starting"} => data = << >> /\ i = 0 /\ sent = << >>
  /\ reader \in {"reading", "loadend"} =>
       packet_index \in Nat /\ (channel # "closed" => packet_index = Len(sent))

\* Events come once: two of gathering, one of the channel.
EventInv ==
  /\ gathering = "new" => changes = 0
  /\ gathering = "gathering" => changes \in 0..1
  /\ channel = "connecting" => onopen = "none"
  /\ onopen # "handled" => reader = "none"

LoopInv == TypeOK /\ DataInv /\ CountInv /\ EventInv

-----------------------------------------------------------------------------
(* Types                                                                   *)

\* The file's units.
LEMMA TextIsSeq ==
  ASSUME file \in FileSizes \cup {NoFile}
  PROVE  Text \in Seq(Units) /\ Len(Text) \in Nat
<1>1. CASE file = NoFile BY <1>1 DEF Text
<1>2. CASE file # NoFile
  <2>1. file \in Nat BY <1>2, ClientUploadAssumption DEF ClientUploadAssumption
  <2>2. [p \in 1..file |-> << 1, p >>] \in Seq(Units) BY <2>1 DEF Units
  <2>. QED BY <1>2, <2>1, <2>2 DEF Text
<1>. QED BY <1>1, <1>2

\* A chunk that the stream may hand over.
LEMMA ChunkIsSeq ==
  ASSUME TypeOK, NEW n \in 1..ChunkSize, read + n <= Len(Text)
  PROVE  /\ SubSeq(Text, read + 1, read + n) \in Seq(Units)
         /\ Len(SubSeq(Text, read + 1, read + n)) = n
<1>1. Text \in Seq(Units) /\ Len(Text) \in Nat BY TextIsSeq DEF TypeOK
<1>2. read \in Nat /\ n \in Nat /\ n >= 1
  BY <1>1, ClientUploadAssumption DEF TypeOK, ClientUploadAssumption
<1>3. read + 1 \in 1..(Len(Text) + 1) /\ read + n \in read..Len(Text)
  BY <1>1, <1>2
<1>. HIDE DEF Units
<1>. QED BY <1>1, <1>2, <1>3, SubSeqProperties

\* Where a slice begins and ends: it has a unit, has no more than slice_size of them, and
\* the next one begins behind it.
LEMMA SliceBounds ==
  ASSUME LoopInv, Slicing,
         NEW end, end = IF (i + 1) * SliceSize < Len(data) THEN (i + 1) * SliceSize
                        ELSE Len(data)
  PROVE  /\ SubSeq(data, i * SliceSize + 1, end) \in Seq(Units)
         /\ Len(SubSeq(data, i * SliceSize + 1, end)) \in 1..SliceSize
         /\ (i + 1) * SliceSize < Len(data) + SliceSize
<1>. DEFINE first == i * SliceSize
            after == (i + 1) * SliceSize
<1>1. /\ i \in Nat /\ SliceSize \in Nat /\ SliceSize > 0 /\ data \in Seq(Units)
      /\ Len(data) \in Nat
  BY ClientUploadAssumption DEF LoopInv, DataInv, ClientUploadAssumption
<1>2. first \in Nat /\ after = first + SliceSize BY <1>1
<1>3. first < Len(data) BY DEF Slicing
<1>4. end = IF after < Len(data) THEN after ELSE Len(data) OBVIOUS
<1>. HIDE DEF first, after
<1>5. /\ first + 1 \in 1..Len(data) /\ end \in (first + 1)..Len(data)
      /\ end - first \in 1..SliceSize /\ after < Len(data) + SliceSize
  BY <1>1, <1>2, <1>3, <1>4
<1>. HIDE DEF Units
<1>6. /\ SubSeq(data, first + 1, end) \in Seq(Units)
      /\ Len(SubSeq(data, first + 1, end)) = end - (first + 1) + 1
  BY <1>1, <1>2, <1>5, SubSeqProperties
<1>. QED BY <1>1, <1>2, <1>5, <1>6 DEF first, after

\* Nothing is read or sliced to begin with.
LEMMA TypeInit == Init => LoopInv
<1>. SUFFICES ASSUME Init PROVE LoopInv
  OBVIOUS
<1>1. Len(Text) \in Nat BY TextIsSeq DEF Init
<1>2. SliceSize \in Nat /\ SliceSize > 0 /\ ChunkSize \in Nat
  BY ClientUploadAssumption DEF ClientUploadAssumption
<1>3. /\ data = << >> /\ i = 0 /\ sent = << >> /\ Len(data) = 0 /\ data \in Seq(Units)
      /\ sent \in Seq(Packets)
  BY DEF Init
<1>4. /\ read \in 0..Len(Text) /\ Len(data) <= ChunkSize /\ i * SliceSize = 0
      /\ i * SliceSize < Len(data) + SliceSize
  BY <1>1, <1>2, <1>3 DEF Init
<1>5. missed \in BOOLEAN /\ remote \in BOOLEAN BY DEF Init
<1>. QED
  BY <1>3, <1>4, <1>5 DEF Init, LoopInv, TypeOK, DataInv, CountInv, EventInv, Packets, Units

\* Steps that are not about the file.
LEMMA SignalingStep ==
  ASSUME LoopInv,
         \/ OnStat \/ OnOffer \/ OnLocalDescription \/ OnGatheringStateChange \/ Gather
         \/ (\E r \in Requests : OnConnect(r) \/ OnAnswer(r)) \/ ChannelOpens \/ ChannelCloses
         \/ OnOpen \/ OnReadError
  PROVE  LoopInv'
<1>. USE DEF peerVars, fileVars, Throw
<1>1. UNCHANGED << file, read, packet_index, data, i, sent, missed >>
  BY DEF OnStat, OnOffer, OnLocalDescription, OnGatheringStateChange, Gather, OnConnect,
         OnAnswer, ChannelOpens, ChannelCloses, OnOpen, OnReadError
<1>2. /\ UNCHANGED << Text, Len(Text) >> /\ i' * SliceSize = i * SliceSize
  BY <1>1 DEF Text
<1>3. /\ process' \in {"running", "ended"} /\ stat' \in {"pending", "done"}
      /\ offer' \in {"creating", "setting", "applied"}
      /\ channel' \in {"connecting", "open", "closed"}
      /\ onopen' \in {"none", "queued", "handled"}
      /\ reader' \in {"none", "starting", "reading", "loadend"}
  BY DEF LoopInv, TypeOK, OnStat, OnOffer, OnLocalDescription, OnGatheringStateChange, Gather,
         OnConnect, OnAnswer, ChannelOpens, ChannelCloses, OnOpen, OnReadError
<1>4. gathering' \in {"new", "gathering", "complete"} /\ changes' \in 0..2
  BY DEF LoopInv, TypeOK, EventInv, OnStat, OnOffer, OnLocalDescription,
         OnGatheringStateChange, Gather, OnConnect, OnAnswer, ChannelOpens, ChannelCloses,
         OnOpen, OnReadError
<1>5. request' \in [Requests -> {"none", "connecting", "open", "failed", "answered"}]
  BY DEF LoopInv, TypeOK, OnStat, OnOffer, OnLocalDescription, OnGatheringStateChange, Gather,
         OnConnect, OnAnswer, ChannelOpens, ChannelCloses, OnOpen, OnReadError
<1>6. remote' \in BOOLEAN /\ missed' \in BOOLEAN
  <2>1. remote \in BOOLEAN /\ missed \in BOOLEAN BY DEF LoopInv, TypeOK
  <2>2. remote' = remote \/ remote' = TRUE
    BY DEF OnStat, OnOffer, OnLocalDescription, OnGatheringStateChange, Gather, OnConnect,
           OnAnswer, ChannelOpens, ChannelCloses, OnOpen, OnReadError
  <2>. QED BY <1>1, <2>1, <2>2
<1>7. TypeOK'
  BY <1>1, <1>2, <1>3, <1>4, <1>5, <1>6 DEF LoopInv, TypeOK
<1>8. DataInv' BY <1>1, <1>2 DEF LoopInv, DataInv
<1>9. EventInv'
  BY DEF LoopInv, TypeOK, EventInv, OnStat, OnOffer, OnLocalDescription,
         OnGatheringStateChange, Gather, OnConnect, OnAnswer, ChannelOpens, ChannelCloses,
         OnOpen, OnReadError
<1>10. CountInv'
  <2>1. /\ reader' \in {"none", "starting"} => reader \in {"none", "starting"}
        /\ reader' \in {"reading", "loadend"} => reader' = reader
        /\ channel' # "closed" => channel # "closed"
    BY DEF LoopInv, EventInv, OnStat, OnOffer, OnLocalDescription, OnGatheringStateChange,
           Gather, OnConnect, OnAnswer, ChannelOpens, ChannelCloses, OnOpen, OnReadError
  <2>. QED BY <1>1, <2>1 DEF LoopInv, CountInv
<1>. QED BY <1>7, <1>8, <1>9, <1>10 DEF LoopInv

\* The data that comes next, and the loop that begins with it.
LEMMA DataStep ==
  ASSUME LoopInv, OnLoadStart \/ OnData \/ OnLoadEnd
  PROVE  LoopInv'
<1>. USE DEF peerVars, fileVars
<1>0. SliceSize \in Nat /\ SliceSize > 0 /\ Len(Text) \in Nat
  BY ClientUploadAssumption, TextIsSeq DEF LoopInv, TypeOK, ClientUploadAssumption
<1>1. UNCHANGED << file, process, stat, peerVars, onopen, sent, missed >>
  BY DEF OnLoadStart, OnData, OnLoadEnd
<1>2. UNCHANGED Text BY <1>1 DEF Text
<1>3. /\ read' \in 0..Len(Text) /\ data' \in Seq(Units) /\ Len(data') <= ChunkSize
      /\ i' \in Nat /\ i' * SliceSize < Len(data') + SliceSize
  <2>1. CASE OnLoadStart \/ OnLoadEnd
    BY <2>1 DEF OnLoadStart, OnLoadEnd, LoopInv, TypeOK, DataInv
  <2>2. CASE OnData
    <3>1. PICK n \in 1..ChunkSize : /\ read + n <= Len(Text)
                                    /\ data' = SubSeq(Text, read + 1, read + n)
                                    /\ read' = read + n
      BY <2>2 DEF OnData
    <3>2. data' \in Seq(Units) /\ Len(data') = n BY <3>1, ChunkIsSeq DEF LoopInv
    <3>3. n \in Nat /\ n >= 1 /\ n <= ChunkSize /\ read \in Nat
      BY <1>0, ClientUploadAssumption DEF LoopInv, TypeOK, ClientUploadAssumption
    <3>4. i' = 0 /\ i' * SliceSize = 0 BY <1>0, <2>2 DEF OnData
    <3>. QED BY <1>0, <3>1, <3>2, <3>3, <3>4
  <2>. QED BY <2>1, <2>2
<1>4. /\ reader \in {"starting", "reading"} /\ reader' \in {"reading", "loadend"}
      /\ packet_index' = IF reader = "starting" THEN 0 ELSE packet_index
  BY DEF OnLoadStart, OnData, OnLoadEnd
<1>5. packet_index' \in Nat /\ (channel # "closed" => packet_index' = Len(sent))
  <2>1. reader = "starting" => sent = << >> BY DEF LoopInv, CountInv
  <2>. QED BY <1>4, <2>1 DEF LoopInv, CountInv
<1>6. remote' \in BOOLEAN /\ missed' \in BOOLEAN BY <1>1 DEF LoopInv, TypeOK
<1>7. TypeOK' BY <1>1, <1>2, <1>3, <1>4, <1>5, <1>6 DEF LoopInv, TypeOK
<1>8. DataInv' BY <1>3 DEF DataInv
<1>9. EventInv' BY <1>1, <1>4 DEF LoopInv, EventInv
<1>10. CountInv' BY <1>1, <1>4, <1>5 DEF CountInv
<1>. QED BY <1>7, <1>8, <1>9, <1>10 DEF LoopInv

\* What one turn of the loop does with its packet.
LEMMA SliceSends ==
  ASSUME LoopInv, Slice
  PROVE  /\ reader \in {"reading", "loadend"} /\ packet_index \in Nat
         /\ \/ \E m \in Packets :
                 /\ m.index = packet_index /\ m.length \in 1..SliceSize
                 /\ m.length = Len(m.data)
                 /\ channel = "open" /\ sent' = Append(sent, m)
                 /\ packet_index' = packet_index + 1 /\ i' = i + 1
                 /\ UNCHANGED << process, missed >>
            \/ /\ channel = "closed" /\ sent' = sent /\ missed' = TRUE
               /\ packet_index' = packet_index + 1 /\ i' = i + 1 /\ UNCHANGED process
            \/ /\ channel = "closed" /\ process' = "ended"
               /\ UNCHANGED << sent, packet_index, i, missed >>
<1>1. reader \in {"reading", "loadend"}
  <2>1. CASE reader \in {"none", "starting"}
    <3>1. data = << >> /\ i = 0 /\ SliceSize \in Nat
      BY <2>1, ClientUploadAssumption DEF LoopInv, CountInv, ClientUploadAssumption
    <3>2. i * SliceSize = 0 /\ Len(data) = 0 BY <3>1
    <3>. QED BY <3>2 DEF Slice, Slicing
  <2>. QED BY <2>1 DEF LoopInv, TypeOK
<1>2. packet_index \in Nat BY <1>1 DEF LoopInv, CountInv
<1>. DEFINE end == IF (i + 1) * SliceSize < Len(data) THEN (i + 1) * SliceSize ELSE Len(data)
            slice == SubSeq(data, i * SliceSize + 1, end)
            m == Packet(packet_index, slice)
<1>3. slice \in Seq(Units) /\ Len(slice) \in 1..SliceSize
  BY SliceBounds DEF Slice
<1>4. \/ /\ channel = "open" /\ sent' = Append(sent, m)
         /\ packet_index' = packet_index + 1 /\ i' = i + 1 /\ UNCHANGED << process, missed >>
      \/ /\ channel = "closed" /\ sent' = sent /\ missed' = TRUE
         /\ packet_index' = packet_index + 1 /\ i' = i + 1 /\ UNCHANGED process
      \/ /\ channel = "closed" /\ process' = "ended"
         /\ UNCHANGED << sent, packet_index, i, missed >>
  BY DEF Slice, Throw
<1>. HIDE DEF slice
<1>5. /\ m \in Packets /\ m.index = packet_index /\ m.length \in 1..SliceSize
      /\ m.length = Len(m.data)
  BY <1>2, <1>3 DEF Packet, Packets
<1>. QED BY <1>1, <1>2, <1>4, <1>5

\* The inner loop: each slice lies inside the chunk, and the index stays on its grid.
LEMMA SliceStep ==
  ASSUME LoopInv, Slice
  PROVE  LoopInv'
<1>. USE DEF peerVars, fileVars
<1>0. Len(Text) \in Nat /\ UNCHANGED Text
  BY TextIsSeq DEF LoopInv, TypeOK, Slice, Text
<1>1. UNCHANGED << file, stat, peerVars, onopen, reader, read, data >> BY DEF Slice
<1>2. i' \in Nat /\ i' * SliceSize < Len(data') + SliceSize
  <2>1. CASE i' = i BY <1>1, <2>1 DEF LoopInv, DataInv
  <2>2. CASE i' = i + 1
    <3>1. (i + 1) * SliceSize < Len(data) + SliceSize BY SliceBounds DEF Slice
    <3>. QED BY <1>1, <2>2, <3>1 DEF LoopInv, DataInv
  <2>. QED BY <2>1, <2>2, SliceSends
<1>3. sent \in Seq(Packets) BY DEF LoopInv, TypeOK, Packets, Units
<1>4. sent' \in Seq(Packets) /\ packet_index' \in Nat
      /\ (channel # "closed" => packet_index' = Len(sent'))
  <2>1. channel # "closed" => packet_index = Len(sent)
    BY SliceSends DEF LoopInv, CountInv
  <2>. HIDE DEF Packets
  <2>2. \A m \in Packets : /\ Append(sent, m) \in Seq(Packets)
                           /\ Len(Append(sent, m)) = Len(sent) + 1
    BY <1>3, AppendProperties
  <2>3. packet_index \in Nat BY SliceSends
  <2>4. CASE \E m \in Packets : sent' = Append(sent, m) /\ packet_index' = packet_index + 1
                                /\ channel = "open"
    BY <2>1, <2>2, <2>3, <2>4
  <2>5. CASE channel = "closed" /\ sent' = sent /\ packet_index' \in {packet_index, packet_index + 1}
    BY <1>3, <2>3, <2>5
  <2>. QED BY <2>4, <2>5, SliceSends
<1>5. missed' \in BOOLEAN /\ remote' \in BOOLEAN
  <2>1. missed \in BOOLEAN /\ remote \in BOOLEAN BY DEF LoopInv, TypeOK
  <2>2. missed' = missed \/ missed' = TRUE BY SliceSends
  <2>. QED BY <1>1, <2>1, <2>2
<1>6. process' \in {"running", "ended"} BY SliceSends DEF LoopInv, TypeOK
<1>7. TypeOK'
  BY <1>0, <1>1, <1>2, <1>4, <1>5, <1>6 DEF LoopInv, TypeOK, Packets, Units
<1>8. DataInv' BY <1>1, <1>2 DEF LoopInv, DataInv
<1>9. EventInv' BY <1>1 DEF LoopInv, EventInv
<1>10. CountInv' BY <1>1, <1>4, SliceSends DEF LoopInv, CountInv
<1>. QED BY <1>7, <1>8, <1>9, <1>10 DEF LoopInv

\* Each step keeps the types and the index on its grid.
LEMMA LoopStep == LoopInv /\ [Next]_vars => LoopInv'
<1>. SUFFICES ASSUME LoopInv, [Next]_vars PROVE LoopInv'
  OBVIOUS
<1>1. CASE UNCHANGED vars
  <2>1. UNCHANGED Text BY <1>1 DEF vars, Text
  <2>. QED
    BY <1>1, <2>1
    DEF vars, peerVars, fileVars, LoopInv, TypeOK, DataInv, CountInv, EventInv
<1>. QED
  BY <1>1, SignalingStep, DataStep, SliceStep DEF Next, Loop, Outside, Over

\* Every variable has its type: no chunk, slice or counter leaves its bounds.
THEOREM TypeCorrect == Spec => []TypeOK
<1>1. LoopInv => TypeOK BY DEF LoopInv
<1>. QED BY <1>1, TypeInit, LoopStep, PTL DEF Spec

-----------------------------------------------------------------------------
(* Framing                                                                 *)

\* Each step sends nothing, or one slice under the next number.
LEMMA FramedStep == LoopInv /\ Framed /\ [Next]_vars => Framed'
<1>. SUFFICES ASSUME LoopInv, Framed, [Next]_vars PROVE Framed'
  OBVIOUS
<1>. USE DEF peerVars, fileVars
<1>1. CASE sent' = sent BY <1>1 DEF Framed
<1>2. CASE Slice /\ sent' # sent
  <2>1. PICK m \in Packets : /\ m.index = packet_index /\ m.length \in 1..SliceSize
                             /\ m.length = Len(m.data)
                             /\ channel = "open" /\ sent' = Append(sent, m)
    BY <1>2, SliceSends
  <2>2. packet_index = Len(sent)
    BY <1>2, <2>1, SliceSends DEF LoopInv, CountInv
  <2>3. sent \in Seq(Packets) BY DEF LoopInv, TypeOK, Packets, Units
  <2>. HIDE DEF Packets
  <2>4. /\ Len(sent) \in Nat /\ Len(sent') = Len(sent) + 1 /\ sent'[Len(sent) + 1] = m
        /\ \A n \in 1..Len(sent) : sent'[n] = sent[n]
    BY <2>1, <2>3, AppendProperties
  <2>5. ASSUME NEW n \in 1..Len(sent')
        PROVE  /\ sent'[n].index = n - 1
               /\ sent'[n].length \in 1..SliceSize /\ Len(sent'[n].data) = sent'[n].length
    <3>1. CASE n \in 1..Len(sent) BY <2>4, <3>1 DEF Framed
    <3>2. CASE n = Len(sent) + 1 BY <2>1, <2>2, <2>4, <3>2
    <3>. QED BY <2>4, <3>1, <3>2
  <2>. QED BY <2>5 DEF Framed
<1>. QED
  BY <1>1, <1>2
  DEF Next, Loop, Outside, Over, Gather, OnStat, OnOffer, OnLocalDescription,
      OnGatheringStateChange, OnConnect, OnAnswer, ChannelOpens, ChannelCloses, OnOpen,
      OnLoadStart, OnData, OnLoadEnd, OnReadError, vars

\* Packets are numbered through without a gap, and none is empty or longer than a slice,
\* for any file, any chunks and any size of a slice.
THEOREM PacketsAreFramed == Spec => []Framed
<1>1. Init => Framed BY DEF Init, Framed
<1>2. Spec => []LoopInv BY TypeInit, LoopStep, PTL DEF Spec
<1>. QED BY <1>1, <1>2, FramedStep, PTL DEF Spec

-----------------------------------------------------------------------------
(* What the packets carry together                                         *)

\* f strings together what the packets of q carry, from the first on.
StringsTogether(f, q) ==
  f = [n \in 0..Len(q) |-> IF n = 0 THEN << >> ELSE f[n - 1] \o q[n].data]

\* The equation, packet by packet.
LEMMA StringsUnfold ==
  ASSUME NEW q, Len(q) \in Nat, NEW f, StringsTogether(f, q)
  PROVE  /\ f[0] = << >>
         /\ \A k \in 1..Len(q) : f[k] = f[k - 1] \o q[k].data
<1>. DEFINE l == Len(q)
<1>1. \A n \in 0..l : f[n] = IF n = 0 THEN << >> ELSE f[n - 1] \o q[n].data
  BY Zenon DEF StringsTogether
<1>. HIDE DEF l
<1>2. \A k \in 1..l : k \in 0..l /\ k # 0 BY DEF l
<1>3. 0 \in 0..l BY DEF l
<1>4. f[0] = << >> BY <1>1, <1>3, Zenon
<1>5. \A k \in 1..l : f[k] = f[k - 1] \o q[k].data BY <1>1, <1>2, Zenon
<1>. QED BY <1>4, <1>5 DEF l

\* There is one way to do so at most, and packets that follow do not change it.
LEMMA StringsAgree ==
  ASSUME NEW q \in Seq(Packets), NEW m \in Packets, NEW f, NEW g,
         StringsTogether(f, q),
         StringsTogether(g, q) \/ StringsTogether(g, Append(q, m)),
         NEW n \in 0..Len(q)
  PROVE  g[n] = f[n]
<1>. DEFINE S == {k \in 0..Len(q) : g[k] # f[k]}
<1>. SUFFICES ASSUME S # {} PROVE FALSE
  OBVIOUS
<1>1. S \subseteq Nat /\ Len(q) \in Nat OBVIOUS
<1>. HIDE DEF Packets
<1>2. /\ Len(Append(q, m)) = Len(q) + 1
      /\ \A k \in 1..Len(q) : Append(q, m)[k] = q[k]
  BY AppendProperties
<1>3. /\ f[0] = << >>
      /\ \A k \in 1..Len(q) : f[k] = f[k - 1] \o q[k].data
  BY <1>1, StringsUnfold
<1>4. /\ g[0] = << >>
      /\ \A k \in 1..Len(q) : g[k] = g[k - 1] \o q[k].data
  <2>1. CASE StringsTogether(g, q) BY <1>1, <2>1, StringsUnfold
  <2>2. CASE StringsTogether(g, Append(q, m))
    <3>. DEFINE r == Append(q, m)
    <3>1. Len(r) \in Nat /\ StringsTogether(g, r) BY <1>1, <1>2, <2>2
    <3>2. /\ g[0] = << >>
          /\ \A k \in 1..Len(r) : g[k] = g[k - 1] \o r[k].data
      <4>. HIDE DEF r
      <4>. QED BY <3>1, StringsUnfold
    <3>3. \A k \in 1..Len(q) : k \in 1..Len(r) /\ r[k] = q[k] BY <1>1, <1>2
    <3>. QED BY <3>2, <3>3
  <2>. QED BY <2>1, <2>2
<1>. HIDE DEF S
<1>5. PICK k \in S : \A j \in S : ~(<< j, k >> \in OpToRel(<, Nat))
  BY <1>1, NatLessThanWellFounded, WFMin, Zenon
<1>6. k \in 0..Len(q) /\ g[k] # f[k] BY DEF S
<1>7. k # 0 BY <1>3, <1>4, <1>6
<1>8. k \in Nat /\ k - 1 \in Nat /\ k - 1 < k /\ k - 1 \in 0..Len(q) /\ k \in 1..Len(q)
  BY <1>1, <1>6, <1>7
<1>9. k - 1 \notin S
  <2>1. k - 1 \in S => ~(<< k - 1, k >> \in OpToRel(<, Nat)) BY <1>5
  <2>2. << k - 1, k >> \in OpToRel(<, Nat) BY <1>8 DEF OpToRel
  <2>. QED BY <2>1, <2>2
<1>10. g[k - 1] = f[k - 1] BY <1>8, <1>9 DEF S
<1>. QED BY <1>3, <1>4, <1>6, <1>8, <1>10

\* A packet more adds what it carries: the equation of Sent, that needs no more packets
\* than there are, holds of one packet more when it held so far.
LEMMA OneMore ==
  ASSUME NEW q \in Seq(Packets), NEW m \in Packets, NEW f, NEW g,
         StringsTogether(f, q),
         g = CHOOSE h : StringsTogether(h, Append(q, m))
  PROVE  /\ StringsTogether(g, Append(q, m))
         /\ g[Len(Append(q, m))] = f[Len(q)] \o m.data
<1>. DEFINE l == Len(q)
            r == Append(q, m)
            h == [n \in 0..(l + 1) |-> IF n <= l THEN f[n] ELSE f[l] \o m.data]
<1>1. l \in Nat OBVIOUS
<1>2. /\ Len(r) = l + 1 /\ r[l + 1] = m
      /\ \A k \in 1..l : r[k] = q[k]
  <2>. HIDE DEF Packets
  <2>. QED BY AppendProperties
<1>3. /\ f[0] = << >>
      /\ \A k \in 1..l : f[k] = f[k - 1] \o q[k].data
  BY <1>1, StringsUnfold
<1>. HIDE DEF l, r
<1>4. \A n \in 0..(l + 1) :
        h[n] = IF n = 0 THEN << >> ELSE h[n - 1] \o r[n].data
  <2>. SUFFICES ASSUME NEW n \in 0..(l + 1)
                PROVE  h[n] = IF n = 0 THEN << >> ELSE h[n - 1] \o r[n].data
    OBVIOUS
  <2>1. CASE n = 0 BY <1>1, <1>3, <2>1
  <2>2. CASE n \in 1..l
    <3>1. h[n] = f[n] /\ h[n - 1] = f[n - 1] BY <1>1, <2>2
    <3>. QED BY <1>1, <1>2, <1>3, <2>2, <3>1
  <2>3. CASE n = l + 1
    <3>1. n \in Nat /\ n - 1 = l /\ ~(n <= l) /\ l <= l /\ l \in 0..(l + 1) BY <1>1, <2>3
    <3>2. h[n] = f[l] \o m.data BY <3>1
    <3>3. h[l] = f[l] BY <3>1
    <3>4. h[n - 1] = f[l] BY <3>1, <3>3
    <3>5. n # 0 /\ r[n] = m BY <1>1, <1>2, <2>3
    <3>. HIDE DEF h
    <3>. QED BY <3>2, <3>4, <3>5
  <2>. QED BY <1>1, <2>1, <2>2, <2>3
<1>5. h = [n \in 0..(l + 1) |-> IF n = 0 THEN << >> ELSE h[n - 1] \o r[n].data]
  <2>. DEFINE k == [n \in 0..(l + 1) |-> IF n = 0 THEN << >> ELSE h[n - 1] \o r[n].data]
  <2>1. \A n \in 0..(l + 1) : h[n] = k[n] BY <1>4
  <2>. QED BY <2>1
<1>6. StringsTogether(h, r) BY <1>2, <1>5 DEF StringsTogether
<1>. HIDE DEF h
<1>7. StringsTogether(g, r) BY <1>6 DEF r
<1>8. g[l] = f[l] BY <1>1, <1>7, StringsAgree DEF l, r
<1>9. g[l + 1] = g[l] \o r[l + 1].data
  <2>1. Len(r) \in Nat /\ l + 1 \in 1..Len(r) /\ (l + 1) - 1 = l BY <1>1, <1>2
  <2>2. \A k \in 1..Len(r) : g[k] = g[k - 1] \o r[k].data BY <1>7, <2>1, StringsUnfold
  <2>3. g[l + 1] = g[(l + 1) - 1] \o r[l + 1].data BY <2>1, <2>2
  <2>. QED BY <2>1, <2>3
<1>. QED BY <1>2, <1>7, <1>8, <1>9 DEF l, r

\* A part of a part is a part.
LEMMA PartOfPart ==
  ASSUME NEW S, NEW q \in Seq(S), NEW a \in Nat, NEW b \in a..Len(q),
         NEW c \in 0..(b - a), NEW d \in c..(b - a)
  PROVE  SubSeq(SubSeq(q, a + 1, b), c + 1, d) = SubSeq(q, a + c + 1, a + d)
<1>1. /\ b \in Nat /\ c \in Nat /\ d \in Nat /\ Len(q) \in Nat
      /\ a <= b /\ b <= Len(q) /\ c <= d /\ d <= b - a
  OBVIOUS
<1>. DEFINE part == SubSeq(q, a + 1, b)
            inner == SubSeq(part, c + 1, d)
            outer == SubSeq(q, a + c + 1, a + d)
<1>2. /\ part \in Seq(S) /\ Len(part) = b - a
      /\ \A x \in 1..(b - a) : part[x] = q[a + x]
  <2>1. a + 1 \in 1..(Len(q) + 1) /\ b \in ((a + 1) - 1)..Len(q) BY <1>1
  <2>2. /\ part \in Seq(S)
        /\ Len(part) = IF a + 1 <= b THEN b - (a + 1) + 1 ELSE 0
        /\ \A x \in 1..(b - (a + 1) + 1) : part[x] = q[(a + 1) + x - 1]
    BY <2>1, SubSeqProperties
  <2>. HIDE DEF part
  <2>. QED BY <1>1, <2>2
<1>. HIDE DEF part
<1>3. /\ inner \in Seq(S) /\ Len(inner) = d - c
      /\ \A x \in 1..(d - c) : inner[x] = part[c + x]
  <2>1. c + 1 \in 1..(Len(part) + 1) /\ d \in ((c + 1) - 1)..Len(part) BY <1>1, <1>2
  <2>2. /\ inner \in Seq(S)
        /\ Len(inner) = IF c + 1 <= d THEN d - (c + 1) + 1 ELSE 0
        /\ \A x \in 1..(d - (c + 1) + 1) : inner[x] = part[(c + 1) + x - 1]
    BY <1>2, <2>1, SubSeqProperties
  <2>. HIDE DEF inner
  <2>. QED BY <1>1, <2>2
<1>4. /\ outer \in Seq(S) /\ Len(outer) = d - c
      /\ \A x \in 1..(d - c) : outer[x] = q[a + c + x]
  <2>1. a + c + 1 \in 1..(Len(q) + 1) /\ a + d \in ((a + c + 1) - 1)..Len(q) BY <1>1
  <2>2. /\ outer \in Seq(S)
        /\ Len(outer) = IF a + c + 1 <= a + d THEN a + d - (a + c + 1) + 1 ELSE 0
        /\ \A x \in 1..(a + d - (a + c + 1) + 1) : outer[x] = q[(a + c + 1) + x - 1]
    BY <2>1, SubSeqProperties
  <2>. HIDE DEF outer
  <2>. QED BY <1>1, <2>2
<1>. HIDE DEF inner, outer
<1>5. \A x \in 1..(d - c) : inner[x] = outer[x]
  <2>. SUFFICES ASSUME NEW x \in 1..(d - c) PROVE inner[x] = outer[x]
    OBVIOUS
  <2>1. c + x \in 1..(b - a) /\ a + (c + x) = a + c + x BY <1>1
  <2>2. part[c + x] = q[a + c + x] BY <1>2, <2>1
  <2>. QED BY <1>3, <1>4, <2>2
<1>6. inner = outer BY <1>1, <1>3, <1>4, <1>5, SeqEqual
<1>. QED BY <1>6 DEF inner, outer, part

\* The file up to one place and its units from there to another are the file up to the
\* other.
LEMMA UptoGrows ==
  ASSUME file \in FileSizes \cup {NoFile}, NEW a \in Nat, NEW b \in a..Len(Text)
  PROVE  Copy!Upto(1, a) \o SubSeq(Text, a + 1, b) = Copy!Upto(1, b)
<1>1. Text \in Seq(Units) /\ Len(Text) \in Nat BY TextIsSeq
<1>2. \A x \in 1..Len(Text) : Text[x] = << 1, x >>
  <2>1. CASE file = NoFile BY <2>1 DEF Text
  <2>2. CASE file # NoFile
    <3>1. file \in Nat
      BY <2>2, ClientUploadAssumption DEF ClientUploadAssumption
    <3>. QED BY <2>2, <3>1 DEF Text
  <2>. QED BY <2>1, <2>2
<1>. DEFINE text == Text
            known == Copy!Upto(1, a)
            part == SubSeq(text, a + 1, b)
            both == known \o part
            whole == Copy!Upto(1, b)
<1>3. a \in Nat /\ b \in Nat /\ a <= b /\ b <= Len(text) BY <1>1
<1>4. /\ known \in Seq(Units) /\ Len(known) = a
      /\ \A x \in 1..a : known[x] = << 1, x >>
  BY <1>3 DEF Copy!Upto, Units
<1>5. /\ whole \in Seq(Units) /\ Len(whole) = b
      /\ \A x \in 1..b : whole[x] = << 1, x >>
  BY <1>3 DEF Copy!Upto, Units
<1>. HIDE DEF text, known, whole, Units
<1>6. /\ part \in Seq(Units) /\ Len(part) = b - a
      /\ \A x \in 1..(b - a) : part[x] = text[a + x]
  <2>1. a + 1 \in 1..(Len(text) + 1) /\ b \in ((a + 1) - 1)..Len(text)
    BY <1>1, <1>3 DEF text
  <2>2. /\ part \in Seq(Units)
        /\ Len(part) = IF a + 1 <= b THEN b - (a + 1) + 1 ELSE 0
        /\ \A x \in 1..(b - (a + 1) + 1) : part[x] = text[(a + 1) + x - 1]
    BY <1>1, <2>1, SubSeqProperties DEF text
  <2>. HIDE DEF part
  <2>. QED BY <1>3, <2>2
<1>. HIDE DEF part
<1>7. /\ both \in Seq(Units) /\ Len(both) = a + (b - a)
      /\ \A x \in 1..(a + (b - a)) : both[x] = IF x <= a THEN known[x] ELSE part[x - a]
  BY <1>3, <1>4, <1>6, ConcatProperties
<1>. HIDE DEF both
<1>8. \A x \in 1..b : both[x] = << 1, x >>
  <2>. SUFFICES ASSUME NEW x \in 1..b PROVE both[x] = << 1, x >>
    OBVIOUS
  <2>1. CASE x <= a BY <1>3, <1>4, <1>7, <2>1
  <2>2. CASE ~(x <= a)
    <3>1. x - a \in 1..(b - a) /\ a + (x - a) = x /\ x \in 1..Len(text)
          /\ x \in 1..(a + (b - a))
      BY <1>1, <1>3, <2>2 DEF text
    <3>2. part[x - a] = text[x] BY <1>6, <3>1
    <3>. QED BY <1>2, <1>7, <2>2, <3>1, <3>2 DEF text
  <2>. QED BY <2>1, <2>2
<1>9. both = whole
  <2>1. Len(both) = b BY <1>3, <1>7
  <2>. QED BY <1>5, <1>7, <1>8, <2>1, SeqEqual
<1>. QED BY <1>9 DEF both, whole, known, part, text

-----------------------------------------------------------------------------
(* The packets are the file                                                *)

\* Up to where the loop has cut the file into packets.
Place == IF Slicing THEN read - Len(data) + i * SliceSize ELSE read

\* The chunk in hand is the end of what was read.
ChunkInv == Len(data) <= read /\ data = SubSeq(Text, read - Len(data) + 1, read)

\* "loadend" comes after the last slice of the last chunk of a file that is there.
EndInv == reader = "loadend" => ~Slicing /\ file # NoFile /\ read = Len(Text)

\* A packet is only missed by a channel that has closed, and none before "loadstart".
MissedInv ==
  /\ missed => channel = "closed" /\ reader \in {"reading", "loadend"}
  /\ reader \in {"none", "starting"} => read = 0

\* The packets carry the file up to the place the loop has reached, if none was missed.
CarryInv ==
  /\ StringsTogether(Sent, sent)
  /\ ~missed => Sent[Len(sent)] = Copy!Upto(1, Place)

CopyInv == ChunkInv /\ EndInv /\ MissedInv /\ CarryInv

\* Where the slice ends in the chunk, and in the file.
End == IF (i + 1) * SliceSize < Len(data) THEN (i + 1) * SliceSize ELSE Len(data)
PlaceAfter == read - Len(data) + End

\* A slice is what the file has from the place on, and the place moves behind it.
LEMMA SliceOfText ==
  ASSUME LoopInv, ChunkInv, Slicing
  PROVE  /\ Place \in Nat /\ PlaceAfter \in (Place + 1)..Len(Text)
         /\ SubSeq(data, i * SliceSize + 1, End) = SubSeq(Text, Place + 1, PlaceAfter)
         /\ PlaceAfter = IF (i + 1) * SliceSize < Len(data)
                         THEN read - Len(data) + (i + 1) * SliceSize ELSE read
<1>. DEFINE first == i * SliceSize
            after == (i + 1) * SliceSize
            l == Len(data)
            t == Len(Text)
            base == read - l
            end == End
            next == PlaceAfter
<1>1. /\ i \in Nat /\ SliceSize \in Nat /\ SliceSize > 0 /\ l \in Nat /\ t \in Nat
      /\ read \in 0..t /\ l <= read /\ Text \in Seq(Units)
  BY ClientUploadAssumption, TextIsSeq
  DEF LoopInv, TypeOK, DataInv, ChunkInv, ClientUploadAssumption
<1>2. first \in Nat /\ after = first + SliceSize BY <1>1
<1>3. first < l BY DEF Slicing
<1>4. end = IF after < l THEN after ELSE l BY DEF End
<1>5. Place = base + first /\ next = base + end BY DEF Place, PlaceAfter
<1>6. data = SubSeq(Text, base + 1, read) BY DEF ChunkInv
<1>7. SubSeq(data, i * SliceSize + 1, end) = SubSeq(data, first + 1, end) OBVIOUS
<1>. HIDE DEF first, after, l, t, base, end, next
<1>8. base \in Nat /\ read = base + l /\ read - base = l BY <1>1 DEF base
<1>9. /\ read \in base..t /\ first \in 0..(read - base) /\ end \in first..(read - base)
      /\ base + end \in (base + first + 1)..t /\ base + first \in Nat
  BY <1>1, <1>2, <1>3, <1>4, <1>8
<1>. HIDE DEF Units
<1>10. SubSeq(SubSeq(Text, base + 1, read), first + 1, end)
         = SubSeq(Text, base + first + 1, base + end)
  BY <1>1, <1>8, <1>9, PartOfPart DEF t
<1>11. base + end = IF after < l THEN base + after ELSE read
  BY <1>1, <1>2, <1>4, <1>8
<1>12. SubSeq(data, first + 1, end) = SubSeq(Text, Place + 1, next)
  BY <1>5, <1>6, <1>10, <1>11
<1>. QED BY <1>5, <1>7, <1>9, <1>11, <1>12 DEF after, l, t, base, end, next

\* Packets and what they carry stay as they are while none is sent.
LEMMA CarriedStays ==
  ASSUME sent' = sent
  PROVE  Sent' = Sent /\ Len(sent') = Len(sent)
BY DEF Sent

\* The disk that the packets stand for, when it is looked at from outside.
State == IF reader \in {"none", "starting"} THEN "absent"
         ELSE IF reader = "loadend" /\ ~missed THEN "closed" ELSE "open"
Disk == << [state |-> State, data |-> Sent[Len(sent)]] >>

\* An upload begins with no file, no packet and no chunk.
LEMMA CopyInit == Init => CopyInv /\ Copy!Init
<1>. SUFFICES ASSUME Init PROVE CopyInv /\ Copy!Init
  OBVIOUS
<1>0. SliceSize \in Nat /\ Text \in Seq(Units) /\ Len(Text) \in Nat
  BY ClientUploadAssumption, TextIsSeq DEF Init, ClientUploadAssumption
<1>1. /\ data = << >> /\ i = 0 /\ sent = << >> /\ read = 0 /\ ~missed /\ reader = "none"
      /\ Len(data) = 0 /\ Len(sent) = 0
  BY DEF Init
<1>2. ~Slicing
  <2>1. 0 * SliceSize = 0 BY <1>0
  <2>. QED BY <1>1, <2>1 DEF Slicing
<1>3. Place = 0 BY <1>1, <1>2 DEF Place
<1>4. ChunkInv
  <2>1. SubSeq(Text, 1, 0) = << >> BY <1>0, SubSeqProperties
  <2>. QED BY <1>1, <2>1 DEF ChunkInv
<1>5. EndInv /\ MissedInv BY <1>1 DEF EndInv, MissedInv
<1>6. StringsTogether(Sent, sent) /\ Sent[0] = << >>
  <2>. DEFINE f == [n \in 0..0 |-> << >>]
  <2>1. f = [n \in 0..0 |-> IF n = 0 THEN << >> ELSE f[n - 1] \o sent[n].data] OBVIOUS
  <2>2. StringsTogether(f, sent) BY <1>1, <2>1 DEF StringsTogether
  <2>. HIDE DEF f
  <2>3. Sent = CHOOSE h : StringsTogether(h, sent) BY DEF Sent, StringsTogether
  <2>4. StringsTogether(Sent, sent) BY <2>2, <2>3
  <2>. QED BY <1>1, <2>4, StringsUnfold
<1>7. Copy!Upto(1, 0) = << >> BY DEF Copy!Upto
<1>8. CarryInv BY <1>1, <1>3, <1>6, <1>7 DEF CarryInv
<1>9. Copy!Init
  <2>1. Disk = << [state |-> "absent", data |-> << >>] >> BY <1>1, <1>6 DEF Disk, State
  <2>2. DOMAIN << Text >> = 1..1 OBVIOUS
  <2>3. << [state |-> "absent", data |-> << >>] >>
          = [k \in 1..1 |-> [state |-> "absent", data |-> << >>]]
    OBVIOUS
  <2>. QED BY <2>1, <2>2, <2>3 DEF Copy!Init, Disk, State
<1>. QED BY <1>4, <1>5, <1>8, <1>9 DEF CopyInv

\* A step that does not touch the file leaves its copy alone; OnOpen only gets ready.
LEMMA CopyQuiet ==
  ASSUME LoopInv, CopyInv,
         UNCHANGED << file, read, data, i, sent, missed >>,
         reader' = reader \/ (reader = "none" /\ reader' = "starting"),
         channel = "closed" => channel' = "closed"
  PROVE  CopyInv' /\ UNCHANGED << Text, Disk >>
<1>1. UNCHANGED << Text, Slicing, Place >> BY DEF Text, Slicing, Place
<1>2. Sent' = Sent /\ Len(sent') = Len(sent) BY CarriedStays
<1>3. UNCHANGED Disk BY <1>2 DEF Disk, State
<1>4. ChunkInv' BY <1>1 DEF CopyInv, ChunkInv
<1>5. EndInv' BY <1>1 DEF CopyInv, EndInv
<1>6. MissedInv' BY DEF CopyInv, MissedInv
<1>7. CarryInv' BY <1>1, <1>2 DEF CopyInv, CarryInv
<1>. QED BY <1>1, <1>3, <1>4, <1>5, <1>6, <1>7 DEF CopyInv

\* How the one file of the abstract disk changes.
LEMMA DiskChanges ==
  ASSUME NEW d, NEW s, NEW t, NEW v, NEW w, d = << [state |-> s, data |-> v] >>
  PROVE  /\ d[1] = [state |-> s, data |-> v]
         /\ [d EXCEPT ![1].state = t] = << [state |-> t, data |-> v] >>
         /\ [d EXCEPT ![1].data = w] = << [state |-> s, data |-> w] >>
<1>1. d[1] = [state |-> s, data |-> v] OBVIOUS
<1>2. /\ [d[1] EXCEPT !.state = t] = [state |-> t, data |-> v]
      /\ [d[1] EXCEPT !.data = w] = [state |-> s, data |-> w]
  BY <1>1
<1>3. \A y : [d EXCEPT ![1] = y] = << y >> OBVIOUS
<1>. QED BY <1>1, <1>2, <1>3

\* A step of the abstract copy that is about its one file is a step of it.
LEMMA CopyNext ==
  ASSUME UNCHANGED Text, Copy!Create(1) \/ Copy!Grow(1) \/ Copy!Finish(1)
  PROVE  Copy!Next
<1>1. 1 \in DOMAIN << Text >> OBVIOUS
<1>. QED BY <1>1 DEF Copy!Next

\* The stream begins, hands over a chunk or ends: the copy is made, stays as it is, or is
\* finished, in this case whole.
LEMMA CopyStream ==
  ASSUME LoopInv, CopyInv, OnLoadStart \/ OnData \/ OnLoadEnd
  PROVE  CopyInv' /\ [Copy!Next]_<< << Text >>, Disk >>
<1>. USE DEF peerVars
<1>0. /\ SliceSize \in Nat /\ SliceSize > 0 /\ Len(Text) \in Nat /\ Text \in Seq(Units)
      /\ read \in Nat
  BY ClientUploadAssumption, TextIsSeq DEF LoopInv, TypeOK, ClientUploadAssumption
<1>1. /\ UNCHANGED << file, process, channel, onopen, sent, missed >> /\ ~Slicing
      /\ reader \in {"starting", "reading"}
  BY DEF OnLoadStart, OnData, OnLoadEnd, Free
<1>2. UNCHANGED Text BY <1>1 DEF Text
<1>3. Sent' = Sent /\ Len(sent') = Len(sent) BY <1>1, CarriedStays
<1>4. Place = read BY <1>1 DEF Place
<1>5. CASE OnLoadStart \/ OnLoadEnd
  <2>1. UNCHANGED << read, data, i >> BY <1>5 DEF OnLoadStart, OnLoadEnd
  <2>2. UNCHANGED << Slicing, Place >> BY <2>1 DEF Slicing, Place
  <2>3. ChunkInv' BY <1>2, <2>1 DEF CopyInv, ChunkInv
  <2>4. CarryInv' BY <1>1, <1>3, <2>2 DEF CopyInv, CarryInv
  <2>5. EndInv'
    BY <1>1, <1>2, <1>5, <2>1, <2>2 DEF OnLoadStart, OnLoadEnd, CopyInv, EndInv
  <2>6. MissedInv' BY <1>1, <1>5, <2>1 DEF OnLoadStart, OnLoadEnd, CopyInv, MissedInv
  <2>7. Disk = << [state |-> State, data |-> Sent[Len(sent)]] >>
        /\ Disk' = << [state |-> State', data |-> Sent[Len(sent)]] >>
    BY <1>3 DEF Disk
  <2>8. CASE OnLoadStart
    <3>1. State = "absent" /\ State' = "open" BY <2>8 DEF OnLoadStart, State
    <3>2. /\ Disk[1] = [state |-> "absent", data |-> Sent[Len(sent)]]
          /\ Disk' = [Disk EXCEPT ![1].state = "open"]
      <4>1. /\ Disk = << [state |-> "absent", data |-> Sent[Len(sent)]] >>
            /\ Disk' = << [state |-> "open", data |-> Sent[Len(sent)]] >>
        BY <2>7, <3>1, Zenon
      <4>2. /\ Disk[1] = [state |-> "absent", data |-> Sent[Len(sent)]]
            /\ [Disk EXCEPT ![1].state = "open"]
                 = << [state |-> "open", data |-> Sent[Len(sent)]] >>
        BY <4>1, DiskChanges
      <4>. QED BY <4>1, <4>2, Zenon
    <3>3. Disk[1].state = "absent" BY <3>2
    <3>4. \A j \in DOMAIN << Text >> : j = 1 OBVIOUS
    <3>5. Copy!Create(1) BY <3>2, <3>3, <3>4 DEF Copy!Create, Disk, State
    <3>. QED BY <1>2, <2>3, <2>4, <2>5, <2>6, <3>5, CopyNext DEF CopyInv
  <2>9. CASE OnLoadEnd /\ ~missed
    <3>1. State = "open" /\ State' = "closed" BY <1>1, <2>9 DEF OnLoadEnd, State
    <3>2. Sent[Len(sent)] = Copy!Upto(1, Len(Text))
      BY <1>4, <2>9 DEF OnLoadEnd, CopyInv, CarryInv
    <3>3. /\ Disk[1] = [state |-> "open", data |-> Copy!Upto(1, Len(Text))]
          /\ Disk' = [Disk EXCEPT ![1].state = "closed"]
      <4>1. /\ Disk = << [state |-> "open", data |-> Copy!Upto(1, Len(Text))] >>
            /\ Disk' = << [state |-> "closed", data |-> Copy!Upto(1, Len(Text))] >>
        BY <2>7, <3>1, <3>2, Zenon
      <4>2. /\ Disk[1] = [state |-> "open", data |-> Copy!Upto(1, Len(Text))]
            /\ [Disk EXCEPT ![1].state = "closed"]
                 = << [state |-> "closed", data |-> Copy!Upto(1, Len(Text))] >>
        BY <4>1, DiskChanges
      <4>. QED BY <4>1, <4>2, Zenon
    <3>4. << Text >>[1] = Text OBVIOUS
    <3>5. Copy!Finish(1) BY <3>3, <3>4 DEF Copy!Finish, Disk, State
    <3>. QED BY <1>2, <2>3, <2>4, <2>5, <2>6, <3>5, CopyNext DEF CopyInv
  <2>10. CASE OnLoadEnd /\ missed
    <3>1. State' = State BY <1>1, <2>10 DEF OnLoadEnd, State
    <3>. QED BY <1>2, <2>3, <2>4, <2>5, <2>6, <2>7, <3>1 DEF CopyInv
  <2>. QED BY <1>5, <2>8, <2>9, <2>10
<1>6. CASE OnData
  <2>1. PICK n \in 1..ChunkSize : /\ read + n <= Len(Text)
                                  /\ data' = SubSeq(Text, read + 1, read + n)
                                  /\ read' = read + n
    BY <1>6 DEF OnData
  <2>2. Len(data') = n BY <2>1, ChunkIsSeq DEF LoopInv
  <2>3. n \in Nat /\ n >= 1
    BY ClientUploadAssumption DEF ClientUploadAssumption
  <2>4. i' = 0 /\ reader' = "reading" /\ reader = "reading" /\ UNCHANGED missed
    BY <1>6 DEF OnData
  <2>5. read' - Len(data') = read /\ Len(data') <= read' BY <1>0, <2>1, <2>2, <2>3
  <2>6. ChunkInv' BY <1>2, <2>1, <2>5 DEF ChunkInv
  <2>7. i' * SliceSize = 0 BY <1>0, <2>4
  <2>8. Place' = read
    <3>1. Place' = IF Slicing' THEN read + 0 ELSE read' BY <2>5, <2>7 DEF Place
    <3>2. Slicing' BY <2>2, <2>3, <2>7 DEF Slicing
    <3>. QED BY <1>0, <3>1, <3>2
  <2>9. CarryInv' BY <1>1, <1>3, <1>4, <2>8 DEF CopyInv, CarryInv
  <2>10. EndInv' /\ MissedInv' BY <1>1, <2>4 DEF CopyInv, EndInv, MissedInv
  <2>11. UNCHANGED Disk BY <1>3, <2>4 DEF Disk, State
  <2>. QED BY <1>2, <2>6, <2>9, <2>10, <2>11 DEF CopyInv
<1>. QED BY <1>5, <1>6

\* A packet that the channel takes lets the copy grow by the slice it carries.
LEMMA CopyGrows ==
  ASSUME LoopInv, CopyInv, Slice, channel = "open"
  PROVE  CopyInv' /\ [Copy!Next]_<< << Text >>, Disk >>
<1>. USE DEF peerVars
<1>. DEFINE next == PlaceAfter
            slice == SubSeq(data, i * SliceSize + 1, End)
<1>0. Slicing /\ UNCHANGED << file, channel, reader, read, data >> BY DEF Slice
<1>1. UNCHANGED << Text, Len(Text) >> /\ Len(Text) \in Nat
  BY <1>0, TextIsSeq DEF Text, LoopInv, TypeOK
<1>2. ~missed /\ reader = "reading"
  BY <1>0, SliceSends DEF CopyInv, MissedInv, EndInv
<1>3. /\ Place \in Nat /\ next \in (Place + 1)..Len(Text)
      /\ slice = SubSeq(Text, Place + 1, next)
      /\ next = IF (i + 1) * SliceSize < Len(data)
                THEN read - Len(data) + (i + 1) * SliceSize ELSE read
  BY <1>0, SliceOfText DEF CopyInv
<1>4. /\ sent' = Append(sent, Packet(packet_index, slice))
      /\ i' = i + 1 /\ UNCHANGED missed
  BY DEF Slice, End
<1>5. PICK m \in Packets : sent' = Append(sent, m) /\ m.data = slice
  <2>1. packet_index \in Nat BY SliceSends
  <2>2. slice \in Seq(Units) /\ Len(slice) \in Nat BY <1>0, SliceBounds DEF End
  <2>. HIDE DEF slice
  <2>3. Packet(packet_index, slice) \in Packets /\ Packet(packet_index, slice).data = slice
    BY <2>1, <2>2 DEF Packet, Packets
  <2>. QED BY <1>4, <2>3
<1>6. Place' = next
  <2>1. Slicing' = ((i + 1) * SliceSize < Len(data)) BY <1>0, <1>4 DEF Slicing
  <2>. QED BY <1>0, <1>3, <1>4, <2>1 DEF Place
<1>. HIDE DEF next, slice
<1>7. StringsTogether(Sent', sent') /\ Sent'[Len(sent')] = Sent[Len(sent)] \o slice
  <2>1. sent \in Seq(Packets) BY DEF LoopInv, TypeOK, Packets, Units
  <2>2. StringsTogether(Sent, sent) BY DEF CopyInv, CarryInv
  <2>3. Sent' = CHOOSE h : StringsTogether(h, sent') BY DEF Sent, StringsTogether
  <2>. HIDE DEF Packets
  <2>. QED BY <1>5, <2>1, <2>2, <2>3, OneMore
<1>8. Sent[Len(sent)] = Copy!Upto(1, Place) BY <1>2 DEF CopyInv, CarryInv
<1>9. Sent'[Len(sent')] = Copy!Upto(1, next)
  <2>1. next \in Place..Len(Text) BY <1>1, <1>3
  <2>2. file \in FileSizes \cup {NoFile} BY DEF LoopInv, TypeOK
  <2>3. Copy!Upto(1, Place) \o SubSeq(Text, Place + 1, next) = Copy!Upto(1, next)
    BY <1>3, <2>1, <2>2, UptoGrows
  <2>. QED BY <1>3, <1>7, <1>8, <2>3
<1>10. CarryInv' BY <1>6, <1>7, <1>9 DEF CarryInv
<1>11. ChunkInv' /\ EndInv' /\ MissedInv'
  BY <1>0, <1>1, <1>2, <1>4 DEF CopyInv, ChunkInv, EndInv, MissedInv
<1>12. Copy!Grow(1)
  <2>1. State = "open" /\ State' = "open" BY <1>0, <1>2 DEF State
  <2>2. /\ Disk = << [state |-> "open", data |-> Copy!Upto(1, Place)] >>
        /\ Disk' = << [state |-> "open", data |-> Copy!Upto(1, next)] >>
    BY <1>8, <1>9, <2>1 DEF Disk
  <2>3. /\ Disk[1] = [state |-> "open", data |-> Copy!Upto(1, Place)]
        /\ [Disk EXCEPT ![1].data = Copy!Upto(1, next)]
             = << [state |-> "open", data |-> Copy!Upto(1, next)] >>
    BY <2>2, DiskChanges
  <2>4. Disk' = [Disk EXCEPT ![1].data = Copy!Upto(1, next)] BY <2>2, <2>3
  <2>5. Disk[1].state = "open" /\ Disk[1].data = Copy!Upto(1, Place) BY <2>3
  <2>6. Len(Copy!Upto(1, Place)) = Place BY <1>3 DEF Copy!Upto
  <2>7. << Text >>[1] = Text OBVIOUS
  <2>8. next \in (Len(Disk[1].data) + 1)..Len(<< Text >>[1]) BY <1>3, <2>5, <2>6, <2>7
  <2>. QED BY <2>4, <2>5, <2>8 DEF Copy!Grow, Disk, State
<1>. QED BY <1>1, <1>10, <1>11, <1>12, CopyNext DEF CopyInv

\* A packet that a closed channel drops, or throws at, leaves the copy as it is for good.
LEMMA CopyStops ==
  ASSUME LoopInv, CopyInv, Slice, channel # "open"
  PROVE  CopyInv' /\ UNCHANGED << Text, Disk >>
<1>. USE DEF peerVars
<1>0. Slicing /\ UNCHANGED << file, channel, reader, read, data >> BY DEF Slice
<1>1. UNCHANGED << Text, Len(Text) >> BY <1>0 DEF Text
<1>2. reader = "reading" BY <1>0, SliceSends DEF CopyInv, EndInv
<1>3. /\ channel = "closed" /\ sent' = sent
      /\ missed' \/ (missed' = missed /\ i' = i)
  BY DEF Slice, Throw
<1>4. Sent' = Sent /\ Len(sent') = Len(sent) BY <1>3, CarriedStays
<1>5. UNCHANGED Disk BY <1>0, <1>2, <1>4 DEF Disk, State
<1>6. ChunkInv' /\ EndInv' /\ MissedInv'
  BY <1>0, <1>1, <1>2, <1>3 DEF CopyInv, ChunkInv, EndInv, MissedInv
<1>7. CarryInv'
  <2>0. StringsTogether(Sent', sent') BY <1>3, <1>4, Zenon DEF CopyInv, CarryInv
  <2>1. CASE missed' BY <2>0, <2>1, Zenon DEF CarryInv
  <2>2. CASE missed' = missed /\ i' = i
    <3>1. Place' = Place BY <1>0, <2>2 DEF Place, Slicing
    <3>. QED BY <1>4, <2>0, <2>2, <3>1, Zenon DEF CopyInv, CarryInv
  <2>. QED BY <1>3, <2>1, <2>2
<1>. QED BY <1>1, <1>5, <1>6, <1>7 DEF CopyInv

\* Every step keeps the packets along the file, and copies it on or leaves the copy alone.
LEMMA CopyStep ==
  LoopInv /\ CopyInv /\ [Next]_vars => CopyInv' /\ [Copy!Next]_<< << Text >>, Disk >>
<1>. SUFFICES ASSUME LoopInv, CopyInv, [Next]_vars
              PROVE  CopyInv' /\ [Copy!Next]_<< << Text >>, Disk >>
  OBVIOUS
<1>1. CASE OnLoadStart \/ OnData \/ OnLoadEnd BY <1>1, CopyStream
<1>2. CASE Slice
  <2>1. CASE channel = "open" BY <1>2, <2>1, CopyGrows
  <2>2. CASE channel # "open" BY <1>2, <2>2, CopyStops
  <2>. QED BY <2>1, <2>2
<1>3. CASE \/ OnStat \/ OnOffer \/ OnLocalDescription \/ OnGatheringStateChange \/ Gather
           \/ (\E r \in Requests : OnConnect(r) \/ OnAnswer(r)) \/ ChannelOpens
           \/ ChannelCloses \/ OnOpen \/ OnReadError \/ UNCHANGED vars
  <2>1. /\ UNCHANGED << file, read, data, i, sent, missed >>
        /\ reader' = reader \/ (reader = "none" /\ reader' = "starting")
        /\ channel = "closed" => channel' = "closed"
    BY <1>3
    DEF LoopInv, EventInv, peerVars, fileVars, vars, OnStat, OnOffer, OnLocalDescription,
        OnGatheringStateChange, Gather, OnConnect, OnAnswer, ChannelOpens, ChannelCloses,
        OnOpen, OnReadError
  <2>2. CopyInv' /\ UNCHANGED << Text, Disk >> BY <2>1, CopyQuiet
  <2>. QED BY <2>2
<1>. QED BY <1>1, <1>2, <1>3 DEF Next, Loop, Outside, Over

\* The packets carry the file from its start, whatever chunks the stream makes of it, and
\* "Success" means the whole of it unless a closed channel dropped a packet: for any size
\* of the file, of the chunks and of a slice.
THEOREM UploadIsCopying == Spec => CopySpec
<1>1. Spec => []LoopInv BY TypeInit, LoopStep, PTL DEF Spec
<1>. QED
  BY <1>1, CopyInit, CopyStep, PTL DEF Spec, CopySpec, Copy!Spec, Disk, State

\* "Success" without a packet that a closed channel dropped: the packets together are the
\* text of the file, the last unit of the last chunk included.
SuccessIsWhole == reader = "loadend" /\ ~missed => file # NoFile /\ Sent[Len(sent)] = Text

\* "Success" is never printed for a part of the file, as long as no packet was dropped.
THEOREM SuccessMeansWhole == Spec => []SuccessIsWhole
<1>1. LoopInv /\ CopyInv => SuccessIsWhole
  <2>. SUFFICES ASSUME LoopInv, CopyInv, reader = "loadend", ~missed
                PROVE  file # NoFile /\ Sent[Len(sent)] = Text
    BY DEF SuccessIsWhole
  <2>1. file # NoFile /\ ~Slicing /\ read = Len(Text) BY DEF CopyInv, EndInv
  <2>2. Place = Len(Text) BY <2>1 DEF Place
  <2>3. Sent[Len(sent)] = Copy!Upto(1, Len(Text)) BY <2>2, Zenon DEF CopyInv, CarryInv
  <2>4. Copy!Upto(1, Len(Text)) = Text
    <3>1. file \in Nat BY <2>1, ClientUploadAssumption DEF LoopInv, TypeOK, ClientUploadAssumption
    <3>2. Text = [p \in 1..file |-> << 1, p >>] BY <2>1 DEF Text
    <3>3. Len(Text) = file BY <3>1, <3>2
    <3>. QED BY <3>2, <3>3 DEF Copy!Upto
  <2>. QED BY <2>1, <2>3, <2>4
<1>. QED BY <1>1, TypeInit, LoopStep, CopyInit, CopyStep, PTL DEF Spec

-----------------------------------------------------------------------------
(* The offer is asked for                                                  *)

\* A request for each event that found gathering complete, the first one first.  There are
\* two events, and the last comes with the completion itself.
RequestInv ==
  /\ request[1] = "none" => request[2] = "none"
  /\ gathering # "complete" => request[1] = "none"
  /\ request[1] # "none" => changes \in 0..1
  /\ request[2] # "none" => changes = 0
  /\ gathering = "complete" /\ request[1] = "none" => changes > 0

\* When gathering is complete and nothing has been asked for, an event is queued that will
\* ask; and there is a request to be made for every event.
AskIsComing ==
  /\ gathering = "complete" /\ request[1] = "none" => changes > 0
  /\ changes > 0 /\ gathering = "complete" =>
       \E r \in Requests : request[r] = "none" /\ \A q \in 1..(r - 1) : request[q] # "none"

\* Each step keeps events and requests in step.
LEMMA RequestStep == LoopInv /\ RequestInv /\ [Next]_vars => RequestInv'
<1>. SUFFICES ASSUME LoopInv, RequestInv, [Next]_vars PROVE RequestInv'
  OBVIOUS
<1>. USE DEF peerVars, fileVars, Throw
<1>0. /\ request \in [Requests -> {"none", "connecting", "open", "failed", "answered"}]
      /\ changes \in 0..2 /\ 1 \in Requests /\ 2 \in Requests
      /\ gathering \in {"new", "gathering", "complete"}
      /\ gathering = "new" => changes = 0
      /\ gathering = "gathering" => changes \in 0..1
  BY DEF LoopInv, TypeOK, EventInv, Requests
<1>1. CASE OnGatheringStateChange
  <2>1. changes' = changes - 1 /\ changes > 0 /\ gathering' = gathering
    BY <1>1 DEF OnGatheringStateChange
  <2>2. CASE gathering # "complete"
    <3>1. request' = request BY <1>1, <2>2 DEF OnGatheringStateChange
    <3>. QED BY <1>0, <2>1, <2>2, <3>1 DEF RequestInv
  <2>3. CASE gathering = "complete"
    <3>1. PICK r \in Requests :
            /\ request[r] = "none" /\ \A q \in 1..(r - 1) : request[q] # "none"
            /\ request' = [request EXCEPT ![r] = "connecting"]
      BY <1>1, <2>3 DEF OnGatheringStateChange
    <3>2. CASE r = 1
      <4>1. request'[1] = "connecting" /\ request'[2] = request[2] BY <1>0, <3>1, <3>2
      <4>. QED BY <1>0, <2>1, <2>3, <3>1, <3>2, <4>1 DEF RequestInv
    <3>3. CASE r = 2
      <4>1. request'[2] = "connecting" /\ request'[1] = request[1] /\ request[1] # "none"
        BY <1>0, <3>1, <3>3
      <4>. QED BY <1>0, <2>1, <2>3, <4>1 DEF RequestInv
    <3>. QED BY <3>2, <3>3 DEF Requests
  <2>. QED BY <2>2, <2>3
<1>2. CASE Gather BY <1>0, <1>2 DEF Gather, RequestInv
<1>3. ASSUME NEW r \in Requests, OnConnect(r) \/ OnAnswer(r) PROVE RequestInv'
  <2>1. /\ UNCHANGED << gathering, changes >> /\ request[r] \in {"connecting", "open"}
        /\ \E c \in {"open", "failed", "answered"} : request' = [request EXCEPT ![r] = c]
    BY <1>3 DEF OnConnect, OnAnswer
  <2>2. \A q \in Requests : request'[q] = "none" <=> request[q] = "none" BY <1>0, <2>1
  <2>. QED BY <1>0, <2>1, <2>2 DEF RequestInv
<1>4. CASE UNCHANGED << gathering, changes, request >> BY <1>4 DEF RequestInv
<1>5. \/ OnGatheringStateChange \/ Gather \/ \E r \in Requests : OnConnect(r) \/ OnAnswer(r)
      \/ UNCHANGED << gathering, changes, request >>
  BY DEF Next, Loop, Outside, Over, vars, OnStat, OnOffer, OnLocalDescription, OnOpen,
         OnLoadStart, OnData, Slice, OnLoadEnd, OnReadError, ChannelOpens, ChannelCloses
<1>. QED BY <1>1, <1>2, <1>3, <1>4, <1>5

\* However gathering and the event loop interleave, the completion is never missed: until
\* the first request is made an event is queued that finds gathering complete, and no event
\* is one too many.  Asked adds that the event loop turns.
THEOREM CompletionIsAsked == Spec => []AskIsComing
<1>1. Init => RequestInv BY DEF Init, RequestInv, Requests
<1>2. RequestInv => AskIsComing
  <2>. SUFFICES ASSUME RequestInv, changes > 0, gathering = "complete"
                PROVE  \E r \in Requests : /\ request[r] = "none"
                                           /\ \A q \in 1..(r - 1) : request[q] # "none"
    BY DEF AskIsComing, RequestInv
  <2>1. CASE request[1] = "none"
    <3>1. 1 \in Requests /\ 1..(1 - 1) = {} BY DEF Requests
    <3>. QED BY <2>1, <3>1
  <2>2. CASE request[1] # "none"
    <3>1. request[2] = "none" BY DEF RequestInv
    <3>2. 2 \in Requests /\ 1..(2 - 1) = {1} BY DEF Requests
    <3>. QED BY <2>2, <3>1, <3>2
  <2>. QED BY <2>1, <2>2
<1>. QED BY <1>1, <1>2, TypeInit, LoopStep, RequestStep, PTL DEF Spec

-----------------------------------------------------------------------------
(* The upload comes to an end                                              *)

\* What is left to do once the channel has opened: the events of the reader, the chunks,
\* and the slices, of which no chunk has more than units.
Stage == [none |-> 3, starting |-> 2, reading |-> 1, loadend |-> 0]
ToDo == Stage[reader] + 2 * (Len(Text) - Place) + (IF Slicing THEN 0 ELSE 1)

\* The reader and the channel it sends on, from the event on.
ReaderInv ==
  /\ onopen = "handled" => reader # "none"
  /\ reader # "none" => channel # "connecting"
  /\ onopen # "none" => channel # "connecting"

\* The loop finds a channel that has been open, and there is no time with nothing to come:
\* after the event the reader is there, and has a chunk in hand or one to get.
UploadIsOpen ==
  /\ ToDo \in Nat
  /\ onopen = "queued" => reader = "none" /\ ~Slicing
  /\ onopen = "handled" => reader # "none"
  /\ Slicing => reader = "reading" /\ channel \in {"open", "closed"}

\* Every step for the file leaves less to do, or ends the process, and no other step makes
\* it more.
UploadComesCloser ==
  /\ ToDo' <= ToDo
  /\ OnOpen \/ OnLoadStart \/ OnData \/ Slice \/ OnLoadEnd =>
       ToDo' < ToDo \/ process' = "ended"

\* The place is one of the file.
LEMMA PlaceInText ==
  ASSUME LoopInv, CopyInv
  PROVE  Place \in 0..Len(Text) /\ Len(Text) \in Nat /\ ToDo \in Nat
<1>1. Len(Text) \in Nat /\ read \in 0..Len(Text) BY TextIsSeq DEF LoopInv, TypeOK
<1>2. Place \in 0..Len(Text)
  <2>1. CASE Slicing
    <3>1. Place \in Nat /\ PlaceAfter \in (Place + 1)..Len(Text)
      BY <2>1, SliceOfText DEF CopyInv
    <3>. QED BY <1>1, <3>1
  <2>2. CASE ~Slicing BY <1>1, <2>2 DEF Place
  <2>. QED BY <2>1, <2>2
<1>3. Stage[reader] \in Nat BY DEF LoopInv, TypeOK, Stage
<1>. QED BY <1>1, <1>2, <1>3 DEF ToDo

\* A chunk begins where the last one ended.
LEMMA PlaceOfData ==
  ASSUME LoopInv, CopyInv, OnData
  PROVE  Place' = Place /\ ~Slicing /\ Slicing' /\ UNCHANGED << Text, reader >>
<1>0. SliceSize \in Nat /\ read \in Nat
  BY ClientUploadAssumption, TextIsSeq DEF LoopInv, TypeOK, ClientUploadAssumption
<1>1. ~Slicing /\ i' = 0 /\ UNCHANGED << file, reader >> BY DEF OnData, Free
<1>2. PICK n \in 1..ChunkSize : /\ read + n <= Len(Text)
                                /\ data' = SubSeq(Text, read + 1, read + n)
                                /\ read' = read + n
  BY DEF OnData
<1>3. Len(data') = n BY <1>2, ChunkIsSeq DEF LoopInv
<1>4. n \in Nat /\ n >= 1 BY ClientUploadAssumption DEF ClientUploadAssumption
<1>5. i' * SliceSize = 0 BY <1>0, <1>1
<1>6. Slicing' BY <1>3, <1>4, <1>5 DEF Slicing
<1>7. read' - Len(data') = read BY <1>0, <1>2, <1>3, <1>4
<1>8. Place' = read BY <1>0, <1>5, <1>6, <1>7 DEF Place
<1>. QED BY <1>1, <1>6, <1>8 DEF Place, Text

\* A slice that is sent or dropped brings the place on.
LEMMA PlaceOfSlice ==
  ASSUME LoopInv, CopyInv, Slice, process' # "ended"
  PROVE  /\ Place' \in (Place + 1)..Len(Text) /\ Place \in Nat
         /\ UNCHANGED << Text, reader >> /\ Slicing
<1>1. Slicing /\ UNCHANGED << file, reader, read, data >> BY DEF Slice
<1>2. i' = i + 1 BY DEF Slice, Throw
<1>3. /\ Place \in Nat /\ PlaceAfter \in (Place + 1)..Len(Text)
      /\ PlaceAfter = IF (i + 1) * SliceSize < Len(data)
                      THEN read - Len(data) + (i + 1) * SliceSize ELSE read
  BY <1>1, SliceOfText DEF CopyInv
<1>4. Slicing' = ((i + 1) * SliceSize < Len(data)) BY <1>1, <1>2 DEF Slicing
<1>5. Place' = PlaceAfter BY <1>1, <1>2, <1>3, <1>4 DEF Place
<1>. QED BY <1>1, <1>3, <1>5 DEF Text

\* Each step keeps the reader behind the channel.
LEMMA ReaderStep == LoopInv /\ ReaderInv /\ [Next]_vars => ReaderInv'
<1>. SUFFICES ASSUME LoopInv, ReaderInv, [Next]_vars PROVE ReaderInv'
  OBVIOUS
<1>. USE DEF ReaderInv, peerVars, fileVars, vars
<1>1. CASE Loop
  <2>1. CASE OnStat \/ OnOffer \/ OnLocalDescription \/ OnGatheringStateChange \/ OnOpen
    BY <2>1 DEF OnStat, OnOffer, OnLocalDescription, OnGatheringStateChange, OnOpen
  <2>2. CASE OnLoadStart \/ OnData \/ Slice \/ OnLoadEnd \/ OnReadError
    BY <2>2 DEF OnLoadStart, OnData, Slice, OnLoadEnd, OnReadError
  <2>. QED BY <1>1, <2>1, <2>2 DEF Loop
<1>2. CASE Gather BY <1>2 DEF Gather
<1>3. CASE Outside
  BY <1>3 DEF Outside, OnConnect, OnAnswer, ChannelOpens, ChannelCloses, LoopInv, EventInv
<1>4. CASE Over \/ UNCHANGED vars BY <1>4 DEF Over
<1>. QED BY <1>1, <1>2, <1>3, <1>4 DEF Next

\* What a step does to what is left to do.
LEMMA CloserStep == LoopInv /\ CopyInv /\ [Next]_vars => UploadComesCloser
<1>. SUFFICES ASSUME LoopInv, CopyInv, [Next]_vars PROVE UploadComesCloser
  OBVIOUS
<1>. USE DEF peerVars, fileVars, vars
<1>0. Place \in 0..Len(Text) /\ Len(Text) \in Nat /\ ToDo \in Nat BY PlaceInText
<1>1. CASE OnOpen \/ OnLoadStart \/ OnLoadEnd
  <2>1. UNCHANGED << file, read, data, i >> BY <1>1 DEF OnOpen, OnLoadStart, OnLoadEnd
  <2>2. UNCHANGED << Text, Place, Slicing >> BY <2>1 DEF Text, Place, Slicing
  <2>3. \/ reader = "none" /\ reader' = "starting"
        \/ reader = "starting" /\ reader' = "reading"
        \/ reader = "reading" /\ reader' = "loadend"
    BY <1>1 DEF OnOpen, OnLoadStart, OnLoadEnd, LoopInv, EventInv
  <2>4. /\ Stage[reader'] < Stage[reader]
        /\ Stage[reader'] \in Nat /\ Stage[reader] \in Nat BY <2>3 DEF Stage
  <2>5. ToDo' < ToDo /\ ToDo' \in Nat
    BY <1>0, <2>2, <2>4 DEF ToDo
  <2>. QED BY <1>0, <2>5 DEF UploadComesCloser
<1>2. CASE OnData
  <2>1. Place' = Place /\ ~Slicing /\ Slicing' /\ UNCHANGED << Text, reader >>
    BY <1>2, PlaceOfData
  <2>2. Stage[reader] \in Nat BY DEF LoopInv, TypeOK, Stage
  <2>3. ToDo' < ToDo /\ ToDo' \in Nat BY <1>0, <2>1, <2>2 DEF ToDo
  <2>. QED BY <1>0, <2>3 DEF UploadComesCloser
<1>3. CASE Slice
  <2>1. CASE process' # "ended"
    <3>1. /\ Place' \in (Place + 1)..Len(Text) /\ Place \in Nat
          /\ UNCHANGED << Text, reader >> /\ Slicing
      BY <1>3, <2>1, PlaceOfSlice
    <3>2. Stage[reader] \in Nat BY DEF LoopInv, TypeOK, Stage
    <3>3. ToDo' < ToDo /\ ToDo' \in Nat BY <1>0, <3>1, <3>2 DEF ToDo
    <3>. QED BY <1>0, <3>3 DEF UploadComesCloser
  <2>2. CASE process' = "ended"
    <3>1. process # "ended" /\ UNCHANGED << file, reader, read, data, i >>
      BY <1>3, <2>2 DEF Slice
    <3>2. UNCHANGED ToDo BY <3>1 DEF ToDo, Text, Place, Slicing
    <3>. QED BY <1>0, <2>2, <3>2 DEF UploadComesCloser
  <2>. QED BY <2>1, <2>2
<1>4. CASE UNCHANGED << file, reader, read, data, i >>
  <2>1. UNCHANGED ToDo BY <1>4 DEF ToDo, Text, Place, Slicing
  <2>. QED BY <1>0, <1>1, <1>2, <1>3, <2>1 DEF UploadComesCloser
<1>5. \/ OnOpen \/ OnLoadStart \/ OnLoadEnd \/ OnData \/ Slice
      \/ UNCHANGED << file, reader, read, data, i >>
  BY DEF Next, Loop, Outside, Over, OnStat, OnOffer, OnLocalDescription, OnGatheringStateChange,
         OnReadError, Gather, OnConnect, OnAnswer, ChannelOpens, ChannelCloses, Throw
<1>. QED BY <1>1, <1>2, <1>3, <1>4, <1>5

\* From the open channel on there is always a step to come, and every one of them leaves less
\* to do, whatever becomes of the channel.  Uploaded adds that the event loop turns.
THEOREM UploadGoesOn == Spec => []UploadIsOpen /\ [][UploadComesCloser]_vars
<1>1. Init => ReaderInv BY DEF Init, ReaderInv
<1>2. LoopInv /\ CopyInv /\ ReaderInv => UploadIsOpen
  <2>. SUFFICES ASSUME LoopInv, CopyInv, ReaderInv PROVE UploadIsOpen
    OBVIOUS
  <2>1. Slicing => reader = "reading"
    <3>1. SliceSize \in Nat BY ClientUploadAssumption DEF ClientUploadAssumption
    <3>2. data = << >> /\ i = 0 => ~Slicing BY <3>1 DEF Slicing
    <3>. QED BY <3>2 DEF LoopInv, TypeOK, CountInv, CopyInv, EndInv
  <2>2. onopen = "queued" => reader = "none" BY DEF LoopInv, EventInv
  <2>3. channel \in {"connecting", "open", "closed"} BY DEF LoopInv, TypeOK
  <2>. QED BY <2>1, <2>2, <2>3, PlaceInText DEF UploadIsOpen, ReaderInv
<1>. QED BY <1>1, <1>2, ReaderStep, CloserStep, TypeInit, LoopStep, CopyInit, CopyStep, PTL DEF Spec
=============================================================================
