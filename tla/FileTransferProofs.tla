------------------------- MODULE FileTransferProofs -------------------------
(***************************************************************************)
(* Proofs about FileTransfer, for any number of files, any texts, any size *)
(* of the buffer and any characters.                                       *)
(***************************************************************************)
EXTENDS FileTransfer, SequenceTheorems, WellFoundedInduction, TLAPS

\* The characters of file k after the first a of them.
Run(k, a, n) == [p \in 1..n |-> << k, a + p >>]

Names == {[index |-> 0, buf |-> << k >>] : k \in File}
Bufs == {[index |-> i, buf |-> Run(k, a, n)] :
           i \in 1..MaxText, k \in File, a \in 0..MaxText, n \in 0..(SCTP_BUF_SIZE - 1)}
Packets == Names \cup Bufs \cup {[index |-> -1, buf |-> << >>]}

\* What the receiver may have of a file.
Copies == [state : {"absent", "open", "closed"}, data : Seq(File \X Nat)]

\* The types, and what the worker's counters have to do with each other.
TypeInv ==
  /\ text \in [File -> UNION {[1..n -> Char] : n \in 0..MaxText}]
  /\ dirty \in [File -> FILEstatus]
  /\ sender \in {"queued", "next", "inside", "done", "crashed"}
  /\ file \in 1..(NumFiles + 1)
  /\ read \in 0..MaxText
  /\ packet_index \in 0..MaxText
  /\ lost \in 0..MaxLost
  /\ wire \in Seq(Packets)
  /\ loop \in BOOLEAN
  /\ pFILE \in -1..NumFiles
  /\ disk \in [File -> Copies]
  /\ receiver \in {"up", "crashed"}
  /\ sender = "inside" => file \in File /\ read <= Len(text[file]) /\ packet_index <= read
  /\ sender = "done" => file > NumFiles

\* File k may be open when the receiver gets to packet i: it is open now, or packet j
\* opens it, and no packet in between opens or closes a file.
Opens(j, k) == IF j = 0 THEN pFILE = k ELSE wire[j] = [index |-> 0, buf |-> << k >>]
MayBeOpen(i, k) ==
  \E j \in 0..(i - 1) : Opens(j, k) /\ \A l \in (j + 1)..(i - 1) : wire[l].index > 0

\* With one lost packet at most the receiver never takes a file's text while another file
\* is open: a lost end is made good by the next name, a lost name by the end before it.
HandleInv ==
  /\ \A i \in 1..Len(wire), k \in File :
       wire[i].index > 0 /\ MayBeOpen(i, k)
         => \A p \in DOMAIN wire[i].buf : wire[i].buf[p][1] = k
  /\ \A k \in File : sender = "inside" /\ MayBeOpen(Len(wire) + 1, k) => k = file
  /\ \A k \in File : sender \in {"queued", "next"} /\ lost = 0 => ~MayBeOpen(Len(wire) + 1, k)

\* A character that the worker has passed.
Passed(c) == c[1] < file \/ (c[1] = file /\ sender = "inside" /\ c[2] <= read)

\* What is on its way has been passed, in the order of the file, and comes after what
\* has arrived.
WirePassed ==
  \A i \in 1..Len(wire) : wire[i].index > 0 =>
    \A p \in DOMAIN wire[i].buf : Passed(wire[i].buf[p])
DiskPassed == \A k \in File : \A x \in DOMAIN disk[k].data : Passed(disk[k].data[x])
WireOrder ==
  \A i, j \in 1..Len(wire) : i < j /\ wire[i].index > 0 /\ wire[j].index > 0 =>
    \A p \in DOMAIN wire[i].buf, q \in DOMAIN wire[j].buf :
      wire[i].buf[p][1] = wire[j].buf[q][1] => wire[i].buf[p][2] < wire[j].buf[q][2]
DiskFirst ==
  \A i \in 1..Len(wire), k \in File : wire[i].index > 0 =>
    \A p \in DOMAIN wire[i].buf, x \in DOMAIN disk[k].data :
      wire[i].buf[p][1] = k => disk[k].data[x][2] < wire[i].buf[p][2]

OrderInv == WirePassed /\ DiskPassed /\ WireOrder /\ DiskFirst /\ NeverMixed

-----------------------------------------------------------------------------
(* Types                                                                   *)

\* A nonempty set of naturals has a least element, and Min is one.
LEMMA MinIsLeast ==
  ASSUME NEW S, S \subseteq Nat, S # {}
  PROVE  Min(S) \in S /\ \A y \in S : Min(S) <= y
<1>1. PICK x \in S : \A y \in S : ~ (<< y, x >> \in OpToRel(<, Nat))
  BY NatLessThanWellFounded, WFMin, Zenon
<1>2. \A y \in S : ~(y < x)
  BY <1>1 DEF OpToRel
<1>3. ASSUME NEW y \in S PROVE x <= y
  <2>1. x \in Nat /\ y \in Nat OBVIOUS
  <2>2. ~(y < x) BY <1>2
  <2>. QED BY <2>1, <2>2
<1>. QED BY <1>1, <1>3 DEF Min

\* A name, the text after it and the end of a file are packets.
LEMMA PacketsSent ==
  /\ \A k \in File : [index |-> 0, buf |-> << k >>] \in Packets
  /\ \A i \in 1..MaxText, k \in File, a \in 0..MaxText, n \in 0..(SCTP_BUF_SIZE - 1) :
       [index |-> i, buf |-> Run(k, a, n)] \in Packets
  /\ [index |-> -1, buf |-> << >>] \in Packets
BY DEF Packets, Names, Bufs

\* The three sorts of packets and what they carry.
LEMMA PacketFields ==
  ASSUME NEW m \in Packets
  PROVE  /\ m.index \in -1..MaxText
         /\ m.index = 0 => \E k \in File : m = [index |-> 0, buf |-> << k >>]
         /\ m.index = -1 => m.buf = << >>
         /\ m.index > 0 => \E k \in File, a \in 0..MaxText, n \in 0..(SCTP_BUF_SIZE - 1) :
                             m.buf = Run(k, a, n)
<1>. USE TransferAssumption DEF TransferAssumption
<1>1. CASE m \in Names BY <1>1 DEF Names
<1>2. CASE m \in Bufs BY <1>2 DEF Bufs
<1>3. CASE m = [index |-> -1, buf |-> << >>] BY <1>3
<1>. QED BY <1>1, <1>2, <1>3 DEF Packets

\* A run of n bytes of a file is a sequence, whose places are the file's.
LEMMA RunIsSeq ==
  ASSUME NEW k \in File, NEW a \in Nat, NEW n \in Nat
  PROVE  /\ Run(k, a, n) \in Seq(File \X Nat) /\ Len(Run(k, a, n)) = n
         /\ DOMAIN Run(k, a, n) = 1..n
         /\ \A p \in 1..n : Run(k, a, n)[p][1] = k /\ Run(k, a, n)[p][2] = a + p
BY DEF Run

\* What fgets takes next, and what strlen makes of it.
LEMMA LineIsInText ==
  ASSUME TypeInv, sender = "inside", read < Len(text[file])
  PROVE  /\ LineEnd \in (read + 1)..Len(text[file])
         /\ LineEnd <= read + SCTP_BUF_SIZE - 1
         /\ Measured \in read..LineEnd
<1>0. /\ read \in Nat /\ Len(text[file]) \in 0..MaxText /\ SCTP_BUF_SIZE \in Nat
      /\ SCTP_BUF_SIZE > 1 /\ MaxText \in Nat
  BY TransferAssumption DEF TypeInv, TransferAssumption
<1>. DEFINE S == {read + SCTP_BUF_SIZE - 1, Len(text[file])} \cup
                 {p \in (read + 1)..Len(text[file]) : text[file][p] = "newline"}
<1>1. S \subseteq Nat /\ S # {} /\ \A y \in S : y >= read + 1 BY <1>0
<1>2. LineEnd = Min(S) BY DEF LineEnd
<1>3. read + SCTP_BUF_SIZE - 1 \in S /\ Len(text[file]) \in S OBVIOUS
<1>. HIDE DEF S
<1>4. LineEnd \in S /\ \A y \in S : LineEnd <= y BY <1>1, <1>2, MinIsLeast
<1>5. /\ LineEnd \in Nat /\ LineEnd >= read + 1 /\ LineEnd <= Len(text[file])
      /\ LineEnd <= read + SCTP_BUF_SIZE - 1
  BY <1>1, <1>3, <1>4
<1>. DEFINE T == {LineEnd + 1} \cup {p \in (read + 1)..LineEnd : text[file][p] = "NUL"}
<1>6. /\ T \subseteq Nat /\ LineEnd + 1 \in T
      /\ \A y \in T : read + 1 <= y /\ y <= LineEnd + 1
  BY <1>0, <1>5
<1>7. Measured = Min(T) - 1 BY DEF Measured
<1>. HIDE DEF T
<1>8. Min(T) \in T BY <1>6, MinIsLeast
<1>9. Measured \in read..LineEnd
  <2>. DEFINE least == Min(T)
  <2>1. least \in Nat /\ read + 1 <= least /\ least <= LineEnd + 1 BY <1>6, <1>8
  <2>2. Measured = least - 1 BY <1>7
  <2>. HIDE DEF least
  <2>. QED BY <1>0, <1>5, <2>1, <2>2
<1>. QED BY <1>0, <1>5, <1>9

\* Nothing is sent or received to begin with.
LEMMA TypeInit == Init => TypeInv
<1>. SUFFICES ASSUME Init PROVE TypeInv
  OBVIOUS
<1>1. /\ file \in 1..(NumFiles + 1) /\ read \in 0..MaxText /\ packet_index \in 0..MaxText
      /\ lost \in 0..MaxLost /\ pFILE \in -1..NumFiles
  BY TransferAssumption DEF Init, TransferAssumption
<1>. QED BY <1>1 DEF Init, TypeInv, Copies

\* What the worker sends is put behind what is on its way, or lost.
LEMMA SendTypes ==
  ASSUME TypeInv, NEW m \in Packets, Send(m)
  PROVE  wire' \in Seq(Packets) /\ lost' \in 0..MaxLost
<1>1. wire \in Seq(Packets) /\ lost \in 0..MaxLost /\ MaxLost \in Nat
  BY TransferAssumption DEF TypeInv, TransferAssumption
<1>2. Append(wire, m) \in Seq(Packets) BY <1>1, AppendProperties
<1>. QED BY <1>1, <1>2 DEF Send

\* The text that SendBuf sends is a packet.
LEMMA BufIsPacket ==
  ASSUME TypeInv, SendBuf
  PROVE  /\ Measured - read \in 0..(SCTP_BUF_SIZE - 1)
         /\ packet_index + 1 \in 1..MaxText
         /\ [index |-> packet_index + 1, buf |-> Run(file, read, Measured - read)] \in Packets
<1>0. /\ read \in Nat /\ Len(text[file]) \in 0..MaxText /\ SCTP_BUF_SIZE \in Nat
      /\ MaxText \in Nat /\ packet_index \in Nat /\ packet_index <= read
      /\ sender = "inside" /\ read < Len(text[file]) /\ file \in File /\ read \in 0..MaxText
  BY TransferAssumption DEF TypeInv, TransferAssumption, SendBuf
<1>1. Measured - read \in 0..(SCTP_BUF_SIZE - 1) BY <1>0, LineIsInText
<1>2. packet_index + 1 \in 1..MaxText BY <1>0
<1>. QED BY <1>0, <1>1, <1>2, PacketsSent

\* Each step keeps the types.
LEMMA TypeStep == TypeInv /\ [Next]_vars => TypeInv'
<1>. SUFFICES ASSUME TypeInv, [Next]_vars PROVE TypeInv'
  OBVIOUS
<1>. USE DEF fileVars, sendVars, recvVars
<1>0. /\ SCTP_BUF_SIZE \in Nat /\ NumFiles \in Nat /\ MaxText \in Nat /\ MaxLost \in Nat
      /\ file \in Nat /\ read \in Nat /\ packet_index \in Nat
  BY TransferAssumption DEF TransferAssumption, TypeInv
<1>1. CASE Begin BY <1>1 DEF Begin, TypeInv
<1>2. CASE SkipFile
  <2>1. file' \in 1..(NumFiles + 1) BY <1>0, <1>2 DEF SkipFile, TypeInv
  <2>. QED BY <1>2, <2>1 DEF SkipFile, TypeInv
<1>3. CASE SendName
  <2>1. file \in File BY <1>0, <1>3 DEF SendName, TypeInv, File
  <2>2. wire' \in Seq(Packets) /\ lost' \in 0..MaxLost
    BY <1>3, <2>1, PacketsSent, SendTypes DEF SendName
  <2>3. /\ read' = 0 /\ packet_index' = 0 /\ read' \in 0..MaxText /\ packet_index' \in 0..MaxText
        /\ read' <= Len(text'[file'])
    BY <1>0, <1>3, <2>1 DEF SendName, TypeInv
  <2>. QED BY <1>3, <2>1, <2>2, <2>3 DEF SendName, TypeInv
<1>4. CASE SendBuf
  <2>1. Send([index |-> packet_index + 1, buf |-> Run(file, read, Measured - read)])
    BY <1>4 DEF SendBuf, Run
  <2>2. wire' \in Seq(Packets) /\ lost' \in 0..MaxLost BY <1>4, <2>1, BufIsPacket, SendTypes
  <2>3. /\ read' \in (read + 1)..Len(text[file]) /\ packet_index' = packet_index + 1
        /\ Len(text[file]) \in 0..MaxText
        /\ packet_index <= read /\ UNCHANGED << fileVars, sender, file, loop, recvVars >>
    BY <1>4, LineIsInText DEF SendBuf, TypeInv
  <2>4. /\ read' \in 0..MaxText /\ packet_index' \in 0..MaxText /\ packet_index' <= read'
        /\ read' <= Len(text'[file'])
    BY <1>0, <2>3
  <2>. QED BY <1>4, <2>2, <2>3, <2>4 DEF TypeInv, SendBuf
<1>5. CASE SendEnd
  <2>1. wire' \in Seq(Packets) /\ lost' \in 0..MaxLost
    BY <1>5, PacketsSent, SendTypes DEF SendEnd
  <2>2. file' \in 1..(NumFiles + 1) BY <1>0, <1>5 DEF SendEnd, TypeInv, File
  <2>. QED BY <1>5, <2>1, <2>2 DEF SendEnd, TypeInv
<1>6. CASE Finish BY <1>6 DEF Finish, TypeInv
<1>7. CASE Stop BY <1>7 DEF Stop, TypeInv
<1>8. ASSUME OnMessage PROVE TypeInv'
  <2>1. /\ wire # << >> /\ wire' = Tail(wire)
        /\ UNCHANGED << fileVars, sendVars >>
    BY <1>8 DEF OnMessage, OnName, OnBuf, OnEnd, Receives
  <2>2. Head(wire) \in Packets /\ wire' \in Seq(Packets)
    BY <2>1, HeadTailProperties DEF TypeInv
  <2>3. CASE OnName
    <3>1. PICK k \in File : Head(wire) = [index |-> 0, buf |-> << k >>]
      BY <2>2, <2>3, PacketFields DEF OnName, Receives
    <3>2. Head(wire).buf[1] = k BY <3>1
    <3>3. /\ pFILE' \in {0, k} /\ receiver' = receiver
          /\ \/ disk' = [disk EXCEPT ![k] = [state |-> "open", data |-> << >>]]
             \/ disk' = disk
      BY <2>3, <3>2 DEF OnName
    <3>4. pFILE' \in -1..NumFiles BY <1>0, <3>3 DEF File
    <3>5. [state |-> "open", data |-> << >>] \in Copies BY DEF Copies
    <3>6. disk' \in [File -> Copies]
      BY <3>3, <3>5 DEF TypeInv
    <3>. QED BY <2>1, <2>2, <3>3, <3>4, <3>6 DEF TypeInv
  <2>4. CASE OnBuf
    <3>1. Head(wire).buf \in Seq(File \X Nat)
      <4>1. Head(wire).index > 0 BY <1>0, <2>4 DEF OnBuf, Receives
      <4>2. PICK k \in File, a \in 0..MaxText, n \in 0..(SCTP_BUF_SIZE - 1) :
              Head(wire).buf = Run(k, a, n)
        BY <2>2, <4>1, PacketFields
      <4>3. a \in Nat /\ n \in Nat BY <1>0
      <4>4. Run(k, a, n) \in Seq(File \X Nat) BY <4>3, RunIsSeq
      <4>. QED BY <4>2, <4>4
    <3>2. ASSUME pFILE \in File PROVE disk[pFILE].data \o Head(wire).buf \in Seq(File \X Nat)
      BY <3>1, <3>2, ConcatProperties DEF TypeInv, Copies
    <3>3. disk' \in [File -> Copies]
      BY <2>4, <3>2 DEF OnBuf, TypeInv, Copies
    <3>4. pFILE' = pFILE /\ receiver' \in {"up", "crashed"} BY <2>4 DEF OnBuf, Misuse, TypeInv
    <3>. QED BY <2>1, <2>2, <3>3, <3>4 DEF TypeInv
  <2>5. CASE OnEnd
    <3>1. pFILE' \in -1..NumFiles BY <1>0, <2>5 DEF OnEnd, TypeInv
    <3>2. disk' \in [File -> Copies]
      BY <2>5 DEF OnEnd, TypeInv, Copies
    <3>3. receiver' \in {"up", "crashed"} BY <2>5 DEF OnEnd, Misuse, TypeInv
    <3>. QED BY <2>1, <2>2, <3>1, <3>2, <3>3 DEF TypeInv
  <2>. QED BY <1>8, <2>3, <2>4, <2>5 DEF OnMessage
<1>9. CASE UNCHANGED vars BY <1>9 DEF TypeInv, vars
<1>. QED
  BY <1>1, <1>2, <1>3, <1>4, <1>5, <1>6, <1>7, <1>8, <1>9 DEF Next, Worker, Over

\* Every variable has its type; no packet is larger than its buffer.
THEOREM TypeCorrect == Spec => []TypeOK
<1>1. TypeInv => TypeOK
  <2>. SUFFICES ASSUME TypeInv PROVE TypeOK
    OBVIOUS
  <2>1. ASSUME NEW i \in DOMAIN wire
        PROVE  wire[i].index \in -1..MaxText /\ Len(wire[i].buf) < SCTP_BUF_SIZE
    <3>1. wire[i] \in Packets BY <2>1 DEF TypeInv
    <3>2. SCTP_BUF_SIZE \in Nat /\ SCTP_BUF_SIZE > 1 /\ MaxText \in Nat
      BY TransferAssumption DEF TransferAssumption
    <3>3. wire[i].index \in -1..MaxText BY <3>1, PacketFields
    <3>4. CASE wire[i].index > 0
      <4>1. PICK k \in File, a \in 0..MaxText, n \in 0..(SCTP_BUF_SIZE - 1) :
              wire[i].buf = Run(k, a, n)
        BY <3>1, <3>4, PacketFields
      <4>. QED BY <3>2, <3>3, <4>1, RunIsSeq
    <3>5. CASE wire[i].index = 0
      <4>1. PICK k \in File : wire[i] = [index |-> 0, buf |-> << k >>]
        BY <3>1, <3>5, PacketFields
      <4>. QED BY <3>2, <3>3, <4>1
    <3>6. CASE wire[i].index = -1
      <4>1. wire[i].buf = << >> BY <3>1, <3>6, PacketFields
      <4>. QED BY <3>2, <3>3, <4>1
    <3>. QED BY <3>2, <3>3, <3>4, <3>5, <3>6
  <2>. QED BY <2>1 DEF TypeInv, TypeOK, Copies
<1>. QED BY <1>1, TypeInit, TypeStep, PTL DEF Spec

-----------------------------------------------------------------------------
(* Which file may be open                                                  *)

\* Taking the first packet moves all others one place on.  What the receiver has open
\* then, it had open before, or the packet opened it.
LEMMA Received ==
  ASSUME TypeInv, wire # << >>, wire' = Tail(wire),
         \A k \in File : pFILE' = k => \/ Head(wire) = [index |-> 0, buf |-> << k >>]
                                       \/ pFILE = k /\ Head(wire).index > 0,
         NEW i \in 1..(Len(wire') + 1), NEW k \in File, MayBeOpen(i, k)'
  PROVE  MayBeOpen(i + 1, k)
<1>1. /\ Len(wire) \in Nat /\ Len(wire) > 0 /\ Len(wire') = Len(wire) - 1 /\ wire[1] = Head(wire)
      /\ \A l \in 1..Len(wire') : wire'[l] = wire[l + 1]
  BY HeadTailProperties DEF TypeInv
<1>2. PICK j \in 0..(i - 1) : Opens(j, k)' /\ \A l \in (j + 1)..(i - 1) : wire'[l].index > 0
  BY DEF MayBeOpen
<1>3. \A l \in (j + 2)..i : wire[l].index > 0
  <2>1. ASSUME NEW l \in (j + 2)..i PROVE wire[l].index > 0
    <3>1. l - 1 \in (j + 1)..(i - 1) /\ l - 1 \in 1..Len(wire') /\ (l - 1) + 1 = l BY <1>1
    <3>2. wire'[l - 1].index > 0 /\ wire'[l - 1] = wire[l] BY <1>1, <1>2, <3>1
    <3>. QED BY <3>2
  <2>. QED BY <2>1
<1>4. CASE j > 0
  <2>1. j \in 1..Len(wire') BY <1>1, <1>4
  <2>2. wire[j + 1] = [index |-> 0, buf |-> << k >>] BY <1>1, <1>2, <1>4, <2>1 DEF Opens
  <2>3. Opens(j + 1, k) BY <1>4, <2>2 DEF Opens
  <2>4. j + 1 \in 0..((i + 1) - 1) /\ (i + 1) - 1 = i /\ (j + 1) + 1 = j + 2 BY <1>4
  <2>. QED BY <1>3, <2>3, <2>4 DEF MayBeOpen
<1>5. CASE j = 0
  <2>1. \/ wire[1] = [index |-> 0, buf |-> << k >>]
        \/ pFILE = k /\ wire[1].index > 0
    BY <1>1, <1>2, <1>5 DEF Opens
  <2>2. CASE wire[1] = [index |-> 0, buf |-> << k >>]
    <3>1. Opens(1, k) BY <2>2 DEF Opens
    <3>2. 1 \in 0..((i + 1) - 1) /\ (i + 1) - 1 = i /\ 1 + 1 = j + 2 BY <1>5
    <3>. QED BY <1>3, <3>1, <3>2 DEF MayBeOpen
  <2>3. CASE pFILE = k /\ wire[1].index > 0
    <3>1. Opens(0, k) BY <2>3 DEF Opens
    <3>2. \A l \in 1..i : wire[l].index > 0
      <4>1. \A l \in 1..i : l = 1 \/ l \in (j + 2)..i BY <1>5
      <4>. QED BY <1>3, <2>3, <4>1
    <3>3. 0 \in 0..((i + 1) - 1) /\ (i + 1) - 1 = i /\ 0 + 1 = 1 OBVIOUS
    <3>. QED BY <3>1, <3>2, <3>3 DEF MayBeOpen
  <2>. QED BY <2>1, <2>2, <2>3
<1>. QED BY <1>4, <1>5

\* A packet put behind the others changes nothing for those before it; behind it the file
\* is open that it names, or, if it is text, the one that was.
LEMMA Appended ==
  ASSUME TypeInv, NEW m \in Packets, wire' = Append(wire, m), pFILE' = pFILE, NEW k \in File
  PROVE  /\ Len(wire') = Len(wire) + 1 /\ wire'[Len(wire) + 1] = m
         /\ \A l \in 1..Len(wire) : wire'[l] = wire[l]
         /\ \A i \in 1..(Len(wire) + 1) : MayBeOpen(i, k)' => MayBeOpen(i, k)
         /\ MayBeOpen(Len(wire) + 1, k)' =>
              \/ m = [index |-> 0, buf |-> << k >>]
              \/ m.index > 0 /\ MayBeOpen(Len(wire) + 1, k)
<1>. DEFINE n == Len(wire)
<1>1. /\ n \in Nat /\ Len(wire') = n + 1 /\ wire'[n + 1] = m
      /\ \A l \in 1..n : wire'[l] = wire[l]
  BY AppendProperties DEF TypeInv
<1>. HIDE DEF n
<1>2. ASSUME NEW i \in 1..(n + 1), NEW j \in 0..(i - 1), Opens(j, k)',
             \A l \in (j + 1)..(i - 1) : wire'[l].index > 0
      PROVE  MayBeOpen(i, k)
  <2>1. \A l \in (j + 1)..(i - 1) : l \in 1..n BY <1>1
  <2>2. \A l \in (j + 1)..(i - 1) : wire[l].index > 0 BY <1>1, <1>2, <2>1
  <2>3. j = 0 \/ j \in 1..n BY <1>1
  <2>4. Opens(j, k) BY <1>1, <1>2, <2>3 DEF Opens
  <2>. QED BY <2>2, <2>4 DEF MayBeOpen
<1>3. \A i \in 1..(n + 1) : MayBeOpen(i, k)' => MayBeOpen(i, k)
  BY <1>2 DEF MayBeOpen
<1>4. ASSUME NEW j \in 0..(n + 1), Opens(j, k)',
             \A l \in (j + 1)..(n + 1) : wire'[l].index > 0
      PROVE  \/ m = [index |-> 0, buf |-> << k >>]
             \/ m.index > 0 /\ MayBeOpen(n + 1, k)
  <2>1. CASE j = n + 1
    <3>1. wire'[j] = [index |-> 0, buf |-> << k >>] BY <1>1, <1>4, <2>1 DEF Opens
    <3>. QED BY <1>1, <2>1, <3>1
  <2>2. CASE j # n + 1
    <3>1. /\ n + 1 \in (j + 1)..(n + 1) /\ n + 1 \in 1..(n + 1) /\ (n + 1) - 1 = n
          /\ j \in 0..((n + 1) - 1)
          /\ \A l \in (j + 1)..((n + 1) - 1) : l \in (j + 1)..(n + 1)
      BY <1>1, <2>2
    <3>2. m.index > 0 BY <1>1, <1>4, <3>1
    <3>3. \A l \in (j + 1)..((n + 1) - 1) : wire'[l].index > 0 BY <1>4, <3>1
    <3>. QED BY <1>2, <1>4, <3>1, <3>2, <3>3
  <2>. QED BY <2>1, <2>2
<1>5. ASSUME MayBeOpen(Len(wire) + 1, k)'
      PROVE  \/ m = [index |-> 0, buf |-> << k >>]
             \/ m.index > 0 /\ MayBeOpen(n + 1, k)
  <2>1. PICK j \in 0..(Len(wire') + 1 - 1) :
          Opens(j, k)' /\ \A l \in (j + 1)..(Len(wire') + 1 - 1) : wire'[l].index > 0
    BY <1>5 DEF MayBeOpen
  <2>2. Len(wire') + 1 - 1 = n + 1 BY <1>1
  <2>. QED BY <1>4, <2>1, <2>2
<1>. QED BY <1>1, <1>3, <1>5 DEF n

\* No handle is used before the first file is opened.
LEMMA HandleInit == Init => HandleInv
<1>. SUFFICES ASSUME Init PROVE HandleInv
  OBVIOUS
<1>1. Len(wire) = 0 /\ sender = "queued" /\ pFILE = 0 BY DEF Init
<1>2. \A k \in File : ~MayBeOpen(Len(wire) + 1, k)
  BY <1>1 DEF MayBeOpen, Opens, File
<1>. QED BY <1>1, <1>2 DEF HandleInv

\* Sending one packet: what it is decides what may be open behind it.
LEMMA HandleSend ==
  ASSUME TypeInv, HandleInv, NEW m \in Packets, Send(m), pFILE' = pFILE,
         m.index > 0 => sender = "inside" /\ \A p \in DOMAIN m.buf : m.buf[p][1] = file
  PROVE  /\ \A i \in 1..Len(wire'), k \in File :
              wire'[i].index > 0 /\ MayBeOpen(i, k)'
                => \A p \in DOMAIN wire'[i].buf : wire'[i].buf[p][1] = k
         /\ \A k \in File : MayBeOpen(Len(wire) + 1, k)' =>
              \/ wire' = Append(wire, m) /\ m = [index |-> 0, buf |-> << k >>]
              \/ wire' = Append(wire, m) /\ m.index > 0 /\ MayBeOpen(Len(wire) + 1, k)
              \/ wire' = wire /\ lost' = lost + 1 /\ lost < MaxLost /\ MayBeOpen(Len(wire) + 1, k)
<1>1. CASE wire' = Append(wire, m)
  <2>1. ASSUME NEW i \in 1..Len(wire'), NEW k \in File, wire'[i].index > 0, MayBeOpen(i, k)',
               NEW p \in DOMAIN wire'[i].buf
        PROVE  wire'[i].buf[p][1] = k
    <3>1. /\ Len(wire) \in Nat /\ Len(wire') = Len(wire) + 1 /\ wire'[Len(wire) + 1] = m
          /\ \A l \in 1..Len(wire) : wire'[l] = wire[l]
      BY <1>1, Appended DEF TypeInv
    <3>2. MayBeOpen(i, k)
      <4>1. i \in 1..(Len(wire) + 1) BY <3>1
      <4>. QED BY <1>1, <2>1, <4>1, Appended
    <3>3. CASE i \in 1..Len(wire) BY <2>1, <3>1, <3>2, <3>3 DEF HandleInv
    <3>4. CASE i = Len(wire) + 1
      <4>1. m.index > 0 /\ wire'[i] = m BY <2>1, <3>1, <3>4
      <4>2. file = k BY <3>2, <3>4, <4>1 DEF HandleInv
      <4>. QED BY <2>1, <4>1, <4>2
    <3>. QED BY <3>1, <3>3, <3>4
  <2>2. ASSUME NEW k \in File, MayBeOpen(Len(wire) + 1, k)'
        PROVE  \/ m = [index |-> 0, buf |-> << k >>]
               \/ m.index > 0 /\ MayBeOpen(Len(wire) + 1, k)
    BY <1>1, <2>2, Appended
  <2>. QED BY <1>1, <2>1, <2>2
<1>2. CASE wire' = wire /\ lost' = lost + 1 /\ lost < MaxLost
  <2>1. \A i, k : MayBeOpen(i, k)' <=> MayBeOpen(i, k) BY <1>2 DEF MayBeOpen, Opens
  <2>2. \A k : MayBeOpen(Len(wire) + 1, k)' <=> MayBeOpen(Len(wire) + 1, k)
    BY <1>2 DEF MayBeOpen, Opens
  <2>. QED BY <1>2, <2>1, <2>2 DEF HandleInv
<1>. QED BY <1>1, <1>2 DEF Send

\* Each step keeps a file's text away from another file's handle, if one packet is lost at most.
LEMMA HandleStep ==
  ASSUME MaxLost <= 1
  PROVE  TypeInv /\ HandleInv /\ [Next]_vars => HandleInv'
<1>. SUFFICES ASSUME TypeInv, HandleInv, [Next]_vars PROVE HandleInv'
  OBVIOUS
<1>. USE DEF fileVars, sendVars, recvVars
<1>0. lost \in Nat /\ (lost < MaxLost => lost = 0) /\ file \in Nat
  BY TransferAssumption DEF TypeInv, TransferAssumption
\* Steps that neither send nor receive, and begin no file.
<1>1. ASSUME UNCHANGED << wire, pFILE, lost >>,
             sender' = "inside" => sender = "inside" /\ file' = file,
             sender' \in {"queued", "next"} => sender \in {"queued", "next"}
      PROVE  HandleInv'
  <2>1. \A i, k : MayBeOpen(i, k)' <=> MayBeOpen(i, k) BY <1>1 DEF MayBeOpen, Opens
  <2>2. \A k : MayBeOpen(Len(wire) + 1, k)' <=> MayBeOpen(Len(wire) + 1, k)
    BY <1>1 DEF MayBeOpen, Opens
  <2>. QED BY <1>1, <2>1, <2>2 DEF HandleInv
<1>2. CASE Begin BY <1>1, <1>2 DEF Begin
<1>3. CASE SkipFile BY <1>1, <1>3 DEF SkipFile
<1>4. CASE SendName
  <2>. DEFINE m == [index |-> 0, buf |-> << file >>]
  <2>1. /\ m \in Packets /\ Send(m) /\ pFILE' = pFILE /\ ~(m.index > 0)
        /\ sender = "next" /\ sender' = "inside" /\ file' = file /\ file \in File
    BY <1>0, <1>4, PacketsSent DEF SendName, File, TypeInv
  <2>2. ASSUME NEW k \in File, MayBeOpen(Len(wire) + 1, k)' PROVE k = file
    <3>1. ~(lost < MaxLost /\ MayBeOpen(Len(wire) + 1, k)) BY <1>0, <2>1 DEF HandleInv
    <3>2. m = [index |-> 0, buf |-> << k >>] BY <2>1, <2>2, <3>1, HandleSend
    <3>3. << file >>[1] = << k >>[1] BY <3>2
    <3>. QED BY <3>3
  <2>. HIDE DEF m
  <2>3. \A i \in 1..Len(wire'), k \in File :
          wire'[i].index > 0 /\ MayBeOpen(i, k)'
            => \A p \in DOMAIN wire'[i].buf : wire'[i].buf[p][1] = k
    BY <2>1, HandleSend
  <2>. QED BY <2>1, <2>2, <2>3 DEF HandleInv
<1>5. CASE SendBuf
  <2>. DEFINE m == [index |-> packet_index + 1, buf |-> Run(file, read, Measured - read)]
  <2>1. m \in Packets /\ Measured - read \in Nat /\ packet_index + 1 > 0
    <3>1. Measured - read \in 0..(SCTP_BUF_SIZE - 1) /\ packet_index + 1 \in 1..MaxText
      BY <1>5, BufIsPacket
    <3>. QED BY <1>5, <3>1, BufIsPacket
  <2>2. /\ Send(m) /\ pFILE' = pFILE /\ sender = "inside" /\ sender' = "inside" /\ file' = file
        /\ file \in File /\ read \in Nat
    BY <1>5 DEF SendBuf, Run, TypeInv
  <2>3. m.index > 0 /\ \A p \in DOMAIN m.buf : m.buf[p][1] = file
    <3>1. m.index = packet_index + 1 /\ m.buf = Run(file, read, Measured - read) OBVIOUS
    <3>. DEFINE n == Measured - read
    <3>2. n \in Nat /\ read \in Nat /\ file \in File BY <2>1, <2>2
    <3>. HIDE DEF m, n
    <3>3. \A p \in DOMAIN Run(file, read, n) : Run(file, read, n)[p][1] = file
      BY DEF Run
    <3>4. m.buf = Run(file, read, n) /\ m.index > 0 BY <2>1, <3>1 DEF n
    <3>. QED BY <3>3, <3>4
  <2>. HIDE DEF m
  <2>4. \A i \in 1..Len(wire'), k \in File :
          wire'[i].index > 0 /\ MayBeOpen(i, k)'
            => \A p \in DOMAIN wire'[i].buf : wire'[i].buf[p][1] = k
    BY <2>1, <2>2, <2>3, HandleSend
  <2>5. ASSUME NEW k \in File, MayBeOpen(Len(wire) + 1, k)' PROVE k = file
    <3>1. m # [index |-> 0, buf |-> << k >>] BY <2>3
    <3>2. MayBeOpen(Len(wire) + 1, k) BY <2>1, <2>2, <2>3, <2>5, <3>1, HandleSend
    <3>. QED BY <2>2, <3>2 DEF HandleInv
  <2>. QED BY <2>2, <2>4, <2>5 DEF HandleInv
<1>6. CASE SendEnd
  <2>. DEFINE m == [index |-> -1, buf |-> << >>]
  <2>1. /\ m \in Packets /\ Send(m) /\ pFILE' = pFILE /\ m.index = -1 /\ ~(m.index > 0)
        /\ sender' = "next"
    BY <1>6, PacketsSent DEF SendEnd
  <2>. HIDE DEF m
  <2>2. \A i \in 1..Len(wire'), k \in File :
          wire'[i].index > 0 /\ MayBeOpen(i, k)'
            => \A p \in DOMAIN wire'[i].buf : wire'[i].buf[p][1] = k
    BY <2>1, HandleSend
  <2>3. ASSUME NEW k \in File, MayBeOpen(Len(wire) + 1, k)', lost' = 0 PROVE FALSE
    <3>1. m # [index |-> 0, buf |-> << k >>] BY <2>1
    <3>2. lost' # lost + 1 BY <1>0, <2>3
    <3>. QED BY <2>1, <2>3, <3>1, <3>2, HandleSend
  <2>. QED BY <2>1, <2>2, <2>3 DEF HandleInv
<1>7. CASE Finish BY <1>1, <1>7 DEF Finish
<1>8. CASE Stop BY <1>1, <1>8 DEF Stop
<1>9. CASE OnMessage
  <2>1. wire # << >> /\ wire' = Tail(wire) /\ UNCHANGED sendVars
    BY <1>9 DEF OnMessage, OnName, OnBuf, OnEnd, Receives
  <2>2. /\ Head(wire) \in Packets /\ Len(wire') + 1 = Len(wire) /\ Len(wire) \in Nat
        /\ Len(wire') \in Nat
        /\ \A l \in 1..Len(wire') : wire'[l] = wire[l + 1]
    BY <2>1, HeadTailProperties DEF TypeInv
  <2>3. ASSUME NEW k \in File, pFILE' = k
        PROVE  \/ Head(wire) = [index |-> 0, buf |-> << k >>]
               \/ pFILE = k /\ Head(wire).index > 0
    <3>1. CASE OnName
      <4>1. PICK n \in File : Head(wire) = [index |-> 0, buf |-> << n >>]
        BY <2>2, <3>1, PacketFields DEF OnName, Receives
      <4>2. Head(wire).buf[1] = n BY <4>1
      <4>3. pFILE' = n \/ pFILE' = 0 BY <3>1, <4>2 DEF OnName
      <4>. QED BY <2>3, <4>1, <4>3 DEF File
    <3>2. CASE OnBuf
      BY <2>3, <3>2, TransferAssumption DEF OnBuf, Receives, TransferAssumption
    <3>3. CASE OnEnd BY <2>3, <3>3 DEF OnEnd, File
    <3>. QED BY <1>9, <3>1, <3>2, <3>3 DEF OnMessage
  <2>4. \A i \in 1..(Len(wire') + 1), k \in File : MayBeOpen(i, k)' => MayBeOpen(i + 1, k)
    BY <2>1, <2>3, Received
  <2>5. \A k \in File : MayBeOpen(Len(wire) + 1, k)' => MayBeOpen(Len(wire) + 1, k)
    <3>1. ASSUME NEW k \in File, NEW n \in Nat, n = Len(wire') + 1, MayBeOpen(n, k)'
          PROVE  MayBeOpen(n + 1, k)
      BY <2>2, <2>4, <3>1
    <3>2. ASSUME NEW k \in File, MayBeOpen(Len(wire) + 1, k)'
          PROVE  \E n \in Nat : n = Len(wire') + 1 /\ MayBeOpen(n, k)'
      BY <2>2, <3>2 DEF MayBeOpen, Opens
    <3>. QED BY <2>2, <3>1, <3>2
  <2>6. ASSUME NEW i \in 1..Len(wire'), NEW k \in File, wire'[i].index > 0, MayBeOpen(i, k)'
        PROVE  \A p \in DOMAIN wire'[i].buf : wire'[i].buf[p][1] = k
    <3>1. i + 1 \in 1..Len(wire) /\ wire'[i] = wire[i + 1] /\ i \in 1..(Len(wire') + 1)
      BY <2>2
    <3>2. MayBeOpen(i + 1, k) BY <2>4, <2>6, <3>1
    <3>. QED BY <2>6, <3>1, <3>2 DEF HandleInv
  <2>. QED BY <2>1, <2>5, <2>6 DEF HandleInv
<1>10. CASE UNCHANGED vars BY <1>1, <1>10 DEF vars
<1>. QED
  BY <1>2, <1>3, <1>4, <1>5, <1>6, <1>7, <1>8, <1>9, <1>10 DEF Next, Worker, Over

-----------------------------------------------------------------------------
(* Whose text arrives, and in which order                                  *)

\* The characters of a packet of text.
LEMMA Characters ==
  ASSUME NEW m \in Packets, m.index > 0
  PROVE  /\ m.buf \in Seq(File \X Nat)
         /\ \A p, q \in DOMAIN m.buf :
              m.buf[p][1] = m.buf[q][1] /\ (p < q => m.buf[p][2] < m.buf[q][2])
<1>1. PICK k \in File, a \in 0..MaxText, n \in 0..(SCTP_BUF_SIZE - 1) : m.buf = Run(k, a, n)
  BY PacketFields
<1>2. a \in Nat /\ n \in Nat BY TransferAssumption DEF TransferAssumption
<1>3. /\ Run(k, a, n) \in Seq(File \X Nat) /\ DOMAIN Run(k, a, n) = 1..n
      /\ \A p \in 1..n : Run(k, a, n)[p][1] = k /\ Run(k, a, n)[p][2] = a + p
  BY <1>2, RunIsSeq
<1>4. \A p, q \in 1..n : p < q => a + p < a + q BY <1>2
<1>. QED BY <1>1, <1>3, <1>4

\* The wire is empty to begin with.
LEMMA OrderInit == Init => OrderInv
BY DEF Init, OrderInv, WirePassed, DiskPassed, WireOrder, DiskFirst, NeverMixed

\* What the worker has passed it has passed for good.
LEMMA PassedStays ==
  ASSUME TypeInv, [Next]_vars, NEW c \in File \X Nat, Passed(c)
  PROVE  Passed(c)'
<1>. USE DEF fileVars, sendVars, recvVars
<1>0. c[1] \in Nat /\ c[2] \in Nat /\ file \in Nat /\ read \in Nat
  BY TransferAssumption DEF File, TypeInv, TransferAssumption
<1>1. CASE UNCHANGED << sender, file, read >> BY <1>1 DEF Passed
<1>2. CASE Begin \/ SkipFile \/ SendName \/ Finish
  BY <1>0, <1>2 DEF Begin, SkipFile, SendName, Finish, Passed
<1>3. CASE SendBuf
  <2>1. read' \in (read + 1)..Len(text[file]) /\ file' = file /\ sender' = "inside"
    BY <1>3, LineIsInText DEF SendBuf
  <2>2. Len(text[file]) \in Nat
    BY <1>3, TransferAssumption DEF SendBuf, TypeInv, TransferAssumption
  <2>. QED BY <1>0, <2>1, <2>2 DEF Passed
<1>4. CASE SendEnd BY <1>0, <1>4 DEF SendEnd, Passed
<1>. QED
  BY <1>1, <1>2, <1>3, <1>4
  DEF Next, Worker, Stop, OnMessage, OnName, OnBuf, OnEnd, Receives, Over, vars

\* Sending keeps the order, if what is sent was not passed and is now.
LEMMA OrderSend ==
  ASSUME TypeInv, OrderInv, [Next]_vars, NEW m \in Packets, Send(m), disk' = disk,
         m.index > 0 => \A p \in DOMAIN m.buf :
           /\ Passed(m.buf[p])'
           /\ \A c \in File \X Nat : Passed(c) /\ c[1] = m.buf[p][1] => c[2] < m.buf[p][2]
  PROVE  OrderInv'
<1>. USE DEF OrderInv
<1>1. /\ NeverMixed' /\ DiskPassed'
  <2>1. \A k \in File : \A x \in DOMAIN disk[k].data : disk[k].data[x] \in File \X Nat
    BY DEF TypeInv, Copies
  <2>. QED BY <2>1, PassedStays DEF NeverMixed, DiskPassed
<1>2. ASSUME NEW i \in 1..Len(wire), wire[i].index > 0
      PROVE  \A p \in DOMAIN wire[i].buf :
               wire[i].buf[p] \in File \X Nat /\ Passed(wire[i].buf[p])
  <2>1. wire[i] \in Packets BY <1>2 DEF TypeInv
  <2>2. \A p \in DOMAIN wire[i].buf : wire[i].buf[p] \in File \X Nat BY <1>2, <2>1, Characters
  <2>. QED BY <1>2, <2>2 DEF WirePassed
<1>3. CASE wire' = wire
  BY <1>1, <1>2, <1>3, PassedStays DEF WirePassed, WireOrder, DiskFirst
<1>4. CASE wire' = Append(wire, m)
  <2>1. /\ Len(wire) \in Nat /\ Len(wire') = Len(wire) + 1 /\ wire'[Len(wire) + 1] = m
        /\ \A l \in 1..Len(wire) : wire'[l] = wire[l]
    BY <1>4, AppendProperties DEF TypeInv
  <2>. DEFINE n == Len(wire)
  <2>. HIDE DEF n
  <2>2. \A i \in 1..(n + 1) : i \in 1..n \/ i = n + 1 BY <2>1 DEF n
  <2>3. /\ n \in Nat /\ Len(wire') = n + 1 /\ wire'[n + 1] = m
        /\ \A l \in 1..n : wire'[l] = wire[l]
    BY <2>1 DEF n
  <2>4. WirePassed' BY <1>2, <2>2, <2>3, PassedStays DEF WirePassed, n
  <2>5. WireOrder'
    <3>1. ASSUME NEW i \in 1..n, wire[i].index > 0, m.index > 0,
                 NEW p \in DOMAIN wire[i].buf, NEW q \in DOMAIN m.buf,
                 wire[i].buf[p][1] = m.buf[q][1]
          PROVE  wire[i].buf[p][2] < m.buf[q][2]
      BY <1>2, <3>1 DEF n
    <3>2. \A i, j \in 1..(n + 1) : i < j => i \in 1..n /\ (j \in 1..n \/ j = n + 1)
      BY <2>3
    <3>. QED BY <2>3, <3>1, <3>2 DEF WireOrder, n
  <2>6. DiskFirst'
    <3>1. ASSUME NEW k \in File, m.index > 0, NEW p \in DOMAIN m.buf,
                 NEW x \in DOMAIN disk[k].data, m.buf[p][1] = k
          PROVE  disk[k].data[x][2] < m.buf[p][2]
      <4>1. disk[k].data[x] \in File \X Nat BY <3>1 DEF TypeInv, Copies
      <4>2. Passed(disk[k].data[x]) /\ disk[k].data[x][1] = k
        BY <3>1 DEF DiskPassed, NeverMixed
      <4>. QED BY <3>1, <4>1, <4>2
    <3>. QED BY <2>2, <2>3, <3>1 DEF DiskFirst, n
  <2>. QED BY <1>1, <2>4, <2>5, <2>6
<1>. QED BY <1>3, <1>4 DEF Send

\* What the receiver writes are the characters of the file it has open.
LEMMA TextOfOpenFile ==
  ASSUME TypeInv, HandleInv, OnBuf, pFILE \in File, NEW p \in DOMAIN Head(wire).buf
  PROVE  Head(wire).buf[p][1] = pFILE
<1>1. /\ Len(wire) \in Nat /\ Len(wire) > 0 /\ wire[1] = Head(wire) /\ wire[1].index > 0
  BY TransferAssumption DEF OnBuf, Receives, TypeInv, TransferAssumption
<1>2. 1 \in 1..Len(wire) BY <1>1
<1>3. MayBeOpen(1, pFILE)
  <2>1. Opens(0, pFILE) /\ 0 \in 0..(1 - 1) BY DEF Opens
  <2>2. \A l \in (0 + 1)..(1 - 1) : wire[l].index > 0 OBVIOUS
  <2>. QED BY <2>1, <2>2 DEF MayBeOpen
<1>. QED BY <1>1, <1>2, <1>3 DEF HandleInv

\* Writing changes a copy's data, closing it does not.
LEMMA CopyFields ==
  ASSUME NEW r \in Copies, NEW q, NEW v
  PROVE  /\ q = [r EXCEPT !.data = v] => q.data = v
         /\ q = [r EXCEPT !.state = v] => q.data = r.data
BY DEF Copies

\* Writing to a file changes its data alone.
LEMMA Written ==
  ASSUME TypeInv, NEW k \in File, NEW v, disk' = [disk EXCEPT ![k].data = v]
  PROVE  disk'[k].data = v /\ \A j \in File \ {k} : disk'[j].data = disk[j].data
<1>1. disk[k] \in Copies BY DEF TypeInv
<1>2. disk'[k] = [disk[k] EXCEPT !.data = v] BY Zenon DEF TypeInv
<1>3. \A j \in File \ {k} : disk'[j] = disk[j] BY Zenon DEF TypeInv
<1>4. disk'[k].data = v BY <1>1, <1>2, CopyFields
<1>. QED BY <1>3, <1>4

\* Closing a file changes no data.
LEMMA Closed ==
  ASSUME TypeInv, NEW k \in File, NEW w, disk' = [disk EXCEPT ![k].state = w]
  PROVE  \A j \in File : disk'[j].data = disk[j].data
<1>1. disk[k] \in Copies BY DEF TypeInv
<1>2. disk'[k] = [disk[k] EXCEPT !.state = w] BY Zenon DEF TypeInv
<1>3. \A j \in File \ {k} : disk'[j] = disk[j] BY Zenon DEF TypeInv
<1>4. disk'[k].data = disk[k].data BY <1>1, <1>2, CopyFields
<1>. QED BY <1>3, <1>4

\* The receiver takes what is first on the wire, and what follows it follows still.
LEMMA OrderReceive ==
  ASSUME TypeInv, HandleInv, OrderInv, [Next]_vars, OnMessage
  PROVE  OrderInv'
<1>. USE DEF OrderInv, fileVars, sendVars, recvVars
<1>1. wire # << >> /\ wire' = Tail(wire) /\ UNCHANGED sendVars
  BY DEF OnMessage, OnName, OnBuf, OnEnd, Receives
<1>. DEFINE n == Len(wire')
<1>2. /\ Head(wire) \in Packets /\ n \in Nat /\ Len(wire) = n + 1 /\ wire[1] = Head(wire)
      /\ \A l \in 1..n : wire'[l] = wire[l + 1] /\ l + 1 \in 1..Len(wire)
      /\ 1 \in 1..Len(wire)
  BY <1>1, HeadTailProperties DEF TypeInv
<1>. HIDE DEF n
<1>3. \A c : Passed(c)' <=> Passed(c) BY <1>1 DEF Passed
<1>4. WirePassed' BY <1>2, <1>3 DEF WirePassed, n
<1>5. WireOrder'
  <2>1. \A i, j \in 1..n : i < j => i + 1 < j + 1 BY <1>2
  <2>. QED BY <1>2, <2>1 DEF WireOrder, n
<1>6. \A i \in 1..n, k \in File : wire'[i].index > 0 =>
        \A p \in DOMAIN wire'[i].buf, x \in DOMAIN disk[k].data :
          wire'[i].buf[p][1] = k => disk[k].data[x][2] < wire'[i].buf[p][2]
  BY <1>2 DEF DiskFirst
\* A file whose data is as it was, or gone, is in order.
<1>7. ASSUME NEW k \in File, disk'[k].data = disk[k].data \/ disk'[k].data = << >>
      PROVE  /\ \A x \in DOMAIN disk'[k].data : Passed(disk'[k].data[x])
             /\ \A i \in 1..n : wire'[i].index > 0 =>
                  \A p \in DOMAIN wire'[i].buf, x \in DOMAIN disk'[k].data :
                    wire'[i].buf[p][1] = k => disk'[k].data[x][2] < wire'[i].buf[p][2]
             /\ \A x, y \in DOMAIN disk'[k].data :
                  /\ disk'[k].data[x][1] = k
                  /\ x < y => disk'[k].data[x][2] < disk'[k].data[y][2]
  <2>1. CASE disk'[k].data = disk[k].data
    BY <1>3, <1>6, <2>1 DEF DiskPassed, NeverMixed
  <2>2. CASE disk'[k].data = << >> BY <2>2
  <2>. QED BY <1>7, <2>1, <2>2
<1>8. CASE OnBuf /\ pFILE \in File
  <2>. DEFINE old == disk[pFILE].data
              new == Head(wire).buf
              data == disk'[pFILE].data
  <2>1. /\ data = old \o new /\ Head(wire).index > 0
        /\ \A k \in File \ {pFILE} : disk'[k].data = disk[k].data
    <3>1. Head(wire).index > 0
      BY <1>8, TransferAssumption DEF OnBuf, Receives, TransferAssumption
    <3>2. disk' = [disk EXCEPT ![pFILE].data = old \o new] BY <1>8 DEF OnBuf
    <3>3. disk'[pFILE].data = old \o new /\ \A k \in File \ {pFILE} : disk'[k].data = disk[k].data
      BY <1>8, <3>2, Written
    <3>. QED BY <3>1, <3>3
  <2>2. old \in Seq(File \X Nat) /\ new \in Seq(File \X Nat)
    BY <1>2, <1>8, <2>1, Characters DEF TypeInv, Copies
  <2>3. \A p, q \in DOMAIN new : new[p][1] = pFILE /\ (p < q => new[p][2] < new[q][2])
    BY <1>2, <1>8, <2>1, Characters, TextOfOpenFile
  <2>4. \A p \in DOMAIN new : Passed(new[p]) BY <1>2, <2>1 DEF WirePassed
  <2>5. \A p \in DOMAIN new, x \in DOMAIN old : old[x][2] < new[p][2]
    BY <1>2, <1>8, <2>1, <2>3 DEF DiskFirst
  <2>6. \A i \in 1..n : wire'[i].index > 0 =>
          \A p \in DOMAIN wire'[i].buf, q \in DOMAIN new :
            wire'[i].buf[p][1] = pFILE => new[q][2] < wire'[i].buf[p][2]
    <3>1. ASSUME NEW i \in 1..n, wire'[i].index > 0, NEW p \in DOMAIN wire'[i].buf,
                 NEW q \in DOMAIN new, wire'[i].buf[p][1] = pFILE
          PROVE  new[q][2] < wire'[i].buf[p][2]
      <4>1. 1 < i + 1 /\ i + 1 \in 1..Len(wire) /\ wire'[i] = wire[i + 1] BY <1>2
      <4>2. wire[1].index > 0 /\ wire[i + 1].index > 0 /\ new[q][1] = pFILE
        BY <1>2, <2>1, <2>3, <3>1, <4>1
      <4>. QED BY <1>2, <3>1, <4>1, <4>2 DEF WireOrder
    <3>. QED BY <3>1
  <2>7. /\ \A x \in DOMAIN old : Passed(old[x])
        /\ \A x, y \in DOMAIN old : old[x][1] = pFILE /\ (x < y => old[x][2] < old[y][2])
        /\ \A i \in 1..n : wire'[i].index > 0 =>
             \A p \in DOMAIN wire'[i].buf, x \in DOMAIN old :
               wire'[i].buf[p][1] = pFILE => old[x][2] < wire'[i].buf[p][2]
    BY <1>6, <1>8 DEF DiskPassed, NeverMixed
  <2>. HIDE DEF old, new, data
  <2>8. /\ Len(old) \in Nat /\ DOMAIN old = 1..Len(old)
        /\ Len(new) \in Nat /\ DOMAIN new = 1..Len(new)
        /\ DOMAIN data = 1..(Len(old) + Len(new))
        /\ \A x \in 1..(Len(old) + Len(new)) :
             data[x] = IF x <= Len(old) THEN old[x] ELSE new[x - Len(old)]
    BY <2>1, <2>2, ConcatProperties
  \* A character of the file is one that was there or one of the packet.
  <2>9. ASSUME NEW x \in DOMAIN data
        PROVE  \/ x \in DOMAIN old /\ data[x] = old[x]
               \/ x > Len(old) /\ x - Len(old) \in DOMAIN new /\ data[x] = new[x - Len(old)]
    BY <2>8
  <2>10. \A x \in DOMAIN data : Passed(data[x]) /\ data[x][1] = pFILE
    BY <2>3, <2>4, <2>7, <2>9
  <2>11. ASSUME NEW x \in DOMAIN data, NEW y \in DOMAIN data, x < y
         PROVE  data[x][2] < data[y][2]
    <3>1. CASE y \in DOMAIN old
      <4>1. x \in DOMAIN old /\ data[x] = old[x] /\ data[y] = old[y] BY <2>8, <2>11, <3>1
      <4>. QED BY <2>7, <2>11, <3>1, <4>1
    <3>2. CASE y \notin DOMAIN old /\ x \in DOMAIN old
      BY <2>5, <2>8, <2>9, <3>2
    <3>3. CASE y \notin DOMAIN old /\ x \notin DOMAIN old
      <4>1. /\ x - Len(old) \in DOMAIN new /\ data[x] = new[x - Len(old)]
            /\ y - Len(old) \in DOMAIN new /\ data[y] = new[y - Len(old)]
            /\ x - Len(old) < y - Len(old)
        BY <2>8, <2>9, <2>11, <3>3
      <4>. QED BY <2>3, <4>1
    <3>. QED BY <3>1, <3>2, <3>3
  <2>12. \A i \in 1..n : wire'[i].index > 0 =>
           \A p \in DOMAIN wire'[i].buf, x \in DOMAIN data :
             wire'[i].buf[p][1] = pFILE => data[x][2] < wire'[i].buf[p][2]
    BY <2>6, <2>7, <2>9
  <2>13. /\ \A k \in File : \A x \in DOMAIN disk'[k].data : Passed(disk'[k].data[x])
         /\ \A k \in File : \A x, y \in DOMAIN disk'[k].data :
              /\ disk'[k].data[x][1] = k
              /\ x < y => disk'[k].data[x][2] < disk'[k].data[y][2]
         /\ \A i \in 1..n, k \in File : wire'[i].index > 0 =>
              \A p \in DOMAIN wire'[i].buf, x \in DOMAIN disk'[k].data :
                wire'[i].buf[p][1] = k => disk'[k].data[x][2] < wire'[i].buf[p][2]
    <3>1. ASSUME NEW k \in File, k # pFILE PROVE disk'[k].data = disk[k].data BY <2>1, <3>1
    <3>. QED BY <1>7, <2>10, <2>11, <2>12, <3>1 DEF data
  <2>14. DiskPassed' BY <1>1, <2>13 DEF DiskPassed, Passed
  <2>15. NeverMixed' /\ DiskFirst' BY <2>13 DEF NeverMixed, DiskFirst, n
  <2>. QED BY <1>4, <1>5, <2>14, <2>15
<1>9. CASE ~(OnBuf /\ pFILE \in File)
  <2>1. \A k \in File : disk'[k].data = disk[k].data \/ disk'[k].data = << >>
    <3>1. CASE OnName
      <4>1. PICK k \in File : Head(wire) = [index |-> 0, buf |-> << k >>]
        BY <1>2, <3>1, PacketFields DEF OnName, Receives
      <4>2. Head(wire).buf[1] = k BY <4>1
      <4>3. \/ disk' = [disk EXCEPT ![k] = [state |-> "open", data |-> << >>]]
            \/ disk' = disk
        BY <3>1, <4>2 DEF OnName
      <4>. QED BY <4>3 DEF TypeInv
    <3>2. CASE OnBuf BY <1>9, <3>2 DEF OnBuf
    <3>3. CASE OnEnd BY <3>3, Closed DEF OnEnd
    <3>. QED BY <3>1, <3>2, <3>3 DEF OnMessage
  <2>2. DiskPassed' BY <1>1, <1>7, <2>1 DEF DiskPassed, Passed
  <2>3. NeverMixed' /\ DiskFirst' BY <1>7, <2>1 DEF NeverMixed, DiskFirst, n
  <2>. QED BY <1>4, <1>5, <2>2, <2>3
<1>. QED BY <1>8, <1>9

\* Each step keeps the packets in the order of the sender's program.
LEMMA OrderStep == TypeInv /\ HandleInv /\ OrderInv /\ [Next]_vars => OrderInv'
<1>. SUFFICES ASSUME TypeInv, HandleInv, OrderInv, [Next]_vars PROVE OrderInv'
  OBVIOUS
<1>. USE DEF fileVars, sendVars, recvVars
<1>0. /\ file \in Nat /\ read \in Nat
      /\ \A c \in File \X Nat : c[1] \in Nat /\ c[2] \in Nat
  BY TransferAssumption DEF TypeInv, TransferAssumption, File
<1>1. ASSUME UNCHANGED << wire, disk >> PROVE OrderInv'
  <2>1. ASSUME NEW i \in 1..Len(wire), wire[i].index > 0
        PROVE  \A p \in DOMAIN wire[i].buf : wire[i].buf[p] \in File \X Nat
    <3>1. wire[i] \in Packets BY <2>1 DEF TypeInv
    <3>. QED BY <2>1, <3>1, Characters
  <2>2. \A k \in File : \A x \in DOMAIN disk[k].data : disk[k].data[x] \in File \X Nat
    BY DEF TypeInv, Copies
  <2>. QED
    BY <1>1, <2>1, <2>2, PassedStays
    DEF OrderInv, WirePassed, DiskPassed, WireOrder, DiskFirst, NeverMixed
<1>2. CASE SendName
  <2>. DEFINE m == [index |-> 0, buf |-> << file >>]
  <2>1. file \in File BY <1>0, <1>2 DEF SendName, File, TypeInv
  <2>2. m \in Packets /\ Send(m) /\ disk' = disk /\ ~(m.index > 0)
    BY <1>2, <2>1, PacketsSent DEF SendName
  <2>. HIDE DEF m
  <2>. QED BY <2>2, OrderSend
<1>3. CASE SendBuf
  <2>. DEFINE n == Measured - read
              m == [index |-> packet_index + 1, buf |-> Run(file, read, n)]
  <2>1. m \in Packets /\ Send(m) /\ disk' = disk
    BY <1>3, BufIsPacket DEF SendBuf, Run
  <2>2. /\ sender' = "inside" /\ file' = file /\ read' = LineEnd /\ file \in File
        /\ sender = "inside"
    BY <1>3 DEF SendBuf, TypeInv
  <2>3. n \in Nat /\ read + n <= LineEnd /\ LineEnd \in Nat
    <3>1. LineEnd \in (read + 1)..Len(text[file]) /\ Measured \in read..LineEnd
      BY <1>3, LineIsInText DEF SendBuf
    <3>2. LineEnd \in Nat BY <1>0, <3>1
    <3>. QED BY <1>0, <3>1, <3>2
  <2>4. m.buf = Run(file, read, n) OBVIOUS
  <2>. HIDE DEF m, n
  <2>5. ASSUME NEW p \in DOMAIN m.buf
        PROVE  p \in 1..n /\ m.buf[p] = << file, read + p >>
    BY <2>4, <2>5 DEF Run
  <2>6. ASSUME NEW p \in DOMAIN m.buf, NEW c, c = m.buf[p] PROVE Passed(c)'
    <3>1. p \in 1..n /\ c[1] = file /\ c[2] = read + p BY <2>5, <2>6
    <3>2. c[2] <= read' BY <1>0, <2>2, <2>3, <3>1
    <3>. QED BY <2>2, <3>1, <3>2 DEF Passed
  <2>7. ASSUME NEW p \in DOMAIN m.buf, NEW c \in File \X Nat, Passed(c), c[1] = m.buf[p][1]
        PROVE  c[2] < m.buf[p][2]
    <3>1. p \in 1..n /\ m.buf[p][1] = file /\ m.buf[p][2] = read + p BY <2>5
    <3>2. c[2] <= read BY <1>0, <2>7, <3>1 DEF Passed
    <3>. QED BY <1>0, <3>1, <3>2
  <2>. QED BY <2>1, <2>6, <2>7, OrderSend
<1>4. CASE SendEnd
  <2>. DEFINE m == [index |-> -1, buf |-> << >>]
  <2>1. m \in Packets /\ Send(m) /\ disk' = disk /\ ~(m.index > 0)
    BY <1>4, PacketsSent DEF SendEnd
  <2>. HIDE DEF m
  <2>. QED BY <2>1, OrderSend
<1>5. CASE OnMessage BY <1>5, OrderReceive
<1>. QED
  BY <1>1, <1>2, <1>3, <1>4, <1>5
  DEF Next, Worker, Begin, SkipFile, Finish, Stop, Over, vars

\* When one packet of all is lost at most, the text of a file never ends up in another, and
\* what of it arrives is in order: for any files and texts, and any size of the buffer.
THEOREM TextsStayApart ==
  ASSUME MaxLost <= 1
  PROVE  Spec => []NeverMixed
<1>1. OrderInv => NeverMixed BY DEF OrderInv
<1>2. Spec => []TypeInv BY TypeInit, TypeStep, PTL DEF Spec
<1>3. Spec => []HandleInv BY <1>2, HandleInit, HandleStep, PTL DEF Spec
<1>. QED BY <1>1, <1>2, <1>3, OrderInit, OrderStep, PTL DEF Spec
=============================================================================
