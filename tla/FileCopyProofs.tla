--------------------------- MODULE FileCopyProofs ---------------------------
(***************************************************************************)
(* Proof that FileTransfer implements FileCopy, for any number of text     *)
(* files, any texts without a NUL and any size of the buffer, over a       *)
(* channel that loses nothing.                                             *)
(***************************************************************************)
EXTENDS FileTransferProofs

\* A place in an upload: file k after its character n, or, when k is 0, between files.

\* The place that packet m leads to.
FileAfter(m) == IF m.index = -1 THEN 0 ELSE IF m.index = 0 THEN m.buf[1] ELSE m.buf[1][1]
ReadAfter(m) == IF m.index > 0 THEN m.buf[Len(m.buf)][2] ELSE 0

\* Packet m goes on from a place.
Fits(m, k, n) ==
  IF k = 0 THEN m.index = 0
  ELSE \/ m.index = -1 /\ n = Len(text[k])
       \/ m.index > 0 /\ \E x \in 1..(Len(text[k]) - n) : m.buf = Run(k, n, x)

\* The worker is at a place.
IsAt(k, n) ==
  IF k = 0 THEN sender # "inside" ELSE sender = "inside" /\ file = k /\ read = n

\* Packet i, or behind the last one the worker, goes on from a place.
GoesOn(k, n, i) == IF i <= Len(wire) THEN Fits(wire[i], k, n) ELSE IsAt(k, n)

\* The worker has begun file k.
Begun(k) == k < file \/ (k = file /\ sender = "inside")

Absent == [state |-> "absent", data |-> << >>]

\* Each packet goes on where the one before it has led.
Chain == \A i \in 1..Len(wire) : GoesOn(FileAfter(wire[i]), ReadAfter(wire[i]), i + 1)

\* The names on the way are of files that are begun and not yet made, each once.
NamesNew ==
  /\ \A i \in 1..Len(wire) : wire[i].index = 0 =>
       Begun(wire[i].buf[1]) /\ disk[wire[i].buf[1]] = Absent
  /\ \A i, j \in 1..Len(wire) : i < j /\ wire[i].index = 0 /\ wire[j].index = 0 =>
       wire[i].buf[1] # wire[j].buf[1]
  /\ \A k \in File : ~Begun(k) => disk[k] = Absent

\* The first packet goes on where the receiver is.  The file it has open is the only one.
ReceiverAt ==
  receiver = "up" =>
    /\ \A k \in File : disk[k].state = "open" => pFILE = k
    /\ pFILE = -1 => GoesOn(0, 0, 1)
    /\ pFILE \in File => \E n \in 0..Len(text[pFILE]) :
         disk[pFILE] = [state |-> "open", data |-> Run(pFILE, 0, n)] /\ GoesOn(pFILE, n, 1)

CopyInv == Chain /\ NamesNew /\ ReceiverAt

-----------------------------------------------------------------------------
(* Packets that are sent and received                                      *)

\* A packet put behind the others goes on where the worker is, and leads to where the
\* worker is then.
LEMMA ChainSend ==
  ASSUME TypeInv, Chain, NEW m \in Packets, wire' = Append(wire, m), text' = text,
         \A k, n : IsAt(k, n) => Fits(m, k, n),
         IsAt(FileAfter(m), ReadAfter(m))'
  PROVE  Chain' /\ \A k, n : GoesOn(k, n, 1) => GoesOn(k, n, 1)'
<1>. DEFINE last == Len(wire)
<1>1. /\ last \in Nat /\ Len(wire') = last + 1 /\ wire'[last + 1] = m
      /\ \A l \in 1..last : wire'[l] = wire[l]
  BY AppendProperties DEF TypeInv
<1>2. \A q, k, n : Fits(q, k, n)' <=> Fits(q, k, n) BY DEF Fits
<1>3. ASSUME NEW i \in 1..(last + 1), NEW k, NEW n, GoesOn(k, n, i) PROVE GoesOn(k, n, i)'
  <2>1. CASE i <= last
    <3>1. Fits(wire[i], k, n) /\ wire'[i] = wire[i] /\ i <= Len(wire')
      BY <1>1, <1>3, <2>1 DEF GoesOn
    <3>2. Fits(wire'[i], k, n) BY <3>1
    <3>. QED BY <1>2, <3>1, <3>2 DEF GoesOn, Fits
  <2>2. CASE i = last + 1
    <3>1. IsAt(k, n) /\ ~(i <= Len(wire)) BY <1>1, <1>3, <2>2 DEF GoesOn
    <3>2. Fits(m, k, n) /\ wire'[i] = m /\ i <= Len(wire') BY <1>1, <2>2, <3>1
    <3>. QED BY <1>2, <3>2 DEF GoesOn, Fits
  <2>. QED BY <1>1, <2>1, <2>2
<1>4. ASSUME NEW i \in 1..Len(wire'), NEW k, NEW n,
             k = FileAfter(wire'[i]), n = ReadAfter(wire'[i])
      PROVE  GoesOn(k, n, i + 1)'
  <2>1. CASE i <= last
    <3>1. GoesOn(k, n, i + 1) BY <1>1, <1>4, <2>1 DEF Chain
    <3>2. i + 1 \in 1..(last + 1) BY <1>1, <2>1
    <3>. QED BY <1>3, <3>1, <3>2
  <2>2. CASE i = last + 1
    <3>1. IsAt(k, n)' BY <1>1, <1>4, <2>2
    <3>2. ~(i + 1 <= Len(wire')) BY <1>1, <2>2
    <3>. QED BY <3>1, <3>2 DEF GoesOn
  <2>. QED BY <1>1, <2>1, <2>2
<1>5. Chain' BY <1>4 DEF Chain
<1>. QED BY <1>1, <1>3, <1>5

\* What is behind the first packet goes on where that packet has led.
LEMMA ChainReceive ==
  ASSUME TypeInv, Chain, wire # << >>, wire' = Tail(wire), UNCHANGED << text, sender, file, read >>,
         NEW k, NEW n, k = FileAfter(Head(wire)), n = ReadAfter(Head(wire))
  PROVE  Chain' /\ GoesOn(k, n, 1)'
<1>. DEFINE last == Len(wire')
<1>1. /\ last \in Nat /\ Len(wire) = last + 1 /\ wire[1] = Head(wire)
      /\ \A l \in 1..last : wire'[l] = wire[l + 1]
  BY HeadTailProperties DEF TypeInv
<1>2. \A q, j, x : Fits(q, j, x)' <=> Fits(q, j, x) BY DEF Fits
<1>3. \A j, x : IsAt(j, x)' <=> IsAt(j, x) BY DEF IsAt
<1>4. ASSUME NEW i \in 1..(last + 1), NEW j, NEW x, GoesOn(j, x, i + 1) PROVE GoesOn(j, x, i)'
  <2>1. CASE i <= last
    <3>1. Fits(wire'[i], j, x) BY <1>1, <1>4, <2>1 DEF GoesOn
    <3>. QED BY <1>2, <2>1, <3>1 DEF GoesOn, Fits
  <2>2. CASE i = last + 1
    <3>1. IsAt(j, x) /\ ~(i <= Len(wire')) BY <1>1, <1>4, <2>2 DEF GoesOn
    <3>. QED BY <1>3, <3>1 DEF GoesOn
  <2>3. i <= last \/ i = last + 1
    <3>1. last \in Nat BY <1>1
    <3>. HIDE DEF last
    <3>. QED BY <3>1
  <2>. QED BY <2>1, <2>2, <2>3
<1>5. ASSUME NEW i \in 1..last, NEW j, NEW x,
             j = FileAfter(wire'[i]), x = ReadAfter(wire'[i])
      PROVE  GoesOn(j, x, i + 1)'
  <2>1. i + 1 \in 1..Len(wire) /\ i + 1 \in 1..(last + 1) /\ wire'[i] = wire[i + 1] BY <1>1
  <2>2. GoesOn(j, x, (i + 1) + 1) BY <1>5, <2>1 DEF Chain
  <2>. QED BY <1>4, <2>1, <2>2
<1>6. Chain' BY <1>5 DEF Chain
<1>7. 1 \in 1..Len(wire) /\ 1 \in 1..(last + 1) BY <1>1
<1>8. GoesOn(k, n, 1 + 1) BY <1>1, <1>7 DEF Chain
<1>. QED BY <1>4, <1>6, <1>7, <1>8

\* Steps that neither send nor receive, and stay in a file or between files.
LEMMA ChainStays ==
  ASSUME Chain, UNCHANGED << wire, text >>, \A k, n : IsAt(k, n) => IsAt(k, n)'
  PROVE  Chain' /\ \A k, n : GoesOn(k, n, 1) => GoesOn(k, n, 1)'
<1>1. \A k, n, i : GoesOn(k, n, i) => GoesOn(k, n, i)' BY DEF GoesOn, Fits
<1>. QED BY <1>1 DEF Chain

\* A receiver that is left alone stays where it is.
LEMMA ReceiverStays ==
  ASSUME ReceiverAt, UNCHANGED << text, pFILE, disk, receiver >>,
         \A k, n : GoesOn(k, n, 1) => GoesOn(k, n, 1)'
  PROVE  ReceiverAt'
BY DEF ReceiverAt

\* A file that is begun stays begun, and a name is sent for a file that was not.
LEMMA NamesSend ==
  ASSUME TypeInv, NamesNew, NEW m \in Packets, wire' = Append(wire, m), disk' = disk,
         \A k \in File : Begun(k) => Begun(k)',
         m.index = 0 => m.buf[1] \in File /\ ~Begun(m.buf[1]) /\ Begun(m.buf[1])'
  PROVE  NamesNew'
<1>. DEFINE last == Len(wire)
<1>1. /\ last \in Nat /\ Len(wire') = last + 1 /\ wire'[last + 1] = m
      /\ \A l \in 1..last : wire'[l] = wire[l] /\ wire[l] \in Packets
  BY AppendProperties DEF TypeInv
<1>2. ASSUME NEW i \in 1..last, wire[i].index = 0
      PROVE  wire[i].buf[1] \in File /\ Begun(wire[i].buf[1]) /\ disk[wire[i].buf[1]] = Absent
  <2>1. PICK k \in File : wire[i] = [index |-> 0, buf |-> << k >>]
    BY <1>1, <1>2, PacketFields
  <2>2. wire[i].buf[1] = k BY <2>1
  <2>. QED BY <1>2, <2>2 DEF NamesNew
<1>. HIDE DEF last
<1>3. ASSUME NEW i \in 1..(last + 1), NEW k, k = wire'[i].buf[1], wire'[i].index = 0
      PROVE  Begun(k)' /\ disk[k] = Absent
  <2>1. CASE i = last + 1 BY <1>1, <1>3, <2>1 DEF NamesNew
  <2>2. CASE i \in 1..last
    <3>1. wire[i].index = 0 /\ k = wire[i].buf[1] BY <1>1, <1>3, <2>2
    <3>. QED BY <1>2, <2>2, <3>1
  <2>. QED BY <1>1, <2>1, <2>2
<1>4. ASSUME NEW i \in 1..(last + 1), NEW j \in 1..(last + 1), i < j,
             wire'[i].index = 0, wire'[j].index = 0
      PROVE  wire'[i].buf[1] # wire'[j].buf[1]
  <2>1. i \in 1..last /\ wire'[i] = wire[i] BY <1>1, <1>4
  <2>2. CASE j = last + 1
    <3>1. Begun(wire[i].buf[1]) /\ ~Begun(m.buf[1]) BY <1>1, <1>2, <1>4, <2>1, <2>2
    <3>. QED BY <1>1, <2>1, <2>2, <3>1
  <2>3. CASE j \in 1..last
    <3>1. wire'[j] = wire[j] BY <1>1, <2>3
    <3>. QED BY <1>4, <2>1, <2>3, <3>1 DEF NamesNew, last
  <2>. QED BY <1>1, <2>2, <2>3
<1>5. \A k \in File : ~Begun(k)' => disk[k] = Absent BY DEF NamesNew
<1>6. ASSUME NEW i \in 1..(last + 1), wire'[i].index = 0
      PROVE  Begun(wire[i].buf[1])' /\ disk[wire'[i].buf[1]] = Absent
  BY <1>3, <1>6 DEF Begun
<1>. QED BY <1>1, <1>4, <1>5, <1>6 DEF NamesNew

\* The receiver changes files it has made, and the one that the first packet names.
LEMMA NamesReceive ==
  ASSUME TypeInv, NamesNew, wire # << >>, wire' = Tail(wire), UNCHANGED << file, sender >>,
         \A k \in File : \/ disk'[k] = disk[k]
                         \/ disk[k] # Absent
                         \/ Head(wire).index = 0 /\ Head(wire).buf[1] = k
  PROVE  NamesNew'
<1>. DEFINE last == Len(wire')
<1>1. /\ last \in Nat /\ Len(wire) = last + 1 /\ wire[1] = Head(wire)
      /\ \A l \in 1..last : wire'[l] = wire[l + 1] /\ wire[l + 1] \in Packets
  BY HeadTailProperties DEF TypeInv
<1>. HIDE DEF last
<1>2. \A k : Begun(k)' <=> Begun(k) BY DEF Begun
<1>3. ASSUME NEW i \in 1..last, wire'[i].index = 0
      PROVE  Begun(wire'[i].buf[1]) /\ disk'[wire'[i].buf[1]] = Absent
  <2>1. i + 1 \in 1..Len(wire) /\ 1 \in 1..Len(wire) /\ 1 < i + 1 /\ wire'[i] = wire[i + 1]
    BY <1>1
  <2>2. PICK k \in File : wire[i + 1] = [index |-> 0, buf |-> << k >>]
    BY <1>1, <1>3, <2>1, PacketFields
  <2>3. wire[i + 1].buf[1] = k /\ wire[i + 1].index = 0 BY <2>2
  <2>4. Begun(k) /\ disk[k] = Absent BY <2>1, <2>3 DEF NamesNew
  <2>5. ~(Head(wire).index = 0 /\ Head(wire).buf[1] = k)
    BY <1>1, <2>1, <2>3 DEF NamesNew
  <2>6. disk'[k] = Absent BY <2>4, <2>5
  <2>. QED BY <2>1, <2>3, <2>4, <2>6
<1>4. ASSUME NEW i \in 1..last, NEW j \in 1..last, i < j,
             wire'[i].index = 0, wire'[j].index = 0
      PROVE  wire'[i].buf[1] # wire'[j].buf[1]
  <2>1. /\ i + 1 \in 1..Len(wire) /\ j + 1 \in 1..Len(wire) /\ i + 1 < j + 1
        /\ wire'[i] = wire[i + 1] /\ wire'[j] = wire[j + 1]
    BY <1>1, <1>4
  <2>. QED BY <1>4, <2>1 DEF NamesNew
<1>5. ASSUME NEW k \in File, ~Begun(k) PROVE disk'[k] = Absent
  <2>1. disk[k] = Absent BY <1>5 DEF NamesNew
  <2>2. 1 \in 1..Len(wire) BY <1>1
  <2>3. ~(Head(wire).index = 0 /\ Head(wire).buf[1] = k) BY <1>1, <1>5, <2>2 DEF NamesNew
  <2>. QED BY <2>1, <2>3
<1>. QED BY <1>2, <1>3, <1>4, <1>5 DEF NamesNew, last, Begun

\* Without a NUL in the text strlen measures all that fgets took.
LEMMA AllMeasured ==
  ASSUME TypeInv, sender = "inside", read < Len(text[file]), "NUL" \notin Char
  PROVE  Measured = LineEnd
<1>1. LineEnd \in (read + 1)..Len(text[file]) /\ read \in Nat /\ Len(text[file]) \in Nat
  BY LineIsInText, TransferAssumption DEF TypeInv, TransferAssumption
<1>2. file \in File /\ \A p \in 1..Len(text[file]) : text[file][p] \in Char BY DEF TypeInv
<1>3. {p \in (read + 1)..LineEnd : text[file][p] = "NUL"} = {}
  <2>1. \A p \in (read + 1)..LineEnd : p \in 1..Len(text[file]) BY <1>1
  <2>. QED BY <1>2, <2>1
<1>4. Min({LineEnd + 1}) = LineEnd + 1
  <2>. DEFINE S == {LineEnd + 1}
  <2>1. S \subseteq Nat /\ S # {} BY <1>1
  <2>. HIDE DEF S
  <2>2. Min(S) \in S BY <2>1, MinIsLeast
  <2>. QED BY <2>2 DEF S
<1>5. Measured = Min({LineEnd + 1}) - 1
  <2>1. {LineEnd + 1} \cup {p \in (read + 1)..LineEnd : text[file][p] = "NUL"} = {LineEnd + 1}
    BY <1>3
  <2>. QED BY <2>1 DEF Measured
<1>. QED BY <1>1, <1>4, <1>5

-----------------------------------------------------------------------------
(* Sending files is copying them                                           *)

\* What FileCopy calls the characters up to the n-th.
LEMMA RunIsUpto ==
  ASSUME NEW k \in File, NEW n \in Nat
  PROVE  Copy!Upto(k, n) = Run(k, 0, n)
BY DEF Copy!Upto, Run

\* Text that follows on text.
LEMMA RunGrows ==
  ASSUME NEW k \in File, NEW n \in Nat, NEW x \in Nat \ {0}
  PROVE  /\ Run(k, 0, n) \o Run(k, n, x) = Run(k, 0, n + x)
         /\ Run(k, n, x)[1][1] = k
         /\ Run(k, n, x)[Len(Run(k, n, x))][2] = n + x
<1>. DEFINE s == Run(k, 0, n)
            t == Run(k, n, x)
            u == Run(k, 0, n + x)
<1>1. s \in Seq(File \X Nat) /\ Len(s) = n /\ \A p \in 1..n : s[p] = << k, p >>
  BY RunIsSeq DEF Run
<1>2. t \in Seq(File \X Nat) /\ Len(t) = x /\ \A p \in 1..x : t[p] = << k, n + p >>
  BY RunIsSeq DEF Run
<1>3. u \in Seq(File \X Nat) /\ Len(u) = n + x /\ \A p \in 1..(n + x) : u[p] = << k, p >>
  <2>1. n + x \in Nat OBVIOUS
  <2>. QED BY <2>1, RunIsSeq DEF Run
<1>. HIDE DEF s, t, u
<1>4. /\ s \o t \in Seq(File \X Nat) /\ Len(s \o t) = n + x
      /\ \A p \in 1..(n + x) : (s \o t)[p] = IF p <= n THEN s[p] ELSE t[p - n]
  BY <1>1, <1>2, ConcatProperties
<1>5. ASSUME NEW p \in 1..(n + x) PROVE (s \o t)[p] = u[p]
  <2>1. CASE p <= n
    <3>1. p \in 1..n BY <2>1
    <3>. QED BY <1>1, <1>3, <1>4, <2>1, <3>1
  <2>2. CASE ~(p <= n)
    <3>1. p - n \in 1..x /\ n + (p - n) = p BY <2>2
    <3>. QED BY <1>2, <1>3, <1>4, <2>2, <3>1
  <2>. QED BY <2>1, <2>2
<1>6. s \o t = u BY <1>3, <1>4, <1>5, SeqEqual
<1>7. 1 \in 1..x /\ x \in 1..x OBVIOUS
<1>8. t[1][1] = k /\ t[Len(t)][2] = n + x BY <1>2, <1>7
<1>. QED BY <1>6, <1>8 DEF s, t, u

\* At first nothing is on its way, and no file is there.
LEMMA CopyInit == Init => CopyInv /\ Copy!Init
<1>. SUFFICES ASSUME Init PROVE CopyInv /\ Copy!Init
  OBVIOUS
<1>1. /\ Len(wire) = 0 /\ pFILE = 0 /\ disk = [k \in File |-> Absent] /\ DOMAIN text = File
      /\ 0 \notin File
  BY DEF Init, Absent, File
<1>2. Chain BY <1>1 DEF Chain
<1>3. NamesNew BY <1>1 DEF NamesNew
<1>4. ReceiverAt BY <1>1 DEF ReceiverAt, Absent
<1>5. Copy!Init BY <1>1 DEF Copy!Init, Absent
<1>. QED BY <1>2, <1>3, <1>4, <1>5 DEF CopyInv

\* What the worker does leaves the copies alone.
LEMMA CopyWorker ==
  ASSUME MaxLost = 0, "NUL" \notin Char, TypeInv, CopyInv, Worker \/ Stop
  PROVE  CopyInv' /\ UNCHANGED << text, disk >>
<1>. USE DEF CopyInv, fileVars, sendVars, recvVars
<1>0. /\ NumFiles \in Nat /\ MaxText \in Nat /\ file \in Nat /\ read \in Nat /\ ~(lost < MaxLost)
      /\ File = 1..NumFiles
  BY TransferAssumption DEF TransferAssumption, TypeInv, File
<1>1. UNCHANGED << text, pFILE, disk, receiver >>
  BY DEF Worker, Stop, Begin, SkipFile, SendName, SendBuf, SendEnd, Finish
\* Steps that send nothing, and neither begin nor end a file.
<1>2. ASSUME UNCHANGED wire, sender' = "inside" <=> sender = "inside",
             sender = "inside" => UNCHANGED << file, read >>,
             file <= file'
      PROVE  CopyInv'
  <2>1. \A k, n : IsAt(k, n) => IsAt(k, n)' BY <1>2 DEF IsAt
  <2>2. Chain' /\ \A k, n : GoesOn(k, n, 1) => GoesOn(k, n, 1)' BY <1>1, <1>2, <2>1, ChainStays
  <2>3. \A k \in File : Begun(k) => Begun(k)'
    <3>1. file' \in Nat \/ file' = file BY <1>2, <1>0 DEF Worker, Stop, Begin, SkipFile, SendName, SendBuf, SendEnd, Finish
    <3>. QED BY <1>0, <1>2, <3>1 DEF Begun
  <2>4. NamesNew'
    <3>1. \A i \in 1..Len(wire) : wire[i].index = 0 => wire[i].buf[1] \in File
      <4>1. ASSUME NEW i \in 1..Len(wire), wire[i].index = 0 PROVE wire[i].buf[1] \in File
        <5>1. wire[i] \in Packets BY DEF TypeInv
        <5>2. PICK k \in File : wire[i] = [index |-> 0, buf |-> << k >>]
          BY <4>1, <5>1, PacketFields
        <5>. QED BY <5>2
      <4>. QED BY <4>1
    <3>. QED BY <1>1, <1>2, <2>3, <3>1 DEF NamesNew, Begun
  <2>. QED BY <1>1, <2>2, <2>4, ReceiverStays
\* Steps that send a packet.
<1>3. ASSUME NEW m \in Packets, Send(m),
             \A k, n : IsAt(k, n) => Fits(m, k, n), IsAt(FileAfter(m), ReadAfter(m))',
             \A k \in File : Begun(k) => Begun(k)',
             m.index = 0 => m.buf[1] \in File /\ ~Begun(m.buf[1]) /\ Begun(m.buf[1])'
      PROVE  CopyInv'
  <2>1. wire' = Append(wire, m) BY <1>0, <1>3 DEF Send
  <2>2. Chain' /\ \A k, n : GoesOn(k, n, 1) => GoesOn(k, n, 1)'
    BY <1>1, <1>3, <2>1, ChainSend
  <2>3. NamesNew' BY <1>1, <1>3, <2>1, NamesSend
  <2>. QED BY <1>1, <2>2, <2>3, ReceiverStays
<1>4. CASE Begin BY <1>0, <1>2, <1>4 DEF Begin
<1>5. CASE SkipFile BY <1>0, <1>2, <1>5 DEF SkipFile
<1>6. CASE Finish BY <1>0, <1>2, <1>6 DEF Finish
<1>7. CASE Stop BY <1>0, <1>2, <1>7 DEF Stop
<1>8. CASE SendName
  <2>1. /\ file \in File /\ sender = "next" /\ sender' = "inside"
        /\ file' = file /\ read' = 0 /\ Send([index |-> 0, buf |-> << file >>])
    BY <1>0, <1>8 DEF SendName, TypeInv
  <2>2. PICK m \in Packets : m = [index |-> 0, buf |-> << file >>] BY <2>1, PacketsSent
  <2>0. Send(m) /\ FileAfter(m) = file /\ ReadAfter(m) = 0 /\ m.index = 0 /\ m.buf[1] = file
    BY <2>1, <2>2 DEF FileAfter, ReadAfter
  <2>3. \A k, n : IsAt(k, n) => Fits(m, k, n) BY <2>0, <2>1 DEF IsAt, Fits
  <2>4. IsAt(FileAfter(m), ReadAfter(m))' BY <1>0, <2>0, <2>1 DEF IsAt
  <2>5. \A k \in File : Begun(k) => Begun(k)' BY <2>1 DEF Begun
  <2>6. ~Begun(m.buf[1]) /\ Begun(m.buf[1])' BY <1>0, <2>0, <2>1 DEF Begun
  <2>. QED BY <1>1, <1>3, <2>0, <2>1, <2>3, <2>4, <2>5, <2>6
<1>9. CASE SendBuf
  <2>. DEFINE x == LineEnd - read
  <2>1. Measured = LineEnd BY <1>9, AllMeasured DEF SendBuf
  <2>2. PICK m \in Packets : m = [index |-> packet_index + 1, buf |-> Run(file, read, x)]
    BY <1>9, <2>1, BufIsPacket
  <2>0. Send(m) BY <1>9, <2>1, <2>2 DEF SendBuf, Run
  <2>3. x \in 1..(Len(text[file]) - read) /\ read + x = LineEnd
    <3>1. LineEnd \in (read + 1)..Len(text[file]) /\ Len(text[file]) \in Nat
      BY <1>9, LineIsInText DEF SendBuf, TypeInv
    <3>. QED BY <1>0, <3>1
  <2>4. /\ sender = "inside" /\ sender' = "inside" /\ file' = file /\ read' = LineEnd
        /\ file \in File /\ packet_index \in Nat
    BY <1>9 DEF SendBuf, TypeInv
  <2>5. m.index > 0 /\ m.buf = Run(file, read, x) BY <2>2, <2>4
  <2>6. FileAfter(m) = file /\ ReadAfter(m) = LineEnd
    <3>1. x \in Nat \ {0} /\ Len(text[file]) \in Nat BY <2>3, <2>4 DEF TypeInv
    <3>. HIDE DEF x
    <3>2. /\ Run(file, read, x)[1][1] = file
          /\ Run(file, read, x)[Len(Run(file, read, x))][2] = read + x
      <4>1. file \in File /\ read \in Nat BY <1>0, <2>4
      <4>. QED BY <3>1, <4>1, RunGrows
    <3>. QED BY <2>3, <2>5, <3>2 DEF FileAfter, ReadAfter
  <2>. HIDE DEF x
  <2>7. \A k, n : IsAt(k, n) => Fits(m, k, n) BY <2>3, <2>4, <2>5 DEF IsAt, Fits
  <2>8. IsAt(FileAfter(m), ReadAfter(m))' BY <1>0, <2>4, <2>6 DEF IsAt
  <2>9. \A k \in File : Begun(k) => Begun(k)' BY <2>4 DEF Begun
  <2>10. ~(m.index = 0) BY <2>5
  <2>. QED BY <1>1, <1>3, <2>0, <2>7, <2>8, <2>9, <2>10
<1>10. CASE SendEnd
  <2>2. PICK m \in Packets : m = [index |-> -1, buf |-> << >>] BY PacketsSent
  <2>1. /\ Send(m) /\ sender = "inside" /\ sender' = "next"
        /\ file' = file + 1 /\ read = Len(text[file]) /\ file \in File
    BY <1>10, <2>2 DEF SendEnd, TypeInv
  <2>0. FileAfter(m) = 0 /\ m.index = -1 BY <2>2 DEF FileAfter
  <2>3. \A k, n : IsAt(k, n) => Fits(m, k, n) BY <2>0, <2>1 DEF IsAt, Fits
  <2>4. IsAt(FileAfter(m), ReadAfter(m))' BY <2>0, <2>1 DEF IsAt
  <2>5. \A k \in File : Begun(k) => Begun(k)' BY <1>0, <2>1 DEF Begun
  <2>. QED BY <1>1, <1>3, <2>0, <2>1, <2>3, <2>4, <2>5
<1>. QED BY <1>1, <1>4, <1>5, <1>6, <1>7, <1>8, <1>9, <1>10 DEF Worker

\* What the receiver takes makes, grows or ends the file the worker had in hand.
LEMMA CopyReceive ==
  ASSUME TypeInv, CopyInv, OnMessage
  PROVE  CopyInv' /\ [Copy!Next]_<< text, disk >>
<1>. USE DEF CopyInv, fileVars, sendVars, recvVars
<1>0. /\ NumFiles \in Nat /\ MaxText \in Nat /\ File = 1..NumFiles /\ 0 \notin File /\ -1 \notin File
  BY TransferAssumption DEF TransferAssumption, File
<1>1. /\ receiver = "up" /\ wire # << >> /\ wire' = Tail(wire)
      /\ UNCHANGED << text, sender, file, read >>
  BY DEF OnMessage, OnName, OnBuf, OnEnd, Receives
<1>2. PICK h : h = Head(wire) OBVIOUS
<1>3. h \in Packets /\ 1 <= Len(wire) /\ wire[1] = h /\ DOMAIN text = File
  BY <1>1, <1>2, HeadTailProperties DEF TypeInv
<1>4. \A k, n : k = FileAfter(h) /\ n = ReadAfter(h) => Chain' /\ GoesOn(k, n, 1)'
  BY <1>1, <1>2, ChainReceive
<1>5. Chain' BY <1>4
<1>6. \A k \in File : disk[k].state = "open" => pFILE = k BY <1>1 DEF ReceiverAt
<1>7. pFILE = -1 => h.index = 0
  <2>1. pFILE = -1 => GoesOn(0, 0, 1) BY <1>1 DEF ReceiverAt
  <2>. QED BY <1>3, <2>1 DEF GoesOn, Fits
<1>8. ASSUME pFILE \in File
      PROVE  \E n \in 0..Len(text[pFILE]) :
               /\ disk[pFILE] = [state |-> "open", data |-> Run(pFILE, 0, n)]
               /\ \/ h.index = -1 /\ n = Len(text[pFILE])
                  \/ h.index > 0 /\ \E x \in 1..(Len(text[pFILE]) - n) : h.buf = Run(pFILE, n, x)
  <2>1. PICK n \in 0..Len(text[pFILE]) :
          disk[pFILE] = [state |-> "open", data |-> Run(pFILE, 0, n)] /\ GoesOn(pFILE, n, 1)
    BY <1>1, <1>8 DEF ReceiverAt
  <2>2. pFILE # 0 BY <1>0, <1>8
  <2>3. Fits(h, pFILE, n) BY <1>3, <2>1 DEF GoesOn
  <2>. QED BY <2>1, <2>2, <2>3 DEF Fits
\* Without an open file text and ends are not survived.
<1>9. ASSUME pFILE \notin File, ~(h.index = 0), Misuse, UNCHANGED << pFILE, disk >>
      PROVE  CopyInv' /\ [Copy!Next]_<< text, disk >>
  <2>1. receiver' = "crashed" BY <1>7, <1>9 DEF Misuse
  <2>2. ReceiverAt' BY <2>1 DEF ReceiverAt
  <2>3. NamesNew' BY <1>1, <1>9, NamesReceive
  <2>. QED BY <1>1, <1>5, <1>9, <2>2, <2>3
<1>10. CASE OnName
  <2>1. PICK k \in File : h = [index |-> 0, buf |-> << k >>]
    BY <1>2, <1>3, <1>10, PacketFields DEF OnName, Receives
  <2>2. h.buf[1] = k /\ h.index = 0 /\ k # 0 /\ k # -1 BY <1>0, <2>1
  <2>3. GoesOn(k, 0, 1)' BY <1>4, <2>2 DEF FileAfter, ReadAfter
  <2>4. pFILE \notin File BY <1>8, <2>2
  <2>5. \A j \in File : disk[j].state # "open" BY <1>6, <2>4
  <2>6. disk[k] = Absent
    <3>1. 1 \in 1..Len(wire) BY <1>3 DEF TypeInv
    <3>. QED BY <1>3, <2>2, <3>1 DEF NamesNew
  <2>7. CASE pFILE' = 0 /\ UNCHANGED disk
    <3>1. ReceiverAt' BY <1>0, <2>5, <2>7 DEF ReceiverAt
    <3>2. NamesNew' BY <1>1, <2>7, NamesReceive
    <3>. QED BY <1>1, <1>5, <2>7, <3>1, <3>2
  <2>8. CASE pFILE' = k /\ disk' = [disk EXCEPT ![k] = [state |-> "open", data |-> << >>]]
    <3>1. /\ disk'[k] = [state |-> "open", data |-> << >>]
          /\ \A j \in File \ {k} : disk'[j] = disk[j]
      BY <2>8 DEF TypeInv
    <3>2. NamesNew' BY <1>1, <1>2, <2>2, <3>1, NamesReceive
    <3>3. Run(k, 0, 0) = << >> BY DEF Run
    <3>4. ReceiverAt'
      <4>1. \A j \in File : disk'[j].state = "open" => pFILE' = j BY <2>5, <2>8, <3>1
      <4>2. 0 \in 0..Len(text'[k]) BY <1>1 DEF TypeInv
      <4>3. GoesOn(pFILE, 0, 1)' BY <2>3, <2>8 DEF GoesOn, Fits, IsAt
      <4>. QED BY <2>2, <2>8, <3>1, <3>3, <4>1, <4>2, <4>3 DEF ReceiverAt
    <3>5. [disk[k] EXCEPT !.state = "open"] = [state |-> "open", data |-> << >>]
      BY <2>6 DEF Absent
    <3>6. disk' = [disk EXCEPT ![k] = [@ EXCEPT !.state = "open"]] BY <2>8, <3>5
    <3>7. Copy!Create(k)
      <4>1. disk[k].state = "absent" BY <2>6 DEF Absent
      <4>2. \A j \in DOMAIN text : disk[j].state # "open" BY <1>3, <2>5
      <4>. QED BY <3>6, <4>1, <4>2, Zenon DEF Copy!Create
    <3>. QED BY <1>1, <1>3, <1>5, <3>2, <3>4, <3>7 DEF Copy!Next
  <2>. QED BY <1>2, <1>10, <2>2, <2>7, <2>8 DEF OnName
<1>11. CASE OnBuf
  <2>1. h.index > 0 /\ h.index # 0 /\ h.index # -1 BY <1>0, <1>2, <1>11 DEF OnBuf, Receives
  <2>2. CASE pFILE \notin File BY <1>9, <1>11, <2>1, <2>2 DEF OnBuf
  <2>3. CASE pFILE \in File
    <3>1. PICK k \in File : k = pFILE BY <2>3
    <3>2. PICK n \in 0..Len(text[k]) :
            /\ disk[k] = [state |-> "open", data |-> Run(k, 0, n)]
            /\ \E x \in 1..(Len(text[k]) - n) : h.buf = Run(k, n, x)
      BY <1>8, <2>1, <3>1
    <3>3. PICK x \in 1..(Len(text[k]) - n) : h.buf = Run(k, n, x) BY <3>2
    <3>4. Len(text[k]) \in Nat /\ Len(text'[k]) = Len(text[k]) BY <1>1 DEF TypeInv
    <3>5. /\ n \in Nat /\ x \in Nat \ {0} /\ n + x \in 0..Len(text'[k]) /\ n + x \in Nat
          /\ n + x \in (n + 1)..Len(text[k])
      BY <3>4
    <3>6. /\ Run(k, 0, n) \o h.buf = Run(k, 0, n + x)
          /\ h.buf[1][1] = k /\ h.buf[Len(h.buf)][2] = n + x
      BY <3>3, <3>5, RunGrows
    <3>7. GoesOn(k, n + x, 1)' BY <1>4, <2>1, <3>6 DEF FileAfter, ReadAfter
    <3>8. /\ pFILE' = k /\ receiver' = receiver
          /\ disk' = [disk EXCEPT ![k].data = @ \o h.buf]
      BY <1>2, <1>11, <2>3, <3>1 DEF OnBuf
    <3>9. disk[k].data = Run(k, 0, n) /\ disk[k].state = "open" BY <3>2
    <3>10. disk' = [disk EXCEPT ![k] = [@ EXCEPT !.data = Run(k, 0, n + x)]]
      BY <3>6, <3>8, <3>9
    <3>11. /\ disk'[k] = [state |-> "open", data |-> Run(k, 0, n + x)]
           /\ \A j \in File \ {k} : disk'[j] = disk[j]
      <4>1. [disk[k] EXCEPT !.data = Run(k, 0, n + x)] =
              [state |-> "open", data |-> Run(k, 0, n + x)]
        BY <3>2
      <4>. QED BY <3>10, <4>1 DEF TypeInv
    <3>12. disk[k] # Absent BY <3>9 DEF Absent
    <3>13. NamesNew' BY <1>1, <3>11, <3>12, NamesReceive
    <3>14. ReceiverAt'
      <4>1. \A j \in File : disk'[j].state = "open" => pFILE' = j
        BY <1>6, <3>1, <3>8, <3>11
      <4>2. k # -1 BY <1>0
      <4>3. GoesOn(pFILE, n + x, 1)' BY <3>7, <3>8 DEF GoesOn, Fits, IsAt
      <4>. QED BY <3>5, <3>8, <3>11, <4>1, <4>2, <4>3 DEF ReceiverAt
    <3>15. Copy!Grow(k)
      <4>1. Len(disk[k].data) = n BY <3>5, <3>9 DEF Run
      <4>2. Copy!Upto(k, n + x) = Run(k, 0, n + x) BY <3>5, RunIsUpto
      <4>3. disk' = [disk EXCEPT ![k].data = Copy!Upto(k, n + x)] BY <3>10, <4>2
      <4>. QED BY <3>5, <3>9, <4>1, <4>3 DEF Copy!Grow
    <3>. QED BY <1>1, <1>3, <1>5, <3>13, <3>14, <3>15 DEF Copy!Next
  <2>. QED BY <2>2, <2>3
<1>12. CASE OnEnd
  <2>1. h.index = -1 /\ h.index # 0 /\ ~(h.index > 0) BY <1>2, <1>12 DEF OnEnd, Receives
  <2>2. CASE pFILE \notin File BY <1>9, <1>12, <2>1, <2>2 DEF OnEnd
  <2>3. CASE pFILE \in File
    <3>1. PICK k \in File : k = pFILE BY <2>3
    <3>2. disk[k] = [state |-> "open", data |-> Run(k, 0, Len(text[k]))]
      BY <1>8, <2>1, <3>1
    <3>3. /\ pFILE' = -1 /\ receiver' = receiver
          /\ disk' = [disk EXCEPT ![k].state = "closed"]
      BY <1>12, <2>3, <3>1 DEF OnEnd
    <3>4. GoesOn(0, 0, 1)' BY <1>4, <2>1 DEF FileAfter, ReadAfter
    <3>5. /\ disk'[k] = [state |-> "closed", data |-> Run(k, 0, Len(text[k]))]
          /\ \A j \in File \ {k} : disk'[j] = disk[j]
      <4>1. [disk[k] EXCEPT !.state = "closed"] =
              [state |-> "closed", data |-> Run(k, 0, Len(text[k]))]
        BY <3>2
      <4>. QED BY <3>3, <4>1 DEF TypeInv
    <3>6. disk[k] # Absent BY <3>2 DEF Absent
    <3>7. NamesNew' BY <1>1, <3>5, <3>6, NamesReceive
    <3>8. ReceiverAt' BY <1>0, <1>6, <3>1, <3>3, <3>4, <3>5 DEF ReceiverAt
    <3>9. Copy!Finish(k)
      <4>1. Len(text[k]) \in Nat BY DEF TypeInv
      <4>2. Copy!Upto(k, Len(text[k])) = Run(k, 0, Len(text[k])) BY <4>1, RunIsUpto
      <4>. QED BY <3>2, <3>3, <4>2 DEF Copy!Finish
    <3>. QED BY <1>1, <1>3, <1>5, <3>7, <3>8, <3>9 DEF Copy!Next
  <2>. QED BY <2>2, <2>3
<1>. QED BY <1>10, <1>11, <1>12 DEF OnMessage

\* Every step keeps the packets in a chain, and copies a file on or leaves the copies alone.
LEMMA CopyStep ==
  ASSUME MaxLost = 0, "NUL" \notin Char
  PROVE  TypeInv /\ CopyInv /\ [Next]_vars => CopyInv' /\ [Copy!Next]_<< text, disk >>
<1>. SUFFICES ASSUME TypeInv, CopyInv, [Next]_vars
              PROVE  CopyInv' /\ [Copy!Next]_<< text, disk >>
  OBVIOUS
<1>1. CASE Worker \/ Stop
  <2>1. CopyInv' /\ UNCHANGED << text, disk >> BY <1>1, CopyWorker
  <2>. QED BY <2>1
<1>2. CASE OnMessage BY <1>2, CopyReceive
<1>3. CASE UNCHANGED vars
  <2>1. UNCHANGED << text, sender, file, read, wire, pFILE, disk, receiver >>
    BY <1>3 DEF vars, fileVars, sendVars, recvVars
  <2>2. \A k, n : IsAt(k, n) => IsAt(k, n)' BY <2>1 DEF IsAt
  <2>3. Chain' /\ \A k, n : GoesOn(k, n, 1) => GoesOn(k, n, 1)'
    BY <2>1, <2>2, ChainStays DEF CopyInv
  <2>4. ReceiverAt' BY <2>1, <2>3, ReceiverStays DEF CopyInv
  <2>5. NamesNew' BY <2>1 DEF CopyInv, NamesNew, Begun
  <2>. QED BY <2>1, <2>3, <2>4, <2>5 DEF CopyInv
<1>. QED BY <1>1, <1>2, <1>3 DEF Next, Over

\* Sending text files over a channel that loses nothing copies them, one after the other,
\* each along its source and whole when it is closed: for any files, and any buffer.
THEOREM SendingIsCopying ==
  ASSUME MaxLost = 0, "NUL" \notin Char
  PROVE  Spec => CopySpec
<1>1. Spec => []TypeInv BY TypeInit, TypeStep, PTL DEF Spec
<1>2. TypeInv /\ CopyInv /\ [Next]_vars => CopyInv' /\ [Copy!Next]_<< text, disk >>
  BY CopyStep
<1>. QED BY <1>1, <1>2, CopyInit, PTL DEF Spec, CopySpec, Copy!Spec

-----------------------------------------------------------------------------
(* What the owner of the files may rely on                                 *)

\* The characters up to the n-th are n.
LEMMA UptoLength == ASSUME NEW k, NEW n \in Nat PROVE Len(Copy!Upto(k, n)) = n
BY DEF Copy!Upto

\* A file has a length.
LEMMA TextLength == ASSUME TypeInv PROVE \A k \in File : Len(text[k]) \in Nat
<1>. SUFFICES ASSUME NEW k \in File PROVE Len(text[k]) \in Nat
  OBVIOUS
<1>1. text[k] \in UNION {[1..n -> Char] : n \in 0..MaxText} BY DEF TypeInv
<1>2. PICK n \in 0..MaxText : text[k] \in [1..n -> Char] BY <1>1
<1>3. n \in Nat BY <1>2, TransferAssumption DEF TransferAssumption
<1>4. text[k] \in Seq(Char) BY <1>2, <1>3
<1>. QED BY <1>4

\* Whatever copies files leaves what it has copied, and goes on along the file.
LEMMA RelyStep ==
  ASSUME TypeInv, TypeInv', Copy!Faithful, Copy!OneOpen, [Copy!Next]_<< text, disk >>
  PROVE  Copy!Faithful' /\ Copy!OneOpen' /\ Copy!NothingLost
<1>. USE DEF Copies
<1>1. /\ DOMAIN text = File /\ disk \in [File -> Copies]
      /\ \A k \in File : Len(text[k]) \in Nat
  <2>. QED BY TextLength DEF TypeInv
<1>2. \A k \in File : \E n \in 0..Len(text[k]) : disk[k].data = Copy!Upto(k, n) /\
                                                 Len(disk[k].data) = n
  BY <1>1, UptoLength DEF Copy!Faithful
<1>3. CASE UNCHANGED << text, disk >>
  <2>1. \A k \in File : Len(disk[k].data) <= Len(disk[k].data) BY <1>1, <1>2
  <2>. QED BY <1>1, <1>3, <2>1 DEF Copy!Faithful, Copy!OneOpen, Copy!NothingLost, Copy!Upto
<1>4. ASSUME NEW k \in File, UNCHANGED text, NEW r \in Copies, disk' = [disk EXCEPT ![k] = r],
             disk[k].state # "closed",
             r.state = "closed" => r.data = Copy!Upto(k, Len(text[k])),
             r.state = "open" => \A j \in File \ {k} : disk[j].state # "open",
             NEW n \in 0..Len(text[k]), r.data = Copy!Upto(k, n), Len(disk[k].data) <= n
      PROVE  Copy!Faithful' /\ Copy!OneOpen' /\ Copy!NothingLost
  <2>1. disk'[k] = r /\ \A j \in File \ {k} : disk'[j] = disk[j] BY <1>1, <1>4
  <2>2. Len(r.data) = n BY <1>1, <1>4, UptoLength
  <2>3. Copy!Faithful'
    <3>1. DOMAIN text' = File /\ text' = text BY <1>1, <1>4
    <3>. SUFFICES ASSUME NEW j \in File
                  PROVE  /\ \E i \in 0..Len(text[j]) : disk'[j].data = Copy!Upto(j, i)
                         /\ disk'[j].state = "closed"
                            => disk'[j].data = Copy!Upto(j, Len(text[j]))
      BY <3>1 DEF Copy!Faithful, Copy!Upto
    <3>2. CASE j = k BY <1>4, <2>1, <3>2
    <3>3. CASE j # k BY <1>1, <2>1, <3>3 DEF Copy!Faithful
    <3>. QED BY <3>2, <3>3
  <2>4. Copy!OneOpen' BY <1>1, <1>4, <2>1 DEF Copy!OneOpen
  <2>5. \A j \in File : Len(disk[j].data) \in Nat BY <1>1, <1>2
  <2>6. Copy!NothingLost BY <1>1, <1>4, <2>1, <2>2, <2>5 DEF Copy!NothingLost
  <2>. QED BY <2>3, <2>4, <2>6
<1>5. ASSUME NEW k \in File, UNCHANGED text, Copy!Create(k)
      PROVE  Copy!Faithful' /\ Copy!OneOpen' /\ Copy!NothingLost
  <2>. DEFINE r == [disk[k] EXCEPT !.state = "open"]
  <2>1. /\ disk' = [disk EXCEPT ![k] = r] /\ r \in Copies /\ r.state = "open"
        /\ r.data = disk[k].data /\ disk[k].state = "absent"
        /\ \A j \in File : disk[j].state # "open"
    BY <1>1, <1>5 DEF Copy!Create
  <2>2. PICK n \in 0..Len(text[k]) : disk[k].data = Copy!Upto(k, n) /\ Len(disk[k].data) = n
    BY <1>2
  <2>3. Len(disk[k].data) <= n BY <1>1, <2>2
  <2>. HIDE DEF r
  <2>. QED BY <1>4, <1>5, <2>1, <2>2, <2>3
<1>6. ASSUME NEW k \in File, UNCHANGED text, Copy!Grow(k)
      PROVE  Copy!Faithful' /\ Copy!OneOpen' /\ Copy!NothingLost
  <2>1. PICK n \in (Len(disk[k].data) + 1)..Len(text[k]) :
          disk' = [disk EXCEPT ![k].data = Copy!Upto(k, n)]
    BY <1>6 DEF Copy!Grow
  <2>2. PICK o \in 0..Len(text[k]) : Len(disk[k].data) = o BY <1>2
  <2>3. n \in 0..Len(text[k]) /\ Len(disk[k].data) <= n BY <1>1, <2>1, <2>2
  <2>. DEFINE r == [disk[k] EXCEPT !.data = Copy!Upto(k, n)]
  <2>4. disk' = [disk EXCEPT ![k] = r] /\ disk'[k] = r BY <1>1, <2>1
  <2>5. r \in Copies BY <2>4 DEF TypeInv
  <2>6. r.state = "open" /\ r.data = Copy!Upto(k, n) /\ disk[k].state = "open"
    BY <1>1, <1>6 DEF Copy!Grow
  <2>7. \A j \in File \ {k} : disk[j].state # "open" BY <1>1, <2>6 DEF Copy!OneOpen
  <2>. HIDE DEF r
  <2>. QED BY <1>4, <1>6, <2>3, <2>4, <2>5, <2>6, <2>7
<1>7. ASSUME NEW k \in File, UNCHANGED text, Copy!Finish(k)
      PROVE  Copy!Faithful' /\ Copy!OneOpen' /\ Copy!NothingLost
  <2>. DEFINE r == [disk[k] EXCEPT !.state = "closed"]
              n == Len(text[k])
  <2>1. /\ disk' = [disk EXCEPT ![k] = r] /\ r \in Copies /\ r.state = "closed"
        /\ r.data = disk[k].data /\ disk[k].state = "open" /\ disk[k].data = Copy!Upto(k, n)
    <3>1. disk[k] = [state |-> "open", data |-> Copy!Upto(k, n)] BY <1>7 DEF Copy!Finish
    <3>2. r = [state |-> "closed", data |-> Copy!Upto(k, n)] BY <3>1
    <3>3. disk' = [disk EXCEPT ![k] = r] BY <1>7 DEF Copy!Finish
    <3>4. disk[k] \in Copies BY <1>1
    <3>. QED BY <3>1, <3>2, <3>3, <3>4
  <2>2. n \in Nat /\ n \in 0..n /\ Len(disk[k].data) = n /\ n <= n
    BY <1>1, <2>1, UptoLength
  <2>. HIDE DEF r
  <2>. QED BY <1>4, <1>7, <2>1, <2>2
<1>. QED BY <1>1, <1>3, <1>5, <1>6, <1>7 DEF Copy!Next

\* Over a channel that loses nothing, a file the receiver has closed is the sender's, what it
\* has of one that is open is a beginning, and it never gives up what it has.
THEOREM ClosedFilesAreWhole ==
  ASSUME MaxLost = 0, "NUL" \notin Char
  PROVE  Spec => [](Copy!Faithful /\ Copy!OneOpen) /\ [][Copy!NothingLost]_<< text, disk >>
<1>1. Spec => []TypeInv BY TypeInit, TypeStep, PTL DEF Spec
<1>2. Init => Copy!Faithful /\ Copy!OneOpen
  <2>. SUFFICES ASSUME Init PROVE Copy!Faithful /\ Copy!OneOpen
    OBVIOUS
  <2>1. TypeInv BY TypeInit
  <2>2. DOMAIN text = File /\ \A k \in File : Len(text[k]) \in Nat
    <3>. QED BY <2>1, TextLength DEF TypeInv
  <2>3. \A k \in File : disk[k].state = "absent" /\ disk[k].data = Copy!Upto(k, 0)
    BY DEF Init, Copy!Upto
  <2>4. \A k \in File : 0 \in 0..Len(text[k]) BY <2>2
  <2>. QED BY <2>2, <2>3, <2>4 DEF Copy!Faithful, Copy!OneOpen
<1>3. Spec => CopySpec BY SendingIsCopying
<1>. QED BY <1>1, <1>2, <1>3, RelyStep, PTL DEF Spec, CopySpec, Copy!Spec
=============================================================================
