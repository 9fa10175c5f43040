---------------------------- MODULE FileTransfer ----------------------------
(***************************************************************************)
(* The files of an upload over librtcdc: uv_client_upload, on a libuv      *)
(* worker, cuts every file the receiver lacks into packets; the message    *)
(* callback of the other side puts them together again.  Packet 0 carries  *)
(* a file's name, the packets after it what fgets reads, packet -1 ends it.*)
(*                                                                         *)
(* A character is known by the file it comes from and its position there,  *)
(* and a file's name is its number.                                        *)
(***************************************************************************)
EXTENDS Integers, Sequences, FiniteSetsExt

CONSTANTS
  Char,             \* kinds of characters, "newline" and "NUL" among them or not
  SCTP_BUF_SIZE,    \* room for a packet's characters and the NUL behind them
  NumFiles,         \* bound: files_num
  MaxText,          \* bound: characters of a file
  MaxLost           \* bound: packets that rtcdc_send_message does not send

ASSUME TransferAssumption ==
  /\ SCTP_BUF_SIZE \in Nat /\ SCTP_BUF_SIZE > 1
  /\ NumFiles \in Nat /\ MaxText \in Nat /\ MaxLost \in Nat

VARIABLES
  text,             \* text[k]: the characters of file k
  dirty,            \* files_diff
  sender,           \* the worker: queued, between files, in a file, done or crashed
  file,             \* the file it is at
  read,             \* characters it has read of it
  packet_index,
  lost,             \* packets not sent, though the worker goes on
  wire,             \* packets sent and not yet received
  loop,             \* the rtcdc loop that carries them runs
  pFILE,            \* the receiver's static handle: 0 (NULL), a file, or -1 when closed
  disk,             \* the receiver's files
  receiver          \* up or crashed

fileVars == << text, dirty >>
sendVars == << sender, file, read, packet_index, lost, loop >>
recvVars == << pFILE, disk, receiver >>
vars == << fileVars, sendVars, wire, recvVars >>

File == 1..NumFiles
FILEstatus == {"FILE_CLEAN", "FILE_CLIENT_LACK", "FILE_FS_LACK", "FILE_DIRTY"}

Copy == INSTANCE FileCopy

TypeOK ==
  /\ text \in [File -> UNION {[1..n -> Char] : n \in 0..MaxText}]
  /\ dirty \in [File -> FILEstatus]
  /\ sender \in {"queued", "next", "inside", "done", "crashed"}
  /\ file \in 1..(NumFiles + 1)
  /\ read \in 0..MaxText
  /\ packet_index \in 0..MaxText
  /\ lost \in 0..MaxLost
  /\ \A i \in DOMAIN wire : /\ wire[i].index \in -1..MaxText
                            /\ Len(wire[i].buf) < SCTP_BUF_SIZE
  /\ loop \in BOOLEAN
  /\ pFILE \in -1..NumFiles
  /\ \A k \in File : disk[k].state \in {"absent", "open", "closed"}
  /\ receiver \in {"up", "crashed"}

Init ==
  /\ text \in [File -> UNION {[1..n -> Char] : n \in 0..MaxText}]
  /\ dirty \in [File -> FILEstatus]
  /\ sender = "queued" /\ file = 1 /\ read = 0 /\ packet_index = 0 /\ lost = 0
  /\ wire = << >> /\ loop = TRUE
  /\ pFILE = 0 /\ receiver = "up"
  /\ disk = [k \in File |-> [state |-> "absent", data |-> << >>]]

-----------------------------------------------------------------------------
(* uv_client_upload                                                        *)

\* rtcdc_send_message, whose result is not looked at.
Send(packet) ==
  \/ wire' = Append(wire, packet) /\ UNCHANGED lost
  \/ lost < MaxLost /\ lost' = lost + 1 /\ UNCHANGED wire

\* The work was queued by its address on the stack of on_open, which has returned.
Begin ==
  /\ sender = "queued"
  /\ sender' \in {"next", "crashed"}
  /\ UNCHANGED << fileVars, file, read, packet_index, lost, loop, wire, recvVars >>

\* The receiver lacks file k, or has another version.
Lacks(k) == dirty[k] \in {"FILE_FS_LACK", "FILE_DIRTY"}

\* A file that need not or cannot be sent.
SkipFile ==
  /\ sender = "next" /\ file <= NumFiles
  /\ file' = file + 1
  /\ UNCHANGED << fileVars, sender, read, packet_index, lost, loop, wire, recvVars >>

SendName ==
  /\ sender = "next" /\ file <= NumFiles /\ Lacks(file)
  /\ Send([index |-> 0, buf |-> << file >>])
  /\ sender' = "inside" /\ read' = 0 /\ packet_index' = 0
  /\ UNCHANGED << fileVars, file, loop, recvVars >>

\* The last character fgets takes: of the line, of the buffer or of the file.
LineEnd ==
  Min({read + SCTP_BUF_SIZE - 1, Len(text[file])} \cup
      {p \in (read + 1)..Len(text[file]) : text[file][p] = "newline"})

\* strlen: what is before the first NUL.
Measured ==
  Min({LineEnd + 1} \cup {p \in (read + 1)..LineEnd : text[file][p] = "NUL"}) - 1

\* Mutant: the whole buffer is filled, and what the final NUL replaces is lost.
SendTooMuch ==
  LET last == Min({read + SCTP_BUF_SIZE, Len(text[file])}) IN
  /\ sender = "inside" /\ read < Len(text[file])
  /\ Send([index |-> packet_index + 1,
           buf |-> [p \in 1..Min({last - read, SCTP_BUF_SIZE - 1}) |-> << file, read + p >>]])
  /\ read' = last /\ packet_index' = packet_index + 1
  /\ UNCHANGED << fileVars, sender, file, loop, recvVars >>

\* Mutant: the NUL behind the characters is not counted.
SendTooLong ==
  LET last == Min({read + SCTP_BUF_SIZE, Len(text[file])}) IN
  /\ sender = "inside" /\ read < Len(text[file])
  /\ Send([index |-> packet_index + 1,
           buf |-> [p \in 1..(last - read) |-> << file, read + p >>]])
  /\ read' = last /\ packet_index' = packet_index + 1
  /\ UNCHANGED << fileVars, sender, file, loop, recvVars >>

SendBuf ==
  /\ sender = "inside" /\ read < Len(text[file])
  /\ Send([index |-> packet_index + 1,
           buf |-> [p \in 1..(Measured - read) |-> << file, read + p >>]])
  /\ read' = LineEnd /\ packet_index' = packet_index + 1
  /\ UNCHANGED << fileVars, sender, file, loop, recvVars >>

SendEnd ==
  /\ sender = "inside" /\ read = Len(text[file])
  /\ Send([index |-> -1, buf |-> << >>])
  /\ sender' = "next" /\ file' = file + 1
  /\ UNCHANGED << fileVars, read, packet_index, loop, recvVars >>

Finish ==
  /\ sender = "next" /\ file > NumFiles
  /\ sender' = "done"
  /\ UNCHANGED << fileVars, file, read, packet_index, lost, loop, wire, recvVars >>

\* exit_thread: the loop ends, with what it still has to carry.
Stop ==
  /\ sender = "done" /\ loop
  /\ loop' = FALSE
  /\ UNCHANGED << fileVars, sender, file, read, packet_index, lost, wire, recvVars >>

-----------------------------------------------------------------------------
(* download_client_on_message                                              *)

Receives(indices) ==
  /\ receiver = "up" /\ loop /\ wire # << >>
  /\ Head(wire).index \in indices
  /\ wire' = Tail(wire)
  /\ UNCHANGED << fileVars, sendVars >>

OnName ==
  /\ Receives({0})
  /\ LET k == Head(wire).buf[1] IN
     \/ pFILE' = k /\ disk' = [disk EXCEPT ![k] = [state |-> "open", data |-> << >>]]
     \/ pFILE' = 0 /\ UNCHANGED disk
  /\ UNCHANGED receiver

\* fwrite and fclose need an open file: NULL ends the process, a closed handle may.
Misuse == receiver' = "crashed" \/ (pFILE = -1 /\ UNCHANGED receiver)

OnBuf ==
  /\ Receives(1..MaxText)
  /\ \/ pFILE \in File /\ UNCHANGED receiver
        /\ disk' = [disk EXCEPT ![pFILE].data = @ \o Head(wire).buf]
     \/ pFILE \notin File /\ Misuse /\ UNCHANGED disk
  /\ UNCHANGED pFILE

\* Mutant: the file is flushed and its handle stays as it was.
OnEndFlush ==
  /\ Receives({-1})
  /\ \/ pFILE \in File /\ UNCHANGED << pFILE, receiver >>
        /\ disk' = [disk EXCEPT ![pFILE].state = "closed"]
     \/ pFILE \notin File /\ Misuse /\ UNCHANGED << pFILE, disk >>

OnEnd ==
  /\ Receives({-1})
  /\ \/ pFILE \in File /\ pFILE' = -1 /\ UNCHANGED receiver
        /\ disk' = [disk EXCEPT ![pFILE].state = "closed"]
     \/ pFILE \notin File /\ Misuse /\ UNCHANGED << pFILE, disk >>

-----------------------------------------------------------------------------
\* Nothing is left to do, or nobody to do it.
Over ==
  /\ sender = "crashed" \/ (sender = "done" /\ ~loop)
  /\ UNCHANGED vars

Worker == Begin \/ SkipFile \/ SendName \/ SendBuf \/ SendEnd \/ Finish

OnMessage == OnName \/ OnBuf \/ OnEnd

Next == Worker \/ Stop \/ OnMessage \/ Over

Spec == Init /\ [][Next]_vars

-----------------------------------------------------------------------------
(* Properties                                                              *)

\* While no packet is lost and no text holds a NUL, sending files is copying files: one
\* at a time, each along its source, and whole when it is closed.
CopySpec == Copy!Spec

\* The characters of a file on the receiver's disk are its own and in their order, even
\* when one packet of all is lost: the text of a file never ends up in another.
NeverMixed ==
  \A k \in File : \A i, j \in DOMAIN disk[k].data :
    /\ disk[k].data[i][1] = k
    /\ i < j => disk[k].data[i][2] < disk[k].data[j][2]
=============================================================================
