------------------------------ MODULE FileCopy ------------------------------
(***************************************************************************)
(* What sending files promises: the receiver makes one file at a time, its *)
(* text only ever grows along the sender's, and a file that is closed is   *)
(* whole.  Any step may stay away for good.                                *)
(***************************************************************************)
EXTENDS Naturals, Sequences

VARIABLES
  text,             \* text[k]: the sender's file k, a sequence of characters
  disk              \* disk[k]: the receiver's; its data says which characters of which file

\* The characters of file k up to and with the n-th.
Upto(k, n) == [p \in 1..n |-> << k, p >>]

Init == disk = [k \in DOMAIN text |-> [state |-> "absent", data |-> << >>]]

Create(k) ==
  /\ \A j \in DOMAIN text : disk[j].state # "open"
  /\ disk[k].state = "absent"
  /\ disk' = [disk EXCEPT ![k].state = "open"]

Grow(k) ==
  /\ disk[k].state = "open"
  /\ \E n \in (Len(disk[k].data) + 1)..Len(text[k]) :
       disk' = [disk EXCEPT ![k].data = Upto(k, n)]

Finish(k) ==
  /\ disk[k] = [state |-> "open", data |-> Upto(k, Len(text[k]))]
  /\ disk' = [disk EXCEPT ![k].state = "closed"]

Next == UNCHANGED text /\ \E k \in DOMAIN text : Create(k) \/ Grow(k) \/ Finish(k)

Spec == Init /\ [][Next]_<< text, disk >>

-----------------------------------------------------------------------------
(* What the owner of the files may rely on                                 *)

\* What has been received of a file is a beginning of it, and all of it once it is closed.
Faithful ==
  \A k \in DOMAIN text :
    /\ \E n \in 0..Len(text[k]) : disk[k].data = Upto(k, n)
    /\ disk[k].state = "closed" => disk[k].data = Upto(k, Len(text[k]))

\* No more than one file is being received.
OneOpen ==
  \A j, k \in DOMAIN text : disk[j].state = "open" /\ disk[k].state = "open" => j = k

\* Nothing received is lost again, and a closed file is left alone.
NothingLost ==
  \A k \in DOMAIN text : /\ Len(disk[k].data) <= Len(disk'[k].data)
                         /\ disk[k].state = "closed" => disk'[k] = disk[k]
=============================================================================
