------------------------- MODULE DataChannelLifetime -------------------------
(***************************************************************************)
(* What the wrapper promises about the data channels it hands out, without *)
(* saying how: a channel object is created, the library is told to call it *)
(* back, calls run on it one at a time, the library is told to stop, and   *)
(* only then is the object freed.  A call never runs on an object that is  *)
(* not attached, and no object is detached or freed under a running call.  *)
(***************************************************************************)

CONSTANTS Chan,      \* the data channels that may ever exist
          NoChan     \* "no call is running"

VARIABLES phase,     \* phase[c]: how far the life of channel c has come
          busy       \* the channel a call is running on, or NoChan

vars == << phase, busy >>

TypeOK ==
  /\ phase \in [Chan -> {"absent", "detached", "attached", "freed"}]
  /\ busy \in Chan \cup {NoChan}

Init ==
  /\ phase = [c \in Chan |-> "absent"]
  /\ busy = NoChan

MoveTo(c, from, to) ==
  /\ phase[c] = from
  /\ phase' = [phase EXCEPT ![c] = to]

\* A new object, not yet known to the library.
Create(c) == MoveTo(c, "absent", "detached") /\ UNCHANGED busy

\* A new object the library knows from the start: made inside a callback.
Accept(c) == busy = NoChan /\ MoveTo(c, "absent", "attached") /\ UNCHANGED busy

\* Attaching and detaching wait for a running call to return.
Attach(c) == busy = NoChan /\ MoveTo(c, "detached", "attached") /\ UNCHANGED busy
Detach(c) == busy = NoChan /\ MoveTo(c, "attached", "detached") /\ UNCHANGED busy

\* The library calls the object, and the call returns.
Call(c)   == busy = NoChan /\ phase[c] = "attached" /\ busy' = c /\ UNCHANGED phase
Return(c) == busy = c /\ busy' = NoChan /\ UNCHANGED phase

\* Only a detached object with no call running is freed.
Free(c)   == busy # c /\ MoveTo(c, "detached", "freed") /\ UNCHANGED busy

Next ==
  \E c \in Chan :
    \/ Create(c) \/ Accept(c) \/ Attach(c) \/ Detach(c)
    \/ Call(c) \/ Return(c) \/ Free(c)

Spec == Init /\ [][Next]_vars

-----------------------------------------------------------------------------
(* What a client may rely on                                               *)

\* A call runs on an attached object.
CallsOnAttached == busy # NoChan => phase[busy] = "attached"

\* The object of a running call stays as it is until the call returns.
NoneCutShort == busy # NoChan => phase'[busy] = phase[busy] /\ busy' \in {busy, NoChan}

\* A freed object is never used again.
FreedForGood == \A c \in Chan : phase[c] = "freed" => phase'[c] = "freed" /\ busy' # c
=============================================================================
