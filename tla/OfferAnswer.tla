----------------------------- MODULE OfferAnswer -----------------------------
(***************************************************************************)
(* What signaling promises a client: each request it sends is handed       *)
(* answers made for that very request, and none that was not made.  An     *)
(* answer may be sent more than once; each sending is handed over at most  *)
(* once, and perhaps never.                                                *)
(***************************************************************************)
EXTENDS Naturals, Sequences

CONSTANTS Request,  \* the requests clients may send
          Sending   \* numbers the sendings of one answer, from 1

VARIABLES asked,    \* the requests that were sent
          made,     \* made[r]: how often the answer to r was sent
          got       \* got[r]: what r was handed, in order

vars == << asked, made, got >>

Answers == [offer : Request, n : Sending]

TypeOK ==
  /\ asked \subseteq Request
  /\ made \in [Request -> Sending \cup {0}]
  /\ got \in [Request -> Seq(Answers)]

Handed(r) == {got[r][i] : i \in DOMAIN got[r]}

Init ==
  /\ asked = {}
  /\ made = [r \in Request |-> 0]
  /\ got = [r \in Request |-> << >>]

\* The client sends its offer.
Ask(r) ==
  /\ r \notin asked
  /\ asked' = asked \cup {r}
  /\ UNCHANGED << made, got >>

\* A file server answers it.
Answer(r) ==
  /\ r \in asked /\ made[r] + 1 \in Sending
  /\ made' = [made EXCEPT ![r] = @ + 1]
  /\ UNCHANGED << asked, got >>

\* The client gets an answer.
Deliver(r, n) ==
  /\ n <= made[r] /\ [offer |-> r, n |-> n] \notin Handed(r)
  /\ got' = [got EXCEPT ![r] = Append(@, [offer |-> r, n |-> n])]
  /\ UNCHANGED << asked, made >>

Next == \E r \in Request : Ask(r) \/ Answer(r) \/ \E n \in Sending : Deliver(r, n)

Spec == Init /\ [][Next]_vars

-----------------------------------------------------------------------------
(* What a client may rely on                                               *)

\* Only what was asked is answered, and what a request was handed are answers to it
\* that had been sent.
OwnAnswer ==
  \A r \in Request : /\ made[r] # 0 => r \in asked
                     /\ \A a \in Handed(r) : a.offer = r /\ a.n <= made[r]

\* A sending is handed over once; so no request gets more answers than were sent.
NothingTwice ==
  \A r \in Request : \A i, j \in DOMAIN got[r] : got[r][i] = got[r][j] => i = j
=============================================================================
