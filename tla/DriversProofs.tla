--------------------------- MODULE DriversProofs ---------------------------
(***************************************************************************)
(* Proofs about Drivers, for any burst and any number of typed lines.      *)
(***************************************************************************)
EXTENDS Drivers, SequenceTheorems, TLAPS

\* Where a program is before it has a peer.
Early(s) == at[s] \in {"start", "init", "factory", "peer"}

Places == {"start", "init", "factory", "peer", "offer", "describe", "truncate", "write",
           "enter", "read", "answer", "enter2", "burst", "input", "linger", "destroy",
           "dispose", "stop", "exit", "exited", "crashed"}

\* What comes after a call in a program.
Follows(p, q) ==
  /\ q \in Places /\ q # "start"
  /\ (q \in {"init", "factory", "peer"}) => p \in {"start", "init", "factory"}
  /\ (p \in {"start", "init", "factory", "dispose", "stop", "exit", "exited", "crashed"})
       => q \in {"init", "factory", "peer", "stop", "exit", "exited", "crashed"}
  /\ p = "destroy" => q = "dispose"
  /\ q = "factory" => p = "init"
  /\ q = "stop" => p = "dispose"
  /\ q = "truncate" => p = "describe"
  /\ q = "write" => p = "truncate"

\* The types of the programs' own variables.  There is a copy to write.
CallsInv ==
  /\ at \in [Side -> Places]
  /\ factory \in [Side -> {"NULL", "held", "leaked"}]
  /\ signal \in [Side -> {"none", "running", "deleted"}]
  /\ file \in [Side -> Texts \cup {"absent"}]
  /\ local \in [Side -> {"none", "asked", "stale", "bare", "full", "long"}]
  /\ copy \in [Side -> {"none", "stale", "bare", "full", "long"}]
  /\ \A s \in Side : at[s] \in {"truncate", "write"} => copy[s] # "none"
  /\ remote \in [Side -> {"none", "stale", "bare", "full"}]
  /\ eof \in [Side -> BOOLEAN] /\ hasty \in BOOLEAN

\* The types of the channels' variables.
ChannelInv ==
  /\ handler \in [Side -> BOOLEAN]
  /\ channel \in [Side -> {"none", "connecting", "open", "closed"}]
  /\ wired \in [Side -> BOOLEAN]
  /\ \A s \in Side : /\ sends[s] \in 0..(Burst + MaxLines)
                     /\ wire[s] \in Seq(0..sends[s])
                     /\ taken[s] \in Seq(1..sends[s]) /\ got[s] \in Seq(1..sends[s])
  /\ sends \in [Side -> Nat]
  /\ wire \in [Side -> Seq(Nat)] /\ taken \in [Side -> Seq(Nat)] /\ got \in [Side -> Seq(Nat)]

TypeInv == CallsInv /\ ChannelInv

\* What is on the wire of s, when the other program hears it, follows what has been heard.
Continues(s) ==
  IF wired[s]
  THEN \A p \in 1..Len(wire[s]) :
         Len(got[s]) + p <= Len(taken[s]) /\ wire[s][p] = taken[s][Len(got[s]) + p]
  ELSE /\ got[s] = << >>
       /\ wire[s] # << >> => wire[s][1] = 0
       /\ \A p \in 2..Len(wire[s]) : p - 1 <= Len(taken[s]) /\ wire[s][p] = taken[s][p - 1]

\* The last message that was taken is the last on the wire, or has been heard.
UpToDate(s) ==
  IF wired[s] THEN Len(got[s]) + Len(wire[s]) = Len(taken[s])
  ELSE Len(wire[s]) = Len(taken[s]) + 1

\* Nothing has come out of the channel, or is on its way.
Quiet(s) == wire[s] = << >> /\ got[s] = << >> /\ ~wired[s]

\* Channel s: how far it is, who has what, and what has been heard.
WireOf(s) ==
  /\ Live(s) => handler[s]
  /\ Early(s) => channel[s] = "none"
  /\ channel[s] \in {"none", "connecting"} => Quiet(s) /\ taken[s] = << >>
  /\ Early(Other[s]) => Quiet(s) /\ channel[s] # "open"
  /\ Live(Other[s]) => Continues(s)
  /\ Live(Other[s]) /\ channel[s] = "open" => UpToDate(s)
  /\ Len(got[s]) <= Len(taken[s]) /\ \A p \in 1..Len(got[s]) : got[s][p] = taken[s][p]

WireInv == \A s \in Side : WireOf(s)

-----------------------------------------------------------------------------
(* Types                                                                   *)

\* There are two programs.
LEMMA Others ==
  ASSUME NEW s \in Side
  PROVE  /\ Other[s] \in Side /\ Other[s] # s /\ Other[Other[s]] = s
         /\ \A r \in Side : r = s \/ r = Other[s]
BY DEF Side, Other

\* The next call of a program.
LEMMA NextCall ==
  ASSUME NEW s \in Side, Proceed(s)
  PROVE  \E q : Goto(s, q) /\ Follows(at[s], q)
<1>0. PICK program \in Programs(s) :
        \E n \in 1..(Len(program) - 1) : program[n] = at[s] /\ Goto(s, program[n + 1])
  BY DEF Proceed
<1>1. PICK n \in 1..(Len(program) - 1) : program[n] = at[s] /\ Goto(s, program[n + 1])
  BY <1>0
<1>2. Follows(program[n], program[n + 1])
  <2>1. CASE program = AnswerCalls
    <3>1. n \in 1..14 BY <2>1 DEF AnswerCalls
    <3>. QED BY <2>1, <3>1 DEF Follows, Places, AnswerCalls
  <2>2. CASE program = BurstCalls
    <3>1. n \in 1..17 BY <2>2 DEF BurstCalls
    <3>. QED BY <2>2, <3>1 DEF Follows, Places, BurstCalls
  <2>3. CASE program = TypedCalls
    <3>1. n \in 1..15 BY <2>3 DEF TypedCalls
    <3>. QED BY <2>3, <3>1 DEF Follows, Places, TypedCalls
  <2>. QED BY <1>1, <2>1, <2>2, <2>3 DEF Programs
<1>. QED BY <1>1, <1>2

\* The programs' own variables have their types when nothing has been called.
LEMMA CallsInit == Init => CallsInv
<1>. SUFFICES ASSUME Init PROVE CallsInv
  OBVIOUS
<1>1. eof \in [Side -> BOOLEAN] /\ hasty \in BOOLEAN BY DEF Init
<1>2. file \in [Side -> Texts \cup {"absent"}] BY DEF Init, Texts
<1>. QED BY <1>1, <1>2 DEF Init, CallsInv, Places

\* A program that goes on, or crashes.
LEMMA Moves ==
  ASSUME CallsInv, NEW s \in Side, Proceed(s) \/ Crash(s)
  PROVE  /\ at' \in [Side -> Places] /\ \A r \in Side \ {s} : at'[r] = at[r]
         /\ at'[s] = "crashed" \/ Follows(at[s], at'[s])
<1>1. at \in [Side -> Places] BY DEF CallsInv
<1>2. PICK q : Goto(s, q) /\ (q = "crashed" \/ Follows(at[s], q))
  BY NextCall DEF Crash
<1>3. q \in Places BY <1>2 DEF Follows, Places
<1>. QED BY <1>1, <1>2, <1>3 DEF Goto

\* Every step has its program go on, crash or stay.
LEMMA AtStep ==
  ASSUME CallsInv, NEW s \in Side, Run(s) \/ Person(s) \/ Applied(s) \/ Network(s) \/ Spin(s)
  PROVE  Proceed(s) \/ Crash(s) \/ UNCHANGED at
BY DEF Run, Person, Network, Start, LibInit, Peer, Dispose, Destroy, Exit, Kill, Ask, Applied,
       Describe, Truncate, Write, Enter, Read, Opens, Deliver, Closes, SendBurst, Send, Linger,
       SendLine, Quit, EndOfInput, Spin, vars

\* Each step keeps the types of the programs' own variables.
LEMMA CallsStep == CallsInv /\ [Next]_vars => CallsInv'
<1>. SUFFICES ASSUME CallsInv, [Next]_vars PROVE CallsInv'
  OBVIOUS
<1>. USE DEF utilVars, textVars, chanVars
<1>1. ASSUME NEW s \in Side, Run(s) \/ Person(s) \/ Applied(s) \/ Network(s) \/ Spin(s)
      PROVE  CallsInv'
  <2>1. at' \in [Side -> Places]
    <3>1. Proceed(s) \/ Crash(s) \/ UNCHANGED at BY <1>1, AtStep
    <3>. QED BY <3>1, Moves DEF CallsInv
  <2>2. \/ UNCHANGED << factory, signal >>
        \/ LibInit(s) \/ Dispose(s)
    BY <1>1
    DEF Run, Person, Network, Start, Peer, Destroy, Exit, Kill, Ask, Applied,
        Describe, Truncate, Write, Enter, Read, Opens, Deliver, Closes, SendBurst, Send, Linger,
        SendLine, Quit, EndOfInput, Spin, vars
  <2>3. /\ factory' \in [Side -> {"NULL", "held", "leaked"}]
        /\ signal' \in [Side -> {"none", "running", "deleted"}]
    BY <2>2 DEF LibInit, Dispose, CallsInv
  <2>4. \/ UNCHANGED << file, copy, remote, local >>
        \/ Ask(s) \/ Applied(s) \/ Describe(s) \/ Truncate(s) \/ Write(s) \/ Read(s)
    BY <1>1
    DEF Run, Person, Network, Start, LibInit, Dispose, Peer, Destroy, Exit, Kill, Enter, Opens,
        Deliver, Closes, SendBurst, Send, Linger, SendLine, Quit, EndOfInput, Spin, vars
  <2>5. local' \in [Side -> {"none", "asked", "stale", "bare", "full", "long"}]
    BY <2>4 DEF Ask, Applied, Describe, Truncate, Write, Read, CallsInv
  <2>6. copy' \in [Side -> {"none", "stale", "bare", "full", "long"}]
    BY <2>4 DEF Ask, Applied, Describe, Truncate, Write, Read, CallsInv
  <2>7. remote' \in [Side -> {"none", "stale", "bare", "full"}]
    <3>1. CASE Read(s)
      <4>1. file[Other[s]] \in Texts \cup {"absent"} BY Others DEF CallsInv
      <4>2. \/ UNCHANGED remote
            \/ \E text \in Texts :
                 remote' = [remote EXCEPT ![s] = IF text \in {"empty", "long"} THEN "none" ELSE text]
        BY <3>1, <4>1 DEF Read, Texts
      <4>. QED BY <4>2 DEF CallsInv, Texts
    <3>. QED BY <2>4, <3>1 DEF Ask, Applied, Describe, Truncate, Write, CallsInv
  <2>8. file' \in [Side -> Texts \cup {"absent"}]
    <3>1. CASE Write(s)
      <4>1. copy[s] \in Texts BY <3>1 DEF Write, CallsInv, Texts
      <4>. QED BY <3>1, <4>1 DEF Write, CallsInv
    <3>. QED BY <2>4, <3>1 DEF Ask, Applied, Describe, Truncate, Read, CallsInv, Texts
  <2>9. ASSUME NEW r \in Side, at'[r] \in {"truncate", "write"} PROVE copy'[r] # "none"
    <3>1. CASE at'[r] = at[r]
      <4>1. copy[r] # "none" BY <2>9, <3>1 DEF CallsInv
      <4>. QED BY <2>4, <3>1, <4>1 DEF Ask, Applied, Describe, Truncate, Write, Read, CallsInv
    <3>2. CASE at'[r] # at[r]
      <4>1. r = s /\ Follows(at[s], at'[s]) /\ (Proceed(s) \/ Crash(s))
        BY <1>1, <2>9, <3>2, AtStep, Moves
      <4>2. at[s] \in {"describe", "truncate"} BY <2>9, <4>1 DEF Follows
      <4>3. at'[s] # at[s] /\ at'[s] # "crashed" BY <2>9, <3>2, <4>1
      <4>4. ~Crash(s) /\ ~(UNCHANGED at) BY <4>3 DEF Crash, Goto, CallsInv
      <4>5. Describe(s) \/ Truncate(s)
        BY <1>1, <4>2, <4>4
        DEF Run, Person, Network, Start, LibInit, Dispose, Peer, Ask, Destroy, Exit, Kill, Enter,
            Applied, Write, Read, Opens, Deliver, Closes, SendBurst, Linger, SendLine, Quit,
            EndOfInput, Spin, vars
      <4>6. CASE Describe(s)
        <5>1. copy' = [copy EXCEPT ![s] = local[s]] /\ local[s] # "none"
          BY <4>4, <4>6 DEF Describe
        <5>. QED BY <4>1, <5>1 DEF CallsInv
      <4>7. CASE Truncate(s) BY <4>1, <4>7 DEF Truncate, CallsInv
      <4>. QED BY <4>5, <4>6, <4>7
    <3>. QED BY <3>1, <3>2
  <2>10. eof' \in [Side -> BOOLEAN] /\ hasty' \in BOOLEAN
    <3>1. eof \in [Side -> BOOLEAN] /\ hasty \in BOOLEAN BY DEF CallsInv
    <3>2. eof' = eof \/ eof' = [eof EXCEPT ![s] = TRUE]
      BY <1>1
      DEF Run, Person, Network, Start, LibInit, Dispose, Peer, Ask, Destroy, Exit, Kill, Enter,
          Applied, Describe, Truncate, Write, Read, Opens, Deliver, Closes, SendBurst, Send,
          Linger, SendLine, Quit, EndOfInput, Spin, vars
    <3>3. \/ hasty' = hasty
          \/ hasty' = (hasty \/ (s = "A" /\ at["O"] # "enter"))
          \/ hasty' = (hasty \/ (at[s] = "enter" /\ at["A"] # "input"))
      BY <1>1
      DEF Run, Person, Network, Start, LibInit, Dispose, Peer, Ask, Destroy, Exit, Kill, Enter,
          Applied, Describe, Truncate, Write, Read, Opens, Deliver, Closes, SendBurst, Send,
          Linger, SendLine, Quit, EndOfInput, Spin, vars
    <3>4. hasty' \in BOOLEAN BY <3>1, <3>3
    <3>. QED BY <3>1, <3>2, <3>4
  <2>. QED BY <2>1, <2>3, <2>5, <2>6, <2>7, <2>8, <2>9, <2>10 DEF CallsInv
<1>2. CASE UNCHANGED vars BY <1>2 DEF CallsInv, vars
<1>. QED BY <1>1, <1>2 DEF Next, Over

\* The steps that are about channels.
LEMMA ChannelSteps ==
  ASSUME NEW s \in Side, Run(s) \/ Person(s) \/ Applied(s) \/ Network(s) \/ Spin(s)
  PROVE  \/ UNCHANGED chanVars
         \/ Peer(s) \/ Destroy(s) \/ Kill(s) \/ Opens(s) \/ Deliver(s) \/ Closes(s)
         \/ Send(s) /\ UNCHANGED at /\ (sends[s] < Burst \/ sends[s] < MaxLines)
BY DEF Run, Person, Network, Start, LibInit, Dispose, Ask, Exit, Enter, Applied, Describe,
       Truncate, Write, Read, SendBurst, Linger, SendLine, Quit, EndOfInput, Spin, vars, chanVars

\* The channels' variables have their types when there is no channel.
LEMMA ChannelInit == Init => ChannelInv
<1>. SUFFICES ASSUME Init PROVE ChannelInv
  OBVIOUS
<1>1. Burst + MaxLines \in Nat BY DriversAssumption DEF DriversAssumption
<1>2. /\ handler \in [Side -> BOOLEAN] /\ wired \in [Side -> BOOLEAN] BY DEF Init
<1>3. /\ wire \in [Side -> Seq(Nat)] /\ taken \in [Side -> Seq(Nat)]
      /\ got \in [Side -> Seq(Nat)]
      /\ \A s \in Side : /\ sends[s] \in 0..(Burst + MaxLines)
                         /\ wire[s] \in Seq(0..sends[s])
                         /\ taken[s] \in Seq(1..sends[s]) /\ got[s] \in Seq(1..sends[s])
  BY <1>1 DEF Init
<1>. QED BY <1>2, <1>3 DEF Init, ChannelInv

\* A sequence over a set is one over a larger set.
LEMMA SeqGrows ==
  ASSUME NEW S, NEW T, S \subseteq T
  PROVE  Seq(S) \subseteq Seq(T)
OBVIOUS

\* The beginning of a sequence.
LEMMA Beginning ==
  ASSUME NEW S, NEW q \in Seq(S), NEW n \in 0..Len(q)
  PROVE  /\ SubSeq(q, 1, n) \in Seq(S) /\ Len(SubSeq(q, 1, n)) = n
         /\ \A p \in 1..n : SubSeq(q, 1, n)[p] = q[p]
<1>1. Len(q) \in Nat /\ 1 \in 1..(Len(q) + 1) /\ n \in (1 - 1)..Len(q) /\ n \in Nat OBVIOUS
<1>2. /\ SubSeq(q, 1, n) \in Seq(S) /\ Len(SubSeq(q, 1, n)) = n - 1 + 1
      /\ \A p \in 1..(n - 1 + 1) : SubSeq(q, 1, n)[p] = q[1 + p - 1]
  BY <1>1, SubSeqProperties
<1>3. n - 1 + 1 = n /\ \A p \in 1..n : 1 + p - 1 = p BY <1>1
<1>. QED BY <1>2, <1>3

\* Each step keeps the types of the channels' variables.
LEMMA ChannelStep == ChannelInv /\ [Next]_vars => ChannelInv'
<1>. SUFFICES ASSUME ChannelInv, [Next]_vars PROVE ChannelInv'
  OBVIOUS
<1>. USE DEF chanVars
<1>0. /\ Burst \in Nat /\ MaxLines \in Nat
      /\ wire \in [Side -> Seq(Nat)] /\ taken \in [Side -> Seq(Nat)] /\ got \in [Side -> Seq(Nat)]
      /\ sends \in [Side -> Nat]
      /\ \A s \in Side : sends[s] \in 0..(Burst + MaxLines)
  BY DriversAssumption DEF DriversAssumption, ChannelInv
<1>1. ASSUME NEW s \in Side, Run(s) \/ Person(s) \/ Applied(s) \/ Network(s) \/ Spin(s)
      PROVE  ChannelInv'
  <2>1. CASE UNCHANGED chanVars BY <2>1 DEF ChannelInv
  <2>2. CASE Peer(s) \/ Closes(s) BY <2>2 DEF Peer, Closes, ChannelInv
  <2>3. CASE Destroy(s) \/ Kill(s) \/ Opens(s)
    <3>1. \A n \in 0..Len(wire[s]) : SubSeq(wire[s], 1, n) \in Seq(0..sends[s])
      <4>1. wire[s] \in Seq(0..sends[s]) BY DEF ChannelInv
      <4>. QED BY <4>1, Beginning
    <3>2. /\ wire' \in [Side -> Seq(Nat)]
          /\ \A r \in Side : wire'[r] = wire[r] \/ wire'[r] \in Seq(0..sends[r])
      <4>1. \A r \in Side : << >> \in Seq(0..sends[r]) /\ << 0 >> \in Seq(0..sends[r])
        BY <1>0
      <4>2. CASE Destroy(s)
        <5>1. PICK n \in 0..Len(wire[s]) :
                wire' = [wire EXCEPT ![s] = SubSeq(@, 1, n), ![Other[s]] = << >>]
          BY <4>2 DEF Destroy
        <5>2. DOMAIN wire' = Side BY <1>0, <5>1
        <5>3. wire'[Other[s]] = << >> /\ wire'[s] = SubSeq(wire[s], 1, n)
          BY <1>0, <5>1, Others, Zenon
        <5>4. \A r \in Side : wire'[r] \in Seq(0..sends[r]) 
          <6>1. SubSeq(wire[s], 1, n) \in Seq(0..sends[s]) BY <3>1
          <6>2. << >> \in Seq(0..sends[Other[s]]) BY <4>1, Others
          <6>. QED BY <5>3, <6>1, <6>2, Others
        <5>5. \A r \in Side : wire'[r] \in Seq(Nat)
          <6>1. \A r \in Side : 0..sends[r] \subseteq Nat BY <1>0
          <6>. QED BY <5>4, <6>1, SeqGrows
        <5>6. wire' = [r \in Side |-> wire'[r]] BY <1>0, <5>1
        <5>. QED BY <5>4, <5>5, <5>6
      <4>3. CASE Kill(s)
        <5>1. wire' = [r \in Side |-> << >>] BY <4>3 DEF Kill
        <5>2. << >> \in Seq(Nat) OBVIOUS
        <5>3. \A r \in Side : wire'[r] = << >> BY <5>1
        <5>. QED BY <4>1, <5>1, <5>2, <5>3, Zenon
      <4>4. CASE Opens(s)
        <5>1. wire' = [wire EXCEPT ![s] = << 0 >>] BY <4>4 DEF Opens
        <5>2. << 0 >> \in Seq(Nat) OBVIOUS
        <5>3. wire' \in [Side -> Seq(Nat)] BY <1>0, <5>1, <5>2
        <5>4. wire'[s] = << 0 >> /\ \A r \in Side \ {s} : wire'[r] = wire[r] BY <1>0, <5>1
        <5>. QED BY <4>1, <5>3, <5>4
      <4>. QED BY <2>3, <4>2, <4>3, <4>4
    <3>3. /\ channel' \in [Side -> {"none", "connecting", "open", "closed"}]
          /\ UNCHANGED << handler, wired, sends, taken, got >>
      BY <2>3 DEF Destroy, Kill, Opens, ChannelInv
    <3>. QED BY <3>2, <3>3 DEF ChannelInv
  <2>4. CASE Deliver(s)
    <3>1. /\ wire' = [wire EXCEPT ![s] = Tail(@)] /\ wire[s] # << >>
          /\ wired' = wired \/ wired' = [wired EXCEPT ![s] = handler[Other[s]]]
          /\ \/ got' = got
             \/ got' = [got EXCEPT ![s] = Append(@, Head(wire[s]))] /\ Head(wire[s]) # 0
          /\ UNCHANGED << handler, channel, sends, taken >>
      <4>1. CASE Head(wire[s]) = 0 BY <2>4, <4>1 DEF Deliver
      <4>2. CASE Head(wire[s]) # 0 /\ ~wired[s]
        <5>1. got' = [got EXCEPT ![s] = @] BY <2>4, <4>2 DEF Deliver
        <5>. QED BY <1>0, <2>4, <4>2, <5>1 DEF Deliver
      <4>3. CASE Head(wire[s]) # 0 /\ wired[s] BY <2>4, <4>3 DEF Deliver
      <4>. QED BY <4>1, <4>2, <4>3
    <3>2. wire[s] \in Seq(0..sends[s]) /\ got[s] \in Seq(1..sends[s]) BY DEF ChannelInv
    <3>3. Tail(wire[s]) \in Seq(0..sends[s]) /\ Head(wire[s]) \in 0..sends[s]
      BY <3>1, <3>2, HeadTailProperties
    <3>4. Head(wire[s]) # 0 => Append(got[s], Head(wire[s])) \in Seq(1..sends[s])
      <4>1. Head(wire[s]) # 0 => Head(wire[s]) \in 1..sends[s] BY <1>0, <3>3
      <4>. QED BY <3>2, <4>1, AppendProperties
    <3>5. 0..sends[s] \subseteq Nat /\ 1..sends[s] \subseteq Nat BY <1>0
    <3>6. /\ wire' \in [Side -> Seq(Nat)]
          /\ \A r \in Side : wire'[r] \in Seq(0..sends[r])
      <4>1. Tail(wire[s]) \in Seq(Nat) BY <3>3, <3>5, SeqGrows
      <4>. QED BY <1>0, <3>1, <3>3, <4>1 DEF ChannelInv
    <3>7. /\ got' \in [Side -> Seq(Nat)]
          /\ \A r \in Side : got'[r] \in Seq(1..sends[r])
      <4>1. Head(wire[s]) # 0 => Append(got[s], Head(wire[s])) \in Seq(Nat)
        <5>1. Seq(1..sends[s]) \subseteq Seq(Nat) BY <3>5, SeqGrows
        <5>. QED BY <3>4, <5>1
      <4>. QED BY <1>0, <3>1, <3>4, <4>1 DEF ChannelInv
    <3>8. wired' \in [Side -> BOOLEAN]
      <4>1. handler[Other[s]] \in BOOLEAN BY Others DEF ChannelInv
      <4>. QED BY <3>1, <4>1 DEF ChannelInv
    <3>. QED BY <3>1, <3>6, <3>7, <3>8 DEF ChannelInv
  <2>5. CASE Send(s) /\ (sends[s] < Burst \/ sends[s] < MaxLines)
    <3>. DEFINE k == sends[s] + 1
    <3>1. /\ sends' = [sends EXCEPT ![s] = k]
          /\ \/ UNCHANGED << wire, taken >>
             \/ wire' = [wire EXCEPT ![s] = Append(@, k)] /\ taken' = [taken EXCEPT ![s] = Append(@, k)]
          /\ UNCHANGED << handler, channel, wired, got >>
      BY <2>5 DEF Send
    <3>2. k \in 1..(Burst + MaxLines) /\ k \in 0..k /\ k \in 1..k /\ k \in Nat BY <1>0, <2>5
    <3>3. 0..sends[s] \subseteq 0..k /\ 1..sends[s] \subseteq 1..k /\ 0..k \subseteq Nat /\ 1..k \subseteq Nat
      BY <1>0
    <3>. HIDE DEF k
    <3>4. wire[s] \in Seq(0..k) /\ taken[s] \in Seq(1..k) /\ got[s] \in Seq(1..k)
      <4>1. wire[s] \in Seq(0..sends[s]) /\ taken[s] \in Seq(1..sends[s]) /\ got[s] \in Seq(1..sends[s])
        BY DEF ChannelInv
      <4>2. Seq(0..sends[s]) \subseteq Seq(0..k) /\ Seq(1..sends[s]) \subseteq Seq(1..k)
        BY <3>3, SeqGrows
      <4>. QED BY <4>1, <4>2
    <3>5. Append(wire[s], k) \in Seq(0..k) /\ Append(taken[s], k) \in Seq(1..k)
      BY <3>2, <3>4, AppendProperties
    <3>6. Append(wire[s], k) \in Seq(Nat) /\ Append(taken[s], k) \in Seq(Nat)
      <4>1. Seq(0..k) \subseteq Seq(Nat) /\ Seq(1..k) \subseteq Seq(Nat) BY <3>3, SeqGrows
      <4>. QED BY <3>5, <4>1
    <3>7. wire' \in [Side -> Seq(Nat)] /\ taken' \in [Side -> Seq(Nat)] BY <1>0, <3>1, <3>6
    <3>8. sends'[s] = k /\ \A r \in Side \ {s} : sends'[r] = sends[r]
      BY <1>0, <3>1
    <3>9. /\ wire'[s] \in Seq(0..k) /\ taken'[s] \in Seq(1..k)
          /\ \A r \in Side \ {s} : wire'[r] = wire[r] /\ taken'[r] = taken[r]
      BY <1>0, <3>1, <3>4, <3>5
    <3>10. sends' \in [Side -> Nat] /\ sends'[s] \in 0..(Burst + MaxLines)
      BY <1>0, <3>1, <3>2, <3>8
    <3>. QED BY <1>0, <3>1, <3>4, <3>7, <3>8, <3>9, <3>10 DEF ChannelInv
  <2>. QED BY <1>1, <2>1, <2>2, <2>3, <2>4, <2>5, ChannelSteps
<1>2. CASE UNCHANGED vars BY <1>2 DEF ChannelInv, vars
<1>. QED BY <1>1, <1>2 DEF Next, Over

\* Every variable has its type: no message is heard that was not sent.
THEOREM TypeCorrect == Spec => []TypeOK
<1>1. CallsInv /\ ChannelInv => TypeOK BY DEF CallsInv, ChannelInv, TypeOK, Places
<1>. QED BY <1>1, CallsInit, CallsStep, ChannelInit, ChannelStep, PTL DEF Spec

-----------------------------------------------------------------------------
(* What is heard                                                           *)

\* A program that has no peer yet gets one at its place only, and one that has none any
\* more gets none.
LEMMA LifeGoesOn ==
  ASSUME CallsInv, NEW s \in Side, Proceed(s) \/ Crash(s) \/ UNCHANGED at
  PROVE  \A r \in Side : /\ Early(r)' => Early(r)
                         /\ Live(r)' => Live(r) \/ (r = s /\ at[s] = "peer")
                         /\ r = s /\ at[s] = "destroy" /\ Proceed(s) => ~Live(r)'
                         /\ r = s /\ Crash(s) => ~Live(r)'
<1>1. at \in [Side -> Places] BY DEF CallsInv
<1>2. CASE UNCHANGED at
  <2>1. Proceed(s) => at[s] # "destroy"
    <3>1. ASSUME Proceed(s), at[s] = "destroy" PROVE FALSE
      <4>1. PICK q : Goto(s, q) /\ Follows(at[s], q) BY <3>1, NextCall
      <4>. QED BY <1>1, <1>2, <3>1, <4>1 DEF Goto, Follows
    <3>. QED BY <3>1
  <2>2. Crash(s) => at[s] = "crashed" BY <1>1, <1>2 DEF Crash, Goto
  <2>. QED BY <1>2, <2>1, <2>2 DEF Early, Live
<1>3. CASE Proceed(s) \/ Crash(s)
  <2>1. PICK q : Goto(s, q) /\ (q = "crashed" \/ Follows(at[s], q))
    BY <1>3, NextCall DEF Crash
  <2>2. at'[s] = q /\ \A r \in Side \ {s} : at'[r] = at[r] BY <1>1, <2>1 DEF Goto
  <2>3. Crash(s) => q = "crashed" BY <1>1, <2>2 DEF Crash, Goto
  <2>. QED BY <1>1, <2>1, <2>2, <2>3 DEF Early, Live, Follows, Places
<1>. QED BY <1>2, <1>3

\* A channel nobody touches.
LEMMA WireStays ==
  ASSUME NEW c \in Side, WireOf(c),
         handler'[c] = handler[c], channel'[c] = channel[c], wire'[c] = wire[c],
         wired'[c] = wired[c], taken'[c] = taken[c], got'[c] = got[c],
         Early(c)' => Early(c), Early(Other[c])' => Early(Other[c]),
         Live(c)' => Live(c), Live(Other[c])' => Live(Other[c])
  PROVE  WireOf(c)'
<1>1. /\ Quiet(c)' <=> Quiet(c)
      /\ Continues(c)' <=> Continues(c)
      /\ UpToDate(c)' <=> UpToDate(c)
  BY DEF Quiet, Continues, UpToDate
<1>. QED BY <1>1 DEF WireOf

\* The other program's channel, when s is gone: nobody hears it.
LEMMA WireUnheard ==
  ASSUME NEW c \in Side, WireOf(c),
         handler'[c] = handler[c], channel'[c] = channel[c], wire'[c] = << >>,
         wired'[c] = wired[c], taken'[c] = taken[c], got'[c] = got[c],
         Early(c)' => Early(c), ~Early(Other[c])', Live(c)' => Live(c), ~Live(Other[c])'
  PROVE  WireOf(c)'
BY DEF WireOf, Quiet

\* Sending on a channel that is open.
LEMMA WireSend ==
  ASSUME ChannelInv, NEW s \in Side, WireOf(s), Send(s), UNCHANGED at
  PROVE  WireOf(s)'
<1>. DEFINE k == sends[s] + 1
<1>1. CASE channel[s] # "open"
  <2>1. UNCHANGED << handler, channel, wire, wired, taken, got, at >>
    BY <1>1 DEF Send, chanVars
  <2>. QED BY <2>1, WireStays DEF Early, Live
<1>2. CASE channel[s] = "open"
  <2>0. wire[s] \in Seq(Nat) /\ taken[s] \in Seq(Nat) /\ got[s] \in Seq(Nat) /\ k \in Nat
        /\ wire \in [Side -> Seq(Nat)] /\ taken \in [Side -> Seq(Nat)]
    BY DEF ChannelInv
  <2>1. /\ UNCHANGED << handler, channel, wired, got, at >>
        /\ wire' = [wire EXCEPT ![s] = Append(@, k)]
        /\ taken' = [taken EXCEPT ![s] = Append(@, k)]
    BY <1>2 DEF Send, chanVars
  <2>. HIDE DEF k
  <2>2. wire'[s] = Append(wire[s], k) /\ taken'[s] = Append(taken[s], k) BY <2>0, <2>1
  <2>3. /\ Len(wire'[s]) = Len(wire[s]) + 1 /\ wire'[s][Len(wire[s]) + 1] = k
        /\ \A p \in 1..Len(wire[s]) : wire'[s][p] = wire[s][p]
        /\ Len(taken'[s]) = Len(taken[s]) + 1 /\ taken'[s][Len(taken[s]) + 1] = k
        /\ \A p \in 1..Len(taken[s]) : taken'[s][p] = taken[s][p]
        /\ Len(wire[s]) \in Nat /\ Len(taken[s]) \in Nat /\ Len(got[s]) \in Nat
    BY <2>0, <2>2, AppendProperties
  <2>4. ASSUME Live(Other[s]) PROVE Continues(s)' /\ UpToDate(s)'
    <3>1. Continues(s) /\ UpToDate(s) BY <1>2, <2>4 DEF WireOf
    <3>2. CASE wired[s]
      <4>. DEFINE g == Len(got[s])
                  w == Len(wire[s])
                  t == Len(taken[s])
      <4>0. g \in Nat /\ w \in Nat /\ t \in Nat /\ g + w = t
        BY <2>3, <3>1, <3>2 DEF UpToDate
      <4>1. \A p \in 1..w : wire[s][p] = taken[s][g + p] BY <3>1, <3>2 DEF Continues
      <4>2. \A p \in 1..w : wire'[s][p] = wire[s][p] BY <2>3
      <4>3. \A p \in 1..t : taken'[s][p] = taken[s][p] BY <2>3
      <4>4. wire'[s][w + 1] = k /\ taken'[s][t + 1] = k BY <2>3
      <4>. HIDE DEF g, w, t
      <4>5. ASSUME NEW p \in 1..(w + 1)
            PROVE  g + p <= t + 1 /\ wire'[s][p] = taken'[s][g + p]
        <5>1. CASE p = w + 1
          <6>1. g + p = t + 1 BY <4>0, <5>1
          <6>2. g + p <= t + 1 BY <4>0, <5>1
          <6>. QED BY <4>4, <5>1, <6>1, <6>2
        <5>2. CASE p \in 1..w
          <6>1. g + p \in 1..t /\ g + p <= t + 1 BY <4>0, <5>2
          <6>2. wire[s][p] = taken[s][g + p] BY <4>1, <5>2
          <6>3. taken'[s][g + p] = taken[s][g + p] BY <4>3, <6>1
          <6>4. wire'[s][p] = wire[s][p] BY <4>2, <5>2
          <6>. QED BY <6>1, <6>2, <6>3, <6>4
        <5>. QED BY <4>0, <5>1, <5>2
      <4>6. Len(wire'[s]) = w + 1 /\ Len(taken'[s]) = t + 1 /\ g + (w + 1) = t + 1
        BY <2>3, <4>0 DEF w, t
      <4>7. Continues(s)' BY <2>1, <3>2, <4>5, <4>6 DEF Continues, g
      <4>8. UpToDate(s)' BY <2>1, <3>2, <4>6 DEF UpToDate, g
      <4>. QED BY <4>7, <4>8
    <3>3. CASE ~wired[s]
      <4>1. /\ Len(wire[s]) = Len(taken[s]) + 1 /\ got[s] = << >>
            /\ wire[s] # << >> => wire[s][1] = 0
            /\ \A p \in 2..Len(wire[s]) : wire[s][p] = taken[s][p - 1]
        BY <3>1, <3>3 DEF Continues, UpToDate
      <4>2. ASSUME NEW p \in 2..(Len(wire[s]) + 1)
            PROVE  p - 1 <= Len(taken[s]) + 1 /\ wire'[s][p] = taken'[s][p - 1]
        <5>1. CASE p = Len(wire[s]) + 1
          <6>1. p - 1 = Len(taken[s]) + 1 BY <2>3, <4>1, <5>1
          <6>. QED BY <2>3, <5>1, <6>1
        <5>2. CASE p \in 2..Len(wire[s])
          <6>1. p \in 1..Len(wire[s]) /\ p - 1 \in 1..Len(taken[s]) BY <2>3, <4>1, <5>2
          <6>. QED BY <2>3, <4>1, <5>2, <6>1
        <5>. QED BY <2>3, <5>1, <5>2
      <4>3. wire'[s][1] = 0
        <5>1. 1 \in 1..Len(wire[s]) /\ wire[s] # << >> BY <2>0, <2>3, <4>1
        <5>. QED BY <2>3, <4>1, <5>1
      <4>4. Continues(s)' BY <2>1, <2>3, <3>3, <4>1, <4>2, <4>3 DEF Continues
      <4>5. UpToDate(s)' BY <2>1, <2>3, <3>3, <4>1 DEF UpToDate
      <4>. QED BY <4>4, <4>5
    <3>. QED BY <3>2, <3>3
  <2>5. /\ Len(got'[s]) <= Len(taken'[s])
        /\ \A p \in 1..Len(got'[s]) : got'[s][p] = taken'[s][p]
    <3>1. /\ Len(got[s]) <= Len(taken[s]) /\ \A p \in 1..Len(got[s]) : got[s][p] = taken[s][p]
      BY DEF WireOf
    <3>2. \A p \in 1..Len(got[s]) : p \in 1..Len(taken[s]) BY <2>3, <3>1
    <3>. QED BY <2>1, <2>3, <3>1, <3>2
  <2>. QED BY <1>2, <2>1, <2>4, <2>5 DEF WireOf, Early, Live
<1>. QED BY <1>1, <1>2

\* The other program takes what comes first: the channel, or the message it waits for.
LEMMA WireDeliver ==
  ASSUME ChannelInv, NEW s \in Side, WireOf(s), WireOf(Other[s]), Deliver(s)
  PROVE  WireOf(s)'
<1>. DEFINE g == Len(got[s])
            w == Len(wire[s])
            t == Len(taken[s])
<1>1. /\ Live(Other[s]) /\ wire[s] # << >> /\ wire' = [wire EXCEPT ![s] = Tail(@)]
      /\ UNCHANGED << at, handler, channel, taken >>
      /\ handler[Other[s]] /\ Continues(s)
  BY DEF Deliver, WireOf, Live
<1>2. /\ wire[s] \in Seq(Nat) /\ taken[s] \in Seq(Nat) /\ got[s] \in Seq(Nat)
      /\ wire \in [Side -> Seq(Nat)] /\ got \in [Side -> Seq(Nat)] /\ wired \in [Side -> BOOLEAN]
      /\ taken[s] \in Seq(1..sends[s]) /\ sends[s] \in Nat
  BY DEF ChannelInv
<1>3. /\ wire'[s] = Tail(wire[s]) /\ Head(wire[s]) = wire[s][1] /\ Head(wire[s]) \in Nat
      /\ w \in Nat /\ w >= 1 /\ Len(wire'[s]) = w - 1
      /\ \A p \in 1..(w - 1) : wire'[s][p] = wire[s][p + 1]
      /\ g \in Nat /\ t \in Nat
      /\ \A p \in 1..t : taken[s][p] # 0
  <2>1. wire'[s] = Tail(wire[s]) BY <1>1, <1>2
  <2>2. \A p \in 1..t : taken[s][p] # 0 BY <1>2
  <2>3. /\ Head(wire[s]) \in Nat /\ Len(Tail(wire[s])) = Len(wire[s]) - 1
        /\ \A p \in 1..Len(Tail(wire[s])) : Tail(wire[s])[p] = wire[s][p + 1]
    BY <1>1, <1>2, HeadTailProperties
  <2>4. Head(wire[s]) = wire[s][1] BY <1>1, <1>2
  <2>5. w \in Nat /\ g \in Nat /\ t \in Nat BY <1>2
  <2>6. w >= 1 BY <1>1, <1>2
  <2>7. Len(wire'[s]) = w - 1 BY <2>1, <2>3
  <2>8. \A p \in 1..(w - 1) : wire'[s][p] = wire[s][p + 1] BY <2>1, <2>3
  <2>. HIDE DEF w, g, t
  <2>. QED BY <2>1, <2>2, <2>3, <2>4, <2>5, <2>6, <2>7, <2>8
<1>4. /\ ~Early(Other[s]) /\ channel[s] \notin {"none", "connecting"}
      /\ Live(s) => handler[s]
      /\ channel[s] = "open" => UpToDate(s)
      /\ g <= t /\ \A p \in 1..g : got[s][p] = taken[s][p]
      /\ Early(s) => channel[s] = "none"
  BY <1>1 DEF WireOf, Quiet
<1>5. /\ UNCHANGED << handler[s], channel[s], taken[s] >>
      /\ (Live(s)' <=> Live(s)) /\ (Early(s)' <=> Early(s))
      /\ (Early(Other[s])' <=> Early(Other[s]))
  BY <1>1 DEF Live, Early
<1>. DEFINE GoesOn == /\ Continues(s)' /\ (channel[s] = "open" => UpToDate(s)')
                     /\ Len(got'[s]) <= t /\ \A p \in 1..Len(got'[s]) : got'[s][p] = taken[s][p]
<1>6. ASSUME Head(wire[s]) = 0 PROVE GoesOn
  <2>1. ~wired[s]
    <3>1. ASSUME wired[s] PROVE FALSE
      <4>1. 1 \in 1..w BY <1>3
      <4>2. g + 1 <= t /\ wire[s][1] = taken[s][g + 1] BY <1>1, <3>1, <4>1 DEF Continues
      <4>3. g + 1 \in 1..t BY <1>3, <4>2
      <4>. QED BY <1>3, <1>6, <4>2, <4>3
    <3>. QED BY <3>1
  <2>2. wired'[s] /\ got' = got
    <3>1. wired' = [wired EXCEPT ![s] = handler[Other[s]]] /\ got' = got BY <1>6 DEF Deliver
    <3>. QED BY <1>1, <1>2, <3>1
  <2>3. g = 0 /\ got[s] = << >> /\ \A p \in 2..w : p - 1 <= t /\ wire[s][p] = taken[s][p - 1]
    BY <1>1, <2>1 DEF Continues
  <2>4. ASSUME NEW p \in 1..(w - 1) PROVE p <= t /\ wire'[s][p] = taken[s][p]
    <3>1. p + 1 \in 2..w /\ (p + 1) - 1 = p BY <1>3
    <3>2. (p + 1) - 1 <= t /\ wire[s][p + 1] = taken[s][(p + 1) - 1] BY <2>3, <3>1
    <3>. QED BY <1>3, <3>1, <3>2
  <2>5. \A p \in 1..(w - 1) : 0 + p = p BY <1>3
  <2>6. Continues(s)'
    <3>1. \A p \in 1..Len(wire'[s]) : Len(got'[s]) + p <= Len(taken'[s])
                                     /\ wire'[s][p] = taken'[s][Len(got'[s]) + p]
      BY <1>1, <1>3, <2>2, <2>3, <2>4, <2>5
    <3>. QED BY <2>2, <3>1 DEF Continues
  <2>7. channel[s] = "open" => UpToDate(s)'
    <3>1. channel[s] = "open" => w = t + 1 BY <1>4, <2>1 DEF UpToDate
    <3>2. channel[s] = "open" => g + (w - 1) = t BY <1>3, <2>3, <3>1
    <3>. QED BY <1>1, <1>3, <2>2, <3>2 DEF UpToDate
  <2>. QED BY <1>4, <2>2, <2>6, <2>7
<1>7. ASSUME Head(wire[s]) # 0 PROVE GoesOn
  <2>1. wired[s] BY <1>1, <1>3, <1>7 DEF Continues
  <2>2. wired' = wired /\ got'[s] = Append(got[s], Head(wire[s]))
    BY <1>2, <1>7, <2>1 DEF Deliver
  <2>3. /\ Len(got'[s]) = g + 1 /\ got'[s][g + 1] = wire[s][1]
        /\ \A p \in 1..g : got'[s][p] = got[s][p]
    BY <1>2, <1>3, <2>2, AppendProperties
  <2>4. \A p \in 1..w : g + p <= t /\ wire[s][p] = taken[s][g + p]
    BY <1>1, <2>1 DEF Continues
  <2>5. g + 1 <= t /\ wire[s][1] = taken[s][g + 1]
    <3>1. 1 \in 1..w BY <1>3
    <3>. QED BY <2>4, <3>1
  <2>6. \A p \in 1..(g + 1) : got'[s][p] = taken[s][p]
    <3>1. \A p \in 1..(g + 1) : p \in 1..g \/ p = g + 1 BY <1>3
    <3>. QED BY <1>4, <2>3, <2>5, <3>1
  <2>7. ASSUME NEW p \in 1..(w - 1)
        PROVE  (g + 1) + p <= t /\ wire'[s][p] = taken[s][(g + 1) + p]
    <3>1. p + 1 \in 1..w /\ g + (p + 1) = (g + 1) + p
      <4>1. g \in Nat /\ w \in Nat BY <1>3
      <4>. HIDE DEF g, w
      <4>. QED BY <4>1
    <3>2. g + (p + 1) <= t /\ wire[s][p + 1] = taken[s][g + (p + 1)] BY <2>4, <3>1
    <3>3. wire'[s][p] = wire[s][p + 1] BY <1>3
    <3>. QED BY <3>1, <3>2, <3>3
  <2>8. Continues(s)' BY <1>1, <1>3, <2>1, <2>2, <2>3, <2>7 DEF Continues
  <2>9. channel[s] = "open" => UpToDate(s)'
    <3>1. channel[s] = "open" => g + w = t BY <1>4, <2>1 DEF UpToDate
    <3>2. channel[s] = "open" => (g + 1) + (w - 1) = t
      <4>1. g \in Nat /\ w \in Nat /\ t \in Nat BY <1>3
      <4>. HIDE DEF g, w, t
      <4>. QED BY <3>1, <4>1
    <3>. QED BY <1>1, <1>3, <2>1, <2>2, <2>3, <3>2 DEF UpToDate
  <2>. QED BY <2>3, <2>5, <2>6, <2>8, <2>9
<1>8. GoesOn BY <1>6, <1>7
<1>9. /\ Live(s)' => handler'[s]
      /\ Early(s)' => channel'[s] = "none"
      /\ ~Early(Other[s])' /\ channel'[s] \notin {"none", "connecting"}
  BY <1>1, <1>4, <1>5
<1>10. /\ Continues(s)' /\ (channel'[s] = "open" => UpToDate(s)')
       /\ Len(got'[s]) <= Len(taken'[s]) /\ \A p \in 1..Len(got'[s]) : got'[s][p] = taken'[s][p]
  BY <1>1, <1>8
<1>. QED BY <1>9, <1>10 DEF WireOf

\* No peer is there to begin with, and nothing on a wire.
LEMMA WireInit == Init => WireInv
<1>. SUFFICES ASSUME Init, NEW s \in Side PROVE WireOf(s)
  BY DEF WireInv
<1>1. /\ at[s] = "start" /\ at[Other[s]] = "start" /\ channel[s] = "none" /\ wire[s] = << >>
      /\ taken[s] = << >> /\ got[s] = << >>
  BY Others DEF Init
<1>2. ~wired[s] BY DEF Init
<1>. QED BY <1>1, <1>2 DEF WireOf, Live, Early, Quiet

\* A program that gets its peer: nothing was there before.
LEMMA WirePeer ==
  ASSUME CallsInv, ChannelInv, WireInv, NEW s \in Side, Peer(s)
  PROVE  WireInv'
<1>. DEFINE o == Other[s]
<1>0. /\ o = Other[s] /\ o \in Side /\ o # s /\ Other[o] = s
      /\ \A r \in Side : r = s \/ r = o
  BY Others
<1>1. /\ at[s] = "peer" /\ Proceed(s)
      /\ channel' = [channel EXCEPT ![s] = "connecting"]
      /\ handler' = [handler EXCEPT ![s] = TRUE]
      /\ UNCHANGED << wire, wired, sends, taken, got >>
  BY DEF Peer
<1>2. PICK q : Goto(s, q) /\ Follows(at[s], q) BY <1>1, NextCall
<1>3. /\ at \in [Side -> Places] /\ channel \in [Side -> {"none", "connecting", "open", "closed"}]
      /\ handler \in [Side -> BOOLEAN]
  BY DEF CallsInv, ChannelInv
<1>4. ~Early(s)' /\ at'[o] = at[o] BY <1>0, <1>1, <1>2, <1>3 DEF Goto, Early, Follows
<1>5. channel'[s] = "connecting" /\ channel'[o] = channel[o] BY <1>0, <1>1, <1>3
<1>6. handler'[s] /\ (handler'[o] <=> handler[o]) BY <1>0, <1>1, <1>3
<1>7. Early(s) BY <1>1 DEF Early
<1>8. WireOf(s) /\ WireOf(o) BY <1>0 DEF WireInv
<1>. HIDE DEF o
<1>9. /\ Quiet(s) /\ taken[s] = << >>
      /\ Quiet(o) /\ channel[o] # "open"
  BY <1>0, <1>7, <1>8 DEF WireOf
<1>10. /\ Quiet(s)' /\ taken'[s] = << >> /\ Quiet(o)' /\ channel'[o] # "open"
  BY <1>1, <1>5, <1>9 DEF Quiet
<1>11. Continues(s)' /\ Continues(o)' BY <1>10 DEF Continues, Quiet
<1>12. /\ Live(o)' => handler'[o]
       /\ Early(o)' => channel'[o] = "none"
       /\ channel'[o] \in {"none", "connecting"} => taken'[o] = << >>
  BY <1>1, <1>4, <1>5, <1>6, <1>8 DEF WireOf, Live, Early
<1>13. Len(got'[s]) = 0 /\ Len(got'[o]) = 0 /\ Len(taken'[o]) \in Nat /\ Len(taken'[s]) = 0
  BY <1>0, <1>1, <1>9 DEF Quiet, ChannelInv
<1>14. WireOf(s)' BY <1>0, <1>4, <1>5, <1>6, <1>10, <1>11, <1>13 DEF WireOf
<1>15. WireOf(o)' BY <1>0, <1>4, <1>10, <1>11, <1>12, <1>13 DEF WireOf
<1>. QED BY <1>0, <1>14, <1>15 DEF WireInv

\* A program that leaves: what it has sent is cut off somewhere, and it hears nothing more.
LEMMA WireLeave ==
  ASSUME CallsInv, ChannelInv, WireInv, NEW s \in Side, Destroy(s) \/ Kill(s)
  PROVE  WireInv'
<1>. DEFINE o == Other[s]
<1>0. /\ o = Other[s] /\ o \in Side /\ o # s /\ Other[o] = s
      /\ \A r \in Side : r = s \/ r = o
  BY Others
<1>1. /\ wire[s] \in Seq(Nat) /\ got[s] \in Seq(Nat) /\ taken[s] \in Seq(Nat)
      /\ wire \in [Side -> Seq(Nat)]
      /\ channel \in [Side -> {"none", "connecting", "open", "closed"}]
  BY DEF ChannelInv
<1>2. PICK n \in 0..Len(wire[s]) :
        wire'[s] = SubSeq(wire[s], 1, n) /\ wire'[o] = << >>
  <2>1. CASE Destroy(s)
    <3>1. PICK n \in 0..Len(wire[s]) :
            wire' = [wire EXCEPT ![s] = SubSeq(@, 1, n), ![Other[s]] = << >>]
      BY <2>1 DEF Destroy
    <3>2. wire'[s] = SubSeq(wire[s], 1, n) /\ wire'[o] = << >> BY <1>0, <1>1, <3>1, Zenon
    <3>. QED BY <3>2
  <2>2. CASE Kill(s)
    <3>1. wire'[s] = << >> /\ wire'[o] = << >> BY <1>0, <2>2 DEF Kill
    <3>2. SubSeq(wire[s], 1, 0) = << >> /\ 0 \in 0..Len(wire[s]) BY <1>1
    <3>. QED BY <3>1, <3>2
  <2>. QED BY <2>1, <2>2
<1>3. /\ channel' = [channel EXCEPT ![s] = "closed"]
      /\ UNCHANGED << handler, wired, taken, got >>
  BY DEF Destroy, Kill
<1>4. /\ ~Early(s)' /\ ~Live(s)' /\ Live(s) /\ (Early(o)' => Early(o)) /\ (Live(o)' => Live(o))
  <2>1. Proceed(s) \/ Crash(s) BY DEF Destroy, Kill
  <2>2. ~Early(s) /\ Live(s) BY DEF Destroy, Kill, Early, Live
  <2>3. (at[s] = "destroy" /\ Proceed(s)) \/ Crash(s) BY DEF Destroy, Kill
  <2>. QED BY <1>0, <2>1, <2>2, <2>3, LifeGoesOn
<1>5. channel'[s] = "closed" /\ channel'[o] = channel[o] BY <1>0, <1>1, <1>3
<1>6. WireOf(s) /\ WireOf(o) BY <1>0 DEF WireInv
<1>7. WireOf(o)' BY <1>0, <1>2, <1>3, <1>4, <1>5, <1>6, WireUnheard
<1>. HIDE DEF o
<1>8. /\ Len(wire'[s]) = n /\ n \in Nat /\ n <= Len(wire[s]) /\ Len(wire[s]) \in Nat
      /\ \A p \in 1..n : wire'[s][p] = wire[s][p]
      /\ wire'[s] \in Seq(Nat)
  BY <1>1, <1>2, Beginning
<1>9. Continues(s) => Continues(s)'
  <2>1. \A p \in 1..n : p \in 1..Len(wire[s]) BY <1>8
  <2>2. ASSUME Continues(s), wired[s] PROVE Continues(s)'
    BY <1>3, <1>8, <2>1, <2>2 DEF Continues
  <2>3. ASSUME Continues(s), ~wired[s] PROVE Continues(s)'
    <3>1. wire'[s] # << >> => wire'[s][1] = 0
      <4>1. ASSUME wire'[s] # << >> PROVE wire'[s][1] = 0
        <5>1. 1 \in 1..n BY <1>8, <4>1
        <5>2. wire[s] # << >> BY <1>1, <1>8, <5>1
        <5>. QED BY <1>8, <2>3, <5>1, <5>2 DEF Continues
      <4>. QED BY <4>1
    <3>2. \A p \in 2..n : p \in 1..n /\ p \in 2..Len(wire[s]) BY <1>8
    <3>. QED BY <1>3, <1>8, <2>3, <3>1, <3>2 DEF Continues
  <2>. QED BY <2>2, <2>3
<1>10. Quiet(s) => Quiet(s)'
  <2>1. wire[s] = << >> => wire'[s] = << >> BY <1>1, <1>8
  <2>. QED BY <1>3, <2>1 DEF Quiet
<1>11. WireOf(s)' BY <1>0, <1>3, <1>4, <1>5, <1>6, <1>9, <1>10 DEF WireOf
<1>. QED BY <1>0, <1>7, <1>11 DEF WireInv

\* The steps that take one channel on, and leave the other as it is.
LEMMA WireMoves ==
  ASSUME ChannelInv, WireInv, NEW s \in Side,
         Opens(s) \/ Deliver(s) \/ Closes(s) \/ (Send(s) /\ UNCHANGED at)
  PROVE  WireInv'
<1>. DEFINE o == Other[s]
<1>0. /\ o = Other[s] /\ o \in Side /\ o # s /\ Other[o] = s
      /\ \A r \in Side : r = s \/ r = o
  BY Others
<1>1. WireOf(s) /\ WireOf(o) BY <1>0 DEF WireInv
<1>2. /\ wire \in [Side -> Seq(Nat)] /\ taken \in [Side -> Seq(Nat)] /\ got \in [Side -> Seq(Nat)]
      /\ channel \in [Side -> {"none", "connecting", "open", "closed"}]
      /\ wired \in [Side -> BOOLEAN] /\ handler \in [Side -> BOOLEAN]
  BY DEF ChannelInv
<1>3. UNCHANGED << at, handler >> BY DEF Opens, Deliver, Closes, Send
<1>4. channel'[o] = channel[o] BY <1>0, <1>2 DEF Opens, Deliver, Closes, Send
<1>5. wire'[o] = wire[o] BY <1>0, <1>2 DEF Opens, Deliver, Closes, Send
<1>6. wired'[o] = wired[o] BY <1>0, <1>2 DEF Opens, Deliver, Closes, Send
<1>7. taken'[o] = taken[o] BY <1>0, <1>2 DEF Opens, Deliver, Closes, Send
<1>8. got'[o] = got[o] BY <1>0, <1>2 DEF Opens, Deliver, Closes, Send
<1>9. \A r \in Side : (Live(r)' <=> Live(r)) /\ (Early(r)' <=> Early(r))
  BY <1>3 DEF Live, Early
<1>10. WireOf(o)'
  BY <1>0, <1>1, <1>3, <1>4, <1>5, <1>6, <1>7, <1>8, <1>9, WireStays
<1>. HIDE DEF o
<1>. SUFFICES WireOf(s)'
  BY <1>0, <1>10 DEF WireInv
<1>11. CASE Opens(s)
  <2>1. /\ channel'[s] = "open" /\ wire'[s] = << 0 >> /\ channel[s] = "connecting"
        /\ UNCHANGED << wired, taken, got >>
    BY <1>2, <1>11 DEF Opens
  <2>2. Quiet(s) /\ taken[s] = << >> BY <1>1, <2>1 DEF WireOf
  <2>3. Live(s) /\ Live(o) BY <1>0, <1>11 DEF Opens, Connected
  <2>4. ~Early(s) /\ ~Early(o) BY <2>3 DEF Live, Early
  <2>5. Len(wire'[s]) = 1 /\ wire'[s][1] = 0 BY <2>1
  <2>6. ~wired'[s] /\ got'[s] = << >> /\ taken'[s] = << >> BY <2>1, <2>2 DEF Quiet
  <2>7. Continues(s)' /\ UpToDate(s)' BY <2>5, <2>6 DEF Continues, UpToDate
  <2>8. handler'[s] BY <1>1, <1>3, <2>3 DEF WireOf
  <2>. QED BY <1>0, <1>9, <2>1, <2>4, <2>6, <2>7, <2>8 DEF WireOf
<1>12. CASE Closes(s)
  <2>1. /\ channel'[s] = "closed" /\ channel[s] = "open" /\ ~Live(o) /\ Live(s)
        /\ UNCHANGED << wire, wired, taken, got >>
    BY <1>0, <1>2, <1>12 DEF Closes
  <2>2. ~Early(s) BY <2>1 DEF Live, Early
  <2>. QED BY <1>0, <1>1, <1>3, <1>9, <2>1, <2>2 DEF WireOf, Quiet
<1>13. CASE Deliver(s) BY <1>0, <1>1, <1>13, WireDeliver
<1>14. CASE Send(s) /\ UNCHANGED at BY <1>1, <1>14, WireSend
<1>. QED BY <1>11, <1>12, <1>13, <1>14

\* Each step keeps every channel in order.
LEMMA WireStep == CallsInv /\ ChannelInv /\ WireInv /\ [Next]_vars => WireInv'
<1>. SUFFICES ASSUME CallsInv, ChannelInv, WireInv, [Next]_vars PROVE WireInv'
  OBVIOUS
<1>1. ASSUME NEW s \in Side, Run(s) \/ Person(s) \/ Applied(s) \/ Network(s) \/ Spin(s)
      PROVE  WireInv'
  <2>1. CASE UNCHANGED chanVars
    <3>1. ASSUME Peer(s) PROVE WireInv' BY <3>1, WirePeer
    <3>2. ASSUME ~Peer(s), NEW c \in Side PROVE WireOf(c)'
      <4>1. Proceed(s) \/ Crash(s) \/ UNCHANGED at BY <1>1, AtStep
      <4>2. at[s] = "peer" => UNCHANGED at
        BY <1>1, <3>2 
        DEF Run, Person, Network, Start, LibInit, Dispose, Ask, Destroy, Exit, Kill, Enter,
            Applied, Describe, Truncate, Write, Read, Opens, Deliver, Closes, SendBurst, Linger,
            SendLine, Quit, EndOfInput, Spin, vars, Live
      <4>3. \A r \in Side : (Early(r)' => Early(r)) /\ (Live(r)' => Live(r))
        <5>1. CASE UNCHANGED at BY <5>1 DEF Early, Live
        <5>2. CASE at[s] # "peer" BY <4>1, <5>2, LifeGoesOn
        <5>. QED BY <4>2, <5>1, <5>2
      <4>4. Other[c] \in Side BY Others
      <4>. QED BY <2>1, <4>3, <4>4, WireStays DEF WireInv, chanVars
    <3>. QED BY <3>1, <3>2 DEF WireInv
  <2>2. CASE Peer(s) BY <2>2, WirePeer
  <2>3. CASE Destroy(s) \/ Kill(s) BY <2>3, WireLeave
  <2>4. CASE Opens(s) \/ Deliver(s) \/ Closes(s) \/ (Send(s) /\ UNCHANGED at)
    BY <2>4, WireMoves
  <2>5. \/ UNCHANGED chanVars
        \/ Peer(s) \/ Destroy(s) \/ Kill(s) \/ Opens(s) \/ Deliver(s) \/ Closes(s)
        \/ Send(s) /\ UNCHANGED at
    BY <1>1, ChannelSteps
  <2>. QED BY <2>1, <2>2, <2>3, <2>4, <2>5
<1>2. CASE UNCHANGED vars
  <2>1. \A c \in Side : WireOf(c)'
    <3>1. UNCHANGED << at, handler, channel, wire, wired, taken, got >>
      BY <1>2 DEF vars, chanVars
    <3>. QED BY <3>1, Others, WireStays DEF WireInv, Early, Live
  <2>. QED BY <2>1 DEF WireInv
<1>. QED BY <1>1, <1>2 DEF Next, Over

\* What a peer hears of the other program are the messages that Send took, in order and
\* from the first, whenever and however the two programs start, answer and leave.
THEOREM HeardInOrder == Spec => []GotIsPrefix
<1>1. ChannelInv /\ WireInv => GotIsPrefix
  <2>. SUFFICES ASSUME ChannelInv, WireInv, NEW s \in Side
                PROVE  /\ Len(got[s]) <= Len(taken[s])
                       /\ got[s] = SubSeq(taken[s], 1, Len(got[s]))
    BY DEF GotIsPrefix
  <2>1. got[s] \in Seq(Nat) /\ taken[s] \in Seq(Nat) BY DEF ChannelInv
  <2>2. /\ Len(got[s]) <= Len(taken[s])
        /\ \A p \in 1..Len(got[s]) : got[s][p] = taken[s][p]
    BY DEF WireInv, WireOf
  <2>3. Len(got[s]) \in 0..Len(taken[s]) BY <2>1, <2>2
  <2>4. /\ SubSeq(taken[s], 1, Len(got[s])) \in Seq(Nat)
        /\ Len(SubSeq(taken[s], 1, Len(got[s]))) = Len(got[s])
        /\ \A p \in 1..Len(got[s]) : SubSeq(taken[s], 1, Len(got[s]))[p] = taken[s][p]
    BY <2>1, <2>3, Beginning
  <2>5. got[s] = SubSeq(taken[s], 1, Len(got[s])) BY <2>1, <2>2, <2>4, SeqEqual
  <2>. QED BY <2>2, <2>5
<1>. QED BY <1>1, CallsInit, CallsStep, ChannelInit, ChannelStep, WireInit, WireStep, PTL DEF Spec

-----------------------------------------------------------------------------
(* The globals of the library                                              *)

\* Between the two halves of Libwebrtc_Init the thread runs; between those of
\* Libwebrtc_Dispose the factory has been given up.
GivenUpInv ==
  \A s \in Side : /\ at[s] = "factory" => signal[s] = "running"
                  /\ at[s] = "stop" => factory[s] # "held"
                  /\ factory[s] = "held" => signal[s] = "running"

LEMMA GivenUpStep == CallsInv /\ GivenUpInv /\ [Next]_vars => GivenUpInv'
<1>. SUFFICES ASSUME CallsInv, GivenUpInv, [Next]_vars PROVE GivenUpInv'
  OBVIOUS
<1>0. /\ factory \in [Side -> {"NULL", "held", "leaked"}]
      /\ signal \in [Side -> {"none", "running", "deleted"}]
  BY DEF CallsInv
<1>1. ASSUME NEW s \in Side, LibInit(s) PROVE GivenUpInv'
  <2>1. /\ \A r \in Side \ {s} : at'[r] = at[r]
        /\ at'[s] = "crashed" \/ Follows(at[s], at'[s])
    BY <1>1, Moves DEF LibInit
  <2>2. CASE at[s] = "init" /\ signal' = [signal EXCEPT ![s] = "running"] /\ UNCHANGED factory
    BY <1>0, <2>1, <2>2 DEF GivenUpInv, Follows
  <2>3. CASE at[s] = "factory" /\ factory' = [factory EXCEPT ![s] = "held"] /\ UNCHANGED signal
    BY <1>0, <2>1, <2>3 DEF GivenUpInv, Follows
  <2>. QED BY <1>1, <2>2, <2>3 DEF LibInit
<1>2. ASSUME NEW s \in Side, Dispose(s) PROVE GivenUpInv'
  <2>1. /\ \A r \in Side \ {s} : at'[r] = at[r]
        /\ at'[s] = "crashed" \/ Follows(at[s], at'[s])
    BY <1>2, Moves DEF Dispose
  <2>2. CASE at[s] = "dispose" /\ factory' = [factory EXCEPT ![s] = "leaked"] /\ UNCHANGED signal
    BY <1>0, <2>1, <2>2 DEF GivenUpInv, Follows
  <2>3. CASE at[s] = "stop" /\ signal' = [signal EXCEPT ![s] = "deleted"] /\ UNCHANGED factory
    BY <1>0, <2>1, <2>3 DEF GivenUpInv, Follows
  <2>. QED BY <1>2, <2>2, <2>3 DEF Dispose
<1>3. ASSUME NEW s \in Side, Run(s) \/ Person(s) \/ Applied(s) \/ Network(s) \/ Spin(s),
             ~LibInit(s), ~Dispose(s)
      PROVE  GivenUpInv'
  <2>1. UNCHANGED << factory, signal >>
    BY <1>3 DEF Run, Person, Network, Start, Peer, Destroy, Exit, Kill, Ask, Applied, Describe,
                Truncate, Write, Enter, Read, Opens, Deliver, Closes, SendBurst, Send, Linger,
                SendLine, Quit, EndOfInput, Spin, vars, utilVars
  <2>2. CASE UNCHANGED at BY <2>1, <2>2 DEF GivenUpInv
  <2>3. CASE (Proceed(s) \/ Crash(s)) /\ at[s] \notin {"init", "dispose"}
    <3>1. /\ \A r \in Side \ {s} : at'[r] = at[r]
          /\ at'[s] = "crashed" \/ Follows(at[s], at'[s])
      BY <2>3, Moves
    <3>. QED BY <2>1, <2>3, <3>1 DEF GivenUpInv, Follows
  <2>4. UNCHANGED at \/ ((Proceed(s) \/ Crash(s)) /\ at[s] \notin {"init", "dispose"})
    BY <1>3 DEF Run, Person, Network, Start, Peer, Destroy, Exit, Kill, Ask, Applied, Describe,
                Truncate, Write, Enter, Read, Opens, Deliver, Closes, SendBurst, Send, Linger,
                SendLine, Quit, EndOfInput, Spin, vars, Live
  <2>. QED BY <2>2, <2>3, <2>4
<1>4. CASE UNCHANGED vars BY <1>4 DEF vars, utilVars, GivenUpInv
<1>. QED BY <1>1, <1>2, <1>3, <1>4 DEF Next, Over

\* While _factory holds the factory, the thread it was made with runs: Libwebrtc_Init starts
\* the thread first, and Libwebrtc_Dispose gives the factory up before it deletes the thread.
THEOREM FactoryIsGivenUp == Spec => []FactoryHasThread
<1>1. Init => GivenUpInv BY DEF Init, GivenUpInv
<1>2. CallsInv /\ GivenUpInv /\ [Next]_vars => GivenUpInv' BY GivenUpStep
<1>3. GivenUpInv => FactoryHasThread BY DEF GivenUpInv, FactoryHasThread
<1>. QED BY <1>1, <1>2, <1>3, CallsInit, CallsStep, PTL DEF Spec

-----------------------------------------------------------------------------
(* The descriptions                                                        *)

\* Where offer.cc is from the first Enter on, and answer.cc from its answer on.
Late == {"enter", "read", "enter2", "burst", "input", "linger", "destroy", "dispose", "stop",
         "exit", "exited", "crashed"}
Left == {"input", "destroy", "dispose", "stop", "exit", "exited", "crashed"}

Fresh == {"bare", "full", "long"}

\* What the two orders of calls say about the files.
Ordered(s, p, q) ==
  /\ s = "O" => /\ p \in Late => q \in Late
                /\ q = "enter" => p = "write"
                /\ q = "read" => p = "enter"
  /\ s = "A" => /\ p \in Left => q \in Left
                /\ p # "enter"
                /\ q = "input" => p = "write"
                /\ q = "answer" => p = "read"

\* With a patient person nothing old is anywhere but in the files, and a program that is
\* about to read finds the file written, by a program that does not write it again.
Patient ==
  ~hasty =>
    /\ \A s \in Side : remote[s] # "stale" /\ local[s] # "stale" /\ copy[s] # "stale"
    /\ at["O"] = "enter" => file["O"] \in Fresh
    /\ at["A"] = "input" => file["A"] \in Fresh
    /\ at["A"] # "start" => at["O"] \in Late /\ file["O"] \in Fresh
    /\ at["O"] = "read" => at["A"] \in Left /\ file["A"] \in Fresh
    /\ at["A"] = "answer" => remote["A"] = file["O"] \/ file["O"] = "long"

\* The next call of a program, as far as the files go.
LEMMA NextOrdered ==
  ASSUME CallsInv, NEW s \in Side, Proceed(s)
  PROVE  at'[s] # "start" /\ Ordered(s, at[s], at'[s]) /\ \A r \in Side \ {s} : at'[r] = at[r]
<1>0. PICK program \in Programs(s) :
        \E n \in 1..(Len(program) - 1) : program[n] = at[s] /\ Goto(s, program[n + 1])
  BY DEF Proceed
<1>1. PICK n \in 1..(Len(program) - 1) : program[n] = at[s] /\ Goto(s, program[n + 1])
  BY <1>0
<1>2. Ordered(s, program[n], program[n + 1]) /\ program[n + 1] # "start"
  <2>1. CASE s = "A"
    <3>1. program = AnswerCalls
      BY <2>1 DEF Programs
    <3>2. n \in 1..14 BY <3>1 DEF AnswerCalls
    <3>. QED BY <2>1, <3>1, <3>2 DEF Ordered, Left, AnswerCalls
  <2>2. CASE s = "O" /\ program = BurstCalls
    <3>1. n \in 1..17 BY <2>2 DEF BurstCalls
    <3>. QED BY <2>2, <3>1 DEF Ordered, Late, BurstCalls
  <2>3. CASE s = "O" /\ program = TypedCalls
    <3>1. n \in 1..15 BY <2>3 DEF TypedCalls
    <3>. QED BY <2>3, <3>1 DEF Ordered, Late, TypedCalls
  <2>. QED BY <2>1, <2>2, <2>3 DEF Programs, Side
<1>3. at'[s] = program[n + 1] /\ \A r \in Side \ {s} : at'[r] = at[r]
  BY <1>1 DEF Goto, CallsInv
<1>. QED BY <1>1, <1>2, <1>3

\* No description is there to begin with, and the files may be old.
LEMMA PatientInit == Init => Patient
BY DEF Init, Patient, Side

\* A step that leaves the texts alone, at a place where nobody waits for a file.
LEMMA PatientGoesOn ==
  ASSUME CallsInv, Patient, NEW s \in Side, hasty' = hasty, UNCHANGED textVars,
         \/ UNCHANGED at
         \/ Crash(s) /\ at[s] # "start"
         \/ Proceed(s) /\ at[s] \notin {"start", "enter", "write", "read"}
  PROVE  Patient'
<1>1. at \in [Side -> Places] /\ "O" \in Side /\ "A" \in Side BY DEF CallsInv, Side
<1>2. UNCHANGED << file, remote, local, copy >> BY DEF textVars
<1>3. CASE UNCHANGED at BY <1>2, <1>3 DEF Patient
<1>4. CASE Crash(s) /\ at[s] # "start"
  <2>1. at'[s] = "crashed" /\ \A r \in Side \ {s} : at'[r] = at[r] BY <1>1, <1>4 DEF Crash, Goto
  <2>2. CASE s = "O" BY <1>1, <1>2, <2>1, <2>2 DEF Patient, Late
  <2>3. CASE s = "A" BY <1>1, <1>2, <1>4, <2>1, <2>3 DEF Patient, Left
  <2>. QED BY <2>2, <2>3 DEF Side
<1>5. CASE Proceed(s) /\ at[s] \notin {"start", "enter", "write", "read"}
  <2>1. Ordered(s, at[s], at'[s]) /\ \A r \in Side \ {s} : at'[r] = at[r]
    BY <1>5, NextOrdered
  <2>2. CASE s = "O" BY <1>1, <1>2, <1>5, <2>1, <2>2 DEF Patient, Ordered
  <2>3. CASE s = "A" BY <1>1, <1>2, <1>5, <2>1, <2>3 DEF Patient, Ordered
  <2>. QED BY <2>2, <2>3 DEF Side
<1>. QED BY <1>3, <1>4, <1>5

\* The person's steps: the other program waits, or the person is hasty.
LEMMA PatientPerson ==
  ASSUME CallsInv, Patient, NEW s \in Side, Start(s) \/ Enter(s)
  PROVE  Patient'
<1>1. at \in [Side -> Places] /\ "O" \in Side /\ "A" \in Side BY DEF CallsInv, Side
<1>2. UNCHANGED << file, remote, local, copy >> /\ Proceed(s) BY DEF Start, Enter, textVars
<1>3. /\ at'[s] # "start" /\ Ordered(s, at[s], at'[s]) /\ \A r \in Side \ {s} : at'[r] = at[r]
  BY <1>2, NextOrdered
<1>4. CASE s = "A"
  <2>1. ~hasty' /\ at["A"] = "start" => at["O"] = "enter" /\ ~hasty
    BY <1>4 DEF Start, Enter
  <2>2. ~hasty' => ~hasty BY DEF Start, Enter
  <2>3. at["A"] \in {"start", "enter2"} BY <1>3, <1>4 DEF Start, Enter, Ordered
  <2>. QED BY <1>1, <1>2, <1>3, <1>4, <2>1, <2>2, <2>3 DEF Patient, Ordered, Late, Left
<1>5. CASE s = "O"
  <2>1. ~hasty' /\ at["O"] = "enter" => at["A"] = "input" /\ ~hasty
    BY <1>5 DEF Start, Enter
  <2>2. ~hasty' => ~hasty BY DEF Start, Enter
  <2>3. at["O"] \in {"start", "enter", "enter2"} BY <1>5 DEF Start, Enter
  <2>. QED BY <1>1, <1>2, <1>3, <1>5, <2>1, <2>2, <2>3 DEF Patient, Ordered, Late, Left
<1>. QED BY <1>4, <1>5 DEF Side

\* The steps that make, copy, write and read a description.
LEMMA PatientTexts ==
  ASSUME CallsInv, Patient, NEW s \in Side,
         Ask(s) \/ Applied(s) \/ Describe(s) \/ Truncate(s) \/ Write(s) \/ Read(s)
  PROVE  Patient'
<1>1. /\ at \in [Side -> Places] /\ "O" \in Side /\ "A" \in Side
      /\ file \in [Side -> Texts \cup {"absent"}]
      /\ local \in [Side -> {"none", "asked", "stale", "bare", "full", "long"}]
      /\ copy \in [Side -> {"none", "stale", "bare", "full", "long"}]
      /\ remote \in [Side -> {"none", "stale", "bare", "full"}]
  BY DEF CallsInv, Side
<1>2. hasty' = hasty
  BY DEF Ask, Applied, Describe, Truncate, Write, Read
<1>3. CASE hasty BY <1>2, <1>3 DEF Patient
<1>. SUFFICES ASSUME ~hasty PROVE Patient'
  BY <1>3
<1>4. Proceed(s) => /\ at'[s] # "start" /\ Ordered(s, at[s], at'[s])
                    /\ \A r \in Side \ {s} : at'[r] = at[r]
  BY NextOrdered
<1>5. Crash(s) => at'[s] = "crashed" /\ \A r \in Side \ {s} : at'[r] = at[r]
  BY <1>1 DEF Crash, Goto
<1>6. CASE Ask(s)
  <2>1. local'[s] # "stale" /\ \A r \in Side \ {s} : local'[r] = local[r]
    BY <1>1, <1>6 DEF Ask
  <2>2. UNCHANGED << file, copy, remote >> /\ Proceed(s) /\ at[s] \in {"offer", "answer"}
    BY <1>6 DEF Ask
  <2>3. \A r \in Side : local'[r] # "stale" BY <2>1 DEF Patient
  <2>4. CASE s = "O" BY <1>1, <1>2, <1>4, <2>2, <2>3, <2>4 DEF Patient, Ordered, Late
  <2>5. CASE s = "A" BY <1>1, <1>2, <1>4, <2>2, <2>3, <2>5 DEF Patient, Ordered, Left
  <2>. QED BY <2>4, <2>5 DEF Side
<1>7. CASE Applied(s)
  <2>1. remote[s] # "stale" BY DEF Patient
  <2>2. local'[s] # "stale" /\ \A r \in Side \ {s} : local'[r] = local[r]
    BY <1>1, <1>7, <2>1 DEF Applied
  <2>3. UNCHANGED << at, file, copy, remote >> BY <1>7 DEF Applied
  <2>4. \A r \in Side : local'[r] # "stale" BY <2>2 DEF Patient
  <2>. QED BY <1>2, <2>3, <2>4 DEF Patient
<1>8. CASE Describe(s)
  <2>1. UNCHANGED << file, local, remote >> /\ at[s] = "describe" /\ (Proceed(s) \/ Crash(s))
    BY <1>8 DEF Describe
  <2>2. \A r \in Side : copy'[r] # "stale" BY <1>1, <1>8 DEF Describe, Patient
  <2>3. CASE s = "O" BY <1>1, <1>2, <1>4, <1>5, <2>1, <2>2, <2>3 DEF Patient, Ordered, Late
  <2>4. CASE s = "A" BY <1>1, <1>2, <1>4, <1>5, <2>1, <2>2, <2>4 DEF Patient, Ordered, Left
  <2>. QED BY <2>3, <2>4 DEF Side
<1>9. CASE Truncate(s)
  <2>1. UNCHANGED << copy, local, remote >> /\ at[s] = "truncate" /\ Proceed(s)
    BY <1>9 DEF Truncate
  <2>2. \A r \in Side \ {s} : file'[r] = file[r] BY <1>1, <1>9 DEF Truncate
  <2>3. CASE s = "O" BY <1>1, <1>2, <1>4, <2>1, <2>2, <2>3 DEF Patient, Ordered, Late
  <2>4. CASE s = "A" BY <1>1, <1>2, <1>4, <2>1, <2>2, <2>4 DEF Patient, Ordered, Left
  <2>. QED BY <2>3, <2>4 DEF Side
<1>10. CASE Write(s)
  <2>1. UNCHANGED << copy, local, remote >> /\ at[s] = "write" /\ Proceed(s)
    BY <1>10 DEF Write
  <2>2. copy[s] # "none" /\ copy[s] # "stale" BY <2>1 DEF CallsInv, Patient
  <2>3. file'[s] \in Fresh /\ \A r \in Side \ {s} : file'[r] = file[r]
    BY <1>1, <1>10, <2>2 DEF Write, Fresh
  <2>4. CASE s = "O" BY <1>1, <1>2, <1>4, <2>1, <2>3, <2>4 DEF Patient, Ordered, Late
  <2>5. CASE s = "A" BY <1>1, <1>2, <1>4, <2>1, <2>3, <2>5 DEF Patient, Ordered, Left
  <2>. QED BY <2>4, <2>5 DEF Side
<1>11. CASE Read(s)
  <2>1. UNCHANGED << file, local, copy >> /\ at[s] = "read" /\ (Proceed(s) \/ Crash(s))
    BY <1>11 DEF Read
  <2>2. file[Other[s]] \in Fresh
    <3>1. CASE s = "O" BY <2>1, <3>1 DEF Patient, Other, Side
    <3>2. CASE s = "A" BY <2>1, <3>2 DEF Patient, Other, Side
    <3>. QED BY <3>1, <3>2 DEF Side
  <2>3. /\ \A r \in Side : remote'[r] # "stale"
        /\ s = "O" => remote'["A"] = remote["A"]
        /\ s = "A" /\ at'["A"] = "answer" => remote'["A"] = file["O"] \/ file["O"] = "long"
    <3>1. CASE UNCHANGED remote /\ Crash(s) BY <1>5, <3>1 DEF Patient
    <3>2. CASE \E text \in {file[Other[s]]} \cup (IF s = "O" THEN {"empty"} ELSE {}) :
                 remote' = [remote EXCEPT ![s] = IF text \in {"empty", "long"} THEN "none" ELSE text]
      <4>1. PICK text \in {file[Other[s]]} \cup (IF s = "O" THEN {"empty"} ELSE {}) :
              remote' = [remote EXCEPT ![s] = IF text \in {"empty", "long"} THEN "none" ELSE text]
        BY <3>2
      <4>2. text \in Fresh \cup {"empty"} BY <2>2, <4>1
      <4>3. /\ remote'[s] = IF text \in {"empty", "long"} THEN "none" ELSE text
            /\ \A r \in Side \ {s} : remote'[r] = remote[r]
        BY <1>1, <4>1
      <4>4. s = "A" => text = file["O"] BY <4>1 DEF Other, Side
      <4>5. \A r \in Side : remote'[r] # "stale" BY <4>2, <4>3 DEF Patient, Fresh
      <4>6. s = "A" => remote'["A"] = file["O"] \/ file["O"] = "long"
        BY <2>2, <4>3, <4>4 DEF Fresh, Other, Side
      <4>. QED BY <1>1, <4>3, <4>5, <4>6
    <3>. QED BY <1>11, <3>1, <3>2 DEF Read
  <2>4. CASE s = "O" BY <1>1, <1>2, <1>4, <1>5, <2>1, <2>3, <2>4 DEF Patient, Ordered, Late
  <2>5. CASE s = "A" BY <1>1, <1>2, <1>4, <1>5, <2>1, <2>3, <2>5 DEF Patient, Ordered, Left
  <2>. QED BY <2>4, <2>5 DEF Side
<1>. QED BY <1>6, <1>7, <1>8, <1>9, <1>10, <1>11

\* Each step keeps what a patient person relies on.
LEMMA PatientStep == CallsInv /\ Patient /\ [Next]_vars => Patient'
<1>. SUFFICES ASSUME CallsInv, Patient, [Next]_vars PROVE Patient'
  OBVIOUS
<1>1. ASSUME NEW s \in Side, Run(s) \/ Person(s) \/ Applied(s) \/ Network(s) \/ Spin(s)
      PROVE  Patient'
  <2>1. CASE Start(s) \/ Enter(s) BY <2>1, PatientPerson
  <2>2. CASE Ask(s) \/ Applied(s) \/ Describe(s) \/ Truncate(s) \/ Write(s) \/ Read(s)
    BY <2>2, PatientTexts
  <2>3. CASE \/ LibInit(s) \/ Peer(s) \/ SendBurst(s) \/ Linger(s) \/ Destroy(s) \/ Dispose(s)
             \/ Exit(s) \/ SendLine(s) \/ Quit(s) \/ EndOfInput(s) \/ Kill(s) \/ Network(s)
             \/ Spin(s)
    <3>1. hasty' = hasty /\ UNCHANGED textVars
      BY <2>3
      DEF LibInit, Peer, SendBurst, Linger, Destroy, Dispose, Exit, SendLine, Quit, EndOfInput,
          Kill, Network, Opens, Deliver, Closes, Spin, Send, vars
    <3>2. \/ UNCHANGED at
          \/ Crash(s) /\ at[s] # "start"
          \/ Proceed(s) /\ at[s] \notin {"start", "enter", "write", "read"}
      BY <2>3
      DEF LibInit, Peer, SendBurst, Linger, Destroy, Dispose, Exit, SendLine, Quit, EndOfInput,
          Kill, Network, Opens, Deliver, Closes, Spin, vars, Live
    <3>. QED BY <3>1, <3>2, PatientGoesOn
  <2>. QED BY <1>1, <2>1, <2>2, <2>3 DEF Run, Person
<1>2. CASE UNCHANGED vars
  <2>1. UNCHANGED << at, file, local, copy, remote, hasty >> BY <1>2 DEF vars, textVars
  <2>. QED BY <2>1 DEF Patient
<1>. QED BY <1>1, <1>2 DEF Next, Over

\* A person who waits until the other program waits gives no peer an old description or
\* half a file, whatever was in the directory before.
THEOREM PatienceIsEnough == Spec => []HearsPresent
<1>1. Patient => HearsPresent BY DEF Patient, HearsPresent
<1>. QED BY <1>1, CallsInit, CallsStep, PatientInit, PatientStep, PTL DEF Spec

-----------------------------------------------------------------------------
(* What is taken is heard                                                  *)

\* A program that has had its peer, and has it no more.
Gone(s) == at[s] \in {"dispose", "stop", "exit", "exited", "crashed"}

\* A channel closes only when one of the programs has gone.
ClosedInv == \A s \in Side : channel[s] = "closed" => \E r \in Side : Gone(r)

\* While both programs are there, a message that was taken and not heard is on the wire,
\* where the next Deliver finds it.
NothingStuck ==
  (\A r \in Side : Live(r)) => \A s \in Side : got[s] = taken[s] \/ wire[s] # << >>

\* Of the messages taken, the other program hears the first one it has not heard, and one
\* at a time.
HearsNext ==
  \A s \in Side :
    \/ got'[s] = got[s]
    \/ /\ Len(got[s]) < Len(taken[s])
       /\ got'[s] = Append(got[s], taken[s][Len(got[s]) + 1])

\* No call of a program that has gone leads back.
LEMMA GoneFollows ==
  ASSUME NEW p \in {"dispose", "stop", "exit", "exited", "crashed"}, NEW q, Follows(p, q)
  PROVE  q \in {"dispose", "stop", "exit", "exited", "crashed"}
BY DEF Follows

\* Who has gone does not come back.
LEMMA GoneStays ==
  ASSUME CallsInv, NEW s \in Side, Run(s) \/ Person(s) \/ Applied(s) \/ Network(s) \/ Spin(s),
         NEW r \in Side, Gone(r)
  PROVE  Gone(r)'
<1>1. Proceed(s) \/ Crash(s) \/ UNCHANGED at BY AtStep
<1>2. CASE UNCHANGED at BY <1>2 DEF Gone
<1>3. CASE Proceed(s) \/ Crash(s)
  <2>1. /\ \A q \in Side \ {s} : at'[q] = at[q]
        /\ at'[s] = "crashed" \/ Follows(at[s], at'[s])
    BY <1>3, Moves
  <2>2. Follows(at[s], at'[s]) /\ Gone(s) => Gone(s)'
    BY GoneFollows DEF Gone
  <2>. QED BY <2>1, <2>2 DEF Gone
<1>. QED BY <1>1, <1>2, <1>3

\* A channel is closed by a program that goes, or because the other one has gone.
LEMMA ClosedStep == CallsInv /\ ChannelInv /\ WireInv /\ ClosedInv /\ [Next]_vars => ClosedInv'
<1>. SUFFICES ASSUME CallsInv, ChannelInv, WireInv, ClosedInv, [Next]_vars, NEW c \in Side,
                     channel'[c] = "closed"
              PROVE  \E r \in Side : Gone(r)'
  BY DEF ClosedInv
<1>1. ASSUME NEW s \in Side, Run(s) \/ Person(s) \/ Applied(s) \/ Network(s) \/ Spin(s)
      PROVE  \E r \in Side : Gone(r)'
  <2>1. CASE channel[c] = "closed"
    <3>1. PICK r \in Side : Gone(r) BY <2>1 DEF ClosedInv
    <3>. QED BY <1>1, <3>1, GoneStays
  <2>2. CASE Destroy(s) \/ Kill(s)
    <3>1. (Proceed(s) /\ at[s] = "destroy") \/ Crash(s) BY <2>2 DEF Destroy, Kill
    <3>2. at'[s] = "crashed" \/ Follows(at[s], at'[s]) BY <3>1, Moves
    <3>3. Crash(s) => at'[s] = "crashed" BY DEF Crash, Goto, CallsInv
    <3>. QED BY <3>1, <3>2, <3>3 DEF Follows, Gone
  <2>3. CASE Closes(s)
    <3>1. channel[s] = "open" /\ ~Live(Other[s]) /\ Other[s] \in Side /\ UNCHANGED at
      BY <2>3, Others DEF Closes
    <3>2. ~Early(Other[s]) BY <3>1 DEF WireInv, WireOf
    <3>3. Gone(Other[s]) BY <3>1, <3>2 DEF Live, Early, Gone
    <3>. QED BY <3>1, <3>3 DEF Gone
  <2>4. CASE channel[c] # "closed" /\ ~Destroy(s) /\ ~Kill(s) /\ ~Closes(s)
    <3>1. UNCHANGED channel \/ Peer(s) \/ Opens(s)
      BY <1>1, <2>4, ChannelSteps DEF chanVars, Deliver, Send
    <3>2. Peer(s) \/ Opens(s) => channel'[c] = channel[c] \/ channel'[c] \in {"connecting", "open"}
      BY DEF Peer, Opens, ChannelInv
    <3>. QED BY <2>4, <3>1, <3>2
  <2>. QED BY <2>1, <2>2, <2>3, <2>4
<1>2. CASE UNCHANGED vars BY <1>2 DEF vars, chanVars, ClosedInv, Gone
<1>. QED BY <1>1, <1>2 DEF Next, Over

\* A step adds to what was heard the message that comes next.
LEMMA HearsStep == ChannelInv /\ WireInv /\ [Next]_vars => HearsNext
<1>. SUFFICES ASSUME ChannelInv, WireInv, [Next]_vars, NEW c \in Side
              PROVE  \/ got'[c] = got[c]
                     \/ /\ Len(got[c]) < Len(taken[c])
                        /\ got'[c] = Append(got[c], taken[c][Len(got[c]) + 1])
  BY DEF HearsNext
<1>1. ASSUME NEW s \in Side, Deliver(s), got'[c] # got[c]
      PROVE  /\ Len(got[c]) < Len(taken[c])
             /\ got'[c] = Append(got[c], taken[c][Len(got[c]) + 1])
  <2>1. c = s /\ wired[c] /\ got'[c] = Append(got[c], Head(wire[c]))
    BY <1>1 DEF Deliver, ChannelInv
  <2>2. wire[c] # << >> /\ wire[c] \in Seq(Nat) /\ Live(Other[c])
    BY <1>1, <2>1 DEF Deliver, ChannelInv
  <2>3. Continues(c) BY <2>2 DEF WireInv, WireOf
  <2>4. 1 \in 1..Len(wire[c]) /\ Head(wire[c]) = wire[c][1] BY <2>2
  <2>5. Len(got[c]) + 1 <= Len(taken[c]) /\ wire[c][1] = taken[c][Len(got[c]) + 1]
    BY <2>1, <2>3, <2>4 DEF Continues
  <2>6. Len(got[c]) \in Nat /\ Len(taken[c]) \in Nat BY DEF ChannelInv
  <2>. QED BY <2>1, <2>4, <2>5, <2>6
<1>2. ASSUME NEW s \in Side, Run(s) \/ Person(s) \/ Applied(s) \/ Network(s) \/ Spin(s)
      PROVE  UNCHANGED got \/ Deliver(s)
  BY <1>2, ChannelSteps DEF chanVars, Peer, Destroy, Kill, Opens, Closes, Send
<1>3. CASE UNCHANGED got BY <1>3
<1>. QED BY <1>1, <1>2, <1>3 DEF Next, Over, vars, chanVars

\* Between two programs that stay nothing is lost and nothing gets stuck: what was taken has
\* been heard or is on its way, and is heard message by message.  Heard adds that the way
\* comes to an end.
THEOREM NothingGetsStuck == Spec => []NothingStuck /\ [][HearsNext]_vars
<1>1. Init => ClosedInv BY DEF Init, ClosedInv
<1>2. ChannelInv /\ WireInv /\ ClosedInv => NothingStuck
  <2>. SUFFICES ASSUME ChannelInv, WireInv, ClosedInv, \A r \in Side : Live(r),
                       NEW s \in Side, wire[s] = << >>
                PROVE  got[s] = taken[s]
    BY DEF NothingStuck
  <2>1. channel[s] # "closed" BY DEF ClosedInv, Live, Gone
  <2>2. Live(Other[s]) BY Others
  <2>3. got[s] \in Seq(Nat) /\ taken[s] \in Seq(Nat) /\ Len(wire[s]) = 0 BY DEF ChannelInv
  <2>4. CASE channel[s] \in {"none", "connecting"} BY <2>4 DEF WireInv, WireOf, Quiet
  <2>5. CASE channel[s] = "open"
    <3>1. UpToDate(s) BY <2>2, <2>5 DEF WireInv, WireOf
    <3>2. Len(got[s]) = Len(taken[s]) BY <2>3, <3>1 DEF UpToDate
    <3>3. \A p \in 1..Len(got[s]) : got[s][p] = taken[s][p] BY DEF WireInv, WireOf
    <3>. QED BY <2>3, <3>2, <3>3, SeqEqual
  <2>. QED BY <2>1, <2>4, <2>5 DEF ChannelInv
<1>. QED BY <1>1, <1>2, ClosedStep, HearsStep, CallsInit, CallsStep, ChannelInit, ChannelStep,
            WireInit, WireStep, PTL DEF Spec

-----------------------------------------------------------------------------
(* A program comes to its end                                              *)

\* Where nothing has been sent, and where nobody has to press a key any more.
Before == {"start", "init", "factory", "peer", "offer", "describe", "truncate", "write",
           "enter", "read", "answer", "enter2"}
Ending == {"burst", "linger", "destroy", "dispose", "stop", "exit"}

\* The calls that are left, the turns of the loop among them.
Calls == [burst |-> 6, linger |-> 5, destroy |-> 4, dispose |-> 3, stop |-> 2, exit |-> 1,
          exited |-> 0, crashed |-> 0]
ToGo(s) == Calls[at[s]] + (IF at[s] = "burst" THEN Burst - sends[s] ELSE 0)

\* The loop is entered with nothing sent, and turned no further than its bound.
BurstInv ==
  \A s \in Side : /\ at[s] \in Before => sends[s] = 0
                  /\ at[s] = "burst" => sends[s] <= Burst

\* A program at its end always has a call to make: the loop either turns or is left.
EndIsOpen ==
  \A s \in Side : at[s] \in Ending => /\ ToGo(s) \in Nat \ {0}
                                      /\ at[s] = "burst" => sends[s] \in 0..Burst

\* No step leads away from the end, and each step of the program itself is one less to go.
EndComes ==
  \A s \in Side : at[s] \in Ending =>
    /\ at'[s] \in Ending \/ Ended(s)'
    /\ ToGo(s)' <= ToGo(s)
    /\ Run(s) => ToGo(s)' < ToGo(s)

\* The next call of a program, as far as the end goes.
Nearer(p, q) ==
  /\ q \in Before => p \in Before
  /\ q = "burst" => p \in Before
  /\ p \in Ending => q \in DOMAIN Calls /\ q # "burst" /\ Calls[q] < Calls[p]

LEMMA NextNearer ==
  ASSUME CallsInv, NEW s \in Side, Proceed(s)
  PROVE  Nearer(at[s], at'[s])
<1>0. PICK program \in Programs(s) :
        \E n \in 1..(Len(program) - 1) : program[n] = at[s] /\ Goto(s, program[n + 1])
  BY DEF Proceed
<1>1. PICK n \in 1..(Len(program) - 1) : program[n] = at[s] /\ Goto(s, program[n + 1])
  BY <1>0
<1>2. Nearer(program[n], program[n + 1])
  <2>1. CASE program = AnswerCalls
    <3>1. n \in 1..14 BY <2>1 DEF AnswerCalls
    <3>. QED BY <2>1, <3>1 DEF Nearer, Before, Ending, Calls, AnswerCalls
  <2>2. CASE program = BurstCalls
    <3>1. n \in 1..17 BY <2>2 DEF BurstCalls
    <3>. QED BY <2>2, <3>1 DEF Nearer, Before, Ending, Calls, BurstCalls
  <2>3. CASE program = TypedCalls
    <3>1. n \in 1..15 BY <2>3 DEF TypedCalls
    <3>. QED BY <2>3, <3>1 DEF Nearer, Before, Ending, Calls, TypedCalls
  <2>. QED BY <1>1, <2>1, <2>2, <2>3 DEF Programs
<1>. QED BY <1>1, <1>2 DEF Goto, CallsInv

\* A step has a program go on or crash, or send, at one of two places, or leaves both alone.
LEMMA EndMoves ==
  ASSUME NEW s \in Side, Run(s) \/ Person(s) \/ Applied(s) \/ Network(s) \/ Spin(s)
  PROVE  \/ (Proceed(s) \/ Crash(s)) /\ UNCHANGED sends
         \/ UNCHANGED << at, sends >>
         \/ /\ UNCHANGED at /\ sends' = [sends EXCEPT ![s] = @ + 1]
            /\ (at[s] = "burst" /\ sends[s] < Burst) \/ at[s] = "input"
BY DEF Run, Person, Network, Start, LibInit, Peer, Dispose, Destroy, Exit, Kill, Ask, Applied,
       Describe, Truncate, Write, Enter, Read, Opens, Deliver, Closes, SendBurst, Send, Linger,
       SendLine, Quit, EndOfInput, Spin, vars, chanVars

\* A step of the program itself, at its end, is never one that leaves both alone.
LEMMA EndRuns ==
  ASSUME NEW s \in Side, Run(s), at[s] \in Ending
  PROVE  \/ (Proceed(s) \/ Crash(s)) /\ UNCHANGED sends
         \/ /\ UNCHANGED at /\ sends' = [sends EXCEPT ![s] = @ + 1]
            /\ at[s] = "burst" /\ sends[s] < Burst
BY DEF Run, LibInit, Peer, Dispose, Destroy, Exit, Ask, Describe, Truncate, Write, Read,
       SendBurst, Send, Linger, chanVars, Ending

\* The loop starts at nothing and stops at its bound.
LEMMA BurstStep == CallsInv /\ ChannelInv /\ BurstInv /\ [Next]_vars => BurstInv'
<1>. SUFFICES ASSUME CallsInv, ChannelInv, BurstInv, [Next]_vars PROVE BurstInv'
  OBVIOUS
<1>0. Burst \in Nat /\ sends \in [Side -> Nat] /\ at \in [Side -> Places]
  BY DriversAssumption DEF DriversAssumption, CallsInv, ChannelInv
<1>1. ASSUME NEW s \in Side, Run(s) \/ Person(s) \/ Applied(s) \/ Network(s) \/ Spin(s)
      PROVE  BurstInv'
  <2>1. CASE (Proceed(s) \/ Crash(s)) /\ UNCHANGED sends
    <3>1. \A r \in Side \ {s} : at'[r] = at[r] BY <2>1, Moves
    <3>2. Crash(s) => at'[s] = "crashed" BY <1>0 DEF Crash, Goto
    <3>3. Proceed(s) => Nearer(at[s], at'[s]) BY NextNearer
    <3>4. /\ at'[s] \in Before => at[s] \in Before
          /\ at'[s] = "burst" => at[s] \in Before
      BY <2>1, <3>2, <3>3 DEF Nearer, Before
    <3>. QED BY <1>0, <2>1, <3>1, <3>4 DEF BurstInv
  <2>2. CASE UNCHANGED << at, sends >> BY <2>2 DEF BurstInv
  <2>3. CASE /\ UNCHANGED at /\ sends' = [sends EXCEPT ![s] = @ + 1]
             /\ (at[s] = "burst" /\ sends[s] < Burst) \/ at[s] = "input"
    BY <1>0, <2>3 DEF BurstInv, Before
  <2>. QED BY <1>1, <2>1, <2>2, <2>3, EndMoves
<1>2. CASE UNCHANGED vars BY <1>2 DEF vars, chanVars, BurstInv
<1>. QED BY <1>1, <1>2 DEF Next, Over

\* There is less to go for a program after each of its steps, and never more.
LEMMA EndStep == CallsInv /\ ChannelInv /\ BurstInv /\ [Next]_vars => EndComes \/ UNCHANGED vars
<1>. SUFFICES ASSUME CallsInv, ChannelInv, BurstInv, [Next]_vars, ~UNCHANGED vars,
                     NEW c \in Side, at[c] \in Ending
              PROVE  /\ at'[c] \in Ending \/ Ended(c)'
                     /\ ToGo(c)' <= ToGo(c)
                     /\ Run(c) => ToGo(c)' < ToGo(c)
  BY DEF EndComes
<1>0. /\ Burst \in Nat /\ sends \in [Side -> Nat] /\ at \in [Side -> Places]
      /\ at[c] = "burst" => sends[c] <= Burst
  BY DriversAssumption DEF DriversAssumption, CallsInv, ChannelInv, BurstInv
<1>1. ToGo(c) \in Nat BY <1>0 DEF ToGo, Calls, Ending
<1>2. ASSUME Proceed(c) \/ Crash(c), UNCHANGED sends
      PROVE  (at'[c] \in Ending \/ Ended(c)') /\ ToGo(c)' < ToGo(c)
  <2>1. Crash(c) => at'[c] = "crashed" BY <1>0 DEF Crash, Goto
  <2>2. Proceed(c) => Nearer(at[c], at'[c]) BY NextNearer
  <2>3. /\ at'[c] \in {"linger", "destroy", "dispose", "stop", "exit", "exited", "crashed"}
        /\ Calls[at'[c]] < Calls[at[c]]
    BY <1>2, <2>1, <2>2 DEF Nearer, Calls, Ending
  <2>4. Calls[at'[c]] \in Nat /\ Calls[at[c]] \in Nat BY <2>3 DEF Calls, Ending
  <2>5. ToGo(c)' = Calls[at'[c]] BY <2>3, <2>4 DEF ToGo
  <2>6. ToGo(c) >= Calls[at[c]] BY <1>0 DEF ToGo, Calls, Ending
  <2>7. ToGo(c)' < ToGo(c) BY <1>1, <2>3, <2>4, <2>5, <2>6
  <2>8. at'[c] \in Ending \/ Ended(c)' BY <2>3 DEF Ending, Ended
  <2>. QED BY <2>7, <2>8
<1>3. ASSUME UNCHANGED at, at[c] = "burst", sends[c] < Burst, sends'[c] = sends[c] + 1
      PROVE  ToGo(c)' < ToGo(c)
  BY <1>0, <1>3 DEF ToGo, Calls
<1>4. ASSUME at'[c] = at[c], sends'[c] = sends[c] PROVE ToGo(c)' = ToGo(c)
  BY <1>4 DEF ToGo
<1>5. Run(c) => ToGo(c)' < ToGo(c)
  <2>. SUFFICES ASSUME Run(c) PROVE ToGo(c)' < ToGo(c)
    OBVIOUS
  <2>1. \/ (Proceed(c) \/ Crash(c)) /\ UNCHANGED sends
        \/ /\ UNCHANGED at /\ sends' = [sends EXCEPT ![c] = @ + 1]
           /\ at[c] = "burst" /\ sends[c] < Burst
    BY EndRuns
  <2>. QED BY <1>0, <1>2, <1>3, <2>1
<1>6. ASSUME NEW s \in Side, Run(s) \/ Person(s) \/ Applied(s) \/ Network(s) \/ Spin(s)
      PROVE  (at'[c] \in Ending \/ Ended(c)') /\ ToGo(c)' <= ToGo(c)
  <2>1. CASE s = c /\ (Proceed(s) \/ Crash(s)) /\ UNCHANGED sends
    <3>1. (at'[c] \in Ending \/ Ended(c)') /\ ToGo(c)' < ToGo(c) BY <1>2, <2>1
    <3>2. ToGo(c)' \in Int BY <2>1, <3>1, <1>0 DEF ToGo, Calls, Ending, Ended
    <3>. QED BY <1>1, <3>1, <3>2
  <2>2. CASE s # c /\ (Proceed(s) \/ Crash(s)) /\ UNCHANGED sends
    <3>1. at'[c] = at[c] BY <2>2, Moves
    <3>. QED BY <1>1, <1>4, <2>2, <3>1
  <2>3. CASE UNCHANGED << at, sends >> BY <1>1, <1>4, <2>3
  <2>4. CASE /\ UNCHANGED at /\ sends' = [sends EXCEPT ![s] = @ + 1]
             /\ (at[s] = "burst" /\ sends[s] < Burst) \/ at[s] = "input"
    <3>1. CASE s = c
      <4>1. at[c] = "burst" /\ sends[c] < Burst /\ sends'[c] = sends[c] + 1
        BY <1>0, <2>4, <3>1 DEF Ending
      <4>2. ToGo(c)' <= ToGo(c) BY <1>0, <2>4, <4>1 DEF ToGo, Calls
      <4>. QED BY <2>4, <4>2
    <3>2. CASE s # c
      <4>1. sends'[c] = sends[c] BY <1>0, <2>4, <3>2
      <4>. QED BY <1>1, <1>4, <2>4, <4>1
    <3>. QED BY <3>1, <3>2
  <2>. QED BY <1>6, <2>1, <2>2, <2>3, <2>4, EndMoves
<1>. QED BY <1>5, <1>6 DEF Next, Over

\* From the burst on, and from Destroy on, a program always has its next call, no step of
\* anybody leads it back, and each of its own is one less to go, whether a channel opens,
\* stays or closes.  Ends adds that the program is scheduled.
THEOREM EndGoesOn == Spec => []EndIsOpen /\ [][EndComes]_vars
<1>1. Init => BurstInv BY DEF Init, BurstInv
<1>2. ChannelInv /\ BurstInv => EndIsOpen
  <2>. SUFFICES ASSUME ChannelInv, BurstInv, NEW s \in Side, at[s] \in Ending
                PROVE  /\ ToGo(s) \in Nat \ {0}
                       /\ at[s] = "burst" => sends[s] \in 0..Burst
    BY DEF EndIsOpen
  <2>1. Burst \in Nat /\ sends[s] \in Nat BY DriversAssumption DEF DriversAssumption, ChannelInv
  <2>. QED BY <2>1 DEF BurstInv, ToGo, Calls, Ending
<1>3. CallsInv /\ ChannelInv /\ BurstInv /\ [Next]_vars => [EndComes]_vars BY EndStep
<1>. QED BY <1>1, <1>2, <1>3, BurstStep, CallsInit, CallsStep, ChannelInit, ChannelStep,
            PTL DEF Spec
=============================================================================
