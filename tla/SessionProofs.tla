--------------------------- MODULE SessionProofs ---------------------------
(***************************************************************************)
(* The session implements RequestService and keeps its books, for any        *)
(* requests, any number of attempts, frames per turn and losses, and any     *)
(* size of the send buffer.                                                  *)
(*                                                                          *)
(* The first inductive invariant, Inv, is what the session knows by itself:   *)
(* TypeOK with what each request may be at any time (NoneDropped, ToldOnce),  *)
(* what the unacknowledged frames carry (AwaitingOneRequest), and that a      *)
(* closed session holds nothing.  On it rests the refinement.                 *)
(*                                                                          *)
(* The second, Traffic, ties the session to the frames on the link and to     *)
(* what the headset has: what belongs to whom on the wire, and with which     *)
(* sequence number.  Two more rest on both: Kept is about the commands of the *)
(* headset and the acknowledgements it waits for, RepliesAreReplies about its *)
(* answers.                                                                   *)
(***************************************************************************)
EXTENDS Session, SequenceTheorems, FiniteSetTheorems, FunctionTheorems, TLAPS

\* A session that is not open is dead and has nothing under way.
ClosedIsEmpty ==
  ~open => /\ ~alive
           /\ queue = <<>> /\ awaiting = <<>> /\ outstanding = NoRequest

\* What the session knows of its requests.
Books ==
  ClosedIsEmpty /\ AwaitingOneRequest /\ NoneDropped /\ ToldOnce /\ OnePerKey

Inv == TypeOK /\ Books

-----------------------------------------------------------------------------
(* Sequences. *)

\* What is in a sequence one element longer.
LEMMA AppendElements ==
  ASSUME NEW S, NEW s \in Seq(S), NEW x \in S
  PROVE  LET t == Append(s, x)
         IN  {t[i] : i \in DOMAIN t} = {s[i] : i \in DOMAIN s} \cup {x}
<1> DEFINE t == Append(s, x)
<1>1. t \in Seq(S) /\ Len(t) = Len(s) + 1 /\ Len(s) \in Nat
  BY AppendProperties
<1>2. /\ \A i \in 1..Len(s) : t[i] = s[i]
      /\ t[Len(s) + 1] = x
  BY AppendProperties
<1>3. DOMAIN s = 1..Len(s) /\ DOMAIN t = 1..(Len(s) + 1)
  BY <1>1, LenProperties
<1> HIDE DEF t
<1>4. {t[i] : i \in DOMAIN t} = {s[i] : i \in DOMAIN s} \cup {x}
  BY <1>1, <1>2, <1>3
<1> QED BY <1>4 DEF t

\* What is in a sequence of different elements without its first.
LEMMA TailElements ==
  ASSUME NEW S, NEW s \in Seq(S), s # <<>>,
         \A i, j \in DOMAIN s : s[i] = s[j] => i = j
  PROVE  LET t == Tail(s)
         IN  /\ {t[i] : i \in DOMAIN t} = {s[i] : i \in DOMAIN s} \ {Head(s)}
             /\ \A i, j \in DOMAIN t : t[i] = t[j] => i = j
             /\ Head(s) \in {s[i] : i \in DOMAIN s}
<1> DEFINE t == Tail(s)
<1>1. t \in Seq(S) /\ Len(t) = Len(s) - 1 /\ \A i \in 1..Len(t) : t[i] = s[i + 1]
  BY HeadTailProperties
<1>2. DOMAIN s = 1..Len(s) /\ DOMAIN t = 1..Len(t) /\ Len(s) \in Nat /\ Len(t) \in Nat
  BY <1>1, LenProperties
<1>3. Head(s) = s[1] /\ 1 \in DOMAIN s
  BY <1>1, <1>2
<1> HIDE DEF t
<1>4. ASSUME NEW i \in DOMAIN s, i # 1
      PROVE  i - 1 \in DOMAIN t /\ t[i - 1] = s[i] /\ s[i] # Head(s)
  BY <1>1, <1>2, <1>3, <1>4
<1>5. ASSUME NEW i \in DOMAIN t
      PROVE  i + 1 \in DOMAIN s /\ t[i] = s[i + 1] /\ t[i] # Head(s)
  BY <1>1, <1>2, <1>3
<1>6. {t[i] : i \in DOMAIN t} = {s[i] : i \in DOMAIN s} \ {Head(s)}
  <2>1. ASSUME NEW y \in {t[i] : i \in DOMAIN t}
        PROVE  y \in {s[i] : i \in DOMAIN s} \ {Head(s)}
    BY <1>5
  <2>2. ASSUME NEW y \in {s[i] : i \in DOMAIN s} \ {Head(s)}
        PROVE  y \in {t[i] : i \in DOMAIN t}
    <3>1. PICK i \in DOMAIN s : y = s[i]
      OBVIOUS
    <3>2. i # 1
      BY <3>1, <1>3
    <3> QED BY <3>1, <3>2, <1>4
  <2> QED BY <2>1, <2>2
<1>7. \A i, j \in DOMAIN t : t[i] = t[j] => i = j
  BY <1>2, <1>5
<1> QED BY <1>3, <1>6, <1>7 DEF t

-----------------------------------------------------------------------------
(* The helpers. *)

\* Writing keeps frames frames, in the outbox and in a buffer that is not
\* overrun.
LEMMA WriteOutType ==
  ASSUME TypeOK, NEW frames \in Seq(HostFrames), WriteOut(frames)
  PROVE  /\ outbox' \in Seq(HostFrames) /\ toHeadset' \in Seq(HostFrames)
         /\ Len(toHeadset') <= SendSpace
<1> DEFINE out == outbox \o frames
<1>1. out \in Seq(HostFrames)
  BY DEF TypeOK
<1>2. Len(out) \in Nat /\ Len(toHeadset) \in Nat /\ SendSpace \in Nat
  BY <1>1, BoundsAssumption DEF TypeOK
<1>3. Room(out) \in 0..Len(out) /\ Room(out) <= SendSpace - Len(toHeadset)
  BY <1>2 DEF Room, TypeOK
<1>4. toHeadset' = toHeadset \o SubSeq(out, 1, Room(out))
      /\ outbox' = SubSeq(out, Room(out) + 1, Len(out))
  BY DEF WriteOut
<1> HIDE DEF out
<1>5. SubSeq(out, 1, Room(out)) \in Seq(HostFrames)
      /\ Len(SubSeq(out, 1, Room(out))) = Room(out)
  BY <1>1, <1>2, <1>3, SubSeqProperties
<1>6. SubSeq(out, Room(out) + 1, Len(out)) \in Seq(HostFrames)
  BY <1>1, <1>2, <1>3, SubSeqProperties
<1>7. toHeadset' \in Seq(HostFrames)
      /\ Len(toHeadset') = Len(toHeadset) + Room(out)
  BY <1>4, <1>5, ConcatProperties DEF TypeOK
<1> QED BY <1>2, <1>3, <1>4, <1>6, <1>7

\* Sending keeps the types and adds the request to those awaited.
LEMMA SendType ==
  ASSUME TypeOK, NEW r \in Requests, Send(r)
  PROVE  /\ outbox' \in Seq(HostFrames) /\ toHeadset' \in Seq(HostFrames)
         /\ Len(toHeadset') <= SendSpace
         /\ awaiting' \in Seq(Requests)
         /\ Awaited' = Awaited \cup {r}
         /\ acked' = FALSE /\ expired' = FALSE
<1>1. <<Command(seq, r)>> \in Seq(HostFrames)
  BY DEF TypeOK, Command, HostFrames
<1>2. WriteOut(<<Command(seq, r)>>)
  BY DEF Send
<1>3. awaiting' \in Seq(Requests) /\ Awaited' = Awaited \cup {r}
  <2>1. awaiting' = Append(awaiting, r)
    BY DEF Send
  <2>2. awaiting \in Seq(Requests)
    BY DEF TypeOK
  <2>3. Append(awaiting, r) \in Seq(Requests)
    BY <2>2
  <2>4. {Append(awaiting, r)[i] : i \in DOMAIN Append(awaiting, r)}
          = {awaiting[i] : i \in DOMAIN awaiting} \cup {r}
    BY <2>2, AppendElements
  <2> QED BY <2>1, <2>3, <2>4 DEF Awaited
<1> QED BY <1>1, <1>2, <1>3, WriteOutType DEF Send

\* Starting the next request takes it off the queue.
LEMMA StartNextType ==
  ASSUME TypeOK, MayStart, StartNext
  PROVE  /\ outbox' \in Seq(HostFrames) /\ toHeadset' \in Seq(HostFrames)
         /\ Len(toHeadset') <= SendSpace
         /\ awaiting' \in Seq(Requests) /\ Awaited' = {outstanding'}
         /\ queue # <<>> /\ queue' = Tail(queue) /\ queue' \in Seq(Requests)
         /\ outstanding' = Head(queue) /\ outstanding' \in Requests
         /\ attempts' \in 0..MaxAttempts
         /\ acked' \in BOOLEAN /\ expired' \in BOOLEAN
<1>1. queue # <<>> /\ awaiting = <<>>
  BY DEF MayStart
<1>2. Head(queue) \in Requests /\ Tail(queue) \in Seq(Requests)
  BY <1>1 DEF TypeOK
<1>3. Send(Head(queue))
  BY DEF StartNext
<1>4. Awaited = {}
  BY <1>1 DEF Awaited
<1>5. Awaited' = {Head(queue)}
  BY <1>2, <1>3, <1>4, SendType
<1>6. attempts' \in 0..MaxAttempts
  BY BoundsAssumption DEF StartNext
<1>7. queue' = Tail(queue) /\ outstanding' = Head(queue)
  BY DEF StartNext
<1>8. /\ outbox' \in Seq(HostFrames) /\ toHeadset' \in Seq(HostFrames)
      /\ Len(toHeadset') <= SendSpace /\ awaiting' \in Seq(Requests)
      /\ acked' = FALSE /\ expired' = FALSE
  BY <1>2, <1>3, SendType
<1> QED BY <1>1, <1>2, <1>5, <1>6, <1>7, <1>8

\* Telling a set of requests their outcome.
LEMMA FinishType ==
  ASSUME TypeOK, NEW R, NEW o \in Outcomes, Finish(R, o)
  PROVE  /\ told' \in [Requests -> Seq(Outcomes)]
         /\ \A r \in Requests : told'[r] = IF r \in R THEN Append(told[r], o) ELSE told[r]
         /\ \A r \in Requests \cap R :
              told'[r] # <<>> /\ Len(told'[r]) = Len(told[r]) + 1
<1>1. told' = [r \in Requests |-> IF r \in R THEN Append(told[r], o) ELSE told[r]]
  BY DEF Finish
<1>2. \A r \in Requests : told[r] \in Seq(Outcomes)
  BY DEF TypeOK
<1>3. \A r \in Requests : /\ Append(told[r], o) \in Seq(Outcomes)
                          /\ Append(told[r], o) # <<>>
                          /\ Len(Append(told[r], o)) = Len(told[r]) + 1
  BY <1>2, AppendProperties
<1> QED BY <1>1, <1>2, <1>3

\* A write that replaces another replaces one of those in the queue.
LEMMA SubmitCases ==
  ASSUME TypeOK, NEW r \in Requests, Submit(r)
  PROVE  \/ UNCHANGED told /\ queue' = Append(queue, r)
         \/ \E i \in DOMAIN queue :
              key[queue[i]] = key[r] /\ key[r] # NoKey /\ Supersede(i, r)
BY DEF Submit

-----------------------------------------------------------------------------
(* Types. *)

\* The flags.
FlagTypes ==
  /\ open \in BOOLEAN /\ alive \in BOOLEAN /\ waiting \in BOOLEAN
  /\ acked \in BOOLEAN /\ expired \in BOOLEAN
  /\ offering \in BOOLEAN /\ forgot \in BOOLEAN

\* What the host's part of TypeOK says, for the steps that leave the rest.
HostTypes ==
  /\ seq \in {0, 1}
  /\ queue \in Seq(Requests) /\ awaiting \in Seq(Requests)
  /\ outstanding \in Requests \cup {NoRequest}
  /\ attempts \in 0..MaxAttempts /\ reads \in 0..ReadsPerTurn
  /\ submitted \subseteq Requests /\ told \in [Requests -> Seq(Outcomes)]

\* And what it says of the link and of the headset.
LinkTypes ==
  /\ outbox \in Seq(HostFrames)
  /\ toHeadset \in Seq(HostFrames) /\ Len(toHeadset) <= SendSpace
  /\ toHost \in Seq(HeadsetFrames) /\ losses \in 0..MaxLosses

HeadsetTypes ==
  /\ expects \in {0, 1} /\ ownSeq \in {0, 1}
  /\ ackDue \in Seq({0, 1}) /\ replyDue \in Seq(Requests)
  /\ taken \subseteq Requests /\ answered \subseteq Requests

\* Together they are TypeOK.
LEMMA TypeParts == TypeOK <=> FlagTypes /\ HostTypes /\ LinkTypes /\ HeadsetTypes
BY DEF TypeOK, FlagTypes, HostTypes, LinkTypes, HeadsetTypes

\* At any step: the next state has its types when all the parts have.
LEMMA TypePartsNext ==
  ASSUME FlagTypes', HostTypes', LinkTypes', HeadsetTypes'
  PROVE  TypeOK'
BY DEF TypeOK, FlagTypes, HostTypes, LinkTypes, HeadsetTypes

\* The initial states have their types.
LEMMA InitType == ASSUME Init PROVE TypeOK
<1>1. HostTypes
  BY BoundsAssumption DEF Init, HostTypes
<1>2. LinkTypes
  BY BoundsAssumption DEF Init, LinkTypes
<1>3. HeadsetTypes
  BY DEF Init, HeadsetTypes
<1>4. FlagTypes
  BY DEF Init, FlagTypes
<1> QED BY <1>1, <1>2, <1>3, <1>4, TypeParts

\* Giving up on everything leaves nothing.
LEMMA AbandonType ==
  ASSUME TypeOK, AbandonAll
  PROVE  /\ queue' = <<>> /\ awaiting' = <<>> /\ outstanding' = NoRequest
         /\ queue' \in Seq(Requests) /\ awaiting' \in Seq(Requests)
         /\ attempts' \in 0..MaxAttempts
         /\ acked' \in BOOLEAN /\ expired' \in BOOLEAN
         /\ told' \in [Requests -> Seq(Outcomes)]
<1>1. Finish(Pending, "failed")
  BY DEF AbandonAll
<1>2. told' \in [Requests -> Seq(Outcomes)]
  BY <1>1, FinishType DEF Outcomes
<1>3. queue' = <<>> /\ awaiting' = <<>> /\ NoOutstanding
  BY DEF AbandonAll
<1>4. queue' \in Seq(Requests) /\ awaiting' \in Seq(Requests)
  BY <1>3
<1>5. outstanding' = NoRequest /\ attempts' \in 0..MaxAttempts
  BY <1>3, BoundsAssumption DEF NoOutstanding
<1>6. acked' \in BOOLEAN /\ expired' \in BOOLEAN
  BY <1>3 DEF NoOutstanding
<1> QED BY <1>2, <1>3, <1>4, <1>5, <1>6

\* Reading takes the first frame, which is one of the headset's.
LEMMA ReadType ==
  ASSUME TypeOK, Read
  PROVE  /\ toHost' \in Seq(HeadsetFrames) /\ reads' \in 0..ReadsPerTurn
         /\ Head(toHost) \in HeadsetFrames /\ Head(toHost).seq \in {0, 1}
         /\ toHost # <<>> /\ open /\ alive
<1>1. toHost # <<>> /\ reads < ReadsPerTurn /\ open /\ alive
      /\ toHost' = Tail(toHost) /\ reads' = reads + 1
  BY DEF Read, Reading, Turning
<1>2. toHost \in Seq(HeadsetFrames) /\ reads \in 0..ReadsPerTurn
  BY DEF TypeOK
<1>3. Head(toHost) \in HeadsetFrames /\ Tail(toHost) \in Seq(HeadsetFrames)
  BY <1>1, <1>2, HeadTailProperties
<1>4. Head(toHost).seq \in {0, 1}
  BY <1>3 DEF HeadsetFrames
<1>5. reads + 1 \in 0..ReadsPerTurn
  BY <1>1, <1>2, BoundsAssumption
<1> QED BY <1>1, <1>3, <1>4, <1>5

\* The caller's steps keep the types.
LEMMA CallerType == ASSUME TypeOK, Caller PROVE TypeOK'
<1> USE DEF current, caller, host, headset, beyond
<1>1. ASSUME NEW r \in Requests, Submit(r) PROVE TypeOK'
  <2>1. queue' \in Seq(Requests) /\ told' \in [Requests -> Seq(Outcomes)]
    <3>1. CASE UNCHANGED told /\ queue' = Append(queue, r)
      BY <3>1 DEF TypeOK
    <3>2. ASSUME NEW i \in DOMAIN queue, Supersede(i, r)
          PROVE  queue' \in Seq(Requests) /\ told' \in [Requests -> Seq(Outcomes)]
      <4>1. queue \in Seq(Requests) /\ i \in 1..Len(queue)
        BY DEF TypeOK
      <4>2. Finish({queue[i]}, "failed") /\ queue' = [queue EXCEPT ![i] = r]
        BY <3>2 DEF Supersede
      <4>3. queue' \in Seq(Requests)
        BY <4>1, <4>2, ExceptSeq
      <4> QED BY <4>2, <4>3, FinishType DEF Outcomes
    <3>3. \/ UNCHANGED told /\ queue' = Append(queue, r)
          \/ \E i \in DOMAIN queue : Supersede(i, r)
      BY <1>1, SubmitCases DEF Submit
    <3> QED BY <3>1, <3>2, <3>3
  <2>2. submitted' \subseteq Requests
    BY <1>1 DEF Submit, TypeOK
  <2> QED BY <1>1, <2>1, <2>2 DEF Submit, TypeOK
<1>2. CASE BeginWait
  <2>1. \/ MayStart /\ StartNext
        \/ UNCHANGED <<current, queue, awaiting, outbox, toHeadset>>
    BY <1>2 DEF BeginWait
  <2>2. CASE MayStart /\ StartNext
    BY <1>2, <2>2, StartNextType DEF BeginWait, TypeOK
  <2>3. CASE UNCHANGED <<current, queue, awaiting, outbox, toHeadset>>
    BY <1>2, <2>3 DEF BeginWait, TypeOK
  <2> QED BY <2>1, <2>2, <2>3
<1>3. CASE EndWait
  BY <1>3 DEF EndWait, TypeOK
<1>4. CASE WaitTimesOut
  <2>1. AbandonAll /\ forgot' \in BOOLEAN
    BY <1>4 DEF WaitTimesOut, TypeOK
  <2> QED BY <1>4, <2>1, AbandonType DEF WaitTimesOut, TypeOK
<1>5. CASE Close
  <2>1. AbandonAll /\ ChannelGone /\ reads' \in 0..ReadsPerTurn
    BY <1>5, BoundsAssumption DEF Close
  <2>2. LinkTypes'
    BY <1>5, <2>1, BoundsAssumption DEF Close, ChannelGone, TypeOK, LinkTypes
  <2>3. HeadsetTypes'
    BY <1>5, <2>1 DEF Close, ChannelGone, TypeOK, HeadsetTypes
  <2>4. HostTypes'
    BY <1>5, <2>1, AbandonType DEF Close, TypeOK, HostTypes
  <2>5. FlagTypes'
    BY <1>5, <2>1, AbandonType DEF Close, ChannelGone, TypeOK, FlagTypes
  <2> QED BY <2>2, <2>3, <2>4, <2>5, TypePartsNext
<1>6. CASE Connect
  <2>1. HostTypes'
    BY <1>6, BoundsAssumption DEF Connect, NoOutstanding, TypeOK, HostTypes
  <2>2. LinkTypes' /\ HeadsetTypes'
    BY <1>6 DEF Connect, TypeOK, LinkTypes, HeadsetTypes
  <2>3. FlagTypes'
    BY <1>6 DEF Connect, NoOutstanding, TypeOK, FlagTypes
  <2> QED BY <2>1, <2>2, <2>3, TypePartsNext
<1> QED BY <1>1, <1>2, <1>3, <1>4, <1>5, <1>6 DEF Caller

\* What a turn does to the outstanding request when it is told.
LEMMA OutstandingTold ==
  ASSUME TypeOK, NEW o \in Outcomes, Finish({outstanding}, o), NoOutstanding
  PROVE  /\ told' \in [Requests -> Seq(Outcomes)]
         /\ outstanding' = NoRequest /\ attempts' \in 0..MaxAttempts
         /\ acked' \in BOOLEAN /\ expired' \in BOOLEAN
<1>1. told' \in [Requests -> Seq(Outcomes)]
  BY FinishType
<1>2. outstanding' = NoRequest /\ attempts' \in 0..MaxAttempts
  BY BoundsAssumption DEF NoOutstanding
<1>3. acked' \in BOOLEAN /\ expired' \in BOOLEAN
  BY DEF NoOutstanding
<1> QED BY <1>1, <1>2, <1>3

\* The steps of a turn keep the types.
LEMMA TurnType == ASSUME TypeOK, Turn PROVE TypeOK'
<1> USE DEF current, caller, host, headset, beyond
<1>0. FlagTypes /\ HostTypes /\ LinkTypes /\ HeadsetTypes
  BY TypeParts
<1>1. CASE HandleAck
  <2>1. /\ toHost' \in Seq(HeadsetFrames) /\ reads' \in 0..ReadsPerTurn
        /\ seq' \in {0, 1}
    BY <1>1, ReadType DEF HandleAck, HandedBack
  <2>2. awaiting' \in Seq(Requests)
    BY <1>1 DEF HandleAck, Settled, TypeOK
  <2>3. /\ told' \in [Requests -> Seq(Outcomes)]
        /\ outstanding' \in Requests \cup {NoRequest} /\ attempts' \in 0..MaxAttempts
        /\ acked' \in BOOLEAN /\ expired' \in BOOLEAN
    <3>1. CASE UNCHANGED <<current, told>>
      BY <3>1 DEF TypeOK
    <3>2. CASE Finish({outstanding}, "acked") /\ NoOutstanding
      BY <3>2, OutstandingTold DEF Outcomes
    <3>3. CASE acked' = TRUE /\ expired' = FALSE
               /\ UNCHANGED <<outstanding, attempts, told>>
      BY <3>3 DEF TypeOK
    <3> QED BY <1>1, <3>1, <3>2, <3>3 DEF HandleAck
  <2>4. HostTypes'
    BY <1>0, <1>1, <2>1, <2>2, <2>3 DEF HandleAck, HostTypes
  <2>5. LinkTypes' /\ HeadsetTypes'
    BY <1>0, <1>1, <2>1 DEF HandleAck, LinkTypes, HeadsetTypes
  <2>6. FlagTypes'
    BY <1>0, <1>1, <2>3 DEF HandleAck, FlagTypes
  <2> QED BY <2>4, <2>5, <2>6, TypePartsNext
<1>2. CASE HandleMessage
  <2>1. toHost' \in Seq(HeadsetFrames) /\ reads' \in 0..ReadsPerTurn
        /\ Head(toHost).seq \in {0, 1}
    BY <1>2, ReadType DEF HandleMessage
  <2>2. <<Ack(1 - Head(toHost).seq)>> \in Seq(HostFrames)
    <3>1. Ack(1 - Head(toHost).seq) \in HostFrames
      BY <2>1 DEF Ack, HostFrames
    <3> QED BY <3>1
  <2>3. /\ outbox' \in Seq(HostFrames) /\ toHeadset' \in Seq(HostFrames)
        /\ Len(toHeadset') <= SendSpace
    BY <1>2, <2>2, WriteOutType DEF HandleMessage
  <2>4. /\ told' \in [Requests -> Seq(Outcomes)]
        /\ outstanding' \in Requests \cup {NoRequest} /\ attempts' \in 0..MaxAttempts
        /\ acked' \in BOOLEAN /\ expired' \in BOOLEAN
    <3>1. CASE UNCHANGED <<current, told>>
      BY <3>1 DEF TypeOK
    <3>2. CASE Finish({outstanding}, "replied") /\ NoOutstanding
      BY <3>2, OutstandingTold DEF Outcomes
    <3> QED BY <1>2, <3>1, <3>2 DEF HandleMessage
  <2>5. HostTypes'
    BY <1>0, <1>2, <2>1, <2>4 DEF HandleMessage, HostTypes
  <2>6. LinkTypes' /\ HeadsetTypes'
    BY <1>0, <1>2, <2>1, <2>3 DEF HandleMessage, LinkTypes, HeadsetTypes
  <2>7. FlagTypes'
    BY <1>0, <1>2, <2>4 DEF HandleMessage, FlagTypes
  <2> QED BY <2>5, <2>6, <2>7, TypePartsNext
<1>3. CASE HandleMalformed
  <2>1. toHost' \in Seq(HeadsetFrames) /\ reads' \in 0..ReadsPerTurn
    BY <1>3, ReadType DEF HandleMalformed
  <2>2. losses' \in 0..MaxLosses
    BY <1>3, BoundsAssumption DEF HandleMalformed, TypeOK
  <2> QED BY <1>3, <2>1, <2>2 DEF HandleMalformed, TypeOK
<1>4. <<>> \in Seq(HostFrames) /\ 0 \in 0..ReadsPerTurn
  BY BoundsAssumption
<1>5. ASSUME WriteOut(<<>>)
      PROVE  /\ outbox' \in Seq(HostFrames) /\ toHeadset' \in Seq(HostFrames)
             /\ Len(toHeadset') <= SendSpace
  BY <1>4, <1>5, WriteOutType
<1>6. CASE EndTurn
  <2>1. CASE MayStart /\ StartNext
    BY <1>4, <1>6, <2>1, StartNextType DEF EndTurn, TypeOK
  <2>2. CASE WriteOut(<<>>) /\ UNCHANGED <<current, queue, awaiting>>
    BY <1>4, <1>5, <1>6, <2>2 DEF EndTurn, TypeOK
  <2> QED BY <1>6, <2>1, <2>2 DEF EndTurn
<1>7. CASE EndTurnSilent
  <2>1. told' \in [Requests -> Seq(Outcomes)]
    BY <1>7, FinishType DEF EndTurnSilent, Outcomes
  <2>2. CASE MayStart /\ StartNext
    BY <1>4, <1>7, <2>1, <2>2, StartNextType DEF EndTurnSilent, TypeOK
  <2>3. CASE WriteOut(<<>>) /\ NoOutstanding /\ UNCHANGED <<queue, awaiting>>
    <3>1. Finish({outstanding}, "silent")
      BY <1>7 DEF EndTurnSilent
    <3>2. /\ outstanding' = NoRequest /\ attempts' \in 0..MaxAttempts
          /\ acked' \in BOOLEAN /\ expired' \in BOOLEAN
      BY <2>3, <3>1, OutstandingTold DEF Outcomes
    <3> QED BY <1>4, <1>5, <1>7, <2>1, <2>3, <3>2 DEF EndTurnSilent, TypeOK
  <2> QED BY <1>7, <2>2, <2>3 DEF EndTurnSilent
<1>8. CASE EndTurnRetransmit
  <2>1. outstanding \in Requests /\ Send(outstanding)
    BY <1>8 DEF EndTurnRetransmit, Unacknowledged, TypeOK
  <2>2. attempts' \in 0..MaxAttempts
    BY <1>8, BoundsAssumption DEF EndTurnRetransmit, MayRetry, TypeOK
  <2>3. /\ outbox' \in Seq(HostFrames) /\ toHeadset' \in Seq(HostFrames)
        /\ Len(toHeadset') <= SendSpace /\ awaiting' \in Seq(Requests)
        /\ acked' = FALSE /\ expired' = FALSE
    BY <2>1, SendType
  <2> QED BY <1>4, <1>8, <2>2, <2>3 DEF EndTurnRetransmit, TypeOK
<1>9. CASE EndTurnDead
  <2>1. Finish({outstanding}, "failed") /\ NoOutstanding /\ WriteOut(<<>>)
    BY <1>9 DEF EndTurnDead
  <2>2. /\ told' \in [Requests -> Seq(Outcomes)]
        /\ outstanding' = NoRequest /\ attempts' \in 0..MaxAttempts
        /\ acked' \in BOOLEAN /\ expired' \in BOOLEAN
    BY <2>1, OutstandingTold DEF Outcomes
  <2> QED BY <1>4, <1>5, <1>9, <2>1, <2>2 DEF EndTurnDead, TypeOK
<1> QED
  BY <1>1, <1>2, <1>3, <1>6, <1>7, <1>8, <1>9 DEF Turn

\* The headset's steps keep the types.
LEMMA HeadsetType == ASSUME TypeOK, Headset PROVE TypeOK'
<1> USE DEF current, caller, host, headset, beyond
<1>1. CASE HeadsetTakes
  <2>1. Head(toHeadset) \in HostFrames /\ Tail(toHeadset) \in Seq(HostFrames)
        /\ Len(Tail(toHeadset)) <= SendSpace /\ Head(toHeadset).type = "command"
    BY <1>1, BoundsAssumption DEF HeadsetTakes, TypeOK
  <2>2. Head(toHeadset).seq \in {0, 1} /\ Head(toHeadset).request \in Requests
    BY <2>1 DEF HostFrames
  <2>3. ackDue' \in Seq({0, 1}) /\ taken' \subseteq Requests /\ expects' \in {0, 1}
    BY <1>1, <2>2 DEF HeadsetTakes, TypeOK
  <2>4. replyDue' \in Seq(Requests)
    <3>1. \/ UNCHANGED replyDue
          \/ replyDue' = Append(replyDue, Head(toHeadset).request)
      BY <1>1 DEF HeadsetTakes
    <3>2. replyDue \in Seq(Requests)
      BY DEF TypeOK
    <3>3. Append(replyDue, Head(toHeadset).request) \in Seq(Requests)
      BY <2>2, <3>2, AppendProperties
    <3> QED BY <3>1, <3>2, <3>3
  <2> QED BY <1>1, <2>1, <2>3, <2>4 DEF HeadsetTakes, TypeOK
<1>2. CASE HeadsetHears
  <2>1. Tail(toHeadset) \in Seq(HostFrames) /\ Len(Tail(toHeadset)) <= SendSpace
    BY <1>2, BoundsAssumption DEF HeadsetHears, TypeOK
  <2>2. offering' \in BOOLEAN /\ ownSeq' \in {0, 1}
    <3>1. CASE offering' = FALSE /\ ownSeq' = 1 - ownSeq
      <4>1. ownSeq \in {0, 1}
        BY DEF TypeOK
      <4>2. ownSeq' \in {0, 1}
        BY <3>1, <4>1
      <4> QED BY <3>1, <4>2
    <3>2. CASE UNCHANGED <<offering, ownSeq>>
      BY <3>2 DEF TypeOK
    <3> QED BY <1>2, <3>1, <3>2 DEF HeadsetHears
  <2> QED BY <1>2, <2>1, <2>2 DEF HeadsetHears, TypeOK
<1>3. CASE HeadsetMisses
  <2>1. Tail(toHeadset) \in Seq(HostFrames) /\ Len(Tail(toHeadset)) <= SendSpace
    BY <1>3, BoundsAssumption DEF HeadsetMisses, TypeOK
  <2>2. losses' \in 0..MaxLosses
    BY <1>3, BoundsAssumption DEF HeadsetMisses, TypeOK
  <2> QED BY <1>3, <2>1, <2>2 DEF HeadsetMisses, TypeOK
<1>4. CASE HeadsetAcks
  <2>1. Head(ackDue) \in {0, 1} /\ Tail(ackDue) \in Seq({0, 1})
    BY <1>4 DEF HeadsetAcks, TypeOK
  <2>2. Ack(Head(ackDue)) \in HeadsetFrames
    BY <2>1 DEF Ack, HeadsetFrames
  <2>3. toHost' \in Seq(HeadsetFrames)
    BY <1>4, <2>2 DEF HeadsetAcks, TypeOK
  <2> QED BY <1>4, <2>1, <2>3 DEF HeadsetAcks, TypeOK
<1>5. CASE HeadsetReplies
  <2>1. Head(replyDue) \in Requests /\ Tail(replyDue) \in Seq(Requests)
    BY <1>5 DEF HeadsetReplies, TypeOK
  <2>2. Message(ownSeq, expect[Head(replyDue)], Head(replyDue)) \in HeadsetFrames
    BY <2>1 DEF Message, HeadsetFrames, Kinds, TypeOK
  <2>3. toHost' \in Seq(HeadsetFrames) /\ answered' \subseteq Requests
    BY <1>5, <2>1, <2>2 DEF HeadsetReplies, TypeOK
  <2> QED BY <1>5, <2>1, <2>3 DEF HeadsetReplies, TypeOK
<1>6. CASE HeadsetAnnounces
  <2>1. PICK k \in Announced : toHost' = Append(toHost, Message(ownSeq, k, NoRequest))
    BY <1>6 DEF HeadsetAnnounces
  <2>2. Message(ownSeq, k, NoRequest) \in HeadsetFrames
    BY DEF Message, HeadsetFrames, Kinds, TypeOK
  <2>3. toHost' \in Seq(HeadsetFrames)
    BY <2>1, <2>2 DEF TypeOK
  <2> QED BY <1>6, <2>3 DEF HeadsetAnnounces, TypeOK
<1> QED BY <1>1, <1>2, <1>3, <1>4, <1>5, <1>6 DEF Headset

\* Every step keeps the types.
LEMMA TypeStep == ASSUME TypeOK, [Next]_vars PROVE TypeOK'
<1> USE DEF current, caller, host, headset, beyond
<1>1. CASE UNCHANGED vars
  BY <1>1 DEF vars, TypeOK
<1>2. CASE LinkDrops
  BY <1>2 DEF LinkDrops, TypeOK
<1>3. CASE TimerExpires
  BY <1>3 DEF TimerExpires, TypeOK
<1> QED BY <1>1, <1>2, <1>3, CallerType, TurnType, HeadsetType DEF Next

-----------------------------------------------------------------------------
(* Books. *)

\* What is in a sequence without its first is in the sequence.
LEMMA TailSubset ==
  ASSUME NEW S, NEW s \in Seq(S), s # <<>>
  PROVE  {Tail(s)[i] : i \in DOMAIN Tail(s)} \subseteq {s[i] : i \in DOMAIN s}
<1>1. /\ Tail(s) \in Seq(S) /\ Len(Tail(s)) = Len(s) - 1
      /\ \A i \in 1..Len(Tail(s)) : Tail(s)[i] = s[i + 1]
  BY HeadTailProperties
<1>2. /\ DOMAIN s = 1..Len(s) /\ DOMAIN Tail(s) = 1..Len(Tail(s))
      /\ Len(s) \in Nat /\ Len(Tail(s)) \in Nat
  BY <1>1, LenProperties
<1> QED BY <1>1, <1>2

\* Requests that wait and are told no longer wait, and are told once.
LEMMA FinishBooks ==
  ASSUME TypeOK, ToldOnce, NEW R \in SUBSET Pending, NEW o \in Outcomes,
         Finish(R, o), submitted' = submitted
  PROVE  Pending' = Pending \ R /\ ToldOnce'
<1>1. \A r \in Requests : told[r] \in Seq(Outcomes) /\ Len(told[r]) \in Nat
  BY LenProperties DEF TypeOK
<1>2. R \subseteq Requests /\ submitted \subseteq Requests
      /\ \A r \in R : r \in submitted /\ told[r] = <<>>
  BY DEF Pending, TypeOK
<1>3. \A r \in Requests : told'[r] = IF r \in R THEN Append(told[r], o) ELSE told[r]
  BY FinishType
<1>4. ASSUME NEW r \in R PROVE told'[r] # <<>> /\ Len(told'[r]) = 1
  <2>1. r \in Requests \cap R /\ told[r] = <<>> /\ Len(<<>>) = 0
    BY <1>2
  <2>2. told'[r] # <<>> /\ Len(told'[r]) = Len(told[r]) + 1
    BY <2>1, FinishType
  <2> QED BY <2>1, <2>2
<1>5. Pending' = Pending \ R
  BY <1>2, <1>3, <1>4 DEF Pending
<1>6. ToldOnce'
  <2>1. ASSUME NEW r \in Requests
        PROVE  Len(told'[r]) <= IF r \in submitted' THEN 1 ELSE 0
    <3>1. CASE r \in R
      <4>1. r \in submitted' /\ Len(told'[r]) = 1
        BY <1>2, <1>4, <3>1
      <4> QED BY <4>1, 1 <= 1
    <3>2. CASE r \notin R
      BY <1>3, <3>2 DEF ToldOnce
    <3> QED BY <3>1, <3>2
  <2> QED BY <2>1 DEF ToldOnce
<1> QED BY <1>5, <1>6

\* A step that tells nobody anything.
LEMMA QuietBooks ==
  ASSUME ToldOnce, UNCHANGED <<told, submitted>>
  PROVE  Pending' = Pending /\ ToldOnce'
BY DEF Pending, ToldOnce

\* The first of the queue becomes the outstanding request, and the only one
\* whose frame is unacknowledged.
LEMMA StartNextBooks ==
  ASSUME TypeOK, NoneDropped, OnePerKey, MayStart, StartNext
  PROVE  /\ Queued = Queued' \cup {outstanding'} /\ outstanding' \notin Queued'
         /\ outstanding' # NoRequest
         /\ \A i, j \in DOMAIN queue' : queue'[i] = queue'[j] => i = j
         /\ AwaitingOneRequest' /\ OnePerKey'
<1>1. /\ queue # <<>> /\ queue' = Tail(queue) /\ outstanding' = Head(queue)
      /\ outstanding' \in Requests /\ Awaited' = {outstanding'}
  BY StartNextType
<1>2. queue \in Seq(Requests) /\ \A i, j \in DOMAIN queue : queue[i] = queue[j] => i = j
  BY DEF TypeOK, NoneDropped
<1>3. LET t == Tail(queue)
      IN  /\ {t[i] : i \in DOMAIN t} = {queue[i] : i \in DOMAIN queue} \ {Head(queue)}
          /\ \A i, j \in DOMAIN t : t[i] = t[j] => i = j
          /\ Head(queue) \in {queue[i] : i \in DOMAIN queue}
  BY <1>1, <1>2, TailElements
<1>4. /\ Queued' = Queued \ {outstanding'} /\ outstanding' \in Queued
      /\ \A i, j \in DOMAIN queue' : queue'[i] = queue'[j] => i = j
  BY <1>1, <1>3 DEF Queued
<1>5. AwaitingOneRequest'
  BY <1>1 DEF AwaitingOneRequest
<1>6. OnePerKey'
  <2>1. /\ Len(Tail(queue)) = Len(queue) - 1
        /\ \A i \in 1..Len(Tail(queue)) : Tail(queue)[i] = queue[i + 1]
    BY <1>1, <1>2, HeadTailProperties
  <2>2. Tail(queue) \in Seq(Requests)
    BY <1>1, <1>2, HeadTailProperties
  <2>3. /\ DOMAIN queue = 1..Len(queue) /\ DOMAIN Tail(queue) = 1..Len(Tail(queue))
        /\ Len(queue) \in Nat /\ Len(Tail(queue)) \in Nat
    BY <1>2, <2>2, LenProperties
  <2> QED BY <1>1, <2>1, <2>3 DEF OnePerKey
<1>7. outstanding' # NoRequest
  BY <1>1, RequestsAssumption
<1> QED BY <1>4, <1>5, <1>6, <1>7

\* Giving up on everything leaves nothing to account for.
LEMMA AbandonBooks ==
  ASSUME TypeOK, ToldOnce, AbandonAll, submitted' = submitted
  PROVE  AwaitingOneRequest' /\ NoneDropped' /\ ToldOnce' /\ OnePerKey'
<1>1. queue' = <<>> /\ awaiting' = <<>> /\ outstanding' = NoRequest
  BY AbandonType
<1>2. Finish(Pending, "failed")
  BY DEF AbandonAll
<1>3. Pending' = {} /\ ToldOnce'
  BY <1>2, FinishBooks DEF Outcomes
<1>4. Queued' = {} /\ Awaited' = {}
  BY <1>1 DEF Queued, Awaited
<1>5. NoneDropped' /\ AwaitingOneRequest' /\ OnePerKey'
  BY <1>1, <1>3, <1>4 DEF NoneDropped, AwaitingOneRequest, OnePerKey
<1> QED BY <1>3, <1>5

\* The outstanding request is told and is outstanding no more.
LEMMA OutstandingBooks ==
  ASSUME Inv, outstanding # NoRequest, NEW o \in Outcomes,
         Finish({outstanding}, o), submitted' = submitted
  PROVE  Pending' = Queued /\ ToldOnce'
<1>1. Pending = Queued \cup {outstanding} /\ outstanding \notin Queued
  BY DEF Inv, Books, NoneDropped
<1>2. {outstanding} \in SUBSET Pending
  BY <1>1
<1>3. Pending' = Pending \ {outstanding} /\ ToldOnce'
  BY <1>2, FinishBooks DEF Inv, Books
<1> QED BY <1>1, <1>3

\* A request that is taken on is queued behind the others, or in the place of
\* the one it supersedes.
LEMMA SubmitBooks == ASSUME Inv, NEW r \in Requests, Submit(r) PROVE Books'
<1>1. /\ r \notin submitted /\ submitted' = submitted \cup {r}
      /\ UNCHANGED <<open, alive, awaiting, outstanding>> /\ open
  BY DEF Submit, CallerRuns, current
<1>2. /\ TypeOK /\ ToldOnce /\ OnePerKey /\ NoneDropped /\ AwaitingOneRequest
  BY DEF Inv, Books
<1>3. /\ queue \in Seq(Requests) /\ DOMAIN queue = 1..Len(queue) /\ Len(queue) \in Nat
  BY <1>2, LenProperties DEF TypeOK
<1>4. r \notin Pending /\ r \notin Queued /\ r # outstanding
  BY <1>1, <1>2, RequestsAssumption DEF NoneDropped, Pending
<1>5. told[r] = <<>>
  <2>1. told[r] \in Seq(Outcomes) /\ Len(told[r]) <= 0
    BY <1>1, <1>2 DEF TypeOK, ToldOnce
  <2> QED BY <2>1, EmptySeq
<1>6. ClosedIsEmpty' /\ AwaitingOneRequest'
  BY <1>1, <1>2 DEF ClosedIsEmpty, AwaitingOneRequest, Awaited
<1>7. CASE /\ UNCHANGED told /\ queue' = Append(queue, r)
           /\ \A i \in DOMAIN queue : key[queue[i]] = key[r] => key[r] = NoKey
  <2>1. Pending' = Pending \cup {r}
    BY <1>1, <1>2, <1>5, <1>7 DEF Pending, TypeOK
  <2>2. Queued' = Queued \cup {r}
    <3>1. LET t == Append(queue, r)
          IN  {t[i] : i \in DOMAIN t} = {queue[i] : i \in DOMAIN queue} \cup {r}
      BY <1>3, AppendElements
    <3> QED BY <1>7, <3>1 DEF Queued
  <2>3. /\ DOMAIN queue' = 1..(Len(queue) + 1) /\ queue'[Len(queue) + 1] = r
        /\ \A i \in DOMAIN queue : queue'[i] = queue[i]
    BY <1>3, <1>7, AppendProperties
  <2>4. \A i \in DOMAIN queue : queue[i] # r
    BY <1>4 DEF Queued
  <2>5. \A i, j \in DOMAIN queue' : queue'[i] = queue'[j] => i = j
    BY <1>2, <1>3, <2>3, <2>4 DEF NoneDropped
  <2>6. NoneDropped'
    BY <1>1, <1>2, <1>4, <2>1, <2>2, <2>5 DEF NoneDropped
  <2>7. OnePerKey'
    BY <1>2, <1>3, <1>7, <2>3 DEF OnePerKey
  <2>8. ToldOnce'
    BY <1>1, <1>2, <1>5, <1>7 DEF ToldOnce, TypeOK
  <2> QED BY <1>6, <2>6, <2>7, <2>8 DEF Books
<1>8. ASSUME NEW i \in DOMAIN queue, key[queue[i]] = key[r], key[r] # NoKey,
             Supersede(i, r)
      PROVE  Books'
  <2> DEFINE old == queue[i]
  <2>1. Finish({old}, "failed") /\ queue' = [queue EXCEPT ![i] = r]
    BY <1>8 DEF Supersede
  <2>2. old \in Queued /\ old \in Pending /\ old # outstanding /\ old # r
        /\ old \in submitted /\ told[old] = <<>>
    BY <1>2, <1>4 DEF Queued, NoneDropped, Pending
  <2>3. old \in Requests
    BY <1>3
  <2> HIDE DEF old
  <2>4. /\ told'[old] # <<>> /\ Len(told'[old]) = 1
        /\ \A q \in Requests \ {old} : told'[q] = told[q]
    <3>1. "failed" \in Outcomes /\ Len(<<>>) = 0 /\ old \in Requests \cap {old}
      BY <2>3 DEF Outcomes
    <3>2. /\ told'[old] # <<>> /\ Len(told'[old]) = Len(told[old]) + 1
          /\ \A q \in Requests : q \notin {old} => told'[q] = told[q]
      BY <1>2, <2>1, <3>1, FinishType
    <3> QED BY <2>2, <3>1, <3>2
  <2>5. Pending' = (Pending \ {old}) \cup {r}
    BY <1>1, <1>2, <1>5, <2>2, <2>3, <2>4 DEF Pending, TypeOK
  <2>6. /\ DOMAIN queue' = DOMAIN queue /\ queue'[i] = r
        /\ \A j \in DOMAIN queue \ {i} : queue'[j] = queue[j] /\ queue[j] # old
    BY <1>2, <1>3, <2>1 DEF NoneDropped, old
  <2>7. Queued' = (Queued \ {old}) \cup {r}
    BY <2>6 DEF Queued, old
  <2>8. \A j, k \in DOMAIN queue' : queue'[j] = queue'[k] => j = k
    BY <1>2, <1>4, <2>6 DEF NoneDropped, Queued
  <2>9. NoneDropped'
    BY <1>1, <1>2, <1>4, <2>2, <2>5, <2>7, <2>8 DEF NoneDropped
  <2>10. OnePerKey'
    BY <1>2, <1>8, <2>6 DEF OnePerKey
  <2>11. ToldOnce'
    <3>1. ASSUME NEW q \in Requests
          PROVE  Len(told'[q]) <= IF q \in submitted' THEN 1 ELSE 0
      <4>1. CASE q = old
        <5>1. q \in submitted' /\ Len(told'[q]) = 1
          BY <1>1, <2>2, <2>4, <4>1
        <5> QED BY <5>1, 1 <= 1
      <4>2. CASE q # old
        <5>1. told'[q] = told[q] /\ Len(told[q]) <= IF q \in submitted THEN 1 ELSE 0
          BY <1>2, <2>4, <4>2 DEF ToldOnce
        <5>2. Len(told[q]) \in Nat
          BY <1>2, LenProperties DEF TypeOK
        <5> QED BY <1>1, <5>1, <5>2
      <4> QED BY <4>1, <4>2
    <3> QED BY <3>1 DEF ToldOnce
  <2> QED BY <1>6, <2>9, <2>10, <2>11 DEF Books
<1>9. \/ /\ UNCHANGED told /\ queue' = Append(queue, r)
         /\ \A i \in DOMAIN queue : key[queue[i]] = key[r] => key[r] = NoKey
      \/ \E i \in DOMAIN queue :
           key[queue[i]] = key[r] /\ key[r] # NoKey /\ Supersede(i, r)
  BY DEF Submit
<1> QED BY <1>7, <1>8, <1>9

\* The caller's steps keep the books.
LEMMA CallerBooks == ASSUME Inv, Caller PROVE Books'
<1> USE DEF current
<1>0. /\ TypeOK /\ ToldOnce /\ OnePerKey /\ NoneDropped /\ AwaitingOneRequest
      /\ ClosedIsEmpty
  BY DEF Inv, Books
<1>1. CASE BeginWait
  <2>1. UNCHANGED <<told, submitted>> /\ open' = open /\ open
    BY <1>1 DEF BeginWait, CallerRuns
  <2>2. Pending' = Pending /\ ToldOnce'
    BY <1>0, <2>1, QuietBooks
  <2>3. CASE outstanding = NoRequest /\ MayStart /\ StartNext
    <3>1. NoneDropped' /\ AwaitingOneRequest' /\ OnePerKey'
      BY <1>0, <2>2, <2>3, StartNextBooks DEF NoneDropped
    <3> QED BY <2>1, <2>2, <3>1 DEF Books, ClosedIsEmpty
  <2>4. CASE UNCHANGED <<current, queue, awaiting, outbox, toHeadset>>
    BY <1>0, <2>1, <2>2, <2>4
    DEF Books, ClosedIsEmpty, NoneDropped, AwaitingOneRequest, OnePerKey, Queued, Awaited
  <2> QED BY <1>1, <2>3, <2>4 DEF BeginWait
<1>2. CASE EndWait
  <2>1. UNCHANGED <<open, alive, queue, current, awaiting, told, submitted>>
    BY <1>2 DEF EndWait
  <2>2. Pending' = Pending /\ ToldOnce'
    BY <1>0, <2>1, QuietBooks
  <2> QED BY <1>0, <2>1, <2>2
    DEF Books, ClosedIsEmpty, NoneDropped, AwaitingOneRequest, OnePerKey, Queued, Awaited
<1>3. CASE WaitTimesOut \/ Close
  <2>1. AbandonAll /\ submitted' = submitted /\ (open' \/ ~alive')
    BY <1>3 DEF WaitTimesOut, Close
  <2>2. queue' = <<>> /\ awaiting' = <<>> /\ outstanding' = NoRequest
    BY <1>0, <2>1, AbandonType
  <2> QED BY <1>0, <2>1, <2>2, AbandonBooks DEF Books, ClosedIsEmpty
<1>4. CASE Connect
  <2>1. /\ UNCHANGED <<told, submitted>> /\ open' = TRUE
        /\ queue' = <<>> /\ awaiting' = <<>> /\ outstanding' = NoRequest
        /\ queue = <<>> /\ outstanding = NoRequest
    BY <1>0, <1>4 DEF Connect, NoOutstanding, ClosedIsEmpty
  <2>2. Pending' = Pending /\ ToldOnce'
    BY <1>0, <2>1, QuietBooks
  <2>3. Queued' = {} /\ Queued = {} /\ Awaited' = {}
    BY <2>1 DEF Queued, Awaited
  <2> QED BY <1>0, <2>1, <2>2, <2>3
    DEF Books, ClosedIsEmpty, NoneDropped, AwaitingOneRequest, OnePerKey
<1> QED BY <1>1, <1>2, <1>3, <1>4, SubmitBooks DEF Caller

\* A step that leaves the requests, the unacknowledged frames and the flags
\* alone.
LEMMA UntouchedBooks ==
  ASSUME Inv,
         UNCHANGED <<open, queue, awaiting, outstanding, told, submitted>>,
         ~open => alive' = alive
  PROVE  Books'
<1>1. Pending' = Pending /\ ToldOnce'
  BY QuietBooks DEF Inv, Books
<1>2. Queued' = Queued /\ Awaited' = Awaited
  BY DEF Queued, Awaited
<1> QED BY <1>1, <1>2
  DEF Inv, Books, ClosedIsEmpty, NoneDropped, AwaitingOneRequest, OnePerKey

\* The outstanding request is told and nothing takes its place.
LEMMA OneLessBooks ==
  ASSUME Inv, outstanding # NoRequest, NEW o \in Outcomes,
         Finish({outstanding}, o), outstanding' = NoRequest,
         UNCHANGED <<queue, submitted>>, Awaited' \subseteq Awaited
  PROVE  NoneDropped' /\ AwaitingOneRequest' /\ ToldOnce' /\ OnePerKey'
<1>1. Pending' = Queued /\ ToldOnce'
  BY OutstandingBooks
<1>2. Queued' = Queued /\ NoRequest \notin Queued
  BY RequestsAssumption DEF Inv, Books, NoneDropped, Pending, Queued, TypeOK
<1> QED BY <1>1, <1>2
  DEF Inv, Books, NoneDropped, AwaitingOneRequest, OnePerKey

\* The steps of a turn keep the books.
LEMMA TurnBooks == ASSUME Inv, Turn PROVE Books'
<1> USE DEF current, caller
<1>0. /\ TypeOK /\ ToldOnce /\ OnePerKey /\ NoneDropped /\ AwaitingOneRequest
  BY DEF Inv, Books
<1>1. open /\ open' = open /\ submitted' = submitted
  BY DEF Turn, HandleAck, HandleMessage, HandleMalformed, EndTurn, EndTurnSilent,
         EndTurnRetransmit, EndTurnDead, Read, Reading, ReadingOver, Turning
<1>2. ClosedIsEmpty'
  BY <1>1 DEF ClosedIsEmpty
<1>3. CASE HandleAck
  <2>1. Awaited' \subseteq Awaited
    <3>1. CASE awaiting = <<>>
      BY <1>3, <3>1 DEF HandleAck, Settled, Awaited
    <3>2. CASE awaiting # <<>>
      <4>1. awaiting' = Tail(awaiting) /\ awaiting \in Seq(Requests)
        BY <1>0, <1>3, <3>2 DEF HandleAck, Settled, TypeOK
      <4> QED BY <3>2, <4>1, TailSubset DEF Awaited
    <3> QED BY <3>1, <3>2
  <2>2. CASE Earned /\ Finish({outstanding}, "acked") /\ NoOutstanding
    <3>1. outstanding # NoRequest
      BY <1>0, <2>2, RequestsAssumption DEF Earned, TypeOK
    <3> QED BY <1>1, <1>2, <1>3, <2>1, <2>2, <3>1, OneLessBooks
        DEF HandleAck, NoOutstanding, Outcomes, Books
  <2>3. CASE UNCHANGED <<outstanding, told>>
    <3>1. UNCHANGED queue
      BY <1>3 DEF HandleAck
    <3>2. Pending' = Pending /\ ToldOnce'
      BY <1>0, <1>1, <2>3, QuietBooks
    <3>3. Queued' = Queued
      BY <3>1 DEF Queued
    <3> QED BY <1>0, <1>2, <2>1, <2>3, <3>1, <3>2, <3>3
        DEF Books, NoneDropped, AwaitingOneRequest, OnePerKey
  <2> QED BY <1>3, <2>2, <2>3 DEF HandleAck
<1>4. CASE HandleMessage
  <2>1. UNCHANGED <<queue, awaiting>>
    BY <1>4 DEF HandleMessage
  <2>2. CASE Answers /\ Finish({outstanding}, "replied") /\ NoOutstanding
    BY <1>1, <1>2, <2>1, <2>2, OneLessBooks
    DEF Answers, NoOutstanding, Outcomes, Books, Awaited
  <2>3. CASE UNCHANGED <<current, told>>
    BY <1>1, <2>1, <2>3, UntouchedBooks
  <2> QED BY <1>4, <2>2, <2>3 DEF HandleMessage
<1>5. CASE HandleMalformed
  BY <1>1, <1>5, UntouchedBooks DEF HandleMalformed
<1>6. ASSUME MayStart, StartNext, Pending' = Queued, ToldOnce'
      PROVE  Books'
  <2>1. /\ Queued = Queued' \cup {outstanding'} /\ outstanding' \notin Queued'
        /\ outstanding' # NoRequest
        /\ \A i, j \in DOMAIN queue' : queue'[i] = queue'[j] => i = j
        /\ AwaitingOneRequest' /\ OnePerKey'
    BY <1>0, <1>6, StartNextBooks
  <2> QED BY <1>2, <1>6, <2>1 DEF Books, NoneDropped
<1>7. CASE EndTurn
  <2>1. UNCHANGED <<told, submitted>>
    BY <1>7 DEF EndTurn
  <2>2. CASE outstanding = NoRequest /\ MayStart /\ StartNext
    <3>1. Pending' = Queued /\ ToldOnce'
      BY <1>0, <2>1, <2>2, QuietBooks DEF NoneDropped
    <3> QED BY <1>6, <2>2, <3>1
  <2>3. CASE UNCHANGED <<current, queue, awaiting>>
    BY <1>1, <2>1, <2>3, UntouchedBooks
  <2> QED BY <1>7, <2>2, <2>3 DEF EndTurn
<1>8. CASE EndTurnSilent
  <2>1. outstanding # NoRequest /\ Finish({outstanding}, "silent")
    BY <1>8 DEF EndTurnSilent, Unanswered
  <2>2. CASE MayStart /\ StartNext
    BY <1>1, <1>6, <2>1, <2>2, OutstandingBooks DEF Outcomes
  <2>3. CASE NoOutstanding /\ UNCHANGED <<queue, awaiting>>
    BY <1>1, <1>2, <2>1, <2>3, OneLessBooks DEF NoOutstanding, Outcomes, Books, Awaited
  <2> QED BY <1>8, <2>2, <2>3 DEF EndTurnSilent
<1>9. CASE EndTurnRetransmit
  <2>1. /\ outstanding # NoRequest /\ Send(outstanding)
        /\ UNCHANGED <<queue, outstanding, told, submitted>>
    BY <1>9 DEF EndTurnRetransmit, Unacknowledged
  <2>2. Awaited' = Awaited \cup {outstanding}
    BY <1>0, <2>1, SendType DEF TypeOK
  <2>3. Pending' = Pending /\ ToldOnce' /\ Queued' = Queued
    BY <1>0, <2>1, QuietBooks DEF Queued
  <2> QED BY <1>0, <1>2, <2>1, <2>2, <2>3
      DEF Books, NoneDropped, AwaitingOneRequest, OnePerKey
<1>10. CASE EndTurnDead
  BY <1>1, <1>2, <1>10, OneLessBooks
  DEF EndTurnDead, Unacknowledged, NoOutstanding, Outcomes, Books, Awaited
<1> QED BY <1>3, <1>4, <1>5, <1>7, <1>8, <1>9, <1>10 DEF Turn

\* Every step keeps the invariant.
LEMMA InvStep == ASSUME Inv, [Next]_vars PROVE Inv'
<1>1. SUFFICES Books'
  BY TypeStep DEF Inv
<1>2. CASE UNCHANGED vars
  BY <1>2, UntouchedBooks DEF vars, host, current, caller
<1>3. CASE Headset \/ TimerExpires
  <2>1. UNCHANGED <<open, alive, queue, awaiting, outstanding, told, submitted>>
    BY <1>3 DEF Headset, TimerExpires, HeadsetTakes, HeadsetHears, HeadsetMisses,
                HeadsetAcks, HeadsetReplies, HeadsetAnnounces, host, current, caller
  <2> QED BY <2>1, UntouchedBooks
<1>4. CASE LinkDrops
  BY <1>4, UntouchedBooks DEF LinkDrops, current, caller
<1> QED BY <1>2, <1>3, <1>4, CallerBooks, TurnBooks DEF Next

\* The initial states satisfy it.
LEMMA InvInit == ASSUME Init PROVE Inv
<1>1. TypeOK
  BY InitType
<1>2. Queued = {} /\ Awaited = {} /\ Pending = {}
  BY DEF Init, Queued, Awaited, Pending
<1>3. ToldOnce
  BY DEF Init, ToldOnce
<1> QED BY <1>1, <1>2, <1>3
  DEF Init, Inv, Books, ClosedIsEmpty, NoneDropped, AwaitingOneRequest, OnePerKey

-----------------------------------------------------------------------------
(* What follows of every behaviour. *)

\* The session's invariant: submit, run_until_idle, close, connect and every
\* step of pump keep it.
THEOREM Invariance == Spec => []Inv
<1>1. Init => Inv
  BY InvInit
<1>2. Inv /\ [Next]_vars => Inv'
  BY InvStep
<1> QED BY <1>1, <1>2, PTL DEF Spec

\* The fields of a session keep their types, and attempts and the frames read
\* in a turn their bounds.
THEOREM TypeCorrect == Spec => []TypeOK
<1>1. Inv => TypeOK
  BY DEF Inv
<1> QED BY <1>1, Invariance, PTL

\* An acknowledgement is never given to a request other than the one on the
\* wire: _handle may trust the head of self.awaiting.
THEOREM AcknowledgementsAreEarned == Spec => []AwaitingOneRequest
<1>1. Inv => AwaitingOneRequest
  BY DEF Inv, Books
<1> QED BY <1>1, Invariance, PTL

\* Every request that was told nothing is still queued, once, or outstanding:
\* no sequence of timeouts, closes and coalesced writes drops one.
THEOREM NoRequestDropped == Spec => []NoneDropped
<1>1. Inv => NoneDropped
  BY DEF Inv, Books
<1> QED BY <1>1, Invariance, PTL

\* on_done is called at most once for each request.
THEOREM EachToldOnce == Spec => []ToldOnce
<1>1. Inv => ToldOnce
  BY DEF Inv, Books
<1> QED BY <1>1, Invariance, PTL

\* Writes that wait are coalesced: the queue holds one per key.
THEOREM QueueCoalesced == Spec => []OnePerKey
<1>1. Inv => OnePerKey
  BY DEF Inv, Books
<1> QED BY <1>1, Invariance, PTL

-----------------------------------------------------------------------------
(* The session implements RequestService. *)

\* A session starts as the service does.
LEMMA ServiceInit == ASSUME Init PROVE Service!Init
BY DEF Init, Service!Init

\* The outstanding request, which waits, is given an outcome of its own.
LEMMA ServiceAnswer ==
  ASSUME Inv, outstanding # NoRequest, alive, NEW o \in Outcomes \ {"failed"},
         Finish({outstanding}, o), UNCHANGED <<alive, submitted>>
  PROVE  Service!Next
<1>1. outstanding \in Pending /\ outstanding \in Requests
  BY DEF Inv, Books, NoneDropped, TypeOK
<1>2. Service!Tell({outstanding}, o)
  BY DEF Finish, Service!Tell
<1>3. outstanding \in Service!Waiting
  BY <1>1 DEF Pending, Service!Waiting
<1>4. Service!Answer(outstanding)
  BY <1>2, <1>3 DEF Service!Answer, Service!Outcomes, Outcomes
<1> QED BY <1>1, <1>4 DEF Service!Next

\* The caller's steps are steps of the service.
LEMMA ServiceCaller == ASSUME Inv, Caller PROVE [Service!Next]_Service!vars
<1>1. ASSUME NEW r \in Requests, Submit(r) PROVE Service!Next
  <2>1. alive /\ r \notin submitted /\ submitted' = submitted \cup {r} /\ alive' = alive
    BY <1>1 DEF Submit, CallerRuns
  <2>2. CASE UNCHANGED told
    BY <2>1, <2>2 DEF Service!Submit, Service!Next
  <2>3. ASSUME NEW i \in DOMAIN queue, key[queue[i]] = key[r], key[r] # NoKey,
               Supersede(i, r)
        PROVE  Service!Next
    <3>1. queue[i] \in Pending
      BY DEF Inv, Books, NoneDropped, Queued
    <3>2. queue[i] \in Service!Waiting
      BY <3>1 DEF Pending, Service!Waiting
    <3>3. Service!Tell({queue[i]}, "failed")
      BY <2>3 DEF Supersede, Finish, Service!Tell
    <3>4. Service!Submit(r)
      BY <2>1, <2>3, <3>2, <3>3 DEF Service!Submit
    <3> QED BY <3>4 DEF Service!Next
  <2> QED BY <1>1, <2>2, <2>3, SubmitCases DEF Inv
<1>2. CASE BeginWait \/ EndWait
  BY <1>2 DEF BeginWait, EndWait, Service!vars
<1>3. CASE WaitTimesOut \/ Close
  <2>1. AbandonAll /\ submitted' = submitted /\ alive' \in {alive, FALSE}
    BY <1>3 DEF WaitTimesOut, Close
  <2>2. Service!Tell(Service!Waiting, "failed")
    BY <2>1 DEF AbandonAll, Finish, Pending, Service!Tell, Service!Waiting
  <2> QED BY <2>1, <2>2 DEF Service!Abandon, Service!Next
<1>4. CASE Connect
  <2>1. ~alive /\ queue = <<>> /\ outstanding = NoRequest
    BY <1>4 DEF Connect, Inv, Books, ClosedIsEmpty
  <2>2. Pending = {}
    BY <2>1 DEF Inv, Books, NoneDropped, Queued
  <2>3. Service!Waiting = {}
    BY <2>2 DEF Pending, Service!Waiting
  <2> QED BY <1>4, <2>1, <2>3 DEF Connect, Service!Reopen, Service!Next
<1> QED BY <1>1, <1>2, <1>3, <1>4 DEF Caller

\* The steps of a turn are steps of the service, or none.
LEMMA ServiceTurn == ASSUME Inv, Turn PROVE [Service!Next]_Service!vars
<1> USE DEF current, caller
<1>1. alive
  BY DEF Turn, HandleAck, HandleMessage, HandleMalformed, EndTurn, EndTurnSilent,
         EndTurnRetransmit, EndTurnDead, Read, Reading, ReadingOver, Turning
<1>2. CASE UNCHANGED <<alive, submitted, told>>
  BY <1>2 DEF Service!vars
<1>3. CASE HandleAck
  <2>1. CASE Earned /\ Finish({outstanding}, "acked")
    <3>1. outstanding # NoRequest
      BY <2>1, RequestsAssumption DEF Earned, Inv, TypeOK
    <3> QED BY <1>1, <1>3, <2>1, <3>1, ServiceAnswer DEF HandleAck, Outcomes
  <2> QED BY <1>2, <1>3, <2>1 DEF HandleAck
<1>4. CASE HandleMessage
  BY <1>1, <1>2, <1>4, ServiceAnswer DEF HandleMessage, Answers, Outcomes
<1>5. CASE HandleMalformed \/ EndTurn \/ EndTurnRetransmit
  BY <1>2, <1>5 DEF HandleMalformed, EndTurn, EndTurnRetransmit
<1>6. CASE EndTurnSilent
  BY <1>1, <1>6, ServiceAnswer DEF EndTurnSilent, Unanswered, Outcomes
<1>7. CASE EndTurnDead
  <2>1. /\ outstanding # NoRequest /\ Finish({outstanding}, "failed")
        /\ alive' = FALSE /\ submitted' = submitted
    BY <1>7 DEF EndTurnDead, Unacknowledged
  <2>2. outstanding \in Pending
    BY <2>1 DEF Inv, Books, NoneDropped
  <2>3. outstanding \in Service!Waiting
    BY <2>2 DEF Pending, Service!Waiting
  <2>4. Service!Tell({outstanding}, "failed")
    BY <2>1 DEF Finish, Service!Tell
  <2> QED BY <1>1, <2>1, <2>3, <2>4 DEF Service!Die, Service!Next
<1> QED BY <1>3, <1>4, <1>5, <1>6, <1>7 DEF Turn

\* Every step of a session is a step of the service, or none.
LEMMA ServiceStep ==
  ASSUME Inv, [Next]_vars PROVE [Service!Next]_Service!vars
<1>1. CASE UNCHANGED vars
  BY <1>1 DEF vars, host, caller, Service!vars
<1>2. CASE Headset \/ TimerExpires
  <2>1. UNCHANGED <<alive, submitted, told>>
    BY <1>2 DEF Headset, TimerExpires, HeadsetTakes, HeadsetHears, HeadsetMisses,
                HeadsetAcks, HeadsetReplies, HeadsetAnnounces, host, caller
  <2> QED BY <2>1 DEF Service!vars
<1>3. CASE LinkDrops
  BY <1>3 DEF LinkDrops, caller, Service!Die, Service!Next
<1> QED BY <1>1, <1>2, <1>3, ServiceCaller, ServiceTurn DEF Next

\* Whatever frames are lost, late or repeated, the code that submits requests
\* sees the behaviour RequestService describes and no other.
THEOREM ImplementsService == Spec => ServiceSpec
<1>1. Init => Service!Init
  BY ServiceInit
<1>2. Inv /\ [Next]_vars => [Service!Next]_Service!vars
  BY ServiceStep
<1> QED BY <1>1, <1>2, Invariance, PTL DEF Spec, ServiceSpec, Service!Spec

-----------------------------------------------------------------------------
(* Counting what is in a sequence. *)

\* Where elements of s are in P, and how many are.
Places(s, P) == {i \in DOMAIN s : s[i] \in P}
Tally(s, P) == Cardinality(Places(s, P))

\* The positions are finitely many, and there is none exactly when no element
\* is in P.
LEMMA TallyType ==
  ASSUME NEW S, NEW s \in Seq(S), NEW P
  PROVE  /\ IsFiniteSet(Places(s, P))
         /\ Tally(s, P) \in Nat
         /\ Tally(s, P) = 0 <=> \A x \in Range(s) : x \notin P
<1> DEFINE H == Places(s, P)
<1>1. DOMAIN s = 1..Len(s) /\ Len(s) \in Nat
  BY LenProperties
<1>2. IsFiniteSet(1..Len(s))
  BY <1>1, FS_Interval
<1>3. H \in SUBSET (1..Len(s))
  BY <1>1 DEF Places
<1>4. IsFiniteSet(H)
  BY <1>2, <1>3, FS_Subset
<1>5. Cardinality(H) \in Nat /\ (Cardinality(H) = 0 <=> H = {})
  BY <1>4, FS_CardinalityType, FS_EmptySet
<1>6. H = {} <=> \A x \in Range(s) : x \notin P
  BY DEF Range, Places
<1> QED BY <1>4, <1>5, <1>6 DEF Tally

\* Of two sequences there are as many as of each: the positions in the second
\* are those of the whole, shifted.
LEMMA TallyConcat ==
  ASSUME NEW S, NEW s \in Seq(S), NEW t \in Seq(S), NEW P
  PROVE  Tally(s \o t, P) = Tally(s, P) + Tally(t, P)
<1> DEFINE n == Len(s)
           shifted == {n + i : i \in Places(t, P)}
           f == [i \in Places(t, P) |-> n + i]
<1>1. /\ DOMAIN s = 1..Len(s) /\ Len(s) \in Nat
      /\ DOMAIN t = 1..Len(t) /\ Len(t) \in Nat
  BY LenProperties
<1>2. /\ s \o t \in Seq(S) /\ Len(s \o t) = Len(s) + Len(t)
      /\ DOMAIN (s \o t) = 1..(Len(s) + Len(t))
      /\ \A i \in 1..(Len(s) + Len(t)) :
           (s \o t)[i] = IF i <= Len(s) THEN s[i] ELSE t[i - Len(s)]
  BY <1>1, ConcatProperties, LenProperties
<1>3. IsFiniteSet(Places(s, P)) /\ IsFiniteSet(Places(t, P)) /\ IsFiniteSet(Places(s \o t, P))
  BY <1>2, TallyType
<1>4. f \in Bijection(Places(t, P), shifted)
  <2>1. f \in [Places(t, P) -> shifted] /\ \A y \in shifted : \E i \in Places(t, P) : f[i] = y
    OBVIOUS
  <2>2. \A i, j \in Places(t, P) : f[i] = f[j] => i = j
    BY <1>1 DEF Places
  <2> QED BY <2>1, <2>2, Fun_IsBij
<1>5. IsFiniteSet(shifted) /\ Cardinality(shifted) = Cardinality(Places(t, P))
  BY <1>3, <1>4, FS_Bijection DEF ExistsBijection
<1>6. Places(s \o t, P) = Places(s, P) \cup shifted
  <2>1. ASSUME NEW i \in Places(s \o t, P) PROVE i \in Places(s, P) \cup shifted
    <3>1. CASE i <= n
      BY <1>1, <1>2, <3>1 DEF Places
    <3>2. CASE ~(i <= n)
      <4>1. i - n \in Places(t, P) /\ i = n + (i - n)
        BY <1>1, <1>2, <3>2 DEF Places
      <4> QED BY <4>1
    <3> QED BY <3>1, <3>2
  <2>2. ASSUME NEW i \in Places(s, P) PROVE i \in Places(s \o t, P)
    BY <1>1, <1>2 DEF Places
  <2>3. ASSUME NEW i \in Places(t, P) PROVE n + i \in Places(s \o t, P)
    BY <1>1, <1>2 DEF Places
  <2> QED BY <2>1, <2>2, <2>3
<1>7. Places(s, P) \cap shifted = {}
  BY <1>1 DEF Places
<1>8. Cardinality(Places(s \o t, P)) = Cardinality(Places(s, P)) + Cardinality(shifted) - 0
  <2>1. Cardinality({}) = 0
    BY FS_EmptySet
  <2> HIDE DEF shifted
  <2> QED BY <1>3, <1>5, <1>6, <1>7, <2>1, FS_Union
<1>9. Cardinality(Places(s, P)) \in Nat /\ Cardinality(Places(t, P)) \in Nat
  BY <1>3, FS_CardinalityType
<1> HIDE DEF shifted
<1>10. Cardinality(Places(s \o t, P)) = Cardinality(Places(s, P)) + Cardinality(Places(t, P))
  BY <1>5, <1>8, <1>9
<1> QED BY <1>10 DEF Tally

\* Of one element.
LEMMA TallyOne ==
  ASSUME NEW x, NEW P
  PROVE  Tally(<<x>>, P) = IF x \in P THEN 1 ELSE 0
<1>1. Places(<<x>>, P) = IF x \in P THEN {1} ELSE {}
  BY DEF Places
<1> QED BY <1>1, FS_EmptySet, FS_Singleton DEF Tally

\* Of one element more.
LEMMA TallyAppend ==
  ASSUME NEW S, NEW s \in Seq(S), NEW x \in S, NEW P
  PROVE  Tally(Append(s, x), P) = Tally(s, P) + IF x \in P THEN 1 ELSE 0
<1>1. Append(s, x) = s \o <<x>> /\ <<x>> \in Seq(S)
  BY AppendIsConcat
<1>2. Tally(s \o <<x>>, P) = Tally(s, P) + Tally(<<x>>, P)
  BY <1>1, TallyConcat
<1> QED BY <1>1, <1>2, TallyOne

\* Of one element less.
LEMMA TallyTail ==
  ASSUME NEW S, NEW s \in Seq(S), s # <<>>, NEW P
  PROVE  /\ Head(s) \in S /\ Tail(s) \in Seq(S)
         /\ Tally(s, P) = Tally(Tail(s), P) + IF Head(s) \in P THEN 1 ELSE 0
         /\ Range(s) = Range(Tail(s)) \cup {Head(s)}
<1>1. /\ Head(s) \in S /\ Tail(s) \in Seq(S)
      /\ Len(Tail(s)) = Len(s) - 1
      /\ \A i \in 1..Len(Tail(s)) : Tail(s)[i] = s[i + 1]
  BY HeadTailProperties
<1>2. <<Head(s)>> \in Seq(S)
  BY <1>1
<1>3. <<Head(s)>> \o Tail(s) = s
  BY <1>1, <1>2, ConcatProperties, SeqEqual, LenProperties
<1>4. Tally(s, P) = Tally(<<Head(s)>>, P) + Tally(Tail(s), P)
  <2>1. Tally(<<Head(s)>> \o Tail(s), P) = Tally(<<Head(s)>>, P) + Tally(Tail(s), P)
    BY <1>1, <1>2, TallyConcat
  <2> QED BY <1>3, <2>1
<1>5. Tally(Tail(s), P) \in Nat
  BY <1>1, TallyType
<1>6. Range(s) = Range(<<Head(s)>>) \cup Range(Tail(s))
  BY <1>1, <1>2, <1>3, RangeConcatenation
<1>7. Range(<<Head(s)>>) = {Head(s)}
  BY DEF Range
<1> QED BY <1>1, <1>4, <1>5, <1>6, <1>7, TallyOne

-----------------------------------------------------------------------------
(* What is on the link. *)

\* The frames of either end, and those of a type.
AllFrames == HostFrames \cup HeadsetFrames
OfType(t) == {f \in AllFrames : f.type = t}

\* The frames on their way to the headset, the oldest first.
Pipe == toHeadset \o outbox

\* The acknowledgements the headset has given or will give.
Acknowledgements ==
  Range(ackDue) \cup {f.seq : f \in {g \in Range(toHost) : g.type = "ack"}}

\* Nothing is in an empty sequence.
LEMMA RangeEmpty == Range(<<>>) = {}
BY DEF Range

\* One element more.
LEMMA RangeAppend ==
  ASSUME NEW S, NEW s \in Seq(S), NEW x \in S
  PROVE  Range(Append(s, x)) = Range(s) \cup {x}
BY AppendElements DEF Range

\* Count is a tally of the frames of a type.
LEMMA CountIsTally ==
  ASSUME NEW s \in Seq(AllFrames), NEW t
  PROVE  /\ Count(s, t) = Tally(s, OfType(t))
         /\ Range(s) \subseteq AllFrames
<1>1. \A i \in DOMAIN s : s[i] \in AllFrames
  BY LenProperties
<1>2. {i \in DOMAIN s : s[i].type = t} = Places(s, OfType(t))
  BY <1>1 DEF Places, OfType
<1> QED BY <1>1, <1>2 DEF Count, Tally, Range

\* No frame of a type.
LEMMA CountNone ==
  ASSUME NEW s \in Seq(AllFrames), NEW t
  PROVE  /\ Count(s, t) \in Nat
         /\ Count(s, t) = 0 <=> \A f \in Range(s) : f.type # t
<1>1. Count(s, t) = Tally(s, OfType(t)) /\ Range(s) \subseteq AllFrames
  BY CountIsTally
<1>2. /\ Tally(s, OfType(t)) \in Nat
      /\ Tally(s, OfType(t)) = 0 <=> \A f \in Range(s) : f \notin OfType(t)
  BY TallyType
<1> QED BY <1>1, <1>2 DEF OfType

\* No frame.
LEMMA CountEmpty == ASSUME NEW t PROVE Count(<<>>, t) = 0
<1>1. <<>> \in Seq(AllFrames)
  OBVIOUS
<1> QED BY <1>1, CountNone, RangeEmpty

\* Two sequences.
LEMMA CountConcat ==
  ASSUME NEW s \in Seq(AllFrames), NEW q \in Seq(AllFrames), NEW t
  PROVE  Count(s \o q, t) = Count(s, t) + Count(q, t)
<1>1. s \o q \in Seq(AllFrames)
  BY ConcatProperties
<1>2. Tally(s \o q, OfType(t)) = Tally(s, OfType(t)) + Tally(q, OfType(t))
  BY TallyConcat
<1> QED BY <1>1, <1>2, CountIsTally

\* One frame more.
LEMMA CountAppend ==
  ASSUME NEW s \in Seq(AllFrames), NEW f \in AllFrames, NEW t
  PROVE  Count(Append(s, f), t) = Count(s, t) + IF f.type = t THEN 1 ELSE 0
<1>1. Append(s, f) \in Seq(AllFrames)
  BY AppendProperties
<1>2. Tally(Append(s, f), OfType(t)) = Tally(s, OfType(t)) + IF f \in OfType(t) THEN 1 ELSE 0
  BY TallyAppend
<1>3. Count(Append(s, f), t) = Tally(Append(s, f), OfType(t)) /\ Count(s, t) = Tally(s, OfType(t))
  BY <1>1, CountIsTally
<1> QED BY <1>2, <1>3 DEF OfType

\* One frame less.
LEMMA CountTail ==
  ASSUME NEW s \in Seq(AllFrames), s # <<>>, NEW t
  PROVE  Count(s, t) = Count(Tail(s), t) + IF Head(s).type = t THEN 1 ELSE 0
<1>1. /\ Head(s) \in AllFrames /\ Tail(s) \in Seq(AllFrames)
      /\ Tally(s, OfType(t)) = Tally(Tail(s), OfType(t)) + IF Head(s) \in OfType(t) THEN 1 ELSE 0
  BY TallyTail
<1>2. Count(Tail(s), t) = Tally(Tail(s), OfType(t)) /\ Count(s, t) = Tally(s, OfType(t))
  BY <1>1, CountIsTally
<1> QED BY <1>1, <1>2 DEF OfType

\* The link in terms of Pipe.
LinkFacts ==
  /\ Pipe \in Seq(HostFrames) /\ Pipe \in Seq(AllFrames)
  /\ toHost \in Seq(HeadsetFrames) /\ toHost \in Seq(AllFrames)
  /\ InFlight = {f \in Range(Pipe) : f.type = "command"}
  /\ Credit = Count(Pipe, "command") + Len(ackDue) + Count(toHost, "ack")
  /\ Count(Pipe, "ack") = Count(outbox, "ack") + Count(toHeadset, "ack")
  /\ \A f \in Range(Pipe) : f \in HostFrames /\ f.seq \in {0, 1}
  /\ \A f \in InFlight : f.request \in Requests
  /\ Credit \in Nat /\ Len(ackDue) \in Nat
  /\ \A t : Count(Pipe, t) \in Nat /\ Count(toHost, t) \in Nat
  /\ Count(outbox, "ack") \in Nat /\ Count(toHeadset, "ack") \in Nat

\* They hold of a state with its types.
LEMMA LinkFactsHold == TypeOK => LinkFacts
<1> SUFFICES ASSUME TypeOK PROVE LinkFacts
  OBVIOUS
<1>1. /\ toHeadset \in Seq(HostFrames) /\ outbox \in Seq(HostFrames)
      /\ toHost \in Seq(HeadsetFrames) /\ ackDue \in Seq({0, 1})
  BY DEF TypeOK
<1>2. Pipe \in Seq(HostFrames) /\ Range(Pipe) = Range(toHeadset) \cup Range(outbox)
  BY <1>1, ConcatProperties, RangeConcatenation DEF Pipe
<1>3. /\ Pipe \in Seq(AllFrames) /\ toHost \in Seq(AllFrames)
      /\ toHeadset \in Seq(AllFrames) /\ outbox \in Seq(AllFrames)
  BY <1>1, <1>2, SeqMonotonic DEF AllFrames
<1>4. InFlight = {f \in Range(Pipe) : f.type = "command"}
  BY <1>2 DEF InFlight, Range
<1>5. ASSUME NEW t PROVE Count(Pipe, t) = Count(toHeadset, t) + Count(outbox, t)
  BY <1>3, CountConcat DEF Pipe
<1>6. /\ Count(toHeadset, "command") \in Nat /\ Count(outbox, "command") \in Nat
      /\ Count(toHost, "ack") \in Nat /\ Len(ackDue) \in Nat
      /\ Count(toHeadset, "ack") \in Nat /\ Count(outbox, "ack") \in Nat
  BY <1>1, <1>3, CountNone, LenProperties
<1>7. Credit = Count(Pipe, "command") + Len(ackDue) + Count(toHost, "ack")
  BY <1>5, <1>6 DEF Credit
<1>8. \A f \in Range(Pipe) : f \in HostFrames
  BY <1>2, RangeOfSeq
<1>9. \A f \in HostFrames : /\ f.seq \in {0, 1} /\ f.type \in {"ack", "command"}
                            /\ f.type = "command" => f.request \in Requests
  BY DEF HostFrames
<1>10. Count(Pipe, "ack") = Count(outbox, "ack") + Count(toHeadset, "ack")
  BY <1>5, <1>6
<1>11. \A t : Count(Pipe, t) \in Nat /\ Count(toHost, t) \in Nat
  BY <1>3, CountNone
<1>12. Credit \in Nat
  BY <1>6, <1>7, <1>11
<1> QED BY <1>1, <1>2, <1>3, <1>4, <1>6, <1>7, <1>8, <1>9, <1>10, <1>11, <1>12
    DEF LinkFacts

\* And after a step.
LEMMA LinkFactsNext == TypeOK' => LinkFacts'
BY LinkFactsHold, PTL

\* Writing puts the frames at the end, whatever the socket takes of them.
LEMMA WriteOutPipe ==
  ASSUME TypeOK, NEW frames \in Seq(HostFrames), WriteOut(frames)
  PROVE  Pipe' = Pipe \o frames
<1> DEFINE out == outbox \o frames
           n == Room(out)
<1>1. out \in Seq(HostFrames) /\ toHeadset \in Seq(HostFrames) /\ outbox \in Seq(HostFrames)
  BY DEF TypeOK
<1>2. Len(out) \in Nat /\ Len(toHeadset) \in Nat /\ SendSpace \in Nat
      /\ Len(toHeadset) <= SendSpace
  BY <1>1, LenProperties, BoundsAssumption DEF TypeOK
<1>3. n \in 0..Len(out)
  BY <1>2 DEF Room
<1>4. toHeadset' = toHeadset \o SubSeq(out, 1, n) /\ outbox' = SubSeq(out, n + 1, Len(out))
  BY DEF WriteOut
<1>5. \A i \in 1..Len(out) : out[i] \in HostFrames
  BY <1>1, ElementOfSeq
<1> HIDE DEF out, n
<1>6. SubSeq(out, 1, n) \in Seq(HostFrames) /\ SubSeq(out, n + 1, Len(out)) \in Seq(HostFrames)
  BY <1>2, <1>3, <1>5, SubSeqProperties
<1>7. SubSeq(out, 1, n) \o SubSeq(out, n + 1, Len(out)) = SubSeq(out, 1, Len(out))
  <2>1. 1 \in 1..Len(out) + 1 /\ n \in 1 - 1..Len(out) /\ Len(out) \in n..Len(out)
    BY <1>2, <1>3
  <2> QED BY <1>1, <2>1, ConcatAdjacentSubSeq
<1>8. SubSeq(out, 1, Len(out)) = out
  BY <1>1, SubSeqFull
<1>9. Pipe' = toHeadset \o (SubSeq(out, 1, n) \o SubSeq(out, n + 1, Len(out)))
  <2>1. Pipe' = (toHeadset \o SubSeq(out, 1, n)) \o SubSeq(out, n + 1, Len(out))
    BY <1>4 DEF Pipe
  <2> DEFINE a == SubSeq(out, 1, n)
             b == SubSeq(out, n + 1, Len(out))
  <2>2. a \in Seq(HostFrames) /\ b \in Seq(HostFrames)
    BY <1>6
  <2> HIDE DEF a, b
  <2>3. (toHeadset \o a) \o b = toHeadset \o (a \o b)
    BY <1>1, <2>2, ConcatAssociative
  <2> QED BY <2>1, <2>3 DEF a, b
<1>10. toHeadset \o out = Pipe \o frames
  BY <1>1, ConcatAssociative DEF Pipe, out
<1> QED BY <1>7, <1>8, <1>9, <1>10

\* One frame is written: it is the last on its way.
LEMMA WriteOnePipe ==
  ASSUME TypeOK, NEW f \in HostFrames, WriteOut(<<f>>)
  PROVE  Pipe' = Append(Pipe, f)
<1>1. <<f>> \in Seq(HostFrames) /\ Pipe \in Seq(HostFrames)
  BY LinkFactsHold DEF LinkFacts
<1> QED BY <1>1, WriteOutPipe, AppendIsConcat

\* Nothing new is written: what the socket now takes was on its way.
LEMMA FlushPipe == ASSUME TypeOK, WriteOut(<<>>) PROVE Pipe' = Pipe
<1>1. <<>> \in Seq(HostFrames) /\ Pipe \in Seq(HostFrames)
  BY LinkFactsHold DEF LinkFacts
<1> QED BY <1>1, WriteOutPipe, ConcatEmptySeq

\* The headset takes the oldest frame.
LEMMA TakePipe ==
  ASSUME TypeOK, toHeadset # <<>>, toHeadset' = Tail(toHeadset), outbox' = outbox
  PROVE  /\ Pipe # <<>> /\ Pipe' = Tail(Pipe) /\ Head(Pipe) = Head(toHeadset)
<1>1. toHeadset \in Seq(HostFrames) /\ outbox \in Seq(HostFrames)
  BY DEF TypeOK
<1>2. Len(toHeadset) \in Nat \ {0} /\ Len(outbox) \in Nat
  BY <1>1, EmptySeq, LenProperties
<1>3. /\ Pipe \in Seq(HostFrames) /\ Len(Pipe) = Len(toHeadset) + Len(outbox)
      /\ \A i \in 1..(Len(toHeadset) + Len(outbox)) :
           Pipe[i] = IF i <= Len(toHeadset) THEN toHeadset[i] ELSE outbox[i - Len(toHeadset)]
  BY <1>1, ConcatProperties DEF Pipe
<1>4. Pipe # <<>> /\ Head(Pipe) = Head(toHeadset)
  BY <1>2, <1>3
<1>5. /\ Tail(toHeadset) \in Seq(HostFrames) /\ Len(Tail(toHeadset)) = Len(toHeadset) - 1
      /\ \A i \in 1..Len(Tail(toHeadset)) : Tail(toHeadset)[i] = toHeadset[i + 1]
  BY <1>1, HeadTailProperties
<1>6. /\ Tail(Pipe) \in Seq(HostFrames) /\ Len(Tail(Pipe)) = Len(Pipe) - 1
      /\ \A i \in 1..Len(Tail(Pipe)) : Tail(Pipe)[i] = Pipe[i + 1]
  BY <1>3, <1>4, HeadTailProperties
<1>7. Pipe' = Tail(toHeadset) \o outbox
  BY DEF Pipe
<1>8. /\ Pipe' \in Seq(HostFrames) /\ Len(Pipe') = Len(toHeadset) - 1 + Len(outbox)
      /\ \A i \in 1..(Len(toHeadset) - 1 + Len(outbox)) :
           Pipe'[i] = IF i <= Len(toHeadset) - 1 THEN Tail(toHeadset)[i]
                                                 ELSE outbox[i - (Len(toHeadset) - 1)]
  BY <1>1, <1>5, <1>7, ConcatProperties
<1> DEFINE p == Pipe'
<1>9. p \in Seq(HostFrames) /\ Len(p) = Len(Tail(Pipe))
  BY <1>2, <1>3, <1>6, <1>8
<1>10. \A i \in 1..Len(p) : p[i] = Tail(Pipe)[i]
  BY <1>2, <1>3, <1>5, <1>6, <1>8
<1> HIDE DEF p
<1>11. p = Tail(Pipe)
  BY <1>6, <1>9, <1>10, SeqEqual
<1> QED BY <1>4, <1>11 DEF p

\* What is on the link after a step: as before,
LEMMA PipeKept ==
  ASSUME TypeOK, TypeOK', Pipe' = Pipe
  PROVE  InFlight' = InFlight
BY LinkFactsHold, LinkFactsNext DEF LinkFacts

\* One frame less.
LEMMA PipeShorter ==
  ASSUME TypeOK, TypeOK', Pipe # <<>>, Pipe' = Tail(Pipe)
  PROVE  /\ Head(Pipe) \in Range(Pipe) /\ Range(Pipe) = Range(Pipe') \cup {Head(Pipe)}
         /\ InFlight' \subseteq InFlight
         /\ \A t : Count(Pipe, t) = Count(Pipe', t) + IF Head(Pipe).type = t THEN 1 ELSE 0
<1>1. LinkFacts /\ LinkFacts'
  BY LinkFactsHold, LinkFactsNext
<1>2. Range(Pipe) = Range(Tail(Pipe)) \cup {Head(Pipe)}
  BY <1>1, TallyTail DEF LinkFacts
<1>3. \A t : Count(Pipe, t) = Count(Tail(Pipe), t) + IF Head(Pipe).type = t THEN 1 ELSE 0
  BY <1>1, CountTail DEF LinkFacts
<1> QED BY <1>1, <1>2, <1>3 DEF LinkFacts

\* One frame more.
LEMMA PipeLonger ==
  ASSUME TypeOK, TypeOK', NEW f \in HostFrames, Pipe' = Append(Pipe, f)
  PROVE  /\ Range(Pipe') = Range(Pipe) \cup {f}
         /\ InFlight' = InFlight \cup (IF f.type = "command" THEN {f} ELSE {})
         /\ \A t : Count(Pipe', t) = Count(Pipe, t) + IF f.type = t THEN 1 ELSE 0
<1>1. LinkFacts /\ LinkFacts' /\ f \in AllFrames
  BY LinkFactsHold, LinkFactsNext DEF AllFrames
<1>2. Range(Append(Pipe, f)) = Range(Pipe) \cup {f}
  BY <1>1, RangeAppend DEF LinkFacts
<1>3. \A t : Count(Append(Pipe, f), t) = Count(Pipe, t) + IF f.type = t THEN 1 ELSE 0
  BY <1>1, CountAppend DEF LinkFacts
<1> QED BY <1>1, <1>2, <1>3 DEF LinkFacts

\* The host reads the oldest frame of the headset's.
LEMMA ReadLink ==
  ASSUME TypeOK, Read
  PROVE  /\ Head(toHost) \in Range(toHost)
         /\ Range(toHost) = Range(toHost') \cup {Head(toHost)}
         /\ \A t : Count(toHost, t) = Count(toHost', t)
                                      + IF Head(toHost).type = t THEN 1 ELSE 0
<1>1. toHost # <<>> /\ toHost' = Tail(toHost)
  BY DEF Read, Reading
<1>2. toHost \in Seq(AllFrames)
  BY LinkFactsHold DEF LinkFacts
<1>3. Range(toHost) = Range(Tail(toHost)) \cup {Head(toHost)}
  BY <1>1, <1>2, TallyTail
<1>4. \A t : Count(toHost, t) = Count(Tail(toHost), t)
                                + IF Head(toHost).type = t THEN 1 ELSE 0
  BY <1>1, <1>2, CountTail
<1> QED BY <1>1, <1>3, <1>4

\* The headset sends a frame.
LEMMA HeadsetSends ==
  ASSUME TypeOK, NEW f \in HeadsetFrames, toHost' = Append(toHost, f)
  PROVE  /\ Range(toHost') = Range(toHost) \cup {f}
         /\ \A t : Count(toHost', t) = Count(toHost, t) + IF f.type = t THEN 1 ELSE 0
<1>1. toHost \in Seq(AllFrames) /\ f \in AllFrames
  BY LinkFactsHold DEF LinkFacts, AllFrames
<1>2. Range(Append(toHost, f)) = Range(toHost) \cup {f}
  BY <1>1, RangeAppend
<1>3. \A t : Count(Append(toHost, f), t) = Count(toHost, t) + IF f.type = t THEN 1 ELSE 0
  BY <1>1, CountAppend
<1> QED BY <1>2, <1>3

-----------------------------------------------------------------------------
\* Nothing is on its way that was not, and no acknowledgement more.
Quieter ==
  /\ InFlight' \subseteq InFlight
  /\ Credit' <= Credit
  /\ Acknowledgements' \subseteq Acknowledgements

\* So of a flush, which writes nothing new,
LEMMA FlushIsQuieter ==
  ASSUME TypeOK, TypeOK', WriteOut(<<>>), UNCHANGED <<toHost, ackDue>>
  PROVE  Quieter
<1>1. Pipe' = Pipe /\ LinkFacts /\ LinkFacts'
  BY FlushPipe, LinkFactsHold, LinkFactsNext
<1> QED BY <1>1, PipeKept DEF Quieter, LinkFacts, Acknowledgements

\* of a step that leaves the link alone,
LEMMA StillIsQuieter ==
  ASSUME TypeOK, TypeOK', UNCHANGED <<outbox, toHeadset, toHost, ackDue>>
  PROVE  Quieter
<1>1. Pipe' = Pipe /\ LinkFacts /\ LinkFacts'
  BY LinkFactsHold, LinkFactsNext DEF Pipe
<1> QED BY <1>1, PipeKept DEF Quieter, LinkFacts, Acknowledgements

\* and of the reading of a frame, which uses up an acknowledgement if it is one.
LEMMA ReadIsQuieter ==
  ASSUME TypeOK, TypeOK', HandleAck \/ HandleMessage \/ HandleMalformed
  PROVE  /\ Quieter
         /\ HandleAck => /\ InFlight' = InFlight /\ Credit = Credit' + 1
                         /\ Head(toHost).seq \in Acknowledgements
<1> USE DEF headset
<1>1. LinkFacts /\ LinkFacts'
  BY LinkFactsHold, LinkFactsNext
<1>2. Read /\ ackDue' = ackDue
  BY DEF HandleAck, HandleMessage, HandleMalformed
<1>3. /\ Head(toHost) \in Range(toHost)
      /\ Range(toHost) = Range(toHost') \cup {Head(toHost)}
      /\ Count(toHost, "ack") = Count(toHost', "ack")
                                + IF Head(toHost).type = "ack" THEN 1 ELSE 0
  BY <1>2, ReadLink
<1>4. Acknowledgements' \subseteq Acknowledgements
  BY <1>2, <1>3 DEF Acknowledgements
<1>5. InFlight' = InFlight /\ Count(Pipe', "command") = Count(Pipe, "command")
  <2>1. CASE HandleMessage
    <3> DEFINE f == Ack(1 - Head(toHost).seq)
    <3>1. f \in HostFrames /\ f.type # "command"
      BY <1>2, ReadType DEF Ack, HostFrames
    <3>2. WriteOut(<<f>>)
      BY <2>1 DEF HandleMessage
    <3> HIDE DEF f
    <3>3. Pipe' = Append(Pipe, f)
      BY <3>1, <3>2, WriteOnePipe
    <3>4. Count(Pipe', "command") = Count(Pipe, "command") + 0 /\ InFlight' = InFlight
      BY <3>1, <3>3, PipeLonger
    <3>5. Count(Pipe, "command") \in Nat
      BY <1>1 DEF LinkFacts
    <3> QED BY <3>4, <3>5
  <2>2. CASE HandleAck \/ HandleMalformed
    <3>1. Pipe' = Pipe
      BY <2>2 DEF HandleAck, HandleMalformed, Pipe
    <3> QED BY <3>1, PipeKept
  <2> QED BY <2>1, <2>2
<1>6. /\ Credit = Count(Pipe, "command") + Len(ackDue) + Count(toHost, "ack")
      /\ Credit' = Count(Pipe', "command") + Len(ackDue') + Count(toHost', "ack")
      /\ Count(Pipe, "command") \in Nat /\ Len(ackDue) \in Nat
      /\ Count(toHost, "ack") \in Nat /\ Count(toHost', "ack") \in Nat
  BY <1>1 DEF LinkFacts
<1>7. Credit' <= Credit /\ (Head(toHost).type = "ack" => Credit = Credit' + 1)
  BY <1>2, <1>3, <1>5, <1>6
<1>8. HandleAck => Head(toHost).type = "ack" /\ Head(toHost).seq \in Acknowledgements
  BY <1>3 DEF HandleAck, Acknowledgements
<1> QED BY <1>4, <1>5, <1>7, <1>8 DEF Quieter

\* The headset's steps but one bring nothing new for the host's requests.
LEMMA HeadsetIsQuieter ==
  ASSUME TypeOK, TypeOK',
         HeadsetHears \/ HeadsetMisses \/ HeadsetAcks \/ HeadsetReplies \/ HeadsetAnnounces
  PROVE  Quieter
<1> USE DEF host
<1>1. LinkFacts /\ LinkFacts'
  BY LinkFactsHold, LinkFactsNext
<1>2. /\ Credit = Count(Pipe, "command") + Len(ackDue) + Count(toHost, "ack")
      /\ Credit' = Count(Pipe', "command") + Len(ackDue') + Count(toHost', "ack")
      /\ Count(Pipe, "command") \in Nat /\ Len(ackDue) \in Nat
      /\ Count(Pipe', "command") \in Nat /\ Len(ackDue') \in Nat
      /\ Count(toHost, "ack") \in Nat /\ Count(toHost', "ack") \in Nat
  BY <1>1 DEF LinkFacts
<1>3. CASE HeadsetHears \/ HeadsetMisses
  <2>1. /\ toHeadset # <<>> /\ toHeadset' = Tail(toHeadset)
        /\ UNCHANGED <<outbox, toHost, ackDue>>
    BY <1>3 DEF HeadsetHears, HeadsetMisses, headset
  <2>2. Pipe # <<>> /\ Pipe' = Tail(Pipe)
    BY <2>1, TakePipe
  <2>3. /\ InFlight' \subseteq InFlight
        /\ Count(Pipe, "command") = Count(Pipe', "command")
                                    + IF Head(Pipe).type = "command" THEN 1 ELSE 0
    BY <2>2, PipeShorter
  <2> QED BY <1>2, <2>1, <2>3 DEF Quieter, Acknowledgements
<1>4. CASE HeadsetAcks
  <2> DEFINE f == Ack(Head(ackDue))
  <2>1. /\ ackDue # <<>> /\ ackDue' = Tail(ackDue) /\ toHost' = Append(toHost, f)
        /\ UNCHANGED <<outbox, toHeadset>>
    BY <1>4 DEF HeadsetAcks
  <2>2. ackDue \in Seq({0, 1})
    BY DEF TypeOK
  <2>3. /\ Head(ackDue) \in {0, 1} /\ Tail(ackDue) \in Seq({0, 1})
        /\ Range(ackDue) = Range(Tail(ackDue)) \cup {Head(ackDue)}
    BY <2>1, <2>2, TallyTail
  <2>4. f \in HeadsetFrames /\ f.type = "ack" /\ f.seq = Head(ackDue)
    BY <2>3 DEF Ack, HeadsetFrames
  <2> HIDE DEF f
  <2>5. /\ Range(toHost') = Range(toHost) \cup {f}
        /\ Count(toHost', "ack") = Count(toHost, "ack") + 1
    BY <2>1, <2>4, HeadsetSends
  <2>6. Len(ackDue') = Len(ackDue) - 1
    BY <2>1, <2>2, HeadTailProperties
  <2>7. Pipe' = Pipe /\ InFlight' = InFlight
    BY <2>1, PipeKept DEF Pipe
  <2>8. Acknowledgements' \subseteq Acknowledgements
    BY <2>1, <2>3, <2>4, <2>5 DEF Acknowledgements
  <2> QED BY <1>2, <2>5, <2>6, <2>7, <2>8 DEF Quieter
<1>5. CASE HeadsetReplies \/ HeadsetAnnounces
  <2>1. UNCHANGED <<outbox, toHeadset, ackDue>>
    BY <1>5 DEF HeadsetReplies, HeadsetAnnounces
  <2>2. \E f \in HeadsetFrames : f.type = "message" /\ toHost' = Append(toHost, f)
    <3>1. CASE HeadsetReplies
      <4> DEFINE r == Head(replyDue)
                 f == Message(ownSeq, expect[r], r)
      <4>1. r \in Requests
        BY <3>1, TallyTail DEF HeadsetReplies, TypeOK
      <4>2. f \in HeadsetFrames /\ f.type = "message"
        BY <4>1 DEF Message, HeadsetFrames, Kinds, TypeOK
      <4> QED BY <3>1, <4>2 DEF HeadsetReplies
    <3>2. CASE HeadsetAnnounces
      <4>1. PICK k \in Announced : toHost' = Append(toHost, Message(ownSeq, k, NoRequest))
        BY <3>2 DEF HeadsetAnnounces
      <4>2. /\ Message(ownSeq, k, NoRequest) \in HeadsetFrames
            /\ Message(ownSeq, k, NoRequest).type = "message"
        BY DEF Message, HeadsetFrames, Kinds, TypeOK
      <4> QED BY <4>1, <4>2
    <3> QED BY <1>5, <3>1, <3>2
  <2>3. PICK f \in HeadsetFrames : f.type = "message" /\ toHost' = Append(toHost, f)
    BY <2>2
  <2>4. /\ Range(toHost') = Range(toHost) \cup {f}
        /\ Count(toHost', "ack") = Count(toHost, "ack") + 0
    BY <2>3, HeadsetSends
  <2>5. Pipe' = Pipe /\ InFlight' = InFlight
    BY <2>1, PipeKept DEF Pipe
  <2>6. Acknowledgements' \subseteq Acknowledgements
    BY <2>1, <2>3, <2>4 DEF Acknowledgements
  <2> QED BY <1>2, <2>1, <2>4, <2>5, <2>6 DEF Quieter
<1> QED BY <1>3, <1>4, <1>5

\* The headset takes a command, and owes an acknowledgement for it.
LEMMA TakesLink ==
  ASSUME TypeOK, TypeOK', HeadsetTakes
  PROVE  LET f == Head(toHeadset)
         IN  /\ f \in InFlight /\ f.seq \in {0, 1}
             /\ InFlight' \subseteq InFlight
             /\ Credit' = Credit
             /\ Acknowledgements' = Acknowledgements \cup {1 - f.seq}
<1> DEFINE f == Head(toHeadset)
<1>1. LinkFacts /\ LinkFacts'
  BY LinkFactsHold, LinkFactsNext
<1>2. /\ Credit = Count(Pipe, "command") + Len(ackDue) + Count(toHost, "ack")
      /\ Credit' = Count(Pipe', "command") + Len(ackDue') + Count(toHost', "ack")
      /\ Count(Pipe, "command") \in Nat /\ Len(ackDue) \in Nat
      /\ Count(Pipe', "command") \in Nat /\ Len(ackDue') \in Nat
      /\ Count(toHost, "ack") \in Nat /\ Count(toHost', "ack") \in Nat
  BY <1>1 DEF LinkFacts
<1>3. /\ toHeadset # <<>> /\ toHeadset' = Tail(toHeadset) /\ f.type = "command"
      /\ ackDue' = Append(ackDue, 1 - f.seq) /\ UNCHANGED <<outbox, toHost>>
  BY DEF HeadsetTakes, host
<1> HIDE DEF f
<1>4. Pipe # <<>> /\ Pipe' = Tail(Pipe) /\ Head(Pipe) = f
  BY <1>3, TakePipe DEF f
<1>5. /\ f \in Range(Pipe) /\ InFlight' \subseteq InFlight
      /\ Count(Pipe, "command") = Count(Pipe', "command") + 1
  BY <1>3, <1>4, PipeShorter
<1>6. f \in InFlight /\ f.seq \in {0, 1}
  BY <1>1, <1>3, <1>5 DEF LinkFacts
<1>7. ackDue \in Seq({0, 1}) /\ 1 - f.seq \in {0, 1}
  <2>1. ackDue \in Seq({0, 1})
    BY DEF TypeOK
  <2> QED BY <1>6, <2>1
<1>8. Len(ackDue') = Len(ackDue) + 1 /\ Range(ackDue') = Range(ackDue) \cup {1 - f.seq}
  BY <1>3, <1>7, AppendProperties, RangeAppend
<1>9. Acknowledgements' = Acknowledgements \cup {1 - f.seq}
  BY <1>3, <1>8 DEF Acknowledgements
<1>10. Credit' = Credit
  BY <1>2, <1>3, <1>5, <1>8
<1> QED BY <1>5, <1>6, <1>9, <1>10 DEF f

\* The host sends a frame of r, and one acknowledgement more is awaited.
LEMMA SendLink ==
  ASSUME TypeOK, TypeOK', NEW r \in Requests, Send(r), UNCHANGED <<toHost, ackDue>>
  PROVE  /\ InFlight' = InFlight \cup {Command(seq, r)}
         /\ Credit' = Credit + 1
         /\ Len(awaiting') = Len(awaiting) + 1
         /\ Acknowledgements' = Acknowledgements
<1> DEFINE f == Command(seq, r)
<1>1. LinkFacts /\ LinkFacts'
  BY LinkFactsHold, LinkFactsNext
<1>2. f \in HostFrames /\ f.type = "command" /\ WriteOut(<<f>>)
  BY DEF Command, HostFrames, TypeOK, Send
<1>3. awaiting' = Append(awaiting, r) /\ awaiting \in Seq(Requests)
  BY DEF Send, TypeOK
<1> HIDE DEF f
<1>4. Pipe' = Append(Pipe, f)
  BY <1>2, WriteOnePipe
<1>5. InFlight' = InFlight \cup {f} /\ Count(Pipe', "command") = Count(Pipe, "command") + 1
  BY <1>2, <1>4, PipeLonger
<1>6. /\ Credit = Count(Pipe, "command") + Len(ackDue) + Count(toHost, "ack")
      /\ Credit' = Count(Pipe', "command") + Len(ackDue') + Count(toHost', "ack")
      /\ Count(Pipe, "command") \in Nat /\ Len(ackDue) \in Nat
      /\ Count(toHost, "ack") \in Nat
  BY <1>1 DEF LinkFacts
<1>7. Credit' = Credit + 1
  BY <1>5, <1>6
<1>8. Len(awaiting') = Len(awaiting) + 1
  BY <1>3, AppendProperties
<1> QED BY <1>5, <1>7, <1>8 DEF f, Acknowledgements

\* With nothing to be acknowledged, nothing is on its way.
NothingUnderWay == Credit <= 0 => InFlight = {} /\ Acknowledgements = {}

\* It holds of a state with its types.
LEMMA NoCredit == TypeOK => NothingUnderWay
<1> SUFFICES ASSUME TypeOK, Credit <= 0 PROVE InFlight = {} /\ Acknowledgements = {}
  BY DEF NothingUnderWay
<1>1. LinkFacts
  BY LinkFactsHold
<1>2. /\ Count(Pipe, "command") = 0 /\ Len(ackDue) = 0 /\ Count(toHost, "ack") = 0
  BY <1>1 DEF LinkFacts
<1>3. InFlight = {}
  BY <1>1, <1>2, CountNone DEF LinkFacts
<1>4. ackDue = <<>>
  BY <1>2, EmptySeq DEF TypeOK
<1>5. \A f \in Range(toHost) : f.type # "ack"
  BY <1>1, <1>2, CountNone DEF LinkFacts
<1> QED BY <1>3, <1>4, <1>5, RangeEmpty DEF Acknowledgements

\* And after a step.
LEMMA NoCreditNext == TypeOK' => NothingUnderWay'
BY NoCredit, PTL

-----------------------------------------------------------------------------
(* Traffic. *)

\* A closed session has no channel: nothing is on its way.
ClosedChannel ==
  ~open => /\ toHeadset = <<>> /\ toHost = <<>>
           /\ ackDue = <<>> /\ replyDue = <<>>
           /\ expects = 0 /\ ownSeq = 0 /\ ~offering

\* The requests that were put on the wire, as far as anything remembers them.
Seen == {f.request : f \in InFlight} \cup taken \cup Awaited

\* A request is queued before it is sent, and never after.
SentOnce == Seen \subseteq submitted \ Queued

\* Whatever is under way belongs to the request whose frames are unacknowledged
\* (OneOnTheWire); the headset expects the number a frame carries until it has
\* the request (RetransmissionRecognised); an acknowledgement under way hands
\* back the number the headset expects, of a request the headset has; and the
\* host's own number is the one expected, but while a request the headset has
\* is not known to be there.
Numbering ==
  LinkUp /\ ~forgot =>
    /\ \A s \in Acknowledgements : s = expects /\ Awaited \subseteq taken
    /\ awaiting = <<>> => seq = expects
    /\ outstanding # NoRequest =>
         IF acked THEN outstanding \in taken
         ELSE awaiting # <<>> /\ (seq = expects <=> outstanding \notin taken)

\* The second inductive invariant.
Traffic ==
  /\ ClosedChannel /\ SentOnce /\ OneOnTheWire /\ RetransmissionRecognised
  /\ Numbering /\ TakenBeforeTold

\* A closed channel stays closed but for connect().
LEMMA ChannelStep ==
  ASSUME Inv, ClosedChannel, [Next]_vars PROVE ClosedChannel'
<1> USE DEF headset, beyond
<1>1. CASE Turn \/ Headset \/ TimerExpires \/ LinkDrops
  <2>1. open /\ open' = open
    BY <1>1 DEF Turn, HandleAck, HandleMessage, HandleMalformed, EndTurn, EndTurnSilent,
      EndTurnRetransmit, EndTurnDead, Read, Reading, ReadingOver, Turning, Headset,
      HeadsetTakes, HeadsetHears, HeadsetMisses, HeadsetAcks, HeadsetReplies,
      HeadsetAnnounces, LinkUp, TimerExpires, LinkDrops, host
  <2> QED BY <2>1 DEF ClosedChannel
<1>2. CASE Caller
  <2>1. CASE Close
    BY <2>1 DEF Close, ChannelGone, ClosedChannel
  <2>2. CASE Connect
    BY <2>2 DEF Connect, ClosedChannel
  <2>3. CASE BeginWait \/ EndWait \/ WaitTimesOut \/ \E r \in Requests : Submit(r)
    <3>1. open /\ open' = open
      BY <2>3 DEF BeginWait, EndWait, WaitTimesOut, Submit, CallerRuns
    <3> QED BY <3>1 DEF ClosedChannel
  <2> QED BY <1>2, <2>1, <2>2, <2>3 DEF Caller
<1>3. CASE UNCHANGED vars
  BY <1>3 DEF vars, host, ClosedChannel
<1> QED BY <1>1, <1>2, <1>3 DEF Next

-----------------------------------------------------------------------------
\* What may be queued or seen after a step, for SentOnce to hold.
LEMMA SeenAfter ==
  ASSUME SentOnce, NEW R, R \subseteq submitted' \ Queued',
         Seen' \subseteq Seen \cup R,
         submitted \subseteq submitted',
         Queued' \subseteq Queued \cup (submitted' \ submitted)
  PROVE  SentOnce'
BY DEF SentOnce

\* A frame is sent of a request that is not queued any more.
LEMMA SeenSend ==
  ASSUME Inv, Inv', SentOnce, NEW r \in Requests, Send(r), outstanding' = r,
         UNCHANGED <<toHost, ackDue, taken, submitted>>, Queued' \subseteq Queued
  PROVE  SentOnce'
<1>1. TypeOK /\ TypeOK'
  BY DEF Inv
<1>2. InFlight' = InFlight \cup {Command(seq, r)} /\ Awaited' = Awaited \cup {r}
  BY <1>1, SendLink, SendType
<1>3. Seen' \subseteq Seen \cup {r}
  BY <1>2 DEF Seen, Command
<1>4. r \in Pending' /\ r \notin Queued'
  BY RequestsAssumption DEF Inv, Books, NoneDropped
<1>5. {r} \subseteq submitted' \ Queued'
  BY <1>4 DEF Pending
<1> QED BY <1>3, <1>5, SeenAfter

\* The next request starts: it was queued, so nothing had seen it.
LEMMA SentStart ==
  ASSUME Inv, Inv', SentOnce, MayStart, StartNext,
         UNCHANGED <<toHost, ackDue, taken, submitted>>
  PROVE  SentOnce'
<1>1. /\ outstanding' = Head(queue) /\ Head(queue) \in Requests /\ Send(Head(queue))
      /\ queue # <<>> /\ queue' = Tail(queue)
  BY StartNextType DEF Inv, StartNext
<1>2. Queued' \subseteq Queued
  BY <1>1, TailSubset DEF Queued, Inv, TypeOK
<1> QED BY <1>1, <1>2, SeenSend

\* A step that sends nothing of a request.
LEMMA SentQuietly ==
  ASSUME SentOnce, InFlight' \subseteq InFlight, taken' = taken,
         Awaited' \subseteq Awaited, submitted \subseteq submitted',
         Queued' \subseteq Queued \cup (submitted' \ submitted)
  PROVE  SentOnce'
<1>1. Seen' \subseteq Seen
  BY DEF Seen
<1> QED BY <1>1, SeenAfter

\* An acknowledgement takes one of the frames that wait for it.
LEMMA AwaitedSettles == ASSUME TypeOK, awaiting' = Settled PROVE Awaited' \subseteq Awaited
<1>1. CASE awaiting = <<>>
  BY <1>1 DEF Settled, Awaited
<1>2. CASE awaiting # <<>>
  BY <1>2, TailSubset DEF Settled, Awaited, TypeOK
<1> QED BY <1>1, <1>2

\* The caller's steps send no request twice.
LEMMA SentCaller == ASSUME Inv, Inv', SentOnce, Caller PROVE SentOnce'
<1> USE DEF current, caller, headset, beyond
<1>0. TypeOK /\ TypeOK'
  BY DEF Inv
<1>1. ASSUME NEW r \in Requests, Submit(r) PROVE SentOnce'
  <2>1. /\ r \notin submitted /\ submitted' = submitted \cup {r}
        /\ UNCHANGED <<outbox, toHeadset, taken, awaiting>>
    BY <1>1 DEF Submit
  <2>2. InFlight' = InFlight /\ Awaited' = Awaited
    BY <2>1 DEF InFlight, Awaited
  <2>3. Queued' \subseteq Queued \cup {r}
    <3>1. queue \in Seq(Requests)
      BY <1>0 DEF TypeOK
    <3>2. CASE queue' = Append(queue, r)
      BY <3>1, <3>2, AppendElements DEF Queued
    <3>3. ASSUME NEW i \in DOMAIN queue, Supersede(i, r)
          PROVE  Queued' \subseteq Queued \cup {r}
      BY <3>3 DEF Supersede, Queued
    <3> QED BY <1>0, <1>1, <3>2, <3>3, SubmitCases
  <2> QED BY <2>1, <2>2, <2>3, SentQuietly
<1>2. CASE BeginWait
  <2>1. UNCHANGED <<toHost, ackDue, taken, submitted>>
    BY <1>2 DEF BeginWait
  <2>2. CASE MayStart /\ StartNext
    BY <2>1, <2>2, SentStart
  <2>3. CASE UNCHANGED <<current, queue, awaiting, outbox, toHeadset>>
    <3>1. InFlight' = InFlight /\ Awaited' = Awaited /\ Queued' = Queued
      BY <2>3 DEF InFlight, Awaited, Queued
    <3> QED BY <2>1, <3>1, SentQuietly
  <2> QED BY <1>2, <2>2, <2>3 DEF BeginWait
<1>3. CASE EndWait
  <2>1. UNCHANGED <<outbox, toHeadset, taken, awaiting, queue, submitted>>
    BY <1>3 DEF EndWait
  <2>2. InFlight' = InFlight /\ Awaited' = Awaited /\ Queued' = Queued
    BY <2>1 DEF InFlight, Awaited, Queued
  <2> QED BY <2>1, <2>2, SentQuietly
<1>4. CASE WaitTimesOut \/ Close \/ Connect
  <2>1. /\ taken' = taken /\ submitted' = submitted
        /\ awaiting' = <<>> /\ queue' = <<>>
        /\ outbox' = outbox \/ outbox' = <<>>
        /\ toHeadset' = toHeadset \/ toHeadset' = <<>>
    BY <1>4 DEF WaitTimesOut, Close, ChannelGone, Connect, AbandonAll
  <2>2. InFlight' \subseteq InFlight /\ Awaited' = {} /\ Queued' = {}
    BY <2>1 DEF InFlight, Awaited, Queued
  <2> QED BY <2>1, <2>2, SentQuietly
<1> QED BY <1>1, <1>2, <1>3, <1>4 DEF Caller

\* Nor do the steps of a turn, which read, or send the outstanding request.
LEMMA SentTurn == ASSUME Inv, Inv', SentOnce, Turn PROVE SentOnce'
<1> USE DEF current, caller, headset, beyond
<1>0. TypeOK /\ TypeOK'
  BY DEF Inv
<1>1. submitted' = submitted /\ taken' = taken
  BY DEF Turn, HandleAck, HandleMessage, HandleMalformed, EndTurn, EndTurnSilent,
         EndTurnRetransmit, EndTurnDead
<1>2. ASSUME InFlight' \subseteq InFlight, Awaited' \subseteq Awaited, queue' = queue
      PROVE  SentOnce'
  BY <1>1, <1>2, SentQuietly DEF Queued
<1>3. CASE HandleAck \/ HandleMessage \/ HandleMalformed
  <2>1. InFlight' \subseteq InFlight
    BY <1>0, <1>3, ReadIsQuieter DEF Quieter
  <2>2. queue' = queue /\ Awaited' \subseteq Awaited
    BY <1>0, <1>3, AwaitedSettles DEF HandleAck, HandleMessage, HandleMalformed, Awaited
  <2> QED BY <1>2, <2>1, <2>2
<1>4. CASE WriteOut(<<>>) /\ UNCHANGED <<toHost, ackDue, awaiting, queue>>
  BY <1>0, <1>2, <1>4, FlushIsQuieter DEF Quieter, Awaited
<1>5. CASE MayStart /\ StartNext /\ UNCHANGED <<toHost, ackDue>>
  BY <1>1, <1>5, SentStart
<1>6. CASE EndTurn
  BY <1>4, <1>5, <1>6 DEF EndTurn
<1>7. CASE EndTurnSilent
  BY <1>4, <1>5, <1>7 DEF EndTurnSilent
<1>8. CASE EndTurnRetransmit
  <2>1. /\ outstanding \in Requests /\ Send(outstanding) /\ outstanding' = outstanding
        /\ queue' = queue /\ UNCHANGED <<toHost, ackDue>>
    BY <1>0, <1>8 DEF EndTurnRetransmit, Unacknowledged, TypeOK
  <2> QED BY <1>1, <2>1, SeenSend DEF Queued
<1>9. CASE EndTurnDead
  BY <1>4, <1>9 DEF EndTurnDead
<1> QED BY <1>3, <1>6, <1>7, <1>8, <1>9 DEF Turn

\* Every step sends a request that was queued, or that is outstanding.
LEMMA SentStep == ASSUME Inv, Inv', SentOnce, [Next]_vars PROVE SentOnce'
<1> USE DEF current, caller, host, headset, beyond
<1>0. TypeOK /\ TypeOK'
  BY DEF Inv
<1>1. CASE HeadsetTakes
  <2>1. /\ Head(toHeadset) \in InFlight /\ InFlight' \subseteq InFlight
    BY <1>0, <1>1, TakesLink
  <2>2. /\ taken' = taken \cup {Head(toHeadset).request}
        /\ UNCHANGED <<awaiting, queue, submitted>>
    BY <1>1 DEF HeadsetTakes
  <2>3. Seen' \subseteq Seen
    BY <2>1, <2>2 DEF Seen, Awaited
  <2> QED BY <2>2, <2>3 DEF SentOnce, Queued
<1>2. ASSUME UNCHANGED <<awaiting, queue, submitted, taken>>, Quieter PROVE SentOnce'
  BY <1>2, SentQuietly DEF Quieter, Awaited, Queued
<1>3. CASE HeadsetHears \/ HeadsetMisses \/ HeadsetAcks \/ HeadsetReplies \/ HeadsetAnnounces
  <2>1. UNCHANGED <<awaiting, queue, submitted, taken>>
    BY <1>3 DEF HeadsetHears, HeadsetMisses, HeadsetAcks, HeadsetReplies, HeadsetAnnounces
  <2> QED BY <1>0, <1>2, <1>3, <2>1, HeadsetIsQuieter
<1>4. CASE TimerExpires \/ LinkDrops \/ UNCHANGED vars
  <2>1. /\ UNCHANGED <<awaiting, queue, submitted, taken>>
        /\ UNCHANGED <<outbox, toHeadset, toHost, ackDue>>
    BY <1>4 DEF TimerExpires, LinkDrops, vars
  <2> QED BY <1>0, <1>2, <2>1, StillIsQuieter
<1> QED BY <1>1, <1>3, <1>4, SentCaller, SentTurn DEF Next, Headset

\* What Traffic says while the session lives and nothing was forgotten.
Line == OneOnTheWire /\ RetransmissionRecognised /\ Numbering

\* A dead session, or one that forgot, promises nothing.
LEMMA DeadLine == ASSUME ~LinkUp' \/ forgot' PROVE Line'
BY DEF Line, OneOnTheWire, RetransmissionRecognised, Numbering, LinkUp

\* A step that sends nothing and acknowledges nothing.
LEMMA QuietLine ==
  ASSUME TypeOK, TypeOK', Line, Quieter, LinkUp' => LinkUp, forgot' = forgot,
         UNCHANGED <<awaiting, expects, seq, taken>>,
         outstanding' = NoRequest \/ UNCHANGED <<outstanding, acked>>
  PROVE  Line'
<1>1. SUFFICES ASSUME LinkUp', ~forgot' PROVE Line'
  BY DeadLine
<1>2. LinkUp /\ ~forgot /\ Awaited' = Awaited
  BY <1>1 DEF Awaited
<1>3. /\ {f.request : f \in InFlight} \subseteq Awaited
      /\ Credit <= Len(awaiting)
  BY <1>2 DEF Line, OneOnTheWire
<1>4. Credit' <= Len(awaiting')
  <2>1. Credit \in Nat /\ Credit' \in Nat /\ Len(awaiting) \in Nat /\ Credit' <= Credit
    BY LinkFactsHold, LinkFactsNext, LenProperties DEF LinkFacts, TypeOK, Quieter
  <2> QED BY <1>3, <2>1
<1>5. OneOnTheWire'
  BY <1>2, <1>3, <1>4 DEF OneOnTheWire, Quieter
<1>6. RetransmissionRecognised'
  BY <1>2 DEF Line, RetransmissionRecognised, Quieter
<1>7. Numbering'
  BY <1>2 DEF Line, Numbering, Quieter
<1> QED BY <1>5, <1>6, <1>7 DEF Line

\* A frame of the outstanding request is sent, the first or another one.
LEMMA SendLine ==
  ASSUME Inv, Inv', Line, LinkUp, forgot' = forgot, NEW r \in Requests, Send(r),
         outstanding' = r, UNCHANGED <<toHost, ackDue, expects, seq, taken>>,
         \/ awaiting = <<>> /\ r \notin taken
         \/ outstanding = r /\ ~acked
  PROVE  Line'
<1>1. SUFFICES ASSUME ~forgot' PROVE Line'
  BY DeadLine
<1>2. TypeOK /\ TypeOK' /\ ~forgot
  BY <1>1 DEF Inv
<1>3. /\ InFlight' = InFlight \cup {Command(seq, r)} /\ Credit' = Credit + 1
      /\ Len(awaiting') = Len(awaiting) + 1
      /\ Acknowledgements' = Acknowledgements
  BY <1>2, SendLink
<1>4. Awaited' = Awaited \cup {r} /\ acked' = FALSE
  BY <1>2, SendType
<1>5. /\ {f.request : f \in InFlight} \subseteq Awaited
      /\ Credit <= Len(awaiting)
  BY <1>2 DEF Line, OneOnTheWire
<1>6. Credit \in Nat /\ Len(awaiting) \in Nat
  BY <1>2, LinkFactsHold, LenProperties DEF LinkFacts, TypeOK
<1>7. r # NoRequest
  BY RequestsAssumption
<1>8. (seq = expects <=> r \notin taken)
  BY <1>2, <1>7 DEF Line, Numbering
<1>9. awaiting' # <<>>
  <2>1. awaiting' = Append(awaiting, r) /\ awaiting \in Seq(Requests)
    BY <1>2 DEF Send, TypeOK
  <2> QED BY <2>1, AppendProperties
<1>10. OneOnTheWire'
  BY <1>3, <1>4, <1>5, <1>6 DEF OneOnTheWire, Command
<1>11. RetransmissionRecognised'
  BY <1>2, <1>3, <1>8 DEF Line, RetransmissionRecognised, Command
<1>12. \A s \in Acknowledgements : s = expects /\ r \in taken
  <2>1. CASE awaiting = <<>>
    <3>1. Credit <= 0
      BY <1>5, <1>6, <2>1
    <3> QED BY <1>2, <3>1, NoCredit DEF NothingUnderWay
  <2>2. CASE awaiting # <<>>
    <3>1. outstanding = r /\ ~acked
      BY <2>2
    <3>2. Awaited \subseteq {r} /\ Awaited # {}
      <4>1. Awaited \subseteq {r}
        BY <1>7, <3>1 DEF Inv, Books, AwaitingOneRequest
      <4>2. Len(awaiting) \in Nat \ {0} /\ DOMAIN awaiting = 1..Len(awaiting)
        BY <1>2, <2>2, EmptySeq, LenProperties DEF TypeOK
      <4> QED BY <4>1, <4>2 DEF Awaited
    <3> QED BY <1>2, <3>2 DEF Line, Numbering
  <2> QED BY <2>1, <2>2
<1>13. Numbering'
  <2>1. \A s \in Acknowledgements' : s = expects' /\ Awaited' \subseteq taken'
    BY <1>2, <1>3, <1>4, <1>12 DEF Line, Numbering
  <2> QED BY <1>4, <1>8, <1>9, <2>1 DEF Numbering
<1> QED BY <1>10, <1>11, <1>13 DEF Line

\* The next request starts: the headset does not have it.
LEMMA StartLine ==
  ASSUME Inv, Inv', SentOnce, Line, LinkUp, forgot' = forgot, MayStart, StartNext,
         UNCHANGED <<toHost, ackDue, expects, seq, taken>>
  PROVE  Line'
<1>1. /\ outstanding' = Head(queue) /\ Head(queue) \in Requests /\ Send(Head(queue))
      /\ queue # <<>> /\ awaiting = <<>>
  BY StartNextType DEF Inv, StartNext, MayStart
<1>2. Head(queue) \in Queued
  BY <1>1, TallyTail DEF Inv, TypeOK, Range, Queued
<1>3. Head(queue) \notin taken
  BY <1>2 DEF SentOnce, Seen
<1> QED BY <1>1, <1>3, SendLine

\* An acknowledgement is read.
LEMMA AckLine == ASSUME Inv, Inv', Line, HandleAck PROVE Line'
<1> USE DEF current, headset
<1>1. SUFFICES ASSUME LinkUp', ~forgot' PROVE Line'
  BY DeadLine
<1>2. /\ LinkUp /\ ~forgot /\ TypeOK /\ TypeOK' /\ awaiting' = Settled
      /\ seq' = Head(toHost).seq /\ UNCHANGED <<expects, taken>>
  BY <1>1 DEF LinkUp, HandleAck, HandedBack, Inv
<1>3. /\ InFlight' = InFlight /\ Credit = Credit' + 1 /\ Head(toHost).seq \in Acknowledgements
      /\ Acknowledgements' \subseteq Acknowledgements
  BY <1>2, ReadIsQuieter DEF Quieter
<1>4. /\ {f.request : f \in InFlight} \subseteq Awaited /\ Credit <= Len(awaiting)
      /\ \A r, s \in Awaited : r = s
      /\ outstanding # NoRequest => Awaited \subseteq {outstanding}
  BY <1>2 DEF Line, OneOnTheWire, Inv, Books, AwaitingOneRequest
<1>5. Credit \in Nat /\ Credit' \in Nat /\ Len(awaiting) \in Nat
  BY <1>2, LinkFactsHold, LinkFactsNext, LenProperties DEF LinkFacts, TypeOK
<1>6. Head(toHost).seq = expects /\ Awaited \subseteq taken
  BY <1>2, <1>3 DEF Line, Numbering
<1>7. awaiting # <<>>
  <2>1. Credit = Credit' + 1 /\ Credit <= Len(awaiting)
    BY <1>3, <1>4
  <2>2. Len(awaiting) # 0
    BY <1>5, <2>1
  <2> QED BY <2>2
<1>8. /\ awaiting' = Tail(awaiting) /\ awaiting' \in Seq(Requests)
      /\ Len(awaiting') = Len(awaiting) - 1 /\ Head(awaiting) \in Awaited
      /\ Awaited' \subseteq Awaited
  <2>1. awaiting \in Seq(Requests) /\ awaiting' = Tail(awaiting)
    BY <1>2, <1>7 DEF TypeOK, Settled
  <2>2. /\ Tail(awaiting) \in Seq(Requests) /\ Len(Tail(awaiting)) = Len(awaiting) - 1
        /\ Head(awaiting) \in Range(awaiting)
    BY <1>7, <2>1, HeadTailProperties, TallyTail
  <2> QED BY <1>2, <2>1, <2>2, AwaitedSettles DEF Awaited, Range
<1>9. Credit' <= Len(awaiting')
  <2>1. /\ Len(awaiting') = Len(awaiting) - 1
        /\ Credit = Credit' + 1 /\ Credit <= Len(awaiting)
    BY <1>3, <1>4, <1>8
  <2> QED BY <1>5, <2>1
<1>10. {f.request : f \in InFlight} \subseteq Awaited'
  <2>1. CASE awaiting' = <<>>
    <3>1. Credit' <= 0
      BY <1>9, <2>1
    <3> QED BY <1>2, <1>3, <3>1, NoCreditNext DEF NothingUnderWay
  <2>2. CASE awaiting' # <<>>
    <3>1. Awaited' # {}
      <4>1. awaiting' \in Seq(Requests)
        BY <1>8
      <4>2. Len(awaiting') \in Nat \ {0} /\ DOMAIN awaiting' = 1..Len(awaiting')
        BY <2>2, <4>1, EmptySeq, LenProperties
      <4>3. 1 \in DOMAIN awaiting'
        BY <4>2
      <4> QED BY <4>3 DEF Awaited
    <3> QED BY <1>4, <1>8, <3>1
  <2> QED BY <2>1, <2>2
<1>11. OneOnTheWire'
  BY <1>3, <1>9, <1>10 DEF OneOnTheWire
<1>12. RetransmissionRecognised'
  BY <1>2, <1>3 DEF Line, RetransmissionRecognised
<1>13. outstanding' # NoRequest => acked' /\ outstanding' \in taken
  <2>1. CASE outstanding = NoRequest
    BY <2>1, <1>8, RequestsAssumption DEF HandleAck, Earned, NoOutstanding, Inv, TypeOK, Awaited
  <2>2. CASE outstanding # NoRequest
    <3>1. Head(awaiting) = outstanding /\ outstanding \in taken
      BY <1>4, <1>6, <1>8, <2>2
    <3>2. Earned \/ acked
      BY <1>7, <3>1 DEF Earned
    <3> QED BY <3>1, <3>2, <1>2 DEF HandleAck, NoOutstanding
  <2> QED BY <2>1, <2>2
<1>14. Numbering'
  <2>1. \A s \in Acknowledgements' : s = expects' /\ Awaited' \subseteq taken'
    BY <1>2, <1>3, <1>6, <1>8 DEF Line, Numbering
  <2> QED BY <1>2, <1>6, <1>13, <2>1 DEF Numbering
<1> QED BY <1>11, <1>12, <1>14 DEF Line

\* The headset takes a command, or takes it again.
LEMMA TakesLine == ASSUME Inv, Inv', Line, HeadsetTakes PROVE Line'
<1> USE DEF current, host
<1> DEFINE f == Head(toHeadset)
<1>1. SUFFICES ASSUME LinkUp', ~forgot' PROVE Line'
  BY DeadLine
<1>2. /\ LinkUp /\ ~forgot /\ TypeOK /\ TypeOK'
      /\ taken' = taken \cup {f.request}
      /\ expects' = (IF f.seq = expects THEN 1 - expects ELSE expects)
      /\ UNCHANGED <<awaiting, seq, outstanding, acked>>
  BY <1>1 DEF HeadsetTakes, Inv
<1>3. /\ f \in InFlight /\ f.seq \in {0, 1} /\ InFlight' \subseteq InFlight
      /\ Credit' = Credit /\ Acknowledgements' = Acknowledgements \cup {1 - f.seq}
  BY <1>2, TakesLink
<1> HIDE DEF f
<1>4. /\ {g.request : g \in InFlight} \subseteq Awaited /\ Credit <= Len(awaiting)
      /\ \A r, s \in Awaited : r = s
      /\ outstanding # NoRequest => Awaited \subseteq {outstanding}
  BY <1>2 DEF Line, OneOnTheWire, Inv, Books, AwaitingOneRequest
<1>5. Awaited' = Awaited /\ Awaited = {f.request}
  BY <1>2, <1>3, <1>4 DEF Awaited
<1>6. expects \in {0, 1} /\ seq \in {0, 1}
  BY <1>2 DEF TypeOK
<1>7. OneOnTheWire'
  BY <1>2, <1>3, <1>4, <1>5 DEF OneOnTheWire
<1>8. \A g \in InFlight : /\ g.request = f.request
                          /\ g.seq = expects <=> f.request \notin taken
  BY <1>2, <1>3, <1>4, <1>5 DEF Line, RetransmissionRecognised
<1>9. \A g \in InFlight : g.seq \in {0, 1}
  BY <1>2, LinkFactsHold DEF LinkFacts
<1>10. expects' = 1 - f.seq /\ \A g \in InFlight : g.seq # expects'
  BY <1>2, <1>3, <1>6, <1>8, <1>9
<1>11. RetransmissionRecognised'
  BY <1>2, <1>3, <1>8, <1>10 DEF RetransmissionRecognised
<1>12. \A s \in Acknowledgements' : s = expects' /\ Awaited' \subseteq taken'
  <2>1. ASSUME NEW s \in Acknowledgements PROVE s = expects /\ f.request \in taken
    BY <1>2, <1>5 DEF Line, Numbering
  <2>2. \A s \in Acknowledgements : s = expects'
    BY <1>2, <1>3, <1>8, <2>1
  <2> QED BY <1>2, <1>3, <1>5, <1>10, <2>2
<1>13. awaiting # <<>>
  BY <1>5 DEF Awaited
<1>14. outstanding # NoRequest =>
         IF acked THEN outstanding \in taken'
         ELSE (seq = expects' <=> outstanding \notin taken')
  <2>1. CASE outstanding # NoRequest /\ ~acked
    <3>1. outstanding = f.request /\ (seq = expects <=> f.request \notin taken)
      BY <1>2, <1>4, <1>5, <2>1 DEF Line, Numbering
    <3> QED BY <1>2, <1>3, <1>6, <1>8, <3>1, <2>1
  <2>2. CASE outstanding # NoRequest /\ acked
    BY <1>2, <2>2 DEF Line, Numbering
  <2> QED BY <2>1, <2>2
<1>15. Numbering'
  BY <1>2, <1>12, <1>13, <1>14 DEF Numbering
<1> QED BY <1>7, <1>11, <1>15 DEF Line

\* connect() starts from nothing.
LEMMA ConnectLine == ASSUME Inv, Inv', ClosedChannel, Connect PROVE Line'
<1> USE DEF current, headset, beyond
<1>1. /\ toHeadset' = <<>> /\ outbox' = <<>> /\ toHost' = <<>> /\ ackDue' = <<>>
      /\ awaiting' = <<>> /\ seq' = 0 /\ expects' = 0 /\ outstanding' = NoRequest
  BY DEF Connect, ClosedChannel, NoOutstanding
<1>2. Count(outbox', "command") = 0 /\ Count(toHeadset', "command") = 0
      /\ Count(toHost', "ack") = 0 /\ Len(ackDue') = 0 /\ Len(awaiting') = 0
  BY <1>1, CountEmpty
<1>3. Credit' = 0
  BY <1>2 DEF Credit
<1>4. InFlight' = {} /\ Acknowledgements' = {}
  BY <1>3, NoCreditNext DEF NothingUnderWay, Inv
<1>5. OneOnTheWire'
  BY <1>2, <1>3, <1>4 DEF OneOnTheWire
<1> QED BY <1>1, <1>4, <1>5 DEF Line, RetransmissionRecognised, Numbering

\* The caller's steps.
LEMMA LineCaller ==
  ASSUME Inv, Inv', ClosedChannel, SentOnce, Line, Caller PROVE Line'
<1> USE DEF current, headset, beyond
<1>0. TypeOK /\ TypeOK'
  BY DEF Inv
<1>1. ASSUME UNCHANGED <<outbox, toHeadset, beyond>>,
             UNCHANGED <<open, alive, seq, current, awaiting>>
      PROVE  Line'
  <2>1. Quieter
    BY <1>0, <1>1, StillIsQuieter
  <2> QED BY <1>0, <1>1, <2>1, QuietLine DEF LinkUp
<1>2. CASE EndWait \/ \E r \in Requests : Submit(r)
  BY <1>1, <1>2 DEF EndWait, Submit
<1>3. CASE BeginWait
  <2>1. CASE MayStart /\ StartNext
    BY <1>3, <2>1, StartLine DEF BeginWait, LinkUp, CallerRuns
  <2>2. CASE UNCHANGED <<current, queue, awaiting, outbox, toHeadset>>
    BY <1>1, <1>3, <2>2 DEF BeginWait
  <2> QED BY <1>3, <2>1, <2>2 DEF BeginWait
<1>4. CASE WaitTimesOut
  <2>1. SUFFICES ASSUME ~forgot' PROVE Line'
    BY DeadLine
  <2>2. /\ awaiting = <<>> /\ awaiting' = <<>> /\ forgot' = forgot
        /\ outstanding' = NoRequest
        /\ UNCHANGED <<open, alive, seq, outbox, toHeadset, toHost, headset>>
    <3>1. forgot' = (forgot \/ awaiting # <<>>) /\ forgot \in BOOLEAN
      BY <1>0, <1>4 DEF WaitTimesOut, TypeOK
    <3>2. awaiting = <<>> /\ forgot' = forgot
      BY <2>1, <3>1
    <3>3. /\ awaiting' = <<>> /\ outstanding' = NoRequest
          /\ UNCHANGED <<open, alive, seq, outbox, toHeadset, toHost, headset>>
      BY <1>4 DEF WaitTimesOut, AbandonAll, NoOutstanding
    <3> QED BY <3>2, <3>3
  <2>3. Quieter
    BY <1>0, <2>2, StillIsQuieter
  <2> QED BY <1>0, <2>2, <2>3, QuietLine DEF LinkUp
<1>5. CASE Close
  BY <1>5, DeadLine DEF Close, LinkUp
<1>6. CASE Connect
  BY <1>6, ConnectLine
<1> QED BY <1>2, <1>3, <1>4, <1>5, <1>6 DEF Caller

\* The steps of a turn.
LEMMA LineTurn == ASSUME Inv, Inv', SentOnce, Line, Turn PROVE Line'
<1> USE DEF current, headset, beyond
<1>0. TypeOK /\ TypeOK'
  BY DEF Inv
<1>1. LinkUp /\ forgot' = forgot
  BY DEF Turn, HandleAck, HandleMessage, HandleMalformed, EndTurn, EndTurnSilent,
    EndTurnRetransmit, EndTurnDead, Read, Reading, ReadingOver, Turning, LinkUp
<1>2. ASSUME Quieter, UNCHANGED <<awaiting, expects, seq, taken>>,
             outstanding' = NoRequest \/ UNCHANGED <<outstanding, acked>>
      PROVE  Line'
  BY <1>0, <1>1, <1>2, QuietLine
<1>3. CASE HandleAck
  BY <1>3, AckLine
<1>4. CASE HandleMessage \/ HandleMalformed
  <2>1. Quieter
    BY <1>0, <1>4, ReadIsQuieter
  <2> QED BY <1>2, <1>4, <2>1 DEF HandleMessage, HandleMalformed, NoOutstanding
<1>5. CASE EndTurn
  <2>1. CASE MayStart /\ StartNext
    BY <1>1, <1>5, <2>1, StartLine DEF EndTurn
  <2>2. CASE WriteOut(<<>>) /\ UNCHANGED <<current, queue, awaiting>>
    <3>1. Quieter
      BY <1>0, <1>5, <2>2, FlushIsQuieter DEF EndTurn
    <3> QED BY <1>2, <1>5, <2>2, <3>1 DEF EndTurn
  <2> QED BY <1>5, <2>1, <2>2 DEF EndTurn
<1>6. CASE EndTurnSilent
  <2>1. CASE MayStart /\ StartNext
    BY <1>1, <1>6, <2>1, StartLine DEF EndTurnSilent
  <2>2. CASE WriteOut(<<>>) /\ NoOutstanding /\ UNCHANGED <<queue, awaiting>>
    <3>1. Quieter
      BY <1>0, <1>6, <2>2, FlushIsQuieter DEF EndTurnSilent
    <3> QED BY <1>2, <1>6, <2>2, <3>1 DEF EndTurnSilent, NoOutstanding
  <2> QED BY <1>6, <2>1, <2>2 DEF EndTurnSilent
<1>7. CASE EndTurnRetransmit
  <2>1. /\ outstanding \in Requests /\ Send(outstanding) /\ outstanding' = outstanding
        /\ ~acked /\ UNCHANGED <<toHost, ackDue, expects, seq, taken>>
    BY <1>0, <1>7 DEF EndTurnRetransmit, Unacknowledged, TypeOK
  <2> QED BY <1>1, <2>1, SendLine
<1>8. CASE EndTurnDead
  BY <1>8, DeadLine DEF EndTurnDead, LinkUp
<1> QED BY <1>3, <1>4, <1>5, <1>6, <1>7, <1>8 DEF Turn

\* Every step keeps what the line promises.
LEMMA LineStep ==
  ASSUME Inv, Inv', ClosedChannel, SentOnce, Line, [Next]_vars PROVE Line'
<1> USE DEF current, host, headset, beyond
<1>0. TypeOK /\ TypeOK'
  BY DEF Inv
<1>1. CASE HeadsetHears \/ HeadsetMisses \/ HeadsetAcks \/ HeadsetReplies \/ HeadsetAnnounces
  <2>1. /\ UNCHANGED <<open, alive, forgot, awaiting, seq, outstanding, acked>>
        /\ UNCHANGED <<expects, taken>>
    BY <1>1 DEF HeadsetHears, HeadsetMisses, HeadsetAcks, HeadsetReplies, HeadsetAnnounces
  <2> QED BY <1>0, <1>1, <2>1, HeadsetIsQuieter, QuietLine DEF LinkUp
<1>2. CASE TimerExpires \/ UNCHANGED vars
  <2>1. /\ UNCHANGED <<open, alive, forgot, awaiting, seq, outstanding, acked>>
        /\ UNCHANGED <<expects, taken, outbox, toHeadset, toHost, ackDue>>
    BY <1>2 DEF TimerExpires, vars
  <2> QED BY <1>0, <2>1, StillIsQuieter, QuietLine DEF LinkUp
<1>3. CASE LinkDrops
  BY <1>3, DeadLine DEF LinkDrops, LinkUp
<1> QED BY <1>1, <1>2, <1>3, LineCaller, LineTurn, TakesLine DEF Next, Headset

-----------------------------------------------------------------------------
(* Outcomes. *)

\* The outcome told last is the one that is added.
LEMMA LastTold ==
  ASSUME NEW s \in Seq(Outcomes), NEW o \in Outcomes, NEW x, Append(s, o) = <<x>>
  PROVE  x = o
<1>1. Len(Append(s, o)) = Len(s) + 1 /\ Append(s, o)[Len(s) + 1] = o /\ Len(s) \in Nat
  BY AppendProperties, LenProperties
<1>2. Len(<<x>>) = 1
  OBVIOUS
<1>3. Len(s) + 1 = 1
  BY <1>1, <1>2
<1> QED BY <1>1, <1>3

\* What a step tells, and of which requests.
LEMMA TellStep ==
  ASSUME TypeOK, TakenBeforeTold, taken \subseteq taken', forgot => forgot',
         NEW R, NEW o \in Outcomes, Finish(R, o),
         o \in {"acked", "silent"} /\ ~forgot' => R \subseteq taken'
  PROVE  TakenBeforeTold'
<1>1. \A r \in Requests : /\ told[r] \in Seq(Outcomes)
                          /\ told'[r] = IF r \in R THEN Append(told[r], o) ELSE told[r]
  BY FinishType DEF TypeOK
<1>2. ASSUME NEW r \in Requests, ~forgot',
             told'[r] = <<"acked">> \/ told'[r] = <<"silent">>
      PROVE  r \in taken'
  <2>1. CASE r \in R
    BY <1>1, <1>2, <2>1, LastTold
  <2>2. CASE r \notin R
    BY <1>1, <1>2, <2>2 DEF TakenBeforeTold, Told
  <2> QED BY <2>1, <2>2
<1> QED BY <1>2 DEF TakenBeforeTold, Told

\* A step that tells nothing.
LEMMA UntoldStep ==
  ASSUME TakenBeforeTold, taken \subseteq taken', forgot => forgot', told' = told
  PROVE  TakenBeforeTold'
BY DEF TakenBeforeTold, Told

\* An outcome is `acked` or `silent` only of a request the headset has.
LEMMA ToldStep ==
  ASSUME Inv, Line, TakenBeforeTold, [Next]_vars PROVE TakenBeforeTold'
<1> USE DEF current, caller, host, headset, beyond
<1>0. TypeOK
  BY DEF Inv
<1>1. CASE HandleAck
  <2>1. taken' = taken /\ forgot' = forgot /\ LinkUp
    BY <1>1 DEF HandleAck, Read, Reading, Turning, LinkUp
  <2>2. CASE Earned /\ Finish({outstanding}, "acked")
    <3>1. ~forgot => outstanding \in taken
      <4>1. Head(toHost) \in Range(toHost)
        BY <1>0, <1>1, ReadLink DEF HandleAck
      <4>2. Head(toHost).seq \in Acknowledgements
        BY <1>1, <4>1 DEF HandleAck, Acknowledgements
      <4>3. outstanding \in Awaited
        BY <1>0, <2>2, TallyTail DEF Earned, Awaited, TypeOK, Range
      <4> QED BY <2>1, <4>2, <4>3 DEF Line, Numbering
    <3> QED BY <1>0, <2>1, <2>2, <3>1, TellStep DEF Outcomes
  <2>3. CASE told' = told
    BY <2>1, <2>3, UntoldStep
  <2> QED BY <1>1, <2>2, <2>3 DEF HandleAck
<1>2. CASE EndTurnSilent
  <2>1. taken' = taken /\ forgot' = forgot /\ LinkUp /\ Finish({outstanding}, "silent")
    BY <1>2 DEF EndTurnSilent, ReadingOver, Turning, LinkUp
  <2>2. ~forgot => outstanding \in taken
    BY <1>2, <2>1 DEF EndTurnSilent, Unanswered, Line, Numbering
  <2> QED BY <1>0, <2>1, <2>2, TellStep DEF Outcomes
<1>3. ASSUME taken \subseteq taken', forgot => forgot',
             \/ told' = told
             \/ \E R : Finish(R, "failed") \/ Finish(R, "replied")
      PROVE  TakenBeforeTold'
  <2>1. CASE told' = told
    BY <1>3, <2>1, UntoldStep
  <2>2. ASSUME NEW R, NEW o \in {"failed", "replied"}, Finish(R, o)
        PROVE  TakenBeforeTold'
    BY <1>0, <1>3, <2>2, TellStep DEF Outcomes
  <2> QED BY <1>3, <2>1, <2>2
<1>4. CASE HandleMessage \/ HandleMalformed \/ EndTurn \/ EndTurnRetransmit \/ EndTurnDead
  BY <1>3, <1>4 DEF HandleMessage, HandleMalformed, EndTurn, EndTurnRetransmit, EndTurnDead
<1>5. CASE Caller
  BY <1>3, <1>5 DEF Caller, Submit, Supersede, BeginWait, EndWait, WaitTimesOut, Close,
    Connect, AbandonAll, ChannelGone
<1>6. CASE Headset \/ LinkDrops \/ TimerExpires \/ UNCHANGED vars
  BY <1>3, <1>6 DEF Headset, HeadsetTakes, HeadsetHears, HeadsetMisses, HeadsetAcks,
    HeadsetReplies, HeadsetAnnounces, LinkDrops, TimerExpires, vars
<1> QED BY <1>1, <1>2, <1>4, <1>5, <1>6 DEF Next, Turn

-----------------------------------------------------------------------------
\* Every step keeps Traffic.
LEMMA TrafficStep == ASSUME Inv, Inv', Traffic, [Next]_vars PROVE Traffic'
BY ChannelStep, SentStep, LineStep, ToldStep DEF Traffic, Line

\* The initial states have it: nothing is on its way.
LEMMA TrafficInit == ASSUME Init PROVE Traffic
<1>1. TypeOK
  BY InitType
<1>2. /\ toHeadset = <<>> /\ outbox = <<>> /\ toHost = <<>> /\ ackDue = <<>>
      /\ awaiting = <<>> /\ taken = {} /\ queue = <<>> /\ seq = expects
      /\ outstanding = NoRequest
  BY DEF Init
<1>3. Count(outbox, "command") = 0 /\ Count(toHeadset, "command") = 0
      /\ Count(toHost, "ack") = 0 /\ Len(ackDue) = 0 /\ Len(awaiting) = 0
  BY <1>2, CountEmpty
<1>4. Credit = 0
  BY <1>3 DEF Credit
<1>5. InFlight = {} /\ Acknowledgements = {} /\ Awaited = {}
  BY <1>1, <1>2, <1>4, NoCredit DEF NothingUnderWay, Awaited
<1>6. OneOnTheWire /\ RetransmissionRecognised /\ Numbering
  BY <1>2, <1>3, <1>4, <1>5 DEF OneOnTheWire, RetransmissionRecognised, Numbering
<1>7. SentOnce
  BY <1>2, <1>5 DEF SentOnce, Seen
<1>8. ClosedChannel /\ TakenBeforeTold
  BY DEF Init, ClosedChannel, TakenBeforeTold, Told
<1> QED BY <1>6, <1>7, <1>8 DEF Traffic

-----------------------------------------------------------------------------
(* The headset's commands. *)

\* AcknowledgementKept, and the numbers by which the headset knows its
\* acknowledgement: it has one command under way at most, the message the host
\* has not read or the acknowledgement on its way, and that one has its number.
Kept ==
  /\ AcknowledgementKept
  /\ LinkUp /\ losses = 0 =>
       /\ \A f \in Range(Pipe) : f.type = "ack" => f.seq = 1 - ownSeq
       /\ \A m \in Range(toHost) : m.type = "message" => m.seq = ownSeq

\* The command of the headset that is under way, counted on the whole link.
Owed == Count(toHost, "message") + Count(Pipe, "ack")

\* AcknowledgementKept in terms of Owed.
LEMMA OwedIsKept ==
  TypeOK => /\ AcknowledgementKept <=>
                 (LinkUp /\ losses = 0 => Owed = IF offering THEN 1 ELSE 0)
            /\ Count(toHost, "message") \in Nat /\ Count(Pipe, "ack") \in Nat
<1> SUFFICES ASSUME TypeOK
             PROVE  /\ Owed = Count(toHost, "message") + Count(outbox, "ack")
                                + Count(toHeadset, "ack")
                    /\ Count(toHost, "message") \in Nat /\ Count(Pipe, "ack") \in Nat
  BY DEF AcknowledgementKept
<1>1. /\ Count(Pipe, "ack") = Count(outbox, "ack") + Count(toHeadset, "ack")
      /\ Count(toHost, "message") \in Nat /\ Count(Pipe, "ack") \in Nat
      /\ Count(outbox, "ack") \in Nat /\ Count(toHeadset, "ack") \in Nat
  BY LinkFactsHold DEF LinkFacts
<1> QED BY <1>1 DEF Owed

\* And after a step.
LEMMA OwedIsKeptNext ==
  TypeOK' => /\ AcknowledgementKept' <=>
                  (LinkUp' /\ losses' = 0 => Owed' = IF offering' THEN 1 ELSE 0)
             /\ Count(toHost', "message") \in Nat /\ Count(Pipe', "ack") \in Nat
<1> SUFFICES ASSUME TypeOK'
             PROVE  /\ Owed' = Count(toHost', "message") + Count(outbox', "ack")
                                 + Count(toHeadset', "ack")
                    /\ Count(toHost', "message") \in Nat /\ Count(Pipe', "ack") \in Nat
  BY DEF AcknowledgementKept
<1>1. /\ Count(Pipe', "ack") = Count(outbox', "ack") + Count(toHeadset', "ack")
      /\ Count(toHost', "message") \in Nat /\ Count(Pipe', "ack") \in Nat
      /\ Count(outbox', "ack") \in Nat /\ Count(toHeadset', "ack") \in Nat
  BY LinkFactsNext DEF LinkFacts
<1> QED BY <1>1 DEF Owed

\* A step that leaves the headset's command where it is.
LEMMA KeptStill ==
  ASSUME TypeOK, TypeOK', Kept, LinkUp' => LinkUp, losses' = 0 => losses = 0,
         UNCHANGED <<offering, ownSeq>>,
         Count(toHost', "message") = Count(toHost, "message"),
         Count(Pipe', "ack") = Count(Pipe, "ack"),
         \A f \in Range(Pipe') : f.type = "ack" => f \in Range(Pipe),
         \A m \in Range(toHost') : m.type = "message" => m \in Range(toHost)
  PROVE  Kept'
<1>1. SUFFICES ASSUME LinkUp', losses' = 0 PROVE Kept'
  BY DEF Kept, AcknowledgementKept
<1>2. Owed' = Owed /\ LinkUp /\ losses = 0
  BY <1>1 DEF Owed
<1>3. AcknowledgementKept'
  BY <1>2, OwedIsKept, OwedIsKeptNext DEF Kept
<1>4. /\ \A f \in Range(Pipe)' : f.type = "ack" => f.seq = 1 - ownSeq'
      /\ \A m \in Range(toHost)' : m.type = "message" => m.seq = ownSeq'
  BY <1>2 DEF Kept
<1> QED BY <1>3, <1>4 DEF Kept

\* The host reads the headset's command and acknowledges it.
LEMMA KeptMessage == ASSUME Inv, Inv', Kept, HandleMessage PROVE Kept'
<1> USE DEF headset
<1> DEFINE h == Head(toHost)
           f == Ack(1 - h.seq)
<1>1. SUFFICES ASSUME LinkUp', losses' = 0 PROVE Kept'
  BY DEF Kept, AcknowledgementKept
<1>2. /\ TypeOK /\ TypeOK' /\ LinkUp /\ losses = 0 /\ Read /\ h.type = "message"
      /\ WriteOut(<<f>>) /\ UNCHANGED <<offering, ownSeq>>
  BY <1>1 DEF HandleMessage, Inv, LinkUp
<1>3. f \in HostFrames /\ f.type = "ack" /\ f.seq = 1 - h.seq
  BY <1>2, ReadType DEF Ack, HostFrames
<1> HIDE DEF f, h
<1>4. /\ h \in Range(toHost) /\ Range(toHost) = Range(toHost') \cup {h}
      /\ Count(toHost, "message") = Count(toHost', "message") + 1
  BY <1>2, ReadLink DEF h
<1>5. Pipe' = Append(Pipe, f)
  BY <1>2, <1>3, WriteOnePipe
<1>6. Range(Pipe') = Range(Pipe) \cup {f} /\ Count(Pipe', "ack") = Count(Pipe, "ack") + 1
  BY <1>2, <1>3, <1>5, PipeLonger
<1>7. Owed' = Owed
  <2>1. /\ Count(toHost, "message") \in Nat /\ Count(Pipe, "ack") \in Nat
        /\ Count(toHost', "message") \in Nat
    BY <1>2, OwedIsKept, OwedIsKeptNext
  <2> QED BY <1>4, <1>6, <2>1 DEF Owed
<1>8. AcknowledgementKept'
  BY <1>2, <1>7, OwedIsKept, OwedIsKeptNext DEF Kept
<1>9. h.seq = ownSeq
  BY <1>2, <1>4 DEF Kept
<1>10. /\ \A g \in Range(Pipe)' : g.type = "ack" => g.seq = 1 - ownSeq'
       /\ \A m \in Range(toHost)' : m.type = "message" => m.seq = ownSeq'
  BY <1>2, <1>3, <1>4, <1>6, <1>9 DEF Kept
<1> QED BY <1>8, <1>10 DEF Kept

\* The headset hears that its command was acknowledged.
LEMMA KeptHears == ASSUME Inv, Inv', Kept, HeadsetHears PROVE Kept'
<1> USE DEF host
<1> DEFINE f == Head(toHeadset)
<1>1. SUFFICES ASSUME LinkUp', losses' = 0 PROVE Kept'
  BY DEF Kept, AcknowledgementKept
<1>2. /\ TypeOK /\ TypeOK' /\ LinkUp /\ losses = 0 /\ f.type = "ack"
      /\ toHeadset # <<>> /\ toHeadset' = Tail(toHeadset)
      /\ UNCHANGED <<outbox, toHost>>
  BY <1>1 DEF HeadsetHears, Inv, LinkUp
<1>3. Pipe # <<>> /\ Pipe' = Tail(Pipe) /\ Head(Pipe) = f
  BY <1>2, TakePipe
<1> HIDE DEF f
<1>4. /\ f \in Range(Pipe)
      /\ Count(Pipe, "ack") = Count(Pipe', "ack") + 1
  BY <1>2, <1>3, PipeShorter
<1>5. /\ Count(toHost, "message") \in Nat /\ Count(Pipe, "ack") \in Nat
      /\ Count(Pipe', "ack") \in Nat
      /\ Owed = IF offering THEN 1 ELSE 0
  BY <1>2, OwedIsKept, OwedIsKeptNext DEF Kept
<1>6. offering /\ Count(toHost, "message") = 0 /\ Count(Pipe', "ack") = 0
  BY <1>4, <1>5 DEF Owed
<1>7. f.seq = 1 - ownSeq
  BY <1>2, <1>4 DEF Kept
<1>8. offering' = FALSE
  BY <1>6, <1>7 DEF HeadsetHears, f
<1>9. AcknowledgementKept'
  BY <1>2, <1>6, <1>8, OwedIsKeptNext DEF Owed
<1>10. /\ \A g \in Range(Pipe)' : g.type # "ack"
       /\ \A m \in Range(toHost)' : m.type # "message"
  BY <1>2, <1>6, LinkFactsHold, LinkFactsNext, CountNone DEF LinkFacts
<1> QED BY <1>9, <1>10 DEF Kept

\* The headset sends a command: it had none under way.
LEMMA KeptOffer ==
  ASSUME Inv, Inv', Kept, NEW m \in HeadsetFrames, m.type = "message", m.seq = ownSeq,
         ~offering, offering' = TRUE, toHost' = Append(toHost, m),
         UNCHANGED <<open, alive, losses, outbox, toHeadset, ownSeq>>
  PROVE  Kept'
<1>1. SUFFICES ASSUME LinkUp', losses' = 0 PROVE Kept'
  BY DEF Kept, AcknowledgementKept
<1>2. TypeOK /\ TypeOK' /\ LinkUp /\ losses = 0 /\ Pipe' = Pipe
  BY <1>1 DEF Inv, LinkUp, Pipe
<1>3. /\ Range(toHost') = Range(toHost) \cup {m}
      /\ Count(toHost', "message") = Count(toHost, "message") + 1
  BY <1>2, HeadsetSends
<1>4. /\ Count(toHost, "message") \in Nat /\ Count(Pipe, "ack") \in Nat
      /\ Owed = 0
  BY <1>2, OwedIsKept DEF Kept
<1>5. Owed' = 1
  BY <1>2, <1>3, <1>4 DEF Owed
<1>6. AcknowledgementKept'
  BY <1>2, <1>5, OwedIsKeptNext
<1>7. /\ \A g \in Range(Pipe)' : g.type = "ack" => g.seq = 1 - ownSeq'
      /\ \A n \in Range(toHost)' : n.type = "message" => n.seq = ownSeq'
  BY <1>2, <1>3 DEF Kept
<1> QED BY <1>6, <1>7 DEF Kept

\* The frames of a step that sends a request or nothing.
LEMMA KeptWrites ==
  ASSUME Inv, Inv', Kept, LinkUp' => LinkUp,
         UNCHANGED <<toHost, losses, offering, ownSeq>>,
         WriteOut(<<>>) \/ (\E r \in Requests : Send(r)) \/ UNCHANGED <<outbox, toHeadset>>
  PROVE  Kept'
<1>0. TypeOK /\ TypeOK'
  BY DEF Inv
<1>1. CASE WriteOut(<<>>) \/ UNCHANGED <<outbox, toHeadset>>
  <2>1. Pipe' = Pipe
    BY <1>0, <1>1, FlushPipe DEF Pipe
  <2> QED BY <1>0, <2>1, KeptStill
<1>2. ASSUME NEW r \in Requests, Send(r) PROVE Kept'
  <2> DEFINE f == Command(seq, r)
  <2>1. f \in HostFrames /\ f.type = "command" /\ WriteOut(<<f>>)
    BY <1>0, <1>2 DEF Command, HostFrames, TypeOK, Send
  <2> HIDE DEF f
  <2>2. Pipe' = Append(Pipe, f)
    BY <1>0, <2>1, WriteOnePipe
  <2>3. Range(Pipe') = Range(Pipe) \cup {f} /\ Count(Pipe', "ack") = Count(Pipe, "ack") + 0
    BY <1>0, <2>1, <2>2, PipeLonger
  <2>4. Count(Pipe', "ack") = Count(Pipe, "ack")
    BY <1>0, <2>3, OwedIsKept
  <2> QED BY <1>0, <2>1, <2>3, <2>4, KeptStill
<1> QED BY <1>1, <1>2

\* A dead session promises nothing, nor does a link that lost a frame.
LEMMA KeptDead == ASSUME ~LinkUp' \/ losses' # 0 PROVE Kept'
BY DEF Kept, AcknowledgementKept

\* The steps of the headset,
LEMMA KeptHeadset == ASSUME Inv, Inv', Kept, Headset PROVE Kept'
<1> USE DEF host
<1>0. TypeOK /\ TypeOK'
  BY DEF Inv
<1>1. CASE HeadsetTakes
  <2>1. /\ toHeadset # <<>> /\ toHeadset' = Tail(toHeadset) /\ LinkUp
        /\ Head(toHeadset).type = "command"
        /\ UNCHANGED <<outbox, toHost, losses, offering, ownSeq>>
    BY <1>1 DEF HeadsetTakes
  <2>2. Pipe # <<>> /\ Pipe' = Tail(Pipe) /\ Head(Pipe) = Head(toHeadset)
    BY <1>0, <2>1, TakePipe
  <2>3. /\ Range(Pipe) = Range(Pipe') \cup {Head(Pipe)}
        /\ Count(Pipe, "ack") = Count(Pipe', "ack") + 0
    BY <1>0, <2>1, <2>2, PipeShorter
  <2>4. Count(Pipe', "ack") = Count(Pipe, "ack")
    BY <1>0, <2>3, OwedIsKeptNext
  <2> QED BY <1>0, <2>1, <2>3, <2>4, KeptStill
<1>2. CASE HeadsetHears
  BY <1>2, KeptHears
<1>3. CASE HeadsetMisses
  <2>1. losses' # 0
    BY <1>0, <1>3, BoundsAssumption DEF HeadsetMisses, TypeOK
  <2> QED BY <2>1, KeptDead
<1>4. CASE HeadsetAcks
  <2> DEFINE f == Ack(Head(ackDue))
  <2>1. /\ toHost' = Append(toHost, f) /\ LinkUp /\ ackDue # <<>>
        /\ UNCHANGED <<outbox, toHeadset, losses, offering, ownSeq>>
    BY <1>4 DEF HeadsetAcks
  <2>2. f \in HeadsetFrames /\ f.type = "ack"
    <3>1. Head(ackDue) \in {0, 1}
      BY <1>0, <2>1, TallyTail DEF TypeOK
    <3> QED BY <3>1 DEF Ack, HeadsetFrames
  <2> HIDE DEF f
  <2>3. /\ Range(toHost') = Range(toHost) \cup {f}
        /\ Count(toHost', "message") = Count(toHost, "message") + 0
    BY <1>0, <2>1, <2>2, HeadsetSends
  <2>4. Count(toHost', "message") = Count(toHost, "message") /\ Pipe' = Pipe
    BY <1>0, <2>1, <2>3, OwedIsKept DEF Pipe
  <2> QED BY <1>0, <2>1, <2>2, <2>3, <2>4, KeptStill
<1>5. CASE HeadsetReplies
  <2> DEFINE r == Head(replyDue)
             m == Message(ownSeq, expect[r], r)
  <2>1. r \in Requests
    BY <1>0, <1>5, TallyTail DEF HeadsetReplies, TypeOK
  <2>2. m \in HeadsetFrames /\ m.type = "message" /\ m.seq = ownSeq
    BY <1>0, <2>1 DEF Message, HeadsetFrames, Kinds, TypeOK
  <2> HIDE DEF m
  <2>3. /\ ~offering /\ offering' = TRUE /\ toHost' = Append(toHost, m)
        /\ UNCHANGED <<open, alive, losses, outbox, toHeadset, ownSeq>>
    BY <1>5 DEF HeadsetReplies, m
  <2> QED BY <2>2, <2>3, KeptOffer
<1>6. CASE HeadsetAnnounces
  <2>1. PICK k \in Announced : toHost' = Append(toHost, Message(ownSeq, k, NoRequest))
    BY <1>6 DEF HeadsetAnnounces
  <2> DEFINE m == Message(ownSeq, k, NoRequest)
  <2>2. m \in HeadsetFrames /\ m.type = "message" /\ m.seq = ownSeq
    BY <1>0 DEF Message, HeadsetFrames, Kinds, TypeOK
  <2> HIDE DEF m
  <2>3. /\ ~offering /\ offering' = TRUE /\ toHost' = Append(toHost, m)
        /\ UNCHANGED <<open, alive, losses, outbox, toHeadset, ownSeq>>
    BY <1>6, <2>1 DEF HeadsetAnnounces, m
  <2> QED BY <2>2, <2>3, KeptOffer
<1> QED BY <1>1, <1>2, <1>3, <1>4, <1>5, <1>6 DEF Headset

\* of a turn,
LEMMA KeptTurn == ASSUME Inv, Inv', Kept, Turn PROVE Kept'
<1> USE DEF headset, beyond
<1>0. TypeOK /\ TypeOK'
  BY DEF Inv
<1>1. CASE HandleAck
  <2>1. /\ Read /\ Head(toHost).type = "ack"
        /\ UNCHANGED <<open, alive, outbox, toHeadset, losses, offering, ownSeq>>
    BY <1>1 DEF HandleAck
  <2>2. /\ Range(toHost) = Range(toHost') \cup {Head(toHost)}
        /\ Count(toHost, "message") = Count(toHost', "message") + 0
    BY <1>0, <2>1, ReadLink
  <2>3. Count(toHost', "message") = Count(toHost, "message") /\ Pipe' = Pipe
    BY <1>0, <2>1, <2>2, OwedIsKeptNext DEF Pipe
  <2> QED BY <1>0, <2>1, <2>2, <2>3, KeptStill DEF LinkUp
<1>2. CASE HandleMessage
  BY <1>2, KeptMessage
<1>3. CASE HandleMalformed
  <2>1. losses' # 0
    BY <1>0, <1>3, BoundsAssumption DEF HandleMalformed, TypeOK
  <2> QED BY <2>1, KeptDead
<1>4. ASSUME MayStart, StartNext PROVE \E r \in Requests : Send(r)
  BY <1>0, <1>4, StartNextType DEF StartNext
<1>5. CASE EndTurn \/ EndTurnSilent \/ EndTurnRetransmit \/ EndTurnDead
  <2>1. LinkUp /\ UNCHANGED <<toHost, losses, offering, ownSeq>>
    BY <1>5 DEF EndTurn, EndTurnSilent, EndTurnRetransmit, EndTurnDead, ReadingOver,
      Turning, LinkUp
  <2>2. WriteOut(<<>>) \/ (\E r \in Requests : Send(r))
    BY <1>0, <1>4, <1>5 DEF EndTurn, EndTurnSilent, EndTurnRetransmit, EndTurnDead,
      Unacknowledged, TypeOK
  <2> QED BY <2>1, <2>2, KeptWrites
<1> QED BY <1>1, <1>2, <1>3, <1>5 DEF Turn

\* and of the caller.
LEMMA KeptCaller == ASSUME Inv, Inv', ClosedChannel, Kept, Caller PROVE Kept'
<1> USE DEF headset, beyond
<1>0. TypeOK /\ TypeOK'
  BY DEF Inv
<1>1. CASE EndWait \/ WaitTimesOut \/ \E r \in Requests : Submit(r)
  <2>1. /\ UNCHANGED <<toHost, losses, offering, ownSeq>>
        /\ UNCHANGED <<outbox, toHeadset>> /\ LinkUp
    BY <1>1 DEF EndWait, WaitTimesOut, Submit, CallerRuns, LinkUp
  <2> QED BY <2>1, KeptWrites
<1>2. CASE BeginWait
  <2>1. UNCHANGED <<toHost, losses, offering, ownSeq>> /\ LinkUp
    BY <1>2 DEF BeginWait, CallerRuns, LinkUp
  <2>2. (\E r \in Requests : Send(r)) \/ UNCHANGED <<outbox, toHeadset>>
    BY <1>0, <1>2, StartNextType DEF BeginWait, StartNext
  <2> QED BY <2>1, <2>2, KeptWrites
<1>3. CASE Close
  BY <1>3, KeptDead DEF Close, LinkUp
<1>4. CASE Connect
  <2>1. /\ toHeadset' = <<>> /\ outbox' = <<>> /\ toHost' = <<>> /\ ~offering'
    BY <1>4 DEF Connect, ClosedChannel
  <2>2. /\ Count(toHost', "message") = 0 /\ Count(outbox', "ack") = 0
        /\ Count(toHeadset', "ack") = 0
    BY <2>1, CountEmpty
  <2>3. AcknowledgementKept'
    BY <2>1, <2>2 DEF AcknowledgementKept
  <2>4. Range(Pipe') = {} /\ Range(toHost') = {}
    BY <2>1, RangeEmpty DEF Pipe
  <2> QED BY <2>3, <2>4 DEF Kept
<1> QED BY <1>1, <1>2, <1>3, <1>4 DEF Caller

\* Every step keeps it.
LEMMA KeptStep == ASSUME Inv, Inv', ClosedChannel, Kept, [Next]_vars PROVE Kept'
<1>1. CASE TimerExpires \/ UNCHANGED vars
  <2>1. /\ UNCHANGED <<toHost, losses, offering, ownSeq, open, alive>>
        /\ UNCHANGED <<outbox, toHeadset>>
    BY <1>1 DEF TimerExpires, vars, host, beyond, headset
  <2> QED BY <2>1, KeptWrites DEF LinkUp
<1>2. CASE LinkDrops
  BY <1>2, KeptDead DEF LinkDrops, LinkUp
<1> QED BY <1>1, <1>2, KeptHeadset, KeptTurn, KeptCaller DEF Next

\* The initial states have it.
LEMMA KeptInit == ASSUME Init PROVE Kept
<1>1. /\ toHeadset = <<>> /\ outbox = <<>> /\ toHost = <<>> /\ offering = FALSE
  BY DEF Init
<1>2. /\ Count(toHost, "message") = 0 /\ Count(outbox, "ack") = 0
      /\ Count(toHeadset, "ack") = 0
  BY <1>1, CountEmpty
<1>3. AcknowledgementKept
  BY <1>1, <1>2 DEF AcknowledgementKept
<1>4. Range(Pipe) = {} /\ Range(toHost) = {}
  BY <1>1, RangeEmpty DEF Pipe
<1> QED BY <1>3, <1>4 DEF Kept

-----------------------------------------------------------------------------
(* Replies. *)

\* What the headset sends, or owes, is a reply to a request that awaits one, or
\* a change it announces.
RepliesAreReplies ==
  /\ \A r \in Range(replyDue) : expect[r] # NoKind
  /\ \A m \in Range(toHost) : m.type = "message" =>
       \/ m.kind \in Announced
       \/ m.of \in answered /\ m.kind = expect[m.of] /\ m.kind # NoKind

\* The headset sent what r awaits: unasked, or to a request that awaits the same.
AnsweredLike(r) ==
  expect[r] # NoKind /\ (expect[r] \in Announced \/ \E q \in answered : expect[q] = expect[r])

\* A request is told that it was replied to only when the headset sent such a reply.
RepliedIsSent == \A r \in Requests : Told(r, "replied") => AnsweredLike(r)

\* No other request awaits what r does, and the headset never sends it unasked.
OwnKind(r) ==
  expect[r] \notin Announced /\ \A q \in Requests : expect[q] = expect[r] => q = r

\* A request that awaits a type of its own was answered when it is told so.
OwnRepliesAnswered ==
  \A r \in Requests : OwnKind(r) /\ Told(r, "replied") => r \in answered

\* Every step keeps it: a reply is owed only for a request that awaits one, and
\* carries the type that request awaits.
LEMMA RepliesStep ==
  ASSUME Inv, RepliesAreReplies, [Next]_vars PROVE RepliesAreReplies'
<1> USE DEF current, caller, host, headset, beyond
<1>0. TypeOK
  BY DEF Inv
<1>1. ASSUME answered' = answered, replyDue' = replyDue,
             Range(toHost') \subseteq Range(toHost)
      PROVE  RepliesAreReplies'
  <2>1. \A r \in Range(replyDue)' : expect[r] # NoKind
    BY <1>1 DEF RepliesAreReplies
  <2>2. \A m \in Range(toHost)' : m.type = "message" =>
          \/ m.kind \in Announced
          \/ m.of \in answered' /\ m.kind = expect[m.of] /\ m.kind # NoKind
    BY <1>1 DEF RepliesAreReplies
  <2> QED BY <2>1, <2>2 DEF RepliesAreReplies
<1>2. CASE HandleAck \/ HandleMessage \/ HandleMalformed
  <2>1. answered' = answered /\ replyDue' = replyDue /\ Read
    BY <1>2 DEF HandleAck, HandleMessage, HandleMalformed
  <2> QED BY <1>0, <1>1, <2>1, ReadLink
<1>3. CASE \/ EndTurn \/ EndTurnSilent \/ EndTurnRetransmit \/ EndTurnDead
           \/ HeadsetHears \/ HeadsetMisses \/ LinkDrops \/ TimerExpires \/ UNCHANGED vars
  <2>1. UNCHANGED <<answered, replyDue, toHost>>
    BY <1>3 DEF EndTurn, EndTurnSilent, EndTurnRetransmit, EndTurnDead, HeadsetHears,
      HeadsetMisses, LinkDrops, TimerExpires, vars
  <2> QED BY <1>1, <2>1
<1>4. CASE Caller
  <2>1. /\ answered' = answered /\ replyDue' \in {replyDue, <<>>}
        /\ toHost' \in {toHost, <<>>}
    BY <1>4 DEF Caller, Submit, BeginWait, EndWait, WaitTimesOut, Close, ChannelGone,
      Connect
  <2>2. Range(toHost') \subseteq Range(toHost) /\ Range(replyDue') \subseteq Range(replyDue)
    BY <2>1, RangeEmpty
  <2> QED BY <2>1, <2>2 DEF RepliesAreReplies
<1>5. CASE HeadsetTakes
  <2>1. /\ answered' = answered /\ toHost' = toHost
        /\ \/ replyDue' = replyDue
           \/ /\ expect[Head(toHeadset).request] # NoKind
              /\ replyDue' = Append(replyDue, Head(toHeadset).request)
        /\ toHeadset # <<>> /\ Head(toHeadset).type = "command"
    BY <1>5 DEF HeadsetTakes
  <2>2. Head(toHeadset).request \in Requests
    <3>1. Head(toHeadset) \in HostFrames
      BY <1>0, <2>1, TallyTail DEF TypeOK
    <3> QED BY <2>1, <3>1 DEF HostFrames
  <2>3. replyDue \in Seq(Requests)
    BY <1>0 DEF TypeOK
  <2>4. Range(replyDue') \subseteq
          Range(replyDue) \cup {r \in Requests : expect[r] # NoKind}
    <3> DEFINE r == Head(toHeadset).request
    <3> HIDE DEF r
    <3>1. CASE replyDue' = replyDue
      BY <3>1
    <3>2. CASE expect[r] # NoKind /\ replyDue' = Append(replyDue, r)
      <4>1. Range(Append(replyDue, r)) = Range(replyDue) \cup {r}
        BY <2>2, <2>3, RangeAppend DEF r
      <4> QED BY <2>2, <3>2, <4>1 DEF r
    <3> QED BY <2>1, <3>1, <3>2 DEF r
  <2> QED BY <2>1, <2>4 DEF RepliesAreReplies
<1>6. CASE HeadsetAcks
  <2> DEFINE f == Ack(Head(ackDue))
  <2>1. /\ toHost' = Append(toHost, f) /\ ackDue # <<>>
        /\ UNCHANGED <<replyDue, answered>>
    BY <1>6 DEF HeadsetAcks
  <2>2. f \in HeadsetFrames /\ f.type # "message"
    <3>1. Head(ackDue) \in {0, 1}
      BY <1>0, <2>1, TallyTail DEF TypeOK
    <3> QED BY <3>1 DEF Ack, HeadsetFrames
  <2> HIDE DEF f
  <2>3. Range(toHost') = Range(toHost) \cup {f}
    BY <1>0, <2>1, <2>2, HeadsetSends
  <2> QED BY <2>1, <2>2, <2>3 DEF RepliesAreReplies
<1>7. CASE HeadsetReplies
  <2> DEFINE r == Head(replyDue)
             m == Message(ownSeq, expect[r], r)
  <2>1. /\ replyDue # <<>> /\ replyDue \in Seq(Requests)
        /\ replyDue' = Tail(replyDue) /\ answered' = answered \cup {r}
        /\ toHost' = Append(toHost, m)
    BY <1>0, <1>7 DEF HeadsetReplies, TypeOK
  <2>2. r \in Requests /\ Range(replyDue) = Range(Tail(replyDue)) \cup {r}
    BY <2>1, TallyTail
  <2>3. /\ m \in HeadsetFrames /\ m.kind = expect[r] /\ m.of = r
    BY <1>0, <2>2 DEF Message, HeadsetFrames, Kinds, TypeOK
  <2> HIDE DEF m, r
  <2>4. Range(toHost') = Range(toHost) \cup {m}
    BY <1>0, <2>1, <2>3, HeadsetSends
  <2>5. expect[r] # NoKind
    BY <2>2 DEF RepliesAreReplies
  <2>6. \A q \in Range(replyDue)' : expect[q] # NoKind
    BY <2>1, <2>2 DEF RepliesAreReplies
  <2>7. \A n \in Range(toHost)' : n.type = "message" =>
          \/ n.kind \in Announced
          \/ n.of \in answered' /\ n.kind = expect[n.of] /\ n.kind # NoKind
    BY <2>1, <2>3, <2>4, <2>5 DEF RepliesAreReplies
  <2> QED BY <2>6, <2>7 DEF RepliesAreReplies
<1>8. CASE HeadsetAnnounces
  <2>1. PICK k \in Announced : toHost' = Append(toHost, Message(ownSeq, k, NoRequest))
    BY <1>8 DEF HeadsetAnnounces
  <2> DEFINE m == Message(ownSeq, k, NoRequest)
  <2>2. m \in HeadsetFrames /\ m.kind \in Announced
    BY <1>0 DEF Message, HeadsetFrames, Kinds, TypeOK
  <2> HIDE DEF m
  <2>3. Range(toHost') = Range(toHost) \cup {m}
    BY <1>0, <2>1, <2>2, HeadsetSends DEF m
  <2>4. UNCHANGED <<replyDue, answered>>
    BY <1>8 DEF HeadsetAnnounces
  <2> QED BY <2>2, <2>3, <2>4 DEF RepliesAreReplies
<1> QED BY <1>2, <1>3, <1>4, <1>5, <1>6, <1>7, <1>8 DEF Next, Turn, Headset

\* A message that answers the outstanding request is a reply to its like.
LEMMA AnswersIsReply ==
  ASSUME Inv, RepliesAreReplies, HandleMessage, Answers
  PROVE  AnsweredLike(outstanding)
<1> DEFINE m == Head(toHost)
<1>1. TypeOK /\ expect[outstanding] = m.kind
  BY DEF Inv, Answers
<1>2. m \in Range(toHost) /\ m.type = "message"
  BY <1>1, ReadLink DEF HandleMessage
<1> HIDE DEF m
<1>3. CASE m.kind \in Announced
  BY <1>1, <1>3, RequestsAssumption DEF AnsweredLike
<1>4. CASE m.of \in answered /\ m.kind = expect[m.of] /\ m.kind # NoKind
  BY <1>1, <1>4 DEF AnsweredLike
<1> QED BY <1>2, <1>3, <1>4 DEF RepliesAreReplies

\* No other step tells a request that it was replied to.
LEMMA RepliedStep ==
  ASSUME Inv, RepliesAreReplies, RepliedIsSent, [Next]_vars
  PROVE  RepliedIsSent'
<1> USE DEF current, caller, host, headset, beyond
<1>0. TypeOK /\ \A r \in Requests : told[r] \in Seq(Outcomes)
  BY DEF Inv, TypeOK
<1>1. CASE told' = told /\ answered \subseteq answered'
  BY <1>1 DEF RepliedIsSent, AnsweredLike, Told
<1>2. ASSUME NEW R, NEW o \in Outcomes, Finish(R, o), answered' = answered,
             o = "replied" => \A r \in R : AnsweredLike(r)
      PROVE  RepliedIsSent'
  <2>1. \A r \in Requests : told'[r] = IF r \in R THEN Append(told[r], o) ELSE told[r]
    BY <1>0, <1>2, FinishType
  <2>2. ASSUME NEW r \in Requests, told'[r] = <<"replied">> PROVE AnsweredLike(r)'
    <3>1. CASE r \in R
      <4>1. o = "replied" /\ AnsweredLike(r)
        BY <1>0, <1>2, <2>1, <2>2, <3>1, LastTold
      <4> QED BY <1>2, <4>1 DEF AnsweredLike
    <3>2. CASE r \notin R
      BY <1>2, <2>1, <2>2, <3>2 DEF RepliedIsSent, AnsweredLike, Told
    <3> QED BY <3>1, <3>2
  <2> QED BY <2>2 DEF RepliedIsSent, Told
<1>3. ASSUME answered' = answered,
             told' = told \/ \E R : \E o \in Outcomes \ {"replied"} : Finish(R, o)
      PROVE  RepliedIsSent'
  BY <1>1, <1>2, <1>3
<1>4. CASE HandleMessage
  <2>1. CASE Answers /\ Finish({outstanding}, "replied")
    BY <1>2, <1>4, <2>1, AnswersIsReply DEF HandleMessage, Outcomes
  <2>2. CASE told' = told
    BY <1>1, <1>4, <2>2 DEF HandleMessage
  <2> QED BY <1>4, <2>1, <2>2 DEF HandleMessage
<1>5. CASE \/ HandleAck \/ HandleMalformed \/ EndTurn \/ EndTurnSilent
           \/ EndTurnRetransmit \/ EndTurnDead
  BY <1>3, <1>5 DEF HandleAck, HandleMalformed, EndTurn, EndTurnSilent,
    EndTurnRetransmit, EndTurnDead, Outcomes
<1>6. CASE Caller
  BY <1>3, <1>6 DEF Caller, Submit, Supersede, BeginWait, EndWait, WaitTimesOut, Close,
    Connect, AbandonAll, ChannelGone, Outcomes
<1>7. CASE Headset \/ LinkDrops \/ TimerExpires \/ UNCHANGED vars
  BY <1>1, <1>7 DEF Headset, HeadsetTakes, HeadsetHears, HeadsetMisses, HeadsetAcks,
    HeadsetReplies, HeadsetAnnounces, LinkDrops, TimerExpires, vars
<1> QED BY <1>4, <1>5, <1>6, <1>7 DEF Next, Turn

\* Where r alone awaits what it does, it is r that was replied to.
LEMMA OwnReply ==
  ASSUME TypeOK, RepliedIsSent, NEW r \in Requests, OwnKind(r), Told(r, "replied")
  PROVE  r \in answered
  BY DEF TypeOK, RepliedIsSent, AnsweredLike, OwnKind

-----------------------------------------------------------------------------
(* A step, and what was finished before it. *)

\* How many unacknowledged frames r has, as the sequence changes.
LEMMA FramesAfter ==
  ASSUME NEW s \in Seq(Requests), NEW r
  PROVE  /\ Frames(s, r) = Tally(s, {r}) /\ Frames(s, r) \in Nat
         /\ Frames(<<>>, r) = 0
         /\ s # <<>> => Frames(Tail(s), r) <= Frames(s, r)
         /\ \A q \in Requests \ {r} : Frames(Append(s, q), r) = Frames(s, r)
<1>1. ASSUME NEW t PROVE Frames(t, r) = Tally(t, {r})
  <2>1. {i \in DOMAIN t : t[i] = r} = Places(t, {r})
    BY DEF Places
  <2> QED BY <2>1 DEF Frames, Tally
<1>2. Frames(s, r) \in Nat
  BY <1>1, TallyType
<1>3. Frames(<<>>, r) = 0
  <2>1. <<>> \in Seq(Requests) /\ \A x \in Range(<<>>) : x \notin {r}
    BY RangeEmpty
  <2>2. Tally(<<>>, {r}) = 0
    BY <2>1, TallyType
  <2> QED BY <1>1, <2>2
<1>4. ASSUME s # <<>> PROVE Frames(Tail(s), r) <= Frames(s, r)
  <2>1. /\ Tail(s) \in Seq(Requests)
        /\ Tally(s, {r}) = Tally(Tail(s), {r}) + IF Head(s) \in {r} THEN 1 ELSE 0
    BY <1>4, TallyTail
  <2>2. Tally(Tail(s), {r}) \in Nat
    BY <2>1, TallyType
  <2>3. Tally(Tail(s), {r}) <= Tally(s, {r})
    BY <2>1, <2>2
  <2> QED BY <1>1, <2>3
<1>5. ASSUME NEW q \in Requests \ {r} PROVE Frames(Append(s, q), r) = Frames(s, r)
  <2>1. Tally(Append(s, q), {r}) = Tally(s, {r}) + IF q \in {r} THEN 1 ELSE 0
    BY TallyAppend
  <2>2. Tally(s, {r}) \in Nat
    BY TallyType
  <2>3. Tally(Append(s, q), {r}) = Tally(s, {r})
    BY <2>1, <2>2
  <2> QED BY <1>1, <2>3
<1> QED BY <1>1, <1>2, <1>3, <1>4, <1>5

\* The unacknowledged frames grow by those of a request that waits.
LEMMA AwaitingStep ==
  ASSUME Inv, [Next]_vars
  PROVE  \/ awaiting' = awaiting \/ awaiting' = <<>> \/ awaiting' = Settled
         \/ \E r \in Pending : awaiting' = Append(awaiting, r)
<1> USE DEF current, caller, host, headset, beyond
<1>0. TypeOK /\ NoneDropped
  BY DEF Inv, Books
<1>1. ASSUME MayStart, StartNext PROVE \E r \in Pending : awaiting' = Append(awaiting, r)
  <2>1. Head(queue) \in Queued
    <3>1. queue # <<>> /\ queue \in Seq(Requests)
      BY <1>0, <1>1 DEF MayStart, TypeOK
    <3>2. Head(queue) \in Range(queue)
      BY <3>1, TallyTail
    <3> QED BY <3>2 DEF Queued, Range
  <2>2. Head(queue) \in Pending
    BY <1>0, <2>1 DEF NoneDropped
  <2> QED BY <1>1, <2>2 DEF StartNext, Send
<1>2. CASE EndTurnRetransmit
  <2>1. outstanding \in Pending
    BY <1>0, <1>2 DEF EndTurnRetransmit, Unacknowledged, NoneDropped
  <2> QED BY <1>2, <2>1 DEF EndTurnRetransmit, Send
<1>3. CASE EndTurn \/ EndTurnSilent \/ BeginWait
  BY <1>1, <1>3 DEF EndTurn, EndTurnSilent, BeginWait
<1>4. CASE HandleAck \/ HandleMessage \/ HandleMalformed \/ EndTurnDead
  BY <1>4 DEF HandleAck, HandleMessage, HandleMalformed, EndTurnDead
<1>5. CASE \/ EndWait \/ WaitTimesOut \/ Close \/ Connect \/ LinkDrops \/ TimerExpires
           \/ UNCHANGED vars \/ \E r \in Requests : Submit(r)
  BY <1>5 DEF EndWait, WaitTimesOut, Close, Connect, LinkDrops, TimerExpires, vars, Submit,
    AbandonAll
<1>6. CASE Headset
  BY <1>6 DEF Headset, HeadsetTakes, HeadsetHears, HeadsetMisses, HeadsetAcks,
    HeadsetReplies, HeadsetAnnounces
<1> QED BY <1>2, <1>3, <1>4, <1>5, <1>6 DEF Next, Turn, Caller

\* A finished request is sent no more, and one that is superseded never was.
FinishedStays ==
  \A r \in Requests :
    /\ told[r] # <<>> => Frames(awaiting', r) <= Frames(awaiting, r)
    /\ submitted' # submitted /\ told'[r] # told[r] => r \notin Awaited \cup taken

\* Every step does so.
LEMMA FinishedStep ==
  ASSUME Inv, SentOnce, [Next]_vars PROVE FinishedStays
<1> SUFFICES ASSUME NEW r \in Requests
             PROVE  /\ told[r] # <<>> => Frames(awaiting', r) <= Frames(awaiting, r)
                    /\ submitted' # submitted /\ told'[r] # told[r]
                         => r \notin Awaited \cup taken
  BY DEF FinishedStays
<1>0. TypeOK /\ awaiting \in Seq(Requests)
  BY DEF Inv, TypeOK
<1>1. ASSUME told[r] # <<>> PROVE Frames(awaiting', r) <= Frames(awaiting, r)
  <2>1. CASE awaiting' = awaiting
    <3>1. Frames(awaiting, r) \in Nat
      BY <1>0, FramesAfter
    <3> QED BY <2>1, <3>1
  <2>2. CASE awaiting' = <<>>
    <3>1. Frames(awaiting, r) \in Nat /\ Frames(<<>>, r) = 0
      BY <1>0, FramesAfter
    <3> QED BY <2>2, <3>1
  <2>3. CASE awaiting' = Settled
    BY <1>0, <2>1, <2>3, FramesAfter DEF Settled
  <2>4. ASSUME NEW q \in Pending, awaiting' = Append(awaiting, q)
        PROVE  Frames(awaiting', r) <= Frames(awaiting, r)
    <3>1. q \in Requests \ {r}
      BY <1>0, <1>1 DEF Pending, TypeOK
    <3>2. Frames(awaiting, r) \in Nat /\ Frames(awaiting', r) = Frames(awaiting, r)
      BY <1>0, <2>4, <3>1, FramesAfter
    <3> QED BY <3>2
  <2> QED BY <2>1, <2>2, <2>3, <2>4, AwaitingStep
<1>2. ASSUME submitted' # submitted, told'[r] # told[r] PROVE r \notin Awaited \cup taken
  <2>1. \E q \in Requests : Submit(q)
    BY <1>2 DEF Next, Turn, Caller, Headset, HandleAck, HandleMessage, HandleMalformed,
      EndTurn, EndTurnSilent, EndTurnRetransmit, EndTurnDead, BeginWait, EndWait,
      WaitTimesOut, Close, Connect, HeadsetTakes, HeadsetHears, HeadsetMisses, HeadsetAcks,
      HeadsetReplies, HeadsetAnnounces, LinkDrops, TimerExpires, vars, host, caller
  <2>2. PICK q \in Requests : Submit(q)
    BY <2>1
  <2>3. PICK i \in DOMAIN queue : Supersede(i, q)
    BY <1>0, <1>2, <2>2, SubmitCases
  <2>4. r = queue[i]
    BY <1>0, <1>2, <2>3, FinishType DEF Supersede, Outcomes
  <2>5. r \in Queued
    BY <2>4 DEF Queued
  <2> QED BY <2>5 DEF SentOnce, Seen
<1> QED BY <1>1, <1>2

-----------------------------------------------------------------------------
(* What follows of every behaviour. *)

\* What is on the wire, and what the headset has of it, stays tied to the request
\* the session holds for outstanding.
THEOREM TrafficInvariance == Spec => []Traffic
<1>1. Init => Traffic
  BY TrafficInit
<1>2. Inv /\ Inv' /\ Traffic /\ [Next]_vars => Traffic'
  BY TrafficStep
<1> QED BY <1>1, <1>2, Invariance, PTL DEF Spec

\* "Exactly one request may be on the wire at a time; the rest queue"
\* (_pump_queue, _send): the commands under way are of the request whose frames
\* are unacknowledged, and no more acknowledgements are under way than frames that
\* wait for one, however often it was retransmitted and whatever was lost.
THEOREM OneAtATime == Spec => []OneOnTheWire
<1>1. Traffic => OneOnTheWire
  BY DEF Traffic
<1> QED BY <1>1, TrafficInvariance, PTL

\* The headset can tell a retransmission from a new command: _handle takes over
\* the sequence number of an acknowledgement only when it is earned, so a frame
\* carries the number the headset expects exactly when it has not got the request.
THEOREM DuplicatesAreKnown == Spec => []RetransmissionRecognised
<1>1. Traffic => RetransmissionRecognised
  BY DEF Traffic
<1> QED BY <1>1, TrafficInvariance, PTL

\* on_done is called with `acked` or `silent` only of a request the headset took:
\* no acknowledgement of another frame is ever counted for it.
THEOREM ToldOfWhatWasTaken == Spec => []TakenBeforeTold
<1>1. Traffic => TakenBeforeTold
  BY DEF Traffic
<1> QED BY <1>1, TrafficInvariance, PTL

\* While no frame is lost, what the headset sends is acknowledged, once: _handle
\* queues the acknowledgement with the frame it reads, and flush() loses none.
THEOREM HeadsetHeard == Spec => []AcknowledgementKept
<1>1. Init => Kept
  BY KeptInit
<1>2. Inv /\ Inv' /\ Traffic /\ Kept /\ [Next]_vars => Kept'
  BY KeptStep DEF Traffic
<1>3. Kept => AcknowledgementKept
  BY DEF Kept
<1> QED BY <1>1, <1>2, <1>3, Invariance, TrafficInvariance, PTL DEF Spec

\* on_done is called with `replied` only of a request whose reply type the headset
\* sent: unasked, or in answer to a request that awaits the same type (_handle
\* compares payload types).
THEOREM RepliesAreSent == Spec => []RepliedIsSent
<1>1. Init => RepliesAreReplies /\ RepliedIsSent
  <2>1. Init => Range(replyDue) = {} /\ Range(toHost) = {}
    BY RangeEmpty DEF Init
  <2> QED BY <2>1 DEF Init, RepliesAreReplies, RepliedIsSent, Told
<1>2. Inv /\ RepliesAreReplies /\ RepliedIsSent /\ [Next]_vars
        => RepliesAreReplies' /\ RepliedIsSent'
  BY RepliesStep, RepliedStep
<1> QED BY <1>1, <1>2, Invariance, PTL DEF Spec

\* Of a request that awaits a payload type of its own, that no other awaits and the
\* headset does not announce, on_done is called with `replied` only when the headset
\* answered it, whatever types the other requests share.  Of the records of a Sony
\* headset only speak_to_chat and pause_on_removal share one; a record that is polled
\* while it is read shares its own, and then RepliesAreSent is what is left.
THEOREM OwnRepliesAreAnswers == Spec => []OwnRepliesAnswered
<1>1. TypeOK /\ RepliedIsSent => OwnRepliesAnswered
  BY OwnReply DEF OwnRepliesAnswered
<1> QED BY <1>1, RepliesAreSent, TypeCorrect, PTL

\* A request whose on_done was called is never put on the wire again, and one that
\* submit() replaces under its key never was.
THEOREM NothingResent == Spec => FinishedStaysOff
<1>1. Inv /\ Traffic /\ [Next]_vars =>
        [\A r \in Requests :
           /\ told[r] # <<>> => Frames(awaiting', r) <= Frames(awaiting, r)
           /\ submitted' # submitted /\ told'[r] # told[r]
                => r \notin Awaited \cup taken]_vars
  BY FinishedStep DEF FinishedStays, Traffic
<1> QED BY <1>1, Invariance, TrafficInvariance, PTL DEF Spec, FinishedStaysOff

-----------------------------------------------------------------------------
(* How much is on the link. *)

\* No request has more frames unacknowledged than it was sent, and none is sent
\* more than MaxAttempts times.
Attempted ==
  /\ Len(awaiting) <= MaxAttempts
  /\ outstanding # NoRequest => Len(awaiting) <= attempts

\* What is on its way to the headset is bounded, though the socket may refuse to
\* take it: the frames of one request, and while nothing is lost one
\* acknowledgement.
LinkBounded ==
  LinkUp /\ ~forgot =>
    /\ Count(outbox, "command") + Count(toHeadset, "command") <= MaxAttempts
    /\ losses = 0 => Len(outbox) + Len(toHeadset) <= MaxAttempts + 1

\* How long the sequence of unacknowledged frames may become.
LEMMA AwaitingLength ==
  ASSUME NEW s \in Seq(Requests), NEW r \in Requests
  PROVE  /\ Len(s) \in Nat /\ Len(Append(s, r)) = Len(s) + 1 /\ Len(<<>>) = 0
         /\ s # <<>> => Len(Tail(s)) = Len(s) - 1 /\ Len(s) >= 1
BY LenProperties, AppendProperties, EmptySeq, HeadTailProperties

\* An acknowledgement, earned or not, leaves no more frames unacknowledged.
LEMMA SettledLength ==
  ASSUME TypeOK PROVE Len(Settled) \in Nat /\ Len(Settled) <= Len(awaiting)
<1>1. awaiting \in Seq(Requests) /\ Len(awaiting) \in Nat
  BY DEF TypeOK
<1>2. CASE awaiting = <<>>
  BY <1>1, <1>2 DEF Settled
<1>3. CASE awaiting # <<>>
  BY <1>1, <1>3, HeadTailProperties DEF Settled
<1> QED BY <1>2, <1>3

\* The next request starts with one frame.
LEMMA StartAttempted ==
  ASSUME TypeOK, MayStart, StartNext PROVE Attempted'
<1>1. awaiting = <<>> /\ Head(queue) \in Requests
  BY StartNextType DEF MayStart
<1>2. awaiting' = Append(awaiting, Head(queue)) /\ attempts' = 1
  BY DEF StartNext, Send
<1>3. Len(awaiting') = 1
  BY <1>1, <1>2
<1> QED BY <1>2, <1>3, BoundsAssumption DEF Attempted

\* Every step keeps it: a frame is sent only while an attempt is left.
LEMMA AttemptedStep ==
  ASSUME TypeOK, Attempted, [Next]_vars PROVE Attempted'
<1> USE DEF current, caller, host, headset, beyond
<1>0. /\ awaiting \in Seq(Requests) /\ Len(awaiting) \in Nat
      /\ attempts \in 0..MaxAttempts /\ MaxAttempts \in Nat \ {0}
      /\ outstanding \in Requests \cup {NoRequest}
  BY BoundsAssumption DEF TypeOK
<1>1. ASSUME awaiting' = awaiting, NoOutstanding \/ UNCHANGED <<outstanding, attempts>>
      PROVE  Attempted'
  BY <1>1 DEF Attempted, NoOutstanding
<1>2. ASSUME awaiting' = <<>> PROVE Attempted'
  <2>1. Len(awaiting') = 0
    BY <1>2
  <2>2. attempts' \in 0..MaxAttempts
    BY TypeStep DEF TypeOK
  <2> QED BY <1>0, <2>1, <2>2 DEF Attempted
<1>3. CASE HandleAck
  <2>1. awaiting' = Settled /\ (NoOutstanding \/ UNCHANGED <<outstanding, attempts>>)
    BY <1>3 DEF HandleAck
  <2>2. Len(awaiting') <= Len(awaiting) /\ Len(awaiting') \in Nat
    BY <2>1, SettledLength
  <2> QED BY <1>0, <2>1, <2>2 DEF Attempted, NoOutstanding
<1>4. CASE EndTurnRetransmit
  <2>1. /\ outstanding \in Requests /\ outstanding' = outstanding
        /\ attempts < MaxAttempts /\ attempts' = attempts + 1
        /\ awaiting' = Append(awaiting, outstanding)
    BY <1>0, <1>4 DEF EndTurnRetransmit, Unacknowledged, MayRetry, Send
  <2>2. Len(awaiting') = Len(awaiting) + 1
    BY <1>0, <2>1, AwaitingLength
  <2>3. outstanding # NoRequest
    BY <1>4 DEF EndTurnRetransmit, Unacknowledged
  <2> QED BY <1>0, <2>1, <2>2, <2>3 DEF Attempted
<1>5. CASE EndTurn \/ EndTurnSilent \/ BeginWait
  <2>1. \/ MayStart /\ StartNext
        \/ awaiting' = awaiting /\ (NoOutstanding \/ UNCHANGED <<outstanding, attempts>>)
    BY <1>5 DEF EndTurn, EndTurnSilent, BeginWait
  <2> QED BY <1>1, <2>1, StartAttempted
<1>6. CASE HandleMessage \/ HandleMalformed \/ EndTurnDead
  BY <1>1, <1>6 DEF HandleMessage, HandleMalformed, EndTurnDead
<1>7. CASE WaitTimesOut \/ Close
  BY <1>2, <1>7 DEF WaitTimesOut, Close, AbandonAll
<1>8. CASE \/ EndWait \/ Connect \/ LinkDrops \/ TimerExpires \/ UNCHANGED vars
           \/ \E r \in Requests : Submit(r)
  <2>1. awaiting' = awaiting \/ awaiting' = <<>>
    BY <1>8 DEF EndWait, Connect, LinkDrops, TimerExpires, vars, Submit, AbandonAll
  <2>2. NoOutstanding \/ UNCHANGED <<outstanding, attempts>>
    BY <1>8 DEF EndWait, Connect, LinkDrops, TimerExpires, vars, Submit, AbandonAll
  <2> QED BY <1>1, <1>2, <2>1, <2>2
<1>9. CASE Headset
  BY <1>1, <1>9 DEF Headset, HeadsetTakes, HeadsetHears, HeadsetMisses, HeadsetAcks,
    HeadsetReplies, HeadsetAnnounces
<1> QED BY <1>3, <1>4, <1>5, <1>6, <1>7, <1>8, <1>9 DEF Next, Turn, Caller

\* Where every element is one of two kinds, their tallies add up to the length.
LEMMA TallyPartition ==
  ASSUME NEW S, NEW s \in Seq(S), NEW P, NEW Q,
         \A x \in Range(s) : (x \in P) <=> (x \notin Q)
  PROVE  Len(s) = Tally(s, P) + Tally(s, Q)
<1>1. DOMAIN s = 1..Len(s) /\ Len(s) \in Nat
  BY LenProperties
<1>2. IsFiniteSet(Places(s, P)) /\ IsFiniteSet(Places(s, Q))
  BY TallyType
<1>3. \A i \in DOMAIN s : s[i] \in Range(s)
  BY DEF Range
<1>4. Places(s, P) \cup Places(s, Q) = 1..Len(s) /\ Places(s, P) \cap Places(s, Q) = {}
  BY <1>1, <1>3 DEF Places
<1>5. Cardinality(1..Len(s)) = Len(s)
  BY <1>1, FS_Interval
<1>6. Cardinality(Places(s, P) \cup Places(s, Q))
        = Cardinality(Places(s, P)) + Cardinality(Places(s, Q))
          - Cardinality(Places(s, P) \cap Places(s, Q))
  BY <1>2, FS_Union
<1>7. Cardinality({}) = 0 /\ Cardinality(Places(s, P)) \in Nat
      /\ Cardinality(Places(s, Q)) \in Nat
  BY <1>2, FS_EmptySet, FS_CardinalityType
<1>8. Cardinality(Places(s, P) \cup Places(s, Q)) = Len(s)
  BY <1>4, <1>5
<1>9. Cardinality(Places(s, P) \cap Places(s, Q)) = 0
  BY <1>4, <1>7
<1> HIDE DEF Places
<1> QED BY <1>6, <1>7, <1>8, <1>9 DEF Tally

\* Every frame to the headset is a command or an acknowledgement.
LEMMA PipeLength ==
  ASSUME TypeOK
  PROVE  Len(outbox) + Len(toHeadset) = Count(Pipe, "command") + Count(Pipe, "ack")
<1>1. Pipe \in Seq(AllFrames) /\ \A f \in Range(Pipe) : f \in HostFrames
  BY LinkFactsHold DEF LinkFacts
<1>2. \A f \in Range(Pipe) : (f \in OfType("command")) <=> (f \notin OfType("ack"))
  BY <1>1 DEF OfType, AllFrames, HostFrames
<1>3. Len(Pipe) = Count(Pipe, "command") + Count(Pipe, "ack")
  BY <1>1, <1>2, CountIsTally, TallyPartition
<1>4. Len(Pipe) = Len(toHeadset) + Len(outbox)
  BY ConcatProperties DEF Pipe, TypeOK
<1>5. Len(toHeadset) \in Nat /\ Len(outbox) \in Nat
  BY DEF TypeOK
<1> QED BY <1>3, <1>4, <1>5

\* The bound follows from what awaits an acknowledgement and what is owed one.
LEMMA Bounding ==
  ASSUME TypeOK, OneOnTheWire, AcknowledgementKept, Attempted PROVE LinkBounded
<1> SUFFICES ASSUME LinkUp, ~forgot
             PROVE  /\ Count(outbox, "command") + Count(toHeadset, "command") <= MaxAttempts
                    /\ losses = 0 => Len(outbox) + Len(toHeadset) <= MaxAttempts + 1
  BY DEF LinkBounded
<1>1. Credit <= Len(awaiting) /\ Len(awaiting) <= MaxAttempts
      /\ Len(awaiting) \in Nat /\ MaxAttempts \in Nat
  BY BoundsAssumption DEF OneOnTheWire, Attempted, TypeOK
<1>2. /\ outbox \in Seq(AllFrames) /\ toHeadset \in Seq(AllFrames)
      /\ Len(ackDue) \in Nat /\ Count(toHost, "ack") \in Nat
      /\ Count(toHost, "message") \in Nat /\ Count(Pipe, "ack") \in Nat
  <2>1. outbox \in Seq(AllFrames) /\ toHeadset \in Seq(AllFrames)
    BY DEF TypeOK, AllFrames
  <2> QED BY <2>1, LinkFactsHold DEF LinkFacts
<1>3. Count(outbox, "command") \in Nat /\ Count(toHeadset, "command") \in Nat
  BY <1>2, CountNone
<1>4. Count(outbox, "command") + Count(toHeadset, "command") <= MaxAttempts
  BY <1>1, <1>2, <1>3 DEF Credit
<1>5. Count(Pipe, "command") = Count(toHeadset, "command") + Count(outbox, "command")
  BY <1>2, CountConcat DEF Pipe
<1>6. losses = 0 => Count(Pipe, "ack") <= 1
  BY <1>2, OwedIsKept DEF Owed
<1>7. losses = 0 => Len(outbox) + Len(toHeadset) <= MaxAttempts + 1
  BY <1>1, <1>2, <1>3, <1>4, <1>5, <1>6, PipeLength
<1> QED BY <1>4, <1>7

\* Retransmission is bounded, and so is what flush() finds in the outbox, however
\* long the socket takes nothing: as many frames as one request has attempts, and
\* while nothing is lost one acknowledgement besides.
THEOREM OutboxIsBounded == Spec => [](Attempted /\ LinkBounded)
<1>1. Init => Attempted
  BY BoundsAssumption DEF Init, Attempted
<1>2. TypeOK /\ Attempted /\ [Next]_vars => Attempted'
  BY AttemptedStep
<1>3. TypeOK /\ OneOnTheWire /\ AcknowledgementKept /\ Attempted => LinkBounded
  BY Bounding
<1> QED BY <1>1, <1>2, <1>3, TypeCorrect, OneAtATime, HeadsetHeard, PTL DEF Spec
=============================================================================
