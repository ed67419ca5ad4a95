------------------------------- MODULE Session -------------------------------
(***************************************************************************)
(* One RFCOMM control session (src/headset/session.py) and the headset at   *)
(* the other end of it.                                                     *)
(*                                                                          *)
(* The session is single threaded: the caller submits requests between two  *)
(* turns, and a turn of pump() reads a bounded number of frames             *)
(* (HandleFrame), then flushes, honours the timers and sends what is next   *)
(* (EndTurn).  `reads` is the position within the turn: 0 is between turns. *)
(* The headset is code that is not in the repository, modelled from what    *)
(* session.py and docs/protocol.md expect of it.                            *)
(*                                                                          *)
(* Abstractions: a frame is a record, whole or absent (bytes are in         *)
(* framing.py); one recv() brings one frame; time is the flag `expired`,    *)
(* that the timer of the outstanding request has run out; the send buffer   *)
(* of the socket holds SendSpace frames.                                    *)
(***************************************************************************)
EXTENDS Naturals, Sequences, FiniteSets

CONSTANTS
  Requests,        \* requests callers may submit, each at most once
  NoRequest,       \* Python's None
  key,             \* [Requests -> ...]: the coalescing key of a request
  NoKey,           \* the empty key
  expect,          \* [Requests -> Kinds]: payload type of the awaited reply
  NoKind,          \* expect=None, a write
  Announced,       \* payload types the headset sends unasked
  MaxAttempts,     \* Session.max_attempts
  ReadsPerTurn,    \* READS_PER_TURN
  SendSpace,       \* frames the socket takes before it would block
  MaxLosses        \* bound: frames the radio or the headset may lose

Kinds == {expect[r] : r \in Requests} \cup Announced

ASSUME RequestsAssumption ==
  /\ NoRequest \notin Requests
  /\ DOMAIN key = Requests
  /\ DOMAIN expect = Requests
  /\ NoKind \notin Announced
ASSUME BoundsAssumption ==
  /\ MaxAttempts \in Nat \ {0}
  /\ ReadsPerTurn \in Nat \ {0}
  /\ SendSpace \in Nat \ {0}
  /\ MaxLosses \in Nat

VARIABLES
  \* --- the host: fields of Session
  open,            \* self.sock is not None
  alive,           \* self.alive
  seq,             \* sequence number of the next command
  outbox,          \* frames queued for the socket
  queue,           \* requests not sent yet
  outstanding,     \* the request on the wire, or NoRequest
  awaiting,        \* one entry per frame sent and not yet acknowledged
  attempts,        \* outstanding.attempts
  acked,           \* outstanding.acked
  expired,         \* the timer of `outstanding` has run out
  reads,           \* frames this turn has read
  waiting,         \* the caller is inside run_until_idle
  submitted,       \* requests handed to submit()
  told,            \* [Requests -> Seq]: the outcomes on_done was called with
  \* --- the link
  toHeadset,       \* frames in the socket's send buffer
  toHost,          \* frames the host has not read
  losses,          \* frames lost so far
  \* --- the headset
  expects,         \* sequence number it expects of a new command
  ackDue,          \* acknowledgements it still has to send
  replyDue,        \* requests it still has to answer
  offering,        \* it sent a command and waits for the host's acknowledgement
  ownSeq,          \* sequence number of its own commands
  \* --- history, read by properties only
  taken,           \* requests the headset received
  answered,        \* requests it sent a reply to
  forgot           \* some run_until_idle gave up while frames were unacknowledged

current == <<outstanding, attempts, acked, expired>>
caller == <<waiting, submitted>>
host == <<open, alive, seq, outbox, queue, current, awaiting, reads, caller,
          told>>
headset == <<expects, ackDue, replyDue, offering, ownSeq, taken, answered>>
beyond == <<toHost, losses, headset, forgot>>
vars == <<host, toHeadset, beyond>>

Ack(s) == [type |-> "ack", seq |-> s]
Command(s, r) == [type |-> "command", seq |-> s, request |-> r]
\* `of` is the request a reply answers, NoRequest for an announcement.
Message(s, k, r) == [type |-> "message", seq |-> s, kind |-> k, of |-> r]

Outcomes == {"replied", "acked", "silent", "failed"}
Pending == {r \in submitted : told[r] = <<>>}
Queued == {queue[i] : i \in DOMAIN queue}
Awaited == {awaiting[i] : i \in DOMAIN awaiting}

\* busy(): something is outstanding or queued.
Busy == outstanding # NoRequest \/ queue # <<>>

Init ==
  /\ open = TRUE /\ alive = TRUE /\ seq = 0
  /\ outbox = <<>> /\ queue = <<>> /\ outstanding = NoRequest /\ awaiting = <<>>
  /\ attempts = 0 /\ acked = FALSE /\ expired = FALSE
  /\ reads = 0 /\ waiting = FALSE
  /\ submitted = {} /\ told = [r \in Requests |-> <<>>]
  /\ toHeadset = <<>> /\ toHost = <<>> /\ losses = 0
  /\ expects = 0 /\ ackDue = <<>> /\ replyDue = <<>>
  /\ offering = FALSE /\ ownSeq = 0
  /\ taken = {} /\ answered = {} /\ forgot = FALSE

-----------------------------------------------------------------------------
(* Helpers of the host. *)

\* Request.finish(): on_done is called with outcome o for every request of R.
Finish(R, o) ==
  told' = [r \in Requests |-> IF r \in R THEN Append(told[r], o) ELSE told[r]]

\* What the socket takes now of the frames in `out`.
Room(out) ==
  LET free == SendSpace - Len(toHeadset)
  IN  IF Len(out) <= free THEN Len(out) ELSE free

\* Mutant: what the socket refuses is dropped.
WriteOutDrops(frames) ==
  LET out == outbox \o frames
  IN  /\ toHeadset' = toHeadset \o SubSeq(out, 1, Room(out))
      /\ outbox' = <<>>

\* _write() and flush(): frames queue behind those already refused, and the
\* socket takes as many as it has room for.
WriteOut(frames) ==
  LET out == outbox \o frames
  IN  /\ toHeadset' = toHeadset \o SubSeq(out, 1, Room(out))
      /\ outbox' = SubSeq(out, Room(out) + 1, Len(out))

\* _send(): one more frame of r on the wire, its clock restarted.
Send(r) ==
  /\ awaiting' = Append(awaiting, r)
  /\ acked' = FALSE
  /\ expired' = FALSE
  /\ WriteOut(<<Command(seq, r)>>)

\* The fields of a request that is no longer outstanding.
NoOutstanding ==
  /\ outstanding' = NoRequest
  /\ attempts' = 0
  /\ acked' = FALSE
  /\ expired' = FALSE

\* _pump_queue(): nothing is started before every frame sent was acknowledged.
MayStart == queue # <<>> /\ awaiting = <<>>

\* Mutant: the request that starts stays in the queue.
StartNextKeeps ==
  /\ outstanding' = Head(queue)
  /\ UNCHANGED queue
  /\ attempts' = 1
  /\ Send(Head(queue))

StartNext ==
  /\ outstanding' = Head(queue)
  /\ queue' = Tail(queue)
  /\ attempts' = 1
  /\ Send(Head(queue))

\* Mutant: the outstanding request is forgotten without a word.
AbandonQueued ==
  /\ Finish(Queued, "failed")
  /\ queue' = <<>>
  /\ awaiting' = <<>>
  /\ NoOutstanding

\* _abandon(): everything not finished fails and every frame is forgotten.
AbandonAll ==
  /\ Finish(Pending, "failed")
  /\ queue' = <<>>
  /\ awaiting' = <<>>
  /\ NoOutstanding

-----------------------------------------------------------------------------
(* The caller. *)

\* The caller is between two turns and free to use the session.
CallerRuns == open /\ alive /\ reads = 0 /\ ~waiting

\* A newer write takes the place of the queued one, which is told it failed.
Supersede(i, r) ==
  /\ Finish({queue[i]}, "failed")
  /\ queue' = [queue EXCEPT ![i] = r]

\* submit(): a write under a key replaces the queued one under the same key, of
\* which there is one (OnePerKey).
Submit(r) ==
  /\ CallerRuns
  /\ r \notin submitted
  /\ submitted' = submitted \cup {r}
  /\ LET same == {i \in DOMAIN queue : key[queue[i]] = key[r]}
     IN  IF key[r] # NoKey /\ same # {}
         THEN \E i \in same : Supersede(i, r)
         ELSE /\ queue' = Append(queue, r)
              /\ UNCHANGED told
  /\ UNCHANGED <<open, alive, seq, outbox, current, awaiting, reads, waiting,
                 toHeadset, beyond>>

\* run_until_idle(): starts with a _pump_queue().
BeginWait ==
  /\ CallerRuns
  /\ Busy
  /\ waiting' = TRUE
  /\ IF outstanding = NoRequest /\ MayStart
     THEN StartNext
     ELSE UNCHANGED <<current, queue, awaiting, outbox, toHeadset>>
  /\ UNCHANGED <<open, alive, seq, reads, submitted, told, beyond>>

\* run_until_idle(): the loop ends because nothing is outstanding or queued.
EndWait ==
  /\ open /\ alive /\ reads = 0
  /\ waiting
  /\ ~Busy
  /\ waiting' = FALSE
  /\ UNCHANGED <<open, alive, seq, outbox, queue, current, awaiting, reads,
                 submitted, told, toHeadset, beyond>>

\* run_until_idle(): its time is up, and what is left is abandoned on a
\* session that stays open.
WaitTimesOut ==
  /\ open /\ alive /\ reads = 0
  /\ waiting
  /\ Busy
  /\ AbandonAll
  /\ waiting' = FALSE
  /\ forgot' = (forgot \/ awaiting # <<>>)
  /\ UNCHANGED <<open, alive, seq, outbox, reads, submitted, toHeadset,
                 toHost, losses, headset>>

\* The channel is gone, with all that was under way on it.
ChannelGone ==
  /\ toHeadset' = <<>> /\ toHost' = <<>>
  /\ expects' = 0 /\ ackDue' = <<>> /\ replyDue' = <<>>
  /\ offering' = FALSE /\ ownSeq' = 0
  /\ UNCHANGED <<taken, answered>>

\* close(): also what a caller does with a session that died.
Close ==
  /\ open
  /\ reads = 0 \/ ~alive
  /\ ~waiting \/ ~alive
  /\ open' = FALSE
  /\ alive' = FALSE
  /\ waiting' = FALSE
  /\ reads' = 0
  /\ AbandonAll
  /\ ChannelGone
  /\ UNCHANGED <<seq, outbox, submitted, losses, forgot>>

\* connect(): a new channel, and every field as on the first day.
Connect ==
  /\ ~open
  /\ open' = TRUE /\ alive' = TRUE /\ seq' = 0
  /\ outbox' = <<>> /\ queue' = <<>> /\ awaiting' = <<>>
  /\ NoOutstanding
  /\ reads' = 0 /\ waiting' = FALSE
  /\ UNCHANGED <<submitted, told, toHeadset, beyond>>

-----------------------------------------------------------------------------
(* A turn of pump(). *)

\* A turn has begun or may begin: run_until_idle starts none when it is idle.
Turning == open /\ alive /\ (reads > 0 \/ ~waiting \/ Busy)

\* The turn may read another frame.
Reading == Turning /\ reads < ReadsPerTurn /\ toHost # <<>>

\* Mutant: the bound is on one chunk and not on the turn.
ReadUncounted ==
  /\ Reading
  /\ toHost' = Tail(toHost)
  /\ reads' = 1

Read ==
  /\ Reading
  /\ toHost' = Tail(toHost)
  /\ reads' = reads + 1

\* The unacknowledged frame an acknowledgement belongs to is the oldest one;
\* it counts for `outstanding` only if that is the request it carried.
Earned ==
  /\ awaiting # <<>>
  /\ Head(awaiting) = outstanding
  /\ ~acked

\* Mutant: one acknowledgement settles every frame sent.
SettledAll == <<>>

\* The frames that still wait for one after this acknowledgement.
Settled == IF awaiting = <<>> THEN <<>> ELSE Tail(awaiting)

\* Mutant: the host counts for itself instead of using what it was handed.
HandedBackToggles == 1 - seq

\* The sequence number the acknowledgement hands back for the next command.
HandedBack == Head(toHost).seq

\* _handle() on an acknowledgement.
HandleAck ==
  /\ Read
  /\ Head(toHost).type = "ack"
  /\ seq' = HandedBack
  /\ awaiting' = Settled
  /\ IF ~Earned
     THEN UNCHANGED <<current, told>>
     ELSE IF expect[outstanding] = NoKind
          THEN /\ Finish({outstanding}, "acked")
               /\ NoOutstanding
          ELSE /\ acked' = TRUE
               /\ expired' = FALSE
               /\ UNCHANGED <<outstanding, attempts, told>>
  /\ UNCHANGED <<open, alive, outbox, queue, caller, toHeadset, losses,
                 headset, forgot>>

\* Mutant: any message answers the outstanding request.
AnswersAny == outstanding # NoRequest

\* The message is the reply the outstanding request expects.
Answers == outstanding # NoRequest /\ expect[outstanding] = Head(toHost).kind

\* _handle() on a command of the headset: acknowledged with the complement of
\* its own sequence number, then matched with the outstanding request.
HandleMessage ==
  /\ Read
  /\ Head(toHost).type = "message"
  /\ WriteOut(<<Ack(1 - Head(toHost).seq)>>)
  /\ IF Answers
     THEN /\ Finish({outstanding}, "replied")
          /\ NoOutstanding
     ELSE UNCHANGED <<current, told>>
  /\ UNCHANGED <<open, alive, seq, queue, awaiting, caller, losses, headset,
                 forgot>>

\* _receive(): decode() makes nothing of a damaged frame, which is discarded.
HandleMalformed ==
  /\ Read
  /\ losses < MaxLosses
  /\ losses' = losses + 1
  /\ UNCHANGED <<open, alive, seq, outbox, queue, current, awaiting, caller,
                 told, toHeadset, headset, forgot>>

\* The socket has nothing more, or the turn has read its share.
ReadingOver == Turning /\ (toHost = <<>> \/ reads = ReadsPerTurn)

Unacknowledged == outstanding # NoRequest /\ ~acked /\ expired
Unanswered == outstanding # NoRequest /\ acked /\ expired

\* The turn ends and the outstanding request, if any, keeps its place.
EndTurn ==
  /\ ReadingOver
  /\ ~Unacknowledged /\ ~Unanswered
  /\ reads' = 0
  /\ IF outstanding = NoRequest /\ MayStart
     THEN StartNext
     ELSE /\ WriteOut(<<>>)
          /\ UNCHANGED <<current, queue, awaiting>>
  /\ UNCHANGED <<open, alive, seq, caller, told, beyond>>

\* The headset took the request and said nothing: it is told so, and the next
\* one starts in the same turn.
EndTurnSilent ==
  /\ ReadingOver
  /\ Unanswered
  /\ reads' = 0
  /\ Finish({outstanding}, "silent")
  /\ IF MayStart
     THEN StartNext
     ELSE /\ WriteOut(<<>>)
          /\ NoOutstanding
          /\ UNCHANGED <<queue, awaiting>>
  /\ UNCHANGED <<open, alive, seq, caller, beyond>>

\* An attempt is left.
MayRetry == attempts < MaxAttempts

\* No acknowledgement in time: the frame is sent again.
EndTurnRetransmit ==
  /\ ReadingOver
  /\ Unacknowledged
  /\ MayRetry
  /\ reads' = 0
  /\ attempts' = attempts + 1
  /\ Send(outstanding)
  /\ UNCHANGED <<open, alive, seq, queue, outstanding, caller, told, beyond>>

\* No acknowledgement of any attempt: the session dies.
EndTurnDead ==
  /\ ReadingOver
  /\ Unacknowledged
  /\ ~MayRetry
  /\ reads' = 0
  /\ WriteOut(<<>>)
  /\ Finish({outstanding}, "failed")
  /\ NoOutstanding
  /\ alive' = FALSE
  /\ UNCHANGED <<open, seq, queue, awaiting, caller, beyond>>

\* recv() or send() reports that the link is gone, at any point of a turn.
LinkDrops ==
  /\ open /\ alive
  /\ alive' = FALSE
  /\ UNCHANGED <<open, seq, outbox, queue, current, awaiting, reads, caller,
                 told, toHeadset, beyond>>

\* The clock of the outstanding request passes its limit.
TimerExpires ==
  /\ open /\ alive
  /\ outstanding # NoRequest
  /\ ~expired
  /\ expired' = TRUE
  /\ UNCHANGED <<open, alive, seq, outbox, queue, outstanding, awaiting,
                 attempts, acked, reads, caller, told, toHeadset, beyond>>

-----------------------------------------------------------------------------
(* The headset. *)

LinkUp == open /\ alive

\* It takes a command, owes one acknowledgement, and a reply if it has one to
\* give.  A command with the sequence number it does not expect is one it
\* already has; it acknowledges that again and may answer it again.
HeadsetTakes ==
  /\ LinkUp
  /\ toHeadset # <<>>
  /\ LET f == Head(toHeadset)
     IN  /\ f.type = "command"
         /\ ackDue' = Append(ackDue, 1 - f.seq)
         /\ taken' = taken \cup {f.request}
         /\ expects' = IF f.seq = expects THEN 1 - expects ELSE expects
         /\ \/ UNCHANGED replyDue
            \/ /\ expect[f.request] # NoKind
               /\ replyDue' = Append(replyDue, f.request)
  /\ toHeadset' = Tail(toHeadset)
  /\ UNCHANGED <<host, toHost, losses, offering, ownSeq, answered, forgot>>

\* It takes the host's acknowledgement of its last command.
HeadsetHears ==
  /\ LinkUp
  /\ toHeadset # <<>>
  /\ Head(toHeadset).type = "ack"
  /\ toHeadset' = Tail(toHeadset)
  /\ IF offering /\ Head(toHeadset).seq = 1 - ownSeq
     THEN offering' = FALSE /\ ownSeq' = 1 - ownSeq
     ELSE UNCHANGED <<offering, ownSeq>>
  /\ UNCHANGED <<host, toHost, losses, expects, ackDue, replyDue, taken,
                 answered, forgot>>

\* A command is lost, or ignored by the headset.
HeadsetMisses ==
  /\ LinkUp
  /\ losses < MaxLosses
  /\ toHeadset # <<>>
  /\ Head(toHeadset).type = "command"
  /\ toHeadset' = Tail(toHeadset)
  /\ losses' = losses + 1
  /\ UNCHANGED <<host, toHost, headset, forgot>>

HeadsetAcks ==
  /\ LinkUp
  /\ ackDue # <<>>
  /\ toHost' = Append(toHost, Ack(Head(ackDue)))
  /\ ackDue' = Tail(ackDue)
  /\ UNCHANGED <<host, toHeadset, losses, expects, replyDue, offering, ownSeq,
                 taken, answered, forgot>>

\* It sends a command only once its last one was acknowledged.
HeadsetReplies ==
  /\ LinkUp
  /\ ~offering
  /\ replyDue # <<>>
  /\ LET r == Head(replyDue)
     IN  /\ toHost' = Append(toHost, Message(ownSeq, expect[r], r))
         /\ answered' = answered \cup {r}
  /\ replyDue' = Tail(replyDue)
  /\ offering' = TRUE
  /\ UNCHANGED <<host, toHeadset, losses, expects, ackDue, ownSeq, taken,
                 forgot>>

\* A change made on the headset itself.
HeadsetAnnounces ==
  /\ LinkUp
  /\ ~offering
  /\ \E k \in Announced : toHost' = Append(toHost, Message(ownSeq, k, NoRequest))
  /\ offering' = TRUE
  /\ UNCHANGED <<host, toHeadset, losses, expects, ackDue, replyDue, ownSeq,
                 taken, answered, forgot>>

-----------------------------------------------------------------------------
Turn ==
  \/ HandleAck \/ HandleMessage \/ HandleMalformed
  \/ EndTurn \/ EndTurnSilent \/ EndTurnRetransmit \/ EndTurnDead

Caller ==
  \/ \E r \in Requests : Submit(r)
  \/ BeginWait \/ EndWait \/ WaitTimesOut
  \/ Close \/ Connect

Headset ==
  \/ HeadsetTakes \/ HeadsetHears \/ HeadsetMisses
  \/ HeadsetAcks \/ HeadsetReplies \/ HeadsetAnnounces

Next == Turn \/ Caller \/ Headset \/ LinkDrops \/ TimerExpires

Spec == Init /\ [][Next]_vars

\* The host's loop keeps turning (Owner.loop selects with a timeout and pumps,
\* run_until_idle does the same), time passes, a caller closes a session that
\* raised, and the headset reads its link and acknowledges what it took.  It
\* need not answer, and it may announce for ever.  run_until_idle looks at the
\* clock after every turn, which is not at every moment: strong fairness.
Fairness ==
  /\ WF_vars(HandleAck \/ HandleMessage)
  /\ WF_vars(EndTurn \/ EndTurnSilent \/ EndTurnRetransmit \/ EndTurnDead)
  /\ WF_vars(TimerExpires)
  /\ WF_vars(EndWait)
  /\ SF_vars(WaitTimesOut)
  /\ WF_vars(~alive /\ Close)
  /\ WF_vars(HeadsetTakes \/ HeadsetHears)
  /\ WF_vars(HeadsetAcks)

FairSpec == Spec /\ Fairness

-----------------------------------------------------------------------------
(* Properties. *)

HostFrames == [type : {"ack"}, seq : {0, 1}]
              \cup [type : {"command"}, seq : {0, 1}, request : Requests]
HeadsetFrames == [type : {"ack"}, seq : {0, 1}]
                 \cup [type : {"message"}, seq : {0, 1}, kind : Kinds,
                       of : Requests \cup {NoRequest}]

\* Every variable has its type, the counters are within their bounds and only
\* requests that were submitted are known to the session.
TypeOK ==
  /\ open \in BOOLEAN /\ alive \in BOOLEAN /\ waiting \in BOOLEAN
  /\ acked \in BOOLEAN /\ expired \in BOOLEAN
  /\ offering \in BOOLEAN /\ forgot \in BOOLEAN
  /\ seq \in {0, 1} /\ expects \in {0, 1} /\ ownSeq \in {0, 1}
  /\ outbox \in Seq(HostFrames)
  /\ toHeadset \in Seq(HostFrames) /\ Len(toHeadset) <= SendSpace
  /\ toHost \in Seq(HeadsetFrames)
  /\ queue \in Seq(Requests) /\ awaiting \in Seq(Requests)
  /\ outstanding \in Requests \cup {NoRequest}
  /\ attempts \in 0..MaxAttempts /\ reads \in 0..ReadsPerTurn
  /\ losses \in 0..MaxLosses
  /\ submitted \subseteq Requests /\ told \in [Requests -> Seq(Outcomes)]
  /\ ackDue \in Seq({0, 1}) /\ replyDue \in Seq(Requests)
  /\ taken \subseteq Requests /\ answered \subseteq Requests

\* All the frames on their way between host and headset.
InFlight == {f \in {outbox[i] : i \in DOMAIN outbox}
                   \cup {toHeadset[i] : i \in DOMAIN toHeadset} :
               f.type = "command"}

\* How many acknowledgements the headset has given or will give for what the
\* host has sent.
Count(s, t) == Cardinality({i \in DOMAIN s : s[i].type = t})
Credit == Count(outbox, "command") + Count(toHeadset, "command")
          + Len(ackDue) + Count(toHost, "ack")

\* Every frame not yet acknowledged carries one and the same request, which is
\* the outstanding one while there is one: what _handle and _pump_queue rely on
\* to give an acknowledgement to the request that earned it.
AwaitingOneRequest ==
  /\ \A r, s \in Awaited : r = s
  /\ outstanding # NoRequest => Awaited \subseteq {outstanding}

\* "Exactly one request may be on the wire at a time; the rest queue": on a
\* session no wait was abandoned on, commands under way belong to one request,
\* and to one whose acknowledgement is still awaited; and there are never more
\* acknowledgements under way than frames that wait for one, so none can complete
\* a request whose own frame is still unread.
OneOnTheWire ==
  LinkUp /\ ~forgot =>
    /\ {f.request : f \in InFlight} \subseteq Awaited
    /\ Credit <= Len(awaiting)

\* A headset can tell a retransmission from a new command: a frame carries the
\* sequence number the headset expects exactly when it brings a request the
\* headset does not have yet.
RetransmissionRecognised ==
  LinkUp /\ ~forgot =>
    \A f \in InFlight : (f.seq = expects) <=> (f.request \notin taken)

\* No two requests in the queue have the same key: only the last position of a
\* slider that is dragged is worth sending.
OnePerKey ==
  \A i, j \in DOMAIN queue : key[queue[i]] = key[queue[j]] /\ key[queue[i]] # NoKey
                             => i = j

Told(r, o) == told[r] = <<o>>

\* An outcome that says the headset took the request is never told of one the
\* headset has not received.
TakenBeforeTold ==
  \A r \in Requests :
    (Told(r, "acked") \/ Told(r, "silent")) /\ ~forgot => r \in taken

\* on_done is never called twice for one request, and never for one that was
\* not submitted.
ToldOnce ==
  \A r \in Requests : Len(told[r]) <= IF r \in submitted THEN 1 ELSE 0

\* No request is dropped without a word: one that was told nothing is still
\* queued, once, or outstanding.
NoneDropped ==
  /\ Pending = Queued \cup ({outstanding} \ {NoRequest})
  /\ \A i, j \in DOMAIN queue : queue[i] = queue[j] => i = j
  /\ outstanding \notin Queued

\* `replied` is how a feature is established: it is only told of a request the
\* headset answered, when no two requests await the same payload type.
RepliedMeansAnswered ==
  \A r \in Requests : Told(r, "replied") => r \in answered

\* The same of a session no wait was abandoned on, whatever payload types the
\* requests await: the late answer to a request already given up as silent, or
\* the second answer to a retransmission, establishes another feature.
RepliedOnlyIfAnswered ==
  ~forgot => RepliedMeansAnswered

\* "Miss one and the headset stops announcing anything at all": as long as no
\* frame is lost, a command the headset waits to have acknowledged is either
\* still unread or its acknowledgement is on its way, and only one of them.
AcknowledgementKept ==
  LinkUp /\ losses = 0 =>
    Count(toHost, "message") + Count(outbox, "ack") + Count(toHeadset, "ack")
      = IF offering THEN 1 ELSE 0

Frames(s, r) == Cardinality({i \in DOMAIN s : s[i] = r})

\* A request that was told its outcome is never put on the wire again, and one
\* that a newer write under its key replaces was never put there at all.
FinishedStaysOff ==
  [][\A r \in Requests :
       /\ told[r] # <<>> => Frames(awaiting', r) <= Frames(awaiting, r)
       /\ submitted' # submitted /\ told'[r] # told[r]
            => r \notin Awaited \cup taken]_vars

\* Whatever the headset keeps silent about and however much it announces, every
\* request is told its outcome.
RequestsFinish == \A r \in Requests : r \in submitted ~> told[r] # <<>>

\* A caller that waits for the session to become idle gets control back.
WaitsEnd == waiting ~> ~waiting

\* The session implements what RequestService promises.
Service == INSTANCE RequestService WITH up <- alive
ServiceSpec == Service!Spec
=============================================================================
