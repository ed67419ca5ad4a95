----------------------------- MODULE Connection -----------------------------
(***************************************************************************)
(* The control channel.  The headset comes and goes and gives the channel  *)
(* to one session; the owner opens it, reads what the headset supports,    *)
(* serves, refreshes and tries again (Owner.connect, drop, handle and the  *)
(* loop; Device.open, _handshake, _absorb and read); and the command line  *)
(* may open a session of its own meanwhile (cli.one_shot).  Of a published *)
(* line, what matters is whether it says connected and what is supported.  *)
(***************************************************************************)
EXTENDS Naturals

CONSTANTS
    Requested,   \* records that are asked for
    Volunteered, \* records the headset announces on its own
    Blank,       \* those a reading of which may say that nothing is known
    MaxWait,     \* BACKOFF_MAX
    MaxFails,    \* bound: links that drop, handshakes that fail, helpers killed
    MaxRivals    \* bound: sessions of the command line

ASSUME ConnectionAssumption ==
    /\ MaxWait \in Nat \ {0}
    /\ Requested \cap Volunteered = {} /\ Blank \subseteq Volunteered

Records == Requested \cup Volunteered

VARIABLES
    here,       \* the headset is on and in range
    fits,       \* it speaks the protocol of the driver
    channel,    \* whose session it has: "nobody", "owner", "cli"
    phase,      \* of the owner: "waiting", "opening", "reading", "serving",
                \* "refreshing", "fallen"
    link,       \* Session.alive: the link stands
    hopeless, wait, backoff,    \* hopeless, next_attempt, backoff
    support,    \* Device.support: the records it has
    replied,    \* the records answered in the read that runs
    turnedUp,   \* Device.last_read: volunteered records that came
    known,      \* Device.state: the records there is a value of
    message,    \* error or refused is not empty
    stale,      \* `stale` of handle()
    line,       \* the last line published
    untold,     \* history: a refresh changed what is supported, and no line was
                \* published since
    fails, rivals   \* what happened so far, for the bounds

headset == <<here, fits>>
retrying == <<hopeless, wait, backoff>>
device == <<support, replied, turnedUp, known>>
bounds == <<fails, rivals>>
vars == <<headset, channel, phase, link, retrying, device, message, stale, line,
          untold, bounds>>

TypeOK ==
    /\ here \in BOOLEAN /\ fits \in BOOLEAN
    /\ channel \in {"nobody", "owner", "cli"}
    /\ phase \in {"waiting", "opening", "reading", "serving", "refreshing", "fallen"}
    /\ link \in BOOLEAN
    /\ hopeless \in BOOLEAN /\ wait \in 0..MaxWait /\ backoff \in 1..MaxWait
    /\ support \subseteq Records /\ replied \subseteq Requested
    /\ turnedUp \subseteq Volunteered /\ known \subseteq Records
    /\ message \in BOOLEAN /\ stale \in BOOLEAN
    /\ line \in [connected : BOOLEAN, support : SUBSET Records]
    /\ untold \in BOOLEAN
    /\ fails \in Nat /\ rivals \in Nat

HasDevice == phase \in {"reading", "serving", "refreshing"}

\* What of Owner.payload matters here, with this support.
Payload(sup) ==
    [connected |-> HasDevice /\ link, support |-> IF HasDevice THEN sup ELSE {}]

Nothing == [connected |-> FALSE, support |-> {}]

Init ==
    /\ here \in BOOLEAN /\ fits \in BOOLEAN
    /\ channel = "nobody" /\ phase = "waiting" /\ link = FALSE
    /\ hopeless = FALSE /\ wait = 0 /\ backoff = 1
    /\ support = {} /\ replied = {} /\ turnedUp = {} /\ known = {}
    /\ message = FALSE /\ stale = FALSE
    /\ line = Nothing
    /\ untold = FALSE /\ fails = 0 /\ rivals = 0

Fault == fails < MaxFails /\ fails' = fails + 1 /\ UNCHANGED rivals

----------------------------------------------------------------------------
(* The headset and the command line *)

Comes ==
    /\ ~here /\ here' = TRUE
    /\ UNCHANGED <<fits, channel, phase, link, retrying, device, message, stale, line,
                   untold, bounds>>

Broken ==
    /\ channel' = "nobody" /\ link' = FALSE
    /\ UNCHANGED <<fits, phase, retrying, device, message, stale, line, untold>>

\* It goes, and every session with it.
Goes == here /\ here' = FALSE /\ Broken /\ UNCHANGED bounds

LinkDrops == Fault /\ channel = "owner" /\ Broken /\ UNCHANGED here

\* one_shot: nobody answered the command line in time, so it opens a session.
RivalOpens ==
    /\ here /\ channel = "nobody" /\ rivals < MaxRivals
    /\ channel' = "cli" /\ rivals' = rivals + 1
    /\ UNCHANGED <<headset, phase, link, retrying, device, message, stale, line,
                   untold, fails>>

\* It is closed whatever came of it.
RivalCloses ==
    /\ channel = "cli" /\ channel' = "nobody"
    /\ UNCHANGED <<headset, phase, link, retrying, device, message, stale, line,
                   untold, bounds>>

----------------------------------------------------------------------------
(* Opening *)

Closed == channel' = IF channel = "owner" THEN "nobody" ELSE channel

\* Owner.drop: there is no device any more, and another attempt after a while.
Drop ==
    /\ phase' = "waiting" /\ link' = FALSE
    /\ wait' = backoff
    /\ backoff' = IF 2 * backoff > MaxWait THEN MaxWait ELSE 2 * backoff
    /\ support' = {} /\ replied' = {} /\ turnedUp' = {} /\ known' = {}
    /\ message' = TRUE /\ line' = Nothing
    /\ untold' = FALSE
    /\ UNCHANGED <<headset, stale>>

Due == phase = "waiting" /\ ~hopeless /\ wait = 0

Connects ==
    /\ Due /\ here /\ channel = "nobody"
    /\ channel' = "owner" /\ link' = TRUE
    /\ phase' = "opening"
    /\ UNCHANGED <<headset, retrying, device, message, stale, line, untold, bounds>>

\* Mutant: a busy channel is taken for a headset that can never be talked to.
BusyIsHopeless ==
    /\ Due /\ (~here \/ channel # "nobody")
    /\ hopeless' = (channel # "nobody")
    /\ Drop
    /\ UNCHANGED <<channel, bounds>>

\* Out of range, or EBUSY: somebody else has the channel, or a leftover of ours.
CannotConnect ==
    /\ Due /\ (~here \/ channel # "nobody")
    /\ Drop
    /\ UNCHANGED <<channel, hopeless, bounds>>

\* No answer in six seconds, or no link any more.
HandshakeFails ==
    /\ phase = "opening"
    /\ \/ ~link /\ UNCHANGED bounds
       \/ link /\ Fault
    /\ Drop /\ Closed
    /\ UNCHANGED hopeless

\* UnsupportedDevice: an older protocol.
Rejected ==
    /\ phase = "opening" /\ link /\ ~fits
    /\ hopeless' = TRUE
    /\ Drop /\ Closed
    /\ UNCHANGED bounds

Opened ==
    /\ phase = "opening" /\ link /\ fits
    /\ phase' = "reading"
    /\ replied' = {}
    /\ UNCHANGED <<headset, channel, link, retrying, support, turnedUp, known, message,
                   stale, line, untold, bounds>>

Tick ==
    /\ wait > 0 /\ wait' = wait - 1
    /\ UNCHANGED <<headset, channel, phase, link, hopeless, backoff, device, message,
                   stale, line, untold, bounds>>

----------------------------------------------------------------------------
(* What the headset says *)

\* Mutant: the panel is told while the opening read is in flight.
NeverQuiet == FALSE

Quiet == phase = "reading"

\* A volunteered record exists because it came.
Marked(r) == support \cup ({r} \cap Volunteered)

\* Mutant: the panel is told before the record is marked as supported.
MarksLater(r) == support

\* What a line published on its arrival says is supported.
Shown(r) == Marked(r)

\* Device._absorb, Device._apply and Owner._on_change: a line is published if a
\* value changed, so for the first value of a volunteered record (State may have
\* kept that of another).  A reading that says nothing is known changes something
\* only if there was a value.
Absorb(r) ==
    /\ support' = Marked(r)
    /\ turnedUp' = turnedUp \cup ({r} \cap Volunteered)
    /\ \E news \in BOOLEAN :
         /\ \/ r \in Blank /\ (news <=> r \in known) /\ known' = known \ {r}
            \/ (r \in Volunteered \ known => news) /\ known' = known \cup {r}
         /\ line' = IF news /\ ~Quiet THEN Payload(Shown(r)) ELSE line
         /\ untold' = (untold /\ ~news)
    /\ UNCHANGED <<headset, channel, phase, link, retrying, message, stale, bounds>>

Talks == channel = "owner" /\ phase # "waiting"

\* An announcement, or the answer to a poll.
Announces(r) == Talks /\ Absorb(r) /\ UNCHANGED replied

\* A record that is read is answered.
Replies(r) ==
    /\ Talks /\ phase \in {"reading", "refreshing"}
    /\ r \in Requested \ replied
    /\ replied' = replied \cup {r}
    /\ Absorb(r)

\* Device.read: what did not answer is not there.
Present == replied \cup turnedUp
StillKnown == known \ (Requested \ replied)

\* The end of the opening read: all of it is told at once.
Connected ==
    /\ phase = "reading" /\ link
    /\ phase' = "serving"
    /\ support' = Present /\ known' = StillKnown
    /\ message' = FALSE /\ backoff' = 1
    /\ line' = Payload(Present)
    /\ UNCHANGED <<headset, channel, link, hopeless, wait, replied, turnedUp, stale,
                   untold, bounds>>

\* A read, poll or pump finds the link gone: the loop drops the device.
NoticesDrop ==
    /\ phase \in {"reading", "serving"} /\ ~link
    /\ Drop /\ Closed
    /\ UNCHANGED <<hopeless, bounds>>

----------------------------------------------------------------------------
(* Commands *)

\* A setting, of the headset or of the host's equaliser: made, refused, or not
\* there; the panel is told in any case.  So it is of a refresh without a headset.
Command ==
    /\ phase \in {"waiting", "serving"}
    /\ message' \in BOOLEAN
    /\ line' = Payload(support)
    /\ untold' = FALSE
    /\ UNCHANGED <<headset, channel, phase, link, retrying, device, stale, bounds>>

\* Another watcher's greeting: the message is dropped, and nobody told.
Greet ==
    /\ phase \in {"waiting", "serving"} /\ message
    /\ message' = FALSE
    /\ UNCHANGED <<headset, channel, phase, link, retrying, device, stale, line, untold,
                   bounds>>

\* "refresh": everything is read again.
Refresh ==
    /\ phase = "serving" /\ phase' = "refreshing"
    /\ stale' = message /\ message' = FALSE
    /\ replied' = {}
    /\ UNCHANGED <<headset, channel, link, retrying, support, turnedUp, known, line,
                   untold, bounds>>

\* Told only if a message was retracted.
Refreshed ==
    /\ phase = "refreshing" /\ link
    /\ phase' = "serving"
    /\ support' = Present /\ known' = StillKnown
    /\ untold' = (~stale /\ (untold \/ Present # support))
    /\ line' = IF stale THEN Payload(Present) ELSE line
    /\ UNCHANGED <<headset, channel, link, retrying, replied, turnedUp, message, stale,
                   bounds>>

\* All the process had is gone with it, its session too.
Falls ==
    /\ phase' = "fallen" /\ link' = FALSE /\ Closed
    /\ hopeless' = FALSE /\ wait' = 0 /\ backoff' = 1
    /\ support' = {} /\ replied' = {} /\ turnedUp' = {} /\ known' = {}
    /\ message' = FALSE /\ stale' = FALSE /\ untold' = FALSE
    /\ line' = Nothing
    /\ UNCHANGED headset

\* A refresh runs outside the loop's try: the error ends the owner.
RefreshFails == phase = "refreshing" /\ ~link /\ Falls /\ UNCHANGED bounds

Killed == phase # "fallen" /\ Fault /\ Falls

\* Mutant: a session that is no longer alive is taken for one that is closed.
UnacknowledgedLeftOpen ==
    /\ HasDevice /\ link /\ Fault
    /\ IF phase = "refreshing" THEN Falls
       ELSE Drop /\ UNCHANGED <<channel, hopeless>>

\* Session.pump: a command is not acknowledged however often it is sent, and the
\* session is dead with its socket open.  It ends like one whose link is gone.
Unacknowledged ==
    /\ HasDevice /\ link /\ Fault
    /\ IF phase = "refreshing" THEN Falls
       ELSE Drop /\ Closed /\ UNCHANGED hopeless

\* The widget starts its helper again.
Restarts ==
    /\ phase = "fallen" /\ phase' = "waiting"
    /\ UNCHANGED <<headset, channel, link, retrying, device, message, stale, line,
                   untold, bounds>>

Owner ==
    \/ Connects \/ CannotConnect \/ HandshakeFails \/ Rejected \/ Opened
    \/ Connected \/ NoticesDrop \/ Refreshed \/ RefreshFails \/ Restarts

Next ==
    \/ Comes \/ Goes \/ LinkDrops \/ RivalOpens \/ RivalCloses \/ Killed
    \/ Unacknowledged \/ Tick
    \/ \E r \in Records : Announces(r) \/ Replies(r)
    \/ Command \/ Greet \/ Refresh \/ Owner

Spec == Init /\ [][Next]_vars

\* The owner's loop and its reads end (they have deadlines), time passes, and a
\* command ends.  Nothing is assumed of the headset, or of whether it answers.
FairSpec == Spec /\ WF_vars(Owner) /\ WF_vars(Tick) /\ WF_vars(RivalCloses)

----------------------------------------------------------------------------
(* Properties *)

\* The headset holds a session of the owner exactly while the owner has one: what
\* is left of a failed attempt would make every later one fail with EBUSY.
NoLeftover ==
    channel = "owner" <=> link /\ phase \notin {"waiting", "fallen"}

\* A panel is shown a connected headset only when its opening read is over, and
\* never one that is about to be rejected.
ShownWhenRead ==
    line.connected => fits /\ phase \notin {"opening", "reading"}

\* The panel offers nothing the headset was not found to have, and all it was
\* found to have but the records of which it only said that nothing is known: no
\* value changes at such a reading, and no line is published.  A refresh that found
\* something else leaves the panel behind, until a line is published.
OffersCurrent ==
    phase = "serving" /\ ~untold =>
        /\ line.support \subseteq support
        /\ support \ line.support \subseteq Volunteered \ known

\* "It just arrived, so it exists": a record that came is offered.
OffersAll ==
    phase = "serving" /\ ~untold => line.support = support

\* A control that a refresh found missing is taken off the panel in the end.
OfferedOnlyIfAnswered ==
    (phase = "serving" /\ ~(line.support \subseteq support))
        ~> (phase # "serving" \/ line.support \subseteq support)

\* A headset that stays and that the driver can talk to is served again and
\* again, whatever dropped, failed, fell or was busy before.
Reconnects ==
    <>[](here /\ fits) => []<>(phase = "serving")
=============================================================================
