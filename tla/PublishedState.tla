--------------------------- MODULE PublishedState ---------------------------
(***************************************************************************)
(* What the panel shows of the headset's settings: the readings and the     *)
(* unconfirmed writes of src/headset/state.py, the readings Device keeps    *)
(* (device.py) and the moments at which Owner publishes a line (server.py). *)
(*                                                                          *)
(* The headset "will not read back its own change": what it reports (echo)  *)
(* lags behind what it does (hardware).                                     *)
(*                                                                          *)
(* Abstractions: a record carries one setting; the frames of a session are  *)
(* two things, the write under way and the readings not handled yet; time   *)
(* is the age of a pending write, in ticks.  One watcher stands for all:    *)
(* publish() writes the same line to each.                                  *)
(***************************************************************************)
EXTENDS Naturals, Sequences, FiniteSets

CONSTANTS
  Features,      \* settings, one record and one control each
  Values,        \* values a setting may have
  None,          \* no value, no entry
  Converge,      \* CONVERGE_SECONDS, in ticks
  MaxReadings,   \* bound: readings on their way at once
  MaxWrites      \* bound: writes the user makes

ASSUME PublishedStateAssumption ==
  /\ None \notin Values /\ \A S \in SUBSET Features : S # None
  /\ None \notin [value : Values, was : Values \cup {None}, age : Nat]
  /\ Converge \in Nat
  /\ MaxReadings \in Nat /\ MaxWrites \in Nat

VARIABLES
  \* --- the headset
  hardware,     \* [Features -> Values]: what it does
  echo,         \* [Features -> Values]: what it reports to this session
  flying,       \* [Features -> Values or None]: a write not taken yet
  readings,     \* readings sent and not handled: <<feature, value>>
  \* --- Device
  connected,    \* Owner.device is not None
  last,         \* Device.state
  support,      \* features Device.support holds
  \* --- State
  values,       \* State.values
  pending,      \* State.pending: [value, was, age], or None
  \* --- Owner
  message,      \* which of Owner.error, Owner.refused says something
  reported,     \* Owner.reported_ignored
  refreshing,   \* features a refresh has not had an answer for; None outside
  stale,        \* handle(): there was a message when the refresh began
  shown,        \* the last line published
  writes,       \* writes made so far
  silenced,     \* history: a refresh has found a record unanswered
  greeted,      \* history: a watcher's greeting has retracted a message
  relapsed      \* history: a write the check has on record was made again, and
                \* given up again before the next check

external == <<hardware, echo, flying, readings>>
device == <<connected, last, support>>
state == <<values, pending>>
history == <<silenced, greeted, relapsed>>
owner == <<message, reported, refreshing, stale, shown, writes, history>>
vars == <<external, device, state, owner>>

-----------------------------------------------------------------------------
(* State. *)

GivenUp(entry) == entry # None /\ entry.age > Converge

\* snapshot(): readings, with the writes not given up over them.
Snapshot(v, p) ==
  [f \in Features |-> IF p[f] = None \/ GivenUp(p[f]) THEN v[f] ELSE p[f].value]

\* ignored(): writes given up on.
Ignored(p) == {f \in Features : GivenUp(p[f])}

\* unconfirmed(): writes the headset has not caught up with.
Unconfirmed(p) == {f \in Features : p[f] # None}

\* payload(): the line publish() writes.
Line(v, p, s, c, m) ==
  [value |-> Snapshot(v, p), pending |-> Unconfirmed(p), ignored |-> Ignored(p),
   support |-> s, connected |-> c, message |-> m]

\* expect(): a written value is pending; a second one keeps `was` and restarts
\* the clock; the value already read needs no entry.
Expect(f, v) ==
  pending' = [pending EXCEPT ![f] =
    IF @ # None THEN [value |-> v, was |-> @.was, age |-> 0]
    ELSE IF values[f] = v THEN None
    ELSE [value |-> v, was |-> values[f], age |-> 0]]

\* Mutant: every reading that is not the written value contradicts it.
EchoedNever(entry, v) == FALSE

\* observe(): the reading is the stale echo of a write not given up on.
Echoed(entry, v) ==
  entry # None /\ ~GivenUp(entry) /\ v # entry.value /\ v = entry.was

\* observe(): the reading changes what is on screen.
ScreenChanged(f, v) ==
  Snapshot(values, pending)[f] # Snapshot(values', pending')[f]

\* Owner.publish().
Publish == shown' = Line(values', pending', support', connected', message')

\* Mutant: a reading is kept by State only when no write is pending.
AbsorbUnlessPending(f, v) ==
  IF last[f] = v
  THEN UNCHANGED <<last, state, shown>>
  ELSE /\ last' = [last EXCEPT ![f] = v]
       /\ values' = [values EXCEPT ![f] = IF pending[f] = None THEN v ELSE @]
       /\ pending' = [pending EXCEPT ![f] = IF Echoed(@, v) THEN @ ELSE None]
       /\ IF ScreenChanged(f, v) THEN Publish ELSE UNCHANGED shown

\* Device._apply and Owner._on_change: a reading that differs from the last one
\* is folded in, and published if it shows.
Absorb(f, v) ==
  IF last[f] = v
  THEN UNCHANGED <<last, state, shown>>
  ELSE /\ last' = [last EXCEPT ![f] = v]
       /\ values' = [values EXCEPT ![f] = v]
       /\ pending' = [pending EXCEPT ![f] = IF Echoed(@, v) THEN @ ELSE None]
       /\ IF ScreenChanged(f, v) THEN Publish ELSE UNCHANGED shown

-----------------------------------------------------------------------------
NoEntry == [f \in Features |-> None]

Init ==
  /\ hardware \in [Features -> Values]
  /\ echo = hardware /\ flying = NoEntry /\ readings = <<>>
  /\ connected = FALSE /\ last = NoEntry /\ support = {}
  /\ values = NoEntry /\ pending = NoEntry
  /\ message = {} /\ reported = {} /\ refreshing = None /\ stale = FALSE
  /\ writes = 0
  /\ silenced = FALSE /\ greeted = FALSE /\ relapsed = FALSE
  /\ shown = Line(values, pending, support, connected, message)

Free == refreshing = None

\* The check at the end of the turn is going to find something to publish.
CheckOwed == Ignored(pending) # reported

\* Owner.connect(): everything is forgotten, read anew without a word, and
\* published once.  A new session is told the truth.
Connect ==
  /\ ~connected
  /\ \E silent \in SUBSET Features :
       LET read == [f \in Features |-> IF f \in silent THEN None ELSE hardware[f]]
       IN  /\ last' = read
           /\ values' = read
           /\ support' = Features \ silent
  /\ echo' = hardware
  /\ connected' = TRUE
  /\ pending' = NoEntry
  /\ message' = message \ {"error"}
  /\ UNCHANGED <<hardware, flying, readings, reported, refreshing, stale, writes, history>>
  /\ Publish

\* Owner.connect() raises and the loop drops it: what was heard by then is kept,
\* and published with why.  In the handshake that is what the headset announces,
\* over the readings there were; these are forgotten before the first read.
ConnectFails ==
  /\ ~connected
  /\ \E heard \in SUBSET Features :
       \/ /\ values' = [f \in Features |->
               IF f \in heard THEN hardware[f] ELSE values[f]]
          /\ pending' = [f \in Features |->
               IF f \in heard /\ ~Echoed(pending[f], hardware[f])
               THEN None ELSE pending[f]]
       \/ /\ values' = [f \in Features |-> IF f \in heard THEN hardware[f] ELSE None]
          /\ pending' = NoEntry
  /\ message' = message \cup {"error"}
  /\ UNCHANGED <<external, device, reported, refreshing, stale,
                 writes, history>>
  /\ Publish

\* Owner.drop(): the device goes, with what was under way; the readings stay.
Drop ==
  /\ connected
  /\ Free
  /\ connected' = FALSE
  /\ last' = NoEntry /\ support' = {}
  /\ flying' = NoEntry /\ readings' = <<>>
  /\ message' = message \cup {"error"}
  /\ UNCHANGED <<hardware, echo, state, reported, refreshing, stale,
                 writes, history>>
  /\ Publish

\* handle() and apply(): a message is replaced by what this command says, a
\* write that can be made is sent and expected, and a line is published.  It says
\* there is an error when the headset is not connected or does not have the
\* setting, and when the line could not be parsed.
Set(f, v) ==
  /\ Free
  /\ writes < MaxWrites
  /\ writes' = writes + 1
  /\ \/ /\ connected /\ f \in support
        /\ message' = {}
        /\ flying' = [flying EXCEPT ![f] = v]
        /\ Expect(f, v)
     \/ /\ connected /\ f \in support
        /\ message' = {"refused"}      \* read-only, or not in this mode
        /\ UNCHANGED <<flying, pending>>
     \/ /\ message' = {"error"}
        /\ UNCHANGED <<flying, pending>>
  /\ UNCHANGED <<hardware, echo, readings, device, values, reported,
                 refreshing, stale, history>>
  /\ Publish

\* handle() of a watcher's greeting, {"replace", "version"} with the version the
\* owner has: the message is dropped like by any command, and nothing published.
\* So it is for a line that asks for nothing.
Greet ==
  /\ Free
  /\ message # {}
  /\ message' = {}
  /\ greeted' = TRUE
  /\ UNCHANGED <<external, device, state, reported, refreshing, stale,
                 shown, writes, silenced, relapsed>>

\* handle("refresh"): the message is dropped and every record asked for.  A turn
\* may handle several commands before its check.
BeginRefresh ==
  /\ Free
  /\ connected
  /\ stale' = (message # {})
  /\ message' = {}
  /\ refreshing' = Features
  /\ UNCHANGED <<external, device, state, reported, shown, writes,
                 history>>

\* handle("refresh") without a headset: there is only a message to retract.
RefreshUnconnected ==
  /\ Free
  /\ ~connected
  /\ message # {}
  /\ message' = {}
  /\ UNCHANGED <<external, device, state, reported, refreshing, stale, writes,
                 history>>
  /\ Publish

\* Device.read(): an answer arrives, absorbed like any reading.
RefreshReply(f) ==
  /\ ~Free
  /\ f \in refreshing
  /\ refreshing' = refreshing \ {f}
  /\ UNCHANGED <<external, connected, support, message, reported, stale, writes, history>>
  /\ Absorb(f, echo[f])

\* Mutant: the message is dropped and nobody told.
RetractQuietly == UNCHANGED shown

\* handle(): clearing a message is a change the panel has to be told about.
Retract == IF stale THEN Publish ELSE UNCHANGED shown

\* Device.read(): support is what answered, what did not loses its reading; a
\* line is published only if a message has to go.
EndRefresh ==
  /\ ~Free
  /\ support' = Features \ refreshing
  /\ last' = [f \in Features |-> IF f \in refreshing THEN None ELSE last[f]]
  /\ silenced' = (silenced \/ refreshing # {})
  /\ refreshing' = None
  /\ stale' = FALSE
  /\ UNCHANGED <<external, connected, state, message, reported, writes,
                 greeted, relapsed>>
  /\ Retract

\* A reading the headset sent unasked is handled.
HandleReading ==
  /\ readings # <<>>
  /\ readings' = Tail(readings)
  /\ UNCHANGED <<hardware, echo, flying, connected, support, message,
                 reported, refreshing, stale, writes, history>>
  /\ Absorb(Head(readings)[1], Head(readings)[2])

\* Mutant: the loop compares with what is on the panel only when asked to.
CheckSilently ==
  /\ Free
  /\ CheckOwed
  /\ reported' = Ignored(pending)
  /\ UNCHANGED <<external, device, state, message, refreshing, stale,
                 writes, shown, history>>

\* loop(): at the end of a turn, a write that has just been given up on.
Check ==
  /\ Free
  /\ CheckOwed
  /\ reported' = Ignored(pending)
  /\ UNCHANGED <<external, device, state, message, refreshing, stale,
                 writes, history>>
  /\ Publish

\* Time passes for the writes not given up on, also in a turn that has not come
\* to its check: a refresh takes 12 s, a command to pactl 10 s, and there may be
\* many.
Tick ==
  /\ \E f \in Features : pending[f] # None /\ ~GivenUp(pending[f])
  /\ pending' = [f \in Features |->
       IF pending[f] = None \/ GivenUp(pending[f]) THEN pending[f]
       ELSE [pending[f] EXCEPT !.age = @ + 1]]
  /\ relapsed' = (relapsed \/
                    \E f \in reported : GivenUp(pending'[f]) /\ ~GivenUp(pending[f]))
  /\ UNCHANGED <<external, device, values, message, reported, refreshing,
                 stale, shown, writes, silenced, greeted>>

-----------------------------------------------------------------------------
(* The headset. *)

\* It takes a write, and does it or discards it; it reports neither.
HeadsetTakes(f) ==
  /\ flying[f] # None
  /\ hardware' \in {hardware, [hardware EXCEPT ![f] = flying[f]]}
  /\ flying' = [flying EXCEPT ![f] = None]
  /\ UNCHANGED <<echo, readings, device, state, owner>>

Send(f, v) ==
  /\ Len(readings) < MaxReadings
  /\ readings' = Append(readings, <<f, v>>)

\* It starts to report what it does, and says so.
EchoCatchesUp(f) ==
  /\ connected
  /\ echo[f] # hardware[f]
  /\ echo' = [echo EXCEPT ![f] = hardware[f]]
  /\ Send(f, hardware[f])
  /\ UNCHANGED <<hardware, flying, device, state, owner>>

\* The setting is changed on the headset, which announces it to a session.
Press(f, v) ==
  /\ v # hardware[f]
  /\ hardware' = [hardware EXCEPT ![f] = v]
  /\ echo' = [echo EXCEPT ![f] = v]
  /\ IF connected THEN Send(f, v) ELSE UNCHANGED readings
  /\ UNCHANGED <<flying, device, state, owner>>

-----------------------------------------------------------------------------
Next ==
  \/ Connect \/ ConnectFails \/ Drop \/ Greet \/ BeginRefresh \/ EndRefresh
  \/ RefreshUnconnected \/ HandleReading \/ Check \/ Tick
  \/ \E f \in Features : RefreshReply(f) \/ HeadsetTakes(f) \/ EchoCatchesUp(f)
  \/ \E f \in Features, v \in Values : Set(f, v) \/ Press(f, v)

Spec == Init /\ [][Next]_vars

\* Time passes; read() returns when its time is up at the latest; and every turn
\* of the loop ends in the check, however many commands it handled: SF.
Fairness ==
  /\ WF_vars(Tick)
  /\ WF_vars(EndRefresh \/ \E f \in Features : RefreshReply(f))
  /\ WF_vars(HandleReading)
  /\ SF_vars(Check)

FairSpec == Spec /\ Fairness

-----------------------------------------------------------------------------
(* Properties. *)

Entries == [value : Values, was : Values \cup {None}, age : 0..(Converge + 1)]
OrNone(S) == S \cup {None}
Lines == [value : [Features -> OrNone(Values)],
          pending : SUBSET Features, ignored : SUBSET Features,
          support : SUBSET Features, connected : BOOLEAN,
          message : SUBSET {"error", "refused"}]

\* Every variable has its type, and an entry is not older than it may become.
TypeOK ==
  /\ hardware \in [Features -> Values] /\ echo \in [Features -> Values]
  /\ flying \in [Features -> OrNone(Values)]
  /\ last \in [Features -> OrNone(Values)]
  /\ values \in [Features -> OrNone(Values)]
  /\ readings \in Seq(Features \X Values)
  /\ connected \in BOOLEAN /\ stale \in BOOLEAN
  /\ silenced \in BOOLEAN /\ greeted \in BOOLEAN /\ relapsed \in BOOLEAN
  /\ support \subseteq Features /\ reported \subseteq Features
  /\ pending \in [Features -> OrNone(Entries)]
  /\ message \subseteq {"error", "refused"}
  /\ refreshing \in OrNone(SUBSET Features)
  /\ writes \in 0..MaxWrites
  /\ shown \in Lines

Now == Line(values, pending, support, connected, message)

\* When the values on the panel, or its list of writes not applied, are not what
\* snapshot() and ignored() say, a write has been given up on since and the check
\* at the end of the turn is going to see it, however long the turn and whatever
\* it handled.
StaleTillCheck ==
  (shown.value # Now.value \/ shown.ignored # Now.ignored) => CheckOwed
StaleTillCheckAnswered == ~silenced => StaleTillCheck

\* Publishing on a change and on the check are enough for that together, but for
\* two things: a refresh that found a record unanswered, and a write given up and
\* reported that is made again and given up again in one turn, which ends with
\* ignored() equal to reported_ignored (StaleTillCheckAnswered fails of it).
StaleOnlyTillCheck == ~relapsed => StaleTillCheckAnswered

\* "Clearing a message is itself a change the panel has to be told about":
\* outside a refresh the panel shows the message there is, and none that was
\* retracted.  A greeting breaks it, so that it holds until the first one.
MessageCurrentAlways == Free => shown.message = message
MessageCurrent == ~greeted => MessageCurrentAlways

\* Device and State never disagree on what the headset said, and a pending write
\* knows the last reading for the value it replaces, however often it was
\* rewritten and however many readings came in between.
ReadingsKept ==
  \A f \in Features :
    /\ last[f] # None => values[f] = last[f]
    /\ pending[f] # None => pending[f].was = values[f]

\* A reading that repeats what the write replaced never takes a write off the
\* panel before its time: the headset says one thing for up to a minute and does
\* another.
EchoChangesNothing ==
  [][\A f \in Features :
       /\ pending[f] # None /\ pending'[f] = None /\ connected
       /\ values'[f] = pending[f].was /\ pending[f].value # pending[f].was
       => GivenUp(pending[f]) \/ connected' # connected]_vars

\* "Controls whose written value the device has not caught up with yet": once the
\* headset caught up, the mark goes.
MarkCleared ==
  \A f \in Features :
    pending[f] = None ~> (f \notin shown.pending \/ pending[f] # None)

\* A write is confirmed, contradicted or shown as not applied in the end, with the
\* same exception: the check has nothing new to say of a write that relapsed.
WritesSettle ==
  \A f \in Features :
    pending[f] # None ~> (pending[f] = None \/ f \in shown.ignored \/ relapsed)
=============================================================================
