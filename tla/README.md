# A verification project for omarchy-headset

TLA+ models of the headset helper under `src/headset/` and of what the bar widget does
with it, checked with TLC on small instances, with theorems that TLAPS proves for
instances of every size. `PROJECT.json` lists every run, mutant, theorem, hazard and
the source lines each definition stands for.

## The system

A bar widget (`BarWidget.qml`) starts a *helper*, `headsetctl watch`. One helper
per headset becomes the *owner*: it holds the Bluetooth control channel, keeps what
is known of the headset, and writes a line of JSON, the published state, to its
standard output and to every *follower* connected to its socket. All other helpers
follow: they relay that state to their widget and the widget's commands to the
owner. Commands given at a terminal go to the owner in the same way. A headset without
an equaliser of its own gets one that runs on the host, a PipeWire filter chain.

| Component | Source | State it keeps | Operations | Model |
|---|---|---|---|---|
| Control session | `session.py` | `queue`, `outstanding`, `awaiting`, `seq`, `outbox`, `alive` | `submit`, `pump`, `run_until_idle`, `connect`, `close` | `Session`, `RequestService` |
| Framing | `framing.py` | the session's `buffer` | `encode`, `decode`, `split` | `Framing`, in `Wire` |
| Published state | `state.py` | `values`, `pending` | `expect`, `observe`, `snapshot`, `ignored`, `forget` | `PublishedState` |
| Device | `device.py` | `state`, `support`, `last_read`, `ready` | `open`, `close`, `read`, `_absorb` | `Connection`; readings in `PublishedState`, bytes in `Wire` |
| Owner | `server.py` | `error`, `refused`, `reported_ignored`, `clients`, backoff | `handle`, `apply`, `publish`, `connect`, `drop`, `loop` | `PublishedState`, `Connection`, `Election`, `Equaliser`, `Command` |
| Election and socket | `ipc.py`, `watch`/`follow` in `server.py` | lock file, socket path | `win`, `bind_listener`, `connect_to_owner`, `release` | `Election` |
| Host equaliser | `equaliser.py`, `tend_equaliser` | `process`, `dying`, `previous_sink`, `pending_sink`, `enabled` | `apply`, `start`, `stop`, `settle`, `bury_the_dead`, `reap_strays` | `Equaliser` |
| Command client, command line | `client.py`, `cli.py` | none | `state`, `send`, `cmd_set`, `one_shot` | `Command`; `one_shot` in `Connection` |
| Running programs | `binaries.py` | readers, deadline | `run` | `Runner` |
| Audio profiles | `audio.py`, `BarWidget.qml` | `audioProcess`, `audioQueued`, `audioCard` | `summary`, `set_profile`, `wait_for_profile`, `refreshAudio`, `switchProfile` | `Audio` |
| Drivers | `drivers/` | none | records, decoders, encoders, the Fast Pair parser | `SonyMdr`, `FastPair`, in `Wire` |
| Service discovery | `sdp.py` | none | one query, a parser | not modelled |
| Panel | `Model.js`, `components/` | none | rows from a state line | not modelled |

**How they interact.** Everything in the owner runs on one thread: `loop()` selects,
handles the lines of the widget and the followers, tends the equaliser and pumps the
session. Callbacks (`on_done`, `on_message`, `on_change`) run inside a pump. What is
concurrent is what the owner talks to: the headset, other helpers, PipeWire, the
user's own sound settings, programs it asks, a package update, the kernel.

**What is hard.** The acknowledgement discipline under loss and retransmission; a
headset that reports its old value for up to a minute; publishing exactly when the
panel changes, including when only time has passed; the lock, the socket file and the
shutdown order between processes that may die anywhere; processes that outlive their
helper; a sink that comes and goes while the helper is half way through a turn; bytes
that are damaged, cut or noise; answers that are taken from a line published for
somebody else. `hazards` in `PROJECT.json` lists each at its line.

**What makes each component correct.**

- *Session*: one request on the wire; each acknowledgement to the request that earned
  it; every request told one outcome, once, and in the end; no acknowledgement lost.
- *Bytes*: a good frame is read whatever came before it, no reading is made up, a write
  changes the setting it names, and what is buffered is bounded.
- *Published state*: the panel shows readings with unconfirmed writes over them, and
  is told at every moment that this changes; no write unconfirmed for ever.
- *Connection*: no session is left open behind the owner's back, the panel is shown
  what the headset was found to have, and a headset that stays is served again.
- *Election*: one owner, reachable at the path while it serves; a stale one
  replaced; every widget served in the end.
- *Command*: what is reported is one's own outcome; a toggle toggles.
- *Equaliser*: no chain nothing owns; the user's default sink put back; a chain
  without its headset shut down, one left on restored.
- *Runner*: an answer is whole or refused, what it started is stopped, `run` returns.
- *Audio*: the card shown is that of the headset worn, with the profile it has; the
  last profile picked is tried.

## The modules

`Session.tla` - one session and the headset at the other end. A turn of `pump()` is a
sequence of steps: `HandleAck`, `HandleMessage` and `HandleMalformed` read one frame
each, at most `ReadsPerTurn` of them, and `EndTurn`, `EndTurnSilent`,
`EndTurnRetransmit` or `EndTurnDead` flushes, honours the timer and sends what is
next. Callers act between turns (`reads = 0`): `Submit`, `BeginWait`/`EndWait`/
`WaitTimesOut` for `run_until_idle`, `Close`, `Connect`. `told` records the calls of
`on_done`. The headset acknowledges each command with the other sequence number,
recognises a retransmission by its number, may keep silent, and sends a command only
when its last was acknowledged. The radio may lose `MaxLosses` frames of either
direction.

`RequestService.tla` - what `Session` promises its callers, without frames or timers:
one outcome for each request, `failed` for the one a newer write replaces, and for
all when the session is abandoned or closed. `MCSession` gives `Session` its keys
and reply types.

`Framing.tla`, `SonyMdr.tla`, `FastPair.tla` - operators on bytes: `Encode`, `Decode`
and `Split` of `framing.py`; records, decoders and encoders of `sony_mdr.py` with the
matching of `spec.py`; the parser and decoders of `fastpair.py`. `Nothing` is a decoder
that declines. `Wire.tla` runs them: the headset changes by itself (`Change`) or by a
write (`Write`, through `EncodeControl`, understood by `Obeyed`) and sends a frame,
whole or damaged; `Noise` comes between frames; `Receive` delivers one byte or all
there is to the session's `buffer`, cuts it (`Cut`) and applies what is decoded
(`Absorb`, `Applied`). A value that is `None` in the source is an empty sequence, any
other value of such a feature a sequence of one. `MCWire` has the instances: both
headsets (`MCTruths`), and the headphones alone (`MCHeadphones`).

`PublishedState.tla` - `state.py`, the readings of `Device` and the moments `Owner`
publishes. `hardware` is what the headset does, `echo` what it reports, `shown` the
last line published. `Set` is `handle` and `apply`, `Absorb` is `_apply`, `_on_change`
and `observe`, `Check` the comparison at the end of each turn of `loop()`. A refresh
(`BeginRefresh`, `RefreshReply`, `EndRefresh`) blocks the loop, so commands and the
check wait for it; time and readings do not. A turn handles all the lines it read before
its one check, so any number of commands and refreshes, of any length (`Tick`), may come
before a `Check` that is owed. `RefreshUnconnected` is a refresh without a headset,
`ConnectFails` keeps what was heard in the handshake or in part of the opening read.

`Connection.tla` - `Owner.connect`, `drop` and the part of the loop that decides when
to try again, with `Device.open`, the handshake, `_absorb` and `read`. `phase` is where
the owner is; `channel` is whose session the headset has, the owner's or that of a
command line that found no owner (`RivalOpens`). Backoff doubles to `MaxWait`;
`hopeless` is a headset the driver rejects. A refresh runs outside the loop's `try`, so
a link that drops during it ends the owner (`RefreshFails`) and the widget restarts it.
A session whose command is never acknowledged dies with its socket open
(`Unacknowledged`). `known` is the records `Device.state` has a value of: a reading of a
record in `Blank` (the battery of a Fast Pair headset) may say that nothing is known,
which marks the record as supported and is no change. Of a published line only
`connected` and the supported records are kept.

`Command.tla` - `headsetctl toggle` by way of the owner: `client.state` (`Asks`,
`Learns`), `client.send` (`Knocks`, `Sends`, `TakesAnswer`, `TakesGreeting`), and the
owner that accepts, hears and publishes to all it accepted. Presses on the earcup,
blocking reads and deaths of the owner come between any two steps.

`Election.tla` - each helper has a place in `watch()` (`pc`); the owner's end is five
steps in the order of the code (`LastLeft`/`Signal`, `HangUp`, `CloseListener`,
`Unlink`, `Release`). A socket connection is `peer`, `accepted` and the unread
`greeting`. Crashes, signals, failures, updates of the package and widgets that go
away may come at any step.

`Equaliser.tla` - the chains of one headset. A turn is a list of steps, `todo`
(`route_back`, `stop`, `launch`, `settle`, `bury_the_dead`, `look`, ...), so that
PipeWire, the headset and the user act between any two calls the helper makes.
`asked` and `doomed` are chains sent SIGTERM and SIGKILL, `deaf` those that ignore
the first. All chains of a headset register a sink of one name, as in the code.

`Runner.tla` - one call of `binaries.run`: `pc` walks through the function, `reader` is
the thread on each pipe, and the program and its children write, fork, leave the group
(`Leave`), close their pipes by ending, or go on for ever. `stage` is the program
between fork, `prctl` and exec, and the helper may be killed at any step
(`HelperDies`). Bytes are counted in chunks.

`Audio.tla` - the widget's one `audioProcess` (`job`), its queue of one and the settle
timer, with `cmd_audio` as the process and PipeWire's cards at the other end: they
obey late or not at all and switch by themselves. A card that is `Off` has no sink and no
source, like one that is gone (`Shape`). That the process's output is read
and that it exited is one step, `Ends`, as Quickshell reports them in this order.

`SessionProofs`, `PublishedStateProofs`, `ElectionProofs`, `EqualiserProofs`,
`RunnerProofs`, `OwnerProofs` (of `Connection` and `Command`), `AudioProofs` and
`WireProofs` (of `Wire`, `Framing`, `SonyMdr`, `FastPair`) hold the theorems.

Variables called history are read by properties only. Most of them mark the point from
which the code breaks a property, so that the property says exactly how far it holds:

- `forgot` (`Session`): `run_until_idle` gave up (session.py:344) and forgot frames on
  the wire while the session stays open. Against session.py:5-6 two requests may then
  be on the wire, and a late acknowledgement may complete the wrong one.
  `OneOnTheWire`, `TakenBeforeTold` and `RetransmissionRecognised` hold until then.
- `greeted` (`PublishedState`): a follower's greeting runs through `handle()`, which
  clears the message like any command, and publishes nothing (server.py:511-523),
  against server.py:527-528. `MessageCurrent` holds until then.
- `silenced` (`PublishedState`): a refresh found a record unanswered; `Device` drops
  its reading (device.py:184-186), `State` keeps it, and a later equal reading, at a
  moment a write has just been given up on, puts the old value back on screen and
  publishes nothing until the next line. `StaleOnlyTillCheck` holds until then.
- `relapsed` (`PublishedState`): a write that was given up on and reported is made again
  and given up again before the check at the end of the turn (server.py:631-651). The
  check compares `ignored()` with what it reported last, finds them equal and publishes
  nothing, so the panel keeps the new value. `StaleOnlyTillCheck` and `WritesSettle` hold
  until then; `panel_batch` below has the counterexample.
- `upset` (`Equaliser`): `own` once audio was routed into a chain that was asked to
  stop (equaliser.py:538) or the first turn's `reap_strays` stopped a chain that a
  command had just started (server.py:387-388); `world` once there was a fault or the
  headset's sink went. `PutBack` is about executions without either.
- `untold` (`Connection`): a refresh found a record gone, or there again, and retracted no
  message, so nothing was published (server.py:524-531). `OffersCurrent` says nothing from
  then until the next line.
- `alone` (`Command`): clients for which nobody else made the owner publish since they
  began to ask. `AnswerIsMine` and `ToggleFlips` are about those.
- `blind` (`Audio`): the last reading that was due failed, or was skipped because the
  process was running (BarWidget.qml:614), and nothing asks again. `CardFollows` is
  about states without it. `unmet`: a pick that is queued, forgotten when the headset
  changes.
- `aim`, `was`, `spoilt` (`Wire`): what the headset would have if each write had changed
  its own setting only, every value it had, and the features whose last report was
  damaged.

## The runs

| Run | Instance | What it shows |
|---|---|---|
| `session` | 3 requests, two writes under one key; 2 attempts; 1 read per turn; send space 1; 1 loss | the safety of the session, and that it implements `RequestService` |
| `session_finish` | 1 write, 1 read; announcements without end; no loss | `RequestsFinish`, `WaitsEnd` under fairness |
| `session_lost_ack` | as above with one loss | **violated**: a request waits for ever |
| `panel` | 1 setting, 3 values, 3 writes, 2 readings on their way | `StaleOnlyTillCheck`, `MessageCurrent`, `ReadingsKept`, `EchoChangesNothing`, `WritesSettle` |
| `panel_mark` | 2 writes, 1 reading | **violated**: the mark of a confirmed write stays |
| `election` | 3 helpers, 2 attempts, 1 fault | `OneOwner`, `OwnerReachable`, `StrangerReplaces`, `WidgetServed` |
| `equaliser` | 2 chains, 1 command, 1 fault | `NoOrphan`, `PutBack`, `GoneIsShutDown`, `ComesBack`, `DyingEnds` |
| `wire` | a Sony headset or Fast Pair earbuds; 2 reports, 1 fault | `GoodFramesRead`, `NothingInvented`, `WritesChangeTheirOwn`, `BufferBounded` |
| `runner` | 2 pipes, 2 children, cap 1, pipes of 2, 2 chunks written to each | `CompleteAnswer`, `GroupStopped`, `NoOrphanProgram`, `Returns` |
| `connection` | 2 requested and 1 volunteered record that may be blank, backoff to 4, 3 faults, 2 rivals | `NoLeftover`, `ShownWhenRead`, `OffersCurrent`, `Reconnects` |
| `command` | 2 commands, 3 other events | `AnswerIsMine`, `ToggleFlips` |
| `audio` | 2 headsets, 2 profiles and off, 4 changes, 3 picks | `CardFollows`, `PicksAreTried` |

**Configurations to run by hand.** Nine more disagreements between the code and what it
says of itself have a configuration of their own, each with one property that TLC finds
violated (`tlc -config X.cfg M`); they are not among the runs of `PROJECT.json`:

| Configuration | Module | Property | What the counterexample shows |
|---|---|---|---|
| `session_shared_reply` | `MCSession` | `RepliedOnlyIfAnswered` | two reads await one payload type: `replied` for one that was never answered (session.py:305) |
| `election_stale_owner` | `Election` | `StaleOwnerSpotted` | an update while an owner is built: old code serves under the new digest (server.py:224) |
| `equaliser_old_sink` | `Equaliser` | `RoutedIntoItsChain` | a restart routes audio into the chain that is going (equaliser.py:538) |
| `equaliser_two_looks` | `Equaliser` | `StoppedOnSecondLook` | the count of misses outlives its chain, so one look stops the next (server.py:410) |
| `equaliser_refusal` | `Equaliser` | `RefusalsRetracted` | a refusal outlives its reason (server.py:424) |
| `panel_batch` | `PublishedState` | `StaleTillCheckAnswered` | a write made and given up again in one turn is never shown as ignored (server.py:631-651) |
| `connection_blank` | `Connection` | `OffersAll` | a first battery frame with every part unknown marks the record and publishes nothing (device.py:127, fastpair.py:290) |
| `audio_off` | `Audio` | `CardExact` | a card that goes while it is off, or comes back off, has nothing read again (BarWidget.qml:75-78) |
| `connection_offers` | `Connection` | `OfferedOnlyIfAnswered` | a control a refresh found missing stays on the panel (server.py:524-531) |

One more configuration to run by hand holds: `wire_noise` (`MCWire`; the Sony headset, 1
report, 2 faults; about 190 000 states) has TLC look for a counterexample to
`LastFramesRead`, which is a theorem below. Two faults are two bursts of noise, in any order
and delivered in any pieces, before a frame that is whole; the property is about the last
frame alone, so one report is enough. Where `Start` (framing.py) takes the first header
instead of the last (`StartFirst`), TLC finds it violated.

**Bounds, and why they are enough.** Two requests under one key and a third of another
kind are the least with a coalescing, a retransmission and a request behind them; two
attempts give one retransmission and then death; a send space of one makes the socket
refuse; one read per turn puts the timers between any two frames, and two reads, in
the liveness run, let a turn end with frames unread. Three values are the replaced,
the written and a third one, two readings on their way may be stale and new, and the
third write rewrites a pending one that was rewritten before. `Converge = 1` has a
tick before and one after the deadline; ages are only compared with it. Refreshes are
not bounded, nor is the time before a check: the three writes are one given up and
reported, one made again in the turn that relapses, and one more behind it. Three helpers
are an owner, a follower of it and one that starts while the owner ends. Two chains
are the old and the new; a third process waits for one of them to end. The restores
of the equaliser are not bounded, so one command is followed by any number of
restarts. Sets of one setting and one fault are lifted by the proofs.

`wire`: two frames and one fault are a good frame before and behind a damaged one or
noise; `MaxFrame = 24` and `MaxData = 16` are just above the longest frame the headset
sends, so that the window is reached by noise and never by a good frame; levels of 60 to
62 are the special bytes, so good frames have escapes. The headset speaks when none of
what it said is half read, and its first frame is an answer, the next an announcement,
which saves only equal cases. `runner`: two children are one in the group and one that
left it; a cap of one and two chunks give an output that fits, one that is just too
large and one cut in two. `connection`: two requested records may be answered in part,
three faults are a link that drops twice in a row and a kill, two rivals let the channel
be busy again after a retry; the volunteered record is blank or not at each reading;
`MaxWait = 4` has the backoff reach its maximum. `command`:
two commands are one's own and another's, three events can come before, between and
after the two connections of a command. `audio`: with four changes the headset is
changed away and back around a reading, and a switch by PipeWire and a failing `pactl`
still fit; three picks are one that runs, one that is queued and one that takes its
place; two profiles with nodes, off, and no card at all are switches that change the nodes
and one, between the last two, that does not.

**Deadlock** is checked where the system goes on for ever. It is not in `election`
(every widget gone and every helper ended is how it is meant to stop), `runner` (a call
that returned), `command` (every command given), `wire` (every report sent and read) and
`audio` (no headset worn and no more changes).

**Fairness, and what in the code justifies it.** `Session`: `Owner.loop` and
`run_until_idle` select with a timeout and pump, so turns go on and time passes;
a caller closes a session that raised (`Owner.drop`); the headset reads its link and
acknowledges, but need not answer and may announce for ever. `WaitTimesOut` is strongly
fair since the wait looks at the clock after every turn, not at every moment.
`PublishedState`: time passes, `read()` ends by its timeout, a turn ends in its check
however many commands it handled. `Connection`: the owner's loop goes on, its waits
have deadlines, time passes, a command line ends; a headset need not stay or answer.
`Election`: every process runs, a turn of the owner serves every client that `select`
reports, and a widget restarts its helper (`restartTimer`). `Equaliser`: the loop
turns, a look is due every two seconds, a grace of three seconds ends, a process that
is killed or heeds SIGTERM ends; nothing is assumed of PipeWire registering a sink, of
the headset or of the user. `Runner`: the main thread and the readers run, time passes,
a forked program is executed; nothing is assumed of the program or its children, not
even that SIGKILL ends them. `Audio`: the helper ends, by its own limit of six seconds
or stopped by `audioDeadline`, and the widget hears of it. `Command` and `Wire` have no
liveness: a command ends by its deadlines, which is `Returns` for a socket.

**Mutants.** Each checked property has a mutant, a plausible fault of the code
(an off-by-one in the attempts, an acknowledgement that settles everything, a lock
released before the socket file is removed, a reading not kept while a write is
pending, a checksum not looked at, only the program killed and not its group, the
session of a failed handshake left open, ...) under which TLC finds it violated.

## The disagreements found

Two are runs that TLC finds violated, and entries under `findings`:

1. *A lost acknowledgement stops the session* (session.py:260). A reply may overtake
   its acknowledgement; if that is then lost, nothing is outstanding, so no timer runs,
   and `awaiting` never empties, so nothing is sent again.
2. *The mark of a confirmed write stays* (state.py:115), since a confirmation does not
   change the snapshot and only changes of the snapshot are published.

Nine are configurations to run by hand, listed above. Smaller ones, not runs of their
own, are the points marked by history variables, and:

- a write over a pending one that returns to the value already read is later listed as
  ignored although the headset does what was asked (state.py:79-87);
- the comment at server.py:723 takes a failed connection for an owner that died, though
  one that has not bound its socket yet uses up a round as well; a helper may give up
  after four rounds while an owner serves, and its widget restarts it;
- `client.send` takes whatever line comes next for its answer, and the greeting if none
  does before the deadline or the end (client.py:59, 66-69), so a command that an owner
  was too busy to hear, or died before hearing, may be reported as done;
- `cmd_set` looks at `error` and not at `refused`, so a setting the headset refuses is
  reported as set (cli.py:153);
- a toggle is computed from a line read before (cli.py:148): with a press on the earcup
  in between it writes the value that is there;
- a profile queued for one headset is tried on the next (BarWidget.qml:593-600),
  against the comment at BarWidget.qml:88-92;
- a reading of the card that is due while another runs is skipped and not made up for
  (BarWidget.qml:614), so the panel may show the profile before it.

## What is proved

TLAPS proves the following for every value of the constants. The assumptions are those
the modules name (`RequestsAssumption`, `BoundsAssumption`, `PublishedStateAssumption`,
`ElectionAssumption`, `EqualiserAssumption`, `RunnerAssumption`, `ConnectionAssumption`,
`AudioAssumption`, `WireAssumption`, `NewsAssumption`): special values are distinct from
ordinary ones, off is a profile, no record is both asked for and volunteered, only a
volunteered one may be blank, bounds are natural numbers and, in `Wire`, the features of a headset, the
wishes and the faults are of the types the drivers give them, and what a headset changes
by itself at once is of one record. `Command` needs none. TLC evaluates each on the
instances above. Every proof module but two states its type invariants (`TypeOK`,
`ClientTypeOK`) as theorems; in `RunnerProofs` and `WireProofs` they are part of the
inductive invariant.

- **Session** (`SessionProofs`). `Inv == TypeOK /\ Books`. `NoneDropped` is not
  inductive alone: that a submitted request is queued or outstanding while it was told
  nothing survives a step only if the queue holds no request twice, what is told is
  told once, and what is awaited belongs to the outstanding request; `Books` says all
  of it, and that a closed session holds nothing. From it: `TypeOK`,
  `AwaitingOneRequest`, `NoneDropped`, `ToldOnce`, `OnePerKey`, and the refinement
  `Spec => ServiceSpec`, where each action is matched with the step of
  `RequestService` it implements or with a stutter.

  The wire needs a second inductive invariant, `Traffic`, over both ends. `OneOnTheWire`
  and `RetransmissionRecognised` are not inductive: an acknowledgement the host reads
  changes the number of its next command, so what matters is which number every
  acknowledgement under way hands back, and what the headset has by then. `Numbering`
  says it (all of them hand back the number the headset expects, and only once it has
  the request that is awaited; with nothing awaited the two ends agree on the number;
  until the outstanding request is acknowledged they agree exactly while the headset
  lacks it), `SentOnce` that what is queued was never sent, and `ClosedChannel` that a
  closed session leaves nothing on the link for the next `connect()`. From it:
  `OneOnTheWire`, `RetransmissionRecognised`, `TakenBeforeTold` and the action property
  `FinishedStaysOff`. `Kept` adds the number of the headset's own command, by which it
  knows the acknowledgement, for `AcknowledgementKept`; `RepliesAreReplies` says what a
  reply owed or under way answers. From it, without any hypothesis, `RepliedIsSent`: a
  request is told `replied` only if the headset sent the payload type it awaits, unasked
  or to a request that awaits the same, so that one that alone awaits its type was
  answered itself (`OwnRepliesAnswered`), whatever types the others share. The Sony
  driver's reads of speak_to_chat and pause_on_removal do share one, as does a record that
  is polled while it is read, and `session_shared_reply` shows what then happens. With
  `Attempted` they bound the link (`OutboxIsBounded`): `MaxAttempts` commands, and one
  acknowledgement while nothing is lost, however long the socket takes nothing. All of
  it rests on lemmas about how many elements of a sequence are of a kind (`Tally...`,
  `Count...`), and on `Pipe`, the send buffer with the outbox behind it: a flush leaves
  it as it is.
- **PublishedState** (`PublishedStateProofs`). A reading equal to the last one publishes
  nothing, so the line stays right only if what `Device` compares with is what `State` has:
  `Synced` says they are the same while every record was answered, `Disconnected` that
  there is nothing to hear without a headset, and `RetractDue` that a refresh which began
  with a message is going to retract it. Nothing is assumed of how long a turn takes or of
  what it handles: time alone can make the panel stale only by a write given up, which
  leaves a check owed unless it is one already reported (`TickIsSeen`, `relapsed`). From
  it: `TypeOK`, `ReadingsKept`, `StaleOnlyTillCheck`, `MessageCurrent` and the action
  property `EchoChangesNothing`.
- **Election** (`ElectionProofs`). `LockHeld`: a helper in a place from winning to
  releasing holds the lock, which is why there is one owner, and why the path, which
  only an owner changes, names it while it listens. From it: `TypeOK`, `OneOwner`,
  `OwnerReachable`.
- **Equaliser** (`EqualiserProofs`). A launch forgets the chain in `self.process`, so
  `NoOrphan` needs `LaunchesAfterStop`, that there is none then, and that needs
  `StopsFirst`: in what is left of any turn a launch is preceded by a stop. From it:
  `TypeOK`, `NoOrphan`. `PutBack` says nothing of the time a chain runs; `Routed` does:
  the default is the user's choice or the sink of the helper's own chain, which runs,
  is not being stopped and whose way back is that choice. It holds because a stop comes
  only after a `route_back` (`RoutesBackFirst`), when nothing was routed since, and
  because nothing asked to stop is launched (`AskedAreAlive`). `KilledLast`, for
  `KilledWereAsked`: a chain is killed only after it was asked to stop, and never the
  one that runs.
- **Runner** (`RunnerProofs`). `Books` says where every byte written is: in the pipe or
  kept, unless the cap was met. A reader is gone only at the end of its pipe, past the
  cap or after `stop` (`LeftAtEnd`), and `stop` is the last thing set (`StopIsLast`), so
  that at that moment a reader that is gone, or had its two seconds, has all the program
  wrote. The group is doomed on every way out but the one on which no pipe of it is
  open. From it: `CompleteAnswer`, `GroupStopped`, `NoOrphanProgram`.
- **Connection** (`OwnerProofs`). `NoLeftover` and `Offered`, which is `OffersCurrent`
  while a refresh runs as well, are inductive together with the types and three facts:
  nothing is published as connected while the opening read runs (`Unannounced`), a headset
  that is read was accepted (`Accepted`), and a volunteered record with a value came, and
  what came is marked as supported (`CameAlone`), so that a reading that is no news does
  not change what the panel may offer.
- **Command** (`OwnerProofs`). `Books` pairs the places of a client with what the
  owner knows of it. `Mine`, of a client that is alone: the value it worked from is
  still the owner's, and behind its greeting no line waits but its own answer. A
  publication for somebody else ends `alone`, one for the client itself is its answer.
- **Audio** (`AudioProofs`). `Fresh`: a reading that is due or runs is for the headset
  worn, or the timer runs; and what a process printed is still so (`Agrees`: a card that is
  off and one that is gone are not told apart), or the timer runs.
  `CardFollows` alone says nothing of a process that is about to report.

- **Wire** (`WireProofs`). `RoundTrip`: every message is decoded as itself, whatever its
  type, number and payload, and whichever bytes are escaped. `Inductive` for the
  executions: what the headset has is of its features' types and is `aim`, the state has
  the features of the driver, and the buffer is in `Waiting(driver)`, the beginnings of a
  frame. `truth = aim` is not inductive without the types: an encoder writes a whole
  message, so that the settings beside the one asked for survive only if each is the
  value of a table, or in its range, and is read back from where it was written
  (`NoiseObeyed`, `CurveObeyed`, `WriteObeyed`). That the buffer is bounded rests on what
  `Split` and `Frames` return for any bytes (`SplitRun`, `FramesRun`, `CutIs`). From it:
  `WritesChangeTheirOwn` and `BufferBounded`, for every headset, value, noise, damage and
  division into chunks.

  `LastFrameGetsThrough` (`LastFramesRead`): a frame that is the last under way survives
  whatever is before it. A cut takes bytes up to a delimiter, so what is before the frame
  is cut without touching it (`CutIs`), or all is taken up to its end; then it decodes as
  itself, and its record's decoder reads what its payload says while no record before it
  takes the payload. Any number of faults and reports may precede it.

  `UndisturbedIsRead` is `GoodFramesRead` and `NothingInvented` for a Sony headset as long
  as no fault has happened, for any number of frames under way at once and any chunks.
  Neither is inductive: they say nothing of the bytes between the two ends. The invariant
  `Faithful` does: the bytes are whole frames, the first perhaps begun (`Framed`), and
  their messages lead the state, one after the other, through values the headset had, to
  what it has (`Told`, `Undisturbed`). Its one assumption, `MaxFrame >= 276`, is that a
  frame fits into the window: a payload has at most 130 bytes, and escaping doubles them
  at most. `MAX_FRAME` is 4096; the run has 24 for the shorter frames of its instance.

  What is recursive is taken apart by hand. The library's theorems of induction take an
  operator, which the provers cannot instantiate; `NatSet` states induction for a set,
  from `Least`, that a set of numbers has a least one, from the well-foundedness of the
  numbers. `Recursion` then gives the recursive function a definition names, whose steps
  are taken from a function instead of an operator, and `FoldIs` what a fold computes,
  one element at a time.

**Only model-checked:** all liveness (`RequestsFinish`, `WaitsEnd`, `WritesSettle`,
`StrangerReplaces`, `WidgetServed`, `GoneIsShutDown`, `ComesBack`, `DyingEnds`,
`Returns`, `Reconnects`, `PicksAreTried`), which needs fairness and ENABLED, beyond the
prover; and two invariants of `Wire`, `GoodFramesRead` and `NothingInvented`, where there
are faults and for Fast Pair: they hold for the noise and the damage their run lists and
not for all, as a checksum of one byte does not tell every damaged frame from a good one,
and noise may contain a whole frame.

Each inductive invariant was checked by TLC before it was proved, on the instance of the
component's run: `Traffic`, `Kept`, `RepliesAreReplies`, `Attempted` and `LinkBounded` on
that of `session` and on one with two reads, announcements and two reads a turn (3.1 and
3.8 million states; with one frame less the last bound is violated), `Routed` on
that of `equaliser` and with three chains and three commands, `KilledLast` with two
commands and two faults. `Faithful` is the exception: it asks for a sequence of messages
and one of states, more than TLC can enumerate; what TLC checks is what follows from it.

## What is not modelled, and why

- `sdp.py`: one query and a parser, no state and nothing concurrent; recorded answers
  in the repository's tests say more of it. `Model.js` and `components/`: functions
  from a line to rows, and their layout.
- The parser of `pactl`'s listing, the lookup of a trusted program and the environment
  it gets: text and file modes, each a condition on one value.
- The write half of `StreamSession`: the Fast Pair driver requests no record and has no
  control, so it is never used.
- The JSON of a line, the text of a message, the gains, presets and files of the
  equaliser, and the streams moved with the default (where PipeWire puts a stream whose
  sink goes is its own policy). In `PublishedState` one watcher stands for all.
- The kernel where it is kind: a pid used again after it was reaped, a `prctl` or a
  `Popen` that fails. Fast Pair frames have no checksum, so nothing is said of what is
  read after a fault on that link but that the buffer stays bounded.
- The development tools have no part in the running system.

## Plan

Done: all components above with state of their own. What could follow: the composition
of `Wire` with the late echo of `PublishedState`, for writes over a reading that is
stale; and the SDP parser and `Model.js` as operators against reference definitions.
