------------------------------- MODULE Audio --------------------------------
(***************************************************************************)
(* The audio profile of the headset (BarWidget.qml: refreshAudio,          *)
(* switchProfile, audioProcess, audioSettle; audio.cmd_audio).  One        *)
(* process at a time reads the card or switches its profile, for seconds;  *)
(* meanwhile the headset may change, PipeWire may switch by itself, and    *)
(* the user may pick something else.                                       *)
(***************************************************************************)
EXTENDS Naturals

CONSTANTS
    Headsets,   \* addresses
    Profiles,   \* profiles their cards have
    Off,        \* OFF: the one without a sink or a source
    None,       \* no headset, no profile, or no card
    MaxChanges, \* bound: changes of the headset, of a card, pactl calls failing
    MaxPicks    \* bound: profiles picked by the user

ASSUME AudioAssumption ==
    None \notin Headsets /\ None \notin Profiles /\ Off \in Profiles

VARIABLES
    headset,    \* headsetAddress
    job,        \* audioProcess, with audioFor
    queued,     \* audioQueued
    settle,     \* audioSettle runs
    card,       \* audioCard: whose it is, and its active profile
    active,     \* [Headsets -> the active profile of its card]: PipeWire
    asked,      \* [Headsets -> a profile set and not yet taken up]: PipeWire
    unmet,      \* history: the last pick for this headset, until it is tried
    blind,      \* history: the last reading that was due failed or was skipped
    changes, picks  \* what happened so far, for the bounds

widget == <<headset, job, queued, settle, card>>
pipewire == <<active, asked>>
history == <<unmet, blind>>
bounds == <<changes, picks>>
vars == <<widget, pipewire, history, bounds>>

NoCard == [of |-> None, active |-> None]
NoOutput == [of |-> None, active |-> "nothing"]
Idle == [profile |-> None, for |-> None, step |-> "idle", out |-> NoOutput]

\* audioSwitching is whether the process has a profile to switch to.
Started(h, p) == [profile |-> p, for |-> h, step |-> "started", out |-> NoOutput]

Init ==
    /\ headset = None /\ job = Idle /\ queued = None /\ settle = FALSE
    /\ card = NoCard
    /\ active \in [Headsets -> Profiles \cup {None}]
    /\ asked = [h \in Headsets |-> None]
    /\ unmet = None /\ blind = FALSE
    /\ changes = 0 /\ picks = 0

Change == changes < MaxChanges /\ changes' = changes + 1 /\ UNCHANGED picks

Steps == {"started", "waiting", "over"}
Cards == [of : Headsets \cup {None}, active : Profiles \cup {None}]
Jobs == [profile : Profiles \cup {None}, for : Headsets, step : Steps,
         out : Cards \cup {NoOutput}]

TypeOK ==
    /\ headset \in Headsets \cup {None} /\ queued \in Profiles \cup {None}
    /\ job = Idle \/ job \in Jobs
    /\ settle \in BOOLEAN /\ card \in Cards
    /\ active \in [Headsets -> Profiles \cup {None}]
    /\ asked \in [Headsets -> Profiles \cup {None}]
    /\ unmet \in Profiles \cup {None} /\ blind \in BOOLEAN
    /\ changes \in Nat /\ picks \in Nat

----------------------------------------------------------------------------
(* PipeWire *)

Silent == {None, Off}

\* The sinks and sources of the headset, as audioShape sees them: they are torn
\* down and built anew with every switch, and there are none without a card or
\* with its profile off.
Shape(h) == IF h = None \/ active[h] \in Silent THEN <<>> ELSE <<h, active[h]>>

\* Mutant: a switch made elsewhere restarts no timer.
ShapeIgnored(h) == settle

\* onAudioShapeChanged
ShapeChanged(h) == settle \/ (h = headset /\ Shape(h)' # Shape(h))

TakesUp(h, p) ==
    /\ p # active[h]
    /\ active' = [active EXCEPT ![h] = p]
    /\ settle' = ShapeChanged(h)
    /\ UNCHANGED <<headset, job, queued, card, history>>

\* A call, another program, a card that comes or goes.
Switches(h, p) == Change /\ TakesUp(h, p) /\ UNCHANGED asked

\* What was set takes effect later, or not at all.
Obeys(h) ==
    /\ asked[h] # None /\ active[h] # None
    /\ TakesUp(h, asked[h])
    /\ asked' = [asked EXCEPT ![h] = None]
    /\ UNCHANGED bounds

----------------------------------------------------------------------------
(* The helper: headsetctl audio --address ADDRESS [PROFILE] *)

Reading(h) == [of |-> h, active |-> active[h]]

Goes(step, out) ==
    /\ job' = [profile |-> job.profile, for |-> job.for, step |-> step, out |-> out]
    /\ UNCHANGED <<headset, queued, settle, card, unmet>>

\* summary()
ReadsCard ==
    /\ job.step = "started" /\ job.profile = None
    /\ Goes("over", Reading(job.for))
    /\ UNCHANGED <<pipewire, blind, bounds>>

\* set_profile, if there is a card
SetsProfile ==
    /\ job.step = "started" /\ job.profile # None /\ active[job.for] # None
    /\ asked' = [asked EXCEPT ![job.for] =
                    IF job.profile = active[job.for] THEN None ELSE job.profile]
    /\ Goes("waiting", NoOutput)
    /\ UNCHANGED <<active, blind, bounds>>

\* wait_for_profile: until it is the one, or for six seconds.  Whichever it is
\* by then is printed.
Waited ==
    /\ job.step = "waiting"
    /\ Goes("over", Reading(job.for))
    /\ UNCHANGED <<pipewire, blind, bounds>>

\* There is no card to switch.
HasNoCard ==
    /\ job.step = "started" /\ job.profile # None /\ active[job.for] = None
    /\ Goes("over", NoOutput) /\ blind' = TRUE
    /\ UNCHANGED <<pipewire, bounds>>

\* pactl fails, or takes so long that audioDeadline stops the helper.
FailsOrIsStopped ==
    /\ job.step \in {"started", "waiting"} /\ Change
    /\ Goes("over", NoOutput) /\ blind' = TRUE
    /\ UNCHANGED pipewire

----------------------------------------------------------------------------
(* The widget *)

\* onStreamFinished: a reading belongs to the headset it was asked about.
Taken == IF job.out = NoOutput \/ job.for # headset THEN card ELSE job.out

Launch(p) ==
    /\ job' = Started(headset, p)
    /\ blind' = FALSE
    /\ unmet' = IF p = unmet THEN None ELSE unmet

\* onExited: what was picked meanwhile is tried next.
Ends ==
    /\ job.step = "over"
    /\ card' = Taken
    /\ queued' = None
    /\ IF queued # None /\ headset # None
       THEN Launch(queued) /\ UNCHANGED settle
       ELSE /\ job' = Idle
            /\ settle' = (settle \/ (queued = None /\ job.profile # None))
            /\ UNCHANGED history
    /\ UNCHANGED <<headset, pipewire, bounds>>

\* refreshAudio: nothing is read while the process runs.
RefreshAudio(h) ==
    IF h # None /\ job = Idle
    THEN job' = Started(h, None) /\ blind' = FALSE
    ELSE job' = job /\ blind' = (blind \/ h # None)

\* audioSettle
Settles ==
    /\ settle /\ settle' = FALSE
    /\ RefreshAudio(headset)
    /\ UNCHANGED <<headset, queued, card, unmet, pipewire, bounds>>

\* The panel is opened.
Opens ==
    /\ headset # None /\ job = Idle
    /\ RefreshAudio(headset)
    /\ UNCHANGED <<headset, queued, settle, card, unmet, pipewire, bounds>>

\* onHeadsetAddressChanged, onAudioShapeChanged
HeadsetChanges(h) ==
    /\ h # headset /\ Change
    /\ headset' = h
    /\ settle' = (settle \/ (h # None /\ Shape(h) # Shape(headset)))
    /\ card' = NoCard
    /\ RefreshAudio(h)
    /\ unmet' = None
    /\ UNCHANGED <<queued, pipewire>>

\* What the panel offers of a card: not to turn it off.
Pick(p) ==
    /\ headset # None /\ card.active # None /\ p # Off
    /\ picks < MaxPicks /\ picks' = picks + 1
    /\ UNCHANGED <<headset, settle, card, pipewire, changes>>

\* Mutant: `running = true` is assigned to a process that runs already.
DropsPick(p) ==
    /\ Pick(p) /\ job # Idle
    /\ unmet' = p
    /\ UNCHANGED <<job, queued, blind>>

\* switchProfile, while the process runs and while it does not
QueuesPick(p) ==
    /\ Pick(p) /\ job # Idle
    /\ queued' = p /\ unmet' = p
    /\ UNCHANGED <<job, blind>>

TriesPick(p) ==
    /\ Pick(p) /\ job = Idle
    /\ job' = Started(headset, p) /\ blind' = FALSE /\ unmet' = None
    /\ UNCHANGED queued

Helper == ReadsCard \/ SetsProfile \/ Waited \/ HasNoCard

Next ==
    \/ \E h \in Headsets : Obeys(h) \/ \E p \in Profiles \cup {None} : Switches(h, p)
    \/ Helper \/ FailsOrIsStopped \/ Ends \/ Settles \/ Opens
    \/ \E h \in Headsets \cup {None} : HeadsetChanges(h)
    \/ \E p \in Profiles : QueuesPick(p) \/ TriesPick(p)

Spec == Init /\ [][Next]_vars

\* A helper that does not end is stopped after twenty seconds.
FairSpec == Spec /\ WF_vars(Helper \/ Ends)

----------------------------------------------------------------------------
(* Properties *)

\* A card that is gone and one that is off are told apart by a reading only.
Agrees(c) == c = Reading(headset) \/ {c.active, active[headset]} \subseteq Silent

AtRest == headset # None /\ job = Idle /\ ~settle /\ ~blind

\* When nothing runs and no timer does, the panel shows the card of this headset
\* with the profile it has now, whoever switched it and whichever headset was
\* being read before (BarWidget.qml:72, 562), unless the reading that was due
\* failed, or was skipped because another one was running.  No node comes or goes
\* between a card that is gone and one that is off.
CardFollows == AtRest => Agrees(card)

\* So it does without that exception.
CardExact == AtRest => card = Reading(headset) \/ (card = NoCard /\ active[headset] = None)

\* The last profile picked while the process ran is tried once it ended, unless
\* the headset changed (BarWidget.qml:90).
PicksAreTried == \A p \in Profiles : unmet = p ~> unmet # p
=============================================================================
