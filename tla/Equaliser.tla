------------------------------ MODULE Equaliser ------------------------------
(***************************************************************************)
(* The equaliser of one headset: the filter chains that run it, the default  *)
(* sink it takes and puts back, and the helper that tends it once a turn     *)
(* (src/headset/equaliser.py, apply_equaliser and tend_equaliser of          *)
(* server.py).                                                               *)
(*                                                                          *)
(* A turn of the helper is a list of steps, `todo`; PipeWire, the headset    *)
(* and the user act between any two.  Every chain of a headset registers a   *)
(* sink of one and the same name, "eq".                                      *)
(*                                                                          *)
(* Abstractions: no gains, a curve is a restart; the streams that move along *)
(* with the default are left out, where they go is PipeWire's policy; a      *)
(* pactl call is one step, and fails only as a fault; of the clocks, looks   *)
(* are due and graces and waits over at any time.                            *)
(***************************************************************************)
EXTENDS Naturals, Sequences, FiniteSets

CONSTANTS
  Chains,        \* processes a chain may run as
  None,          \* no process, no sink
  Rows,          \* rows of the panel a command may come from
  MaxCommands,   \* bound: commands of the user
  MaxFaults      \* bound: crashes, failures and chains that ignore SIGTERM

ASSUME EqualiserAssumption ==
  /\ None \notin Chains /\ None \notin {"speakers", "headset", "eq"}
  /\ Rows \subseteq {"eq_enabled", "eq_gains", "eq_preset_host"} /\ None \notin Rows
  /\ MaxCommands \in Nat /\ MaxFaults \in Nat

VARIABLES
  \* --- PipeWire
  headset,      \* the headset's own sink is there
  status,       \* [Chains -> {"none", "coming", "up"}]: "up" has its sink
  asked,        \* chains sent SIGTERM
  doomed,       \* chains sent SIGKILL
  deaf,         \* chains that ignore SIGTERM
  default,      \* the sink configured as the default
  chosen,       \* the sink the user chose as the default
  \* --- Equaliser
  process,      \* self.process, or None
  dying,        \* self.dying
  previous,     \* self.previous_sink, or None
  enabled,      \* self.enabled
  pending,      \* self.pending_sink is set
  saved,        \* eq_enabled in the file
  \* --- Owner
  up,           \* the helper runs
  todo,         \* the steps left of this turn
  by,           \* the row of the command that restarts the chain, or None
  restored,     \* self.restored
  missing,      \* self.sink_missing
  refused,      \* rows of the equaliser in Owner.refused
  commands, faults,
  \* --- history
  upset,        \* "world" once there was a fault or the headset went away, "own"
                \* once audio was routed into a chain asked to stop or the helper
                \* took its own chain for one left behind, "none" before
  missed        \* the last look since it was switched on found no sink

pipewire == <<headset, status, asked, doomed, deaf, default, chosen>>
equaliser == <<process, dying, previous, enabled, pending, saved>>
owner == <<up, todo, by, restored, missing, refused, commands, faults>>
history == <<upset, missed>>
vars == <<pipewire, equaliser, owner, history>>

Alive == {c \in Chains : status[c] # "none"}
\* The chains whose sink PipeWire has.
Registered == {c \in Chains : status[c] = "up"}
\* running: self.process has not ended.
Running == process \in Alive
Idle == todo = <<>>

Exists(sink) ==
  \/ sink = "speakers"
  \/ sink = "headset" /\ headset
  \/ sink = "eq" /\ Registered # {}
\* default_sink(): the configured default, or one of PipeWire's choosing.
DefaultSinks ==
  IF Exists(default) THEN {default}
  ELSE {sink \in {"speakers", "headset"} : Exists(sink)}

Fault == faults < MaxFaults /\ faults' = faults + 1 /\ upset' = "world"
NoFault == UNCHANGED <<faults, upset>>
Slip == upset' = IF upset = "none" THEN "own" ELSE upset

Init ==
  /\ headset = TRUE
  /\ status = [c \in Chains |-> "none"] /\ asked = {} /\ doomed = {} /\ deaf = {}
  /\ default \in {"speakers", "headset"} /\ chosen = default
  /\ process = None /\ dying = {} /\ previous = None
  /\ saved \in BOOLEAN /\ enabled = saved
  /\ pending = FALSE
  /\ up = TRUE /\ todo = <<>> /\ by = None /\ restored = FALSE
  /\ missing = 0 /\ refused = {}
  /\ commands = 0 /\ faults = 0
  /\ upset = "none" /\ missed = FALSE

-----------------------------------------------------------------------------
(* Equaliser: the steps a turn is made of. *)

Step(s) == up /\ todo # <<>> /\ Head(todo) = s

\* start() after its stop(), route_into() on a later step.
Restart == <<"route_back", "stop", "launch", "settle">>

\* Mutant: the default is put back whatever it is now.
PutBackNow(d) == TRUE

\* The default is still the one that was taken.
Ours(d) == d = "eq"

\* route_back(): the default that was taken is put back, if the sink it was
\* taken from is there to take it.
RouteBack ==
  /\ Step("route_back")
  /\ todo' = Tail(todo)
  /\ previous' = None
  /\ \/ /\ previous # None
        /\ \E d \in DefaultSinks :
             default' = IF Ours(d) /\ Exists(previous) THEN previous ELSE default
        /\ NoFault
     \/ previous = None /\ UNCHANGED default /\ NoFault
     \/ previous # None /\ UNCHANGED default /\ Fault
  /\ UNCHANGED <<headset, status, asked, doomed, deaf, chosen, process, dying,
                 enabled, pending, saved, up, by, restored, missing,
                 refused, commands, missed>>

\* Mutant: chains left behind are left alone.
SparesStrays == asked

\* reap_strays(): every chain of this headset is asked to stop.
Reaped == asked \cup Alive

\* stop(), after its route_back().
Stop ==
  /\ Step("stop")
  /\ todo' = Tail(todo)
  /\ dying' = IF Running THEN dying \cup {process} ELSE dying
  /\ asked' = Reaped \cup (IF Running THEN {process} ELSE {})
  /\ process' = None
  /\ pending' = FALSE
  /\ UNCHANGED <<headset, status, doomed, deaf, default, chosen, previous,
                 enabled, saved, up, by, restored, missing, refused,
                 commands, faults, history>>

\* start(): the chain runs, and the audio waits for its sink.  A process that
\* has ended gives its name to a new one: in self.dying it means nothing more.
Launch ==
  /\ Step("launch")
  /\ todo' = Tail(todo)
  /\ \E c \in Chains \ Alive :
       /\ process' = c
       /\ dying' = dying \ {c}
       /\ status' = [status EXCEPT ![c] = "coming"]
  /\ pending' = TRUE
  /\ by' = None
  /\ UNCHANGED <<headset, asked, doomed, deaf, default, chosen, previous, enabled,
                 saved, up, restored, missing, refused, commands, faults, history>>

\* start() raises.  A command refuses its row, tend_equaliser() gives up.
LaunchFails ==
  /\ Step("launch")
  /\ Fault
  /\ todo' = <<>>
  /\ IF by = None
     THEN enabled' = FALSE /\ UNCHANGED refused
     ELSE refused' = refused \cup {by} /\ UNCHANGED enabled
  /\ by' = None
  /\ UNCHANGED <<pipewire, process, dying, previous, pending, saved,
                 up, restored, missing, commands, missed>>

\* route_into(): "never remember our own sink as the thing to go back to".
WayBack(d) == IF d = "eq" THEN "headset" ELSE d

\* route_into().  A pactl call that fails takes the default it could not read, or
\* reads one it does not take.
RouteInto ==
  \/ /\ \E d \in DefaultSinks :
          previous' = IF previous = None THEN WayBack(d) ELSE previous
     /\ default' = "eq"
     /\ UNCHANGED faults
     /\ IF process \in Registered THEN UNCHANGED upset ELSE Slip
  \/ Fault /\ default' = "eq" /\ UNCHANGED previous
  \/ /\ Fault
     /\ \E d \in DefaultSinks :
          previous' = IF previous = None THEN WayBack(d) ELSE previous
     /\ UNCHANGED default

\* settle(): the audio goes into the chain once there is a sink of its name.
Settle ==
  /\ Step("settle")
  /\ todo' = Tail(todo)
  /\ \/ pending /\ Running /\ Registered # {} /\ pending' = FALSE /\ RouteInto
     \* The chain died, or its five seconds are over.
     \/ pending /\ pending' = FALSE /\ UNCHANGED <<previous, default>> /\ NoFault
     \* Nothing to do, no sink yet, or it was looked for a moment ago.
     \/ /\ ~pending \/ Running
        /\ UNCHANGED <<pending, previous, default>> /\ NoFault
  /\ UNCHANGED <<headset, status, asked, doomed, deaf, chosen, process, dying,
                 enabled, saved, up, by, restored, missing, refused, commands,
                 missed>>

\* Mutant: nothing is killed.
NobodyKilled(D) == {}

\* The chains whose grace is over are killed.
Killed(D) == D

\* bury_the_dead(): those that ended are forgotten.
Bury ==
  /\ Step("bury_the_dead")
  /\ todo' = Tail(todo)
  /\ dying' = dying \cap Alive
  /\ \E late \in SUBSET dying' : doomed' = doomed \cup Killed(late)
  /\ UNCHANGED <<headset, status, asked, deaf, default, chosen, process,
                 previous, enabled, pending, saved, up, by, restored,
                 missing, refused, commands, faults, history>>

-----------------------------------------------------------------------------
(* Owner. *)

\* handle() and apply_equaliser(): the switch, or a curve by its bands or its
\* name.  It is saved, and refused if it needs a sink that is not there.
Command(row, on) ==
  /\ up /\ Idle
  /\ commands < MaxCommands
  /\ commands' = commands + 1
  /\ row = "eq_enabled" \/ on = enabled
  /\ enabled' = on /\ saved' = on
  /\ by' = IF on /\ headset THEN row ELSE None
  /\ refused' = IF on /\ ~headset THEN {row} ELSE {}
  /\ IF on
     THEN /\ todo' = IF headset THEN Restart ELSE <<>>
          /\ UNCHANGED pending
     ELSE /\ todo' = <<"route_back", "stop">>
          /\ pending' = FALSE
  /\ missed' = (missed /\ on)
  /\ UNCHANGED <<pipewire, process, dying, previous, up, restored,
                 missing, faults, upset>>

\* tend_equaliser(), once a turn.
Tend ==
  /\ up /\ Idle
  /\ todo' = (IF restored THEN <<>> ELSE <<"reap_strays">>)
             \o <<"settle", "bury_the_dead", "look">>
  /\ UNCHANGED <<pipewire, equaliser, up, by, restored, missing, refused,
                 commands, faults, history>>

\* The first turn clears the chains a killed helper has left.
ReapStrays ==
  /\ Step("reap_strays")
  /\ todo' = Tail(todo)
  /\ restored' = TRUE
  /\ asked' = Reaped
  /\ IF Running THEN Slip ELSE UNCHANGED upset
  /\ UNCHANGED <<headset, status, doomed, deaf, default, chosen, equaliser, up,
                 by, missing, refused, commands, faults, missed>>

\* Nothing to keep up, or it is not time yet.
LookAway ==
  /\ Step("look")
  /\ todo' = <<>>
  /\ UNCHANGED <<pipewire, equaliser, up, by, restored, missing, refused,
                 commands, faults, history>>

\* Mutant: a look that finds no sink is not counted.
NotCounted(n) == n

\* self.sink_missing after a look that finds no sink.
Counted(n) == n + 1

\* The chain runs: is its headset still there?
LookAfterChain ==
  /\ Step("look")
  /\ enabled /\ Running
  /\ \/ headset /\ missing' = 0 /\ missed' = FALSE /\ todo' = <<>>
     \/ /\ ~headset
        /\ missed' = TRUE
        /\ IF Counted(missing) >= 2
           THEN missing' = 0 /\ todo' = <<"route_back", "stop">>
           ELSE missing' = Counted(missing) /\ todo' = <<>>
  /\ UNCHANGED <<pipewire, equaliser, up, by, restored, refused, commands,
                 faults, upset>>

\* Mutant: what was left on is not switched back on.
NotWorthRestoring == ~headset

\* A saved equaliser comes back with its headset.
WorthRestoring == headset

Restore ==
  /\ Step("look")
  /\ enabled /\ ~Running
  /\ WorthRestoring
  /\ saved' = enabled
  /\ todo' = Restart \o <<"clear">>
  /\ UNCHANGED <<pipewire, process, dying, previous, enabled, pending,
                 up, by, restored, missing, refused, commands, faults, history>>

\* The reason it could not start is not true any more.
Clear ==
  /\ Step("clear")
  /\ todo' = Tail(todo)
  /\ refused' = refused \ {"eq_enabled", "eq_gains"}
  /\ UNCHANGED <<pipewire, equaliser, up, by, restored, missing, commands,
                 faults, history>>

\* The helper ends its loop, and stops its chain.
Quit ==
  /\ up /\ Idle
  /\ commands < MaxCommands
  /\ commands' = commands + 1
  /\ todo' = <<"route_back", "stop", "exit">>
  /\ UNCHANGED <<pipewire, equaliser, up, by, restored, missing, refused, faults,
                 history>>

Exit ==
  /\ Step("exit")
  /\ up' = FALSE
  /\ todo' = <<>>
  /\ UNCHANGED <<pipewire, equaliser, by, restored, missing, refused, commands,
                 faults, history>>

\* The helper is killed.  Its chain goes on.
Crash ==
  /\ up
  /\ Fault
  /\ up' = FALSE
  /\ todo' = <<>>
  /\ UNCHANGED <<pipewire, equaliser, by, restored, missing, refused, commands,
                 missed>>

\* A helper starts: Equaliser() reads what was saved.
HelperStarts ==
  /\ ~up
  /\ up' = TRUE
  /\ process' = None /\ dying' = {} /\ previous' = None
  /\ enabled' = saved /\ pending' = FALSE
  /\ by' = None /\ restored' = FALSE /\ missing' = 0 /\ refused' = {}
  /\ missed' = FALSE
  /\ UNCHANGED <<pipewire, saved, todo, commands, faults, upset>>

-----------------------------------------------------------------------------
(* PipeWire, the headset, the user and the clock. *)

Registers(c) ==
  /\ status[c] = "coming"
  /\ status' = [status EXCEPT ![c] = "up"]
  /\ UNCHANGED <<headset, asked, doomed, deaf, default, chosen, equaliser, owner,
                 history>>

Forget(c) ==
  /\ status' = [status EXCEPT ![c] = "none"]
  /\ asked' = asked \ {c} /\ doomed' = doomed \ {c} /\ deaf' = deaf \ {c}
  /\ UNCHANGED <<headset, default, chosen, equaliser, up, todo, by, restored,
                 missing, refused, commands, missed>>

\* A chain that was asked to stop does, unless it ignores that.
Ends(c) ==
  /\ c \in Alive
  /\ c \in doomed \/ (c \in asked /\ c \notin deaf)
  /\ Forget(c)
  /\ NoFault

\* A chain dies by itself.
ChainCrashes(c) ==
  /\ c \in Alive
  /\ Fault
  /\ Forget(c)

IgnoresTerm(c) ==
  /\ c \in Alive \cap asked
  /\ Fault
  /\ deaf' = deaf \cup {c}
  /\ UNCHANGED <<headset, status, asked, doomed, default, chosen, equaliser, up,
                 todo, by, restored, missing, refused, commands, missed>>

\* The headset goes, or a codec change takes its sink away for a moment.
HeadsetGoes ==
  /\ headset
  /\ headset' = FALSE
  /\ upset' = "world"
  /\ UNCHANGED <<status, asked, doomed, deaf, default, chosen, equaliser, owner,
                 missed>>

HeadsetComes ==
  /\ ~headset
  /\ headset' = TRUE
  /\ UNCHANGED <<status, asked, doomed, deaf, default, chosen, equaliser, owner,
                 history>>

UserChooses(sink) ==
  /\ Exists(sink)
  /\ default' = sink /\ chosen' = sink
  /\ UNCHANGED <<headset, status, asked, doomed, deaf, equaliser, owner, history>>

-----------------------------------------------------------------------------
Turn ==
  \/ RouteBack \/ Stop \/ Launch \/ LaunchFails \/ Settle \/ Bury
  \/ ReapStrays \/ LookAway \/ LookAfterChain \/ Restore \/ Clear \/ Exit

World ==
  \/ HeadsetGoes \/ HeadsetComes
  \/ \E c \in Chains : Registers(c) \/ Ends(c) \/ ChainCrashes(c) \/ IgnoresTerm(c)
  \/ \E sink \in {"speakers", "headset"} : UserChooses(sink)

Next ==
  \/ Turn \/ Tend \/ Quit \/ Crash \/ HelperStarts \/ World
  \/ \E row \in Rows, on \in BOOLEAN : Command(row, on)

Spec == Init /\ [][Next]_vars

\* The loop turns, a look is due every two seconds, a grace ends, a process that
\* is killed or heeds SIGTERM ends, and a widget starts its helper again.
Fairness ==
  /\ WF_vars(Turn \/ Tend)
  /\ SF_vars(LookAfterChain \/ Restore)
  /\ SF_vars(Bury /\ dying' \cap Alive \subseteq doomed')
  /\ WF_vars(HelperStarts)
  /\ \A c \in Chains : WF_vars(Ends(c))

FairSpec == Spec /\ Fairness

-----------------------------------------------------------------------------
(* Properties. *)

Steps == {"route_back", "stop", "launch", "settle", "bury_the_dead", "look",
          "reap_strays", "clear", "exit"}

\* Every variable has its type.
TypeOK ==
  /\ headset \in BOOLEAN /\ status \in [Chains -> {"none", "coming", "up"}]
  /\ asked \subseteq Chains /\ doomed \subseteq Chains /\ deaf \subseteq Chains
  /\ default \in {"speakers", "headset", "eq"} /\ chosen \in {"speakers", "headset"}
  /\ process \in Chains \cup {None} /\ dying \subseteq Chains
  /\ previous \in {None, "speakers", "headset"}
  /\ enabled \in BOOLEAN /\ pending \in BOOLEAN
  /\ saved \in BOOLEAN /\ up \in BOOLEAN /\ restored \in BOOLEAN
  /\ todo \in Seq(Steps) /\ by \in Rows \cup {None} /\ refused \subseteq Rows
  /\ missing \in 0..1 /\ missed \in BOOLEAN
  /\ commands \in 0..MaxCommands /\ faults \in 0..MaxFaults
  /\ upset \in {"none", "own", "world"}

\* "Audio going through a curve nothing owns": once the first turn has cleared
\* what a killed helper left, every chain that runs is the one the helper knows
\* of or has been asked to stop, whatever command, crash or failure came between.
NoOrphan == up /\ restored => \A c \in Alive : c = process \/ c \in asked

\* "Moving the default and putting it back afterwards": with no chain, the
\* default is the one the user chose, however often he chose another one while a
\* chain ran.  It holds as long as no audio was routed into a chain asked to
\* stop, and no first turn stopped the chain a command had just started.
PutBack ==
  upset = "none" /\ up /\ Idle /\ process = None => default = chosen

\* "Once the chain has a sink to send to": audio is routed when the chain that
\* runs has registered its sink, not when the one before it still has one of the
\* same name.
RoutedIntoItsChain ==
  [][previous = None /\ previous' # None => process \in Registered]_vars

\* "Twice in a row, though, never once": a look stops a chain only if the one
\* before it, since the equaliser was switched on, had found no sink either.
StoppedOnSecondLook ==
  [][LookAfterChain /\ todo' # <<>> => missed]_vars

\* "A message that outlives the thing it described is the fault this whole map
\* exists to avoid": once the equaliser was switched back on, none of its rows
\* says that it cannot run.
RefusalsRetracted == [][Clear => refused' = {}]_vars

\* A chain whose headset has gone is shut down: silence has a way back.
GoneIsShutDown == Running /\ ~headset ~> ~Running \/ headset

\* An equaliser left on runs again in the end, if its headset stays.
ComesBack ==
  enabled /\ headset /\ ~Running ~> ~enabled \/ ~headset \/ Running

\* A chain asked to stop ends, even one that ignores SIGTERM, if the helper that
\* ran it lives.
DyingEnds == \A c \in Chains : c \in dying /\ up ~> c \notin Alive \/ ~up
=============================================================================
