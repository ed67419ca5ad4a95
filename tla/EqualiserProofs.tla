--------------------------- MODULE EqualiserProofs ---------------------------
(***************************************************************************)
(* The equaliser's chains, for any number of them, of commands and faults:  *)
(* every variable has its type, no chain runs that the helper neither knows  *)
(* of nor has asked to stop, and the default sink is put back.               *)
(*                                                                          *)
(* NoOrphan is not inductive: a launch replaces self.process, and would      *)
(* orphan the chain it replaces had the turn not stopped that one first.     *)
(* LaunchesAfterStop says that it has, because (StopsFirst) no turn comes to *)
(* a launch but by a stop.                                                   *)
(*                                                                          *)
(* PutBack is not inductive either: route_back() restores what self.previous *)
(* remembers, and only if the default is a sink that exists.  Routed says    *)
(* that while nothing went wrong a default of "eq" is the sink of the        *)
(* helper's own chain, which nobody has asked to stop, and that previous is  *)
(* then what the user chose; and (RoutesBackFirst) that a stop comes only    *)
(* after a route_back, so that no chain is stopped under the audio.          *)
(***************************************************************************)
EXTENDS Equaliser, SequenceTheorems, TLAPS

\* A launch is preceded by a stop in what is left of a turn, unless it is next.
StopsFirst ==
  \A i \in 2..Len(todo) : todo[i] = "launch" => todo[i - 1] = "stop"

LaunchesAfterStop == Step("launch") => process = None

Inv == TypeOK /\ StopsFirst /\ LaunchesAfterStop /\ NoOrphan

\* The turns that a command, a tick or a restore begin.
Plans ==
  {<<>>, Restart, Restart \o <<"clear">>, <<"route_back", "stop">>,
   <<"route_back", "stop", "exit">>,
   <<>> \o <<"settle", "bury_the_dead", "look">>,
   <<"reap_strays">> \o <<"settle", "bury_the_dead", "look">>}

\* What may be left of a turn: a plan begun, or a step done.
Turned == todo' \in Plans \/ (todo # <<>> /\ todo' = Tail(todo)) \/ todo' = todo

\* The turns consist of steps.
LEMMA PlansAreTyped == Plans \subseteq Seq(Steps)
<1>1. Restart \in Seq(Steps)
  BY DEF Restart, Steps
<1>2. <<"clear">> \in Seq(Steps) /\ <<"reap_strays">> \in Seq(Steps)
  BY DEF Steps
<1>3. <<"settle", "bury_the_dead", "look">> \in Seq(Steps)
  BY DEF Steps
<1>4. <<"route_back", "stop">> \in Seq(Steps)
  BY DEF Steps
<1>5. <<"route_back", "stop", "exit">> \in Seq(Steps)
  BY DEF Steps
<1>6. <<>> \in Seq(Steps)
  OBVIOUS
<1> QED BY <1>1, <1>2, <1>3, <1>4, <1>5, <1>6, ConcatProperties DEF Plans

\* In the turns that are begun, a launch follows a stop.
LEMMA PlansStopFirst ==
  ASSUME NEW plan \in Plans
  PROVE  /\ \A i \in 2..Len(plan) : plan[i] = "launch" => plan[i - 1] = "stop"
         /\ plan # <<>> => Head(plan) # "launch"
  BY DEF Plans, Restart

\* Only a stop takes a turn to its launch.
LEMMA TurnedStopsFirst ==
  ASSUME todo \in Seq(Steps), StopsFirst, Turned
  PROVE  /\ todo' \in Seq(Steps) /\ StopsFirst'
         /\ todo' # <<>> /\ Head(todo') = "launch" =>
              todo' = todo \/ (todo # <<>> /\ Head(todo) = "stop")
<1>1. CASE todo' \in Plans
  BY <1>1, PlansAreTyped, PlansStopFirst DEF StopsFirst
<1>2. CASE todo # <<>> /\ todo' = Tail(todo)
  BY <1>2 DEF StopsFirst
<1>3. CASE todo' = todo
  BY <1>3 DEF StopsFirst
<1> QED BY <1>1, <1>2, <1>3 DEF Turned

-----------------------------------------------------------------------------
\* Every step begins a turn, does a step of it or leaves it.
LEMMA TurnedStep == ASSUME [Next]_vars PROVE Turned
<1> USE DEF Turned, Plans
<1>1. CASE UNCHANGED vars
  BY <1>1 DEF vars, owner
<1>2. CASE Turn
  BY <1>2 DEF Turn, RouteBack, Stop, Launch, LaunchFails, Settle, Bury, ReapStrays,
    LookAway, LookAfterChain, Restore, Clear, Exit, Step
<1>3. CASE Tend \/ Quit \/ Crash \/ HelperStarts
  BY <1>3 DEF Tend, Quit, Crash, HelperStarts
<1>4. CASE World
  BY <1>4 DEF World, HeadsetGoes, HeadsetComes, Registers, Ends, ChainCrashes,
    IgnoresTerm, Forget, UserChooses, owner
<1>5. ASSUME NEW row \in Rows, NEW on \in BOOLEAN, Command(row, on) PROVE Turned
  BY <1>5 DEF Command
<1> QED BY <1>1, <1>2, <1>3, <1>4, <1>5 DEF Next

\* What a fault does to the count of them.
LEMMA FaultType ==
  ASSUME TypeOK, Fault \/ NoFault
  PROVE  faults' \in 0..MaxFaults /\ upset' \in {"none", "own", "world"}
  BY EqualiserAssumption DEF Fault, NoFault, TypeOK

\* The default is always one of the three sinks.
LEMMA DefaultType ==
  ASSUME TypeOK PROVE DefaultSinks \subseteq {"speakers", "headset", "eq"}
  BY DEF DefaultSinks, TypeOK

\* The Boolean variables and the others, but for the turn.
Flags ==
  /\ headset \in BOOLEAN /\ enabled \in BOOLEAN /\ pending \in BOOLEAN
  /\ saved \in BOOLEAN /\ up \in BOOLEAN /\ restored \in BOOLEAN
  /\ missed \in BOOLEAN

Data ==
  /\ status \in [Chains -> {"none", "coming", "up"}]
  /\ asked \subseteq Chains /\ doomed \subseteq Chains /\ deaf \subseteq Chains
  /\ default \in {"speakers", "headset", "eq"} /\ chosen \in {"speakers", "headset"}
  /\ process \in Chains \cup {None} /\ dying \subseteq Chains
  /\ previous \in {None, "speakers", "headset"}
  /\ by \in Rows \cup {None} /\ refused \subseteq Rows
  /\ missing \in 0..1
  /\ commands \in 0..MaxCommands /\ faults \in 0..MaxFaults
  /\ upset \in {"none", "own", "world"}

\* Every step keeps the types of the Boolean variables,
LEMMA FlagsStep == ASSUME Flags, [Next]_vars PROVE Flags'
<1> USE DEF Flags, pipewire, equaliser, owner, history
<1>1. CASE UNCHANGED vars
  BY <1>1 DEF vars
<1>2. CASE RouteBack \/ Stop \/ Bury
  BY <1>2 DEF RouteBack, Stop, Bury
<1>3. CASE Launch \/ LaunchFails
  BY <1>3 DEF Launch, LaunchFails
<1>4. CASE Settle
  BY <1>4 DEF Settle
<1>5. CASE ReapStrays \/ LookAway \/ LookAfterChain
  BY <1>5 DEF ReapStrays, LookAway, LookAfterChain
<1>6. CASE Restore \/ Clear \/ Exit
  BY <1>6, Zenon DEF Restore, Clear, Exit
<1>7. CASE Tend \/ Quit \/ Crash
  BY <1>7 DEF Tend, Quit, Crash
<1>8. CASE HelperStarts
  BY <1>8, Zenon DEF HelperStarts
<1>9. CASE World
  <2>1. CASE HeadsetGoes \/ HeadsetComes
    BY <2>1, Zenon DEF HeadsetGoes, HeadsetComes
  <2>2. ASSUME NEW c \in Chains,
               Registers(c) \/ Ends(c) \/ ChainCrashes(c) \/ IgnoresTerm(c)
        PROVE Flags'
    BY <2>2 DEF Registers, Ends, ChainCrashes, IgnoresTerm, Forget
  <2>3. ASSUME NEW sink \in {"speakers", "headset"}, UserChooses(sink) PROVE Flags'
    BY <2>3 DEF UserChooses
  <2> QED BY <1>9, <2>1, <2>2, <2>3 DEF World
<1>10. ASSUME NEW row \in Rows, NEW on \in BOOLEAN, Command(row, on) PROVE Flags'
  <2>1. enabled' \in BOOLEAN /\ saved' \in BOOLEAN /\ up' \in BOOLEAN
        /\ restored' \in BOOLEAN /\ headset' \in BOOLEAN
    BY <1>10, Zenon DEF Command
  <2>2. pending' \in BOOLEAN /\ missed' \in BOOLEAN
    BY <1>10, Zenon DEF Command
  <2> QED BY <2>1, <2>2
<1> QED BY <1>1, <1>2, <1>3, <1>4, <1>5, <1>6, <1>7, <1>8, <1>9, <1>10 DEF Next, Turn

\* and those of the others.
LEMMA DataStep == ASSUME TypeOK, [Next]_vars PROVE Data'
<1> USE DEF TypeOK, Data, pipewire, equaliser, owner, history
<1> USE EqualiserAssumption
<1>1. CASE UNCHANGED vars
  BY <1>1 DEF vars
<1>2. CASE Turn
  <2>1. CASE RouteBack
    BY <2>1, FaultType, DefaultType DEF RouteBack
  <2>2. CASE Stop
    BY <2>2 DEF Stop, Reaped, Alive, Running
  <2>3. CASE Launch
    BY <2>3 DEF Launch, Alive
  <2>4. CASE LaunchFails
    BY <2>4, FaultType DEF LaunchFails
  <2>5. CASE Settle
    <3>1. /\ previous' \in {None, "speakers", "headset"}
          /\ default' \in {"speakers", "headset", "eq"}
      BY <2>5, DefaultType DEF Settle, RouteInto, WayBack, NoFault
    <3>2. faults' \in 0..MaxFaults /\ upset' \in {"none", "own", "world"}
      BY <2>5, FaultType DEF Settle, RouteInto, Slip, NoFault
    <3> QED BY <2>5, <3>1, <3>2 DEF Settle
  <2>6. CASE Bury
    BY <2>6 DEF Bury, Killed, Alive
  <2>7. CASE ReapStrays
    BY <2>7 DEF ReapStrays, Reaped, Alive, Slip
  <2>8. CASE LookAway \/ Restore \/ Clear \/ Exit
    BY <2>8 DEF LookAway, Restore, Clear, Exit
  <2>9. CASE LookAfterChain
    BY <2>9 DEF LookAfterChain, Counted
  <2> QED BY <1>2, <2>1, <2>2, <2>3, <2>4, <2>5, <2>6, <2>7, <2>8, <2>9 DEF Turn
<1>3. CASE Tend \/ Quit \/ HelperStarts
  <2>1. CASE Tend
    BY <2>1 DEF Tend
  <2>2. CASE Quit
    BY <2>2 DEF Quit
  <2>3. CASE HelperStarts
    <3>1. missing' \in 0..1 /\ UNCHANGED <<pipewire, commands, faults, upset>>
      BY <2>3 DEF HelperStarts
    <3>2. /\ process' \in Chains \cup {None} /\ dying' \subseteq Chains
          /\ previous' \in {None, "speakers", "headset"}
          /\ by' \in Rows \cup {None} /\ refused' \subseteq Rows
      BY <2>3 DEF HelperStarts
    <3> QED BY <3>1, <3>2
  <2> QED BY <1>3, <2>1, <2>2, <2>3
<1>4. CASE Crash
  BY <1>4, FaultType DEF Crash
<1>5. CASE World
  <2>1. CASE HeadsetGoes \/ HeadsetComes
    BY <2>1 DEF HeadsetGoes, HeadsetComes
  <2>2. ASSUME NEW c \in Chains, Registers(c) PROVE Data'
    BY <2>2 DEF Registers
  <2>3. ASSUME NEW c \in Chains, Ends(c) \/ ChainCrashes(c) PROVE Data'
    BY <2>3, FaultType DEF Ends, ChainCrashes, Forget
  <2>4. ASSUME NEW c \in Chains, IgnoresTerm(c) PROVE Data'
    BY <2>4, FaultType DEF IgnoresTerm
  <2>5. ASSUME NEW sink \in {"speakers", "headset"}, UserChooses(sink) PROVE Data'
    BY <2>5 DEF UserChooses
  <2> QED BY <1>5, <2>1, <2>2, <2>3, <2>4, <2>5 DEF World
<1>6. ASSUME NEW row \in Rows, NEW on \in BOOLEAN, Command(row, on) PROVE Data'
  BY <1>6 DEF Command
<1> QED BY <1>1, <1>2, <1>3, <1>4, <1>5, <1>6 DEF Next

\* A stop leaves no process, and until the launch nothing makes one.
LEMMA LaunchStep == ASSUME Inv, [Next]_vars PROVE LaunchesAfterStop'
<1> SUFFICES ASSUME Step("launch")' PROVE process' = None
  BY DEF LaunchesAfterStop
<1>1. \/ todo' = todo /\ todo # <<>> /\ Head(todo) = "launch"
      \/ todo # <<>> /\ Head(todo) = "stop"
  BY TurnedStep, TurnedStopsFirst DEF Inv, TypeOK, Step
<1>2. CASE HelperStarts
  BY <1>2 DEF HelperStarts
<1>3. CASE UNCHANGED vars
  BY <1>3 DEF vars, owner, equaliser, Inv, LaunchesAfterStop, Step
<1>4. CASE Turn
  <2>1. CASE Stop
    BY <2>1 DEF Stop
  <2>2. CASE Launch
    <3>1. Head(todo) = "launch" /\ todo' = Tail(todo)
      BY <2>2 DEF Launch, Step
    <3>2. todo' # todo
      BY <3>1, <1>1 DEF Inv, TypeOK
    <3> QED BY <1>1, <3>1, <3>2
  <2>3. ASSUME Turn, ~Stop, ~Launch
        PROVE (Head(todo) # "stop" /\ UNCHANGED <<process, up>>) \/ ~up'
    BY <2>3 DEF Turn, RouteBack, LaunchFails, Settle, Bury, ReapStrays, LookAway,
      LookAfterChain, Restore, Clear, Exit, Step, equaliser
  <2> QED BY <1>1, <1>4, <2>1, <2>2, <2>3 DEF Inv, LaunchesAfterStop, Step
<1>5. CASE Tend \/ Quit \/ Crash
  BY <1>1, <1>5 DEF Tend, Quit, Crash, Idle, Step
<1>6. CASE World
  BY <1>1, <1>6 DEF World, HeadsetGoes, HeadsetComes, Registers, Ends, ChainCrashes,
    IgnoresTerm, Forget, UserChooses, owner, equaliser, Inv, LaunchesAfterStop, Step
<1>7. ASSUME NEW row \in Rows, NEW on \in BOOLEAN, Command(row, on)
      PROVE process' = None
  BY <1>1, <1>7 DEF Command, Idle
<1> QED BY <1>2, <1>3, <1>4, <1>5, <1>6, <1>7 DEF Next

\* Every step leaves each chain known or asked to stop.
LEMMA OrphanStep == ASSUME Inv, [Next]_vars PROVE NoOrphan'
<1> USE DEF Inv, NoOrphan, Alive, pipewire, equaliser, owner
<1>1. CASE UNCHANGED vars
  BY <1>1 DEF vars
<1>2. CASE Turn
  <2>1. CASE Stop
    BY <2>1 DEF Stop, Reaped, Running, TypeOK
  <2>2. CASE Launch
    <3>1. process = None /\ up' = up /\ restored' = restored /\ asked' = asked
      BY <2>2 DEF Launch, LaunchesAfterStop
    <3>2. PICK c \in Chains \ Alive :
            process' = c /\ status' = [status EXCEPT ![c] = "coming"]
      BY <2>2 DEF Launch
    <3>3. Alive' = Alive \cup {c}
      BY <3>2 DEF TypeOK
    <3> QED BY <3>1, <3>2, <3>3, EqualiserAssumption
  <2>3. CASE ReapStrays
    BY <2>3 DEF ReapStrays, Reaped
  <2>4. CASE RouteBack \/ LaunchFails \/ Settle \/ Bury
    BY <2>4 DEF RouteBack, LaunchFails, Settle, Bury
  <2>5. CASE LookAway \/ LookAfterChain \/ Restore \/ Clear \/ Exit
    BY <2>5 DEF LookAway, LookAfterChain, Restore, Clear, Exit
  <2> QED BY <1>2, <2>1, <2>2, <2>3, <2>4, <2>5 DEF Turn
<1>3. CASE Tend \/ Quit \/ Crash \/ HelperStarts
  BY <1>3 DEF Tend, Quit, Crash, HelperStarts
<1>4. CASE World
  <2>1. CASE HeadsetGoes \/ HeadsetComes
    BY <2>1 DEF HeadsetGoes, HeadsetComes
  <2>2. ASSUME NEW c \in Chains, Registers(c) PROVE NoOrphan'
    BY <2>2 DEF Registers, TypeOK
  <2>3. ASSUME NEW c \in Chains, Ends(c) \/ ChainCrashes(c) PROVE NoOrphan'
    BY <2>3 DEF Ends, ChainCrashes, Forget, TypeOK
  <2>4. ASSUME NEW c \in Chains, IgnoresTerm(c) PROVE NoOrphan'
    BY <2>4 DEF IgnoresTerm
  <2>5. ASSUME NEW sink \in {"speakers", "headset"}, UserChooses(sink) PROVE NoOrphan'
    BY <2>5 DEF UserChooses
  <2> QED BY <1>4, <2>1, <2>2, <2>3, <2>4, <2>5 DEF World
<1>5. ASSUME NEW row \in Rows, NEW on \in BOOLEAN, Command(row, on) PROVE NoOrphan'
  BY <1>5 DEF Command
<1> QED BY <1>1, <1>2, <1>3, <1>4, <1>5 DEF Next

-----------------------------------------------------------------------------
\* The inductive invariant holds of every reachable state.
THEOREM Invariance == Spec => []Inv
<1>1. Init => Inv
  <2> SUFFICES ASSUME Init PROVE Inv
    OBVIOUS
  <2>1. TypeOK
    <3>1. Flags
      BY Zenon DEF Init, Flags
    <3>2. Data /\ todo \in Seq(Steps)
      BY EqualiserAssumption DEF Init, Data
    <3> QED BY <3>1, <3>2 DEF Flags, Data, TypeOK
  <2>2. StopsFirst /\ LaunchesAfterStop
    BY DEF Init, StopsFirst, LaunchesAfterStop, Step
  <2>3. NoOrphan
    BY DEF Init, NoOrphan, Alive
  <2> QED BY <2>1, <2>2, <2>3 DEF Inv
<1>2. Inv /\ [Next]_vars => Inv'
  <2> SUFFICES ASSUME Inv, [Next]_vars PROVE Inv'
    OBVIOUS
  <2>1. Flags' /\ Data'
    BY FlagsStep, DataStep DEF Inv, TypeOK, Flags
  <2>2. todo' \in Seq(Steps) /\ StopsFirst'
    BY TurnedStep, TurnedStopsFirst DEF Inv, TypeOK
  <2>3. TypeOK'
    BY <2>1, <2>2 DEF Flags, Data, TypeOK
  <2> QED BY <2>2, <2>3, LaunchStep, OrphanStep DEF Inv
<1> QED BY <1>1, <1>2, PTL DEF Spec

\* Every variable keeps its type.
THEOREM TypeCorrect == Spec => []TypeOK
<1>1. Inv => TypeOK
  BY DEF Inv
<1> QED BY <1>1, Invariance, PTL

\* stop(), reap_strays() and start() leave no chain that nothing owns: once the
\* first turn is over, each is the helper's own or has been asked to stop.
THEOREM NoChainOrphaned == Spec => []NoOrphan
<1>1. Inv => NoOrphan
  BY DEF Inv
<1> QED BY <1>1, Invariance, PTL

-----------------------------------------------------------------------------
(* The default sink. *)

\* Each stop comes after the default was put back, and each exit after a stop.
RoutesBackFirst ==
  \A i \in 2..Len(todo) : /\ todo[i] = "stop" => todo[i - 1] = "route_back"
                          /\ todo[i] = "exit" => todo[i - 1] = "stop"

\* What is asked to stop or killed runs.
AskedAreAlive == asked \cup doomed \subseteq Alive

\* The chain the helper runs is one that nobody stops.
ChainKept ==
  /\ headset
  /\ process \notin asked \cup doomed \cup dying
  /\ ~up \/ Step("exit") => process = None

\* The default is the one the user chose, or it is the sink of the helper's own
\* chain, and then route_back() knows the way.
WayBackKnown ==
  /\ pending \/ Step("stop") \/ Step("launch") => previous = None
  /\ default = "eq" => process \in Registered /\ previous = chosen
  /\ default # "eq" => default = chosen

\* Both while nothing went wrong.
Routed == upset = "none" => ChainKept /\ WayBackKnown

\* In the turns that are begun, a stop follows a route_back, an exit a stop.
LEMMA PlansRouteBackFirst ==
  ASSUME NEW plan \in Plans
  PROVE  /\ \A i \in 2..Len(plan) : /\ plan[i] = "stop" => plan[i - 1] = "route_back"
                                    /\ plan[i] = "exit" => plan[i - 1] = "stop"
         /\ plan # <<>> => Head(plan) \notin {"stop", "exit"}
<1>1. \A i \in 2..Len(plan) : plan[i] = "stop" => plan[i - 1] = "route_back"
  <2>1. CASE plan = Restart
    BY <2>1 DEF Restart
  <2>2. CASE plan = Restart \o <<"clear">>
    BY <2>2 DEF Restart
  <2>3. CASE plan \in {<<"route_back", "stop">>, <<"route_back", "stop", "exit">>}
    BY <2>3
  <2>4. CASE plan \in {<<>>, <<>> \o <<"settle", "bury_the_dead", "look">>,
                       <<"reap_strays">> \o <<"settle", "bury_the_dead", "look">>}
    BY <2>4
  <2> QED BY <2>1, <2>2, <2>3, <2>4 DEF Plans
<1>2. \A i \in 2..Len(plan) : plan[i] = "exit" => plan[i - 1] = "stop"
  BY DEF Plans, Restart
<1>3. plan # <<>> => Head(plan) \notin {"stop", "exit"}
  BY DEF Plans, Restart
<1> QED BY <1>1, <1>2, <1>3

\* Only a route_back takes a turn to its stop, and only a stop to its exit.
LEMMA TurnedRoutesBackFirst ==
  ASSUME todo \in Seq(Steps), RoutesBackFirst, Turned
  PROVE  /\ RoutesBackFirst'
         /\ todo' # <<>> /\ Head(todo') = "stop" =>
              todo' = todo \/ (todo # <<>> /\ Head(todo) = "route_back")
         /\ todo' # <<>> /\ Head(todo') = "exit" =>
              todo' = todo \/ (todo # <<>> /\ Head(todo) = "stop")
<1>1. CASE todo' \in Plans
  BY <1>1, PlansRouteBackFirst DEF RoutesBackFirst
<1>2. CASE todo # <<>> /\ todo' = Tail(todo)
  BY <1>2 DEF RoutesBackFirst
<1>3. CASE todo' = todo
  BY <1>3 DEF RoutesBackFirst
<1> QED BY <1>1, <1>2, <1>3 DEF Turned

\* A chain that is asked to stop, or killed, runs until it ends.
LEMMA AskedStep == ASSUME TypeOK, AskedAreAlive, [Next]_vars PROVE AskedAreAlive'
<1> USE DEF AskedAreAlive, Alive, pipewire
<1>1. CASE UNCHANGED vars
  BY <1>1 DEF vars
<1>2. CASE Stop \/ ReapStrays
  BY <1>2 DEF Stop, ReapStrays, Reaped, Running
<1>3. CASE Launch
  BY <1>3 DEF Launch, TypeOK
<1>4. CASE Bury
  BY <1>4 DEF Bury, Killed
<1>5. CASE RouteBack \/ LaunchFails \/ Settle \/ LookAway \/ LookAfterChain
  BY <1>5 DEF RouteBack, LaunchFails, Settle, LookAway, LookAfterChain
<1>6. CASE Restore \/ Clear \/ Exit \/ Tend \/ Quit \/ Crash \/ HelperStarts
  BY <1>6 DEF Restore, Clear, Exit, Tend, Quit, Crash, HelperStarts
<1>7. CASE World
  <2>1. CASE HeadsetGoes \/ HeadsetComes
    BY <2>1 DEF HeadsetGoes, HeadsetComes
  <2>2. ASSUME NEW c \in Chains, Registers(c) \/ IgnoresTerm(c) PROVE AskedAreAlive'
    BY <2>2 DEF Registers, IgnoresTerm, TypeOK
  <2>3. ASSUME NEW c \in Chains, Ends(c) \/ ChainCrashes(c) PROVE AskedAreAlive'
    BY <2>3 DEF Ends, ChainCrashes, Forget, TypeOK
  <2>4. ASSUME NEW sink \in {"speakers", "headset"}, UserChooses(sink)
        PROVE AskedAreAlive'
    BY <2>4 DEF UserChooses
  <2> QED BY <1>7, <2>1, <2>2, <2>3, <2>4 DEF World
<1>8. ASSUME NEW row \in Rows, NEW on \in BOOLEAN, Command(row, on)
      PROVE AskedAreAlive'
  BY <1>8 DEF Command
<1> QED BY <1>1, <1>2, <1>3, <1>4, <1>5, <1>6, <1>7, <1>8 DEF Next, Turn

\* What went wrong stays so.
LEMMA UpsetStays == ASSUME TypeOK, [Next]_vars, upset' = "none" PROVE upset = "none"
<1> USE DEF Fault, NoFault, Slip, history
<1>1. CASE UNCHANGED vars
  BY <1>1 DEF vars
<1>2. CASE Turn
  BY <1>2 DEF Turn, RouteBack, Stop, Launch, LaunchFails, Settle, RouteInto, Bury,
    ReapStrays, LookAway, LookAfterChain, Restore, Clear, Exit
<1>3. CASE Tend \/ Quit \/ Crash \/ HelperStarts
  BY <1>3 DEF Tend, Quit, Crash, HelperStarts
<1>4. CASE World
  BY <1>4 DEF World, HeadsetGoes, HeadsetComes, Registers, Ends, ChainCrashes,
    IgnoresTerm, UserChooses
<1>5. ASSUME NEW row \in Rows, NEW on \in BOOLEAN, Command(row, on)
      PROVE upset = "none"
  BY <1>5 DEF Command
<1> QED BY <1>1, <1>2, <1>3, <1>4, <1>5 DEF Next

\* route_back() puts back the default if it is ours, and it finds it ours.
LEMMA PutBackStep ==
  ASSUME Inv, Routed, RouteBack, upset' = "none"
  PROVE  default' = chosen /\ previous' = None /\ UNCHANGED <<headset, chosen>>
<1>1. upset = "none" /\ headset
  BY UpsetStays DEF Inv, Next, Turn, Routed, ChainKept
<1>2. /\ UNCHANGED <<headset, chosen>> /\ previous' = None
      /\ \/ previous # None /\ \E d \in DefaultSinks :
              default' = IF Ours(d) /\ Exists(previous) THEN previous ELSE default
         \/ previous = None /\ UNCHANGED default
  BY DEF RouteBack, Fault
<1>3. previous \in {None, "speakers", "headset"} /\ chosen \in {"speakers", "headset"}
  BY DEF Inv, TypeOK
<1>4. CASE default = "eq"
  <2>1. process \in Registered /\ previous = chosen
    BY <1>1, <1>4 DEF Routed, WayBackKnown
  <2>2. DefaultSinks = {"eq"} /\ Exists(previous)
    BY <1>1, <1>3, <1>4, <2>1 DEF DefaultSinks, Exists
  <2>3. previous # None
    BY <1>3, <2>1, EqualiserAssumption
  <2> QED BY <1>2, <2>1, <2>2, <2>3 DEF Ours
<1>5. CASE default # "eq"
  <2>1. default = chosen
    BY <1>1, <1>5 DEF Routed, WayBackKnown
  <2>2. DefaultSinks = {default}
    BY <1>1, <1>3, <2>1 DEF DefaultSinks, Exists
  <2> QED BY <1>2, <1>5, <2>1, <2>2 DEF Ours
<1> QED BY <1>4, <1>5, <1>2

\* Audio is routed only by a helper that knows no way back yet, from the sink
\* the user chose.
LEMMA RouteIntoStep ==
  ASSUME Inv, Routed, Settle, upset' = "none"
  PROVE  \/ UNCHANGED <<previous, default>>
         \/ default' = "eq" /\ previous' = chosen /\ process \in Registered
<1>1. upset = "none" /\ headset
  BY UpsetStays DEF Inv, Next, Turn, Routed, ChainKept
<1>2. \/ UNCHANGED <<previous, default>>
      \/ pending /\ RouteInto
  BY DEF Settle
<1>3. CASE pending /\ RouteInto
  <2>1. previous = None /\ default = chosen
    <3>1. previous = None
      BY <1>1, <1>3 DEF Routed, WayBackKnown
    <3>2. chosen # None
      BY EqualiserAssumption DEF Inv, TypeOK
    <3> QED BY <1>1, <3>1, <3>2 DEF Routed, WayBackKnown
  <2>2. DefaultSinks = {chosen} /\ chosen # "eq"
    BY <1>1, <2>1 DEF DefaultSinks, Exists, Inv, TypeOK
  <2>3. /\ \E d \in DefaultSinks :
              previous' = IF previous = None THEN WayBack(d) ELSE previous
        /\ default' = "eq"
        /\ IF process \in Registered THEN UNCHANGED upset ELSE Slip
    BY <1>3 DEF RouteInto, Fault
  <2>4. process \in Registered
    BY <1>1, <2>3 DEF Slip
  <2> QED BY <2>1, <2>2, <2>3, <2>4 DEF WayBack
<1> QED BY <1>2, <1>3

-----------------------------------------------------------------------------
\* A step changes where a turn stands.
LEMMA TurnStands ==
  ASSUME Inv, RoutesBackFirst, [Next]_vars
  PROVE  /\ Step("stop")' => (Step("stop") /\ todo' = todo) \/ Step("route_back") \/ ~up
         /\ Step("exit")' => (Step("exit") /\ todo' = todo) \/ Step("stop") \/ ~up
         /\ Step("launch")' => (Step("launch") /\ todo' = todo) \/ Step("stop") \/ ~up
<1>1. /\ todo' # <<>> /\ Head(todo') = "stop" =>
              todo' = todo \/ (todo # <<>> /\ Head(todo) = "route_back")
      /\ todo' # <<>> /\ Head(todo') = "exit" =>
              todo' = todo \/ (todo # <<>> /\ Head(todo) = "stop")
  BY TurnedStep, TurnedRoutesBackFirst DEF Inv, TypeOK
<1>2. todo' # <<>> /\ Head(todo') = "launch" =>
              todo' = todo \/ (todo # <<>> /\ Head(todo) = "stop")
  BY TurnedStep, TurnedStopsFirst DEF Inv, TypeOK
<1>3. up \in BOOLEAN
  BY DEF Inv, TypeOK
<1> QED BY <1>1, <1>2, <1>3 DEF Step

\* A step that leaves the audio alone, and is none that leads to a stop, a launch
\* or an exit.
LEMMA RoutedStays ==
  ASSUME Inv, RoutesBackFirst, ChainKept, WayBackKnown, [Next]_vars,
         UNCHANGED <<headset, status, default, chosen, process, previous, up>>,
         pending' \in {pending, FALSE},
         process \notin asked' \cup doomed' \cup dying',
         todo' = todo \/ ~(Step("route_back") \/ Step("stop"))
  PROVE  ChainKept' /\ WayBackKnown'
<1>1. /\ Step("stop")' => Step("stop")
      /\ Step("launch")' => Step("launch")
      /\ Step("exit")' => Step("exit")
  BY TurnStands DEF Step
<1>2. ChainKept'
  BY <1>1 DEF ChainKept
<1>3. Registered' = Registered
  BY DEF Registered
<1>4. pending' => pending
  BY DEF Inv, TypeOK
<1>5. WayBackKnown'
  BY <1>1, <1>3, <1>4 DEF WayBackKnown
<1> QED BY <1>2, <1>5

\* The steps of a turn that route, stop or launch.
LEMMA RoutedAct ==
  ASSUME Inv, RoutesBackFirst, AskedAreAlive, Routed, upset' = "none",
         RouteBack \/ Stop \/ Launch \/ Settle
  PROVE  ChainKept' /\ WayBackKnown'
<1> USE DEF Step
<1>0. [Next]_vars
  BY DEF Next, Turn
<1>1. upset = "none" /\ TypeOK
  BY <1>0, UpsetStays DEF Inv
<1>2. ChainKept /\ WayBackKnown
  BY <1>1 DEF Routed
<1>3. None \notin Chains /\ None \notin {"speakers", "headset"} /\ chosen # None
  BY <1>1, EqualiserAssumption DEF TypeOK
<1>4. /\ Step("stop")' => todo' = todo \/ Step("route_back")
      /\ Step("exit")' => todo' = todo \/ Step("stop")
      /\ Step("launch")' => todo' = todo \/ Step("stop")
  <2>1. up
    BY DEF RouteBack, Stop, Launch, Settle
  <2> QED BY <1>0, <2>1, TurnStands
<1>5. todo' = Tail(todo) /\ todo # <<>> /\ todo' # todo
  <2>1. todo' = Tail(todo) /\ todo # <<>>
    BY DEF RouteBack, Stop, Launch, Settle
  <2> QED BY <1>1, <2>1 DEF TypeOK
<1>6. CASE RouteBack
  <2>1. /\ default' = chosen /\ previous' = None /\ UNCHANGED <<headset, chosen>>
        /\ UNCHANGED <<status, asked, doomed, process, dying, up>>
    BY <1>0, <1>1, <1>6, PutBackStep DEF RouteBack
  <2>2. up /\ Head(todo) = "route_back"
    BY <1>6 DEF RouteBack
  <2>3. ~Step("exit")' /\ ~Step("launch")'
    BY <1>4, <1>5, <2>2
  <2>4. ChainKept'
    BY <1>2, <2>1, <2>2, <2>3 DEF ChainKept
  <2>5. default' # "eq"
    BY <1>1, <2>1 DEF TypeOK
  <2> QED BY <2>1, <2>4, <2>5 DEF WayBackKnown
<1>7. CASE Stop
  <2>1. /\ process' = None /\ pending' = FALSE
        /\ UNCHANGED <<headset, doomed, default, chosen, previous, up>>
    BY <1>7 DEF Stop
  <2>2. up /\ previous = None
    BY <1>2, <1>7 DEF Stop, WayBackKnown
  <2>3. default # "eq" /\ default = chosen
    BY <1>2, <1>3, <2>2 DEF WayBackKnown
  <2>4. None \notin asked' \cup doomed' \cup dying'
    BY <1>1, <1>3, <1>7 DEF Stop, Reaped, Alive, Running, TypeOK
  <2>5. ChainKept'
    BY <1>2, <2>1, <2>4 DEF ChainKept
  <2> QED BY <2>1, <2>2, <2>3, <2>5 DEF WayBackKnown
<1>8. CASE Launch
  <2>1. /\ UNCHANGED <<headset, asked, doomed, default, chosen, previous, up>>
        /\ \E c \in Chains \ Alive : process' = c /\ dying' = dying \ {c}
    BY <1>8 DEF Launch
  <2>2. up /\ previous = None
    BY <1>2, <1>8 DEF Launch, WayBackKnown
  <2>3. default # "eq" /\ default = chosen
    BY <1>2, <1>3, <2>2 DEF WayBackKnown
  <2>4. process' \notin asked' \cup doomed' \cup dying'
    BY <2>1 DEF AskedAreAlive
  <2>5. ~Step("exit")'
    BY <1>4, <1>5, <1>8 DEF Launch
  <2>6. ChainKept'
    BY <1>2, <2>1, <2>2, <2>4, <2>5 DEF ChainKept
  <2> QED BY <2>1, <2>2, <2>3, <2>6 DEF WayBackKnown
<1>9. CASE Settle
  <2>1. /\ UNCHANGED <<headset, status, asked, doomed, dying, chosen, process, up>>
        /\ up /\ Head(todo) = "settle"
    BY <1>9 DEF Settle
  <2>2. ~Step("stop")' /\ ~Step("launch")' /\ ~Step("exit")'
    BY <1>4, <1>5, <2>1
  <2>3. ChainKept'
    BY <1>2, <2>1, <2>2 DEF ChainKept
  <2>4. Registered' = Registered
    BY <2>1 DEF Registered
  <2>5. pending' = FALSE \/ UNCHANGED <<pending, previous, default>>
    BY <1>9 DEF Settle
  <2>6. CASE UNCHANGED <<pending, previous, default>>
    BY <1>2, <2>1, <2>2, <2>3, <2>4, <2>6 DEF WayBackKnown
  <2>7. CASE pending' = FALSE /\ UNCHANGED <<previous, default>>
    BY <1>2, <2>1, <2>2, <2>3, <2>4, <2>7 DEF WayBackKnown
  <2>8. CASE /\ pending' = FALSE
             /\ default' = "eq" /\ previous' = chosen /\ process \in Registered
    BY <2>1, <2>2, <2>3, <2>4, <2>8 DEF WayBackKnown
  <2> QED BY <1>9, <2>5, <2>6, <2>7, <2>8, RouteIntoStep
<1> QED BY <1>6, <1>7, <1>8, <1>9

\* What PipeWire, the headset and the user do.
LEMMA RoutedWorld ==
  ASSUME Inv, RoutesBackFirst, Routed, upset' = "none", World
  PROVE  ChainKept' /\ WayBackKnown'
<1>0. [Next]_vars
  BY DEF Next
<1>1. upset = "none" /\ TypeOK
  BY <1>0, UpsetStays DEF Inv
<1>2. ChainKept /\ WayBackKnown
  BY <1>1 DEF Routed
<1>3. UNCHANGED <<process, dying, previous, pending, up, todo>>
  BY DEF World, HeadsetGoes, HeadsetComes, Registers, Ends, ChainCrashes, IgnoresTerm,
    Forget, UserChooses, equaliser, owner
<1>4. Step("stop")' = Step("stop") /\ Step("launch")' = Step("launch")
      /\ Step("exit")' = Step("exit")
  BY <1>3 DEF Step
<1>5. ~HeadsetGoes /\ ~HeadsetComes
  BY <1>2 DEF HeadsetGoes, HeadsetComes, ChainKept
<1>6. \A c \in Chains : ~ChainCrashes(c) /\ ~IgnoresTerm(c)
  BY DEF ChainCrashes, IgnoresTerm, Fault
<1>7. ASSUME NEW c \in Chains, Registers(c) \/ Ends(c)
      PROVE  ChainKept' /\ WayBackKnown'
  <2>1. /\ UNCHANGED <<headset, default, chosen>>
        /\ asked' \subseteq asked /\ doomed' \subseteq doomed
    BY <1>7 DEF Registers, Ends, Forget
  <2>2. process \in Registered => process \in Registered'
    <3>1. CASE Registers(c)
      BY <1>1, <3>1 DEF Registers, Registered, TypeOK
    <3>2. CASE Ends(c)
      <4>1. process # c
        BY <1>2, <3>2 DEF Ends, ChainKept
      <4> QED BY <1>1, <3>2, <4>1 DEF Ends, Forget, Registered, TypeOK
    <3> QED BY <1>7, <3>1, <3>2
  <2>3. ChainKept'
    BY <1>2, <1>3, <1>4, <2>1 DEF ChainKept
  <2> QED BY <1>2, <1>3, <1>4, <2>1, <2>2, <2>3 DEF WayBackKnown
<1>8. ASSUME NEW sink \in {"speakers", "headset"}, UserChooses(sink)
      PROVE  ChainKept' /\ WayBackKnown'
  <2>1. /\ UNCHANGED <<headset, asked, doomed>>
        /\ default' = chosen' /\ default' # "eq"
    BY <1>8 DEF UserChooses
  <2>2. ChainKept'
    BY <1>2, <1>3, <1>4, <2>1 DEF ChainKept
  <2> QED BY <1>2, <1>3, <1>4, <2>1, <2>2 DEF WayBackKnown
<1> QED BY <1>5, <1>6, <1>7, <1>8 DEF World

\* Every step keeps the default where it belongs.
LEMMA RoutedStep ==
  ASSUME Inv, RoutesBackFirst, AskedAreAlive, Routed, [Next]_vars
  PROVE  Routed'
<1> SUFFICES ASSUME upset' = "none" PROVE ChainKept' /\ WayBackKnown'
  BY DEF Routed
<1>1. upset = "none" /\ TypeOK
  BY UpsetStays DEF Inv
<1>2. ChainKept /\ WayBackKnown
  BY <1>1 DEF Routed
<1> USE DEF pipewire, equaliser, owner
<1>3. CASE UNCHANGED vars
  <2>1. UNCHANGED <<pipewire, equaliser, up, todo>>
    BY <1>3 DEF vars
  <2> QED BY <1>2, <2>1, RoutedStays DEF ChainKept
<1>4. CASE RouteBack \/ Stop \/ Launch \/ Settle
  BY <1>4, RoutedAct
<1>5. ~LaunchFails /\ ~Crash
  BY DEF LaunchFails, Crash, Fault
<1>6. CASE Bury
  <2>1. /\ UNCHANGED <<headset, status, asked, default, chosen, process, previous,
                       pending, up>>
        /\ dying' \subseteq dying /\ doomed' \subseteq doomed \cup dying'
        /\ Head(todo) = "bury_the_dead"
    BY <1>6 DEF Bury, Killed, Step
  <2>2. process \notin asked' \cup doomed' \cup dying'
    BY <1>2, <2>1 DEF ChainKept
  <2> QED BY <1>2, <2>1, <2>2, RoutedStays DEF Step
<1>7. CASE ReapStrays
  <2>1. /\ UNCHANGED <<headset, status, doomed, default, chosen, process, dying,
                       previous, pending, up>>
        /\ asked' = asked \cup Alive /\ Head(todo) = "reap_strays"
    BY <1>7 DEF ReapStrays, Reaped, Step
  <2>2. ~Running
    BY <1>1, <1>7 DEF ReapStrays, Slip
  <2>3. process \notin asked' \cup doomed' \cup dying'
    BY <1>2, <2>1, <2>2 DEF ChainKept, Running
  <2> QED BY <1>2, <2>1, <2>3, RoutedStays DEF Step
<1>8. CASE LookAway \/ LookAfterChain \/ Restore \/ Clear
  <2>1. /\ UNCHANGED <<pipewire, process, dying, previous, pending, up>>
        /\ Head(todo) \in {"look", "clear"}
    BY <1>8 DEF LookAway, LookAfterChain, Restore, Clear, Step
  <2> QED BY <1>2, <2>1, RoutedStays DEF ChainKept, Step
<1>9. CASE Tend \/ Quit
  <2>1. UNCHANGED <<pipewire, equaliser, up>> /\ todo = <<>>
    BY <1>9 DEF Tend, Quit, Idle
  <2> QED BY <1>2, <2>1, RoutedStays DEF ChainKept, Step
<1>10. ASSUME NEW row \in Rows, NEW on \in BOOLEAN, Command(row, on)
       PROVE ChainKept' /\ WayBackKnown'
  <2>1. /\ UNCHANGED <<pipewire, process, dying, previous, up>> /\ todo = <<>>
        /\ pending' \in {pending, FALSE}
    BY <1>10 DEF Command, Idle
  <2> QED BY <1>2, <2>1, RoutedStays DEF ChainKept, Step
<1>11. CASE Exit
  <2>1. UNCHANGED <<pipewire, equaliser>> /\ process = None /\ todo' = <<>>
    BY <1>2, <1>11 DEF Exit, ChainKept
  <2>2. Registered' = Registered
    BY <2>1 DEF Registered
  <2> QED BY <1>2, <2>1, <2>2 DEF ChainKept, WayBackKnown, Step
<1>12. CASE HelperStarts
  <2>1. /\ UNCHANGED pipewire /\ process = None
        /\ process' = None /\ dying' = {} /\ previous' = None /\ pending' = FALSE
    BY <1>2, <1>12 DEF HelperStarts, ChainKept
  <2>2. None \notin Chains
    BY EqualiserAssumption
  <2>3. default # "eq"
    BY <1>2, <2>1, <2>2 DEF WayBackKnown, Registered
  <2>4. process' \notin asked' \cup doomed' \cup dying'
    BY <1>1, <2>1, <2>2 DEF TypeOK
  <2> QED BY <1>2, <2>1, <2>3, <2>4 DEF ChainKept, WayBackKnown
<1>13. CASE World
  BY <1>13, RoutedWorld
<1> QED BY <1>3, <1>4, <1>5, <1>6, <1>7, <1>8, <1>9, <1>10, <1>11, <1>12, <1>13
        DEF Next, Turn

-----------------------------------------------------------------------------
\* The default is the one the user chose or the sink of a chain that is the helper's
\* own, runs and is not being stopped, and of which route_back() knows the way back.
THEOREM DefaultIsBorrowed == Spec => []Routed
<1> DEFINE J == RoutesBackFirst /\ AskedAreAlive /\ Routed
<1>1. Init => J
  <2> SUFFICES ASSUME Init PROVE J
    OBVIOUS
  <2>1. RoutesBackFirst /\ AskedAreAlive
    BY DEF Init, RoutesBackFirst, AskedAreAlive
  <2>2. ChainKept /\ WayBackKnown
    BY DEF Init, ChainKept, WayBackKnown, Step
  <2> QED BY <2>1, <2>2 DEF Routed
<1>2. Inv /\ J /\ [Next]_vars => J'
  <2> SUFFICES ASSUME Inv, J, [Next]_vars PROVE J'
    OBVIOUS
  <2>1. RoutesBackFirst'
    BY TurnedStep, TurnedRoutesBackFirst DEF Inv, TypeOK
  <2> QED BY <2>1, AskedStep, RoutedStep DEF Inv
<1>3. J => Routed
  OBVIOUS
<1> HIDE DEF J
<1> QED BY <1>1, <1>2, <1>3, Invariance, PTL DEF Spec

\* route_into() and route_back() give back what they took: with no chain the
\* default is the one the user chose, whatever he chose and switched while chains
\* came and went.
THEOREM DefaultPutBack == Spec => []PutBack
<1>1. Routed => PutBack
  BY EqualiserAssumption DEF Routed, WayBackKnown, Registered, PutBack
<1> QED BY <1>1, DefaultIsBorrowed, PTL

-----------------------------------------------------------------------------
(* Who is killed. *)

\* A chain that is to be killed, now or when its grace is over, was asked to stop,
\* and is not the one the helper runs.
KilledLast ==
  /\ (dying \cap Alive) \cup doomed \subseteq asked
  /\ process \notin dying \cup doomed

\* Every step keeps it: a launch takes no process that is dying, and what ended is
\* not asked any more.
LEMMA KilledStep ==
  ASSUME TypeOK, AskedAreAlive, KilledLast, [Next]_vars PROVE KilledLast'
<1> USE DEF KilledLast, AskedAreAlive, Alive, pipewire, equaliser
<1>1. CASE UNCHANGED vars
  BY <1>1 DEF vars
<1>2. CASE Stop
  <2>1. None \notin Chains /\ dying \subseteq Chains /\ doomed \subseteq Chains
    BY EqualiserAssumption DEF TypeOK
  <2> QED BY <1>2, <2>1 DEF Stop, Reaped, Running
<1>3. CASE Launch
  <2>1. PICK c \in Chains \ Alive :
          /\ process' = c /\ dying' = dying \ {c}
          /\ status' = [status EXCEPT ![c] = "coming"]
    BY <1>3 DEF Launch
  <2>2. Alive' = Alive \cup {c} /\ UNCHANGED <<asked, doomed>>
    BY <1>3, <2>1 DEF Launch, TypeOK
  <2> HIDE DEF Alive
  <2> QED BY <2>1, <2>2
<1>4. CASE Bury
  BY <1>4 DEF Bury, Killed
<1>5. CASE ReapStrays
  BY <1>5 DEF ReapStrays, Reaped
<1>6. CASE RouteBack \/ LaunchFails \/ Settle \/ LookAway \/ LookAfterChain
  BY <1>6 DEF RouteBack, LaunchFails, Settle, LookAway, LookAfterChain
<1>7. CASE Restore \/ Clear \/ Exit \/ Tend \/ Quit \/ Crash
  BY <1>7 DEF Restore, Clear, Exit, Tend, Quit, Crash
<1>8. CASE HelperStarts
  <2>1. None \notin Chains /\ doomed \subseteq Chains
    BY EqualiserAssumption DEF TypeOK
  <2> QED BY <1>8, <2>1 DEF HelperStarts
<1>9. CASE World
  <2>1. CASE HeadsetGoes \/ HeadsetComes
    BY <2>1 DEF HeadsetGoes, HeadsetComes
  <2>2. ASSUME NEW c \in Chains, Registers(c) \/ IgnoresTerm(c) PROVE KilledLast'
    BY <2>2 DEF Registers, IgnoresTerm, TypeOK
  <2>3. ASSUME NEW c \in Chains, Ends(c) \/ ChainCrashes(c) PROVE KilledLast'
    BY <2>3 DEF Ends, ChainCrashes, Forget, TypeOK
  <2>4. ASSUME NEW sink \in {"speakers", "headset"}, UserChooses(sink) PROVE KilledLast'
    BY <2>4 DEF UserChooses
  <2> QED BY <1>9, <2>1, <2>2, <2>3, <2>4 DEF World
<1>10. ASSUME NEW row \in Rows, NEW on \in BOOLEAN, Command(row, on) PROVE KilledLast'
  BY <1>10 DEF Command
<1> QED BY <1>1, <1>2, <1>3, <1>4, <1>5, <1>6, <1>7, <1>8, <1>9, <1>10 DEF Next, Turn

\* bury_the_dead() kills only what stop() asked to stop before, and never the
\* chain that runs now, though an ended one may have left its place in self.dying.
THEOREM KilledWereAsked == Spec => [](doomed \subseteq asked /\ process \notin doomed)
<1>1. Init => AskedAreAlive /\ KilledLast
  BY EqualiserAssumption DEF Init, AskedAreAlive, KilledLast
<1>2. TypeOK /\ AskedAreAlive /\ KilledLast /\ [Next]_vars
        => AskedAreAlive' /\ KilledLast'
  BY AskedStep, KilledStep
<1>3. KilledLast => doomed \subseteq asked /\ process \notin doomed
  BY DEF KilledLast
<1> QED BY <1>1, <1>2, <1>3, TypeCorrect, PTL DEF Spec
=============================================================================
