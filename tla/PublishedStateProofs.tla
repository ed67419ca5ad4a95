------------------------ MODULE PublishedStateProofs ------------------------
(***************************************************************************)
(* What the panel shows is never older than the next check, for any set of   *)
(* settings, any values and any number of writes and readings.               *)
(*                                                                          *)
(* A reading that changes nothing on screen is not published, so that the     *)
(* line stays right only because it was right before: StaleOnlyTillCheck is   *)
(* inductive together with what Device and State remember of the last reading *)
(* (ReadingsKept, Synced) and with a disconnected headset saying nothing.  No *)
(* turn is assumed to be short: what a long one can do is relapsed.           *)
(***************************************************************************)
EXTENDS PublishedState, TLAPS

\* The line on the panel has values, or writes given up, that are not those of
\* now.
Behind == shown.value # Snapshot(values, pending) \/ shown.ignored # Ignored(pending)

\* As long as every refresh was answered, Device and State have read the same.
Synced == connected /\ ~silenced => last = values

\* Nothing is read from a headset that is not connected, and Device is gone.
Disconnected == ~connected => Free /\ readings = <<>> /\ last = NoEntry

\* A refresh that began with a message on the panel is going to retract it.
RetractDue == ~greeted /\ ~Free => stale \/ shown.message = message

Inv ==
  /\ TypeOK /\ ReadingsKept /\ StaleOnlyTillCheck /\ MessageCurrent
  /\ Synced /\ Disconnected /\ RetractDue

-----------------------------------------------------------------------------
(* The operators of State. *)

\* A line has the type of `shown`.
LEMMA LineType ==
  ASSUME NEW v \in [Features -> OrNone(Values)],
         NEW p \in [Features -> OrNone(Entries)],
         NEW s \in SUBSET Features, NEW c \in BOOLEAN,
         NEW m \in SUBSET {"error", "refused"}
  PROVE  Line(v, p, s, c, m) \in Lines
<1>1. Snapshot(v, p) \in [Features -> OrNone(Values)]
  BY DEF Snapshot, OrNone, Entries, GivenUp
<1> QED BY <1>1 DEF Line, Lines, Unconfirmed, Ignored

\* What is published has it.
LEMMA PublishType ==
  ASSUME Publish,
         values' \in [Features -> OrNone(Values)],
         pending' \in [Features -> OrNone(Entries)],
         support' \in SUBSET Features, connected' \in BOOLEAN,
         message' \in SUBSET {"error", "refused"}
  PROVE  shown' \in Lines
<1>1. Line(values', pending', support', connected', message') \in Lines
  BY LineType
<1> QED BY <1>1 DEF Publish

\* Publishing brings the panel up to date.
LEMMA PublishCatchesUp ==
  ASSUME Publish
  PROVE  ~Behind' /\ shown'.message = message'
  BY DEF Publish, Behind, Line

\* An entry is not None, and neither is one made from it.
LEMMA EntryNotNone ==
  ASSUME NEW e \in Entries
  PROVE  e # None
  BY PublishedStateAssumption DEF Entries

\* expect(): the entry has its type and remembers the last reading, and the
\* others are as before.
LEMMA ExpectKeeps ==
  ASSUME TypeOK, ReadingsKept, NEW f \in Features, NEW v \in Values, Expect(f, v)
  PROVE  /\ pending' \in [Features -> OrNone(Entries)]
         /\ \A g \in Features : pending'[g] # None => pending'[g].was = values[g]
         /\ \A g \in Features \ {f} : pending'[g] = pending[g]
         /\ pending[f] # None => pending'[f] # None
<1>1. CASE pending[f] # None
  <2>1. pending[f] \in Entries
    BY <1>1 DEF TypeOK, OrNone
  <2> DEFINE e == [value |-> v, was |-> pending[f].was, age |-> 0]
  <2>2. e \in Entries /\ e.was = pending[f].was
    BY <2>1, PublishedStateAssumption DEF Entries
  <2>3. pending' = [pending EXCEPT ![f] = e]
    BY <1>1 DEF Expect, TypeOK
  <2> HIDE DEF e
  <2> QED BY <1>1, <2>2, <2>3, EntryNotNone DEF TypeOK, OrNone, ReadingsKept
<1>2. CASE pending[f] = None
  <2> DEFINE e == [value |-> v, was |-> values[f], age |-> 0]
  <2>1. e \in Entries /\ e.was = values[f]
    BY PublishedStateAssumption DEF Entries, TypeOK, OrNone
  <2>2. pending' = [pending EXCEPT ![f] = IF values[f] = v THEN None ELSE e]
    BY <1>2 DEF Expect, TypeOK
  <2> HIDE DEF e
  <2> QED BY <1>2, <2>1, <2>2, EntryNotNone DEF TypeOK, OrNone, ReadingsKept
<1> QED BY <1>1, <1>2

\* What Device and State do with a reading, as far as the invariants go: types
\* and memory are kept, and a line that was right stays so, whether or not one
\* is published.
LEMMA AbsorbKeeps ==
  ASSUME TypeOK, ReadingsKept, NEW f \in Features, NEW v \in Values,
         Absorb(f, v), support' = support, connected' = connected,
         message' = message
  PROVE  /\ last' \in [Features -> OrNone(Values)]
         /\ values' \in [Features -> OrNone(Values)]
         /\ pending' \in [Features -> OrNone(Entries)]
         /\ shown' \in Lines
         /\ ReadingsKept'
         /\ last = values => last' = values'
         /\ \A g \in Features : pending'[g] \in {None, pending[g]}
         /\ \A g \in Features : GivenUp(pending[g]) =>
                                  pending'[g] \in {None, pending[g]}
         /\ last = values =>
              \/ ~Behind'
              \/ /\ Snapshot(values', pending') = Snapshot(values, pending)
                 /\ Ignored(pending') = Ignored(pending)
                 /\ shown' = shown
         /\ shown' = shown \/ shown'.message = message'
<1>1. CASE last[f] = v
  <2>1. UNCHANGED <<last, state, shown>>
    BY <1>1 DEF Absorb
  <2> QED BY <2>1 DEF state, TypeOK, ReadingsKept
<1>2. CASE last[f] # v
  <2>1. /\ last' = [last EXCEPT ![f] = v]
        /\ values' = [values EXCEPT ![f] = v]
        /\ pending' = [pending EXCEPT
                         ![f] = IF Echoed(pending[f], v) THEN pending[f] ELSE None]
        /\ IF ScreenChanged(f, v) THEN Publish ELSE UNCHANGED shown
    BY <1>2 DEF Absorb, TypeOK
  <2>2. /\ last' \in [Features -> OrNone(Values)]
        /\ values' \in [Features -> OrNone(Values)]
        /\ pending' \in [Features -> OrNone(Entries)]
        /\ \A g \in Features : pending'[g] \in {None, pending[g]}
    BY <2>1 DEF TypeOK, OrNone
  <2>3. shown' \in Lines
    <3>1. CASE Publish
      <4>1. support' \in SUBSET Features /\ message' \in SUBSET {"error", "refused"}
        BY DEF TypeOK
      <4>2. connected' \in BOOLEAN
        BY DEF TypeOK
      <4> QED BY <3>1, <2>2, <4>1, <4>2, PublishType
    <3>2. CASE UNCHANGED shown
      BY <3>2 DEF TypeOK
    <3> QED BY <2>1, <3>1, <3>2
  <2>4. ReadingsKept'
    BY <2>1 DEF ReadingsKept, Echoed, TypeOK
  <2>5. last = values => last' = values'
    BY <2>1
  <2>6. shown' = shown \/ shown'.message = message'
    BY <2>1, PublishCatchesUp
  <2>7. ASSUME last = values
        PROVE \/ ~Behind'
              \/ /\ Snapshot(values', pending') = Snapshot(values, pending)
                 /\ Ignored(pending') = Ignored(pending)
                 /\ shown' = shown
    <3>1. CASE ScreenChanged(f, v)
      BY <3>1, <2>1, PublishCatchesUp
    <3>2. CASE ~ScreenChanged(f, v)
      <4>1. Snapshot(values, pending)[f] = Snapshot(values', pending')[f]
        BY <3>2 DEF ScreenChanged
      <4>2. pending[f] # None /\ ~GivenUp(pending[f])
        BY <4>1, <2>7, <1>2, <2>1 DEF Snapshot, Echoed, TypeOK
      <4>3. pending[f].was # v
        BY <4>2, <2>7, <1>2 DEF ReadingsKept
      <4>4. pending' = [pending EXCEPT ![f] = None]
        BY <2>1, <4>3 DEF Echoed
      <4>5. \A g \in Features :
              Snapshot(values, pending)[g] = Snapshot(values', pending')[g]
        BY <4>1, <2>1, <4>4 DEF Snapshot, TypeOK
      <4>6. Snapshot(values', pending') = Snapshot(values, pending)
        BY <4>5 DEF Snapshot
      <4>7. Ignored(pending') = Ignored(pending)
        BY <4>2, <4>4 DEF Ignored, GivenUp, TypeOK
      <4> QED BY <4>6, <4>7, <3>2, <2>1
    <3> QED BY <3>1, <3>2
  <2> QED BY <2>2, <2>3, <2>4, <2>5, <2>6, <2>7
<1> QED BY <1>1, <1>2

-----------------------------------------------------------------------------
\* The initial states have the invariant.
LEMMA InitInv == ASSUME Init PROVE Inv
<1>1. /\ values \in [Features -> OrNone(Values)]
      /\ pending \in [Features -> OrNone(Entries)]
      /\ \A f \in Features : values[f] = None /\ pending[f] = None
  BY DEF Init, NoEntry, OrNone
<1>2. shown \in Lines
  BY <1>1, LineType DEF Init
<1>3. ~Behind /\ shown.message = message /\ Ignored(pending) = {}
  BY <1>1 DEF Init, Behind, Line, Ignored, GivenUp
<1>4. TypeOK
  <2>1. /\ flying \in [Features -> OrNone(Values)]
        /\ last \in [Features -> OrNone(Values)]
        /\ hardware \in [Features -> Values] /\ echo \in [Features -> Values]
    BY DEF Init, NoEntry, OrNone
  <2>2. readings \in Seq(Features \X Values) /\ writes \in 0..MaxWrites
    BY PublishedStateAssumption DEF Init
  <2>3. refreshing \in OrNone(SUBSET Features)
    BY DEF Init, OrNone
  <2> QED BY <1>1, <1>2, <2>1, <2>2, <2>3 DEF Init, TypeOK
<1> QED
  BY <1>1, <1>3, <1>4
  DEF Init, Inv, ReadingsKept, StaleOnlyTillCheck, StaleTillCheck, Behind, Now, Line,
      StaleTillCheckAnswered, MessageCurrent, MessageCurrentAlways, Synced,
      Disconnected, RetractDue, Free, NoEntry

\* Being behind is what StaleOnlyTillCheck is about.
LEMMA StaleIsBehind ==
  StaleOnlyTillCheck <=> (~relapsed /\ ~silenced /\ Behind => CheckOwed)
BY DEF StaleOnlyTillCheck, StaleTillCheckAnswered, StaleTillCheck, Behind, Now, Line

\* Every step keeps the types.
LEMMA TypeStep == ASSUME TypeOK, ReadingsKept, Disconnected, [Next]_vars PROVE TypeOK'
<1> USE DEF external, device, state, owner, history
<1>1. CASE UNCHANGED vars
  BY <1>1 DEF vars, TypeOK
<1>2. CASE Connect
  <2>1. PICK silent \in SUBSET Features :
          /\ last' = [f \in Features |-> IF f \in silent THEN None ELSE hardware[f]]
          /\ values' = last'
          /\ support' = Features \ silent
    BY <1>2 DEF Connect
  <2>2. /\ last' \in [Features -> OrNone(Values)]
        /\ values' \in [Features -> OrNone(Values)]
        /\ support' \in SUBSET Features
    BY <2>1 DEF TypeOK, OrNone
  <2>3. /\ pending' \in [Features -> OrNone(Entries)]
        /\ message' \in SUBSET {"error", "refused"} /\ connected' \in BOOLEAN
    BY <1>2 DEF Connect, NoEntry, OrNone, TypeOK
  <2>4. shown' \in Lines
    BY <1>2, <2>2, <2>3, PublishType DEF Connect
  <2> QED BY <1>2, <2>2, <2>3, <2>4 DEF Connect, TypeOK
<1>3. CASE Drop
  <2>1. /\ values' \in [Features -> OrNone(Values)]
        /\ last' \in [Features -> OrNone(Values)]
        /\ flying' \in [Features -> OrNone(Values)]
        /\ pending' \in [Features -> OrNone(Entries)]
        /\ support' \in SUBSET Features
        /\ message' \in SUBSET {"error", "refused"} /\ connected' \in BOOLEAN
    BY <1>3 DEF Drop, NoEntry, OrNone, TypeOK
  <2>2. shown' \in Lines
    BY <1>3, <2>1, PublishType DEF Drop
  <2> QED BY <1>3, <2>1, <2>2 DEF Drop, TypeOK
<1>4. ASSUME NEW f \in Features, NEW v \in Values, Set(f, v) PROVE TypeOK'
  <2>1. /\ pending' \in [Features -> OrNone(Entries)]
        /\ flying' \in [Features -> OrNone(Values)]
        /\ message' \in SUBSET {"error", "refused"}
    BY <1>4, ExpectKeeps DEF Set, TypeOK, OrNone
  <2>2. /\ values' \in [Features -> OrNone(Values)]
        /\ support' \in SUBSET Features /\ connected' \in BOOLEAN
    BY <1>4 DEF Set, TypeOK
  <2>3. shown' \in Lines
    BY <1>4, <2>1, <2>2, PublishType DEF Set
  <2>4. writes' \in 0..MaxWrites
    BY <1>4, PublishedStateAssumption DEF Set, TypeOK
  <2> QED BY <1>4, <2>1, <2>3, <2>4 DEF Set, TypeOK
<1>5. CASE Greet
  BY <1>5 DEF Greet, TypeOK
<1>6. CASE BeginRefresh
  BY <1>6 DEF BeginRefresh, TypeOK, OrNone
<1>7. ASSUME NEW f \in Features, RefreshReply(f) PROVE TypeOK'
  <2>1. echo[f] \in Values
    BY DEF TypeOK
  <2>2. /\ last' \in [Features -> OrNone(Values)]
        /\ values' \in [Features -> OrNone(Values)]
        /\ pending' \in [Features -> OrNone(Entries)] /\ shown' \in Lines
    BY <1>7, <2>1, AbsorbKeeps DEF RefreshReply
  <2>3. refreshing' \in OrNone(SUBSET Features)
    BY <1>7 DEF RefreshReply, Free, TypeOK, OrNone
  <2> QED BY <1>7, <2>2, <2>3 DEF RefreshReply, TypeOK
<1>8. CASE EndRefresh
  <2>1. support' \in SUBSET Features /\ last' \in [Features -> OrNone(Values)]
    BY <1>8 DEF EndRefresh, TypeOK, OrNone
  <2>2. /\ values' \in [Features -> OrNone(Values)]
        /\ pending' \in [Features -> OrNone(Entries)]
        /\ message' \in SUBSET {"error", "refused"} /\ connected' \in BOOLEAN
    BY <1>8 DEF EndRefresh, TypeOK
  <2>3. shown' \in Lines
    <3>1. CASE Publish
      BY <3>1, <2>1, <2>2, PublishType
    <3>2. CASE UNCHANGED shown
      BY <3>2 DEF TypeOK
    <3> QED BY <1>8, <3>1, <3>2 DEF EndRefresh, Retract
  <2> QED BY <1>8, <2>1, <2>3 DEF EndRefresh, TypeOK, OrNone
<1>9. CASE HandleReading
  <2>1. Head(readings) \in Features \X Values /\ Tail(readings) \in Seq(Features \X Values)
    BY <1>9 DEF HandleReading, TypeOK
  <2>2. Head(readings)[1] \in Features /\ Head(readings)[2] \in Values
    BY <2>1
  <2>3. /\ last' \in [Features -> OrNone(Values)]
        /\ values' \in [Features -> OrNone(Values)]
        /\ pending' \in [Features -> OrNone(Entries)] /\ shown' \in Lines
    BY <1>9, <2>2, AbsorbKeeps DEF HandleReading
  <2> QED BY <1>9, <2>1, <2>3 DEF HandleReading, TypeOK
<1>10. CASE Check
  <2>1. /\ values' \in [Features -> OrNone(Values)]
        /\ pending' \in [Features -> OrNone(Entries)]
        /\ support' \in SUBSET Features
        /\ message' \in SUBSET {"error", "refused"} /\ connected' \in BOOLEAN
    BY <1>10 DEF Check, TypeOK
  <2>2. shown' \in Lines
    BY <1>10, <2>1, PublishType DEF Check
  <2> QED BY <1>10, <2>2 DEF Check, TypeOK, Ignored
<1>11. CASE Tick
  <2>1. \A f \in Features : pending[f] \in Entries /\ ~GivenUp(pending[f]) =>
          [pending[f] EXCEPT !.age = @ + 1] \in Entries
    BY EntryNotNone, PublishedStateAssumption DEF Entries, GivenUp
  <2>2. pending' \in [Features -> OrNone(Entries)]
    BY <1>11, <2>1 DEF Tick, TypeOK, OrNone
  <2>3. relapsed' \in BOOLEAN
    BY <1>11 DEF Tick, TypeOK
  <2> QED BY <1>11, <2>2, <2>3 DEF Tick, TypeOK
<1>12. ASSUME NEW f \in Features, HeadsetTakes(f) PROVE TypeOK'
  <2>1. hardware' \in [Features -> Values] /\ flying' \in [Features -> OrNone(Values)]
    BY <1>12 DEF HeadsetTakes, TypeOK, OrNone
  <2> QED BY <1>12, <2>1 DEF HeadsetTakes, TypeOK
<1>13. ASSUME NEW f \in Features, EchoCatchesUp(f) PROVE TypeOK'
  <2>1. echo' \in [Features -> Values] /\ readings' \in Seq(Features \X Values)
    BY <1>13 DEF EchoCatchesUp, Send, TypeOK
  <2> QED BY <1>13, <2>1 DEF EchoCatchesUp, TypeOK
<1>14. ASSUME NEW f \in Features, NEW v \in Values, Press(f, v) PROVE TypeOK'
  <2>1. /\ echo' \in [Features -> Values] /\ hardware' \in [Features -> Values]
    BY <1>14 DEF Press, TypeOK
  <2>2. readings' = Append(readings, <<f, v>>) \/ readings' = readings
    BY <1>14 DEF Press, Send
  <2>3. readings' \in Seq(Features \X Values)
    <3>1. Append(readings, <<f, v>>) \in Seq(Features \X Values)
      BY DEF TypeOK
    <3>2. readings \in Seq(Features \X Values)
      BY DEF TypeOK
    <3> QED BY <2>2, <3>1, <3>2
  <2> QED BY <1>14, <2>1, <2>3 DEF Press, TypeOK
<1>15. CASE ConnectFails
  <2>1. /\ values' \in [Features -> OrNone(Values)]
        /\ pending' \in [Features -> OrNone(Entries)]
    <3>1. PICK heard \in SUBSET Features :
            \/ /\ values' = [f \in Features |->
                    IF f \in heard THEN hardware[f] ELSE values[f]]
               /\ pending' = [f \in Features |->
                    IF f \in heard /\ ~Echoed(pending[f], hardware[f])
                    THEN None ELSE pending[f]]
            \/ /\ values' = [f \in Features |->
                    IF f \in heard THEN hardware[f] ELSE None]
               /\ pending' = NoEntry
      BY <1>15 DEF ConnectFails
    <3> QED BY <3>1 DEF NoEntry, OrNone, TypeOK
  <2>2. /\ support' \in SUBSET Features
        /\ message' \in SUBSET {"error", "refused"} /\ connected' \in BOOLEAN
    BY <1>15 DEF ConnectFails, TypeOK
  <2>3. shown' \in Lines
    BY <1>15, <2>1, <2>2, PublishType DEF ConnectFails
  <2> QED BY <1>15, <2>1, <2>2, <2>3 DEF ConnectFails, TypeOK
<1>16. CASE RefreshUnconnected
  <2>1. /\ values' \in [Features -> OrNone(Values)]
        /\ pending' \in [Features -> OrNone(Entries)]
        /\ support' \in SUBSET Features
        /\ message' \in SUBSET {"error", "refused"} /\ connected' \in BOOLEAN
    BY <1>16 DEF RefreshUnconnected, TypeOK
  <2>2. shown' \in Lines
    BY <1>16, <2>1, PublishType DEF RefreshUnconnected
  <2> QED BY <1>16, <2>1, <2>2 DEF RefreshUnconnected, TypeOK
<1> QED
  BY <1>1, <1>2, <1>3, <1>4, <1>5, <1>6, <1>7, <1>8, <1>9, <1>10, <1>11, <1>12,
     <1>13, <1>14, <1>15, <1>16 DEF Next

-----------------------------------------------------------------------------
\* The reading a refresh or a turn handles is a value, and is folded in.
LEMMA ReadingIsAbsorbed ==
  ASSUME TypeOK,
         HandleReading \/ \E f \in Features : RefreshReply(f)
  PROVE  /\ \E f \in Features, v \in Values : Absorb(f, v)
         /\ UNCHANGED <<support, connected, message, reported, stale, history>>
<1> USE DEF external, device, state, owner, history
<1>1. CASE HandleReading
  <2>1. Head(readings) \in Features \X Values
    BY <1>1 DEF HandleReading, TypeOK
  <2> QED BY <1>1, <2>1 DEF HandleReading
<1>2. ASSUME NEW f \in Features, RefreshReply(f)
      PROVE  /\ \E g \in Features, v \in Values : Absorb(g, v)
             /\ UNCHANGED <<support, connected, message, reported, stale, history>>
  <2>1. echo[f] \in Values
    BY DEF TypeOK
  <2> QED BY <1>2, <2>1 DEF RefreshReply
<1> QED BY <1>1, <1>2

\* What the headset does by itself.
HeadsetActs ==
  \E f \in Features :
    HeadsetTakes(f) \/ EchoCatchesUp(f) \/ \E v \in Values : Press(f, v)

\* It shows in its readings only, and a headset that is not connected sends none.
LEMMA HeadsetActsAlone ==
  ASSUME HeadsetActs
  PROVE  UNCHANGED <<device, state, owner>> /\ (readings' = readings \/ connected)
BY DEF HeadsetActs, HeadsetTakes, EchoCatchesUp, Press

\* Device and State keep agreeing, and entries keep remembering.
LEMMA ReadingsStep ==
  ASSUME TypeOK, ReadingsKept, Disconnected, [Next]_vars
  PROVE  ReadingsKept'
<1> USE DEF external, device, state, owner, history
<1>1. CASE UNCHANGED vars
  BY <1>1 DEF vars, ReadingsKept
<1>2. CASE Connect
  BY <1>2 DEF Connect, NoEntry, ReadingsKept
<1>3. CASE Drop
  BY <1>3 DEF Drop, NoEntry, ReadingsKept
<1>4. ASSUME NEW f \in Features, NEW v \in Values, Set(f, v) PROVE ReadingsKept'
  <2>1. UNCHANGED <<last, values>> /\ (Expect(f, v) \/ UNCHANGED pending)
    BY <1>4 DEF Set
  <2> QED BY <2>1, ExpectKeeps DEF ReadingsKept
<1>5. CASE Greet \/ BeginRefresh \/ RefreshUnconnected \/ Check
  BY <1>5 DEF Greet, BeginRefresh, RefreshUnconnected, Check, ReadingsKept
<1>6. CASE HandleReading \/ \E f \in Features : RefreshReply(f)
  BY <1>6, ReadingIsAbsorbed, AbsorbKeeps
<1>7. CASE EndRefresh
  BY <1>7 DEF EndRefresh, ReadingsKept
<1>8. CASE Tick
  <2>1. UNCHANGED <<last, values>>
    BY <1>8 DEF Tick
  <2>2. \A f \in Features :
          \/ pending[f] # None /\ pending'[f].was = pending[f].was
          \/ pending'[f] = pending[f]
    BY <1>8 DEF Tick, TypeOK, OrNone, Entries
  <2> QED BY <2>1, <2>2 DEF ReadingsKept
<1>9. CASE HeadsetActs
  BY <1>9, HeadsetActsAlone DEF ReadingsKept
<1>10. CASE ConnectFails
  <2>1. last' = NoEntry
    BY <1>10 DEF ConnectFails, Disconnected
  <2>2. \A f \in Features :
          \/ pending'[f] = None
          \/ pending'[f] = pending[f] /\ values'[f] = values[f]
          \/ pending'[f] = pending[f] /\ values'[f] = pending[f].was
    BY <1>10 DEF ConnectFails, NoEntry, Echoed
  <2> QED BY <2>1, <2>2 DEF ReadingsKept, NoEntry
<1> QED
  BY <1>1, <1>2, <1>3, <1>4, <1>5, <1>6, <1>7, <1>8, <1>9, <1>10
  DEF Next, HeadsetActs

\* Outside a refresh the message on the panel is the one there is, and a refresh
\* puts it right before it ends.
LEMMA MessageStep ==
  ASSUME TypeOK, ReadingsKept, MessageCurrent, RetractDue, Disconnected, [Next]_vars
  PROVE  MessageCurrent' /\ RetractDue'
<1> USE DEF external, device, state, owner, history
<1> USE DEF MessageCurrent, MessageCurrentAlways, RetractDue, Free
<1>1. CASE UNCHANGED vars
  BY <1>1 DEF vars
<1>2. CASE Connect \/ ConnectFails \/ Drop \/ Check \/ RefreshUnconnected
  <2>1. Publish /\ refreshing' = refreshing /\ greeted' = greeted
    BY <1>2 DEF Connect, ConnectFails, Drop, Check, RefreshUnconnected
  <2>2. refreshing = None
    BY <1>2 DEF Connect, ConnectFails, Drop, Check, RefreshUnconnected, Disconnected
  <2> QED BY <2>1, <2>2, PublishCatchesUp
<1>3. ASSUME NEW f \in Features, NEW v \in Values, Set(f, v)
      PROVE  MessageCurrent' /\ RetractDue'
  <2>1. Publish /\ refreshing = None /\ refreshing' = refreshing
    BY <1>3 DEF Set
  <2> QED BY <2>1, PublishCatchesUp
<1>4. CASE Greet
  BY <1>4 DEF Greet
<1>5. CASE BeginRefresh
  <2>1. refreshing = None /\ greeted' = greeted /\ shown' = shown /\ message' = {}
        /\ stale' = (message # {}) /\ refreshing' = Features
    BY <1>5 DEF BeginRefresh
  <2>2. CASE message = {}
    BY <2>1, <2>2
  <2>3. CASE message # {}
    <3>1. stale'
      BY <2>1, <2>3
    <3>2. RetractDue'
      BY <3>1
    <3>3. ASSUME refreshing' = None PROVE FALSE
      BY <3>3, <2>1, PublishedStateAssumption
    <3> QED BY <3>2, <3>3
  <2> QED BY <2>2, <2>3
<1>6. CASE HandleReading
  <2>1. shown' = shown \/ shown'.message = message'
    BY <1>6, ReadingIsAbsorbed, AbsorbKeeps
  <2>2. UNCHANGED <<message, stale, refreshing, greeted>>
    BY <1>6 DEF HandleReading
  <2> QED BY <2>1, <2>2
<1>7. ASSUME NEW f \in Features, RefreshReply(f) PROVE MessageCurrent' /\ RetractDue'
  <2>1. shown' = shown \/ shown'.message = message'
    BY <1>7, ReadingIsAbsorbed, AbsorbKeeps
  <2>2. UNCHANGED <<message, stale, greeted>> /\ refreshing # None
    BY <1>7 DEF RefreshReply
  <2>3. refreshing' # None
    BY <1>7, PublishedStateAssumption DEF RefreshReply, TypeOK, OrNone
  <2> QED BY <2>1, <2>2, <2>3
<1>8. CASE EndRefresh
  <2>1. refreshing # None /\ refreshing' = None /\ UNCHANGED <<message, greeted>>
    BY <1>8 DEF EndRefresh
  <2>2. CASE stale
    BY <1>8, <2>1, <2>2, PublishCatchesUp DEF EndRefresh, Retract
  <2>3. CASE ~stale
    BY <1>8, <2>1, <2>3 DEF EndRefresh, Retract
  <2> QED BY <2>2, <2>3
<1>9. CASE Tick
  BY <1>9 DEF Tick
<1>10. CASE HeadsetActs
  BY <1>10, HeadsetActsAlone
<1> QED
  BY <1>1, <1>2, <1>3, <1>4, <1>5, <1>6, <1>7, <1>8, <1>9, <1>10 DEF Next, HeadsetActs

-----------------------------------------------------------------------------
\* Device and State have read the same, and a headset that is not connected says
\* nothing.
LEMMA SyncStep ==
  ASSUME TypeOK, ReadingsKept, Synced, Disconnected, [Next]_vars
  PROVE  Synced' /\ Disconnected'
<1> USE DEF external, device, state, owner, history
<1> USE DEF Synced, Disconnected, Free
<1>1. CASE UNCHANGED vars
  BY <1>1 DEF vars
<1>2. CASE Connect
  BY <1>2 DEF Connect
<1>3. CASE Drop
  BY <1>3 DEF Drop
<1>4. ASSUME NEW f \in Features, NEW v \in Values, Set(f, v)
      PROVE  Synced' /\ Disconnected'
  BY <1>4 DEF Set
<1>5. CASE Greet \/ Check \/ RefreshUnconnected
  BY <1>5 DEF Greet, Check, RefreshUnconnected
<1>6. CASE BeginRefresh
  BY <1>6 DEF BeginRefresh
<1>7. CASE HandleReading \/ \E f \in Features : RefreshReply(f)
  <2>1. connected
    BY <1>7 DEF HandleReading, RefreshReply
  <2>2. /\ last = values => last' = values'
        /\ UNCHANGED <<connected, silenced>>
    BY <1>7, ReadingIsAbsorbed, AbsorbKeeps
  <2> QED BY <2>1, <2>2
<1>8. CASE EndRefresh
  <2>1. CASE refreshing = {}
    <3>1. last' = last
      BY <1>8, <2>1 DEF EndRefresh, TypeOK
    <3> QED BY <1>8, <2>1, <3>1 DEF EndRefresh
  <2>2. CASE refreshing # {}
    BY <1>8, <2>2 DEF EndRefresh
  <2> QED BY <2>1, <2>2
<1>9. CASE Tick
  <2>1. UNCHANGED <<connected, silenced, last, values, readings, refreshing>>
    BY <1>9 DEF Tick
  <2> QED BY <2>1
<1>10. CASE HeadsetActs
  BY <1>10, HeadsetActsAlone
<1>11. CASE ConnectFails
  BY <1>11 DEF ConnectFails
<1> QED
  BY <1>1, <1>2, <1>3, <1>4, <1>5, <1>6, <1>7, <1>8, <1>9, <1>10, <1>11
  DEF Next, HeadsetActs

-----------------------------------------------------------------------------
\* The clock only gives writes up, and then the check sees it: a write given up
\* that the check has on record has relapsed.
LEMMA TickIsSeen ==
  ASSUME TypeOK, Tick, Behind => CheckOwed, ~relapsed'
  PROVE  Behind' => CheckOwed'
<1>1. UNCHANGED <<values, shown, reported>>
  BY DEF Tick
<1>2. \A f \in Features : pending[f] = None \/ GivenUp(pending[f])
                            => pending'[f] = pending[f]
  BY DEF Tick
<1>3. \A f \in Features : pending[f] # None =>
        pending'[f] # None /\ pending'[f].value = pending[f].value
  <2>1. ASSUME NEW f \in Features, pending[f] # None, ~GivenUp(pending[f])
        PROVE  pending'[f] # None /\ pending'[f].value = pending[f].value
    <3>1. pending[f] \in Entries
      BY <2>1 DEF TypeOK, OrNone
    <3>2. pending'[f] = [pending[f] EXCEPT !.age = @ + 1]
      BY <2>1 DEF Tick
    <3>3. pending'[f] \in [value : Values, was : Values \cup {None}, age : Nat]
      BY <3>1, <3>2, PublishedStateAssumption DEF Entries
    <3>4. pending'[f].value = pending[f].value
      BY <3>1, <3>2 DEF Entries
    <3> QED BY <3>3, <3>4, PublishedStateAssumption
  <2> QED BY <2>1, <1>2
<1>4. CASE \A f \in Features : GivenUp(pending'[f]) => GivenUp(pending[f])
  <2>1. \A f \in Features : GivenUp(pending'[f]) <=> GivenUp(pending[f])
    BY <1>2, <1>4 DEF GivenUp
  <2>2. \A f \in Features : pending'[f] = None <=> pending[f] = None
    BY <1>2, <1>3
  <2>3. Snapshot(values', pending') = Snapshot(values, pending)
    BY <1>1, <1>3, <2>1, <2>2 DEF Snapshot
  <2>4. Ignored(pending') = Ignored(pending)
    BY <2>1 DEF Ignored
  <2> QED BY <1>1, <2>3, <2>4 DEF Behind, CheckOwed
<1>5. ASSUME NEW f \in Features, GivenUp(pending'[f]), ~GivenUp(pending[f])
      PROVE  CheckOwed'
  <2>1. f \notin reported
    BY <1>5 DEF Tick
  <2>2. f \in Ignored(pending')
    BY <1>5 DEF Ignored
  <2> QED BY <2>1, <2>2, <1>1 DEF CheckOwed
<1> QED BY <1>4, <1>5

\* Behind only until the check.
LEMMA StaleStep ==
  ASSUME Inv, [Next]_vars
  PROVE  StaleOnlyTillCheck'
<1> DEFINE Due == ~relapsed /\ ~silenced /\ Behind => CheckOwed
<1> SUFFICES Due'
  BY DEF StaleOnlyTillCheck, StaleTillCheckAnswered, StaleTillCheck, Behind, Now, Line
<1>0. Due
  BY StaleIsBehind DEF Inv
<1> USE DEF external, device, state, owner, history
<1>1. CASE UNCHANGED vars
  BY <1>0, <1>1 DEF vars, Behind, CheckOwed
<1>2. ASSUME Publish PROVE Due'
  BY <1>2, PublishCatchesUp
<1>3. CASE \/ Connect \/ ConnectFails \/ Drop \/ Check \/ RefreshUnconnected
           \/ \E f \in Features, v \in Values : Set(f, v)
  BY <1>3, <1>2 DEF Connect, ConnectFails, Drop, Check, RefreshUnconnected, Set
<1>4. CASE Greet \/ BeginRefresh
  <2>1. UNCHANGED <<values, pending, shown, reported, silenced, relapsed>>
    BY <1>4 DEF Greet, BeginRefresh
  <2> QED BY <1>0, <2>1 DEF Behind, CheckOwed
<1>5. CASE HandleReading \/ \E f \in Features : RefreshReply(f)
  <2>1. UNCHANGED <<reported, silenced, relapsed>> /\ connected
    BY <1>5, ReadingIsAbsorbed
    DEF HandleReading, RefreshReply, Inv, Disconnected
  <2>2. ~silenced => last = values
    BY <2>1 DEF Inv, Synced
  <2>3. ~silenced =>
          \/ ~Behind'
          \/ /\ Snapshot(values', pending') = Snapshot(values, pending)
             /\ Ignored(pending') = Ignored(pending)
             /\ shown' = shown
    BY <1>5, <2>2, ReadingIsAbsorbed, AbsorbKeeps DEF Inv
  <2> QED BY <1>0, <2>1, <2>3 DEF Behind, CheckOwed
<1>6. CASE EndRefresh
  <2>1. UNCHANGED <<values, pending, reported, relapsed>> /\ (silenced => silenced')
        /\ (Publish \/ shown' = shown)
    BY <1>6 DEF EndRefresh, Retract
  <2> QED BY <1>0, <1>2, <2>1 DEF Behind, CheckOwed
<1>7. CASE Tick
  <2>1. silenced' = silenced /\ (relapsed => relapsed')
    BY <1>7 DEF Tick
  <2> QED BY <1>0, <1>7, <2>1, TickIsSeen DEF Inv
<1>8. CASE HeadsetActs
  <2>1. UNCHANGED <<device, state, owner>>
    BY <1>8, HeadsetActsAlone
  <2> QED BY <1>0, <2>1 DEF Behind, CheckOwed
<1> QED
  BY <1>1, <1>3, <1>4, <1>5, <1>6, <1>7, <1>8 DEF Next, HeadsetActs

\* A step that takes a write off the panel for a reading that repeats what the
\* write replaced is one that had given the write up, or a reconnection.
LEMMA EchoStep ==
  ASSUME TypeOK, ReadingsKept, [Next]_vars,
         NEW f \in Features, pending[f] # None, pending'[f] = None, connected,
         values'[f] = pending[f].was, pending[f].value # pending[f].was
  PROVE  GivenUp(pending[f]) \/ connected' # connected
<1> USE DEF external, device, state, owner, history
<1>1. CASE \/ UNCHANGED vars \/ Greet \/ BeginRefresh \/ RefreshUnconnected
           \/ EndRefresh \/ Check \/ Drop
  BY <1>1 DEF vars, Greet, BeginRefresh, RefreshUnconnected, EndRefresh, Check, Drop
<1>2. CASE Connect \/ ConnectFails
  BY <1>2 DEF Connect, ConnectFails
<1>3. ASSUME NEW g \in Features, NEW v \in Values, Set(g, v)
      PROVE  FALSE
  <2>1. Expect(g, v) \/ UNCHANGED pending
    BY <1>3 DEF Set
  <2> QED BY <2>1, ExpectKeeps
<1>4. CASE HandleReading \/ \E g \in Features : RefreshReply(g)
  <2>1. PICK g \in Features, v \in Values : Absorb(g, v)
    BY <1>4, ReadingIsAbsorbed
  <2>2. /\ values' = [values EXCEPT ![g] = v]
        /\ pending' = [pending EXCEPT ![g] = IF Echoed(@, v) THEN @ ELSE None]
    BY <2>1 DEF Absorb
  <2>3. g = f
    BY <2>2 DEF TypeOK
  <2>4. ~Echoed(pending[f], v) /\ values'[f] = v
    BY <2>2, <2>3 DEF TypeOK
  <2> QED BY <2>4 DEF Echoed
<1>5. CASE Tick
  <2>1. CASE ~GivenUp(pending[f])
    <3>1. pending[f] \in Entries
      BY DEF TypeOK, OrNone
    <3>2. pending'[f] = [pending[f] EXCEPT !.age = @ + 1]
      BY <1>5, <2>1 DEF Tick
    <3>3. pending'[f] \in [value : Values, was : Values \cup {None}, age : Nat]
      BY <3>1, <3>2, PublishedStateAssumption DEF Entries
    <3> QED BY <3>3, PublishedStateAssumption
  <2> QED BY <2>1
<1>6. CASE HeadsetActs
  BY <1>6, HeadsetActsAlone
<1> QED
  BY <1>1, <1>2, <1>3, <1>4, <1>5, <1>6 DEF Next, HeadsetActs

-----------------------------------------------------------------------------
\* The invariant holds of every behaviour.
THEOREM Invariance == Spec => []Inv
<1>1. Init => Inv BY InitInv
<1>2. Inv /\ [Next]_vars => Inv'
  BY TypeStep, ReadingsStep, MessageStep, SyncStep, StaleStep DEF Inv
<1> QED BY <1>1, <1>2, PTL DEF Spec

\* Every variable keeps its type, ages and counters their bounds.
THEOREM TypeCorrect == Spec => []TypeOK
<1>1. Inv => TypeOK BY DEF Inv
<1> QED BY <1>1, Invariance, PTL

\* Device and State never disagree about what the headset said, and a pending
\* write remembers the last reading for what it replaces.
THEOREM ReadingsAreKept == Spec => []ReadingsKept
<1>1. Inv => ReadingsKept BY DEF Inv
<1> QED BY <1>1, Invariance, PTL

\* However long a turn takes and whatever it handles: values and writes given up
\* on the panel are those of now, or the check at its end is about to publish, as
\* long as every refresh was answered and no write that the check has on record
\* was made again and given up again within one turn.
THEOREM NeverStaleForLong == Spec => []StaleOnlyTillCheck
<1>1. Inv => StaleOnlyTillCheck BY DEF Inv
<1> QED BY <1>1, Invariance, PTL

\* Until a watcher's first greeting, a message that was retracted does not stay
\* on the panel, whatever refreshes, drops and commands came in between.
THEOREM MessagesAreCurrent == Spec => []MessageCurrent
<1>1. Inv => MessageCurrent BY DEF Inv
<1> QED BY <1>1, Invariance, PTL

\* A stale echo never takes a pending write off the panel before its time.
THEOREM EchoesAreIgnored == Spec => EchoChangesNothing
<1> DEFINE Harmless ==
      \A f \in Features :
        /\ pending[f] # None /\ pending'[f] = None /\ connected
        /\ values'[f] = pending[f].was /\ pending[f].value # pending[f].was
        => GivenUp(pending[f]) \/ connected' # connected
<1>1. Inv /\ [Next]_vars => [Harmless]_vars
  BY EchoStep DEF Inv
<1> QED BY <1>1, Invariance, PTL DEF Spec, EchoChangesNothing
=============================================================================
