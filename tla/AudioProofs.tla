---------------------------- MODULE AudioProofs -----------------------------
(***************************************************************************)
(* Proofs about Audio, for any headsets, profiles and bounds.  That the    *)
(* panel shows the card there is rests on what is known of the reading     *)
(* that is due or runs: it is for the headset worn, and what it printed    *)
(* is still so, or a timer will have it read again; and what starts no     *)
(* timer goes from one card without nodes to another (Agrees).             *)
(***************************************************************************)
EXTENDS Audio, TLAPS

\* What there is to say of a process while nothing else is due.
Fresh ==
    headset # None /\ ~settle /\ ~blind =>
        /\ job = Idle => Agrees(card)
        /\ job # Idle => job.for = headset
        /\ job.step = "over" => job.out # NoOutput /\ Agrees(job.out)

Inv == TypeOK /\ Fresh

LEMMA JobSteps ==
    ASSUME TypeOK
    PROVE  /\ job = Idle <=> job.step = "idle"
           /\ job # Idle => job \in Jobs
BY DEF TypeOK, Idle, Jobs, Steps

LEMMA StartedFacts ==
    ASSUME NEW h, NEW p
    PROVE  /\ Started(h, p) # Idle
           /\ Started(h, p).for = h /\ Started(h, p).step = "started"
BY DEF Started, Idle

LEMMA StartedTypes ==
    ASSUME NEW h \in Headsets, NEW p \in Profiles \cup {None}
    PROVE  Started(h, p) \in Jobs
BY DEF Started, Jobs, Steps

LEMMA ReadingTypes ==
    ASSUME TypeOK, NEW h \in Headsets
    PROVE  Reading(h) \in Cards
BY DEF TypeOK, Reading, Cards

\* What is read is what there is.
LEMMA ReadingAgrees ==
    ASSUME headset # None, TypeOK
    PROVE  Agrees(Reading(headset)) /\ Reading(headset) # NoOutput
BY AudioAssumption DEF TypeOK, Agrees, Reading, NoOutput

\* A step of the helper.
LEMMA GoesTypes ==
    ASSUME TypeOK, NEW step \in Steps, NEW out \in Cards \cup {NoOutput},
           job # Idle, Goes(step, out), UNCHANGED active,
           asked' \in [Headsets -> Profiles \cup {None}], blind' \in BOOLEAN,
           changes' \in Nat, picks' \in Nat
    PROVE  TypeOK'
<1>1. job' \in Jobs
  BY JobSteps DEF Goes, Jobs
<1> QED BY <1>1 DEF TypeOK, Goes

LEMMA GoesFacts ==
    ASSUME NEW step, NEW out, Goes(step, out)
    PROVE  /\ job'.for = job.for /\ job'.step = step /\ job'.out = out
           /\ step # "idle" => job' # Idle
BY DEF Goes, Idle

LEMMA Types ==
    ASSUME TypeOK, [Next]_vars
    PROVE  TypeOK'
<1>1. ASSUME NEW h \in Headsets, Obeys(h) PROVE TypeOK'
  BY <1>1 DEF TypeOK, Obeys, TakesUp, ShapeChanged, history, bounds
<1>2. ASSUME NEW h \in Headsets, NEW p \in Profiles \cup {None}, Switches(h, p)
      PROVE  TypeOK'
  BY <1>2 DEF TypeOK, Switches, Change, TakesUp, ShapeChanged, history, bounds
<1>a. ASSUME job # Idle
      PROVE  Reading(job.for) \in Cards /\ job.for \in Headsets
                /\ job.profile \in Profiles \cup {None}
  BY <1>a, JobSteps, ReadingTypes DEF Jobs
<1>b. /\ asked \in [Headsets -> Profiles \cup {None}] /\ blind \in BOOLEAN
      /\ changes \in Nat /\ picks \in Nat
  BY DEF TypeOK
<1>3. CASE ReadsCard
  <2>1. job # Idle
    BY <1>3 DEF ReadsCard, Idle
  <2> QED BY <1>3, <1>a, <1>b, <2>1, GoesTypes DEF ReadsCard, Steps, pipewire, bounds
<1>4. CASE SetsProfile
  <2>1. job # Idle
    BY <1>4 DEF SetsProfile, Idle
  <2>2. asked' \in [Headsets -> Profiles \cup {None}]
    BY <1>4, <1>a, <1>b, <2>1 DEF SetsProfile
  <2> QED BY <1>4, <1>b, <2>1, <2>2, GoesTypes DEF SetsProfile, Steps, bounds
<1>5. CASE Waited
  <2>1. job # Idle
    BY <1>5 DEF Waited, Idle
  <2> QED BY <1>5, <1>a, <1>b, <2>1, GoesTypes DEF Waited, Steps, pipewire, bounds
<1>6. CASE HasNoCard
  <2>1. job # Idle
    BY <1>6 DEF HasNoCard, Idle
  <2> QED BY <1>6, <1>b, <2>1, GoesTypes DEF HasNoCard, Steps, pipewire, bounds
<1>7. CASE FailsOrIsStopped
  <2>1. job # Idle
    BY <1>7 DEF FailsOrIsStopped, Idle
  <2> QED BY <1>7, <1>b, <2>1, GoesTypes DEF FailsOrIsStopped, Change, Steps, pipewire
<1>8. CASE Ends
  <2>1. card' \in Cards
    <3>1. job.out \in Cards \cup {NoOutput}
      BY <1>8, JobSteps DEF Ends, Idle, Jobs
    <3> QED BY <1>8, <3>1 DEF TypeOK, Ends, Taken
  <2>2. settle' \in BOOLEAN
    BY <1>8 DEF TypeOK, Ends
  <2>3. CASE queued # None /\ headset # None
    <3>1. headset \in Headsets /\ queued \in Profiles \cup {None}
      BY <2>3 DEF TypeOK
    <3>2. job' \in Jobs /\ blind' \in BOOLEAN /\ unmet' \in Profiles \cup {None}
      BY <1>8, <2>3, <3>1, StartedTypes DEF TypeOK, Ends, Launch
    <3> QED BY <1>8, <2>1, <2>2, <3>2 DEF TypeOK, Ends, pipewire, bounds
  <2>4. CASE ~(queued # None /\ headset # None)
    <3>1. job' = Idle /\ UNCHANGED <<blind, unmet>>
      BY <1>8, <2>4 DEF Ends, history
    <3> QED BY <1>8, <2>1, <2>2, <3>1 DEF TypeOK, Ends, pipewire, bounds
  <2> QED BY <2>3, <2>4
<1>c. ASSUME NEW h \in Headsets \cup {None}, RefreshAudio(h)
      PROVE  (job' = Idle \/ job' \in Jobs) /\ blind' \in BOOLEAN
  BY <1>c, StartedTypes DEF TypeOK, RefreshAudio
<1>d. headset \in Headsets \cup {None}
  BY DEF TypeOK
<1>9. CASE Settles
  <2>1. RefreshAudio(headset)
    BY <1>9 DEF Settles
  <2> QED BY <1>9, <1>c, <1>d, <2>1 DEF TypeOK, Settles, pipewire, bounds
<1>10. CASE Opens
  <2>1. RefreshAudio(headset)
    BY <1>10 DEF Opens
  <2> QED BY <1>10, <1>c, <1>d, <2>1 DEF TypeOK, Opens, pipewire, bounds
<1>11. ASSUME NEW h \in Headsets \cup {None}, HeadsetChanges(h) PROVE TypeOK'
  <2>1. RefreshAudio(h)
    BY <1>11 DEF HeadsetChanges
  <2> QED BY <1>11, <1>c, <2>1 DEF TypeOK, HeadsetChanges, Change, NoCard, Cards, pipewire
<1>12. ASSUME NEW p \in Profiles, QueuesPick(p) PROVE TypeOK'
  BY <1>12 DEF TypeOK, QueuesPick, Pick, pipewire
<1>13. ASSUME NEW p \in Profiles, TriesPick(p) PROVE TypeOK'
  <2>1. headset \in Headsets
    BY <1>13 DEF TypeOK, TriesPick, Pick
  <2>2. job' \in Jobs /\ unmet' = None /\ blind' = FALSE /\ UNCHANGED queued
    BY <1>13, <2>1, StartedTypes DEF TriesPick
  <2>3. picks' \in Nat /\ UNCHANGED <<headset, settle, card, pipewire, changes>>
    BY <1>13 DEF TriesPick, Pick, TypeOK
  <2> QED BY <2>2, <2>3 DEF TypeOK, pipewire
<1>14. CASE UNCHANGED vars
  BY <1>14 DEF TypeOK, vars, widget, pipewire, history, bounds
<1> QED
  BY <1>1, <1>2, <1>3, <1>4, <1>5, <1>6, <1>7, <1>8, <1>9, <1>10, <1>11, <1>12, <1>13,
     <1>14 DEF Next, Helper

\* A card that is taken up otherwise leaves a timer behind if it is the headset's,
\* unless it had no nodes and has none.
LEMMA TakenUpFresh ==
    ASSUME Inv, NEW h \in Headsets, NEW p, TakesUp(h, p)
    PROVE  Fresh'
<1> SUFFICES ASSUME headset # None, ~settle', ~blind
             PROVE  /\ job = Idle => Agrees(card)'
                    /\ job # Idle => job.for = headset
                    /\ job.step = "over" => job.out # NoOutput /\ Agrees(job.out)'
  BY DEF Fresh, TakesUp, Agrees, history
<1>0. ~settle /\ UNCHANGED <<job, card, headset>>
  BY DEF TakesUp, ShapeChanged
<1>1. ASSUME NEW c, Agrees(c)
      PROVE  c = Reading(headset)' \/ {c.active, active'[headset]} \subseteq Silent
  <2>1. CASE h = headset
    <3>1. Shape(h)' = Shape(h)
      BY <1>0, <2>1 DEF TakesUp, ShapeChanged
    <3>3. active'[h] = p /\ p # active[h] /\ h # None
      BY AudioAssumption DEF TakesUp, Inv, TypeOK
    <3>4. p \in Silent /\ active[h] \in Silent
      BY <3>1, <3>3 DEF Shape
    <3> QED BY <1>1, <2>1, <3>3, <3>4 DEF Agrees, Reading
  <2>2. CASE h # headset
    <3>1. active'[headset] = active[headset]
      BY <2>2 DEF Inv, TypeOK, TakesUp
    <3> QED BY <1>0, <1>1, <3>1 DEF Agrees, Reading
  <2> QED BY <2>1, <2>2
<1> QED BY <1>0, <1>1 DEF Inv, Fresh, Agrees

LEMMA FreshStep ==
    ASSUME Inv, [Next]_vars
    PROVE  Fresh'
<1>1. ASSUME NEW h \in Headsets, Obeys(h) PROVE Fresh'
  BY <1>1, TakenUpFresh DEF Obeys
<1>2. ASSUME NEW h \in Headsets, NEW p \in Profiles \cup {None}, Switches(h, p)
      PROVE  Fresh'
  BY <1>2, TakenUpFresh DEF Switches
<1>3. CASE ReadsCard
  <2>1. Goes("over", Reading(job.for)) /\ job # Idle
    BY <1>3 DEF ReadsCard, Idle
  <2> QED BY <1>3, <2>1, GoesFacts, ReadingAgrees
          DEF Inv, Fresh, ReadsCard, Goes, Agrees, Reading, pipewire
<1>4. CASE SetsProfile
  <2>1. Goes("waiting", NoOutput) /\ job # Idle
    BY <1>4 DEF SetsProfile, Idle
  <2> QED BY <1>4, <2>1, GoesFacts DEF Inv, Fresh, SetsProfile, Goes
<1>5. CASE Waited
  <2>1. Goes("over", Reading(job.for)) /\ job # Idle
    BY <1>5 DEF Waited, Idle
  <2> QED BY <1>5, <2>1, GoesFacts, ReadingAgrees
          DEF Inv, Fresh, Waited, Goes, Agrees, Reading, pipewire
<1>6. CASE HasNoCard
  BY <1>6 DEF Fresh, HasNoCard
<1>7. CASE FailsOrIsStopped
  BY <1>7 DEF Fresh, FailsOrIsStopped
<1>8. CASE Ends
  <2>1. CASE queued # None /\ headset # None
    BY <1>8, <2>1, StartedFacts DEF Fresh, Ends, Launch
  <2>2. CASE ~(queued # None /\ headset # None)
    <3>1. job' = Idle /\ UNCHANGED <<headset, active, blind>>
      BY <1>8, <2>2 DEF Ends, history, pipewire
    <3>3. ASSUME headset # None, ~settle', ~blind
          PROVE  Agrees(card')
      <4>1. ~settle
        BY <1>8, <2>2, <3>3 DEF Ends, Inv, TypeOK
      <4>2. job # Idle /\ job.for = headset /\ job.out # NoOutput /\ Agrees(job.out)
        BY <1>8, <3>3, <4>1 DEF Ends, Inv, Fresh, Idle
      <4> QED BY <1>8, <4>2 DEF Ends, Taken
    <3> QED BY <3>1, <3>3 DEF Fresh, Agrees, Reading, Idle
  <2> QED BY <2>1, <2>2
<1>a. ASSUME NEW h, RefreshAudio(h), headset' = h
      PROVE  Fresh'
  <2>1. CASE h = None
    BY <1>a, <2>1 DEF Fresh
  <2>2. CASE h # None /\ job = Idle
    BY <1>a, <2>2, StartedFacts DEF Fresh, RefreshAudio
  <2>3. CASE h # None /\ job # Idle
    BY <1>a, <2>3 DEF Fresh, RefreshAudio
  <2> QED BY <2>1, <2>2, <2>3
<1>9. CASE Settles
  BY <1>9, <1>a DEF Settles
<1>10. CASE Opens
  BY <1>10, <1>a DEF Opens
<1>11. ASSUME NEW h \in Headsets \cup {None}, HeadsetChanges(h) PROVE Fresh'
  BY <1>11, <1>a DEF HeadsetChanges
<1>12. ASSUME NEW p \in Profiles, QueuesPick(p) PROVE Fresh'
  BY <1>12 DEF Inv, Fresh, Agrees, Reading, QueuesPick, Pick, pipewire
<1>13. ASSUME NEW p \in Profiles, TriesPick(p) PROVE Fresh'
  BY <1>13, StartedFacts DEF Fresh, TriesPick, Pick
<1>14. CASE UNCHANGED vars
  BY <1>14 DEF Inv, Fresh, Agrees, Reading, vars, widget, pipewire, history
<1> QED
  BY <1>1, <1>2, <1>3, <1>4, <1>5, <1>6, <1>7, <1>8, <1>9, <1>10, <1>11, <1>12, <1>13,
     <1>14 DEF Next, Helper

\* The inductive invariant of the widget's audio card.
THEOREM Invariance == Spec => []Inv
<1>1. Init => Inv
  <2>1. Init => Fresh
    BY DEF Init, Fresh
  <2>2. NoCard \in Cards
    BY DEF NoCard, Cards
  <2>3. Init => TypeOK
    <3>1. SUFFICES ASSUME Init PROVE TypeOK
      OBVIOUS
    <3>2. asked \in [Headsets -> Profiles \cup {None}]
      BY <3>1 DEF Init
    <3> QED BY <2>2, <3>1, <3>2 DEF Init, TypeOK
  <2> QED BY <2>1, <2>3 DEF Inv
<1>2. Inv /\ [Next]_vars => Inv'
  BY Types, FreshStep DEF Inv
<1> QED BY <1>1, <1>2, PTL DEF Spec

\* Every variable of Audio keeps its type.
THEOREM TypeCorrect == Spec => []TypeOK
<1>1. Inv => TypeOK
  BY DEF Inv
<1> QED BY Invariance, <1>1, PTL

\* The card shown at rest is the headset's own, as it is now (BarWidget.qml:562).
THEOREM CardIsCurrent == Spec => []CardFollows
<1>1. Inv => CardFollows
  BY DEF Inv, Fresh, AtRest, CardFollows
<1> QED BY Invariance, <1>1, PTL
=============================================================================
