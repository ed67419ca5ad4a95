----------------------------- MODULE OwnerProofs ----------------------------
(***************************************************************************)
(* What the owner promises at its two ends.                                *)
(*                                                                         *)
(* The connection to the headset, for any records, any backoff and any     *)
(* number of failures: what the panel shows rests on a line that never     *)
(* says connected before the opening read is over (Unannounced) and on a   *)
(* volunteered record with a value being one that came and was marked      *)
(* (CameAlone): without it a reading that is no news could change what is  *)
(* supported and not be told.                                              *)
(*                                                                         *)
(* The clients of its socket, for any number of commands given at once:    *)
(* while a command alone makes the owner publish, the value it was worked  *)
(* out from is still the owner's, and the only line it can read after the  *)
(* greeting is the one published for it.                                   *)
(***************************************************************************)
EXTENDS Connection, Command, SequenceTheorems, TLAPS

\* Nothing says connected before the opening read is over.
Unannounced == ~HasDevice \/ phase = "reading" => ~line.connected

\* A headset of another protocol never gets a device.
Accepted == HasDevice => fits

\* A volunteered record of which there is a value came, and what came is marked
\* as supported.
CameAlone ==
    known \cap Volunteered \subseteq turnedUp /\ turnedUp \subseteq support

\* What OffersCurrent says, also while a refresh runs.
Offered ==
    phase \in {"serving", "refreshing"} /\ ~untold =>
        /\ line.support \subseteq support
        /\ support \ line.support \subseteq Volunteered \ known

Inv == /\ TypeOK /\ NoLeftover /\ Unannounced /\ Accepted /\ CameAlone /\ Offered

-----------------------------------------------------------------------------
\* There is a wait to begin with.
LEMMA Waits == 0 \in 0..MaxWait /\ 1 \in 1..MaxWait
  BY ConnectionAssumption

\* The owner starts with nothing open and nothing shown.
LEMMA InitInv == ASSUME Init PROVE Inv
<1>1. TypeOK BY Waits DEF Init, TypeOK, Nothing
<1>2. NoLeftover /\ Unannounced /\ Accepted /\ CameAlone /\ Offered
  BY DEF Init, NoLeftover, Unannounced, Accepted, CameAlone, Offered, HasDevice,
         Nothing
<1> QED BY <1>1, <1>2 DEF Inv

\* The device is dropped and its session closed.
LEMMA DropStep ==
  ASSUME Inv, Drop, channel' # "owner",
         channel' \in {"nobody", "owner", "cli"}, hopeless' \in BOOLEAN,
         fails' \in Nat, rivals' \in Nat
  PROVE  Inv'
<1>1. TypeOK'
  <2>1. backoff' \in 1..MaxWait /\ wait' \in 0..MaxWait
    BY ConnectionAssumption DEF Inv, TypeOK, Drop
  <2> QED BY <2>1 DEF Inv, TypeOK, Drop, Nothing, headset
<1>2. (NoLeftover /\ Unannounced /\ Accepted /\ CameAlone /\ Offered)'
  BY DEF Drop, NoLeftover, Unannounced, Accepted, CameAlone, Offered, HasDevice,
         Nothing
<1> QED BY <1>1, <1>2 DEF Inv

\* The helper ends.
LEMMA FallStep ==
  ASSUME Inv, Falls, fails' \in Nat, rivals' \in Nat
  PROVE  Inv'
<1>1. TypeOK'
  BY Waits DEF Inv, TypeOK, Falls, Closed, Nothing, headset
<1>2. (NoLeftover /\ Unannounced /\ Accepted /\ CameAlone /\ Offered)'
  BY DEF Falls, Closed, NoLeftover, Unannounced, Accepted, CameAlone, Offered,
         HasDevice, Nothing
<1> QED BY <1>1, <1>2 DEF Inv

-----------------------------------------------------------------------------
\* Steps of the headset, of the command line and of time.
LEMMA WorldStep ==
  ASSUME Inv, Comes \/ Goes \/ LinkDrops \/ RivalOpens \/ RivalCloses \/ Tick
  PROVE  Inv'
<1> USE DEF headset, retrying, device, bounds
<1>1. TypeOK'
  <2>1. CASE Tick
    <3>1. wait \in 0..MaxWait BY DEF Inv, TypeOK
    <3>2. wait > 0 /\ wait' = wait - 1 BY <2>1 DEF Tick
    <3>3. wait' \in 0..MaxWait BY <3>1, <3>2, ConnectionAssumption
    <3> QED BY <2>1, <3>3 DEF Tick, Inv, TypeOK
  <2>2. CASE Comes \/ Goes \/ RivalCloses
    BY <2>2 DEF Comes, Goes, RivalCloses, Broken, Inv, TypeOK
  <2>3. CASE LinkDrops
    <3>1. fails \in Nat BY DEF Inv, TypeOK
    <3>2. fails' = fails + 1 /\ rivals' = rivals BY <2>3 DEF LinkDrops, Fault
    <3>3. fails' \in Nat BY <3>1, <3>2
    <3> QED BY <2>3, <3>2, <3>3 DEF LinkDrops, Broken, Inv, TypeOK
  <2>4. CASE RivalOpens BY <2>4 DEF RivalOpens, Inv, TypeOK
  <2> QED BY <2>1, <2>2, <2>3, <2>4
<1>2. NoLeftover'
  BY DEF Comes, Goes, LinkDrops, RivalOpens, RivalCloses, Tick, Broken, Inv, NoLeftover
<1>3. UNCHANGED <<fits, phase, support, turnedUp, known, line, untold>>
  BY DEF Comes, Goes, LinkDrops, RivalOpens, RivalCloses, Tick, Broken
<1>4. (Unannounced /\ Accepted /\ CameAlone /\ Offered)'
  BY <1>3 DEF Inv, Unannounced, Accepted, CameAlone, Offered, HasDevice
<1> QED BY <1>1, <1>2, <1>4 DEF Inv

\* Something the headset says.
LEMMA AbsorbStep ==
  ASSUME Inv, NEW r \in Records, Absorb(r), replied' \subseteq Requested
  PROVE  Inv'
<1> USE DEF headset, retrying, bounds
<1>1. PICK changed \in BOOLEAN :
        /\ \/ r \in Blank /\ (changed <=> r \in known) /\ known' = known \ {r}
           \/ (r \in Volunteered \ known => changed) /\ known' = known \cup {r}
        /\ line' = IF changed /\ ~Quiet THEN Payload(Shown(r)) ELSE line
        /\ untold' = (untold /\ ~changed)
  BY DEF Absorb
<1>2. Marked(r) \subseteq Records BY DEF Marked, Records, Inv, TypeOK
<1>3. line' \in [connected : BOOLEAN, support : SUBSET Records]
  BY <1>1, <1>2 DEF Payload, Shown, HasDevice, Inv, TypeOK
<1>4. TypeOK'
  <2>1. known' \subseteq Records /\ untold' \in BOOLEAN BY <1>1 DEF Inv, TypeOK
  <2> QED BY <1>2, <1>3, <2>1 DEF Absorb, Records, Inv, TypeOK
<1>5. (NoLeftover /\ Accepted)' BY DEF Absorb, Inv, NoLeftover, Accepted, HasDevice
<1>6. Unannounced'
  BY <1>1 DEF Absorb, Inv, Unannounced, HasDevice, Payload, Quiet
<1>7. CameAlone' BY <1>1 DEF Absorb, Marked, Inv, CameAlone
<1>8. Offered'
  <2> SUFFICES ASSUME phase \in {"serving", "refreshing"}, ~untold'
               PROVE  /\ line'.support \subseteq Marked(r)
                      /\ Marked(r) \ line'.support \subseteq Volunteered \ known'
    BY DEF Absorb, Offered
  <2>1. CASE changed BY <1>1, <2>1 DEF Quiet, Payload, HasDevice, Shown
  <2>2. CASE ~changed
    <3>1. /\ line' = line /\ line.support \subseteq support
          /\ support \ line.support \subseteq Volunteered \ known
      BY <1>1, <2>2 DEF Inv, Offered
    <3>2. CASE r \in Volunteered \ known
      BY <1>1, <2>2, <3>1, <3>2 DEF Marked
    <3>3. CASE r \in Volunteered /\ r \in known
      <4>1. r \in support BY <3>3 DEF Inv, CameAlone
      <4> QED BY <1>1, <2>2, <3>1, <3>3, <4>1 DEF Marked
    <3>4. CASE r \notin Volunteered
      BY <1>1, <3>1, <3>4, ConnectionAssumption DEF Marked
    <3> QED BY <3>2, <3>3, <3>4
  <2> QED BY <2>1, <2>2
<1> QED BY <1>4, <1>5, <1>6, <1>7, <1>8 DEF Inv

\* Steps of the owner that open, read and serve.
LEMMA ServeStep ==
  ASSUME Inv,
         \/ Connects \/ Opened \/ Connected \/ Command \/ Greet \/ Refresh
         \/ Refreshed \/ Restarts
  PROVE  Inv'
<1> USE DEF headset, retrying, device, bounds
<1>1. /\ Present \subseteq Records /\ StillKnown \subseteq Records
      /\ Payload(support) \in [connected : BOOLEAN, support : SUBSET Records]
  BY DEF Present, StillKnown, Records, Payload, HasDevice, Inv, TypeOK
<1>2. Payload(Present) \in [connected : BOOLEAN, support : SUBSET Records]
  BY <1>1 DEF Payload, HasDevice, Inv, TypeOK
<1>3. TypeOK'
  <2>1. CASE Connects BY <2>1 DEF Connects, Inv, TypeOK
  <2>2. CASE Opened BY <2>2 DEF Opened, Inv, TypeOK
  <2>3. CASE Connected
    BY <2>3, <1>1, <1>2, Waits DEF Connected, Inv, TypeOK
  <2>4. CASE Command BY <2>4, <1>1 DEF Command, Inv, TypeOK
  <2>5. CASE Refresh BY <2>5 DEF Refresh, Inv, TypeOK
  <2>6. CASE Refreshed BY <2>6, <1>1, <1>2 DEF Refreshed, Inv, TypeOK
  <2>7. CASE Restarts BY <2>7 DEF Restarts, Inv, TypeOK
  <2>8. CASE Greet BY <2>8 DEF Greet, Inv, TypeOK
  <2> QED BY <2>1, <2>2, <2>3, <2>4, <2>5, <2>6, <2>7, <2>8
<1>4. (NoLeftover /\ Accepted)'
  <2>1. CASE Connects BY <2>1 DEF Connects, Inv, NoLeftover, Accepted, HasDevice
  <2>2. CASE Opened BY <2>2 DEF Opened, Inv, NoLeftover, Accepted, HasDevice
  <2>3. CASE Connected BY <2>3 DEF Connected, Inv, NoLeftover, Accepted, HasDevice
  <2>4. CASE Command BY <2>4 DEF Command, Inv, NoLeftover, Accepted, HasDevice
  <2>5. CASE Refresh BY <2>5 DEF Refresh, Inv, NoLeftover, Accepted, HasDevice
  <2>6. CASE Refreshed BY <2>6 DEF Refreshed, Inv, NoLeftover, Accepted, HasDevice
  <2>7. CASE Restarts BY <2>7 DEF Restarts, Inv, NoLeftover, Accepted, HasDevice
  <2>8. CASE Greet BY <2>8 DEF Greet, Inv, NoLeftover, Accepted, HasDevice
  <2> QED BY <2>1, <2>2, <2>3, <2>4, <2>5, <2>6, <2>7, <2>8
<1>5. Unannounced'
  <2>1. CASE Connects BY <2>1 DEF Connects, Due, Inv, Unannounced, HasDevice, Payload
  <2>2. CASE Opened BY <2>2 DEF Opened, Inv, Unannounced, HasDevice, Payload
  <2>3. CASE Connected BY <2>3 DEF Connected, Inv, Unannounced, HasDevice, Payload
  <2>4. CASE Command BY <2>4 DEF Command, Inv, Unannounced, HasDevice, Payload
  <2>5. CASE Refresh BY <2>5 DEF Refresh, Inv, Unannounced, HasDevice, Payload
  <2>6. CASE Refreshed BY <2>6 DEF Refreshed, Inv, Unannounced, HasDevice, Payload
  <2>7. CASE Restarts BY <2>7 DEF Restarts, Inv, Unannounced, HasDevice, Payload
  <2>8. CASE Greet BY <2>8 DEF Greet, Inv, Unannounced, HasDevice, Payload
  <2> QED BY <2>1, <2>2, <2>3, <2>4, <2>5, <2>6, <2>7, <2>8
<1>6. CameAlone'
  BY DEF Connects, Opened, Connected, Command, Greet, Refresh, Refreshed, Restarts, Present,
         StillKnown, Inv, CameAlone
<1>7. Offered'
  <2>1. CASE Connects BY <2>1 DEF Connects, Inv, Offered, HasDevice, Payload
  <2>2. CASE Opened BY <2>2 DEF Opened, Inv, Offered, HasDevice, Payload
  <2>3. CASE Connected BY <2>3 DEF Connected, Inv, Offered, HasDevice, Payload
  <2>4. CASE Command BY <2>4 DEF Command, Inv, Offered, HasDevice, Payload
  <2>5. CASE Refresh BY <2>5 DEF Refresh, Inv, Offered, HasDevice, Payload
  <2>6. CASE Refreshed BY <2>6 DEF Refreshed, StillKnown, Inv, Offered, HasDevice, Payload
  <2>7. CASE Restarts BY <2>7 DEF Restarts, Inv, Offered, HasDevice, Payload
  <2>8. CASE Greet BY <2>8 DEF Greet, Inv, Offered, HasDevice, Payload
  <2> QED BY <2>1, <2>2, <2>3, <2>4, <2>5, <2>6, <2>7, <2>8
<1> QED BY <1>3, <1>4, <1>5, <1>6, <1>7 DEF Inv

\* Every step.
LEMMA NextStep == ASSUME Inv, [Next]_vars PROVE Inv'
<1> USE DEF headset, retrying, device, bounds
<1>t. fails \in Nat /\ rivals \in Nat /\ hopeless \in BOOLEAN
      /\ channel \in {"nobody", "owner", "cli"}
  BY DEF Inv, TypeOK
<1>1. CASE CannotConnect
  <2>1. channel # "owner" BY <1>1 DEF CannotConnect, Due, Inv, NoLeftover
  <2> QED BY <1>1, <1>t, <2>1, DropStep DEF CannotConnect
<1>2. CASE HandshakeFails
  BY <1>2, <1>t, DropStep DEF HandshakeFails, Closed, Fault
<1>3. CASE Rejected BY <1>3, <1>t, DropStep DEF Rejected, Closed
<1>4. CASE NoticesDrop BY <1>4, <1>t, DropStep DEF NoticesDrop, Closed
<1>5. CASE RefreshFails BY <1>5, <1>t, FallStep DEF RefreshFails
<1>6. CASE Killed BY <1>6, <1>t, FallStep DEF Killed, Fault
<1>7. ASSUME NEW r \in Records, Announces(r) \/ Replies(r) PROVE Inv'
  <2>1. Absorb(r) BY <1>7 DEF Announces, Replies
  <2>2. replied' \subseteq Requested BY <1>7 DEF Announces, Replies, Inv, TypeOK
  <2> QED BY <2>1, <2>2, AbsorbStep
<1>8. CASE UNCHANGED vars
  BY <1>8 DEF vars, Inv, TypeOK, NoLeftover, Unannounced, Accepted, CameAlone,
              Offered, HasDevice
<1>9. CASE Unacknowledged
  <2>1. Fault BY <1>9 DEF Unacknowledged
  <2>2. CASE Falls BY <2>1, <2>2, <1>t, FallStep DEF Fault
  <2>3. CASE Drop /\ Closed /\ UNCHANGED hopeless
    BY <2>1, <2>3, <1>t, DropStep DEF Closed, Fault
  <2> QED BY <1>9, <2>2, <2>3 DEF Unacknowledged
<1> QED
  BY <1>1, <1>2, <1>3, <1>4, <1>5, <1>6, <1>7, <1>8, <1>9, WorldStep, ServeStep
  DEF Next, Owner

-----------------------------------------------------------------------------
\* The invariant of the connection.
THEOREM Invariance == Spec => []Inv
<1> QED BY InitInv, NextStep, PTL DEF Spec

\* Every variable keeps its type; the wait never exceeds its maximum.
THEOREM TypeCorrect == Spec => []TypeOK
<1>1. Inv => TypeOK BY DEF Inv
<1> QED BY <1>1, Invariance, PTL

\* No session of the owner's is left on the headset after a failed attempt, a
\* drop or a death.
THEOREM NothingLeftOpen == Spec => []NoLeftover
<1>1. Inv => NoLeftover BY DEF Inv
<1> QED BY <1>1, Invariance, PTL

\* A connected headset is shown only when it was read, and never a rejected one.
THEOREM ShownOnlyWhenRead == Spec => []ShownWhenRead
<1>1. Inv => ShownWhenRead
  BY DEF Inv, ShownWhenRead, Unannounced, Accepted, HasDevice
<1> QED BY <1>1, Invariance, PTL

\* The panel offers what the headset was found to have, but for records of which
\* nothing is known and until a refresh that found something else is told.
THEOREM OffersAreCurrent == Spec => []OffersCurrent
<1>1. Inv => OffersCurrent BY DEF Inv, Offered, OffersCurrent
<1> QED BY <1>1, Invariance, PTL

-----------------------------------------------------------------------------
(* The clients *)

\* Of every client: who is served, and who has a command under way.
Books(c) ==
    /\ pc[c] \in {"start", "asked"} => c \notin served /\ lines[c] = <<>>
    /\ pc[c] \in {"asking", "knocking"} /\ c \notin served => lines[c] = <<>>
    /\ pc[c] = "sent" => c \in served
    /\ pc[c] \notin {"sent", "left"} => c \notin unheard /\ fate[c] = "" /\ verdict[c] = ""
    /\ pc[c] = "sent" => verdict[c] = ""

\* Of a client for which nobody else made the owner publish.
Mine(c) ==
    /\ pc[c] = "asking" /\ lines[c] # <<>> => lines[c] = <<Line(value, error)>>
    /\ pc[c] \in {"asked", "knocking"} => saw[c] = value
    /\ pc[c] = "knocking" /\ lines[c] # <<>> => Tail(lines[c]) = <<>>
    /\ pc[c] = "sent" /\ c \in unheard =>
          saw[c] = value /\ lines[c] = <<>> /\ fate[c] = ""
    /\ pc[c] = "sent" /\ c \notin unheard =>
          /\ lines[c] # <<>> /\ fate[c] # ""
          /\ fate[c] = "failed" => Head(lines[c]).error = TRUE
    /\ pc[c] = "left" => c \notin unheard
    /\ verdict[c] = "done" => fate[c] \in {"written", "refused"}
    /\ fate[c] = "written" => c \in flipped

ClientInv ==
    /\ ClientTypeOK
    /\ \A c \in Clients : Books(c)
    /\ \A c \in Clients \cap alone : Mine(c)

\* What an action does not touch stays true of a client.
LEMMA Kept ==
    ASSUME NEW c \in Clients, Books(c), c \in alone => Mine(c),
           pc'[c] = pc[c], lines'[c] = lines[c], saw'[c] = saw[c],
           verdict'[c] = verdict[c], fate'[c] = fate[c],
           c \in served' <=> c \in served, c \in unheard' <=> c \in unheard,
           c \in flipped => c \in flipped', c \in alone' => c \in alone,
           value' = value, error' = error
    PROVE  Books(c)' /\ (c \in alone' => Mine(c)')
BY DEF Books, Mine, Line

LEMMA SentTypes ==
    ASSUME ClientTypeOK, NEW v \in BOOLEAN, NEW e \in BOOLEAN, Send(Line(v, e))
    PROVE  lines' \in [Clients -> Seq(Lines)]
<1>1. Line(v, e) \in Lines
  BY DEF Line, Lines
<1>2. \A c \in Clients : lines[c] \in Seq(Lines)
  BY DEF ClientTypeOK
<1>3. \A c \in Clients : Append(lines[c], Line(v, e)) \in Seq(Lines)
  BY <1>1, <1>2, AppendProperties
<1> QED BY <1>2, <1>3 DEF Send

\* A line that is published for others: only the books on those served matter.
LEMMA PublishedForOthers ==
    ASSUME ClientInv, NEW told, Send(told), NEW c \in Clients, c \notin alone',
           UNCHANGED <<pc, served, verdict>>, fate'[c] = fate[c],
           c \in unheard' => c \in unheard
    PROVE  Books(c)' /\ (c \in alone' => Mine(c)')
<1>1. c \notin served => lines'[c] = lines[c]
  BY DEF Send
<1> QED BY <1>1 DEF ClientInv, Books

LEMMA Typed ==
    ASSUME ClientTypeOK, [ClientNext]_clientVars
    PROVE  ClientTypeOK'
<1>n. ASSUME Event PROVE news' \in Nat
  <2>1. news \in Nat
    BY DEF ClientTypeOK
  <2> QED BY <1>n, <2>1 DEF Event
<1>b. value \in BOOLEAN /\ error \in BOOLEAN
  BY DEF ClientTypeOK
<1>l. \A d \in Clients : lines[d] \in Seq(Lines)
  BY DEF ClientTypeOK
<1>1. CASE Press
  <2>1. lines' \in [Clients -> Seq(Lines)]
    <3>1. (~value) \in BOOLEAN
      OBVIOUS
    <3> QED BY <1>1, <1>b, <3>1, SentTypes DEF Press, Publish
  <2> QED BY <1>1, <1>n, <2>1 DEF Press, Publish, owner, cli, ClientTypeOK
<1>2. CASE Blocks
  BY <1>2, <1>n DEF Blocks, cli, ClientTypeOK
<1>3. CASE Unblocks
  <2>1. CASE up' \in BOOLEAN /\ Publish(value, ~up', {})
    <3>1. (~up') \in BOOLEAN
      OBVIOUS
    <3>2. lines' \in [Clients -> Seq(Lines)]
      BY <2>1, <1>b, <3>1, SentTypes DEF Publish
    <3> QED BY <1>3, <2>1, <3>1, <3>2, <1>b DEF Unblocks, Publish, cli, ClientTypeOK
  <2>2. CASE UNCHANGED <<up, value, error, lines, alone>>
    BY <1>3, <2>2 DEF Unblocks, cli, ClientTypeOK
  <2> QED BY <1>3, <2>1, <2>2 DEF Unblocks
<1>4. CASE Dies
  BY <1>4, <1>n DEF Dies, cli, ClientTypeOK
<1>5. ASSUME NEW d \in Clients, Accept(d) PROVE ClientTypeOK'
  <2>1. <<Line(value, error)>> \in Seq(Lines)
    <3>1. Line(value, error) \in Lines
      BY DEF Line, Lines, ClientTypeOK
    <3> QED BY <3>1
  <2>2. lines' \in [Clients -> Seq(Lines)]
    BY <1>5, <2>1 DEF Accept, ClientTypeOK
  <2> QED BY <1>5, <2>2 DEF Accept, owner, cli, ClientTypeOK
<1>6. ASSUME NEW d \in Clients, Hear(d) PROVE ClientTypeOK'
  <2>1. PICK outcome \in Outcome :
          /\ fate' = [fate EXCEPT ![d] = outcome]
          /\ flipped' = flipped \cup {x \in {d} : outcome = "written" /\ value = saw[d]}
          /\ Publish(IF outcome = "written" THEN ~saw[d] ELSE value, outcome = "failed", {d})
    BY <1>6, Zenon DEF Hear
  <2>2. outcome \in {"written", "refused", "failed"}
    BY <2>1 DEF Outcome
  <2>3. (IF outcome = "written" THEN ~saw[d] ELSE value) \in BOOLEAN
    BY <1>b
  <2>4. (outcome = "failed") \in BOOLEAN
    OBVIOUS
  <2>5. lines' \in [Clients -> Seq(Lines)]
    BY <2>1, <2>3, <2>4, SentTypes DEF Publish
  <2>6. value' \in BOOLEAN /\ error' \in BOOLEAN /\ alone' \subseteq Clients
    BY <2>1, <2>3, <2>4 DEF Publish
  <2>7. fate' \in [Clients -> {"", "written", "refused", "failed"}] /\ flipped' \subseteq Clients
    BY <2>1, <2>2 DEF ClientTypeOK
  <2> QED BY <1>6, <2>5, <2>6, <2>7 DEF Hear, owner, cli, ClientTypeOK
<1>7. ASSUME NEW d \in Clients, Reap(d) PROVE ClientTypeOK'
  BY <1>7 DEF Reap, owner, cli, ClientTypeOK
<1>8. ASSUME NEW d \in Clients, Unserved(d)
      PROVE  served' \subseteq Clients /\ lines' \in [Clients -> Seq(Lines)]
  <2>1. <<>> \in Seq(Lines)
    OBVIOUS
  <2> QED BY <1>8, <2>1 DEF Unserved, ClientTypeOK
<1>9. ASSUME NEW d \in Clients, NEW wrong, Report(d, wrong)
      PROVE  verdict' \in [Clients -> {"", "done", "error"}]
  BY <1>9 DEF Report, ClientTypeOK
<1>10. ASSUME NEW d \in Clients, Asks(d) PROVE ClientTypeOK'
  BY <1>10 DEF Asks, Step, World, owner, ClientTypeOK
<1>11. ASSUME NEW d \in Clients, Learns(d) PROVE ClientTypeOK'
  <2>1. Head(lines[d]) \in Lines
    BY <1>11, <1>l, HeadTailProperties DEF Learns
  <2>2. saw' \in [Clients -> BOOLEAN]
    BY <1>11, <2>1 DEF Learns, Lines, ClientTypeOK
  <2> QED BY <1>8, <1>11, <2>2 DEF Learns, Step, World, owner, ClientTypeOK
<1>12. ASSUME NEW d \in Clients, GivesUp(d) PROVE ClientTypeOK'
  BY <1>8, <1>12 DEF GivesUp, Step, World, owner, ClientTypeOK
<1>13. ASSUME NEW d \in Clients, Knocks(d) PROVE ClientTypeOK'
  BY <1>13 DEF Knocks, Step, World, owner, ClientTypeOK
<1>14. ASSUME NEW d \in Clients, NobodyThere(d) PROVE ClientTypeOK'
  BY <1>9, <1>14 DEF NobodyThere, Step, World, owner, ClientTypeOK
<1>15. ASSUME NEW d \in Clients, Sends(d) PROVE ClientTypeOK'
  <2>1. Head(lines[d]) \in Lines /\ Tail(lines[d]) \in Seq(Lines)
    BY <1>15, <1>l, HeadTailProperties DEF Sends
  <2>2. first' \in [Clients -> BOOLEAN] /\ lines' \in [Clients -> Seq(Lines)]
    BY <1>15, <2>1 DEF Sends, Lines, ClientTypeOK
  <2> QED BY <1>15, <2>2 DEF Sends, Step, World, owner, ClientTypeOK
<1>16. ASSUME NEW d \in Clients, NotGreeted(d) PROVE ClientTypeOK'
  BY <1>8, <1>9, <1>16 DEF NotGreeted, Step, World, owner, ClientTypeOK
<1>17. ASSUME NEW d \in Clients, TakesAnswer(d) PROVE ClientTypeOK'
  BY <1>8, <1>9, <1>17 DEF TakesAnswer, Step, World, owner, ClientTypeOK
<1>18. ASSUME NEW d \in Clients, TakesGreeting(d) PROVE ClientTypeOK'
  BY <1>8, <1>9, <1>18 DEF TakesGreeting, Step, World, owner, ClientTypeOK
<1>19. ASSUME NEW d \in Clients, GoesAlone(d) PROVE ClientTypeOK'
  BY <1>9, <1>19 DEF GoesAlone, Step, World, owner, ClientTypeOK
<1>20. CASE UNCHANGED clientVars
  BY <1>20 DEF clientVars, owner, cli, ClientTypeOK
<1> QED
  BY <1>1, <1>2, <1>3, <1>4, <1>5, <1>6, <1>7, <1>10, <1>11, <1>12, <1>13, <1>14, <1>15,
     <1>16, <1>17, <1>18, <1>19, <1>20 DEF ClientNext, Client

\* An action of client d leaves the others as they are.
OthersKept(d) ==
    \A c \in Clients \ {d} :
        /\ pc'[c] = pc[c] /\ lines'[c] = lines[c] /\ saw'[c] = saw[c]
        /\ verdict'[c] = verdict[c] /\ fate'[c] = fate[c]
        /\ c \in served' <=> c \in served
        /\ c \in unheard' <=> c \in unheard
        /\ c \in flipped => c \in flipped'
        /\ c \in alone' => c \in alone

LEMMA ClientKeepsOthers ==
    ASSUME ClientTypeOK, NEW d \in Clients, Client(d)
    PROVE  OthersKept(d) /\ value' = value /\ error' = error
<1>1. UNCHANGED <<value, error, fate, flipped>>
  BY DEF Client, Asks, Learns, GivesUp, Knocks, NobodyThere, Sends, NotGreeted, TakesAnswer,
         TakesGreeting, GoesAlone, World
<1>2. ASSUME NEW c \in Clients \ {d}
      PROVE  pc'[c] = pc[c] /\ lines'[c] = lines[c] /\ saw'[c] = saw[c]
                /\ verdict'[c] = verdict[c]
  BY DEF Client, Asks, Learns, GivesUp, Knocks, NobodyThere, Sends, NotGreeted, TakesAnswer,
         TakesGreeting, GoesAlone, Step, Unserved, Report, ClientTypeOK
<1>3. ASSUME NEW c \in Clients \ {d}
      PROVE  /\ c \in served' <=> c \in served
             /\ c \in unheard' <=> c \in unheard
             /\ c \in alone' => c \in alone
  BY DEF Client, Asks, Learns, GivesUp, Knocks, NobodyThere, Sends, NotGreeted, TakesAnswer,
         TakesGreeting, GoesAlone, Unserved
<1> QED BY <1>1, <1>2, <1>3 DEF OthersKept

LEMMA OthersFine ==
    ASSUME ClientInv, NEW d \in Clients, OthersKept(d), value' = value, error' = error,
           NEW c \in Clients \ {d}
    PROVE  Books(c)' /\ (c \in alone' => Mine(c)')
<1>1. Books(c) /\ (c \in alone => Mine(c))
  BY DEF ClientInv
<1> QED BY <1>1, Kept DEF OthersKept

Fine(c) == Books(c)' /\ (c \in alone' => Mine(c)')

LEMMA RoomForOne ==
    ASSUME NEW s, s = <<>>
    PROVE  Len(s) < 2
OBVIOUS

LEMMA HeadOfOne ==
    ASSUME NEW x
    PROVE  Head(<<x>>) = x /\ Tail(<<x>>) = <<>> /\ <<x>> # <<>>
OBVIOUS

\* What a client does to itself.
LEMMA ClientFine ==
    ASSUME ClientInv, NEW c \in Clients, Client(c)
    PROVE  Fine(c)
<1>1. Books(c) /\ (c \in alone => Mine(c))
  BY DEF ClientInv
<1>2. ClientTypeOK
  BY DEF ClientInv
<1> USE <1>1 DEF Fine, Books, Mine, Step, Unserved, Report, World
<1>3. /\ pc \in [Clients -> {"start", "asking", "asked", "knocking", "sent", "alone", "left"}]
      /\ lines \in [Clients -> Seq(Lines)] /\ saw \in [Clients -> BOOLEAN]
      /\ verdict \in [Clients -> {"", "done", "error"}]
  BY <1>2 DEF ClientTypeOK
<1>4. CASE Asks(c)
  BY <1>3, <1>4 DEF Asks
<1>5. CASE Learns(c)
  <2>1. c \in alone => saw'[c] = value
    <3>1. saw'[c] = Head(lines[c]).value
      BY <1>3, <1>5 DEF Learns
    <3>2. c \in alone => lines[c] = <<Line(value, error)>>
      BY <1>5 DEF Learns
    <3>3. Head(<<Line(value, error)>>) = Line(value, error)
      BY HeadOfOne
    <3>4. Line(value, error).value = value
      BY DEF Line
    <3> QED BY <3>1, <3>2, <3>3, <3>4
  <2> QED BY <1>3, <1>5, <2>1 DEF Learns
<1>6. CASE GivesUp(c)
  BY <1>3, <1>6 DEF GivesUp
<1>7. CASE Knocks(c)
  BY <1>3, <1>7 DEF Knocks
<1>8. CASE NobodyThere(c)
  BY <1>3, <1>8 DEF NobodyThere
<1>9. CASE Sends(c)
  BY <1>3, <1>9 DEF Sends
<1>10. CASE NotGreeted(c)
  BY <1>3, <1>10 DEF NotGreeted
<1>11. CASE TakesAnswer(c)
  <2>1. c \in alone => c \notin unheard /\ fate[c] # ""
    BY <1>11 DEF TakesAnswer
  <2>2. ASSUME c \in alone, fate[c] = "failed" PROVE verdict'[c] = "error"
    <3>1. Head(lines[c]).error = TRUE
      BY <1>11, <2>1, <2>2 DEF TakesAnswer
    <3>2. verdict' = [verdict EXCEPT ![c] = "error"]
      BY <1>11, <3>1 DEF TakesAnswer
    <3> QED BY <1>3, <3>2
  <2>3. fate[c] \in {"", "written", "refused", "failed"}
    BY <1>2 DEF ClientTypeOK
  <2> QED BY <1>3, <1>11, <2>1, <2>2, <2>3 DEF TakesAnswer
<1>12. CASE TakesGreeting(c)
  BY <1>3, <1>12 DEF TakesGreeting
<1>13. CASE GoesAlone(c)
  BY <1>3, <1>13 DEF GoesAlone
<1> QED
  BY <1>4, <1>5, <1>6, <1>7, <1>8, <1>9, <1>10, <1>11, <1>12, <1>13 DEF Client

LEMMA OwnerFine ==
    ASSUME ClientInv, NEW c \in Clients,
           \/ Press \/ Blocks \/ Unblocks \/ Dies \/ UNCHANGED clientVars
           \/ \E d \in Clients : Accept(d) \/ Hear(d) \/ Reap(d)
    PROVE  Fine(c)
<1>1. Books(c) /\ (c \in alone => Mine(c))
  BY DEF ClientInv
<1>2. ClientTypeOK
  BY DEF ClientInv
<1> USE DEF Fine
<1>3. CASE Press
  BY <1>3, PublishedForOthers DEF Press, Publish, cli
<1>4. CASE Unblocks
  <2>1. CASE Publish(value, ~up', {})
    BY <1>4, <2>1, PublishedForOthers DEF Unblocks, Publish, cli
  <2>2. CASE UNCHANGED <<up, value, error, lines, alone>>
    BY <1>1, <1>4, <2>2, Kept DEF Unblocks, cli
  <2> QED BY <1>4, <2>1, <2>2 DEF Unblocks
<1>5. CASE Blocks \/ Dies
  BY <1>1, <1>5, Kept DEF Blocks, Dies, cli
<1>6. CASE UNCHANGED clientVars
  BY <1>1, <1>6, Kept DEF clientVars, cli, owner
<1>7. ASSUME NEW d \in Clients, Accept(d) PROVE Fine(c)
  <2>1. CASE c = d
    <3>1. lines'[c] = <<Line(value, error)>>
      BY <1>2, <1>7, <2>1 DEF Accept, ClientTypeOK
    <3>2. Tail(<<Line(value, error)>>) = <<>> /\ <<Line(value, error)>> # <<>>
      OBVIOUS
    <3> QED BY <1>1, <1>7, <2>1, <3>1, <3>2 DEF Accept, Books, Mine, cli, Line
  <2>2. CASE c # d
    <3>1. lines'[c] = lines[c] /\ (c \in served' <=> c \in served)
      BY <1>2, <1>7, <2>2 DEF Accept, ClientTypeOK
    <3> QED BY <1>1, <1>7, <3>1, Kept DEF Accept, cli
  <2> QED BY <2>1, <2>2
<1>8. ASSUME NEW d \in Clients, Hear(d) PROVE Fine(c)
  <2>1. PICK outcome \in Outcome :
          /\ fate' = [fate EXCEPT ![d] = outcome]
          /\ flipped' = flipped \cup {x \in {d} : outcome = "written" /\ value = saw[d]}
          /\ Publish(IF outcome = "written" THEN ~saw[d] ELSE value, outcome = "failed", {d})
    BY <1>8, Zenon DEF Hear
  <2>2. DEFINE v == IF outcome = "written" THEN ~saw[d] ELSE value
               told == Line(v, outcome = "failed")
  <2>3. Send(told) /\ alone' = alone \cap {d}
    BY <2>1 DEF Publish
  <2>4. UNCHANGED <<pc, served, verdict, saw>> /\ unheard' = unheard \ {d}
    BY <1>8 DEF Hear, cli
  <2>5. CASE c # d
    <3>1. fate'[c] = fate[c]
      BY <1>2, <2>1, <2>5 DEF ClientTypeOK
    <3> HIDE DEF v, told
    <3> QED BY <2>3, <2>4, <2>5, <3>1, PublishedForOthers
  <2>6. CASE c = d
    <3>1. c \in unheard /\ pc[c] \in {"sent", "left"}
      BY <1>1, <1>2, <1>8, <2>6 DEF Hear, Books, ClientTypeOK
    <3>2. Books(c)'
      BY <1>1, <2>4, <3>1 DEF Books
    <3>3. ASSUME c \in alone
          PROVE  Mine(c)'
      <4>1. pc[c] = "sent" /\ saw[c] = value /\ lines[c] = <<>> /\ verdict[c] = ""
               /\ c \in served
        BY <1>1, <3>1, <3>3 DEF Mine, Books
      <4>2. lines'[c] = Append(<<>>, told)
        <5> HIDE DEF told
        <5>1. Len(lines[c]) < 2
          BY <4>1, RoomForOne
        <5> QED BY <2>3, <4>1, <5>1 DEF Send
      <4>3. lines'[c] # <<>> /\ Head(lines'[c]) = told
        <5> HIDE DEF told
        <5> QED BY <4>2
      <4>4. fate'[c] = outcome /\ outcome \in {"written", "refused", "failed"}
        BY <1>2, <2>1, <2>6 DEF ClientTypeOK, Outcome
      <4>5. outcome = "failed" => told.error = TRUE
        BY DEF Line
      <4>6. outcome = "written" => c \in flipped'
        BY <2>1, <2>6, <4>1
      <4> HIDE DEF v, told
      <4> QED BY <2>4, <2>6, <4>1, <4>3, <4>4, <4>5, <4>6 DEF Mine
    <3> QED BY <2>3, <3>2, <3>3
  <2> QED BY <2>5, <2>6
<1>9. ASSUME NEW d \in Clients, Reap(d) PROVE Fine(c)
  BY <1>1, <1>9 DEF Reap, Books, Mine, cli
<1> QED BY <1>3, <1>4, <1>5, <1>6, <1>7, <1>8, <1>9

\* The inductive invariant of commands and their answers.
THEOREM ClientInvariance == ClientSpec => []ClientInv
<1>1. ClientInit => ClientInv
  <2>1. SUFFICES ASSUME ClientInit PROVE ClientInv
    OBVIOUS
  <2>2. ClientTypeOK
    <3>1. \A c \in Clients : <<>> \in Seq(Lines)
      OBVIOUS
    <3>2. lines \in [Clients -> Seq(Lines)]
      BY <2>1, <3>1 DEF ClientInit
    <3> QED BY <2>1, <3>2 DEF ClientInit, ClientTypeOK
  <2>3. \A c \in Clients : Books(c) /\ Mine(c)
    BY <2>1 DEF ClientInit, Books, Mine
  <2> QED BY <2>2, <2>3 DEF ClientInv
<1>2. ClientInv /\ [ClientNext]_clientVars => ClientInv'
  <2>1. SUFFICES ASSUME ClientInv, [ClientNext]_clientVars PROVE ClientInv'
    OBVIOUS
  <2>2. ClientTypeOK'
    BY <2>1, Typed DEF ClientInv
  <2>3. ASSUME NEW c \in Clients PROVE Fine(c)
    <3>1. ASSUME NEW d \in Clients, Client(d), c # d PROVE Fine(c)
      <4>1. OthersKept(d) /\ value' = value /\ error' = error
        BY <2>1, <3>1, ClientKeepsOthers DEF ClientInv
      <4> QED BY <2>1, <3>1, <4>1, OthersFine DEF Fine
    <3>2. CASE Client(c)
      BY <2>1, <3>2, ClientFine
    <3> QED BY <2>1, <3>1, <3>2, OwnerFine DEF ClientNext
  <2> QED BY <2>2, <2>3 DEF ClientInv, Fine
<1> QED BY <1>1, <1>2, PTL DEF ClientSpec

\* Every variable of Command keeps its type.
THEOREM ClientTypeCorrect == ClientSpec => []ClientTypeOK
<1>1. ClientInv => ClientTypeOK
  BY DEF ClientInv
<1> QED BY ClientInvariance, <1>1, PTL

\* What headsetctl reports as done was done or refused on its row, while nobody
\* else made the owner publish (client.py:66).
THEOREM AnswersAreOurs == ClientSpec => []AnswerIsMine
<1>1. ClientInv => AnswerIsMine
  BY DEF ClientInv, Mine, AnswerIsMine
<1> QED BY ClientInvariance, <1>1, PTL

\* A toggle toggles, while nobody else made the owner publish (cli.py:148).
THEOREM TogglesFlip == ClientSpec => []ToggleFlips
<1>1. ClientInv => ToggleFlips
  BY DEF ClientInv, Mine, ToggleFlips
<1> QED BY ClientInvariance, <1>1, PTL
=============================================================================
