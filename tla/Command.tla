------------------------------ MODULE Command ------------------------------
(***************************************************************************)
(* headsetctl toggle, by way of the helper that owns the headset           *)
(* (cli.cmd_set, client.state and client.send; Owner.accept, handle and    *)
(* publish).  A command is a value worked out from one published line, and *)
(* its outcome is read from the next line that arrives, whoever it is      *)
(* about: other commands and the headset itself make the owner publish     *)
(* too, and the owner may be busy reading, or gone.                        *)
(***************************************************************************)
EXTENDS Naturals, Sequences

CONSTANTS
    Clients,    \* commands given at a terminal, each a process of its own
    MaxNews     \* bound: presses on the headset, losses of the link, reads

VARIABLES
    alive,      \* there is an owner
    busy,       \* it is in a blocking read, and serves nobody
    up,         \* it has a device
    value,      \* the setting, as its snapshot shows it
    error,      \* error # ""
    pc,         \* [Clients -> "start", "asking", "asked", "knocking", "sent", "alone", "left"]
    lines,      \* [Clients -> lines published to it and not read]
    served,     \* clients whose connection was accepted
    unheard,    \* clients whose command is in their socket
    saw,        \* [Clients -> the value it found in the first line]
    first,      \* [Clients -> whether the greeting held a message]
    verdict,    \* [Clients -> "", "done", "error"]
    fate,       \* [Clients -> "", "written", "refused", "failed"]: its command
    flipped,    \* history: clients whose command changed the value
    alone,      \* history: clients for which nobody else made the owner publish
    news        \* what happened so far, for the bound

owner == <<alive, busy, up>>
cli == <<pc, saw, first, verdict>>
clientVars == <<owner, value, error, cli, lines, served, unheard, fate, flipped, alone, news>>

ClientInit ==
    /\ alive = TRUE /\ busy \in BOOLEAN /\ up \in BOOLEAN
    /\ value = FALSE /\ error = FALSE
    /\ pc = [c \in Clients |-> "start"]
    /\ lines = [c \in Clients |-> <<>>]
    /\ served = {} /\ unheard = {}
    /\ saw = [c \in Clients |-> FALSE]
    /\ first = [c \in Clients |-> FALSE]
    /\ verdict = [c \in Clients |-> ""]
    /\ fate = [c \in Clients |-> ""]
    /\ flipped = {}
    /\ alone = Clients
    /\ news = 0

----------------------------------------------------------------------------
(* The owner *)

Event == news < MaxNews /\ news' = news + 1

Line(v, e) == [value |-> v, error |-> e]

\* To everyone whose connection was accepted; nobody reads more than two.
Send(line) ==
    lines' = [c \in Clients |->
                 IF c \in served /\ Len(lines[c]) < 2 THEN Append(lines[c], line)
                                                      ELSE lines[c]]

\* Published for somebody's sake.
Publish(v, e, whom) ==
    /\ value' = v /\ error' = e
    /\ Send(Line(v, e))
    /\ alone' = alone \cap whom

\* Mutant: a reading that comes in is kept and not published.
PressUnpublished ==
    /\ alive /\ up /\ Event
    /\ value' = ~value
    /\ UNCHANGED <<owner, error, cli, lines, served, unheard, fate, flipped, alone>>

\* The headset reports that the setting was changed on it.
Press ==
    /\ alive /\ up /\ Event
    /\ Publish(~value, error, {})
    /\ UNCHANGED <<owner, cli, served, unheard, fate, flipped>>

\* connect() or a refresh keeps the loop from everything else, for seconds.
Blocks ==
    /\ alive /\ ~busy /\ Event
    /\ busy' = TRUE
    /\ UNCHANGED <<alive, up, value, error, cli, lines, served, unheard, fate, flipped, alone>>

\* It ends with a headset that is read, or dropped: either is published.  The end of
\* a refresh is only if there was a message to retract.
Unblocks ==
    /\ alive /\ busy
    /\ busy' = FALSE
    /\ \/ up' \in BOOLEAN /\ Publish(value, ~up', {})
       \/ up /\ ~error /\ UNCHANGED <<up, value, error, lines, alone>>
    /\ UNCHANGED <<alive, cli, served, unheard, fate, flipped, news>>

Dies ==
    /\ alive /\ Event
    /\ alive' = FALSE
    /\ UNCHANGED <<busy, up, value, error, cli, lines, served, unheard, fate, flipped, alone>>

Serving == alive /\ ~busy

\* Owner.accept: a client is greeted with the state there is.
Accept(c) ==
    /\ Serving /\ pc[c] \in {"asking", "knocking"} /\ c \notin served
    /\ served' = served \cup {c}
    /\ lines' = [lines EXCEPT ![c] = <<Line(value, error)>>]
    /\ UNCHANGED <<owner, value, error, cli, unheard, fate, flipped, alone, news>>

\* "failed": there is no headset, or it does not have the setting.
Outcome == {"failed"} \cup IF up THEN {"written", "refused"} ELSE {}

\* Owner.handle and apply: written, refused on its row, or a message; published
\* in any case.  The client may have left by then.
Hear(c) ==
    /\ Serving /\ c \in unheard
    /\ unheard' = unheard \ {c}
    /\ \E outcome \in Outcome :
         /\ fate' = [fate EXCEPT ![c] = outcome]
         /\ flipped' = flipped \cup {d \in {c} : outcome = "written" /\ value = saw[c]}
         /\ Publish(IF outcome = "written" THEN ~saw[c] ELSE value, outcome = "failed", {c})
    /\ UNCHANGED <<owner, cli, served, news>>

\* What a client left behind is dropped with its connection.
Reap(c) ==
    /\ Serving /\ c \in unheard /\ pc[c] = "left"
    /\ unheard' = unheard \ {c}
    /\ UNCHANGED <<owner, value, error, cli, lines, served, fate, flipped, alone, news>>

----------------------------------------------------------------------------
(* headsetctl *)

Step(c, from, to) == pc[c] = from /\ pc' = [pc EXCEPT ![c] = to]

Unserved(c) == served' = served \ {c} /\ lines' = [lines EXCEPT ![c] = <<>>]

World == <<owner, value, error, fate, flipped, news>>

Report(c, wrong) == verdict' = [verdict EXCEPT ![c] = IF wrong THEN "error" ELSE "done"]

\* client.state connects, or finds no owner to ask.
Asks(c) ==
    /\ Step(c, "start", IF alive THEN "asking" ELSE "alone")
    /\ alone' = alone \cup {c}
    /\ UNCHANGED <<World, lines, served, unheard, saw, first, verdict>>

\* The value to be set is the opposite of the one in this line.
Learns(c) ==
    /\ Step(c, "asking", "asked") /\ lines[c] # <<>>
    /\ saw' = [saw EXCEPT ![c] = Head(lines[c]).value]
    /\ Unserved(c)
    /\ UNCHANGED <<World, unheard, first, verdict, alone>>

\* The deadline passes, or the owner is gone: a session of its own (one_shot).
GivesUp(c) ==
    /\ Step(c, "asking", "alone") /\ lines[c] = <<>> /\ ~Serving
    /\ Unserved(c)
    /\ UNCHANGED <<World, unheard, saw, first, verdict, alone>>

\* client.send connects again.
Knocks(c) ==
    /\ alive /\ Step(c, "asked", "knocking")
    /\ UNCHANGED <<World, lines, served, unheard, saw, first, verdict, alone>>

NobodyThere(c) ==
    /\ ~alive /\ Step(c, "asked", "left")
    /\ Report(c, TRUE)
    /\ UNCHANGED <<World, lines, served, unheard, saw, first, alone>>

\* Mutant: the greeting is left unread, and the next line read is it.
SendsUnread(c) ==
    /\ Step(c, "knocking", "sent") /\ lines[c] # <<>>
    /\ first' = [first EXCEPT ![c] = Head(lines[c]).error]
    /\ unheard' = unheard \cup {c}
    /\ UNCHANGED <<World, lines, served, saw, verdict, alone>>

\* The greeting is read, the command is sent.
Sends(c) ==
    /\ Step(c, "knocking", "sent") /\ lines[c] # <<>>
    /\ first' = [first EXCEPT ![c] = Head(lines[c]).error]
    /\ lines' = [lines EXCEPT ![c] = Tail(@)]
    /\ unheard' = unheard \cup {c}
    /\ UNCHANGED <<World, served, saw, verdict, alone>>

\* Not even a greeting in time: nothing is heard of the command.
NotGreeted(c) ==
    /\ Step(c, "knocking", "left") /\ lines[c] = <<>> /\ ~Serving
    /\ Report(c, TRUE) /\ Unserved(c)
    /\ UNCHANGED <<World, unheard, saw, first, alone>>

\* The next line is the answer.
TakesAnswer(c) ==
    /\ Step(c, "sent", "left") /\ lines[c] # <<>>
    /\ Report(c, Head(lines[c]).error) /\ Unserved(c)
    /\ UNCHANGED <<World, unheard, saw, first, alone>>

\* No line before the deadline or the end: the greeting is the answer.
TakesGreeting(c) ==
    /\ Step(c, "sent", "left") /\ lines[c] = <<>> /\ ~Serving
    /\ Report(c, first[c]) /\ Unserved(c)
    /\ alone' = alone \ {c}
    /\ UNCHANGED <<World, unheard, saw, first>>

\* Its own session: written, or refused by the headset or by the driver.
GoesAlone(c) ==
    /\ Step(c, "alone", "left")
    /\ \E wrong \in BOOLEAN : Report(c, wrong)
    /\ alone' = alone \ {c}
    /\ UNCHANGED <<World, lines, served, unheard, saw, first>>

Client(c) ==
    \/ Asks(c) \/ Learns(c) \/ GivesUp(c) \/ Knocks(c) \/ NobodyThere(c) \/ Sends(c)
    \/ NotGreeted(c) \/ TakesAnswer(c) \/ TakesGreeting(c) \/ GoesAlone(c)

ClientNext ==
    \/ Press \/ Blocks \/ Unblocks \/ Dies
    \/ \E c \in Clients : Accept(c) \/ Hear(c) \/ Reap(c) \/ Client(c)

ClientSpec == ClientInit /\ [][ClientNext]_clientVars

----------------------------------------------------------------------------
(* Properties *)

Lines == [value : BOOLEAN, error : BOOLEAN]

ClientTypeOK ==
    /\ alive \in BOOLEAN /\ busy \in BOOLEAN /\ up \in BOOLEAN
    /\ value \in BOOLEAN /\ error \in BOOLEAN
    /\ pc \in [Clients -> {"start", "asking", "asked", "knocking", "sent", "alone", "left"}]
    /\ lines \in [Clients -> Seq(Lines)]
    /\ served \subseteq Clients /\ unheard \subseteq Clients
    /\ saw \in [Clients -> BOOLEAN] /\ first \in [Clients -> BOOLEAN]
    /\ verdict \in [Clients -> {"", "done", "error"}]
    /\ fate \in [Clients -> {"", "written", "refused", "failed"}]
    /\ flipped \subseteq Clients /\ alone \subseteq Clients
    /\ news \in Nat

\* While its command alone makes the owner publish, and the owner answers, what
\* a client reports as done was done, or is refused on the setting's row.
AnswerIsMine ==
    \A c \in Clients \cap alone :
        verdict[c] = "done" => fate[c] \in {"written", "refused"}

\* While nobody else makes the owner publish, what was written is a toggle.
ToggleFlips ==
    \A c \in Clients \cap alone : fate[c] = "written" => c \in flipped
=============================================================================
