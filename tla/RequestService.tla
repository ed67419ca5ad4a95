--------------------------- MODULE RequestService ---------------------------
(***************************************************************************)
(* What a control session promises the code that submits requests to it,   *)
(* with no frames, no acknowledgements and no timers: every request it was  *)
(* given is told one outcome, once.  Session.tla is shown to implement      *)
(* this.                                                                    *)
(***************************************************************************)
EXTENDS Sequences

CONSTANTS
  Requests,   \* every request a caller may ever submit
  key,        \* [Requests -> keys]: the coalescing key, NoKey for none
  NoKey

VARIABLES
  up,         \* the session is alive
  submitted,  \* the requests handed to it so far
  told        \* [Requests -> Seq(Outcomes)]: what on_done was called with

vars == <<up, submitted, told>>

Outcomes == {"replied", "acked", "silent", "failed"}

\* Handed over and not yet told anything.
Waiting == {r \in submitted : told[r] = <<>>}

\* on_done is called with outcome o for every request of R.
Tell(R, o) ==
  told' = [r \in Requests |-> IF r \in R THEN Append(told[r], o) ELSE told[r]]

Init ==
  /\ up = TRUE
  /\ submitted = {}
  /\ told = [r \in Requests |-> <<>>]

\* A new request is taken on.  It may replace one that waits under its key,
\* and that one is told it failed.
Submit(r) ==
  /\ up
  /\ r \notin submitted
  /\ submitted' = submitted \cup {r}
  /\ \/ UNCHANGED told
     \/ \E old \in Waiting :
          /\ key[old] = key[r]
          /\ key[r] # NoKey
          /\ Tell({old}, "failed")
  /\ UNCHANGED up

\* The headset's behaviour decides one request.
Answer(r) ==
  /\ up
  /\ r \in Waiting
  /\ \E o \in Outcomes \ {"failed"} : Tell({r}, o)
  /\ UNCHANGED <<up, submitted>>

\* The session dies, at most one request being blamed for it.
Die ==
  /\ up
  /\ up' = FALSE
  /\ \/ UNCHANGED told
     \/ \E r \in Waiting : Tell({r}, "failed")
  /\ UNCHANGED submitted

\* The caller gives up on everything, or closes: all that wait fail together.
Abandon ==
  /\ Tell(Waiting, "failed")
  /\ up' \in {up, FALSE}
  /\ UNCHANGED submitted

\* A new connection starts with nothing waiting.
Reopen ==
  /\ ~up
  /\ Waiting = {}
  /\ up' = TRUE
  /\ UNCHANGED <<submitted, told>>

Next ==
  \/ \E r \in Requests : Submit(r) \/ Answer(r)
  \/ Die
  \/ Abandon
  \/ Reopen

Spec == Init /\ [][Next]_vars
=============================================================================
