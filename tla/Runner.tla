------------------------------- MODULE Runner -------------------------------
(***************************************************************************)
(* binaries.run: one question asked of another program.  The program and   *)
(* what it starts write to pipes at will, end when they like, leave the    *)
(* group on purpose or ignore everything; two reader threads drain the     *)
(* pipes; the main thread polls, kills, joins and stops; and the helper    *)
(* itself may be killed at any moment.                                     *)
(***************************************************************************)
EXTENDS Integers, FiniteSets

CONSTANTS
    Pipes,      \* standard output and standard error
    Program,    \* the program that is asked
    Kids,       \* what it may start in turn
    Cap,        \* OUTPUT_CAP, in chunks
    Room,       \* what a pipe of the kernel holds
    MaxSaid     \* bound: what is written to one pipe

ASSUME RunnerAssumption ==
    /\ Program \notin Kids
    /\ Cap \in Nat /\ Room \in Nat /\ MaxSaid \in Nat

Procs == Kids \cup {Program}

VARIABLES
    pc,         \* where run() is: "popen", "polling", "killed", "join", "last join",
                \* "stopping", "done"
    helper,     \* whether the helper is alive
    stage,      \* of the program: "forked", "promised" (prctl), "running" (exec)
    alive,      \* processes that run
    doomed,     \* of them, those that were sent SIGKILL
    group,      \* processes in the program's group
    holds,      \* [Procs -> the pipes whose write end it has]
    pipe,       \* [Pipes -> bytes in it]
    sink,       \* [Pipes -> bytes kept]
    reader,     \* [Pipes -> "reading" or "gone"]
    overflow, stop,  \* the events
    late,       \* the deadline has passed
    timedOut,   \* timed_out
    said,       \* [Pipes -> bytes written to it so far]
    mark        \* history: [Pipes -> what `said` was when the program last wrote]

streams == <<pipe, sink, reader, said, mark>>
processes == <<helper, stage, alive, doomed, group, holds>>
flags == <<overflow, stop, late, timedOut>>
vars == <<pc, processes, streams, flags>>

TypeOK ==
    /\ pc \in {"popen", "polling", "killed", "join", "last join", "stopping", "done"}
    /\ helper \in BOOLEAN
    /\ stage \in {"forked", "promised", "running"}
    /\ alive \subseteq Procs /\ doomed \subseteq Procs /\ group \subseteq Procs
    /\ holds \in [Procs -> SUBSET Pipes]
    /\ pipe \in [Pipes -> Nat] /\ sink \in [Pipes -> Nat]
    /\ said \in [Pipes -> Nat] /\ mark \in [Pipes -> Nat]
    /\ reader \in [Pipes -> {"reading", "gone"}]
    /\ overflow \in BOOLEAN /\ stop \in BOOLEAN
    /\ late \in BOOLEAN /\ timedOut \in BOOLEAN

Init ==
    /\ pc = "popen"
    /\ helper = TRUE
    /\ stage = "forked"
    /\ alive = {Program}
    /\ doomed = {}
    /\ group = {Program}
    /\ holds = [k \in Procs |-> IF k = Program THEN Pipes ELSE {}]
    /\ pipe = [p \in Pipes |-> 0]
    /\ sink = [p \in Pipes |-> 0]
    /\ said = [p \in Pipes |-> 0]
    /\ mark = [p \in Pipes |-> 0]
    /\ reader = [p \in Pipes |-> "reading"]
    /\ overflow = FALSE /\ stop = FALSE /\ late = FALSE /\ timedOut = FALSE

----------------------------------------------------------------------------
(* The program and what it starts *)

Acts(k) == k \in alive \ doomed /\ stage = "running"

\* prctl(PR_SET_PDEATHSIG, SIGKILL), before exec
Promise ==
    /\ stage = "forked" /\ Program \in alive \ doomed
    /\ stage' = "promised"
    /\ UNCHANGED <<pc, helper, alive, doomed, group, holds, streams, flags>>

\* Mutant: nobody looks whether the parent was gone before the promise.
RunsAnyway ==
    /\ stage = "promised" /\ Program \in alive \ doomed
    /\ stage' = "running"
    /\ UNCHANGED <<pc, helper, alive, doomed, group, holds, streams, flags>>

\* getppid(): a helper that died before the promise sends no signal.
ChecksParent ==
    /\ stage = "promised" /\ Program \in alive \ doomed
    /\ IF helper THEN stage' = "running" /\ UNCHANGED alive
                 ELSE alive' = alive \ {Program} /\ UNCHANGED stage
    /\ UNCHANGED <<pc, helper, doomed, group, holds, streams, flags>>

\* A pipe with nobody to read it ends or fails its writer.
Write(k, p) ==
    /\ Acts(k) /\ p \in holds[k]
    /\ helper /\ reader[p] = "reading"
    /\ pipe[p] < Room /\ said[p] < MaxSaid
    /\ pipe' = [pipe EXCEPT ![p] = @ + 1]
    /\ said' = [said EXCEPT ![p] = @ + 1]
    /\ mark' = IF k = Program THEN [mark EXCEPT ![p] = said[p] + 1] ELSE mark
    /\ UNCHANGED <<pc, processes, sink, reader, flags>>

\* k starts a kid, with the pipes it has or without.
Fork(k, kid) ==
    /\ Acts(k) /\ kid \notin alive \cup doomed
    /\ alive' = alive \cup {kid}
    /\ group' = IF k \in group THEN group \cup {kid} ELSE group \ {kid}
    /\ \E ends \in {{}, holds[k]} : holds' = [holds EXCEPT ![kid] = ends]
    /\ UNCHANGED <<pc, helper, stage, doomed, streams, flags>>

\* A kid takes a session of its own.
Leave(k) ==
    /\ Acts(k) /\ k # Program
    /\ group' = group \ {k}
    /\ UNCHANGED <<pc, helper, stage, alive, doomed, holds, streams, flags>>

Ends(k) ==
    /\ k \in alive /\ stage = "running"
    /\ alive' = alive \ {k}
    /\ holds' = [holds EXCEPT ![k] = {}]
    /\ UNCHANGED <<pc, helper, stage, doomed, group, streams, flags>>

\* The bar kills the helper; the kernel keeps the program's promise.
HelperDies ==
    /\ helper /\ helper' = FALSE
    /\ doomed' = IF stage = "forked" THEN doomed ELSE doomed \cup {Program}
    /\ UNCHANGED <<pc, stage, alive, group, holds, streams, flags>>

----------------------------------------------------------------------------
(* _drain, one thread for each pipe *)

\* A chunk: past the cap it is not kept, and nothing after it is read.
Read(p) ==
    /\ helper /\ pc # "popen" /\ reader[p] = "reading"
    /\ \E n \in 1..pipe[p] :
         /\ pipe' = [pipe EXCEPT ![p] = @ - n]
         /\ IF sink[p] + n > Cap
            THEN /\ overflow' = TRUE
                 /\ reader' = [reader EXCEPT ![p] = "gone"]
                 /\ UNCHANGED sink
            ELSE /\ sink' = [sink EXCEPT ![p] = @ + n]
                 /\ UNCHANGED <<overflow, reader>>
    /\ UNCHANGED <<pc, processes, said, mark, stop, late, timedOut>>

Closed(p) == pipe[p] = 0 /\ \A k \in Procs : p \notin holds[k]

\* Mutant: a reader blocks until the pipe is closed.
ReaderLeavesAtEnd(p) ==
    /\ helper /\ pc # "popen" /\ reader[p] = "reading" /\ Closed(p)
    /\ reader' = [reader EXCEPT ![p] = "gone"]
    /\ UNCHANGED <<pc, processes, pipe, sink, said, mark, flags>>

\* The end of the pipe, or the caller told it to give up.
ReaderLeaves(p) ==
    /\ helper /\ pc # "popen" /\ reader[p] = "reading"
    /\ Closed(p) \/ stop
    /\ reader' = [reader EXCEPT ![p] = "gone"]
    /\ UNCHANGED <<pc, processes, pipe, sink, said, mark, flags>>

----------------------------------------------------------------------------
(* run() *)

Go(from, to) == helper /\ pc = from /\ pc' = to

\* killpg: everything in the group, at once.
KillGroup == doomed' = doomed \cup (group \cap alive)

\* Popen returns once the program is executed or gone.
Started ==
    /\ Go("popen", "polling")
    /\ stage = "running" \/ Program \notin alive
    /\ UNCHANGED <<processes, streams, flags>>

DeadlinePasses ==
    /\ helper /\ pc = "polling" /\ ~late
    /\ late' = TRUE
    /\ UNCHANGED <<pc, processes, streams, overflow, stop, timedOut>>

SeesExit ==
    /\ Go("polling", "join")
    /\ Program \notin alive
    /\ UNCHANGED <<processes, streams, flags>>

SeesOverflow ==
    /\ Go("polling", "killed")
    /\ Program \in alive /\ overflow
    /\ KillGroup
    /\ UNCHANGED <<helper, stage, alive, group, holds, streams, flags>>

\* Mutant: only the program is killed, not what it started.
SeesDeadlineAlone ==
    /\ Go("polling", "killed")
    /\ Program \in alive /\ ~overflow /\ late
    /\ timedOut' = TRUE
    /\ doomed' = doomed \cup {Program}
    /\ UNCHANGED <<helper, stage, alive, group, holds, streams, overflow, stop, late>>

SeesDeadline ==
    /\ Go("polling", "killed")
    /\ Program \in alive /\ ~overflow /\ late
    /\ timedOut' = TRUE
    /\ KillGroup
    /\ UNCHANGED <<helper, stage, alive, group, holds, streams, overflow, stop, late>>

\* process.wait(timeout=5): it ends, or it does not.
Waited ==
    /\ Go("killed", "join")
    /\ UNCHANGED <<processes, streams, flags>>

AllGone == \A p \in Pipes : reader[p] = "gone"

\* Two seconds are enough to read what the program left in its pipes.
BudgetSpent == \A p \in Pipes : reader[p] = "reading" => said[p] - pipe[p] >= mark[p]

\* Mutant: with the program gone the readers are not waited for.
NotJoined ==
    /\ Go("join", "stopping")
    /\ stop' = TRUE
    /\ UNCHANGED <<processes, streams, overflow, late, timedOut>>

Joined ==
    /\ Go("join", "stopping")
    /\ AllGone /\ ~overflow
    /\ stop' = TRUE
    /\ UNCHANGED <<processes, streams, overflow, late, timedOut>>

\* A reader is left, or one met the cap: the group goes.
JoinedLate ==
    /\ Go("join", "last join")
    /\ overflow \/ ~AllGone
    /\ AllGone \/ BudgetSpent
    /\ KillGroup
    /\ UNCHANGED <<helper, stage, alive, group, holds, streams, flags>>

JoinedAgain ==
    /\ Go("last join", "stopping")
    /\ AllGone \/ BudgetSpent
    /\ stop' = TRUE
    /\ UNCHANGED <<processes, streams, overflow, late, timedOut>>

\* Readers are joined without a budget.
Return ==
    /\ Go("stopping", "done")
    /\ AllGone
    /\ UNCHANGED <<processes, streams, flags>>

Next ==
    \/ Promise \/ ChecksParent \/ HelperDies
    \/ \E k \in Procs : Leave(k) \/ Ends(k)
    \/ \E k \in Procs, p \in Pipes : Write(k, p)
    \/ \E k \in Procs, kid \in Kids : Fork(k, kid)
    \/ \E p \in Pipes : Read(p) \/ ReaderLeaves(p)
    \/ Started \/ DeadlinePasses \/ SeesExit \/ SeesOverflow \/ SeesDeadline \/ Waited
    \/ Joined \/ JoinedLate \/ JoinedAgain \/ Return

Spec == Init /\ [][Next]_vars

\* run() and its threads get the processor, time passes, and a program that is
\* forked is executed.  Nothing is assumed of the program or of what it starts,
\* not even that a process that is sent SIGKILL ends.
Main == \/ Started \/ SeesExit \/ SeesOverflow \/ SeesDeadline \/ Waited
        \/ Joined \/ JoinedLate \/ JoinedAgain \/ Return

FairSpec ==
    /\ Spec
    /\ WF_vars(Main) /\ WF_vars(DeadlinePasses)
    /\ WF_vars(Promise \/ ChecksParent)
    /\ \A p \in Pipes : WF_vars(Read(p)) /\ WF_vars(ReaderLeaves(p))

----------------------------------------------------------------------------
(* Properties *)

Outcome == IF overflow THEN "too large" ELSE IF timedOut THEN "timed out" ELSE "completed"

\* run() returns, whatever the program and its children do: talk for ever,
\* say nothing, ignore SIGKILL, or leave the group with the pipe in hand.
Returns == <>(pc = "done" \/ ~helper)

\* An answer that is reported as complete is: all that the program itself wrote
\* was kept, though its children may hold the pipe and have to be killed.
CompleteAnswer ==
    pc = "done" /\ Outcome = "completed" =>
        \A p \in Pipes : sink[p] >= mark[p]

\* When run() returns, no process of the group goes on that holds a pipe; and
\* none at all once the program was too slow or said too much.
GroupStopped ==
    pc = "done" => \A k \in (group \cap alive) \ doomed :
                       Outcome = "completed" /\ holds[k] = {}

\* A program does not outlive the helper that asked it, at whatever point of
\* its start the helper was killed.
NoOrphanProgram ==
    ~helper /\ stage = "running" => Program \notin alive \ doomed
=============================================================================
