---------------------------- MODULE RunnerProofs ----------------------------
(***************************************************************************)
(* What run() promises, for any number of pipes and of processes that the  *)
(* program starts, and any cap.  A complete answer rests on the books of   *)
(* each pipe (Books), on a reader leaving early only at the end of its     *)
(* pipe (LeftAtEnd) and on the program being gone by the time the readers  *)
(* are joined (ExitSeen).  That the group is stopped rests on SIGKILL      *)
(* reaching all of it at once: who is doomed starts nothing (Cornered).    *)
(***************************************************************************)
EXTENDS Runner, TLAPS

\* What was written is kept or still in the pipe, while nothing was too much.
Books ==
    \A p \in Pipes : /\ mark[p] <= said[p]
                     /\ ~overflow => sink[p] + pipe[p] = said[p]

\* Without an event that stops it, a reader leaves at the end of its pipe.
LeftAtEnd ==
    \A p \in Pipes : reader[p] = "gone" /\ ~stop /\ ~overflow => Closed(p)

StopIsLast == stop => pc \in {"stopping", "done"}

After == {"join", "last join", "stopping", "done"}

\* The program was killed, or is gone before the readers are joined.
ExitSeen ==
    /\ pc = "killed" => overflow \/ timedOut
    /\ pc \in After /\ ~overflow /\ ~timedOut => Program \notin alive

\* All the program wrote is kept once the readers are told to stop.
AllKept ==
    pc \in {"stopping", "done"} /\ ~overflow /\ ~timedOut =>
        \A p \in Pipes : mark[p] <= sink[p]

GroupDoomed == group \cap alive \subseteq doomed

\* The group is doomed, or nobody is left to write to a pipe.
Cornered ==
    /\ timedOut \/ pc = "last join" => GroupDoomed
    /\ pc \in {"stopping", "done"} =>
         \/ GroupDoomed
         \/ AllGone /\ ~overflow /\ \A p \in Pipes : Closed(p)

Inv == /\ TypeOK /\ Books /\ LeftAtEnd /\ StopIsLast /\ ExitSeen /\ AllKept
       /\ Cornered /\ NoOrphanProgram

-----------------------------------------------------------------------------
\* A call begins with empty books.
LEMMA InitInv == ASSUME Init PROVE Inv
<1>1. TypeOK BY DEF Init, TypeOK, Procs
<1>2. Books /\ LeftAtEnd /\ StopIsLast /\ ExitSeen
  BY DEF Init, Books, LeftAtEnd, StopIsLast, ExitSeen, After
<1>3. AllKept /\ Cornered /\ NoOrphanProgram
  BY DEF Init, AllKept, Cornered, NoOrphanProgram
<1> QED BY <1>1, <1>2, <1>3 DEF Inv

\* What TypeOK says of the pipes.
LEMMA Streams ==
  ASSUME Inv
  PROVE  /\ pipe \in [Pipes -> Nat] /\ sink \in [Pipes -> Nat]
         /\ said \in [Pipes -> Nat] /\ mark \in [Pipes -> Nat]
         /\ reader \in [Pipes -> {"reading", "gone"}]
         /\ holds \in [Procs -> SUBSET Pipes]
         /\ Books
  BY DEF Inv, TypeOK

-----------------------------------------------------------------------------
\* Something is written to a pipe.
LEMMA WriteStep ==
  ASSUME Inv, NEW k \in Procs, NEW p \in Pipes, Write(k, p)
  PROVE  Inv'
<1>. USE RunnerAssumption
<1>0. /\ pipe' = [pipe EXCEPT ![p] = @ + 1]
      /\ said' = [said EXCEPT ![p] = @ + 1]
      /\ mark' = IF k = Program THEN [mark EXCEPT ![p] = said[p] + 1] ELSE mark
      /\ UNCHANGED <<pc, helper, stage, alive, doomed, group, holds, sink, reader,
                     overflow, stop, late, timedOut>>
  BY DEF Write, processes, streams, flags
<1>1. TypeOK'
  <2>1. /\ pipe' \in [Pipes -> Nat] /\ said' \in [Pipes -> Nat]
        /\ mark' \in [Pipes -> Nat]
    BY <1>0, Streams
  <2> QED BY <1>0, <2>1 DEF Inv, TypeOK
<1>2. Books' BY <1>0, Streams DEF Books
<1>3. ~Closed(p) BY DEF Write, Closed
<1>4. LeftAtEnd'
  <2>1. \A q \in Pipes : Closed(q) => Closed(q)' BY <1>0, <1>3, Streams DEF Closed
  <2> QED BY <1>0, <2>1 DEF Inv, LeftAtEnd
<1>5. AllKept'
  <2>1. ASSUME pc \in {"stopping", "done"}, ~overflow, ~timedOut PROVE mark' = mark
    BY <1>0, <2>1 DEF Write, Acts, Inv, ExitSeen, After
  <2> QED BY <1>0, <2>1 DEF Inv, AllKept
<1>6. Cornered'
  <2>1. ~AllGone BY DEF Write, AllGone
  <2> QED BY <1>0, <2>1 DEF Inv, Cornered, GroupDoomed
<1> QED
  BY <1>0, <1>1, <1>2, <1>4, <1>5, <1>6
  DEF Inv, StopIsLast, ExitSeen, After, NoOrphanProgram

\* The program, or what it started, starts something.
LEMMA ForkStep ==
  ASSUME Inv, NEW k \in Procs, NEW kid \in Kids, Fork(k, kid)
  PROVE  Inv'
<1> USE RunnerAssumption DEF Inv, processes, streams, flags
<1>1. kid # Program /\ kid \in Procs BY DEF Procs
<1>2. TypeOK'
  <2>1. holds' \in [Procs -> SUBSET Pipes] BY <1>1, Streams DEF Fork
  <2> QED BY <1>1, <2>1 DEF Fork, TypeOK
<1>3. \A p \in Pipes : Closed(p) => Closed(p)'
  BY <1>1, Streams DEF Fork, Closed
<1>4. GroupDoomed => GroupDoomed'
  BY DEF Fork, Acts, GroupDoomed
<1> QED
  BY <1>1, <1>2, <1>3, <1>4
  DEF Fork, Books, LeftAtEnd, StopIsLast, ExitSeen, After, AllKept, Cornered,
      AllGone, NoOrphanProgram

\* Steps of the program and of what it starts.
LEMMA ProgramStep ==
  ASSUME Inv,
         \/ Promise \/ ChecksParent \/ HelperDies
         \/ \E k \in Procs : Leave(k) \/ Ends(k)
  PROVE  Inv'
<1> USE RunnerAssumption DEF Inv, processes, streams, flags
<1>1. CASE Promise
  BY <1>1 DEF Promise, TypeOK, Books, LeftAtEnd, Closed, StopIsLast, ExitSeen, After,
              AllKept, Cornered, GroupDoomed, AllGone, NoOrphanProgram
<1>2. CASE ChecksParent
  BY <1>2 DEF ChecksParent, TypeOK, Books, LeftAtEnd, Closed, StopIsLast, ExitSeen, After,
              AllKept, Cornered, GroupDoomed, AllGone, NoOrphanProgram
<1>3. CASE HelperDies
  <2>1. TypeOK' BY <1>3 DEF HelperDies, TypeOK, Procs
  <2>2. Cornered'
    BY <1>3 DEF HelperDies, Cornered, GroupDoomed, AllGone, Closed
  <2>3. NoOrphanProgram'
    BY <1>3 DEF HelperDies, NoOrphanProgram
  <2> QED
    BY <1>3, <2>1, <2>2, <2>3
    DEF HelperDies, Books, LeftAtEnd, Closed, StopIsLast, ExitSeen, After, AllKept
<1>4. ASSUME NEW k \in Procs, Leave(k) PROVE Inv'
  BY <1>4 DEF Leave, TypeOK, Books, LeftAtEnd, Closed, StopIsLast, ExitSeen, After,
              AllKept, Cornered, GroupDoomed, AllGone, NoOrphanProgram
<1>5. ASSUME NEW k \in Procs, Ends(k) PROVE Inv'
  <2>1. TypeOK' BY <1>5 DEF Ends, TypeOK
  <2>2. \A p \in Pipes : Closed(p) => Closed(p)'
    BY <1>5 DEF Ends, Closed, TypeOK
  <2> QED
    BY <1>5, <2>1, <2>2
    DEF Ends, Books, LeftAtEnd, StopIsLast, ExitSeen, After, AllKept, Cornered,
        GroupDoomed, AllGone, NoOrphanProgram
<1> QED BY <1>1, <1>2, <1>3, <1>4, <1>5

-----------------------------------------------------------------------------
\* Steps of the readers.
LEMMA ReaderStep ==
  ASSUME Inv, NEW p \in Pipes, Read(p) \/ ReaderLeaves(p)
  PROVE  Inv'
<1> USE RunnerAssumption DEF Inv, processes, streams, flags
<1>1. CASE Read(p)
  <2>1. PICK n \in 1..pipe[p] :
          /\ pipe' = [pipe EXCEPT ![p] = @ - n]
          /\ IF sink[p] + n > Cap
             THEN /\ overflow' = TRUE
                  /\ reader' = [reader EXCEPT ![p] = "gone"]
                  /\ UNCHANGED sink
             ELSE /\ sink' = [sink EXCEPT ![p] = @ + n]
                  /\ UNCHANGED <<overflow, reader>>
    BY <1>1 DEF Read
  <2>2. n \in Nat /\ n <= pipe[p] BY <2>1, Streams
  <2>a. UNCHANGED <<pc, helper, stage, alive, doomed, group, holds, said, mark, stop,
                    late, timedOut>>
    BY <1>1 DEF Read
  <2>3. TypeOK'
    <3>1. /\ pipe' \in [Pipes -> Nat] /\ sink' \in [Pipes -> Nat]
          /\ reader' \in [Pipes -> {"reading", "gone"}]
      BY <2>1, <2>2, Streams
    <3> QED BY <2>1, <2>a, <3>1 DEF TypeOK
  <2>4. Books'
    <3>1. ASSUME NEW q \in Pipes, ~overflow' PROVE sink'[q] + pipe'[q] = said'[q]
      BY <2>1, <2>2, <2>a, <3>1, Streams DEF Books
    <3> QED BY <2>a, <3>1, Streams DEF Books
  <2>5. LeftAtEnd' BY <2>1, <2>2, <2>a, Streams DEF LeftAtEnd, Closed
  <2>6. AllKept' BY <2>1, <2>2, <2>a, Streams DEF AllKept
  <2>7. Cornered' BY <1>1 DEF Read, Cornered, GroupDoomed, AllGone
  <2> QED
    BY <1>1, <2>1, <2>3, <2>4, <2>5, <2>6, <2>7
    DEF Read, StopIsLast, ExitSeen, After, NoOrphanProgram, TypeOK
<1>2. CASE ReaderLeaves(p)
  BY <1>2 DEF ReaderLeaves, TypeOK, Books, LeftAtEnd, Closed, StopIsLast, ExitSeen, After,
              AllKept, Cornered, GroupDoomed, AllGone, NoOrphanProgram
<1> QED BY <1>1, <1>2

-----------------------------------------------------------------------------
\* When the readers are gone, or had their two seconds, all the program wrote
\* is kept.
LEMMA Drained ==
  ASSUME Inv, ~stop, ~overflow, AllGone \/ BudgetSpent, NEW p \in Pipes
  PROVE  mark[p] <= sink[p]
<1>1. sink[p] + pipe[p] = said[p] /\ mark[p] <= said[p] BY DEF Inv, Books
<1>2. sink[p] \in Nat /\ pipe[p] \in Nat /\ said[p] \in Nat /\ mark[p] \in Nat
  BY DEF Inv, TypeOK
<1>3. CASE reader[p] = "gone"
  <2>1. pipe[p] = 0 BY <1>3 DEF Inv, LeftAtEnd, Closed
  <2> QED BY <1>1, <1>2, <2>1
<1>4. CASE reader[p] = "reading"
  <2>1. said[p] - pipe[p] >= mark[p] BY <1>4 DEF AllGone, BudgetSpent
  <2> QED BY <1>1, <1>2, <2>1
<1> QED BY <1>3, <1>4, Streams

\* Steps of run() itself.
LEMMA MainStep ==
  ASSUME Inv, Main \/ DeadlinePasses
  PROVE  Inv'
<1> USE RunnerAssumption DEF Inv, processes, streams, flags, Go
<1>1. CASE Started \/ SeesExit \/ Waited \/ DeadlinePasses
  <2>1. UNCHANGED <<processes, streams, overflow, stop, timedOut>>
    BY <1>1 DEF Started, SeesExit, Waited, DeadlinePasses
  <2>2. TypeOK' BY <1>1 DEF Started, SeesExit, Waited, DeadlinePasses, TypeOK
  <2>3. /\ pc = "killed" => pc' \in {"killed", "join"}
        /\ pc' = "killed" => pc = "killed"
        /\ pc' \in {"last join", "stopping", "done"} => pc' = pc
        /\ pc' = "join" /\ pc # "join" => pc = "killed" \/ Program \notin alive
        /\ stop => pc' = pc
    BY <1>1 DEF Started, SeesExit, Waited, DeadlinePasses, StopIsLast
  <2>4. (Books /\ LeftAtEnd /\ NoOrphanProgram)'
    BY <2>1 DEF Books, LeftAtEnd, Closed, NoOrphanProgram
  <2>5. (StopIsLast /\ ExitSeen)' BY <2>1, <2>3 DEF StopIsLast, ExitSeen, After
  <2>6. (AllKept /\ Cornered)'
    BY <2>1, <2>3 DEF AllKept, Cornered, GroupDoomed, AllGone, Closed
  <2> QED BY <2>2, <2>4, <2>5, <2>6
<1>2. CASE SeesOverflow \/ SeesDeadline
  <2>1. doomed' = doomed \cup (group \cap alive) /\ pc' = "killed" /\ pc = "polling"
    BY <1>2 DEF SeesOverflow, SeesDeadline, KillGroup
  <2>2. TypeOK' BY <1>2, <2>1 DEF SeesOverflow, SeesDeadline, TypeOK
  <2>3. GroupDoomed' BY <1>2, <2>1 DEF SeesOverflow, SeesDeadline, GroupDoomed
  <2>4. NoOrphanProgram'
    BY <1>2, <2>1 DEF SeesOverflow, SeesDeadline, NoOrphanProgram
  <2> QED
    BY <1>2, <2>1, <2>2, <2>3, <2>4
    DEF SeesOverflow, SeesDeadline, Books, LeftAtEnd, Closed, StopIsLast, ExitSeen, After,
        AllKept, Cornered
<1>3. CASE Joined
  <2>1. ~stop BY <1>3 DEF Joined, StopIsLast
  <2>2. \A p \in Pipes : Closed(p)
    BY <1>3, <2>1 DEF Joined, AllGone, LeftAtEnd
  <2>3. \A p \in Pipes : mark[p] <= sink[p] BY <1>3, <2>1, Drained DEF Joined
  <2>4. TypeOK' BY <1>3 DEF Joined, TypeOK
  <2>5. Cornered'
    BY <1>3, <2>2 DEF Joined, Cornered, AllGone, Closed, GroupDoomed
  <2> QED
    BY <1>3, <2>3, <2>4, <2>5
    DEF Joined, Books, LeftAtEnd, Closed, StopIsLast, ExitSeen, After, AllKept,
        NoOrphanProgram
<1>4. CASE JoinedLate
  <2>1. TypeOK' BY <1>4 DEF JoinedLate, KillGroup, TypeOK
  <2>2. GroupDoomed' BY <1>4 DEF JoinedLate, KillGroup, GroupDoomed
  <2>3. NoOrphanProgram' BY <1>4 DEF JoinedLate, KillGroup, NoOrphanProgram
  <2> QED
    BY <1>4, <2>1, <2>2, <2>3
    DEF JoinedLate, Books, LeftAtEnd, Closed, StopIsLast, ExitSeen, After, AllKept, Cornered
<1>5. CASE JoinedAgain
  <2>1. ~stop BY <1>5 DEF JoinedAgain, StopIsLast
  <2>2. ~overflow => \A p \in Pipes : mark[p] <= sink[p]
    BY <1>5, <2>1, Drained DEF JoinedAgain
  <2>3. GroupDoomed /\ GroupDoomed' BY <1>5 DEF JoinedAgain, Cornered, GroupDoomed
  <2>4. TypeOK' BY <1>5 DEF JoinedAgain, TypeOK
  <2> QED
    BY <1>5, <2>2, <2>3, <2>4
    DEF JoinedAgain, Books, LeftAtEnd, Closed, StopIsLast, ExitSeen, After, AllKept,
        Cornered, NoOrphanProgram
<1>6. CASE Return
  BY <1>6 DEF Return, TypeOK, Books, LeftAtEnd, Closed, StopIsLast, ExitSeen, After,
              AllKept, Cornered, GroupDoomed, AllGone, NoOrphanProgram
<1> QED BY <1>1, <1>2, <1>3, <1>4, <1>5, <1>6 DEF Main

\* A step that changes nothing.
LEMMA StutterStep == ASSUME Inv, UNCHANGED vars PROVE Inv'
  BY DEF Inv, vars, processes, streams, flags, TypeOK, Books, LeftAtEnd, Closed, StopIsLast,
         ExitSeen, After, AllKept, Cornered, GroupDoomed, AllGone, NoOrphanProgram

-----------------------------------------------------------------------------
\* The invariant of a call, whatever the program does and whenever the helper
\* is killed.
THEOREM Invariance == Spec => []Inv
<1>1. Init => Inv BY InitInv
<1>2. Inv /\ [Next]_vars => Inv'
  BY WriteStep, ForkStep, ProgramStep, ReaderStep, MainStep, StutterStep DEF Next, Main
<1> QED BY <1>1, <1>2, PTL DEF Spec

\* An answer reported as complete holds all that the program wrote.
THEOREM AnswersAreComplete == Spec => []CompleteAnswer
<1>1. Inv => CompleteAnswer
  BY DEF Inv, AllKept, CompleteAnswer, Outcome, TypeOK
<1> QED BY <1>1, Invariance, PTL

\* Nothing of the group that could hold a pipe goes on after run() returned, and
\* nothing at all when it was stopped.
THEOREM GroupIsStopped == Spec => []GroupStopped
<1>1. ASSUME Inv, pc = "done", NEW k \in (group \cap alive) \ doomed
      PROVE  Outcome = "completed" /\ holds[k] = {}
  <2>1. ~GroupDoomed BY <1>1 DEF GroupDoomed
  <2>2. ~timedOut /\ ~overflow /\ \A p \in Pipes : Closed(p)
    BY <1>1, <2>1 DEF Inv, Cornered
  <2>3. k \in Procs /\ holds[k] \subseteq Pipes BY <1>1 DEF Inv, TypeOK
  <2> QED BY <2>2, <2>3 DEF Outcome, Closed
<1>2. Inv => GroupStopped BY <1>1 DEF GroupStopped
<1> QED BY <1>2, Invariance, PTL

\* A program never runs on without the helper that asked it.
THEOREM ProgramDiesWithHelper == Spec => []NoOrphanProgram
<1>1. Inv => NoOrphanProgram BY DEF Inv
<1> QED BY <1>1, Invariance, PTL
=============================================================================
