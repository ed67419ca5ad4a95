--------------------------- MODULE ElectionProofs ---------------------------
(***************************************************************************)
(* Mutual exclusion of the owners, and that the socket is always theirs,     *)
(* for any number of helpers, rounds and faults.                             *)
(*                                                                          *)
(* Neither OneOwner nor OwnerReachable is inductive.  What is: the lock is    *)
(* held by exactly the helper between winning and releasing (LockHeld).  Two  *)
(* owners would hold it both, and only its holder, or a helper that closes    *)
(* its own listener, touches the path.                                        *)
(***************************************************************************)
EXTENDS Election, TLAPS

\* The lock is held by the helper that is between winning and releasing.
LockHeld == \A p \in Helpers : pc[p] \in Owning <=> lock = p

Inv == TypeOK /\ LockHeld /\ OwnerReachable

-----------------------------------------------------------------------------
\* Closing sockets keeps the types of what is known of connections.
LEMMA CutType ==
  ASSUME TypeOK, NEW S, Cut(S)
  PROVE  /\ peer' \in [Helpers -> Helpers \cup {None}]
         /\ accepted' \in [Helpers -> BOOLEAN]
         /\ greeting' \in [Helpers -> Versions \cup {None}]
  BY DEF TypeOK, Cut

\* Faults are counted up to their bound.
LEMMA FaultType ==
  ASSUME TypeOK, Fault
  PROVE  faults' \in Versions /\ faults' = faults + 1 /\ disk <= faults'
  BY ElectionAssumption DEF TypeOK, Fault, Versions

\* The initial states have the invariant.
LEMMA InitInv == ASSUME Init PROVE Inv
<1>1. TypeOK
  BY ElectionAssumption DEF Init, TypeOK, Places, Versions
<1>2. LockHeld /\ OwnerReachable
  BY ElectionAssumption DEF Init, LockHeld, OwnerReachable, Owning, Serving
<1> QED BY <1>1, <1>2 DEF Inv

-----------------------------------------------------------------------------
\* Every step keeps the types.
LEMMA TypeStep == ASSUME TypeOK, [Next]_vars PROVE TypeOK'
<1> USE DEF Owning, Serving, Places
<1>1. CASE UNCHANGED vars
  BY <1>1 DEF TypeOK, vars, socket, process
<1>2. CASE Update
  BY <1>2, FaultType, ElectionAssumption
  DEF Update, Fault, TypeOK, socket, Versions
<1>3. ASSUME NEW p \in Helpers, Start(p) PROVE TypeOK'
  BY <1>3, ElectionAssumption DEF Start, Move, TypeOK, socket
<1>4. ASSUME NEW p \in Helpers, Watch(p) PROVE TypeOK'
  <2>1. CASE Win(p)
    BY <2>1 DEF Win, Move, TypeOK, socket, process
  <2>2. CASE Lose(p)
    BY <2>2 DEF Lose, Move, TypeOK, socket, process
  <2>3. CASE Bind(p)
    BY <2>3 DEF Bind, Move, TypeOK, process
  <2>4. CASE Own(p)
    BY <2>4 DEF Own, Move, TypeOK, socket
  <2>5. CASE Follow(p)
    BY <2>5 DEF Follow, Move, TypeOK, process
  <2>6. CASE NobodyThere(p)
    BY <2>6 DEF NobodyThere, Move, TypeOK, socket, process
  <2>7. CASE OwnerFinished(p)
    BY <2>7 DEF OwnerFinished, Move, TypeOK, socket, process
  <2>8. CASE WidgetFinished(p)
    BY <2>8 DEF WidgetFinished, Move, TypeOK, socket, process
  <2>9. CASE Wake(p)
    <3>1. attempt' \in [Helpers -> 1..Attempts]
      BY <2>9, ElectionAssumption DEF Wake, RoundLeft, TypeOK
    <3> QED BY <2>9, <3>1 DEF Wake, Move, TypeOK, socket
  <2> QED BY <1>4, <2>1, <2>2, <2>3, <2>4, <2>5, <2>6, <2>7, <2>8, <2>9 DEF Watch
<1>5. ASSUME NEW q \in Helpers, Finish(q) PROVE TypeOK'
  <2>1. CASE LastLeft(q)
    BY <2>1 DEF LastLeft, Move, TypeOK, socket, process
  <2>2. CASE HangUp(q)
    BY <2>2, CutType DEF HangUp, Move, TypeOK, process
  <2>3. CASE CloseListener(q)
    BY <2>3, CutType DEF CloseListener, Unlisten, Move, TypeOK, process
  <2>4. CASE Unlink(q)
    BY <2>4 DEF Unlink, Move, TypeOK, process
  <2>5. CASE Release(q)
    BY <2>5 DEF Release, Move, TypeOK, socket, process
  <2>6. CASE Exit(q)
    BY <2>6, CutType DEF Exit, Unlisten, Move, TypeOK, process
  <2> QED BY <1>5, <2>1, <2>2, <2>3, <2>4, <2>5, <2>6 DEF Finish
<1>6. ASSUME NEW p \in Helpers, Signal(p) \/ Raise(p) PROVE TypeOK'
  BY <1>6, FaultType DEF Signal, Raise, Move, TypeOK, socket, process
<1>7. ASSUME NEW p \in Helpers, Crash(p) PROVE TypeOK'
  BY <1>7, FaultType, CutType DEF Crash, Unlisten, TypeOK, process
<1>8. ASSUME NEW p \in Helpers, WidgetGoes(p) PROVE TypeOK'
  BY <1>8, FaultType DEF WidgetGoes, TypeOK, socket
<1>9. ASSUME NEW p \in Helpers, NEW q \in Helpers, Serve(q, p) \/ DropClient(q, p)
      PROVE TypeOK'
  <2>1. CASE Accept(q, p)
    BY <2>1 DEF Accept, TypeOK, process
  <2>2. CASE Hear(q, p)
    BY <2>2 DEF Hear, TypeOK, process
  <2>3. CASE Reap(q, p)
    BY <2>3, CutType DEF Reap, TypeOK, process
  <2>4. CASE DropClient(q, p)
    BY <2>4, CutType, FaultType DEF DropClient, TypeOK, process
  <2> QED BY <1>9, <2>1, <2>2, <2>3, <2>4 DEF Serve
<1> QED BY <1>1, <1>2, <1>3, <1>4, <1>5, <1>6, <1>7, <1>8, <1>9 DEF Next

-----------------------------------------------------------------------------
\* Every step leaves the lock with the helper that owns, and the path with the
\* one that listens.
LEMMA OwnerStep == ASSUME Inv, [Next]_vars PROVE LockHeld' /\ OwnerReachable'
<1> USE DEF Inv, TypeOK, LockHeld, OwnerReachable, Owning, Serving, Places
<1> USE ElectionAssumption
<1>1. CASE UNCHANGED vars
  BY <1>1 DEF vars, socket
<1>2. CASE Update
  BY <1>2 DEF Update, socket
<1>3. ASSUME NEW p \in Helpers, Start(p) PROVE LockHeld' /\ OwnerReachable'
  BY <1>3 DEF Start, Move, socket
<1>4. ASSUME NEW p \in Helpers, Watch(p) PROVE LockHeld' /\ OwnerReachable'
  <2>1. CASE Win(p)
    BY <2>1 DEF Win, Free, Move, socket
  <2>2. CASE Lose(p)
    BY <2>2 DEF Lose, Move, socket
  <2>3. CASE Bind(p)
    BY <2>3 DEF Bind, Move
  <2>4. CASE Own(p)
    BY <2>4 DEF Own, Move, socket
  <2>5. CASE Follow(p)
    BY <2>5 DEF Follow, Move
  <2>6. CASE NobodyThere(p) \/ OwnerFinished(p) \/ WidgetFinished(p) \/ Wake(p)
    BY <2>6 DEF NobodyThere, OwnerFinished, WidgetFinished, Wake, Move, socket
  <2> QED BY <1>4, <2>1, <2>2, <2>3, <2>4, <2>5, <2>6 DEF Watch
<1>5. ASSUME NEW q \in Helpers, Finish(q) PROVE LockHeld' /\ OwnerReachable'
  <2>1. CASE LastLeft(q)
    BY <2>1 DEF LastLeft, Move, socket
  <2>2. CASE HangUp(q)
    BY <2>2 DEF HangUp, Move
  <2>3. CASE CloseListener(q)
    BY <2>3 DEF CloseListener, Unlisten, Move
  <2>4. CASE Unlink(q)
    BY <2>4 DEF Unlink, Move
  <2>5. CASE Release(q)
    BY <2>5 DEF Release, Move, socket
  <2>6. CASE Exit(q)
    BY <2>6 DEF Exit, Unlisten, Move
  <2> QED BY <1>5, <2>1, <2>2, <2>3, <2>4, <2>5, <2>6 DEF Finish
<1>6. ASSUME NEW p \in Helpers, Signal(p) PROVE LockHeld' /\ OwnerReachable'
  BY <1>6 DEF Signal, Move, socket
<1>7. ASSUME NEW p \in Helpers, Raise(p) PROVE LockHeld' /\ OwnerReachable'
  BY <1>7 DEF Raise, socket
<1>8. ASSUME NEW p \in Helpers, Crash(p) PROVE LockHeld' /\ OwnerReachable'
  BY <1>8 DEF Crash, Unlisten
<1>9. ASSUME NEW p \in Helpers, WidgetGoes(p) PROVE LockHeld' /\ OwnerReachable'
  BY <1>9 DEF WidgetGoes, socket
<1>10. ASSUME NEW p \in Helpers, NEW q \in Helpers, Serve(q, p) \/ DropClient(q, p)
       PROVE  LockHeld' /\ OwnerReachable'
  <2>1. CASE Accept(q, p) \/ Reap(q, p) \/ DropClient(q, p)
    BY <2>1 DEF Accept, Reap, DropClient
  <2>2. CASE Hear(q, p)
    BY <2>2 DEF Hear
  <2> QED BY <1>10, <2>1, <2>2 DEF Serve
<1> QED
  BY <1>1, <1>2, <1>3, <1>4, <1>5, <1>6, <1>7, <1>8, <1>9, <1>10 DEF Next

-----------------------------------------------------------------------------
\* The invariant holds of every behaviour of any number of helpers.
THEOREM Invariance == Spec => []Inv
<1>1. Init => Inv BY InitInv
<1>2. Inv /\ [Next]_vars => Inv' BY TypeStep, OwnerStep DEF Inv
<1> QED BY <1>1, <1>2, PTL DEF Spec

\* Every variable keeps its type: versions and rounds stay within their bounds.
THEOREM TypeCorrect == Spec => []TypeOK
<1>1. Inv => TypeOK BY DEF Inv
<1> QED BY <1>1, Invariance, PTL

\* "Exactly one process comes to own it": never two between winning the lock and
\* releasing it, whoever crashed, raised or stood down.
THEOREM MutualExclusion == Spec => []OneOwner
<1>1. Inv => OneOwner BY DEF Inv, LockHeld, OneOwner
<1> QED BY <1>1, Invariance, PTL

\* The path of an owner that listens is never taken by another helper, nor left
\* to a file nobody listens on.
THEOREM Reachability == Spec => []OwnerReachable
<1>1. Inv => OwnerReachable BY DEF Inv
<1> QED BY <1>1, Invariance, PTL
=============================================================================
