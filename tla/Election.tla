------------------------------ MODULE Election ------------------------------
(***************************************************************************)
(* How one helper comes to own the headset and every other one follows it:  *)
(* Election, bind_listener and connect_to_owner (src/headset/ipc.py), and    *)
(* watch(), follow() and the way Owner.loop() ends (src/headset/server.py).  *)
(*                                                                          *)
(* Every helper is a process started by a bar widget.  flock is a lock the   *)
(* kernel frees when its holder ends; the socket is a path that names a live *)
(* listener, or a file nobody listens on (Leftover), or nothing.             *)
(*                                                                          *)
(* Abstractions: no clocks, so a sleep may be overtaken by anything; what an *)
(* owner serves is in the other modules; unlink, bind and listen are one     *)
(* step, since a helper that connects between them fares as it does before.  *)
(***************************************************************************)
EXTENDS Naturals, FiniteSets

CONSTANTS
  Helpers,      \* processes; one that ended may be started again
  None,         \* no process, no file, no greeting
  Leftover,     \* a socket file without a listener
  Attempts,     \* watch(attempts=...)
  MaxFaults     \* bound: crashes, signals, updates and widgets that go away

ASSUME ElectionAssumption ==
  /\ None \notin Helpers /\ Leftover \notin Helpers /\ None # Leftover
  /\ None \notin Nat
  /\ Attempts \in Nat \ {0}
  /\ MaxFaults \in Nat

VARIABLES
  pc,         \* [Helpers -> Places]: where each helper is in watch()
  attempt,    \* [Helpers -> 1..Attempts]: the round of watch() it is in
  widget,     \* [Helpers -> BOOLEAN]: its standard input is still open
  code,       \* [Helpers -> versions]: the code it runs
  lock,       \* the holder of the lock file
  path,       \* what the socket path names
  peer,       \* [Helpers -> owner its socket is connected to, or None]
  accepted,   \* [Helpers -> BOOLEAN]: that owner has accepted it
  greeting,   \* [Helpers -> version it sent and the owner has not read]
  version,    \* [Helpers -> versions]: Owner.version
  disk,       \* the version of the files of the package
  faults      \* faults so far

socket == <<path, peer, accepted, greeting>>
process == <<attempt, widget, code, version, disk>>
vars == <<pc, lock, socket, process, faults>>

\* Serving are the helpers whose listener is open and that run or end loop().
Serving == {"bound", "serving", "stopping", "hungup"}
Owning == {"binding"} \cup Serving \cup {"unlinking", "releasing"}
Places == Owning \cup {"gone", "trying", "refused", "following", "sleeping",
                        "dying"}

Versions == 0..MaxFaults
Move(p, from, to) == pc[p] = from /\ pc' = [pc EXCEPT ![p] = to]
Fault == faults < MaxFaults /\ faults' = faults + 1

Init ==
  /\ pc = [p \in Helpers |-> "gone"]
  /\ attempt = [p \in Helpers |-> 1]
  /\ widget = [p \in Helpers |-> FALSE]
  /\ code = [p \in Helpers |-> 0] /\ version = code /\ disk = 0
  /\ lock = None
  /\ path \in {None, Leftover}
  /\ peer = [p \in Helpers |-> None] /\ greeting = peer
  /\ accepted = widget
  /\ faults = 0

\* The sockets of S are closed by the owner: their helpers read end of input.
Cut(S) ==
  /\ peer' = [p \in Helpers |-> IF p \in S THEN None ELSE peer[p]]
  /\ accepted' = [p \in Helpers |-> p \notin S /\ accepted[p]]
  /\ greeting' = [p \in Helpers |-> IF p \in S THEN None ELSE greeting[p]]

PeersOf(q) == {p \in Helpers : peer[p] = q}
ClientsOf(q) == {p \in PeersOf(q) : accepted[p]}

\* The listener of q is closed, with what was connected to it.
Unlisten(q) ==
  /\ path' = IF path = q THEN Leftover ELSE path
  /\ Cut(PeersOf(q))

-----------------------------------------------------------------------------
(* watch() *)

\* A widget starts its helper.
Start(p) ==
  /\ Move(p, "gone", "trying")
  /\ peer[p] = None
  /\ attempt' = [attempt EXCEPT ![p] = 1]
  /\ widget' = [widget EXCEPT ![p] = TRUE]
  /\ code' = [code EXCEPT ![p] = disk]
  /\ UNCHANGED <<lock, socket, version, disk, faults>>

\* Mutant: the lock is not exclusive.
Available(p) == TRUE

\* flock(LOCK_EX | LOCK_NB) succeeds.
Free(p) == lock = None

\* Election.win().
Win(p) ==
  /\ Free(p)
  /\ Move(p, "trying", "binding")
  /\ lock' = p
  /\ UNCHANGED <<socket, process, faults>>

Lose(p) ==
  /\ ~Free(p)
  /\ Move(p, "trying", "refused")
  /\ UNCHANGED <<lock, socket, process, faults>>

\* Mutant: a leftover of a dead owner is left where it is.
BindsIfNothingThere(p) ==
  /\ Move(p, "binding", IF path = None THEN "bound" ELSE "gone")
  /\ path' = IF path = None THEN p ELSE path
  /\ lock' = IF path = None THEN lock ELSE None
  /\ UNCHANGED <<peer, accepted, greeting, process, faults>>

\* bind_listener(): whatever is at the path goes.
Bind(p) ==
  /\ Move(p, "binding", "bound")
  /\ path' = p
  /\ UNCHANGED <<lock, peer, accepted, greeting, process, faults>>

\* Owner(): the version it is going to publish is read from the disk now.
Own(p) ==
  /\ Move(p, "bound", "serving")
  /\ version' = [version EXCEPT ![p] = disk]
  /\ UNCHANGED <<lock, socket, attempt, widget, code, disk, faults>>

\* connect_to_owner(): a live listener takes the connection, even one that is
\* not going to accept it; follow() greets it with the version on the disk.
Follow(p) ==
  /\ path \in Helpers
  /\ Move(p, "refused", "following")
  /\ peer' = [peer EXCEPT ![p] = path]
  /\ greeting' = [greeting EXCEPT ![p] = disk]
  /\ UNCHANGED <<lock, path, accepted, process, faults>>

NobodyThere(p) ==
  /\ path \notin Helpers
  /\ Move(p, "refused", "sleeping")
  /\ UNCHANGED <<lock, socket, process, faults>>

\* follow() returns: the owner finished.
OwnerFinished(p) ==
  /\ peer[p] = None
  /\ Move(p, "following", "sleeping")
  /\ UNCHANGED <<lock, socket, process, faults>>

\* follow() returns: the widget that started this helper is gone.  The owner
\* reads what was sent, and the end of input, later.
WidgetFinished(p) ==
  /\ ~widget[p]
  /\ Move(p, "following", "gone")
  /\ UNCHANGED <<lock, socket, process, faults>>

\* for attempt in range(attempts).
RoundLeft(p) == attempt[p] < Attempts

\* Another round, or "could not reach or become the headset helper".
Wake(p) ==
  /\ \/ /\ RoundLeft(p)
        /\ Move(p, "sleeping", "trying")
        /\ attempt' = [attempt EXCEPT ![p] = @ + 1]
     \/ /\ ~RoundLeft(p)
        /\ Move(p, "sleeping", "gone")
        /\ UNCHANGED attempt
  /\ UNCHANGED <<lock, socket, widget, code, version, disk, faults>>

-----------------------------------------------------------------------------
(* Owner.loop() *)

Accept(q, p) ==
  /\ pc[q] = "serving"
  /\ peer[p] = q /\ ~accepted[p]
  /\ accepted' = [accepted EXCEPT ![p] = TRUE]
  /\ UNCHANGED <<pc, lock, path, peer, greeting, process, faults>>

\* Mutant: compared with the version on the disk.
OlderThanDisk(q, v) == v # disk

\* handle(): a version that is not the one the owner started with.
OtherVersion(q, v) == v # version[q]

\* handle() of the greeting: an owner of another version stands down.
Hear(q, p) ==
  /\ peer[p] = q /\ accepted[p] /\ greeting[p] # None
  /\ pc[q] = "serving"
  /\ greeting' = [greeting EXCEPT ![p] = None]
  /\ IF OtherVersion(q, greeting[p])
     THEN pc' = [pc EXCEPT ![q] = "stopping"]
     ELSE UNCHANGED pc
  /\ UNCHANGED <<lock, path, peer, accepted, process, faults>>

\* _reap(): the client's end of input, after all it sent.
Reap(q, p) ==
  /\ pc[q] = "serving"
  /\ p \in ClientsOf(q) /\ pc[p] = "gone" /\ greeting[p] = None
  /\ Cut({p})
  /\ UNCHANGED <<pc, lock, path, process, faults>>

\* Client.send(): a client that does not read is dropped at its limit.
DropClient(q, p) ==
  /\ Fault
  /\ pc[q] = "serving"
  /\ p \in ClientsOf(q)
  /\ Cut({p})
  /\ UNCHANGED <<pc, lock, path, process>>

\* The last watcher left and the widget that started this owner is gone.
LastLeft(q) ==
  /\ ~widget[q] /\ ClientsOf(q) = {}
  /\ Move(q, "serving", "stopping")
  /\ UNCHANGED <<lock, socket, process, faults>>

\* stop(): SIGTERM, SIGINT, SIGHUP.
Signal(q) ==
  /\ Fault
  /\ Move(q, "serving", "stopping")
  /\ UNCHANGED <<lock, socket, process>>

\* The session is closed, then the clients.
HangUp(q) ==
  /\ Move(q, "stopping", "hungup")
  /\ Cut(ClientsOf(q))
  /\ UNCHANGED <<lock, path, process, faults>>

\* Mutant: the lock goes before the socket file does.
CloseAndRelease(q) ==
  /\ Move(q, "hungup", "unlinking")
  /\ Unlisten(q)
  /\ lock' = None
  /\ UNCHANGED <<process, faults>>

CloseListener(q) ==
  /\ Move(q, "hungup", "unlinking")
  /\ Unlisten(q)
  /\ UNCHANGED <<lock, process, faults>>

\* The file at the path is removed, whatever it is.
Unlink(q) ==
  /\ Move(q, "unlinking", "releasing")
  /\ path' = None
  /\ UNCHANGED <<lock, peer, accepted, greeting, process, faults>>

\* Election.release(), and the process exits.
Release(q) ==
  /\ Move(q, "releasing", "gone")
  /\ lock' = None
  /\ UNCHANGED <<socket, process, faults>>

\* bind_listener(), Owner() or loop() raises.  The lock is released with the
\* listener still open.
Raise(q) ==
  /\ Fault
  /\ pc[q] \in {"binding", "bound", "serving"}
  /\ pc' = [pc EXCEPT ![q] = "dying"]
  /\ lock' = None
  /\ UNCHANGED <<socket, process>>

Exit(q) ==
  /\ Move(q, "dying", "gone")
  /\ Unlisten(q)
  /\ UNCHANGED <<lock, process, faults>>

-----------------------------------------------------------------------------
(* The world. *)

\* A helper is killed; the kernel closes what it had open.
Crash(p) ==
  /\ Fault
  /\ pc[p] # "gone"
  /\ pc' = [pc EXCEPT ![p] = "gone"]
  /\ lock' = IF lock = p THEN None ELSE lock
  /\ Unlisten(p)
  /\ UNCHANGED process

\* A widget goes away and closes the standard input of its helper.
WidgetGoes(p) ==
  /\ Fault
  /\ widget[p]
  /\ widget' = [widget EXCEPT ![p] = FALSE]
  /\ UNCHANGED <<pc, lock, socket, attempt, code, version, disk>>

\* The package is updated under the helpers that run.
Update ==
  /\ Fault
  /\ disk' = disk + 1
  /\ UNCHANGED <<pc, lock, socket, attempt, widget, code, version>>

-----------------------------------------------------------------------------
Watch(p) ==
  \/ Win(p) \/ Lose(p) \/ Bind(p) \/ Own(p) \/ Follow(p) \/ NobodyThere(p)
  \/ OwnerFinished(p) \/ WidgetFinished(p) \/ Wake(p)

Finish(q) ==
  \/ LastLeft(q) \/ HangUp(q) \/ CloseListener(q) \/ Unlink(q) \/ Release(q)
  \/ Exit(q)

Serve(q, p) == Accept(q, p) \/ Hear(q, p) \/ Reap(q, p)

Next ==
  \/ Update
  \/ \E p \in Helpers :
       \/ Start(p) \/ Watch(p) \/ Finish(p)
       \/ Signal(p) \/ Raise(p) \/ Crash(p) \/ WidgetGoes(p)
       \/ \E q \in Helpers : Serve(q, p) \/ DropClient(q, p)

Spec == Init /\ [][Next]_vars

\* Every helper runs; select() reports each client that has something, and a
\* turn deals with all of them; a widget that is there restarts its helper
\* (restartTimer in BarWidget.qml).
Fairness ==
  /\ \A p \in Helpers :
       /\ WF_vars(Watch(p) \/ Finish(p))
       /\ WF_vars(widget[p] /\ Start(p))
       /\ WF_vars(\E q \in Helpers : Serve(q, p))

FairSpec == Spec /\ Fairness

-----------------------------------------------------------------------------
(* Properties. *)

\* Every variable has its type.
TypeOK ==
  /\ pc \in [Helpers -> Places]
  /\ attempt \in [Helpers -> 1..Attempts]
  /\ widget \in [Helpers -> BOOLEAN] /\ accepted \in [Helpers -> BOOLEAN]
  /\ code \in [Helpers -> Versions] /\ version \in [Helpers -> Versions]
  /\ disk \in Versions /\ faults \in Versions /\ disk <= faults
  /\ lock \in Helpers \cup {None}
  /\ path \in Helpers \cup {None, Leftover}
  /\ peer \in [Helpers -> Helpers \cup {None}]
  /\ greeting \in [Helpers -> Versions \cup {None}]

\* "Hold this to be the one process talking to the headset": at most one helper
\* is anywhere between winning and releasing.
OneOwner ==
  \A p, q \in Helpers : pc[p] \in Owning /\ pc[q] \in Owning => p = q

\* While an owner listens the path names its listener and no other: nothing that
\* an owner before it still had to do, or that a helper that lost does, takes the
\* socket away from it.
OwnerReachable ==
  \A q \in Helpers : pc[q] \in Serving => path = q

\* A greeting of another version than the owner's makes an end of that owner, if
\* the connection lasts.
StrangerReplaces ==
  \A p, q \in Helpers :
    peer[p] = q /\ greeting[p] \in Versions /\ greeting[p] # version[q]
    /\ pc[q] = "serving"
      ~> pc[q] # "serving" \/ peer[p] # q

Attended(p) ==
  \/ pc[p] = "serving"
  \/ pc[p] = "following" /\ accepted[p] /\ pc[peer[p]] = "serving"

\* A widget that stays is served in the end, by its own helper or by another,
\* whatever crashed, hung up or was left behind before.
WidgetServed ==
  \A p \in Helpers : (<>[]widget[p]) => <>[]Attended(p)

\* "A digest of this package's files, so a follower can spot a stale owner": an
\* owner that has heard a follower of newer code does not go on serving it.
StaleOwnerSpotted ==
  \A p, q \in Helpers :
    /\ pc[q] = "serving" /\ peer[p] = q /\ accepted[p] /\ greeting[p] = None
    /\ pc[p] = "following"
    => code[p] <= code[q]
=============================================================================
