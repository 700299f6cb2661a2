--------------------------- MODULE SessionRefinement ---------------------------
(***************************************************************************)
(* SessionManager implements SessionService.                               *)
(***************************************************************************)
EXTENDS SessionManager

\* The algorithm the service has for a session.  A session is in the table from
\* the moment it is announced.
ServiceOf(s) ==
  IF s \notin known THEN "none"
  ELSE IF s \notin idToSession THEN "gone"
  ELSE IF obj[s].root = NoAlgorithm THEN "broken" ELSE obj[s].root

Table == [s \in Sessions |-> ServiceOf(s)]

Service == INSTANCE SessionService WITH service <- Table, call <- req

\* Every operation is one step of the abstract table: no answer mixes two
\* configurations of a session, a session is deleted once, and only the
\* overlaps SessionService names leave an answer undefined or end the server.
ImplementsService == Service!Spec
-----------------------------------------------------------------------------
(* What keeps the table in step with the sessions, proved in               *)
(* SessionManagerProofs.                                                   *)

\* No algorithm is called what the table says of a session without one.
ASSUME StatusAssumption == {"none", "broken", "gone"} \cap Algorithms = {}

\* The operations a thread may run at each place.
OpsAt ==
  [mgr |-> AllOps \ {"query"}, find |-> {"query"}, insert |-> {"open", "reopen"},
   cfgLock |-> {"open", "reopen", "configure"}, build |-> {"open", "reopen", "configure"},
   qLock |-> {"query", "random"}, eval |-> {"query", "random"}, erase |-> {"delete"},
   renLock |-> {"rename"}, openLock |-> {"reopen"}, closeLock |-> {"close"}]

\* A thread that works on the session it has just inserted.
Inserting(t) == pc[t] \in {"cfgLock", "build"} /\ req[t].op \in {"open", "reopen"}

\* A thread runs the operation it was asked for, on the session the client has
\* named, or on a new one that no client knows.
CallFits(t) ==
  /\ req[t].sid \in known \cup {Bogus}
  /\ pc[t] \in {"idle", "dead"} => req[t] = NoRequest
  /\ pc[t] \notin {"idle", "dead"} => req[t].op \in OpsAt[pc[t]]
  /\ pc[t] \in FoundPcs => IF Inserting(t) THEN found[t] \notin known
                                          ELSE found[t] = req[t].sid

CallsFit == \A t \in Threads : CallFits(t)

\* The IDs clients know have been issued, and the session of one that is no longer
\* in the map has been destroyed.
KnownFit ==
  \A s \in known : s <= lastId /\ (s \notin idToSession => obj[s].state = "destroyed")

\* A session has the container of the tree it has.
TreesFit ==
  \A s \in Sessions : obj[s].root # NoAlgorithm =>
    /\ obj[s].root \in Typed \cap Buildable
    /\ obj[s].first /\ obj[s].nodes = Nodes[obj[s].root]

ServiceInv == CallsFit /\ KnownFit /\ TreesFit
=============================================================================
