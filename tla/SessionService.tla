---------------------------- MODULE SessionService ----------------------------
(***************************************************************************)
(* What clients may rely on when they use sessions of the GIFT server: a   *)
(* table from session IDs to the algorithm each session is configured      *)
(* with, which every operation reads and changes in one indivisible step.  *)
(* SessionManager implements it with its maps, mutexes and query trees.    *)
(*                                                                         *)
(* The table promises nothing about a session that has been deleted while  *)
(* a query of it was under way, or whose last configuration did not        *)
(* produce a query tree: such a query may answer anything, and it is the   *)
(* one way, beside a query that overlaps the opening or deletion of any    *)
(* session, in which a request can bring the server down.                  *)
(***************************************************************************)
EXTENDS Naturals

CONSTANTS Threads, Users, Sessions, Bogus, Algorithms, Default, Typed,
          Buildable, Nodes, Sought

VARIABLES up, service, call, ans

sVars == <<up, service, call, ans>>

Registered(s) == s \in Sessions /\ service[s] \in Algorithms \cup {"broken"}
Gone(s) == s \in Sessions /\ service[s] = "gone"
Told == {s \in Sessions : service[s] # "none"}

Usable == Typed \cap Buildable

NoCall == [op |-> "none", sid |-> Bogus, arg |-> Default]

Init ==
  /\ up = TRUE
  /\ service = [s \in Sessions |-> "none"]
  /\ call = [t \in Threads |-> NoCall]
  /\ ans = [t \in Threads |-> <<"none">>]

Request(t) ==
  /\ call[t] = NoCall
  /\ \E op \in {"open", "reopen", "close", "configure", "query", "random",
                "delete", "rename", "translate"},
        sid \in Told \cup {Bogus},
        arg \in Users \cup Algorithms \cup Sought :
       call' = [call EXCEPT ![t] = [op |-> op, sid |-> sid, arg |-> arg]]
  /\ ans' = [ans EXCEPT ![t] = <<"none">>]
  /\ UNCHANGED <<up, service>>

Answer(t, a) ==
  /\ call[t] # NoCall
  /\ call' = [call EXCEPT ![t] = NoCall]
  /\ ans' = [ans EXCEPT ![t] = a]
  /\ UNCHANGED up

\* A session nobody has seen before, with the default algorithm.
Open(t) ==
  /\ call[t].op \in {"open", "reopen"}
  /\ Answer(t, <<"ack">>)
  /\ \E s \in Sessions :
       /\ service[s] = "none"
       /\ service' = [service EXCEPT ![s] = IF Default \in Usable THEN Default ELSE "broken"]

OpenFails(t) ==
  /\ call[t].op \in {"open", "reopen"}
  /\ Default \notin Usable
  /\ Answer(t, <<"error">>)
  /\ UNCHANGED service

\* An algorithm without a type is acknowledged and leaves no query tree.
Configure(t) ==
  LET a == call[t].arg
  IN /\ call[t].op = "configure"
     /\ Registered(call[t].sid)
     /\ Answer(t, IF a \in Typed \ Buildable THEN <<"error">> ELSE <<"ack">>)
     /\ service' = [service EXCEPT ![call[t].sid] =
                      IF a \in Usable THEN a ELSE "broken"]

\* A query is answered by the algorithm the session is configured with.
Query(t) ==
  LET s == call[t].sid
  IN /\ call[t].op \in {"query", "random"}
     /\ s \in Sessions /\ service[s] \in Algorithms
     /\ call[t].arg \in Nodes[service[s]]
     /\ Answer(t, <<"result", service[s]>>)
     /\ UNCHANGED service

Overlapped(t) == \E u \in Threads \ {t} : call[u].op \in {"open", "reopen", "delete"}

QueryFails(t) ==
  LET s == call[t].sid
  IN /\ call[t].op \in {"query", "random"}
     /\ \/ ~Registered(s)
        \/ call[t].op = "query" /\ Overlapped(t)
        \/ service[s] = "broken"
        \/ call[t].arg \notin Nodes[service[s]]
     /\ Answer(t, <<"error">>)
     /\ UNCHANGED service

\* A session is deleted at most once.
Delete(t) ==
  /\ call[t].op = "delete"
  /\ Registered(call[t].sid)
  /\ Answer(t, <<"ack">>)
  /\ service' = [service EXCEPT ![call[t].sid] = "gone"]

\* Rename, close and reopen are acknowledged for the sessions that exist.
Acknowledge(t) ==
  /\ \/ call[t].op \in {"rename", "close", "reopen"} /\ Registered(call[t].sid)
     \/ call[t].op = "translate"
  /\ Answer(t, <<"ack">>)
  /\ UNCHANGED service

Refuse(t) ==
  /\ call[t].op \in {"configure", "delete", "rename", "close"}
  /\ ~Registered(call[t].sid)
  /\ Answer(t, <<"error">>)
  /\ UNCHANGED service

\* Nothing is promised about the request t has made.
Unprotected(t) ==
  \/ call[t].op \in {"query", "random", "close"} /\ Gone(call[t].sid)
  \/ /\ call[t].op \in {"query", "random"}
     /\ call[t].sid \in Sessions /\ service[call[t].sid] = "broken"

Undefined(t) ==
  /\ Unprotected(t)
  /\ Answer(t, <<"undefined">>)
  /\ UNCHANGED service

Down(t) ==
  /\ Unprotected(t) \/ (call[t].op = "query" /\ Overlapped(t))
  /\ up' = FALSE
  /\ UNCHANGED <<service, call, ans>>

Next ==
  /\ up
  /\ \E t \in Threads :
       \/ Request(t) \/ Open(t) \/ OpenFails(t) \/ Configure(t)
       \/ Query(t) \/ QueryFails(t) \/ Delete(t) \/ Acknowledge(t)
       \/ Refuse(t) \/ Undefined(t) \/ Down(t)

Spec == Init /\ [][Next]_sVars
=============================================================================
