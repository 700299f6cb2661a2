---------------------------- MODULE MCMrmlMessages ----------------------------
(* An instance of MrmlMessages for TLC. *)
EXTENDS MrmlMessages

Plain(name) == Start(name, <<>>)
Special(name) == Start(name, "special" :> "yes")

Collection(id) == Start("collection", "collection-id" :> id)
Algorithm(type, id) ==
  Start("algorithm", ("algorithm-type" :> type) @@ ("algorithm-id" :> id))

InMrml(tokens) == <<Plain("mrml")>> \o tokens \o <<End("mrml")>>

\* Nested algorithms, an algorithm inside of a collection and a type that is there
\* twice; a collection that is there twice; one without an ID.
ConfigFiles ==
  {InMrml(<<Algorithm("a", "1"), Algorithm("b", "2"), End("algorithm"), End("algorithm"),
            Algorithm("c", "3"), End("algorithm"), Algorithm("a", "4"), End("algorithm"),
            Collection("x"), Plain("query-paradigm-list"), End("query-paradigm-list"),
            Algorithm("d", "5"), End("algorithm"), End("collection"),
            Collection("y"), End("collection")>>),
   InMrml(<<Collection("x"), End("collection"), Collection("x"), End("collection")>>),
   InMrml(<<Plain("collection"), End("collection")>>)}

SentRequests ==
  {Plain("query-step"), Special("open-session"), Plain("open-session"),
   Plain("get-collections"), Plain("get-algorithms"), Plain("get-sessions"),
   Plain("algorithm"), Plain("configure-session"),
   Start("configure-session", "session-id" :> "s")}

SentInner == {Plain("algorithm"), Plain("query-step")}
===============================================================================
