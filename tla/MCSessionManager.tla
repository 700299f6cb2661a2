--------------------------- MODULE MCSessionManager ---------------------------
(***************************************************************************)
(* Instances of SessionManager for TLC.                                    *)
(***************************************************************************)
EXTENDS SessionRefinement, TLC

CONSTANTS adefault, ainverted, anocollection, auntyped, leaf

\* The default algorithm, one of another ID, one that cannot be built and one
\* without algorithm-type.  The first two share the ID of a child.
NodesOf == [a \in Algorithms |-> IF a \in Buildable THEN {a, leaf} ELSE {}]

ThreadSymmetry == Permutations(Threads) \cup Permutations(Users)
=============================================================================
