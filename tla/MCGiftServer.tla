------------------------------ MODULE MCGiftServer ------------------------------
(***************************************************************************)
(* Instances of GiftServer for TLC.                                        *)
(***************************************************************************)
EXTENDS GiftServer, TLC

CONSTANTS adefault, auntyped, leaf

\* The default algorithm has a child, leaf.
NodesOf == [a \in Algorithms |-> IF a \in Buildable THEN {a, leaf} ELSE {}]

\* The accept loop's thread is not like the others.
ThreadSymmetry == Permutations(Threads \ {Main})
=============================================================================
