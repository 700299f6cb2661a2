-------------------------- MODULE MCQueryProcessing --------------------------
(* Values for TLC: three images in the collection and one that is not, four
   features of which the index lacks the last, a tree of two processors that
   share the features by their parity, and a single processor that prunes. *)
EXTENDS QueryProcessing, TLC

CONSTANTS c1, c2, p1, p2, p3

MCConnections == {c1, c2}
MCThreads == {p1, p2, p3}

MCTrees ==
  (c1 :> {[kind |-> k, procs |-> <<p1, p2>>] : k \in {"byId", "byUrl"}})
  @@ (c2 :> {[kind |-> "single", procs |-> <<p3>>]})

MCCollection == <<3, 1, 2>>
MCFeatures == 1 .. 4

\* Image 4 is not in the collection and has a feature no image of it has.
MCFeaturesOf ==
  <<(1 :> 2 @@ 2 :> 1), (2 :> 2 @@ 3 :> 1), (1 :> 1 @@ 3 :> 3), (1 :> 1 @@ 4 :> 1)>>

MCHistogram == {1}
MCIdf == [f \in MCFeatures |-> f]

MCConsidered ==
  (p1 :> {f \in MCFeatures : f % 2 = 0}) @@ (p2 :> {f \in MCFeatures : f % 2 = 1})
  @@ (p3 :> MCFeatures)

MCWeight == p1 :> 1 @@ p2 :> 2 @@ p3 :> 1
MCPercent == [p \in MCThreads |-> 100]
MCReduceAt == p1 :> 0 @@ p2 :> 0 @@ p3 :> 70
MCReduceTo == [p \in MCThreads |-> 1]

About(images, size, cutoff) ==
  [bare |-> FALSE, images |-> images, size |-> size, cutoff |-> cutoff]

MCBare == [bare |-> TRUE, images |-> <<>>, size |-> 1, cutoff |-> 0]

MCQueries ==
  (c1 :> {MCBare, About(<<>>, 2, 0), About(<<1, 2>>, 1, 0), About(<<4, 1>>, 2, 40)})
  @@ (c2 :> {MCBare, About(<<4, 1>>, 1, 0)})

MCMayFail == {p2}
=============================================================================
