-------------------------- MODULE MCBrowserBenchmark --------------------------
(* An instance of BrowserBenchmark for TLC. *)
EXTENDS BrowserBenchmark

Paradigms(types) ==
  <<Start("query-paradigm-list", <<>>)>>
  \o FlattenSeq([i \in DOMAIN types |->
       <<Start("query-paradigm", Attr("interaction-type", types[i])), End("query-paradigm")>>])
  \o <<End("query-paradigm-list")>>

AlgorithmTags(type, types) ==
  <<Start("algorithm", Attr("algorithm-type", type))>> \o Paradigms(types) \o <<End("algorithm")>>
CollectionTags(id, types) ==
  <<Start("collection", Attr("collection-id", id))>> \o Paradigms(types) \o <<End("collection")>>

Greeting(algorithms, collections) ==
  Reply("s1", <<Start("algorithm-list", <<>>)>> \o algorithms \o <<End("algorithm-list"),
              Start("collection-list", <<>>)>> \o collections \o <<End("collection-list")>>)

TwoGreetings ==
  {Greeting(AlgorithmTags("a1", <<"qbe">>) \o AlgorithmTags("a2", <<"browsing">>),
            CollectionTags("c1", <<"qbe", "browsing">>)),
   Greeting(AlgorithmTags("a1", <<"qbe">>), <<>>)}

SmallDisplays == {<<>>, <<1>>, <<2, 3>>, <<3, 2>>}

Elements(n) == [i \in 1..n |-> ImageEntry(i, i)]

\* A tree of five images; a tree in which an image is shown again below itself; images
\* that are listed twice.
HierarchyFiles ==
  {Elements(5) \o <<OpenTree(1), OpenTree(2), OpenTree(4), CloseTree, OpenTree(5), CloseTree,
                    CloseTree, OpenTree(3), CloseTree, CloseTree>>,
   Elements(5) \o <<OpenTree(1), OpenTree(1), OpenTree(4), CloseTree, CloseTree,
                    OpenTree(3), OpenTree(5), CloseTree, CloseTree, CloseTree>>,
   Elements(3) \o <<ImageEntry(2, 4), ImageEntry(4, 4), OpenTree(1), OpenTree(2), OpenTree(3),
                    CloseTree, CloseTree, OpenTree(4), CloseTree, CloseTree>>}

TwoTargets == <<5, 3>>
SomeRankings == {<<5, 4, 2, 1, 3>>, <<3, 1>>}
OneList == {<<1>>, <<2, 3>>}
===============================================================================
