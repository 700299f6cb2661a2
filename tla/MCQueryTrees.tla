---------------------------- MODULE MCQueryTrees ----------------------------
(* An instance of QueryTrees for TLC. *)
EXTENDS QueryTrees

\* The attributes of an element.
Root == <<>>
Adefault(id) == [id |-> id, type |-> "adefault", coll |-> "c"]

\* Defaults as in gift-config.mrml, one whose children have children, and one that
\* contains an element of a type that has children.
ConfiguredDefaults ==
  [adefault |->
     (Root :> [id |-> "adefault", type |-> "adefault", base |-> "multiple"])
     @@ (<<1>> :> [id |-> "sub1", type |-> "sub1", base |-> "inverted_file"])
     @@ (<<2>> :> [id |-> "sub2", type |-> "sub2", base |-> "inverted_file",
                   weight |-> 2]),
   deep |->
     (Root :> [id |-> "deep", type |-> "deep", base |-> "multiple"])
     @@ (<<1>> :> [id |-> "inner", type |-> "inner"])
     @@ (<<1, 1>> :> [id |-> "leaf", base |-> "inverted_file"]),
   nested |->
     (Root :> [id |-> "nested", type |-> "nested", base |-> "multiple"])
     @@ (<<1>> :> [id |-> "again", type |-> "adefault"])]

\* What clients send: the usual message; algorithms with children of their own, one
\* without an ID and one for an accessor that is not installed; one without a type; one
\* with an unknown base type below a good one;
\* defaults of every kind.
SentRequests ==
  {Root :> Adefault("a"),
   (Root :> [Adefault("b") EXCEPT !.coll = "d"])
     @@ (<<1>> :> [base |-> "inverted_file", weight |-> 3])
     @@ (<<2>> :> [id |-> "b2", base |-> "inverted_file"]),
   (Root :> Adefault("m"))
     @@ (<<1>> :> [id |-> "m1", base |-> "inverted_file", sub |-> "mysql"]),
   Root :> [id |-> "untyped", coll |-> "c"],
   (Root :> Adefault("x"))
     @@ (<<1>> :> [id |-> "x1", base |-> "inverted_file"])
     @@ (<<2>> :> [id |-> "x2", base |-> "none"]),
   Root :> [id |-> "h", type |-> "h", base |-> "hierarchy", coll |-> "c"],
   Root :> [id |-> "e", type |-> "deep", coll |-> "c"],
   Root :> [id |-> "n", type |-> "nested", coll |-> "c"]}

File(lib, kind, name, sane) == [lib |-> lib, kind |-> kind, name |-> name, sane |-> sane]

\* What is installed with the hierarchies only.
HierarchyFiles == {File("libGIFTAcHierarchy", "accessor", "hierarchy", TRUE)}

LibraryFiles ==
  HierarchyFiles \cup
  {File("libGIFTQuInvertedFile", "query", "inverted_file", TRUE),
   File("libGIFTQuInvertedFile", "query", "none", FALSE),
   File("libGIFTQuHierarchy", "query", "hierarchy", TRUE),
   File("libGIFTAcURL2FTS", "accessor", "url2fts", TRUE),
   File("libGIFTAcURL2FTS", "accessor", "none", FALSE),
   File("libGIFTAcInvertedFile", "accessor", "inverted_file", TRUE)}
=============================================================================
