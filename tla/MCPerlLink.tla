------------------------------ MODULE MCPerlLink ------------------------------
(* Three images, an annotation file with four, and queries of every kind. *)
EXTENDS PerlLink

El(name, kids) == N("element", name, <<>>, kids)
Txt(text) == N("text", text, <<>>, <<>>)

McImages == <<"a", "b", "c">>

\* Not symmetric as it is read.
McMatrix == << <<4, 2, -6>>, <<6, 0, 2>>, <<-2, 2, 8>> >>

Tag(name) == <<Start(name, <<>>)>>
Leaf(name, text) == Tag(name) \o <<Piece(text), End(name)>>
Image(id, content) ==
  <<Start("image", "ID" :> id), Piece("nl")>> \o content \o <<Piece("ws"), End("image")>>

\* Two images have the same ID; another element has none.
McAnnotations ==
  <<Start("collection", <<>>), Piece("nl")>>
  \o Image("p", Leaf("who", "bear"))
  \o Image("q", Tag("scene") \o Leaf("who", "bear") \o Leaf("where", "ice") \o <<End("scene")>>)
  \o Image("r", Tag("scene") \o Leaf("who", "seal") \o <<Piece("nl")>> \o Leaf("where", "ice")
                \o <<End("scene")>> \o Tag("empty") \o <<End("empty")>>)
  \o Image("p", Tag("scene") \o Leaf("who", "bear") \o <<End("scene")>> \o Leaf("where", "ice"))
  \o <<Start("note", <<>>), End("note"), End("collection")>>

Relevant(image) == N("element", "user-relevance-element", "image-location" :> image, <<>>)
Judgement(image, relevance) ==
  N("element", "user-relevance-element",
    ("image-location" :> image) @@ ("user-relevance" :> relevance), <<>>)

Lists == { << <<Judgement("a", 1)>> >>, << <<Judgement("a", 1), Judgement("b", -1)>> >>,
           << <<Judgement("b", 1)>>, <<Relevant("c"), Judgement("x", 1)>> >>,
           << <<Judgement("c", -1), Judgement("a", -1)>> >> }

RelevanceLists(lists) == [j \in DOMAIN lists |-> El("user-relevance-element-list", lists[j])]

Bear == El("who", <<Txt("bear")>>)
Ice == El("where", <<Txt("ice")>>)

Examples == { <<Bear>>, <<El("scene", <<Bear, Txt("ws"), Ice, Txt("nl")>>)>>,
              <<El("scene", <<Bear>>), Ice>>, <<El("empty", <<Txt("nl")>>)>>,
              <<El("scene", <<El("who", <<Txt("seal")>>), El("when", <<>>)>>), Bear>> }

McQueries ==
  { N("element", "query-step", "result-size" :> n, kids) :
      n \in 0..4,
      kids \in {<<>>, <<El("other", <<>>)>>}
               \cup {RelevanceLists(l) : l \in Lists}
               \cup {<<El("mpeg-7-qbe", e), Txt("ws")>> : e \in Examples} }
===============================================================================
