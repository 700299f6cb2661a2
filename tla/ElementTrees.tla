----------------------------- MODULE ElementTrees -----------------------------
(***************************************************************************)
(* XML elements as CXMLElement keeps them: a tree and, in its root, the    *)
(* element that is under construction (mCurrentChild).  Trees are made     *)
(* from the calls of expat: start tags, end tags and pieces of text.       *)
(*                                                                         *)
(* A tree is [nodes, cursor]: nodes is a function from the numbers of the  *)
(* nodes, which grow in the order in which the nodes are made, and cursor  *)
(* the number of the element under construction.  Text is a sequence of    *)
(* pieces, each of them "ws" (white space only) or "ink".                  *)
(***************************************************************************)
EXTENDS Integers, Sequences, FiniteSets, SequencesExt, FiniteSetsExt, Functions, TLC

Root == 0
NoNode == -1   \* the null pointer

Element(name, attrs) == [kind |-> "element", name |-> name, attrs |-> attrs, text |-> <<>>]
Text(piece) == [kind |-> "text", name |-> "", attrs |-> <<>>, text |-> <<piece>>]

\* An element with a father; as the root of a tree it is its own cursor.
Below(father, node) ==
  [kind |-> node.kind, name |-> node.name, attrs |-> node.attrs, text |-> node.text,
   father |-> father]

Single(node) == [nodes |-> (Root :> Below(NoNode, node)), cursor |-> Root]

Children(tree, p) == {q \in DOMAIN tree.nodes : tree.nodes[q].father = p}

ChildSeq(tree, p) == SetToSortSeq(Children(tree, p), <)

IsText(tree, p) == tree.nodes[p].kind = "text"

WhitespaceOnly(tree, p) ==
  IsText(tree, p) /\ \A j \in DOMAIN tree.nodes[p].text : tree.nodes[p].text[j] = "ws"

\* Faulty variant of AddChild: a piece of text is a node of its own.
AddApart(tree, q, node) ==
  [nodes |-> (q :> Below(tree.cursor, node)) @@ tree.nodes, cursor |-> q]

\* addChild: text that follows text is added to it; before anything else, text that
\* is white space only is removed.  The child becomes the cursor.
AddChild(tree, q, node) ==
  LET last == IF Children(tree, tree.cursor) = {} THEN NoNode
              ELSE Max(Children(tree, tree.cursor))
      unite == last # NoNode /\ IsText(tree, last) /\ node.kind = "text"
      kept == IF last # NoNode /\ WhitespaceOnly(tree, last)
              THEN Restrict(tree.nodes, DOMAIN tree.nodes \ {last}) ELSE tree.nodes IN
  IF unite
  THEN [nodes |-> [tree.nodes EXCEPT ![last].text = @ \o node.text], cursor |-> last]
  ELSE [nodes |-> (q :> Below(tree.cursor, node)) @@ kept, cursor |-> q]

MoveUp(tree) == [tree EXCEPT !.cursor = tree.nodes[@].father]

\* A null pointer in the place of a tree.
NoTree == [nodes |-> <<>>, cursor |-> NoNode]
IsNull(tree) == DOMAIN tree.nodes = {}

isSubtreeFinished(tree) == tree.cursor = NoNode
-----------------------------------------------------------------------------
(* What expat calls, and what the parsers of the program make of it *)

Start(name, attrs) == [tag |-> "start", name |-> name, attrs |-> attrs]
End(name) == [tag |-> "end", name |-> name, attrs |-> <<>>]
Piece(piece) == [tag |-> "text", name |-> piece, attrs |-> <<>>]

\* A text node is made and left again.
AddText(tree, q, piece) == MoveUp(AddChild(tree, q, Text(piece)))

\* CXMLElementBuilder: the first element is the root; there is no text before it.
Taken(tree, q, token) ==
  CASE token.tag = "start" /\ IsNull(tree) -> Single(Element(token.name, token.attrs))
    [] token.tag = "start" /\ ~IsNull(tree) ->
         AddChild(tree, q, Element(token.name, token.attrs))
    [] token.tag = "text" -> IF IsNull(tree) THEN tree ELSE AddText(tree, q, token.name)
    [] token.tag = "end" -> MoveUp(tree)

\* stringToElement of a document expat accepts.
stringToElement(tokens) ==
  FoldLeftDomain(LAMBDA tree, j : Taken(tree, j, tokens[j]), NoTree, tokens)

\* The outermost elements of a name in a configuration file, as the parsers of
\* algorithms and collections build them one after the other: done are those that are
\* complete.  Text is not handled.
Collected(name, tokens) ==
  FoldLeftDomain(
    LAMBDA state, j :
      LET token == tokens[j]
          moved == MoveUp(state.tree) IN
      CASE token.tag = "start" /\ ~IsNull(state.tree) ->
             [state EXCEPT !.tree = AddChild(@, j, Element(token.name, token.attrs))]
        [] token.tag = "start" /\ IsNull(state.tree) /\ token.name = name ->
             [state EXCEPT !.tree = Single(Element(token.name, token.attrs))]
        [] token.tag = "end" /\ ~IsNull(state.tree) ->
             IF isSubtreeFinished(moved)
             THEN [tree |-> NoTree, done |-> Append(state.done, moved)]
             ELSE [state EXCEPT !.tree = moved]
        [] OTHER -> state,
    [tree |-> NoTree, done |-> <<>>], tokens).done

\* toXML, as the tokens of the text it writes: every line ends in white space and
\* begins with some.
Written(tree) ==
  LET w[p \in DOMAIN tree.nodes] ==
        LET node == tree.nodes[p] IN
        IF node.kind = "text" THEN [j \in DOMAIN node.text |-> Piece(node.text[j])]
        ELSE <<Start(node.name, node.attrs)>>
             \o FlattenSeq([j \in DOMAIN ChildSeq(tree, p) |->
                             <<Piece("ws")>> \o w[ChildSeq(tree, p)[j]]])
             \o (IF Children(tree, p) = {} THEN <<>> ELSE <<Piece("ws")>>)
             \o <<End(node.name)>> IN
  w[Root]
===============================================================================
