------------------------------- MODULE PerlLink -------------------------------
(***************************************************************************)
(* Query processors written in Perl: CQPerl turns an element into a flat   *)
(* list of triplets, CGIFTLink makes a tree of them, a class derived from  *)
(* CGIFTLink answers with a tree, which comes back as triplets.  The three *)
(* classes of the repository are here: CGIFTLink itself, CGLDistanceMatrix *)
(* (neighbours in a matrix) and CGLStructuredAnnotation (similarity of     *)
(* annotations that are trees).                                            *)
(*                                                                         *)
(* Trees with their children in place are [kind, name, attrs, kids]; the   *)
(* elements of the C++ side and their cursor are those of ElementTrees.    *)
(* Text is a name; "ws" and "nl" stand for white space without and with a  *)
(* newline at its end.  One call runs at a time: nothing in CQPerl keeps   *)
(* two threads from the one interpreter.                                   *)
(***************************************************************************)
EXTENDS ElementTrees

CONSTANTS
  Images,       \* the images of url2fts, in its order
  Matrix,       \* the distances in the file, doubled
  Annotations,  \* the annotation file, as expat reads it
  Queries,      \* the query-step elements that are sent
  Unit,         \* bound: a similarity of one; divides by the counts that occur
  Relevance     \* the relevance of an image whose relevance is not given

ASSUME PerlLinkAssumption ==
  /\ IsInjective(Images)
  /\ \A i, k \in DOMAIN Images : Matrix[i][k] \in Int
  /\ Unit \in Nat \ {0} /\ Relevance \in Nat

N(kind, name, attrs, kids) == [kind |-> kind, name |-> name, attrs |-> attrs, kids |-> kids]
Undef == N("undef", "", <<>>, <<>>)

AttrOr(node, a, default) == IF a \in DOMAIN node.attrs THEN node.attrs[a] ELSE default

ResultSize(query) == AttrOr(query, "result-size", 0)

VARIABLES
  class,    \* the class of the processor, "none" before it is made
  images,   \* url2fts: what randomQuery and query answer with
  stack,    \* insertion-stack
  call,     \* the last call: what was asked, got by Perl, returned and replied
  up        \* the server runs

vars == <<class, images, stack, call, up>>
-----------------------------------------------------------------------------
(* Triplets *)

Triplet(do, name, value) == [do |-> do, name |-> name, value |-> value]

Attributes(node) ==
  LET keys == SetToSeq(DOMAIN node.attrs) IN
  [j \in DOMAIN keys |-> Triplet("attribute", keys[j], node.attrs[keys[j]])]

RECURSIVE TripletsOf(_), treeToTripletList(_)

\* CXEVTripletList: what an element is for Perl; text is the name of its triplet.
TripletsOf(node) ==
  <<Triplet(node.kind, node.name, "")>> \o Attributes(node)
  \o FlattenSeq([j \in DOMAIN node.kids |-> TripletsOf(node.kids[j])])
  \o <<Triplet("up", "", "")>>

\* CXTVTripletList: what a Perl tree is for C++; text is the value of its triplet, and
\* what is not defined counts as text.
treeToTripletList(node) ==
  (IF node.kind = "element"
   THEN <<Triplet("element", node.name, "")>> \o Attributes(node)
        \o FlattenSeq([j \in DOMAIN node.kids |-> treeToTripletList(node.kids[j])])
   ELSE <<Triplet("text", "", node.name)>>)
  \o <<Triplet("up", "", "")>>

Lost == -2   \* the father of what is pushed to no node of this tree

Blank(text) == text \in {"ws", "nl"}

\* Faulty variant of Read: text has no place in the insertion stack.
ReadTextApart(state, j, t) ==
  CASE t.do \in {"element", "text"} /\ ~(t.do = "text" /\ Blank(t.value)) ->
         [nodes |-> (j :> [kind |-> t.do, name |-> t.name, attrs |-> <<>>,
                           father |-> IF state.nodes = <<>> THEN NoNode
                                      ELSE IF state.stack = <<>> THEN Lost
                                      ELSE Head(state.stack)]) @@ state.nodes,
          stack |-> IF t.do = "text" THEN state.stack ELSE <<j>> \o state.stack]
    [] t.do = "up" /\ state.stack # <<>> -> [state EXCEPT !.stack = Tail(@)]
    [] t.do = "attribute" /\ state.stack # <<>> /\ Head(state.stack) \in DOMAIN state.nodes ->
         [state EXCEPT !.nodes[Head(state.stack)].attrs = (t.name :> t.value) @@ @]
    [] OTHER -> state

\* One triplet: nodes go below the top of the insertion stack and onto it.
Read(state, j, t) ==
  CASE t.do \in {"element", "text"} /\ ~(t.do = "text" /\ Blank(t.value)) ->
         [nodes |-> (j :> [kind |-> t.do, name |-> t.name, attrs |-> <<>>,
                           father |-> IF state.nodes = <<>> THEN NoNode
                                      ELSE IF state.stack = <<>> THEN Lost
                                      ELSE Head(state.stack)]) @@ state.nodes,
          stack |-> <<j>> \o state.stack]
    [] t.do = "up" /\ state.stack # <<>> -> [state EXCEPT !.stack = Tail(@)]
    [] t.do = "attribute" /\ state.stack # <<>> /\ Head(state.stack) \in DOMAIN state.nodes ->
         [state EXCEPT !.nodes[Head(state.stack)].attrs = (t.name :> t.value) @@ @]
    [] OTHER -> state

RECURSIVE Nested(_, _)

\* The node p of a tree kept as nodes with fathers, with its children in place.
Nested(nodes, p) ==
  LET kids == SetToSortSeq({q \in DOMAIN nodes : nodes[q].father = p}, <) IN
  N(nodes[p].kind, nodes[p].name, nodes[p].attrs,
    [j \in DOMAIN kids |-> Nested(nodes, kids[j])])

\* What is left on the stack belongs to no later tree.
tripletListToTree(left, triplets) ==
  LET read == FoldLeftDomain(LAMBDA state, j : Read(state, j, triplets[j]),
                             [nodes |-> <<>>, stack |-> left], triplets) IN
  [tree |-> IF read.nodes = <<>> THEN Undef ELSE Nested(read.nodes, Min(DOMAIN read.nodes)),
   stack |-> [j \in DOMAIN read.stack |-> Lost]]

Broken == [tree |-> NoTree, newest |-> NoNode, broken |-> TRUE]

\* callPerl, when it pops the result: text is left out but not the way up after it.
\* There is nothing above the father of the root.
Popped(state, j, t) ==
  LET null == IsNull(state.tree)
      above == state.tree.cursor = NoNode IN
  CASE state.broken -> state
    [] t.do = "element" ->
         IF null THEN [tree |-> Single(Element(t.name, <<>>)), newest |-> Root, broken |-> FALSE]
         ELSE IF above THEN Broken
         ELSE [state EXCEPT !.tree = AddChild(@, j, Element(t.name, <<>>)), !.newest = j]
    [] t.do = "attribute" /\ state.newest # NoNode ->
         [state EXCEPT !.tree.nodes[state.newest].attrs = (t.name :> t.value) @@ @]
    [] t.do = "up" /\ ~null ->
         IF above THEN Broken ELSE [state EXCEPT !.tree = MoveUp(@)]
    [] OTHER -> state

Rebuilt(triplets) ==
  FoldLeftDomain(LAMBDA state, j : Popped(state, j, triplets[j]),
                 [tree |-> NoTree, newest |-> NoNode, broken |-> FALSE], triplets)
-----------------------------------------------------------------------------
(* The trees the classes answer with *)

QueryResult(children) ==
  N("element", "query-result", <<>>,
    <<N("element", "query-result-element-list", <<>>, children)>>)

ResultElement(location, similarity) ==
  N("element", "query-result-element",
    [a \in {"image-location", "calculated-similarity"} |->
       IF a = "image-location" THEN location ELSE similarity], <<>>)

AsElements(rows) ==
  [j \in DOMAIN rows |-> ResultElement(rows[j].location, rows[j].similarity)]

\* A slice of an array goes on beyond its end.
Slice(elements, n) ==
  [j \in 1..n |-> IF j \in DOMAIN elements THEN elements[j] ELSE Undef]

\* CGIFTLink::query: the first images, whatever the query.
FirstImages(query) == Slice(AsElements(images), ResultSize(query))

Kids(node, name) == SelectSeq(node.kids, LAMBDA k : k.kind = "element" /\ k.name = name)

(* CGLDistanceMatrix *)

\* The matrix is made symmetric when it has been read.
Symmetric(i, k) == (Matrix[i][k] + Matrix[k][i]) \div 2

\* The user-relevance-elements that name an image of the collection.
Judged(query) ==
  LET lists == Kids(query, "user-relevance-element-list")
      all == FlattenSeq([j \in DOMAIN lists |-> lists[j].kids]) IN
  SelectSeq(all, LAMBDA e : AttrOr(e, "image-location", "") \in ToSet(Images))

LineOf(e) == CHOOSE i \in DOMAIN Images : Images[i] = e.attrs["image-location"]

\* Faulty variant of Similarity: the elements are not divided by their number.
SimilaritySummed(query, k) ==
  LET judged == Judged(query)
      increments == [j \in DOMAIN judged |->
        Symmetric(LineOf(judged[j]), k) * AttrOr(judged[j], "user-relevance", Relevance)]
      positive == SelectSeq(increments, LAMBDA v : v > 0)
      negative == SelectSeq(increments, LAMBDA v : v < 0)
      Plus(a, b) == a + b IN
  Unit * FoldLeft(Plus, 0, positive) + (Unit * FoldLeft(Plus, 0, negative)) \div 2

\* The mean of what speaks for the image, and half of the mean of what does not.
Similarity(query, k) ==
  LET judged == Judged(query)
      increments == [j \in DOMAIN judged |->
        Symmetric(LineOf(judged[j]), k) * AttrOr(judged[j], "user-relevance", Relevance)]
      positive == SelectSeq(increments, LAMBDA v : v > 0)
      negative == SelectSeq(increments, LAMBDA v : v < 0)
      Mean(s) == IF s = <<>> THEN 0
                 ELSE (Unit * FoldLeft(LAMBDA a, b : a + b, 0, s)) \div Len(s) IN
  Mean(positive) + Mean(negative) \div 2

\* The images with their similarities; they are the hashes of url2fts themselves.
Scored(query) == [k \in DOMAIN Images |->
                    [location |-> Images[k], similarity |-> Similarity(query, k)]]

Ranked(rows) ==
  LET order == SetToSortSeq(DOMAIN rows,
                 LAMBDA j, k : \/ rows[j].similarity > rows[k].similarity
                               \/ rows[j].similarity = rows[k].similarity /\ j < k) IN
  [j \in DOMAIN rows |-> rows[order[j]]]

\* CGLDistanceMatrix::query takes the slice from 0 to the size that was asked for.
Neighbours(query) == Slice(AsElements(Ranked(Scored(query))), ResultSize(query) + 1)
-----------------------------------------------------------------------------
(* CGLStructuredAnnotation *)

\* CXMLTreeBuilder: text that ends in a newline and is white space is left out.
Built(state, j, token) ==
  LET Put(kind, name, attrs) ==
        (j :> [kind |-> kind, name |-> name, attrs |-> attrs,
               father |-> IF state.stack = <<>> THEN NoNode ELSE Last(state.stack)])
        @@ state.nodes IN
  CASE token.tag = "start" -> [nodes |-> Put("element", token.name, token.attrs),
                               stack |-> Append(state.stack, j)]
    [] token.tag = "text" /\ token.name # "nl" ->
         [state EXCEPT !.nodes = Put("text", token.name, <<>>)]
    [] token.tag = "end" -> [state EXCEPT !.stack = Front(@)]
    [] OTHER -> state

fileToTree(tokens) ==
  LET built == FoldLeftDomain(LAMBDA state, j : Built(state, j, tokens[j]),
                              [nodes |-> <<>>, stack |-> <<>>], tokens) IN
  Nested(built.nodes, 1)

match_elt(a, b) == a.kind = b.kind /\ a.name = b.name

Inked(kids) == SelectSeq(kids, LAMBDA k : ~(k.kind = "text" /\ Blank(k.name)))

RECURSIVE rec_match(_, _)

\* The first of the nodes that matches the term at all; the term is changed by matching.
FirstMatch(nodes, term) ==
  FoldLeft(LAMBDA state, node :
             LET r == rec_match(node, state.query) IN
             [sim |-> IF state.sim > 0 THEN state.sim ELSE r.sim, query |-> r.query],
           [sim |-> 0, query |-> term], nodes)

\* One node of an image against one of the query, in units of a whole match.  Every
\* child of the query counts for the same.  Blank children are taken out of the query
\* when it is first compared below its root: what has no others is a leaf from then on.
rec_match(image, query) ==
  LET kids == Inked(query.kids) IN
  IF ~match_elt(image, query) THEN [sim |-> 0, query |-> query]
  ELSE IF query.kids = <<>> THEN [sim |-> Unit, query |-> query]
  ELSE FoldLeftDomain(
         LAMBDA state, t :
           LET first == FirstMatch(image.kids, kids[t]) IN
           [sim |-> state.sim + first.sim \div Len(kids),
            query |-> [state.query EXCEPT !.kids[t] = first.query]],
         [sim |-> 0, query |-> [query EXCEPT !.kids = kids]], kids)

\* Faulty variant of andys_ham: the terms of the query are added up.
hamAdded(image, query) ==
  FoldLeftDomain(
    LAMBDA state, t :
      LET first == FirstMatch(image.kids, state.query.kids[t]) IN
      [sim |-> state.sim + first.sim,
       query |-> [state.query EXCEPT !.kids[t] = first.query]],
    [sim |-> 0, query |-> query], query.kids)

\* andys_ham: the best term of the query, each with its first match in the image.
andys_ham(image, query) ==
  FoldLeftDomain(
    LAMBDA state, t :
      LET first == FirstMatch(image.kids, state.query.kids[t]) IN
      [sim |-> Max({state.sim, first.sim}),
       query |-> [state.query EXCEPT !.kids[t] = first.query]],
    [sim |-> 0, query |-> query], query.kids)

\* The images of the file that have an ID, in its order; the last one of an ID stays.
AnnotatedImages ==
  LET all == SelectSeq(fileToTree(Annotations).kids, LAMBDA k : "ID" \in DOMAIN k.attrs)
      kept == {j \in DOMAIN all : \A k \in DOMAIN all : k > j => all[k].attrs # all[j].attrs} IN
  [all |-> all, kept |-> kept]

\* The similarities of all images, one after the other, with the last mpeg-7-qbe.
Matches(query) ==
  LET qbe == Kids(query, "mpeg-7-qbe")
      all == AnnotatedImages.all IN
  IF qbe = <<>> THEN <<>>
  ELSE FoldLeft(LAMBDA state, image :
                  LET ham == andys_ham(image, state.query) IN
                  [query |-> ham.query,
                   rows |-> Append(state.rows, [location |-> image.attrs["ID"],
                                                similarity |-> ham.sim])],
                [query |-> Last(qbe), rows |-> <<>>], all).rows

\* The order is that of a hash: similarity_order gets what it compares in @_, because
\* of its prototype, and looks at $a and $b.
Orders(query, rows) ==
  LET kept == IF rows = <<>> THEN {} ELSE AnnotatedImages.kept IN
  UNION {SetToSeqs(chosen) :
           chosen \in kSubset(Min({ResultSize(query), Cardinality(kept)}), kept)}
-----------------------------------------------------------------------------
(* The processor *)

NoCall == [asked |-> Undef, got |-> Undef, result |-> Undef, reply |-> Undef]

Init ==
  /\ class = "none" /\ images = <<>> /\ stack = <<>>
  /\ call = NoCall /\ up = TRUE

Initial(k) == [location |-> Images[k], similarity |-> k]

\* CQPerl::CQPerl: setAlgorithm, setCollection and configure of the class.  A file that
\* cannot be read makes configure die, and the server with it.
Construct(c, readable) ==
  /\ up /\ class = "none"
  /\ IF readable
     THEN /\ class' = c
          /\ images' = IF c = "CGLStructuredAnnotation" THEN <<>>
                       ELSE [k \in DOMAIN Images |-> Initial(k)]
          /\ UNCHANGED up
     ELSE /\ up' = FALSE
          /\ UNCHANGED <<class, images>>
  /\ stack' = <<>> /\ call' = NoCall

\* processGIFTQueryCall and processGIFTRandomQueryCall around the answer of the class,
\* with callPerl around them.
Called(query, children, scored) ==
  \E result \in {QueryResult(children)},
     read \in {tripletListToTree(stack, TripletsOf(query))} :
  \E popped \in {Rebuilt(treeToTripletList(result))} :
    /\ stack' = read.stack
    /\ images' = scored
    /\ up' = ~popped.broken
    /\ call' = [asked |-> query, got |-> read.tree, result |-> result,
                reply |-> IF popped.broken THEN Undef ELSE Nested(popped.tree.nodes, Root)]
    /\ UNCHANGED class

\* A query with children.  The similarities stay in the images of the matrix class.
Query(query) ==
  /\ up /\ class # "none" /\ query.kids # <<>>
  /\ CASE class = "CGIFTLink" -> Called(query, FirstImages(query), images)
       [] class = "CGLDistanceMatrix" -> Called(query, Neighbours(query), Scored(query))
       [] class = "CGLStructuredAnnotation" ->
            \E rows \in {Matches(query)} : \E order \in Orders(query, rows) :
              Called(query, AsElements([j \in DOMAIN order |-> rows[order[j]]]), images)

\* A query without: all images if more are wanted than there are, or as many different
\* ones (in any order: one of the orders stands for all); the annotation class answers
\* with one and the same image as often as it takes.
RandomQuery(query) ==
  LET n == ResultSize(query)
      any == [j \in 1..n |-> [location |-> "constant", similarity |-> 0]] IN
  /\ up /\ class # "none" /\ query.kids = <<>>
  /\ IF class = "CGLStructuredAnnotation" THEN Called(query, AsElements(any), images)
     ELSE IF Len(images) < n THEN Called(query, AsElements(images), images)
     ELSE \E chosen \in SUBSET DOMAIN images :
            /\ Cardinality(chosen) = n
            /\ LET order == SetToSeq(chosen) IN
               Called(query, AsElements([j \in DOMAIN order |-> images[order[j]]]), images)

Destroy ==
  /\ up /\ class # "none"
  /\ class' = "none" /\ images' = <<>> /\ stack' = <<>> /\ call' = NoCall
  /\ UNCHANGED up

Next ==
  \/ \E c \in {"CGIFTLink", "CGLDistanceMatrix", "CGLStructuredAnnotation"},
        readable \in BOOLEAN : Construct(c, readable)
  \/ \E query \in Queries : Query(query) \/ RandomQuery(query)
  \/ Destroy

Spec == Init /\ [][Next]_vars
-----------------------------------------------------------------------------
(* Correctness *)

RECURSIVE Defined(_)
Defined(node) == node.kind # "undef" /\ \A j \in DOMAIN node.kids : Defined(node.kids[j])

\* What Perl gets is the element the query was, with its text and attributes, whatever
\* has been called before, and what comes back is the tree Perl answered with.  The
\* reply cannot be built, and the server stops, exactly when the answer has more
\* elements than there are images.
TriplesCarryTrees ==
  call # NoCall =>
    /\ call.got = call.asked
    /\ up = Defined(call.result)
    /\ up => call.reply = call.result
    /\ stack = <<>>

Rows(tree) == tree.kids[1].kids

Location(row) == row.attrs["image-location"]
Similar(row) == row.attrs["calculated-similarity"]

\* What speaks for image k (sign = 1) or against it (sign = -1) in a query.
Evidence(query, k, sign) ==
  LET lists == {l \in DOMAIN query.kids : query.kids[l].name = "user-relevance-element-list"}
      places == {<<l, j>> \in lists \X (1..3) : j \in DOMAIN query.kids[l].kids}
      Of(p) == query.kids[p[1]].kids[p[2]]
      Value(p) == LET e == Of(p) IN
        IF \E i \in DOMAIN Images : Images[i] = AttrOr(e, "image-location", "")
        THEN LET i == CHOOSE i \in DOMAIN Images : Images[i] = e.attrs["image-location"] IN
             AttrOr(e, "user-relevance", Relevance) * ((Matrix[i][k] + Matrix[k][i]) \div 2)
        ELSE 0
      found == {p \in places : sign * Value(p) > 0} IN
  IF found = {} THEN 0
  ELSE (Unit * MapThenSumSet(Value, found)) \div Cardinality(found)

\* A query of the matrix class is answered with the images for which most speaks, best
\* first: the mean of the positive evidence and half the mean of the negative, of this
\* query alone.  Nothing left out is better.  There is one image more than was asked for.
NeighboursRanked ==
  class = "CGLDistanceMatrix" /\ call # NoCall /\ call.asked.kids # <<>> /\ up =>
    LET rows == Rows(call.reply)
        Score(k) == Evidence(call.asked, k, 1) + Evidence(call.asked, k, -1) \div 2
        Of(row) == CHOOSE k \in DOMAIN Images : Images[k] = Location(row)
        shown == {Of(rows[j]) : j \in DOMAIN rows} IN
    /\ Cardinality(shown) = Len(rows) /\ Len(rows) = ResultSize(call.asked) + 1
    /\ \A j \in DOMAIN rows : Similar(rows[j]) = Score(Of(rows[j]))
    /\ \A j, k \in DOMAIN rows : j < k => Similar(rows[j]) >= Similar(rows[k])
    /\ \A k \in DOMAIN Images \ shown : \A s \in shown : Score(k) <= Score(s)

RECURSIVE HasAll(_, _), Touches(_, _)

\* The node has all of the query below it, or a path of it to a leaf.
HasAll(node, query) ==
  /\ node.kind = query.kind /\ node.name = query.name
  /\ \A t \in DOMAIN query.kids : \E c \in DOMAIN node.kids : HasAll(node.kids[c], query.kids[t])

Touches(node, query) ==
  /\ node.kind = query.kind /\ node.name = query.name
  /\ \/ query.kids = <<>>
     \/ \E t \in DOMAIN query.kids, c \in DOMAIN node.kids : Touches(node.kids[c], query.kids[t])

RECURSIVE Pruned(_)
Pruned(query) == [query EXCEPT !.kids = LET kids == Inked(query.kids) IN
                                        [j \in DOMAIN kids |-> Pruned(kids[j])]]

\* No node of the query has white space only.
RECURSIVE NoneBlank(_)
NoneBlank(query) == /\ query.kids # <<>> => Inked(query.kids) # <<>>
                    /\ \A t \in DOMAIN query.kids : NoneBlank(query.kids[t])

\* The similarity of an annotated image says how much of a term of the query its
\* annotation has, whichever images came before it: something if and only if a path of
\* some term is in it, and everything only if some term is.
MatchesFound ==
  class = "CGLStructuredAnnotation" /\ call # NoCall /\ call.asked.kids # <<>> =>
    LET rows == Rows(call.result)
        qbe == Last(Kids(call.asked, "mpeg-7-qbe"))
        all == AnnotatedImages.all
        Image(row) == all[CHOOSE j \in AnnotatedImages.kept : all[j].attrs["ID"] = Location(row)] IN
    (Kids(call.asked, "mpeg-7-qbe") # <<>> /\ NoneBlank(qbe)) =>
      \A j \in DOMAIN rows :
        LET below == Image(rows[j]).kids
            terms == {Pruned(qbe.kids[t]) : t \in DOMAIN qbe.kids} IN
        /\ Similar(rows[j]) \in 0..Unit
        /\ Similar(rows[j]) > 0 <=> \E q \in terms, c \in DOMAIN below : Touches(below[c], q)
        /\ Similar(rows[j]) = Unit => \E q \in terms, c \in DOMAIN below : HasAll(below[c], q)
===============================================================================
