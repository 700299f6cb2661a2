---------------------------- MODULE FeedbackClient ----------------------------
(***************************************************************************)
(* The state of a CFeedbackClient object and what its functions make of    *)
(* it: reading a reply (the handlers of XML::Parser), choosing algorithms  *)
(* by their query paradigms, and writing queries.                          *)
(*                                                                         *)
(* A reply is a sequence of tags (Start and End of ElementTrees).  Images  *)
(* stand for their URLs; they are numbers, so that they can be sorted.     *)
(* The relevance of an example is always 1.                                *)
(***************************************************************************)
EXTENDS ElementTrees

NoImage == 0

\* The only attribute of a tag.
Attr(name, value) == [n \in {name} |-> value]

\* An attribute that is missing is undef.
Attribute(tag, name) == IF name \in DOMAIN tag.attrs THEN tag.attrs[name] ELSE "undef"

\* The argument that names an algorithm or a collection: an ID, or a position.
Named(id) == [id |-> id, number |-> 0]
Nth(n) == [id |-> "", number |-> n]

\* No query: $locQuery before the first result.
NoQuery == [session |-> "", algorithm |-> "", collection |-> "", images |-> <<>>, up |-> FALSE]

\* initialize
NewClient ==
  [path |-> <<>>, results |-> <<>>, query |-> NoQuery, given |-> <<>>, relevant |-> {},
   session |-> "", algorithms |-> <<>>, collections |-> <<>>]

\* Those relevant in an earlier group remain in locRelevantHash.
setRelevantImages(c, images) ==
  [c EXCEPT !.given = images, !.relevant = @ \cup ToSet(images)]

getAlgorithmID(c, which) ==
  IF which.id # "" THEN which.id
  ELSE IF which.number < Len(c.algorithms) THEN c.algorithms[which.number + 1].id
  ELSE "adefault"

\* A position is taken off the arguments, and then the next argument is used.
getCollectionID(c, which) ==
  IF which.id # "" THEN which.id
  ELSE IF c.collections = <<>> THEN "" ELSE c.collections[1].id

\* sort: equal ones keep their order.
Ascending(s) ==
  LET Before(i, j) == s[i] < s[j] \/ (s[i] = s[j] /\ i < j)
      Place(i) == Cardinality({j \in DOMAIN s : Before(j, i)}) + 1 IN
  [k \in DOMAIN s |-> s[CHOOSE i \in DOMAIN s : Place(i) = k]]

\* Faulty variant of makeQuery: the examples in the order of the results.
makeQueryUnsorted(c, images, session, algorithm, collection) ==
  [session |-> IF session = "" THEN c.session ELSE session,
   algorithm |-> getAlgorithmID(c, algorithm),
   collection |-> getCollectionID(c, collection),
   images |-> images, up |-> FALSE]

\* makeQueryString
makeQuery(c, images, session, algorithm, collection) ==
  [session |-> IF session = "" THEN c.session ELSE session,
   algorithm |-> getAlgorithmID(c, algorithm),
   collection |-> getCollectionID(c, collection),
   images |-> Ascending(images), up |-> FALSE]

\* Each relevant image in the results is added to the query.
RelevantResults(results, relevant) ==
  FoldLeft(LAMBDA added, image : IF image \in relevant THEN Append(added, image) ELSE added,
           <<>>, results)

buildNewQuery(c) ==
  makeQuery(c, RelevantResults(c.results, c.relevant), c.session, Nth(0), Nth(0))
-----------------------------------------------------------------------------
(* Reading a reply *)

\* The path contains these names one after the other.
Mentions(path, names) == \E q \in Prefixes(path) : IsSuffix(names, q)

WithParadigm(list, paradigm) ==
  [list EXCEPT ![Len(list)].paradigms = Append(@, paradigm)]

\* The type of an algorithm is kept as its ID.
AlgorithmsAfter(c, tag, path) ==
  LET added == IF IsSuffix(<<"algorithm-list", "algorithm">>, path)
               THEN Append(c.algorithms, [id |-> Attribute(tag, "algorithm-type"),
                                          paradigms |-> <<>>])
               ELSE c.algorithms IN
  IF Mentions(path, <<"algorithm", "query-paradigm-list", "query-paradigm">>)
  THEN WithParadigm(added, tag.attrs) ELSE added

\* What is added to a collection is undef (a name that is not declared), not its
\* query paradigm.
CollectionsAfter(c, tag, path) ==
  LET added == IF IsSuffix(<<"collection-list", "collection">>, path)
               THEN Append(c.collections, [id |-> Attribute(tag, "collection-id"),
                                           paradigms |-> <<>>])
               ELSE c.collections IN
  IF Mentions(path, <<"collection", "query-paradigm-list", "query-paradigm">>)
  THEN WithParadigm(added, <<>>) ELSE added

\* Faulty variant of ResultsAfter: a new list of results continues the old one.
ResultsContinued(c, tag) ==
  IF tag.name = "query-result-element"
  THEN Append(c.results, Attribute(tag, "image-location")) ELSE c.results

ResultsAfter(c, tag) ==
  CASE tag.name = "query-result-element-list" -> <<>>
    [] tag.name = "query-result-element" ->
         Append(c.results, Attribute(tag, "image-location"))
    [] OTHER -> c.results

handleStart(c, tag) ==
  LET path == Append(c.path, tag.name) IN
  [c EXCEPT !.path = path,
            !.algorithms = AlgorithmsAfter(c, tag, path),
            !.collections = CollectionsAfter(c, tag, path),
            !.session = IF path = <<"mrml">> THEN Attribute(tag, "session-id") ELSE @,
            !.results = ResultsAfter(c, tag)]

\* pop of an empty array leaves it empty.
Popped(path) == IF path = <<>> THEN <<>> ELSE Front(path)

handleEnd(c, tag) ==
  LET left == [c EXCEPT !.path = Popped(@)] IN
  IF tag.name = "query-result" THEN [left EXCEPT !.query = buildNewQuery(left)] ELSE left

Handle(c, tag) == IF tag.tag = "start" THEN handleStart(c, tag) ELSE handleEnd(c, tag)

\* A server that closes the connection without an answer changes nothing.  (The sets of
\* one element make TLC evaluate each step once.)
readAndParse(c, reply) ==
  IF reply = <<>> THEN c
  ELSE FoldLeft(LAMBDA d, tag : CHOOSE e \in {Handle(x, tag) : x \in {d}} : TRUE,
                [c EXCEPT !.path = <<>>], reply)
-----------------------------------------------------------------------------
(* Choosing an algorithm *)

\* The attributes both have agree.  undef has no attribute.
isMatchingQueryParadigm(asked, offered) ==
  \A name \in DOMAIN asked \cap DOMAIN offered : asked[name] = offered[name]

isMatchingQueryParadigmList(asked, offered) ==
  \E i \in DOMAIN asked, j \in DOMAIN offered :
    isMatchingQueryParadigm(asked[i], offered[j])

HasCollection(c, id) == \E i \in DOMAIN c.collections : c.collections[i].id = id

\* The first collection of this ID; the program dies when there is none.
getCollection(c, id) ==
  c.collections[Min({i \in DOMAIN c.collections : c.collections[i].id = id})]

getAlgorithmsByParadigmAndCollection(c, paradigms, collection) ==
  SelectSeq(c.algorithms, LAMBDA algorithm :
    /\ isMatchingQueryParadigmList(paradigms, algorithm.paradigms)
    /\ isMatchingQueryParadigmList(algorithm.paradigms, collection.paradigms))
===============================================================================
