--------------------------- MODULE InvertedFileScores ---------------------------
(***************************************************************************)
(* What a CQInvertedFile (libGIFTQuInvertedFile) computes: from the        *)
(* attributes of an algorithm to the features it considers, the function   *)
(* that weighs them and the prunings (init), and from a query with         *)
(* positive and negative images, or with features, to scores.  The         *)
(* features are those FeatureExtraction has written, the documents those   *)
(* of the index the server has read when it started.                       *)
(*                                                                         *)
(* One processor is modelled, evaluating one query at a time; what happens *)
(* when several share an accessor is the subject of QueryProcessing, which *)
(* in turn knows one function and positive images only.                    *)
(*                                                                         *)
(* Term frequencies of a query are multiplied by the denominator common to *)
(* all of them (Scale), which cancels when a score is divided by that of   *)
(* the query.                                                              *)
(***************************************************************************)
EXTENDS FeatureExtraction

CONSTANTS
  Indexes,     \* the sequences of pictures a collection may be indexed with, of one length
  Algorithms,  \* attributes of algorithms, by their names
  Queries,
  LogSquared,  \* of the frequency of a feature n documents have, a number of units
  LogOdds,     \* log(1 / frequency - 0.9999) of it, in units
  MinCount,    \* features that are evaluated whatever the time is
  StopPoints   \* after how many features the time may come to the cutoff point

Attribute ==
  {"function", "color-histogram", "texture-histogram", "color-blocks", "texture-blocks",
   "percentage", "reduced-at", "reduced-to", "time", "modulo", "modulo-class"}

\* The features of a query, a term frequency for each, and its images with their
\* relevances.  All these numbers are multiples of the same unit.
QueryType ==
  [features : Seq(Nat \X Int), images : Seq(Pictures \X Int), size : Nat, cutoff : 0 .. 100]

ASSUME InvertedFileScoresAssumption ==
  /\ \A s \in Indexes : s # <<>> /\ IsInjective(s) /\ Range(s) \subseteq Pictures
  /\ \A a \in Algorithms : DOMAIN a \subseteq Attribute
  /\ Queries \subseteq QueryType
  /\ {MinCount} \cup StopPoints \subseteq Nat
  /\ \A s \in Indexes : {LogSquared, LogOdds} \subseteq [1 .. Len(s) -> Int]

VARIABLES
  up,        \* the process runs
  index,     \* the indexed pictures (the place of one is its ID), and the lists
  settings,  \* what init() has read from the algorithm
  terms,     \* mQueryFeatureWeighters
  late,      \* the process has used more time than the cutoff point allows
  asked,     \* the query answered last
  answer

scoreVars == <<up, index, settings, terms, late, asked, answer>>
vars == <<fts, scoreVars>>
-----------------------------------------------------------------------------
(* The accessor *)

NoIndex == [docs |-> <<>>, lists |-> <<>>]

\* DIDToFeatureList, URLToFeatureList
Frequencies(i) ==
  LET written == Range(fts[i].features)
  IN  [id \in {f.id : f \in written} |-> (CHOOSE f \in written : f.id = id).frequency]

Inverted(docs) ==
  LET of == [d \in DOMAIN docs |-> Frequencies(docs[d])]
  IN  [id \in UNION {DOMAIN of[d] : d \in DOMAIN docs} |->
         [d \in {e \in DOMAIN docs : id \in DOMAIN of[e]} |-> of[d][id]]]

Known(id) == id \in DOMAIN index.lists

\* FeatureToCollectionFrequency, as a number of documents: an unknown feature is
\* taken to be in all of them.
Commonness(id) ==
  IF Known(id) THEN Cardinality(DOMAIN index.lists[id]) ELSE Len(index.docs)

\* getFeatureDescription, from what init has read from the file of descriptions: COL_POS is
\* 0, the value for an unknown feature.
Kind(id) == IF id < Len(Descriptions) THEN Described(id).kind ELSE "COL_POS"

IsHistogram(id) == Kind(id) \in {"COL_HST", "GABOR_HST"}
-----------------------------------------------------------------------------
(* The algorithm: init *)

Functions ==
  {"BestFullyWeighted", "ClassicalIDF", "BestProbabilistic", "BinaryTerm", "Probability",
   "StandardTF", "Coordination"}

Has(a, name) == name \in DOMAIN a

\* The attribute that blocks each group of features.
BlockedBy ==
  [k \in {"COL_HST", "GABOR_HST", "COL_POS", "GABOR_POS"} |->
     CASE k = "COL_HST" -> "color-histogram" [] k = "GABOR_HST" -> "texture-histogram"
       [] k = "COL_POS" -> "color-blocks" [] k = "GABOR_POS" -> "texture-blocks"]

BlockedGroups(a) ==
  {k \in DOMAIN BlockedBy : Has(a, BlockedBy[k]) /\ a[BlockedBy[k]]}

\* The score board is reduced only when it is said at what and to what.
Reduction(a) ==
  IF Has(a, "reduced-at") /\ Has(a, "reduced-to")
    THEN <<a["reduced-at"], a["reduced-to"]>> ELSE <<>>

Settings(a) ==
  [function |-> a["function"],
   blocked |-> BlockedGroups(a),
   percentage |-> IF Has(a, "percentage") THEN <<a["percentage"]>> ELSE <<>>,
   reduction |-> Reduction(a),
   timed |-> Has(a, "time"),
   modulo |-> IF Has(a, "modulo") THEN a["modulo"] ELSE 0,
   class |-> IF Has(a, "modulo") /\ Has(a, "modulo-class") THEN a["modulo-class"] ELSE 0]

\* mPruningUsed
Prunes(s) == s.percentage # <<>> \/ s.reduction # <<>> \/ s.timed

\* Broken: a class takes the features of the classes before it, too.
ConsidersLower(s, id) ==
  /\ Kind(id) \notin s.blocked
  /\ s.modulo # 0 => id % s.modulo <= s.class

\* The features buildQueryHash takes of an image.
Considers(s, id) ==
  /\ Kind(id) \notin s.blocked
  /\ s.modulo # 0 => id % s.modulo = s.class
-----------------------------------------------------------------------------
(* The features of a query *)

NewFunction == [pos |-> 0, neg |-> 0]

\* addQueryFeature: what is relevant is counted apart from what is not.
AddQueryFeature(term, relevance, frequency) ==
  IF relevance > 0 THEN [term EXCEPT !.pos = @ + relevance * frequency]
                   ELSE [term EXCEPT !.neg = @ + relevance * frequency]

\* addFeature, for all features in the domain of of: one that is not in the hash
\* gets a function of its own.
AddFeatures(ts, relevance, of) ==
  [id \in DOMAIN of |->
     AddQueryFeature(IF id \in DOMAIN ts THEN ts[id] ELSE NewFunction, relevance, of[id])] @@ ts

\* Broken: the features of the last query stay.
NotCleared(ts) == ts

\* clearFeatures
Cleared(ts) == <<>>

\* A cui-term-frequency-element is taken whatever is blocked, and by every class
\* of a modulo.
WithFeatures(ts, q) ==
  FoldLeft(LAMBDA t, f : AddFeatures(t, f[2], f[1] :> FREQ_MAX), ts, q.features)

\* The images of a query that are relevant or irrelevant.
ImagesOf(q) == SelectSeq(q.images, LAMBDA i : i[2] # 0)

\* buildQueryHash
WithImages(s, ts, q) ==
  FoldLeft(LAMBDA t, i :
             LET of == Frequencies(i[1])
                 considered == {id \in DOMAIN of : Considers(s, id)}
             IN  AddFeatures(t, i[2], [id \in considered |-> of[id]]),
           ts, ImagesOf(q))

Sign(n) == IF n < 0 THEN -1 ELSE 1

\* lPositiveSum and lNegativeSum; the latter is negative.
RelevanceSums(q) ==
  LET Sum(S(_)) == FoldLeft(LAMBDA n, i : n + S(i[2]), 0, ImagesOf(q))
  IN  [pos |-> Sum(LAMBDA r : IF r > 0 THEN r ELSE 0),
       neg |-> Sum(LAMBDA r : IF r > 0 THEN 0 ELSE r)]

NoSums == [pos |-> 0, neg |-> 0]

\* The denominators of a term frequency; none if there is no such image.
Over(sum) == IF sum = 0 THEN 1 ELSE Abs(sum)
Scale(sums) == 2 * Over(sums.pos) * Over(sums.neg)

\* getTermFrequency, times Scale: irrelevant images count half.
TermFrequency(term, sums) ==
  (IF sums.pos = 0 THEN 0 ELSE 2 * term.pos * Over(sums.neg))
    - (IF sums.neg = 0 THEN 0 ELSE Abs(term.neg) * Over(sums.pos))
-----------------------------------------------------------------------------
(* Weights *)

\* CWeightingFunction::subApply: a feature of a histogram adds what document and
\* query have in common.
Plain(id, tf, df) ==
  IF tf # 0 /\ IsHistogram(id) THEN Sign(tf) * Abs(Lowest(df, Abs(tf))) ELSE tf

\* subApply of the four functions that have a normalizer of value 1, a
\* CQNNoNormalization.
ClassicalIDF(id, tf, df) ==
  IF IsHistogram(id) THEN Plain(id, tf, df) ELSE tf * LogSquared[Commonness(id)]

BinaryTerm(id, tf, df) ==
  Plain(id, tf, df) * IF IsHistogram(id) THEN 1 ELSE LogOdds[Commonness(id)]

Probability(tf) == tf

CoordinationLevel(id, tf, df) == Plain(id, tf, df)

Weigh(function, id, tf, df) ==
  CASE function = "ClassicalIDF" -> ClassicalIDF(id, tf, df)
    [] function = "BinaryTerm" -> BinaryTerm(id, tf, df)
    [] function = "Probability" -> Probability(tf)
    [] function = "Coordination" -> CoordinationLevel(id, tf, df)

\* preCalculate; the features are sorted by it.
QueryFactor(function, id, tf) ==
  IF function = "ClassicalIDF" THEN tf * LogSquared[Commonness(id)] ELSE tf

\* The normalizers of the other three: CQNMaxDocumentFrequency and
\* CQNEuclideanLengthSquare.  buildNormalizedQueryHash shows them a feature before
\* it tells the feature the sums of relevances.
EuclideanLengthSquare(shown) == MapThenSumSet(Square, shown)

MaxDocumentFrequency(shown) == Max(shown \cup {0})

Normalizer(function, ts) ==
  LET shown == {Abs(TermFrequency(ts[id], NoSums)) : id \in DOMAIN ts}
  IN  IF function = "StandardTF" THEN EuclideanLengthSquare(shown) ELSE MaxDocumentFrequency(shown)

\* CWFBestProbabilistic::subApply asserts that the normalizer is positive.
Asserts(function, ts) ==
  function = "BestProbabilistic" /\ DOMAIN ts # {} /\ Normalizer(function, ts) = 0

\* A division by 0: infinity, or not a number.
Unbounded(function, ts) ==
  /\ function \in {"BestFullyWeighted", "StandardTF"}
  /\ DOMAIN ts # {} /\ Normalizer(function, ts) = 0
-----------------------------------------------------------------------------
(* Scores: keepScore, keepScorePruning *)

\* The keys of a function, which are numbers, those of the highest values first.
Descending(f) ==
  SortSeq(SelectSeq([n \in 1 .. Max(DOMAIN f \cup {0}) + 1 |-> n - 1], LAMBDA n : n \in DOMAIN f),
          LAMBDA j, k : f[j] > f[k] \/ (f[j] = f[k] /\ j > k))

\* Broken: the weight of the last feature is the score.
ScoredLast(board, ignores, weights) ==
  LET scored == UNION {DOMAIN weights[n] : n \in DOMAIN weights}
  IN  [d \in IF ignores THEN scored \cap DOMAIN board ELSE scored |->
         weights[Max({n \in DOMAIN weights : d \in DOMAIN weights[n]})][d]] @@ board

\* CScoreBoard::operator(), for the weights the documents get from one feature after
\* the other: a document that has no score yet gets one, unless the board has been
\* reduced.
Scored(board, ignores, weights) ==
  LET scored == UNION {DOMAIN weights[n] : n \in DOMAIN weights}
      Old(d) == IF d \in DOMAIN board THEN board[d] ELSE 0
  IN  [d \in IF ignores THEN scored \cap DOMAIN board ELSE scored |->
         Old(d) + MapThenSumSet(LAMBDA n : weights[n][d],
                                {n \in DOMAIN weights : d \in DOMAIN weights[n]})] @@ board

LimitNumberTo(board, n) ==
  [d \in Range(SubSeq(Descending(board), 1, Lowest(n, Cardinality(DOMAIN board)))) |-> board[d]]

Never == -1

\* The conditions that end the loop: n features of total have been evaluated, and
\* the time is reached after stop of them.
Stops(s, n, total, stop) ==
  \/ s.timed /\ stop # Never /\ n >= stop /\ n > MinCount
  \/ s.percentage # <<>> /\ n = (total * s.percentage[1]) \div 100

\* How many features of total are evaluated.
EvaluatedNumber(s, total, stop) ==
  Min({total} \cup {n \in 0 .. total - 1 : Stops(s, n, total, stop)})

\* The feature before which the board is reduced; 0 stands for none.
ReducedAt(s, total) == IF s.reduction = <<>> THEN 0 ELSE (s.reduction[1] * total) \div 100

\* What a feature adds to the scores of the documents in its list.
Weights(s, id, tf, scale) ==
  LET list == IF Known(id) THEN index.lists[id] ELSE <<>>
  IN  [d \in DOMAIN list |-> Weigh(s.function, id, tf, list[d] * scale)]

\* The features, those first that count most.
Ordered(s, tf) == Descending([id \in DOMAIN tf |-> Abs(QueryFactor(s.function, id, tf[id]))])

\* The board after these weights; before those of feature at it is reduced to wanted
\* documents.
Board(weights, at, wanted) ==
  IF at \in DOMAIN weights
    THEN Scored(LimitNumberTo(Scored(<<>>, FALSE, SubSeq(weights, 1, at - 1)), wanted),
                TRUE, SubSeq(weights, at, Len(weights)))
    ELSE Scored(<<>>, FALSE, weights)

\* The scores of all documents, and that of the query, from the features done.
ScoresOf(s, tf, scale, done, at, size) ==
  [board |-> Board([n \in DOMAIN done |-> Weights(s, done[n], tf[done[n]], scale)] \o <<>>,
                   at, s.reduction[2] * size),
   score |-> MapThenSumSet(LAMBDA n : Weigh(s.function, done[n], tf[done[n]], tf[done[n]]),
                           DOMAIN done)]

\* The loop over the features.
ScoreFeatures(s, tf, scale, ordered, size, stop) ==
  ScoresOf(s, tf, scale, SubSeq(ordered, 1, EvaluatedNumber(s, Len(ordered), stop)),
           ReducedAt(s, Len(ordered)), size)

\* Size is the number of images wanted.
KeepScore(s, ts, sums, size, stop) ==
  LET tf == [id \in DOMAIN ts |-> TermFrequency(ts[id], sums)]
  IN  ScoreFeatures(s, tf, Scale(sums), Ordered(s, tf), size, stop)
-----------------------------------------------------------------------------
(* Answers: fastQuery, fastQueryByFeature *)

Listed(docs, scores, unit) == [kind |-> "list", docs |-> docs, scores |-> scores, unit |-> unit]
Random == [kind |-> "random"]
Undefined == [kind |-> "undefined"]
NoAnswer == [kind |-> "none"]

\* The documents with the highest scores, without those below the cutoff.  All
\* scores are divided by the absolute value of the score of the query.
RankedOf(e, q, wanted) ==
  LET kept == SelectSeq(wanted, LAMBDA d : q.cutoff > 0 =>
                                           100 * e.board[d] >= q.cutoff * Abs(e.score))
  IN  Listed(kept, [n \in DOMAIN kept |-> e.board[kept[n]]], Abs(e.score))

Ranked(e, q) ==
  RankedOf(e, q, SubSeq(Descending(e.board), 1, Lowest(q.size, Cardinality(DOMAIN e.board))))

TermsOf(s, ts, q) == WithImages(s, WithFeatures(Cleared(ts), q), q)

\* What is answered with these scores; a division by 0 may have come before.
Answered(s, ts, q, e) ==
  IF Unbounded(s.function, ts) \/ (e.score = 0 /\ DOMAIN e.board # {})
    THEN Undefined
    ELSE Ranked(e, q)

\* The answer to a query of these terms.
Respond(s, ts, q, stop) ==
  IF ImagesOf(q) = <<>> THEN Random
  ELSE Answered(s, ts, q, KeepScore(s, ts, RelevanceSums(q), q.size, stop))
-----------------------------------------------------------------------------
(* Behaviour *)

NoSettings == [function |-> ""]
NoQuery == [features |-> <<>>, images |-> <<>>, size |-> 0, cutoff |-> 0]

Init ==
  /\ InitExtraction
  /\ up = TRUE
  /\ index = NoIndex
  /\ settings = NoSettings /\ terms = <<>>
  /\ late = FALSE
  /\ asked = NoQuery /\ answer = NoAnswer

\* The server starts with the index of pictures that have feature files.
Start(docs) ==
  /\ index = NoIndex
  /\ Range(docs) \subseteq DOMAIN fts
  /\ index' = [docs |-> docs, lists |-> Inverted(docs)]
  /\ UNCHANGED <<fts, up, settings, terms, late, asked, answer>>

\* A CQInvertedFile is built; newWeighter asserts that it knows the function.
Construct(a) ==
  /\ up /\ index # NoIndex
  /\ IF Has(a, "function") /\ a["function"] \in Functions
       THEN settings' = Settings(a) /\ UNCHANGED up
       ELSE up' = FALSE /\ UNCHANGED settings
  /\ terms' = <<>> /\ asked' = NoQuery /\ answer' = NoAnswer
  /\ UNCHANGED <<fts, index, late>>

\* fastQuery.  The time that counts is what the process has used since it began,
\* so it stays beyond the cutoff point once it has come there.
FastQuery(q, stop) ==
  /\ up /\ settings # NoSettings
  /\ \A n \in DOMAIN q.images : q.images[n][1] \in DOMAIN fts
  /\ terms' = TermsOf(settings, terms, q)
  /\ IF ImagesOf(q) # <<>> /\ Asserts(settings.function, terms')
       THEN up' = FALSE /\ answer' = NoAnswer
       ELSE answer' = Respond(settings, terms', q, stop) /\ UNCHANGED up
  /\ late' = (stop # Never)
  /\ asked' = q
  /\ UNCHANGED <<fts, index, settings>>

StopsOf ==
  IF late THEN {0} ELSE {Never} \cup (IF settings # NoSettings /\ settings.timed
                                        THEN StopPoints ELSE {})

\* The extraction of features comes first; the server reads the index only once.
Next ==
  \/ index = NoIndex /\ \E i \in Pictures : ExtractFeatures(i) /\ UNCHANGED scoreVars
  \/ \E docs \in Indexes : Start(docs)
  \/ \E a \in Algorithms : Construct(a)
  \/ \E q \in Queries : \E stop \in StopsOf : FastQuery(q, stop)

Spec == Init /\ [][Next]_vars
-----------------------------------------------------------------------------
(* Properties *)

Unpruned(s) == ~Prunes(s)

\* A query with one image of the collection finds that image: nothing is more
\* similar, and unless as many others are just as similar, it is in the answer.
\* Only weights of CWFBinaryTerm may be negative, of features in more than half of
\* the images, and then the image itself may even have the score -1.
\* (applyOnThis and apply, of CWeightingFunction and its subclasses; the division
\* by the score of the query in fastQueryByFeature)
QueryImageFindsItself ==
  LET Found(doc) ==
        /\ \A n \in DOMAIN answer.docs :
             answer.docs[n] = doc => Abs(answer.scores[n]) = answer.unit
        /\ settings.function # "BinaryTerm" =>
             /\ answer.docs # <<>> /\ answer.scores[1] = answer.unit
             /\ \/ doc \in Range(answer.docs)
                \/ \A n \in DOMAIN answer.docs : answer.scores[n] = answer.unit
  IN  /\ answer.kind = "list" /\ Unpruned(settings)
      /\ asked.size > 0 /\ asked.features = <<>> /\ DOMAIN terms # {}
      => \A doc \in DOMAIN index.docs, r \in {i[2] : i \in Range(asked.images)} :
           r > 0 /\ ImagesOf(asked) = <<<<index.docs[doc], r>>>> => Found(doc)

\* The query with all positive relevances times 2 and all negative ones times 3.
Rescaled(q) ==
  [q EXCEPT !.images = [k \in DOMAIN @ |-> <<@[k][1], @[k][2] * (IF @[k][2] > 0 THEN 2 ELSE 3)>>]]

\* What Scale is multiplied by then.
Factor(q) ==
  (IF \E i \in Range(q.images) : i[2] > 0 THEN 2 ELSE 1)
    * (IF \E i \in Range(q.images) : i[2] < 0 THEN 3 ELSE 1)

\* An answer depends on the query alone: not on the queries before it, of which
\* mQueryFeatureWeighters still holds the features, and not on the unit a client
\* measures relevance in, neither of relevant nor of irrelevant images.
\* (clearFeatures in fastQuery, the two sums of relevances in getTermFrequency)
AnswersDependOnQuery ==
  answer.kind = "list" /\ ~settings.timed =>
    /\ answer = Respond(settings, TermsOf(settings, <<>>, asked), asked, Never)
    /\ asked.features = <<>> =>
         LET again == Rescaled(asked)
         IN  Respond(settings, TermsOf(settings, <<>>, again), again, Never) =
           [answer EXCEPT !.scores = [n \in DOMAIN @ |-> Factor(asked) * @[n]],
                          !.unit = Factor(asked) * @]

OfClass(s, modulo, class) == [s EXCEPT !.modulo = modulo, !.class = class]

\* Dispatching a query to processors of all classes of a modulo loses nothing and
\* counts nothing twice: their score boards add up to the board of one processor
\* without a modulo, and so do the scores of the query.  (buildQueryHash: "use of
\* this: dispatching multiple query processors")
DispatchAddsUp ==
  LET Kept(s) ==
        KeepScore(s, TermsOf(s, <<>>, asked), RelevanceSums(asked), asked.size, Never)
      whole == Kept(settings)
  IN  /\ answer.kind = "list" /\ Unpruned(settings)
      /\ settings.modulo = 0 /\ asked.features = <<>>
      => \A m \in 2 .. 3 :
           LET parts == [c \in 0 .. m - 1 |-> Kept(OfClass(settings, m, c))]
               Part(c, d) == IF d \in DOMAIN parts[c].board THEN parts[c].board[d] ELSE 0
           IN  /\ whole.score = MapThenSumSet(LAMBDA c : parts[c].score, 0 .. m - 1)
               /\ DOMAIN whole.board = UNION {DOMAIN parts[c].board : c \in 0 .. m - 1}
               /\ \A d \in DOMAIN whole.board :
                    whole.board[d] = MapThenSumSet(LAMBDA c : Part(c, d), 0 .. m - 1)
=============================================================================
