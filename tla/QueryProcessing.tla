---------------------------- MODULE QueryProcessing ----------------------------
(***************************************************************************)
(* The evaluation of queries: CQMultiple (libMRML/cc/CQMultiple.cc), which *)
(* hands a query to its children in a thread each and merges what they     *)
(* find, CQInvertedFile (libGIFTQuInvertedFile), which scores documents    *)
(* feature by feature, and CAcIFFileSystem, the accessor all of them share:*)
(* its one stream of the inverted file, and its catalogue of images, which *)
(* a query by an image that is not in the collection extends.              *)
(*                                                                         *)
(* A connection runs one query at a time, on a tree of its own.  A         *)
(* processor is a CQInvertedFile of one tree; it stands for the thread that*)
(* evaluates it, too.  One action is what a thread does between two points *)
(* where it locks or unlocks gMutex while others may use the accessor;     *)
(* allocations lock gMutex as well, so the code has fewer interleavings.   *)
(*                                                                         *)
(* Images are numbered in the order of their URLs; an ID is one more than  *)
(* in the code, which counts from 0.                                       *)
(* All images of a query have the relevance 1, and scores are multiplied by*)
(* their number, which cancels when a score is divided by that of the      *)
(* query.  The weighting function is CWFClassicalIDF.                      *)
(***************************************************************************)
EXTENDS Integers, Sequences, FiniteSets, FiniteSetsExt, SequencesExt, Mutex

CONSTANTS
  Connections,
  Trees,       \* the query trees of each connection
  Collection,  \* the images url2fts.xml lists, in this order
  Features,    \* feature IDs
  FeaturesOf,  \* what the feature file of an image says: from features to frequencies
  Histogram,   \* the features of a colour or Gabor histogram
  Idf,         \* squared logarithm of the collection frequency, a number of units
  Considered,  \* features a processor neither blocks nor leaves to another one
  Weight,      \* cui-weight of each processor
  Percent,     \* cui-pr-percentage-of-features of each processor
  ReduceAt,    \* cui-pr-score-board-reduced-at, in percent; 0 if not used
  ReduceTo,    \* cui-pr-score-board-reduced-to
  Queries,     \* the queries each connection may send
  MayFail,     \* processors whose thread pthread_create may fail to create
  Adds,        \* the build lacks IGNORE_UNKNOWN_URLS
  Extracts     \* whether gift-url-to-fts.pl may succeed, and whether it may fail

Images == DOMAIN FeaturesOf
Error == 0     \* the name IDToAccessorElement makes up for an unknown ID
Nothing == 0   \* no feature: the stream is not positioned at a list

TreeType == [kind : {"single", "byId", "byUrl"}, procs : Seq(Threads)]
\* The processors of a connection's trees; no other connection has them.
Owned(c) == UNION {Range(t.procs) : t \in Trees[c]}

QueryType == [bare : BOOLEAN, images : Seq(Images), size : Nat, cutoff : 0 .. 100]

ASSUME QueryProcessingAssumption ==
  /\ \A c \in Connections : Trees[c] # {} /\ Trees[c] \subseteq TreeType
  /\ \A c \in Connections : \A t \in Trees[c] :
       /\ t.procs # <<>> /\ IsInjective(t.procs)
       /\ t.kind = "single" => Len(t.procs) = 1
  /\ \A c, d \in Connections : c # d => Owned(c) \cap Owned(d) = {}
  /\ Error \notin Images
  /\ Collection \in Seq(Images) /\ Collection # <<>>
  /\ IsInjective(Collection)
  /\ Features \subseteq Nat \ {Nothing} /\ IsFiniteSet(Features)
  /\ \A i \in Images : /\ DOMAIN FeaturesOf[i] \subseteq Features
                       /\ FeaturesOf[i] \in [DOMAIN FeaturesOf[i] -> Nat]
  /\ Histogram \subseteq Features
  /\ Idf \in [Features -> Nat \ {0}]
  /\ Considered \in [Threads -> SUBSET Features]
  /\ Weight \in [Threads -> Nat \ {0}]
  /\ {Percent, ReduceAt, ReduceTo} \subseteq [Threads -> Nat]
  /\ \A c \in Connections : Queries[c] \subseteq QueryType
  /\ MayFail \subseteq Threads
  /\ Adds \in BOOLEAN
  /\ Extracts \subseteq BOOLEAN /\ Extracts # {}

VARIABLES
  up,         \* the process runs
  gmutex,     \* gMutex
  stream,     \* the feature whose list mInvertedFile is positioned at
  catalogue,  \* the images the accessor knows; the ID of an image is its place
  files,      \* the images that have a feature file
  eval,       \* what each processor is doing
  pc, tree,   \* where a connection is, and the tree it evaluates
  query,      \* the query of each connection
  next,       \* the child to be started or joined next
  merged,     \* lResultMap
  answer      \* the list of images the connection has replied

connVars == <<pc, tree, query, next, merged, answer>>
accVars == <<gmutex, stream, catalogue, files>>
vars == <<up, accVars, eval, connVars>>
-----------------------------------------------------------------------------
(* Relevances are fractions *)

Plus(r, s) == <<r[1] * s[2] + s[1] * r[2], r[2] * s[2]>>
Times(n, r) == <<n * r[1], r[2]>>
Over(r, n) == <<r[1], r[2] * n>>
Exceeds(r, s) == r[1] * s[2] > s[1] * r[2]
Equal(r, s) == r[1] * s[2] = s[1] * r[2]

Lesser(m, n) == IF m < n THEN m ELSE n

\* The elements of a set as a sequence, sorted: each at the place behind all of
\* those that precede it.
Sorted(S, before(_, _)) ==
  [k \in 1 .. Cardinality(S) |->
     CHOOSE x \in S : Cardinality({y \in S : before(y, x)}) = k - 1]

\* The keys of a function to relevances, the most relevant first.  Equally
\* relevant ones are in descending order after sort() and reverse(), in
\* ascending order after the sort of the list of triplets.  (A score board is a
\* hash_map; IDs below its number of buckets, and the model has no others, are in
\* ascending order there.)
Ranking(rel, ascending) ==
  Sorted(DOMAIN rel, LAMBDA a, b :
    \/ Exceeds(rel[a], rel[b])
    \/ Equal(rel[a], rel[b]) /\ (IF ascending THEN a < b ELSE a > b))

Cut(s, n) == SubSeq(s, 1, Lesser(n, Len(s)))
-----------------------------------------------------------------------------
(* The index and the weights *)

Frequency(i, f) == IF f \in DOMAIN FeaturesOf[i] THEN FeaturesOf[i][f] ELSE 0

\* The documents in the list of each feature.
ListOf ==
  [f \in Features |-> {d \in DOMAIN Collection : Frequency(Collection[d], f) > 0}]

Indexed == {f \in Features : ListOf[f] # {}}

\* preCalculate: an unknown feature has the collection frequency 1, of which the
\* logarithm is 0.
Factor(f, tf) == IF f \in Indexed THEN tf * Idf[f] ELSE 0

\* apply: what feature f adds to a document it has the frequency w in, n being
\* the number of images in the query.
Apply(f, tf, n, w) == IF f \in Histogram THEN Lesser(n * w, tf) ELSE Factor(f, tf)

ApplyOnThis(f, tf) == IF f \in Histogram THEN tf ELSE Factor(f, tf)

\* buildNormalizedQueryList: the features of the query, the heaviest first.
\* Equally heavy ones are in the reverse order of the hash_map, see Ranking.
ByFactor(tfs) ==
  Sorted({f \in Features : tfs[f] > 0}, LAMBDA f, g :
    \/ Factor(f, tfs[f]) > Factor(g, tfs[g])
    \/ Factor(f, tfs[f]) = Factor(g, tfs[g]) /\ f > g)

NoTerms == [f \in Features |-> 0]

\* addFeature for every feature of image i that processor p considers.
WithImage(p, tfs, i) ==
  [f \in Features |-> IF f \in Considered[p] THEN tfs[f] + Frequency(i, f) ELSE tfs[f]]
-----------------------------------------------------------------------------
(* State *)

NoQuery == [bare |-> TRUE, images |-> <<>>, size |-> 0, cutoff |-> 0]

\* A processor between two queries: fastQuery begins with clearFeatures.
Resting ==
  [at |-> "off", query |-> NoQuery, limit |-> 0, left |-> <<>>, tf |-> NoTerms,
   queue |-> <<>>, count |-> 0, board |-> <<>>, ignore |-> FALSE, score |-> 0,
   result |-> <<>>]

Places == {"off", "images", "extract", "features", "read", "done", "failed"}

PlaceOK(e) ==
  /\ e.at \in Places
  /\ e.query \in UNION {Queries[c] : c \in Connections} \cup {NoQuery}
  /\ e.left \in Seq(Images) /\ e.tf \in [Features -> Nat]
  /\ e.queue \in Seq(Features) /\ e.count \in 0 .. Len(e.queue)
  /\ {e.limit, e.score} \subseteq Nat
  /\ DOMAIN e.board \subseteq DOMAIN Collection
  /\ e.ignore \in BOOLEAN

\* The places of processors and connections, and what each keeps there.
TypeOK ==
  /\ up \in BOOLEAN
  /\ gmutex \in MutexType
  /\ stream \in Features \cup {Nothing}
  /\ catalogue \in Seq(Images) /\ files \subseteq Images
  /\ \A p \in Threads : PlaceOK(eval[p])
  /\ pc \in [Connections -> {"idle", "random", "start", "join", "answer", "reply"}]
  /\ \A c \in Connections : tree[c] \in Trees[c]
  /\ \A c \in Connections : query[c] \in Queries[c] \cup {NoQuery}
  /\ next \in [Connections -> Nat]
  /\ answer \in [Connections -> Seq(Images \cup {Error})]

Init ==
  /\ up = TRUE
  /\ gmutex = FreeMutex
  /\ stream = Nothing
  /\ catalogue = Collection
  /\ files = Range(Collection)
  /\ eval = [p \in Threads |-> Resting]
  /\ pc = [c \in Connections |-> "idle"]
  /\ tree = [c \in Connections |-> CHOOSE t \in Trees[c] : TRUE]
  /\ query = [c \in Connections |-> NoQuery]
  /\ next = [c \in Connections |-> 1]
  /\ merged = [c \in Connections |-> <<>>]
  /\ answer = [c \in Connections |-> <<>>]

\* IDToAccessorElement, in an accessor that knows the images of a list.
Name(known, d) == IF d \in DOMAIN known THEN known[d] ELSE Error

\* getRandomAccessorElements: as many documents as asked for, or all, by ID.
RandomDocuments(n, known) ==
  {Sorted(S, <) : S \in kSubset(Lesser(n, Len(known)), DOMAIN known)}
-----------------------------------------------------------------------------
(* Connections: CQuery::query and CQMultiple::query *)

\* What fastQuery or query of a processor gets from its caller.
Started(q, limit) ==
  [Resting EXCEPT !.at = "images", !.query = q, !.left = q.images, !.limit = limit]

\* A query arrives.  A processor that is a tree of its own runs in the thread of
\* the connection.
Ask(c) ==
  /\ up /\ pc[c] = "idle"
  /\ \E t \in Trees[c], q \in Queries[c] :
       LET single == t.kind = "single" /\ ~q.bare IN
       /\ tree' = [tree EXCEPT ![c] = t]
       /\ query' = [query EXCEPT ![c] = q]
       /\ pc' = [pc EXCEPT ![c] =
                   IF q.bare THEN "random" ELSE IF single THEN "join" ELSE "start"]
       /\ eval' = IF single
                  THEN [eval EXCEPT ![t.procs[1]] = Started(q, q.size)]
                  ELSE eval
  /\ UNCHANGED <<up, accVars, next, merged, answer>>

\* getRandomImages, for a query without any child element.  CQMultiple has an
\* accessor of its own, which no query extends.
RandomImages(c) ==
  LET t == tree[c]
      known == IF t.kind = "single" THEN catalogue ELSE Collection IN
  /\ up /\ pc[c] = "random"
  /\ t.kind = "single" => CanLock(gmutex, t.procs[1])
  /\ \E docs \in RandomDocuments(query[c].size, known) :
       answer' = [answer EXCEPT ![c] = [j \in DOMAIN docs |-> known[docs[j]]]]
  /\ pc' = [pc EXCEPT ![c] = "reply"]
  /\ UNCHANGED <<up, accVars, eval, tree, query, next, merged>>

\* The child whose turn it is.
Child(c) == tree[c].procs[next[c]]

\* Past the last child, the connection goes on with place l and the first child.
Advance(c, l) ==
  LET last == next[c] = Len(tree[c].procs) IN
  /\ next' = [next EXCEPT ![c] = IF last THEN 1 ELSE @ + 1]
  /\ pc' = IF last THEN [pc EXCEPT ![c] = l] ELSE pc

\* A child is asked for as many images as the accessor has, or five times as many
\* as the client wants if results are merged by URL.
ChildLimit(c) ==
  IF tree[c].kind = "byUrl" THEN 5 * query[c].size ELSE Len(Collection)

\* runThread, runFastThread: nobody looks at the result of pthread_create.
Spawn(c) ==
  /\ up /\ pc[c] = "start"
  /\ \/ eval' = [eval EXCEPT ![Child(c)] = Started(query[c], ChildLimit(c))]
     \/ /\ Child(c) \in MayFail
        /\ eval' = [eval EXCEPT ![Child(c)] = [Resting EXCEPT !.at = "failed"]]
  /\ Advance(c, "join")
  /\ UNCHANGED <<up, accVars, tree, query, merged, answer>>

\* The thread of a child is not running, or never was.
Ended(p) == eval[p].at \in {"done", "failed"}

\* Faulty variant of Joinable: the parent does not wait.
NeedNotJoin(p) == TRUE

\* pthread_join returns.
Joinable(p) == Ended(p)

\* Faulty variant of ResultWeight: all children count the same.
NoResultWeight(c, p) == 1

\* Only fastQuery weights what a child has found.
ResultWeight(c, p) == IF tree[c].kind = "byId" THEN Weight[p] ELSE 1

AddTo(m, key, r) ==
  [k \in DOMAIN m \cup {key} |->
     IF k # key THEN m[k] ELSE IF key \in DOMAIN m THEN Plus(m[k], r) ELSE r]

\* Results are merged by ID, or by the name the child's accessor gives them.
WithResult(c, p) ==
  FoldLeft(LAMBDA m, r :
             AddTo(m,
                   IF tree[c].kind = "byUrl" THEN Name(catalogue, r.id) ELSE r.id,
                   Times(ResultWeight(c, p), r.rel)),
           merged[c], eval[p].result)

\* A child is joined and its result, if there is one, merged.
Join(c) ==
  /\ up /\ pc[c] = "join" /\ tree[c].kind # "single"
  /\ Joinable(Child(c))
  /\ merged' = [merged EXCEPT ![c] = WithResult(c, Child(c))]
  /\ Advance(c, "answer")
  /\ UNCHANGED <<up, accVars, eval, tree, query, answer>>

\* A thread that was not created is joined by an uninitialized pthread_t: the
\* call returns an error, which is Join, or the process ends.
JoinCrashes(c) ==
  /\ up /\ pc[c] = "join" /\ tree[c].kind # "single"
  /\ eval[Child(c)].at = "failed"
  /\ up' = FALSE
  /\ UNCHANGED <<accVars, eval, connVars>>

\* The list of CQMThread goes out of scope; threads that have ended are forgotten.
Forgotten(c) ==
  [p \in Threads |-> IF p \in Range(tree[c].procs) /\ Ended(p) THEN Resting ELSE eval[p]]

\* What queries for IDs have brought together, best first ...
MergedByID(c) ==
  LET best == Cut(Ranking(merged[c], FALSE), query[c].size) IN
  [j \in DOMAIN best |-> Name(Collection, best[j])]

\* ... and what queries for locations have, which are in the result already.
MergedByURL(c) == Cut(Ranking(merged[c], TRUE), query[c].size)

\* The result of the single processor, or the best merged ones, with the names
\* the connection's own accessor knows.
Answer(c) ==
  LET t == tree[c]
      e == eval[t.procs[1]]
      names == CASE t.kind = "single" ->
                      [j \in DOMAIN e.result |-> Name(catalogue, e.result[j].id)]
                 [] t.kind = "byId" -> MergedByID(c)
                 [] t.kind = "byUrl" -> MergedByURL(c) IN
  /\ up
  /\ IF t.kind = "single"
     THEN pc[c] = "join" /\ e.at = "done" /\ CanLock(gmutex, t.procs[1])
     ELSE pc[c] = "answer"
  /\ answer' = [answer EXCEPT ![c] = names]
  /\ eval' = Forgotten(c)
  /\ pc' = [pc EXCEPT ![c] = "reply"]
  /\ UNCHANGED <<up, accVars, tree, query, next, merged>>

\* The reply is sent; the locals of the query are gone.
Reply(c) ==
  /\ up /\ pc[c] = "reply"
  /\ pc' = [pc EXCEPT ![c] = "idle"]
  /\ query' = [query EXCEPT ![c] = NoQuery]
  /\ merged' = [merged EXCEPT ![c] = <<>>]
  /\ answer' = [answer EXCEPT ![c] = <<>>]
  /\ UNCHANGED <<up, accVars, eval, tree, next>>
-----------------------------------------------------------------------------
(* Processors: CQInvertedFile::fastQuery *)

\* What the feature file of an image gives, an empty list if there is none.
Terms(p, i) == IF i \in files THEN WithImage(p, eval[p].tf, i) ELSE eval[p].tf

\* URLToFeatureList for the next image of the query, if it is in the catalogue or
\* may not be added to it.
CollectKnown(p) ==
  LET e == eval[p]
      i == Head(e.left) IN
  /\ up /\ e.at = "images" /\ e.left # <<>>
  /\ i \in Range(catalogue) \/ ~Adds
  /\ CanLock(gmutex, p)
  /\ eval' = [eval EXCEPT ![p].left = Tail(@), ![p].tf = Terms(p, i)]
  /\ UNCHANGED <<up, accVars, connVars>>

\* Faulty variant of ExtractLock: gMutex is free while the features are extracted.
NoExtractLock(p) == gmutex

\* gMutex stays locked until the image has been added.
ExtractLock(p) == Locked(gmutex, p, 1)

\* The image is unknown: gift-url-to-fts.pl is run to fetch it and extract its
\* features.
Extract(p) ==
  LET e == eval[p] IN
  /\ up /\ e.at = "images" /\ e.left # <<>>
  /\ Head(e.left) \notin Range(catalogue) /\ Adds
  /\ CanLock(gmutex, p)
  /\ gmutex' = ExtractLock(p)
  /\ eval' = [eval EXCEPT ![p].at = "extract"]
  /\ UNCHANGED <<up, stream, catalogue, files, connVars>>

\* Faulty variant of AddUnlock: URLToFeatureList returns without unlocking.
NoAddUnlock(p) == gmutex

AddUnlock(p) == IF gmutex.owner = p THEN Unlocked(gmutex, 1) ELSE gmutex

\* The script has ended, well or not; the image is added all the same.
AddImage(p) ==
  LET e == eval[p]
      i == Head(e.left) IN
  /\ up /\ e.at = "extract"
  /\ \E ok \in Extracts :
       /\ files' = IF ok THEN files \cup {i} ELSE files
       /\ eval' = [eval EXCEPT ![p].at = "images", ![p].left = Tail(@),
                               ![p].tf = IF ok THEN WithImage(p, @, i) ELSE @]
  /\ catalogue' = Append(catalogue, i)
  /\ gmutex' = AddUnlock(p)
  /\ UNCHANGED <<up, stream, connVars>>

\* No image of the query is relevant: random IDs, of relevance 0.
RandomIDs(p) ==
  LET e == eval[p] IN
  /\ up /\ e.at = "images" /\ e.query.images = <<>>
  /\ CanLock(gmutex, p)
  /\ \E docs \in RandomDocuments(e.limit, catalogue) :
       eval' = [eval EXCEPT ![p].at = "done",
                            ![p].result = [j \in DOMAIN docs |-> [id |-> docs[j], rel |-> <<0, 1>>]]]
  /\ UNCHANGED <<up, accVars, connVars>>

\* All images have been read; buildNormalizedQueryList.
Begin(p) ==
  LET e == eval[p] IN
  /\ up /\ e.at = "images" /\ e.left = <<>> /\ e.query.images # <<>>
  /\ eval' = [eval EXCEPT ![p].at = "features", ![p].queue = ByFactor(e.tf)]
  /\ UNCHANGED <<up, accVars, connVars>>

\* The condition of the loop over features.
Continues(p) ==
  LET e == eval[p] IN
  /\ e.count < Len(e.queue)
  /\ e.count # (Percent[p] * Len(e.queue)) \div 100

\* Faulty variant of Pruned: dropped documents may come back.
PrunedForNow(p) ==
  LET e == eval[p]
      now == e.count + 1 = (ReduceAt[p] * Len(e.queue)) \div 100
      scores == [d \in DOMAIN e.board |-> <<e.board[d], 1>>]
      kept == Range(Cut(Ranking(scores, FALSE), ReduceTo[p] * e.limit)) IN
  IF now THEN [e EXCEPT !.board = [d \in kept |-> e.board[d]]] ELSE e

\* limitNumberTo and setIgnore, before one certain feature.
Pruned(p) ==
  LET e == eval[p]
      now == e.count + 1 = (ReduceAt[p] * Len(e.queue)) \div 100
      scores == [d \in DOMAIN e.board |-> <<e.board[d], 1>>]
      kept == Range(Cut(Ranking(scores, FALSE), ReduceTo[p] * e.limit)) IN
  IF now THEN [e EXCEPT !.board = [d \in kept |-> e.board[d]], !.ignore = TRUE] ELSE e

\* Faulty variant of ReadLock: the stream is positioned without the lock.
NoReadLock(p) == gmutex

ReadLock(p) == Locked(gmutex, p, 1)

\* One round of the loop up to seekg; a feature the index lacks has no list.
Seek(p) ==
  LET e == Pruned(p)
      f == e.queue[e.count + 1] IN
  /\ up /\ e.at = "features" /\ Continues(p)
  /\ CanLock(gmutex, p)
  /\ eval' = [eval EXCEPT ![p] =
       [e EXCEPT !.count = @ + 1, !.score = @ + ApplyOnThis(f, e.tf[f]),
                 !.at = IF f \in Indexed THEN "read" ELSE @]]
  /\ IF f \in Indexed
     THEN stream' = f /\ gmutex' = ReadLock(p)
     ELSE UNCHANGED <<stream, gmutex>>
  /\ UNCHANGED <<up, catalogue, files, connVars>>

\* CScoreBoard::operator() for every document in the list of feature f.
Scored(e, f) ==
  [d \in DOMAIN e.board \cup (IF e.ignore THEN {} ELSE ListOf[f]) |->
     (IF d \in DOMAIN e.board THEN e.board[d] ELSE 0)
     + (IF d \in ListOf[f]
        THEN Apply(f, e.tf[f], Len(e.query.images), Frequency(Collection[d], f))
        ELSE 0)]

\* The list that starts where the stream is, unless it is another feature's.
ReadList(p) ==
  LET e == eval[p]
      f == e.queue[e.count] IN
  /\ up /\ e.at = "read"
  /\ eval' = [eval EXCEPT ![p].at = "features",
                          ![p].board = IF stream = f THEN Scored(e, f) ELSE @]
  /\ stream' = Nothing
  /\ gmutex' = IF gmutex.owner = p THEN Unlocked(gmutex, 1) ELSE gmutex
  /\ UNCHANGED <<up, catalogue, files, connVars>>

\* fastQueryByFeature divides by the score of the query, ranks, cuts, and drops
\* what is below the cutoff: the last of what is ranked.
Rank(p) ==
  LET e == eval[p]
      rel == [d \in DOMAIN e.board |-> <<e.board[d], e.score>>]
      close == {d \in DOMAIN e.board : 100 * e.board[d] >= e.query.cutoff * e.score}
      wanted == SubSeq(Ranking(rel, FALSE), 1, Lesser(e.limit, Cardinality(close))) IN
  /\ up /\ e.at = "features" /\ ~Continues(p)
  /\ eval' = [eval EXCEPT ![p].at = "done",
                          ![p].result = [j \in DOMAIN wanted |->
                                           [id |-> wanted[j], rel |-> rel[wanted[j]]]]]
  /\ UNCHANGED <<up, accVars, connVars>>
-----------------------------------------------------------------------------
ConnectionStep(c) ==
  \/ Ask(c) \/ RandomImages(c) \/ Spawn(c)
  \/ Join(c) \/ JoinCrashes(c) \/ Answer(c) \/ Reply(c)

ProcessorStep(p) ==
  \/ CollectKnown(p) \/ Extract(p) \/ AddImage(p) \/ RandomIDs(p)
  \/ Begin(p) \/ Seek(p) \/ ReadList(p) \/ Rank(p)

Next ==
  \/ \E c \in Connections : ConnectionStep(c)
  \/ \E p \in Threads : ProcessorStep(p)

Spec == Init /\ [][Next]_vars

\* Threads run; one that waits for gMutex gets it if it is free again and again.
\* Nobody need ask anything.
Fairness ==
  /\ \A c \in Connections : SF_connVars(pc[c] # "idle" /\ ConnectionStep(c))
  /\ \A p \in Threads : SF_eval(ProcessorStep(p))

FairSpec == Spec /\ Fairness
-----------------------------------------------------------------------------
(* What a query should find, said without threads, locks and streams *)

\* How often processor p counts feature f in the images of query q.
Wanted(p, q, f) ==
  IF f \in Considered[p]
  THEN FoldLeft(LAMBDA n, i : IF i \in files THEN n + Frequency(i, f) ELSE n, 0, q.images)
  ELSE 0

SumOver(S, op(_)) == FoldSet(LAMBDA x, n : n + op(x), 0, S)

QueryScore(p, q) == SumOver(Features, LAMBDA f : ApplyOnThis(f, Wanted(p, q, f)))

\* What feature f gives document d.
Gain(p, q, f, d) ==
  LET w == Frequency(Collection[d], f) IN
  IF w > 0 /\ Wanted(p, q, f) > 0 THEN Apply(f, Wanted(p, q, f), Len(q.images), w) ELSE 0

DocumentScore(p, q, d) == SumOver(Features, LAMBDA f : Gain(p, q, f, d))

\* The documents that have a feature in common with the query, if it is close enough.
Found(p, q) ==
  {d \in DOMAIN Collection :
     /\ \E f \in Features : Wanted(p, q, f) > 0 /\ Frequency(Collection[d], f) > 0
     /\ 100 * DocumentScore(p, q, d) >= q.cutoff * QueryScore(p, q)}

Relevance(p, q, d) == <<DocumentScore(p, q, d), QueryScore(p, q)>>
-----------------------------------------------------------------------------
(* Properties *)

\* A score board holds, for each document in it, what all features evaluated so
\* far contribute, and it holds every document of their lists unless it was
\* pruned: no other thread has moved the stream between seekg and read, and a
\* document that pruning dropped does not come back with a part of its score.
BoardsExact ==
  \A p \in Threads :
    LET e == eval[p]
        done == {e.queue[j] : j \in 1 .. (IF e.at = "read" THEN e.count - 1 ELSE e.count)}
        scored == {d \in DOMAIN Collection : \E f \in done : d \in ListOf[f]} IN
    e.at \in {"features", "read"} =>
      /\ IF e.ignore THEN DOMAIN e.board \subseteq scored ELSE DOMAIN e.board = scored
      /\ \A d \in DOMAIN e.board :
           e.board[d] = SumOver(done, LAMBDA f : Gain(p, e.query, f, d))

\* When all children are joined, the merged relevance of an image is the weighted
\* sum (the plain sum if results are merged by URL) of what it has with each child
\* whose thread ran, whatever the threads did to the accessor they share.  Said of
\* children that do not prune and are not cut.
MergedExactly ==
  \A c \in Connections :
    LET t == tree[c]
        q == query[c]
        ran == {p \in Range(t.procs) : eval[p].at = "done"}
        having(d) == {p \in ran : d \in Found(p, q)}
        key(d) == IF t.kind = "byUrl" THEN Collection[d] ELSE d IN
    /\ pc[c] = "answer" /\ q.images # <<>>
    /\ \A p \in ran : Percent[p] = 100 /\ ReduceAt[p] = 0
    /\ t.kind = "byUrl" => Len(Collection) <= 5 * q.size
    => /\ DOMAIN merged[c] = {key(d) : d \in {x \in DOMAIN Collection : having(x) # {}}}
       /\ \A d \in DOMAIN Collection :
            having(d) # {} =>
              Equal(merged[c][key(d)],
                    FoldSet(LAMBDA p, r : Plus(Times(IF t.kind = "byUrl" THEN 1 ELSE Weight[p],
                                                     Relevance(p, q, d)), r),
                            <<0, 1>>, having(d)))

\* The catalogue has one ID for an image, however many queries ask for it at the
\* same time: gMutex is held from the search for the URL to addImage.
OneIdPerImage == IsInjective(catalogue)

\* No processor of a connection works, and none may write to a CQMThread that is
\* gone, once the connection has answered.
NoOrphans ==
  up => \A c \in Connections :
          pc[c] \in {"idle", "random", "reply"} =>
            \A p \in Range(tree[c].procs) : eval[p].at = "off"

\* Every query is answered, unless the process ends: the locks around the
\* extraction and the reading of lists are released on every path.
QueriesAnswered ==
  \A c \in Connections : pc[c] # "idle" ~> (pc[c] = "idle" \/ ~up)
=============================================================================
