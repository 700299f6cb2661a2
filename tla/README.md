# A TLA+ verification of the GNU Image-Finding Tool

GIFT is a server for content-based image retrieval.  A client connects over
TCP, sends one MRML document (XML), and gets one back: it opens a session,
configures it with an algorithm, and sends queries (images that are relevant or
not), which the server answers from an inverted file.  Programs and scripts
that run offline make the inverted file from a directory of images.

This directory holds modules that model those parts, configurations of TLC that
check them on small instances, and theorems TLAPS has proved for every instance.
Every path below is relative to the root of the repository.

## 1. Inventory

| Component | State it keeps | Operations | Talks to |
|---|---|---|---|
| Session manager (`libMRML/cc/CSessionManager.cc`) | `mIDToSession`, `mUserToSessions`, `gID`, `mMutexSessionManager`; per session: open flag, `mMutexSession`, `mQueryTree` | open, configure, query, random images, rename, close, delete, listings | the visitor (calls), query trees (owns) |
| Mutex (`libMRML/cc/CMutex.cc`) | owner and depth of a recursive pthread mutex | lock, unlock | everything |
| Server (`GIFTServer/Server.cc`, `CTCPSocket.cc`, `CMultiServer.cc`) | the listening socket | accept, a thread per connection | `processMessage` |
| Connection (`processMessage.cc`, `CCommunicationHandler.cc`, `CXEVCommunication.cc`) | the tree being parsed, `mSessionID`, `mMultiResponse`; `gMutex` | read and parse, visit each element, send the reply | client, session manager |
| Query tree (`CQuery.cc`, `CQMultiple.cc`, `CQueryTreeBuilder.cc`, the factories) | plugins, nodes, children, weights, results of threads | load plugins, build, query, fastQuery, random | accessors, plugins |
| Algorithms (`CAlgorithm*.cc`) | trees of XML elements that inherit attributes | configure | session manager |
| Accessors (`CAccessorAdmin.cc`, `CAccessorAdminCollection.cc`) | open accessors and how often each was opened | open, close | plugins of accessors |
| Inverted file accessor (`CAcIFFileSystem.cc`) | the files, offsets of lists, ADI of documents | generate, init, read lists, add an unknown image | URL2FTS |
| URL2FTS (`CAcURL2FTS.cc`) | maps URL - ID - feature file | read `url2fts.xml`, look up, add | scripts |
| Inverted file query (`libGIFTQuInvertedFile`) | settings, weighting functions, the features of the last query, the score board | configure, weigh, evaluate lists, prune, normalise | inverted file accessor |
| Distance matrix (`Server.cc`, `CDistanceCalculator.cc`, `CPersistent*.h`) | the file of scores, the file of distances, the translation of IDs into lines | generate lines, make symmetric, read lines | inverted file query |
| Hierarchy (`libGIFTAcHierarchy`, `libGIFTQHierarchy`) | edges from paths to images, the node of a session | read, browse | browsing clients |
| XML elements (`CXMLElement.cc`, `CAttributeList.cc`) | a tree and a cursor in it | build from the parser's callbacks, traverse, copy, write | everything |
| Perl plugins (`CQPerl.cc`, `CGIFTLink`, `CGLDistanceMatrix`, `CGLStructuredAnnotation`) | the triplets of a call; in Perl the collection, a matrix, annotations | construct, query, random query | the Perl interpreter |
| Scripts (`gift-add-collection`, `gift-extract-text-features`) | feature files, `url2fts.xml`, `gift-config.mrml` | add, resume, remove; features of words | feature extraction, index generation |
| Feature extraction (`FeatureExtraction/`, `libSquirePPM/`) | none between pictures | read a picture, quantise, filter, write features and their descriptions | scripts |
| Client programs (`CFeedbackClient`, `CFCMovingTarget`) | what the last reply said, the query, the examples | feedback, search by browsing | the server |
| MySQL and meta accessors, old servers, generators of documentation | | | see "Not modelled" |

What is hard in it, and what would make each part correct:

* **Locks around exceptions.**  The code locks and unlocks by hand, and throws
  in between.  Correct: a thread holds what its place in an operation says; no
  circle of waiting threads; every call returns.
* **Sessions found and then used.**  A session is looked up under one mutex (or
  none) and used under another, while a second connection deletes it.  Correct:
  what was found stays; at most one thread works on a session's tree; to a
  client every operation looks indivisible.
* **A lock that depends on a client.**  `gMutex` is locked by `operator new` and
  also while a request is read.  Correct: connections release it on every path;
  a client that cooperates is served, and others do not hinder a query.
* **An external sort and files that are rewritten in place.**  Correct: the
  sorted file is a permutation of what was written; the index is what the
  feature files say; a server does not take half an index for a whole one.
* **A script that is stopped and restarted.**  Correct: a restart completes what
  is missing; the configuration of the server survives.
* **Threads per query node that share one accessor.**  Its stream of the index
  is positioned and read in separate calls, and its catalogue grows while
  queries run.  Correct: a score board holds what the lists of the evaluated
  features say; the merged relevance is what the children found; an image is
  added once; no thread is left behind when a query is answered.
* **Accessors counted by those who use them.**  Trees open and close accessors
  by hand, and constructors throw in between.  Correct: a tree that exists has
  its accessors; its nodes are found in the container that answers its queries.
* **Trees made by callbacks, replies sent in blocks.**  Text comes in pieces, a
  message may break off anywhere, a write may be of any length.  Correct: the
  tree is the document; the reply has an answer for each request, in order; what
  arrives reads back as what was sent.
* **State a reply or a query leaves behind.**  A processor keeps its weighting
  function and its features, a client its results and its path, a hierarchy the
  node of a session.  Correct: an answer depends on the query only, feedback is
  made from the last results, browsing stays in the hierarchy.
* **Arithmetic with numbers of blocks, filters, features and lines.**  Correct: a
  feature means what its description says; an image of the collection finds
  itself first; the line of a matrix belongs to the image it is asked for.

The hazards, each at its line and with the properties that would catch it, are
in `PROJECT.json`.

## 2. Modules

| Module | Models | Kind |
|---|---|---|
| `Mutex` | `CMutex` | operators on a recursive mutex |
| `SessionService` | what clients of sessions may rely on | abstract specification |
| `SessionManager` | `CSessionManager`, `CSession` | detailed specification |
| `SessionRefinement` | that the second implements the first | refinement mapping |
| `GiftServer` | accept loop, connections, `gMutex`, on top of an `INSTANCE` of `SessionManager` | composition |
| `QueryTrees` | plugins, `CAlgorithm::configure`, `CQueryTreeBuilder`, `CAccessorAdmin` | specification |
| `QueryProcessing` | `CQMultiple`, `CQInvertedFile`, the `CAcIFFileSystem` they share | specification |
| `ElementTrees` | `CXMLElement`, `CXMLTreeBuilder`, `CAttributeList` | operators on trees |
| `MrmlMessages` | the configuration, one request and its reply; extends `ElementTrees` | specification |
| `IndexGeneration` | `newGenerateInvertedFile`, `merge_sort_streams`, the files, `init` | specification |
| `TextFeatures` | `gift-extract-text-features`; extends `IndexGeneration`, whose input it makes | operators |
| `CollectionIndexing` | `gift-add-collection.pl` | specification |
| `FeatureExtraction` | `gift-extract-features`, `gift-write-feature-descs`, `libSquirePPM` | operators, one action |
| `InvertedFileScores` | `CQInvertedFile` with its weighting functions; extends `FeatureExtraction` | specification |
| `DistanceMatrix` | generation, modification and use of a matrix; extends `InvertedFileScores` | specification |
| `HierarchyBrowser` | `CAcHierarchy`, `CQHierarchy` | operators |
| `FeedbackClient` | the state of a `CFeedbackClient` | operators |
| `BrowserBenchmark` | the programs that query by themselves; composes the last two | composition |
| `PerlLink` | `CQPerl`, `CGIFTLink` and the classes derived from it; extends `ElementTrees` | specification |
| `SharedLemmas` | lemmas for several of the proofs: recursive mutexes, induction by a smallest set, sums, places in an order | proofs |
| `SessionManagerProofs` | theorems about `SessionManager`, and that it implements `SessionService` | proofs |
| `GiftServerProofs` | theorems about `GiftServer`, and through it about the composition | proofs |
| `QueryProcessingProofs` | theorems about `QueryProcessing`: connections, the catalogue, score boards, what is merged | proofs |
| `QueryTreesProofs` | theorems about `QueryTrees`: locks, accessors, containers, inheritance | proofs |
| `CollectionIndexingProofs` | theorems about `CollectionIndexing` | proofs |
| `IndexGenerationProofs` | theorems about `IndexGeneration`, with the external sort | proofs |
| `BrowserBenchmarkProofs` | theorem about feedback: replies read tag by tag, images chosen and sorted | proofs |
| `MC*` | values of constants for TLC, variants of definitions | model checking |

How they meet: `SessionManager` treats a query tree as built or not built and
its evaluation as one step under the session's mutex; `QueryTrees` is the
building (under the manager's mutex), `QueryProcessing` the evaluation (under
the session's).  In `QueryProcessing` a score is a product with one weight,
exact under every interleaving; in `InvertedFileScores` it is what any of the
weighting functions makes of it, for one thread.  `MrmlMessages` is a connection
of `GiftServer` seen from inside a request.  The feature files that
`CollectionIndexing` counts are made by `FeatureExtraction` or `TextFeatures`
and consumed by `IndexGeneration`.

### Sessions: `SessionManager`, `SessionService`, `SessionRefinement`

State.  `mgr` is `mMutexSessionManager`, `ses[s]` the mutex of a session,
`idToSession` and `userToSessions` the keys of the two maps, `lastId` is `gID`,
`obj[s]` the `CSession`: whether it exists, its user, `mIsOpen`, whether
`mQueryTree.first` exists and which node IDs it has, and the algorithm of the
tree at `mQueryTree.second`.  A thread has a place (`pc`), a request, an answer
and the session its search has found.  `thrown` is the set of threads that an
exception has cost a lock.

Actions.  `Call` chooses a request, `OpenLock`/`Insert` are `openSession` with
its two nested `newSession` calls (the manager is locked three times),
`ConfigureLock`/`ConfigureSession`/`Build`/`BuildFails` are `setAlgorithm` and
`setActiveAlgorithm`, `QueryFind` is the search of `query` without a lock,
`QueryLock`/`Evaluate*` are `CSession::query`, `RandomFind` is `getRandomImages`,
`FindLock`/`Erase`/`Rename`/`Close` the operations that keep the manager locked,
`Translate` stands for all that only read.  An exception leaves the locks with
the thread (`Throw`); `Exit` is the end of a thread, with the locks it still has.
A lock acquisition and the part of the function up to the next point where
another thread could see or stop it are one action.  `QueryFind` during an
insertion or erasure is a data race: the search may miss or crash.  An access
to a freed tree or session may answer anything or crash.

`reopen` (the four-argument `openSession` with a session ID) and `close` belong
to the class but no handler calls them; the runs of the session manager include
them, those of the server do not.

`SessionService` is a table from session IDs to algorithms with indivisible
operations.  It also says what is *not* promised: a query of a session that is
deleted meanwhile, or whose last configuration left no tree.
`SessionRefinement` maps the table from `obj` and the maps.

### The server: `GiftServer`

`gmutex` is `gMutex`; `conn[t]` is where in `processMessage` a connection is;
`todo` the children of the `mrml` element not visited yet; `msgId` is `mSessionID`
and `replyId` the session the reply will name.  `Accept` starts a thread for a
connection, or handles it in the accept loop's own thread (`Main`) when
`pthread_create` fails.  `StartRead` locks `gMutex` before the first character,
`Read` and `EndRead` are the client's; `VisitElement` and `Operate` run
operations of `SessionManager`, each of which needs `gMutex` to allocate;
`EndVisit`, `StartSend`, `EndSend` translate and write the reply, `Close` waits
for the client's end of file.  `Abort` are the messages that end the process.

### The index: `IndexGeneration`

`files` are the feature files of a collection (possibly missing, or shorter than
their count says), `aux` the two auxiliary files, `page` the page in memory,
`inverted`, `offset` and `adi` the files that make up an index; a position in
the inverted file is the number of the list that starts there.  The actions
follow `newGenerateInvertedFile` from the opening of the files (`Open`, which
truncates the old index) to `Finish`; `Presort` is one page of
`first_level_quicksort`, `Merge` one call of `merge_streams` (`Merged` is its
result, by the recursive function `Merging`), `EndPass` the end of a pass.  `sort` is not
stable: any order consistent with the comparison.  `Kill` stops the program
anywhere: what was written to the index files but not closed may be missing.
`InitAborts` and `InitSucceeds` say what `CAcIFFileSystem::init` finds.
An element of `adi` has the three numbers of the file, `[max, square, logICF]`:
the largest frequency of a document, the sum of their squares, and that of the
squares of frequency times logarithm, added up in the pass that writes the lists
(`Adjusted`, `AdjustedLogICF`).  Logarithms are a constant, `LogICF`.  `collected` is a
history variable.  The property `IndexMatchesFiles` uses two older parts of the
same class as definitions of what an index is: the generator that works in memory
(`InvertedFileHash`, `WrittenFromHash`, `SumsFromHash`) and the consistency check
(`CheckConsistency`, `FindWithinStream`).  Facts of the code the model keeps: an empty
collection yields one bogus list for feature 0; the constructor ignores the
result of the generation, `checkConsistency` is compiled out
(`CAcIFFileSystem.cc:89`), and the auxiliary files are not removed (they are
unlinked by names without a directory, 749-750).

`TextFeatures` makes such feature files from annotated texts (`FilesOf`): the
paragraphs that follow the name of an image are its annotations (`Headers`), the
words of each kind are counted and numbered in the order of `sort` (`Lookup`,
`Offset`), the thesaurus appends a reference (`Augmented`).  It is part of the
run of the index, so that what is checked is whether a word finds its images.

### The script: `CollectionIndexing`

`phase` is the place in the script, `removing` whether this run was called with
`--remove-collection`.  `fts` is the state of each feature file (none, older than
the script, cut, whole), `desc` the feature descriptions, `config` and `old` the server's
configuration and its copy.  One action per step of the script between which a
kill makes a difference.  An image whose `convert` fails is left out; one whose
features cannot be extracted is entered all the same.  `FailCopy` is a copy that
fails: the script prints that and goes on to the descriptions.  `StartRemoval`
begins a run that removes the collection; if it is entered, `RemoveCollection`
deletes its files and dies of parsing the `url2fts.xml` it has deleted, else the
configuration is printed as it was.  `torn` records that a copy has failed, or that
a kill hit the middle of a feature file or of the descriptions.

### Queries: `QueryProcessing`

State.  A connection `c` has a place (`pc`), the tree and the query it works on,
the child to be started or joined next (`next`), `lResultMap` (`merged`) and the
list it replies (`answer`).  A processor is a `CQInvertedFile` together with the
thread that runs it: `eval[p]` has its place, the images not yet looked up
(`left`), the features of the query (`tf`, then `queue` in the order of
evaluation, `count` of them evaluated), the score board and the result.  Shared
by all: `gmutex`, `stream` (the list `mInvertedFile` is positioned at),
`catalogue` (the maps of `CAcURL2FTS`) and `files` (the feature files).

Actions.  `Ask` receives a query; `RandomImages` answers one without any child
element; `Spawn` is `runThread`/`runFastThread` for one child, `Join` and
`JoinCrashes` are `join` for one child and the loop that merges its result,
`Answer` ranks, cuts and names the images, `Reply` sends them.  Of a processor,
`CollectKnown`, `Extract` and `AddImage` are `URLToFeatureList` for one image of
the query, known or not; `RandomIDs` answers a query without images; `Begin` is
`buildNormalizedQueryList`; `Seek` and `ReadList` are one round of
`keepScorePruning` before and after `seekg`; `Rank` is the end of
`fastQueryByFeature`.

Abstractions.  Images are numbered in the order of their URLs.  Relevances are
fractions of integers, exact where the code has doubles.  All images of a query
have the relevance 1 (no negative feedback), and the weighting is that of
`CWFClassicalIDF` with positive logarithms and weights.  The order of a
`hash_map` is that of its keys, ascending.  Trees have depth one.  The locking of
`gMutex` by allocations is left out: the code has fewer interleavings than the
model.  Left out too: pruning by time, queries by feature, negative weights.

### Query trees and accessors: `QueryTrees`

State.  `plugins` are the base types and accessors the factories have read from
the library directory, `admin[c][a]` the accessor `a` of collection `c`: how often
it is counted as open and whether the object exists.  Of a session, `tree[s]` is
the query tree, a function from places in it to nodes, and `container[s]` the map
by which a node is found by its ID.  `job` is what one thread does under the
manager's mutex: the algorithm as it was sent (`given`), as it is configured so
far, what is still to do, the nodes made.  `thrown` and `kept` count the locks
that exceptions have left with a thread.  `frees` is the setting of
`__GIFT_FREE_UNUSED_ACCESSORS`, which is off in the sources.

Actions.  `Scan` reads one file of the library directory, in any order; the
factories remember a library by its name, so a second file of that name is
skipped, whichever comes first.  `SetAlgorithm` and `DeleteSession` begin a job;
`ConfigureElement` is `CAlgorithm::configure` for one element (clone the default
of its type, inherit, take the default's children if there are none of its own)
and `ConfigureCrashes` what happens without a default; `StartBuild`, `EnterNode`,
`ReuseAccessor`, `MakeAccessor`, `AccessorThrows`, `HierarchyThrows`,
`NullAccessor`, `Refuse` and `Finish` are `buildQueryTree`, the constructors of the nodes with the accessors
they open, and what becomes of a build that fails.  A constructor of `CAcURL2FTS`
throws with `gMutex` locked, that of `CAcIFFileSystem` catches and keeps it: the
outcomes of `MakeAccessor`.  That of `CAcHierarchy` throws an exception, or a string
that only the accept loop catches (`CAcHierarchy.cc:168`, `CMultiServer.cc:50`); in
any other thread it ends the server.

Inheritance is by position: an element sees the attributes of its ancestors, but
a clone below a clone has no father (`linked`).

### Messages: `ElementTrees`, `MrmlMessages`

A tree is a function from numbers of nodes, in the order of their making, to
nodes, and the cursor the number of the one under construction.  `AddChild` unites
pieces of text and drops white space before an element, `MoveUp` ends an element,
`Written` is `toXML` as tokens, `stringToElement` its reading.

`MrmlMessages` begins with the configuration (`Configure`: collections and
algorithms found at any depth, the first or the last of an ID).  `ReadToken` is
a call of expat, `BreakOff` the end of a message that is not well-formed or of the
connection; then `Descend`, `PassOver` and the `Visit*` actions traverse the tree,
each of them appending to `reply` what the visitor appends; the operations answer
in their place or fail with an error element.  `Send` writes a block, of which the
socket may take any part; `Close` ends the connection.

### Scores: `FeatureExtraction`, `InvertedFileScores`, `DistanceMatrix`

`FeatureExtraction` goes from the bytes of a file (`Plane`: what `read_ppm` makes
of a truncated or grey file) over HSV (`Hsv`), colours (`Quantized`), their counts
in blocks of blocks (`FourBlocks`, `BlockModes`) and the energies of the filters
(`GaborFilter`, `EnergyClass`) to the features in their order (`FeatureFile`).
`Descriptions` is what `gift-write-feature-descs` writes, in its own loops.  There
is one action, `ExtractFeatures`; the content is in the operators.

`InvertedFileScores` reads the settings of an algorithm (`Settings`), chooses
features (`Considers`), keeps weighting functions per feature from query to query
(`terms`, cleared by `Cleared`), adds positive and negative images
(`RelevanceSums`, `TermFrequency`), weighs with one of seven functions and its
normalizer, prunes by the number of features, of scores, and by time, and divides
by the score of the query (`Ranked`).  The actions are `Start` (a server reads an
index), `Construct` (a processor) and `FastQuery`.  Logarithms are constants that
give each document frequency a number of units; scores are integers with a unit.
Three functions have normalizers that are shown a feature before it knows the sums
of relevances, so that they come to 0: `BestProbabilistic` fails an assertion
(`Asserts`), the other two divide by 0 (`Unbounded`), and one of those has no return
statement besides.  Then a score is `Undefined`, and no property says anything of
it.

`DistanceMatrix` adds the program that writes one line of scores for each document
(`Generate`, `WriteLine`, `KillGeneration` with a part of a line written),
`ModifyMatrix` (the lower of two scores, one minus it), the accessor
(`OpenMatrix` with any translation of IDs, `CalculateDistances`).

### Clients: `FeedbackClient`, `HierarchyBrowser`, `BrowserBenchmark`

`FeedbackClient` is a client as a record: the path of open elements, results,
the query to be sent, images judged before, lists of the server.  `handleStart`
and `handleEnd` read one tag of a reply; `makeQuery` and `buildNewQuery` write.
`HierarchyBrowser` reads a hierarchy file and says which node a query leads to and
what is displayed.  `BrowserBenchmark` runs the two programs: `Send` and `Answer`
are the client and the server in turn, a server of results that shows any images or
refuses, or the hierarchy, whose lock is left to whoever found children
(`MayBrowse`); `BeginGroup`, `Query`, `Read` are relevance feedback until a query
repeats itself, `BeginTest`, `NextTarget`, `SendQuery`, `Browse`, `Look` the search
for targets.

### Perl: `PerlLink`

`TripletsOf` flattens an element, `Rebuilt` makes a tree of triplets the way
`CQPerl` does, with `Broken` where it follows a null pointer; `Construct`,
`Query`, `RandomQuery` and `Destroy` are calls of one processor.  `Neighbours` is
the query of `CGLDistanceMatrix`, `Matches` that of `CGLStructuredAnnotation`.  The
recursive helpers of its properties keep this module from being proved about.

## 3. Runs

| Run | Checks | Instance |
|---|---|---|
| `session_service` | one thread per tree; found sessions stay; locks fit places; circles need a lost lock; queried sessions are built; `ImplementsService` | 2 threads, 1 session, 4 algorithms (two build, one throws, one has no type), all operations, unknown session IDs |
| `session_progress` | every call returns (fair) | 2 threads, 2 sessions, no request that throws |
| `gift_server` | no circle through three kinds of mutexes; locks released | accept loop and 2 connections, one child per request, clients that abort |
| `server_progress` | cooperative connections are served to the end (fair) | accept loop and one connection, all clients cooperate |
| `query_trees` | a node's accessor is there; nodes are found; attributes come from the nearest element; locks are lost by failures only | 2 threads, 2 sessions, 2 collections, 8 algorithms sent, 3 defaults, 7 library files, one of which may be missing; with and without freeing of unused accessors |
| `query_processing` | exact score boards; exact merged relevances; one ID per image; no thread is left behind; queries are answered (fair) | a tree of two processors merged by ID or URL, one of which may fail to start, beside a single processor that prunes; 3 images, one more that both trees ask for, extraction that works or not |
| `messages` | the tree is the document; answers in order; the reply reads back | 3 configuration files, 9 kinds of requests, 2 inside of them, up to 3 elements or pieces of text, broken off anywhere; blocks of 4 tokens |
| `index_build` | the index is what the files say; fresh ADI means a whole index; words find their images; generation ends (fair) | every pair of 6 feature files, one missing and one truncated file, three annotated texts, page of 2 triplets, 2 generations, each killed anywhere |
| `collection_index` | resumed unless torn; configuration rescued; restarts finish (fair) | 4 images, new or of an older version, copies that fail, up to 3 kills, the collection removed in between |
| `scores` | an image finds itself; answers depend on the query; classes of a modulo add up; distances are what the scores say; features are true | 7 pictures of 8 x 8 pixels, two of them refused, 2 indexes of four pictures, 17 algorithms, 8 queries one after another, the matrix of one algorithm killed and resumed |
| `browser_benchmark` | feedback from the last results; targets are found; programs end (fair) | 2 greetings, 4 displays, 2 groups of at most 4 steps; 3 hierarchies, 2 targets, 20 tries |
| `perl_link` | triplets carry trees; neighbours ranked; matches found | 3 images, an annotation file of 4, all kinds of queries, results from none to more than there are |

### What the properties say

Those of sessions, server, index and queries are explained with their proofs
below or in their modules.  Of the others:

* `AccessorsInUse` is not obvious: `openAccessor` counts a reuse twice, once in
  the branch and once in the expression it prints (`CAccessorAdmin.cc:64`, 68), so
  a count is never too low, and what is opened twice is never freed, even where
  unused accessors are to be freed.
* `IndexMatchesFiles` begins with the lists (`ListsMatchFiles`: one for a feature,
  nothing in it that is not in a file, nothing missing if the triplets fit the
  pages) and goes on with the sums, and with the index the older generator makes
  in memory.  `FreshAdiMeansWholeIndex` relates what a kill leaves on the disk to
  what `init` accepts afterwards.
* `RescuedBeforeOverwritten` is about one run.  A kill while the configuration is
  printed leaves it cut and the copy whole, but the next run copies the cut
  configuration over the whole one before it dies of parsing it: then both are
  lost.  No property excludes this, since the script does it; `RestartsFinish` says
  that runs end well unless the configuration stays cut for good (that each run
  has it cut on its way to `print` does not count).
* `FreshAdiMeansWholeIndex` supposes ADI files of the last generation.  Those of an
  earlier one, beside an index that was cut later, are not excluded: `init` has
  nothing to tell them by.
* `LocksBalanced` counts the locks that throws leave locked, at the places it names,
  and says that nothing else loses one.  The throws are a finding.
* `NodesAreFound` says which of several nodes of one ID a container finds, and that
  a build that fails leaves the container of a standing tree alone.
* `InheritsFromNearest` compares the result of `configure` with a definition that
  knows nothing of the order of its loops.
* `AnswersInOrder` defines from the message alone what is to be answered
  (`Wanted`); `TreeIsDocument` what the tree is to be at every token read.
* `FeedbackFromLastResults` and `TargetsAreFound` are about state that survives
  from one reply to the next.  The second needs a hierarchy without repeated
  images: a search goes up when it has seen what is displayed.
* `QueryImageFindsItself`, `DispatchAddsUp` and `AnswersDependOnQuery` hold for all
  weighting functions and settings in which a score is defined, and say where
  they do not (pruning; `CWFBinaryTerm` with features of more than half of the
  images).
* `FeaturesTrue` checks the loops that number features against those that
  describe them, on the pixels (`Truth`).
* `TriplesCarryTrees` says exactly when the reply to a Perl query cannot be built:
  if the answer has more elements than there are images.

`SessionManager`, `QueryProcessing`, `QueryTrees` and others define `TypeOK`; it is
used by the proofs and by nobody else.

### Why the bounds are enough

Two threads make every race of the session manager (all of them are between a
user of a session and one other); one session is enough for them since sessions
touch each other only through the manager's mutex, and `session_progress` has
two.  Circles of more than two threads are covered by the theorem
`CircularWaits`.  The server needs a third thread because the accept loop must
be able to handle one connection while two others run.  Page size 2 with up to 6
triplets (12 of the annotated texts, whose last page is full, the text that lacks
an annotation included) makes one page, a full last page, a partly filled one, one
to six runs and both parities of passes.  Two generations make every mixture of
an old and a new index.  Three kills allow a kill in the run that repairs what
the first left, and one in the next.

In `query_processing` both trees ask for the same unknown image, so that its
extraction runs beside the reading of lists and beside a second search for it;
four features make lists of different length, one that is empty and one outside
the index, for two children that divide them and one that evaluates all and
prunes before the last but one.  Two processors are the fewest that disturb each
other through the stream; that any number of them keep the catalogue and are
joined is the subject of the theorems.

In `query_trees` two sessions are the fewest that can share an accessor, and
two collections tell it from one they do not share; the algorithms have two
levels below the root, the depth at which a clone lies below a clone.
`MaxThrown` lets one job of each thread fail; after it the thread goes on with
the lock it kept, and the other waits.  In `messages` three pieces are a request,
what is in it, and text or a second request beside it; four tokens in a block
make replies that fill blocks exactly and that do not.  Pictures of 8 x 8 pixels
have blocks at two scales of colours and four blocks of texture; two filters have
different rows and columns.  Queries come one after another, so that each is
asked of a processor that has the features of any other.  Twenty tries are more
than a search of five images needs.

`MaxDepth` bounds how many locks a thread leaks, `MaxElements` the children of
a request, `MaxSessions`, `MaxGenerations`, `MaxKills`, `MaxGroups` what their
names say, `MaxCount` how often an accessor is counted before no job begins any
more.  The accept loop's thread takes no further connection inline once it has
lost a lock (a bound: it would go on in the same way).

### Fairness

`SessionManager`: a thread that can go on does, and one that waits for a mutex
gets it if it is free again and again (threads are preemptive, and a pthread
mutex wakes a waiter; nothing stronger is assumed of clients: they need not call
anything).  `GiftServer`: the same of the server's own steps, and the steps that
need a client are fair for `Cooperative` clients only.  `IndexGeneration`: the
program runs on until killed.  `CollectionIndexing`: the script runs on, and its
user starts it again if he can again and again (the guide tells him to).
`QueryProcessing`: a processor, and a connection once it has been asked
something, gets `gMutex` if it is free again and again; nobody need ask
anything.  `BrowserBenchmark`: the programs are sequential, so that a step is
always either theirs or the server's; both go on.

`session_progress` and `server_progress` are restricted to requests that do not
throw and to clients that read and write, because without that nothing of the
kind is true: see the next section.

### Where code and documentation disagree

`PROJECT.json` has all of these with lines and quotations.  The definitions of
the modules follow the code, and a property that would be false of it is stated
with the condition under which it holds.

* Locks.  `setAlgorithm` throws with the manager locked
  (`CSessionManager.cc:1037`), `query` searches without a lock while
  `deleteSession` erases (1152), a request is read with `gMutex` locked
  (`CCommunicationHandler.cc:629`), `getChildren` of a hierarchy returns with its
  mutex locked (`CAcHierarchy.cc:243`).
* Files.  `first_level_quicksort` never advances `lSum`
  (`merge_sort_streams.h:269`); after a short read a page is sorted together with
  old triplets, so that `IndexMatchesFiles` needs the triplets to fit (`Fits`).
  `gift-add-collection` checks that a feature file is there and younger than
  itself, not that it is whole (530), copies a cut configuration over the rescued
  one (633), and dies of removing a collection (946).
* Trees.  Accessors are counted twice (`CAccessorAdmin.cc:68`), clones of children
  have no father (`CXMLElement.cc:94`), results merged by URL are not weighted
  (`CQMultiple.cc:766`), both modes of merging are there (594).
* Messages.  `get-property-sheet` renames a session (`CXEVCommunication.cc:124`),
  values are not escaped (`CAttributeList.cc:382`), `sendMessage` reports the wrong
  result (`CCommunicationHandler.cc:217`), every branch of `CI18nTranslator.cc:145`
  runs for the wrong elements.
* Scores.  Normalizers change places in `clone()` (`CWeighter.cc:70`),
  `CWFStandardTF::apply` returns nothing (124), the size of colour values is
  compared after it was cut to a byte (`ppm_io.c:84`), the thesaurus adds the text
  of a reference (`gift-extract-text-features.pre-pl:249`).
* Clients and Perl.  Paradigms of collections (`CFeedbackClient.pre-pm:733`), the
  position of a collection (790), the table of relevant images (258), the images
  counted and the algorithm chosen by `CFCMovingTarget` (461, 409), slices that are
  one too long or have holes (`CGLDistanceMatrix.pre-pm:291`,
  `CGIFTLink.pre-pm:507`), a comparison that ignores its arguments
  (`CGLStructuredAnnotation.pre-pm:119`).

## 4. Proofs

`SessionManagerProofs` proves, for any number of threads, users, sessions and
algorithms and without bounds on leaks:

| Theorem | States |
|---|---|
| `LocksAlwaysFit` | `LockInv` is invariant |
| `TypeCorrect` | `TypeOK` |
| `TreesExclusive` | `TreeExclusion` |
| `LocksAreBalanced` | `LocksBalanced` |
| `CircularWaits` | `CircularWaitNeedsLostLock` |
| `SessionsStay` | `FoundSessionsStay` |
| `QueriesMeetTrees` | `QueriedSessionsAreBuilt`, if the default algorithm has a type |
| `InvariantHolds` | `IInv` as a whole |

The assumptions are those of `Mutex` and `SessionManager` (`NoThread` is no
thread; the constants have their types).

The argument.  None of the properties is inductive.  `LockInv` adds to the types
that mutexes are well-formed (owned exactly if their depth is positive), that a
thread holds *at least* what its place says (`LocksCover`), and *exactly* that
if it has lost nothing (`LocksBalanced`).  It is proved with one lemma for each
action, from lemmas about locking and unlocking (`LockLemma`, `UnlockLemma`) and
about what a step of one thread leaves to others (`MoveLemma`).  `TreeExclusion`
follows: two threads at work on one tree would both own its mutex.
`CircularWaitNeedsLostLock` follows from balance and the order of the locks: a
thread that waits for the manager holds nothing, so it is waited for by nobody,
and who waits for a session waits for one who evaluates and waits for nobody.
`RegistryInv` says that what is in `mIDToSession` lives and is in its user's
list, and that a session found under the manager's lock is still there; it needs
`LockInv`, because only the owner of the manager erases.  `AnnouncedInv` says
that a session a client can name has been built once.

`QueryProcessingProofs` proves, for any trees, queries, collection and number of
connections:

| Theorem | States |
|---|---|
| `OneIdForEveryImage` | `OneIdPerImage` |
| `NoThreadOutlivesQuery` | `NoOrphans` |
| `BoardsAreExact` | `BoardsExact` |
| `MergedIsExact` | `MergedExactly` |
| `InvariantHolds` | `IInv` as a whole |

The assumptions are `QueryProcessingAssumption` (types of the constants; features
are finitely many; the collection lists no image twice; a tree has a processor at
least, none of them twice, and shares none with another connection) and that of
`Mutex`.

The argument.  That the catalogue lists no image twice is not inductive: it needs
that the image a processor is about to add is not in it yet (`CatalogueInv`),
which holds because at most one processor extracts, namely the owner of `gMutex`
(`MutexInv`).  `NoOrphans` needs to know of every place of a connection which of
its children have not been started and which have ended (`RestInv`): those after
`next` rest while it starts them, those before it have ended while it joins them.
`MoveRests` says that a step of a processor at work cannot disturb this,
`TouchLemma` that a step of one connection leaves the others alone, since their
processors are different.  Each action then has a lemma of its own.

`BoardsExact` compares a score board, which was filled list by list, with what the
feature files say at the time, while other threads move the stream and add images.
Its invariant `ExactInv` follows a processor through its query.  While it reads
images, `tf` counts the features of those it has read, and those are known to the
accessor (`ReadSoFar`): an image that is added later is none of them, and so never
changes what has been counted (`Grows`, `TermsKept`).  Then the queue has every
feature of the query once (`QueueFit`), so that no list is scored twice; the stream
is where the processor that reads has positioned it (`StreamFit`), because only the
owner of `gMutex` moves it; and the board has what the lists before that one give
(`BoardFit`), all documents of theirs unless it was pruned.  `ListScored` says that
one list more adds one gain more: a document that was not in the board had none of
the features before, and if the board is pruned it stays out.  The sums of the model
are folds; `GainsAddUp` and `CountsAddUp` say that a fold finds the `Total`, the
one function on the parts of a set that an element more increases by what it
contributes (`TotalsExist`, `TotalIsUnique`).  The queue and the ranking are sorted
by operators that put each element behind all that precede it (`Sorted`);
`PlacesAreTaken` says that every place is then taken by one element.

`MergedExactly` compares what a connection has merged from its children with what
the feature files of the query's images call for (`Found`, `Relevance`).  Between
the two lie a board for each child, a division by the score of the query, a sort, a
cut by size and one by closeness, a translation and a merge, each at another time.
The invariant is `MergeInv`, on top of `IInv` and `ExactInv`:

* `ScoreFit`: the score of a query is the total of what the features taken so far
  add, one by one and in the order of the queue.
* `DoneFit`: a processor that is done keeps the terms it has counted, and if it
  neither pruned nor was cut (`Whole`), its result has every document that is close
  enough once, with its relevance (`RankFinds`, from `BoardFit` when all features
  are evaluated, `AllEvaluated`).  That the documents below the cutoff are the last
  of the ranking is `ScoresRanked`.
* `ChildrenFit`: the children at work evaluate the query of their connection.
* `MergeFit`: when `next - 1` children are joined, what has been merged has a key for
  each image that some of them found, and under it the sum of their relevances.
* `Collected`: the catalogue begins with the collection, so that the ID of a
  document is translated to its URL however many images were added meanwhile.

An action either has a processor work (`ProcessorWorks`, one lemma for each of its
steps) or moves one connection (`AskMerges`, `SpawnMerges`, `JoinMerges`,
`OtherMerges`); what a child found stays as it is while its siblings run, because a
processor that has ended or was never started does not move (`DoneKept`).  That the
next child merged adds its relevances to the sum is `ChildMerged`: its result is
merged element by element, its images are different from each other and so are
their keys.  `RelevancesAddUp` is `GainsAddUp` for fractions: a fold over a set adds
up to `SumOf`, whatever order it takes, as relevances commute (`PlusCommutes`,
`PlusAssociates`).  The theorem says this of children that are `Whole`, as the
property does; it is not true of others.

`SessionManagerProofs` proves the refinement too, for the same instances as its
other theorems:

| Theorem | States |
|---|---|
| `ManagerImplementsService` | `ImplementsService`: `Spec` implies the specification of `SessionService` under the mapping of `SessionRefinement` |

Besides the assumptions above it has `StatusAssumption` (the marks of a session
without a usable algorithm are no algorithms).  The argument is a simulation, from
`LockInv`, `RegistryInv` and `ServiceInv`, which says of each thread that its place
and the session it has found belong to its request (`CallsFit`), of each known ID
that it was issued and is in the map or destroyed (`KnownFit`), and of each tree
that the container of nodes is its own (`TreesFit`).  Then every step maps to one
of the abstract operations (`CallRequests`, `BuildConfigures`, `EraseDeletes`,
`EvaluateQueries`, `Acknowledged` ...) or to none (`Unseen`).  An operation takes
effect where it changes the table, not where it locks or returns; what a query
may find while its session goes is in `EvaluateUnprotected` and `QueryFindFails`.

`GiftServerProofs` proves, for any connections:

| Theorem | States |
|---|---|
| `TypeCorrect` | `TypeOK`, with that of the session manager inside |
| `LocksReleased` | `ConnectionsReleaseLocks` |
| `ServerCircularWaits` | `ServerCircularWaitNeedsLostLock` |

The argument reuses the invariant of the instance, `SM!LockInv`: every step of
the server is a step of the session manager or leaves it alone (`SessionSteps`).
`GlobalInv` says who owns `gMutex`, `PlaceInv` that operations of sessions run only
between reading and writing, `MessageInv` has the types.  A circle would need a
thread that waits for `gMutex` with a lock of sessions, and one that owns `gMutex`
and waits for such a lock; but the owner is reading or writing, and waits for its
client only.

`QueryTreesProofs` proves, for any sessions, threads, collections, plugins and
algorithms a client may send:

| Theorem | States |
|---|---|
| `Balance` | `LocksBalanced` |
| `Usable` | `AccessorsInUse` |
| `Found` | `NodesAreFound` |
| `Inheritance` | `InheritsFromNearest` |

The invariant of the first three is `IInv`.  `UseInv` counts: the nodes that hold
an accessor, in standing trees and in the one that is built, are never more than
the accessor is counted for, and each of them is alive; that a tree is thrown away
at once and its accessors are closed one by one is a fact about cardinalities
(`ThrownAway`).  `BuildInv` describes the traversal: what is still to be entered is
in order, after all that was entered, so that the entry of an ID in the
container is the last place with it; it needs the order of places in a tree to be
a strict one (`LeftIsBefore`, `FatherFirst`, `BeforeChildren`).  `FoundInv` carries
that over to standing trees.
`Inheritance` rests on `ConfigureInv`: the tree has no gaps (`Shape`, `Numbered`),
what is visited has the attributes of the nearest elements that say something, and
what is not is as it was sent or cloned.  The hard step is an element that takes
the children of its default: these are grafted below it, whole, and to the left
of everything that was waiting (`Grafted`, `ClonesBelow`, `ShapeKept`).

`CollectionIndexingProofs` proves, for any images:

| Theorem | States |
|---|---|
| `TypeSafe` | `TypeOK` |
| `Rescued` | `RescuedBeforeOverwritten` |
| `Resumed` | `ResumedUnlessTorn` |

The invariant says for each file in which phases it may be less than whole: a
feature file only while it is copied (`FtsInv`), the descriptions only just after
the first copy of a run (`DescInv`), and that the list of images is what was
visited so far (`ListInv`); kills and failed copies keep it, by the definition of
`torn`.

`IndexGenerationProofs` proves, for any feature files, size of a page and number
of generations:

| Theorem | States |
|---|---|
| `TypeCorrect` | `TypeOK` |
| `FreshIsWhole` | `FreshAdiMeansWholeIndex` |
| `IndexIsOfFiles` | `IndexMatchesFiles`, if `0 \notin Frequencies` |
| `ListsAreOfFiles` | `ListsMatchFiles`, the first part of `IndexMatchesFiles` |
| `Induction` | `IInv` as a whole |

Its assumption is `IndexGenerationAssumption` (types of the constants).  The
argument follows the external sort.  What was collected are the entries of the
files (`GatheredInv`).  Every page is in order when it is written and none of
its triplets is lost (`PresortInv`, `PageSorted`); a call of `merge_streams` makes
one run of two (`MergedMerges`, by induction on what is left of both), so that the
file read is in runs of `mergeSize` and the file written in runs of twice that,
and what is written and what is still to be read are together what was there
(`MergeInv`, `RunsMerged`).  When one run is all, the features are in order, so
that a list is finished when the next feature comes and no feature gets two
(`ListsInv`, `ListingInv`); all that was collected is listed (`WholeInv`).  The ADI is
written after the lists, by the same generation (`AdiInv`), and a kill takes from
the ends of files (`CutFiles`): this is why an ADI that is fresh and complete means
lists that are whole.  None of it is inductive without the rest.  No triplet is
lost only if all of them fit the pages (`Fits`); without that the theorems still
say that the lists are consistent.

`IndexIsOfFiles` compares two programs: the generator that sorts outside of memory
and adds up the ADI while it writes lists, and the older one that inverts in memory
and makes each sum in a loop of its own.  What `newGenerateInvertedFile` needs of the
state is in three more invariants, on top of `IInv`:

* `PostingsInv`: a list is not empty, a document is in it once, its frequencies do
  not increase, and the features of the lists do.
* `SumsInv`: the sums of a document are those over the lists written so far, the
  maximum among them; the ADI files get them.  A list is written for a chunk, so
  that one step adds to the sums of many documents at once (`ListSums`), by the
  logarithm of the length the list has only then.
* `ReadInv`: if no file was faulty, no file that was read has fewer entries than it
  counts, which is what the older program and `DIDToFeatureList` read.

When it is done, the map in memory has for a feature the postings of its list
(`ListHasChunk`), so that writing it gives the lists (`DoneHash`).  The sums are
compared by `TotalAlong`: a loop over the entries of a file and one over the lists
add the same, entry by list, and a list without the document adds nothing
(`DoneRead`, `DoneSums`).  The theorem supposes that no frequency is zero, because
the property says so of every posting: the programs that write feature files leave
zeros out (`extract_block_features.c:439`, 453, 472; a word is counted when it
occurs), and `getMaximumDF` and `getDFSquareSum` assert that a document has more
than zeros.

`BrowserBenchmarkProofs` proves, for any lists of relevant images, any results,
greetings and errors a server may send, and any number of groups and steps:

| Theorem | States |
|---|---|
| `FeedbackIsOfLastResults` | `FeedbackFromLastResults` |

Its assumption is `BrowserBenchmarkAssumption`: images are numbers, a reply is a
sequence of tags, and no image is twice among the results of an answer (a score
board has a document once, and random images are "distinct random IDs",
`CAccessorImplementation.cc:162`); of a server that repeats an image a query would
repeat it, too, since the client adds what is relevant as often as it is listed.
The invariant is `GroupInv`, about two records:
the client knows as relevant what the groups so far have given it, and its query is
made of the last results (`Known`), unless a reply that has them is still to be
read.  An answer separates the two, reading it brings them together again, and an
error must not do either (`ErrorRead`).

The hard part is what reading a reply does: the client handles a tag after the
other (`HandlingsOneByOne`), and after the tags of `k` images it has the first `k`
results (`ResultsRead`), whatever results it had before, because the list's own tag
has emptied them.  Of images that are different `RelevantResults` takes the relevant
ones (`RelevantOnes`), and `Ascending` puts them in order and loses none (`Sorting`,
from `PlacesAreTaken`).  A fold of the community modules is a function on subsets of
the numbers of its elements, chosen by CHOOSE: `HandlingsExist` and `AdditionsExist`
say that there is one, and then it takes the elements from the first to the last.

Every inductive invariant above was checked by TLC as an invariant on the
instance of its component's run before it was proved.

Induction.  The library's induction rules take an operator as a parameter, which
no prover here can instantiate.  Where data need an induction it is made with
sets: `MinimalSet` (of finitely many sets one contains no other), `Counting`,
`Smallest` and `Largest` are proved from facts about finite sets and used with
sets of counterexamples; `StepByStep` is the same for the numbers up to a bound.
`Merged`, the sums of the ADI, the order of a sorted file and the reading of a reply
are dealt with in that way.

Only model-checked:

* Liveness (`EveryCallReturns` and the like): the provers know no fairness.
* `WordsFindImages`, about operators that build texts and count words.
* `TargetsAreFound`: that clicking and going up reaches every node is an argument
  about a whole walk through the hierarchy, from one target to the next.
* `MrmlMessages` and `PerlLink` (the trees), `InvertedFileScores`, `DistanceMatrix`
  and `FeatureExtraction` (numbers and pixels).  `PerlLink` has RECURSIVE operators,
  with which no theorem can be stated here; of the others nothing is proved yet.

## 5. Plan

What is left, the most important first:

1. A theorem that `AnswersInOrder` holds: its invariant relates the elements visited
   so far to the answers collected so far.
2. `TargetsAreFound`, with an invariant about the images clicked below each node.

## Not modelled, and why

* Not compiled or without a caller: `CAcIFMeta` (an accessor whose operations are
  stubs), `CAcIFMySQL` (only with `__GIFT_WITH_MYSQL__`), `CQParallel`,
  `HomeMadeServer.cc`, `generateDistanceMatrix.cc` (in no Makefile; the program
  of `Server.cc` is modelled instead), the older forms
  `CInteractionModule`, `CTripleTransfer` and `fts2blocks`; the session language of `CSessionManager.cc` (1065-1144);
  `CInformationCalculator`, `CSquasher`, `CProbabilityCombiner`.
* Programs that are made once and keep no state: generators of documentation and
  of constants from the DTD, the installer, `gift-start`, `gift-mrml-client`, the
  drawing of graphs and rankings (`CDrawer`, `CFCRankingComparison`,
  `CGraphCollection`), thumbnails and `--fix-config` of `gift-add-collection`.
* Floating point: scores are integers in units, kernels of filters are given as
  integers, logarithms are constants.  `BestFullyWeighted`, the function that alone
  needs the third number of an ADI element, has no defined score (its normalizer is always 0, see `Unbounded`).
* Two generators writing one matrix, a matrix modified in place, an index that is
  rewritten under a running server: nothing in the code provides for any of them.
* The embedded interpreter entered by two threads: nothing in `CQPerl` prevents
  it, and nothing can be said of what Perl does then.
* Names: encodings, domain sockets, access control by host, logs.
