------------------------ MODULE QueryProcessingProofs ------------------------
(***************************************************************************)
(* What threads may not do to each other in QueryProcessing, for any trees,*)
(* queries, collection and number of connections: an image is entered once *)
(* in the catalogue, and no processor works for a query that is answered.  *)
(* Both need to know who has gMutex and which processors are at rest.      *)
(* And what a score board holds is what the features evaluated so far give,*)
(* which needs to know what every processor has counted and where it is in *)
(* its queue.                                                              *)
(*                                                                         *)
(* The second half is about what a connection merges: what a child finds   *)
(* is what the feature files of the query's images call for, and what has  *)
(* been merged is the sum of what the children joined so far have found,   *)
(* in any order the threads run in.                                        *)
(***************************************************************************)
EXTENDS QueryProcessing, SharedLemmas

Fields == {"at", "query", "limit", "left", "tf", "queue", "count", "board",
           "ignore", "score", "result"}

\* The parts of the state the argument looks at have the shape they should.
ShapeInv ==
  /\ DOMAIN eval = Threads
  /\ \A p \in Threads :
       DOMAIN eval[p] = Fields /\ eval[p].at \in Places /\ eval[p].left \in Seq(Images)
  /\ pc \in [Connections -> {"idle", "random", "start", "join", "answer", "reply"}]
  /\ next \in [Connections -> Nat]
  /\ DOMAIN tree = Connections
  /\ \A c \in Connections : tree[c] \in Trees[c]
  /\ DOMAIN query = Connections
  /\ \A c \in Connections : query[c].images \in Seq(Images)

Locking == {"extract", "read"}

\* gMutex is held, once, by the processor that extracts or reads, if there is one.
MutexInv ==
  /\ gmutex \in MutexType
  /\ IF gmutex.owner = NoThread THEN gmutex.depth = 0 ELSE gmutex.depth = 1
  /\ \A p \in Threads : eval[p].at \in Locking <=> gmutex.owner = p

\* What is being extracted is not in the catalogue.
CatalogueInv ==
  /\ catalogue \in Seq(Images)
  /\ IsInjective(catalogue)
  /\ \A p \in Threads :
       eval[p].at = "extract" =>
         eval[p].left # <<>> /\ Head(eval[p].left) \notin Range(catalogue)

\* Which processors of connection c are at rest, and which have ended.
RestInv(c) ==
  LET ps == tree[c].procs IN
  /\ \A p \in Owned(c) : p \notin Range(ps) => eval[p].at = "off"
  /\ next[c] \in 1 .. Len(ps)
  /\ pc[c] = "start" =>
       tree[c].kind # "single" /\ \A j \in next[c] .. Len(ps) : eval[ps[j]].at = "off"
  /\ pc[c] = "join" => \A j \in 1 .. (next[c] - 1) : Ended(ps[j])
  /\ pc[c] = "answer" => \A j \in 1 .. Len(ps) : Ended(ps[j])
  /\ pc[c] \in {"idle", "random", "reply"} =>
       \A j \in 1 .. Len(ps) : eval[ps[j]].at = "off"
  /\ (pc[c] \in {"idle", "random", "reply", "answer"} \/ tree[c].kind = "single") =>
       next[c] = 1

IInv ==
  /\ ShapeInv /\ MutexInv /\ CatalogueInv
  /\ \A c \in Connections : RestInv(c)
-----------------------------------------------------------------------------
(* Records and trees *)

\* A processor at rest, and one that has been started.
LEMMA RestingLemma ==
  /\ DOMAIN Resting = Fields /\ Resting.at = "off" /\ Resting.left = <<>>
BY DEF Resting, Fields

LEMMA StartedLemma ==
  ASSUME NEW c \in Connections, NEW q \in Queries[c], NEW limit
  PROVE  LET e == Started(q, limit) IN
         DOMAIN e = Fields /\ e.at = "images" /\ e.left \in Seq(Images)
<1>1. q.images \in Seq(Images)
  BY QueryProcessingAssumption DEF QueryProcessingAssumption, QueryType
<1> QED
  BY <1>1, RestingLemma DEF Started, Fields

\* The processors of a tree belong to its connection.
LEMMA TreeLemma ==
  ASSUME NEW c \in Connections, NEW t \in Trees[c]
  PROVE  /\ t.procs \in Seq(Threads) /\ Len(t.procs) \in Nat \ {0}
         /\ \A j \in 1 .. Len(t.procs) : t.procs[j] \in Owned(c) \cap Threads
         /\ \A i, j \in 1 .. Len(t.procs) : t.procs[i] = t.procs[j] => i = j
         /\ t.kind = "single" => Len(t.procs) = 1
<1>1. t \in TreeType /\ t.procs # <<>> /\ IsInjective(t.procs)
  BY QueryProcessingAssumption DEF QueryProcessingAssumption
<1>2. t.procs \in Seq(Threads)
  BY <1>1 DEF TreeType
<1>3. \A j \in 1 .. Len(t.procs) : t.procs[j] \in Range(t.procs)
  BY <1>2 DEF Range
<1>4. \A i, j \in 1 .. Len(t.procs) : t.procs[i] = t.procs[j] => i = j
  BY <1>1, <1>2 DEF IsInjective
<1>5. t.kind = "single" => Len(t.procs) = 1
  BY QueryProcessingAssumption DEF QueryProcessingAssumption
<1> QED
  BY <1>1, <1>2, <1>3, <1>4, <1>5 DEF Owned

\* Every processor of a tree is a thread.
LEMMA OwnedThreads ==
  ASSUME NEW c \in Connections, NEW p \in Owned(c)
  PROVE  p \in Threads
<1>1. PICK t \in Trees[c] : p \in Range(t.procs)
  BY DEF Owned
<1>2. PICK j \in DOMAIN t.procs : p = t.procs[j]
  BY <1>1 DEF Range
<1> QED
  BY <1>2, TreeLemma

\* No processor belongs to two connections.
LEMMA OwnedLemma ==
  ASSUME NEW c \in Connections, NEW d \in Connections, c # d,
         NEW p \in Owned(c)
  PROVE  p \notin Owned(d)
BY QueryProcessingAssumption DEF QueryProcessingAssumption
-----------------------------------------------------------------------------
(* Steps of a processor *)

\* Processor p goes to place l; nobody else's evaluation changes.
Moves(p, l) ==
  /\ DOMAIN eval' = Threads
  /\ \A q \in Threads : q # p => eval'[q] = eval[q]
  /\ DOMAIN eval'[p] = Fields /\ eval'[p].at = l /\ eval'[p].left \in Seq(Images)

\* A processor at work is not one its connection takes for resting or ended.
LEMMA MoveRests ==
  ASSUME IInv, NEW p \in Threads, NEW l \in Places,
         eval[p].at \in {"images", "extract", "features", "read"},
         Moves(p, l), UNCHANGED connVars
  PROVE  ShapeInv' /\ \A c \in Connections : RestInv(c)'
<1>1. ShapeInv'
  BY DEF IInv, ShapeInv, Moves, connVars
<1>2. ASSUME NEW c \in Connections
      PROVE  RestInv(c)'
  <2> DEFINE ps == tree[c].procs
  <2>1. RestInv(c) /\ tree[c] \in Trees[c]
    BY DEF IInv, ShapeInv
  <2>2. ASSUME NEW q \in Threads, eval[q].at = "off" \/ Ended(q)
        PROVE  eval'[q] = eval[q]
    BY <2>2 DEF Ended, Moves
  <2>3. \A q \in Owned(c) : q \in Threads
    BY OwnedThreads
  <2>4. \A j \in 1 .. Len(ps) : ps[j] \in Threads
    BY <2>1, TreeLemma
  <2>5. next[c] \in 1 .. Len(ps) /\ Len(ps) \in Nat
    BY <2>1, TreeLemma DEF RestInv
  <2>6. tree' = tree /\ next' = next /\ pc' = pc
    BY DEF connVars
  <2>7. \A q \in Owned(c) : q \notin Range(ps) => eval'[q].at = "off"
    BY <2>1, <2>2, <2>3 DEF RestInv
  <2>8. pc[c] = "start" =>
          tree[c].kind # "single" /\ \A j \in next[c] .. Len(ps) : eval'[ps[j]].at = "off"
    BY <2>1, <2>2, <2>4, <2>5 DEF RestInv
  <2>9. pc[c] = "join" => \A j \in 1 .. (next[c] - 1) : Ended(ps[j])'
    BY <2>1, <2>2, <2>4, <2>5, <2>6 DEF RestInv, Ended
  <2>10. pc[c] = "answer" => \A j \in 1 .. Len(ps) : Ended(ps[j])'
    BY <2>1, <2>2, <2>4, <2>6 DEF RestInv, Ended
  <2>11. pc[c] \in {"idle", "random", "reply"} =>
           \A j \in 1 .. Len(ps) : eval'[ps[j]].at = "off"
    BY <2>1, <2>2, <2>4 DEF RestInv
  <2>12. (pc[c] \in {"idle", "random", "reply", "answer"} \/ tree[c].kind = "single") =>
           next[c] = 1
    BY <2>1 DEF RestInv
  <2> QED
    BY <2>5, <2>6, <2>7, <2>8, <2>9, <2>10, <2>11, <2>12 DEF RestInv
<1> QED
  BY <1>1, <1>2

\* A step that neither locks nor unlocks.
LEMMA MoveUnlocked ==
  ASSUME IInv, NEW p \in Threads, NEW l \in Places \ Locking,
         eval[p].at \notin Locking, Moves(p, l), gmutex' = gmutex
  PROVE  MutexInv'
<1>1. \A q \in Threads : eval'[q].at \in Locking <=> eval[q].at \in Locking
  BY DEF Moves
<1> QED
  BY <1>1 DEF IInv, MutexInv

\* A step that locks gMutex.
LEMMA MoveLocks ==
  ASSUME IInv, NEW p \in Threads, NEW l \in Locking,
         eval[p].at \notin Locking, Moves(p, l),
         CanLock(gmutex, p), gmutex' = Locked(gmutex, p, 1)
  PROVE  MutexInv'
<1>1. gmutex.owner = NoThread /\ gmutex.depth = 0
  BY DEF IInv, MutexInv, CanLock
<1>2. gmutex' = [owner |-> p, depth |-> 1]
  BY <1>1 DEF Locked
<1>3. gmutex' \in MutexType /\ gmutex'.owner = p /\ gmutex'.depth = 1
  BY <1>2 DEF MutexType
<1>4. p # NoThread
  BY NoThreadAssumption
<1>5. \A q \in Threads : q # p => eval'[q].at \notin Locking
  BY <1>1, NoThreadAssumption DEF IInv, MutexInv, Moves
<1> QED
  BY <1>3, <1>4, <1>5 DEF MutexInv, Moves

\* A step that unlocks gMutex.
LEMMA MoveUnlocks ==
  ASSUME IInv, NEW p \in Threads, NEW l \in Places \ Locking,
         eval[p].at \in Locking, Moves(p, l),
         gmutex' = IF gmutex.owner = p THEN Unlocked(gmutex, 1) ELSE gmutex
  PROVE  MutexInv'
<1>1. gmutex.owner = p /\ gmutex.depth = 1
  BY NoThreadAssumption DEF IInv, MutexInv
<1>2. gmutex' = FreeMutex
  BY <1>1 DEF Unlocked
<1>3. gmutex' \in MutexType /\ gmutex'.owner = NoThread /\ gmutex'.depth = 0
  BY <1>2 DEF FreeMutex, MutexType
<1>4. \A q \in Threads : eval'[q].at \notin Locking
  BY <1>1 DEF IInv, MutexInv, Moves
<1> QED
  BY <1>3, <1>4, NoThreadAssumption DEF MutexInv

\* A step that does not concern the catalogue.
LEMMA MoveCatalogue ==
  ASSUME IInv, NEW p \in Threads, NEW l \in Places, l # "extract",
         Moves(p, l), catalogue' = catalogue
  PROVE  CatalogueInv'
<1>1. \A q \in Threads : eval'[q].at = "extract" => eval'[q] = eval[q]
  BY DEF Moves
<1> QED
  BY <1>1 DEF IInv, CatalogueInv

\* A processor's step that only writes its evaluation, with or without the stream,
\* away from the locks.
LEMMA PlainMove ==
  ASSUME IInv, NEW p \in Threads, NEW l \in {"images", "features", "done"},
         eval[p].at \in {"images", "features"}, Moves(p, l),
         UNCHANGED <<gmutex, catalogue, connVars>>
  PROVE  IInv'
<1>1. l \in Places \ Locking /\ l # "extract" /\ eval[p].at \notin Locking
  BY DEF Places, Locking
<1>2. ShapeInv' /\ \A c \in Connections : RestInv(c)'
  BY <1>1, MoveRests
<1>3. MutexInv'
  BY <1>1, MoveUnlocked
<1>4. CatalogueInv'
  BY <1>1, MoveCatalogue
<1> QED
  BY <1>2, <1>3, <1>4 DEF IInv

LEMMA CollectKnownStep ==
  ASSUME IInv, NEW p \in Threads, CollectKnown(p)
  PROVE  IInv'
<1>1. eval[p].left \in Seq(Images) /\ eval[p].left # <<>> /\ eval[p].at = "images"
  BY DEF IInv, ShapeInv, CollectKnown
<1>2. Tail(eval[p].left) \in Seq(Images)
  BY <1>1
<1>3. Moves(p, "images")
  BY <1>1, <1>2 DEF IInv, ShapeInv, CollectKnown, Moves, Fields
<1> QED
  BY <1>1, <1>3, PlainMove DEF CollectKnown, accVars

LEMMA RandomIDsStep ==
  ASSUME IInv, NEW p \in Threads, RandomIDs(p)
  PROVE  IInv'
<1>1. eval[p].left \in Seq(Images) /\ eval[p].at = "images"
  BY DEF IInv, ShapeInv, RandomIDs
<1>2. PICK r : eval' = [eval EXCEPT ![p].at = "done", ![p].result = r]
  BY DEF RandomIDs
<1>3. Moves(p, "done")
  BY <1>1, <1>2 DEF IInv, ShapeInv, Moves, Fields
<1> QED
  BY <1>1, <1>3, PlainMove DEF RandomIDs, accVars

LEMMA BeginStep ==
  ASSUME IInv, NEW p \in Threads, Begin(p)
  PROVE  IInv'
<1>1. eval[p].left \in Seq(Images) /\ eval[p].at = "images"
  BY DEF IInv, ShapeInv, Begin
<1>2. PICK s : eval' = [eval EXCEPT ![p].at = "features", ![p].queue = s]
  BY DEF Begin
<1>3. Moves(p, "features")
  BY <1>1, <1>2 DEF IInv, ShapeInv, Moves, Fields
<1> QED
  BY <1>1, <1>3, PlainMove DEF Begin, accVars

LEMMA RankStep ==
  ASSUME IInv, NEW p \in Threads, Rank(p)
  PROVE  IInv'
<1>1. eval[p].left \in Seq(Images) /\ eval[p].at = "features"
  BY DEF IInv, ShapeInv, Rank
<1>2. PICK r : eval' = [eval EXCEPT ![p].at = "done", ![p].result = r]
  BY DEF Rank
<1>3. Moves(p, "done")
  BY <1>1, <1>2 DEF IInv, ShapeInv, Moves, Fields
<1> QED
  BY <1>1, <1>3, PlainMove DEF Rank, accVars

\* Before the extraction gMutex is locked and the image found to be unknown.
LEMMA ExtractStep ==
  ASSUME IInv, NEW p \in Threads, Extract(p)
  PROVE  IInv'
<1>1. /\ eval[p].left \in Seq(Images) /\ eval[p].left # <<>> /\ eval[p].at = "images"
      /\ Head(eval[p].left) \notin Range(catalogue)
      /\ catalogue' = catalogue /\ UNCHANGED connVars
      /\ CanLock(gmutex, p) /\ gmutex' = Locked(gmutex, p, 1)
  BY DEF IInv, ShapeInv, Extract, ExtractLock
<1>2. eval' = [eval EXCEPT ![p].at = "extract"]
  BY DEF Extract
<1>3. Moves(p, "extract") /\ eval'[p].left = eval[p].left
  BY <1>1, <1>2 DEF IInv, ShapeInv, Moves, Fields
<1>4. "extract" \in Places /\ "extract" \in Locking /\ eval[p].at \notin Locking
  BY <1>1 DEF Places, Locking
<1>5. ShapeInv' /\ \A c \in Connections : RestInv(c)'
  BY <1>1, <1>3, <1>4, MoveRests
<1>6. MutexInv'
  BY <1>1, <1>3, <1>4, MoveLocks
<1>7. CatalogueInv'
  BY <1>1, <1>3 DEF IInv, CatalogueInv, Moves
<1> QED
  BY <1>5, <1>6, <1>7 DEF IInv

\* Nobody else has added the image meanwhile, and nobody else is about to add one.
LEMMA AddImageStep ==
  ASSUME IInv, NEW p \in Threads, AddImage(p)
  PROVE  IInv'
<1> DEFINE i == Head(eval[p].left)
<1>1. /\ eval[p].at = "extract" /\ eval[p].left \in Seq(Images)
      /\ eval[p].left # <<>> /\ i \notin Range(catalogue)
      /\ catalogue \in Seq(Images) /\ IsInjective(catalogue)
  BY DEF IInv, ShapeInv, CatalogueInv, AddImage
<1>2. PICK t : eval' = [eval EXCEPT ![p].at = "images", ![p].left = Tail(@), ![p].tf = t]
  <2>1. PICK ok \in Extracts :
          eval' = [eval EXCEPT ![p].at = "images", ![p].left = Tail(@),
                               ![p].tf = IF ok THEN WithImage(p, @, i) ELSE @]
    BY DEF AddImage
  <2> QED
    BY <2>1
<1>3. /\ catalogue' = Append(catalogue, i) /\ UNCHANGED connVars
      /\ gmutex' = IF gmutex.owner = p THEN Unlocked(gmutex, 1) ELSE gmutex
  BY DEF AddImage, AddUnlock
<1>4. Tail(eval[p].left) \in Seq(Images) /\ i \in Images
  BY <1>1
<1>5. Moves(p, "images")
  BY <1>2, <1>4 DEF IInv, ShapeInv, Moves, Fields
<1>6. "images" \in Places /\ "images" \notin Locking /\ eval[p].at \in Locking
  BY <1>1 DEF Places, Locking
<1>7. ShapeInv' /\ \A c \in Connections : RestInv(c)'
  BY <1>1, <1>3, <1>5, <1>6, MoveRests
<1>8. MutexInv'
  BY <1>3, <1>5, <1>6, MoveUnlocks
<1>9. \A q \in Threads : eval'[q].at # "extract"
  <2>1. \A q \in Threads : q # p => eval[q].at \notin Locking
    BY <1>6, NoThreadAssumption DEF IInv, MutexInv
  <2> QED
    BY <2>1, <1>5 DEF Moves, Locking
<1>10. catalogue' \in Seq(Images) /\ IsInjective(catalogue')
  <2>1. catalogue' \in Seq(Images) /\ Len(catalogue') = Len(catalogue) + 1
    BY <1>1, <1>3, <1>4
  <2>2. \A a \in 1 .. Len(catalogue) : catalogue'[a] = catalogue[a] /\ catalogue[a] # i
    BY <1>1, <1>3, <1>4 DEF Range
  <2>3. catalogue'[Len(catalogue) + 1] = i
    BY <1>1, <1>3, <1>4
  <2>4. \A a, b \in 1 .. Len(catalogue) : catalogue[a] = catalogue[b] => a = b
    BY <1>1 DEF IsInjective
  <2>5. \A a \in 1 .. Len(catalogue) + 1 : a \in 1 .. Len(catalogue) \/ a = Len(catalogue) + 1
    BY <1>1
  <2>6. \A a, b \in 1 .. Len(catalogue) + 1 : catalogue'[a] = catalogue'[b] => a = b
    BY <2>2, <2>3, <2>4, <2>5
  <2> QED
    BY <2>1, <2>6 DEF IsInjective
<1> QED
  BY <1>7, <1>8, <1>9, <1>10 DEF IInv, CatalogueInv

\* Pruning changes the score board only.
LEMMA PrunedLemma ==
  ASSUME NEW p \in Threads, DOMAIN eval[p] = Fields
  PROVE  DOMAIN Pruned(p) = Fields /\ Pruned(p).left = eval[p].left /\ Pruned(p).at = eval[p].at
BY DEF Pruned, Fields

LEMMA SeekStep ==
  ASSUME IInv, NEW p \in Threads, Seek(p)
  PROVE  IInv'
<1> DEFINE e == Pruned(p)
           f == e.queue[e.count + 1]
<1>1. DOMAIN e = Fields /\ e.left = eval[p].left /\ e.at = eval[p].at
  BY PrunedLemma DEF IInv, ShapeInv
<1>2. eval[p].left \in Seq(Images) /\ eval[p].at = "features" /\ CanLock(gmutex, p)
  BY <1>1 DEF IInv, ShapeInv, Seek
<1>3. catalogue' = catalogue /\ UNCHANGED connVars
  BY DEF Seek
<1>4. "read" \in Locking /\ "read" \in Places /\ eval[p].at \notin Locking
  BY <1>2 DEF Locking, Places
<1>5. eval' = [eval EXCEPT ![p] =
         [e EXCEPT !.count = @ + 1, !.score = @ + ApplyOnThis(f, e.tf[f]),
                   !.at = IF f \in Indexed THEN "read" ELSE @]]
  BY DEF Seek
<1>6. CASE f \in Indexed
  <2>1. gmutex' = Locked(gmutex, p, 1)
    BY <1>6 DEF Seek, ReadLock
  <2>2. Moves(p, "read")
    BY <1>1, <1>2, <1>5, <1>6 DEF IInv, ShapeInv, Moves, Fields
  <2>3. ShapeInv' /\ \A c \in Connections : RestInv(c)'
    BY <1>2, <1>3, <1>4, <2>2, MoveRests
  <2>4. MutexInv'
    BY <1>2, <1>4, <2>1, <2>2, MoveLocks
  <2>5. CatalogueInv'
    BY <1>3, <1>4, <2>2, MoveCatalogue
  <2> QED
    BY <2>3, <2>4, <2>5 DEF IInv
<1>7. CASE f \notin Indexed
  <2>1. gmutex' = gmutex
    BY <1>7 DEF Seek
  <2>2. Moves(p, "features")
    BY <1>1, <1>2, <1>5, <1>7 DEF IInv, ShapeInv, Moves, Fields
  <2> QED
    BY <1>2, <1>3, <2>1, <2>2, PlainMove
<1> QED
  BY <1>6, <1>7

LEMMA ReadListStep ==
  ASSUME IInv, NEW p \in Threads, ReadList(p)
  PROVE  IInv'
<1>1. eval[p].left \in Seq(Images) /\ eval[p].at = "read"
  BY DEF IInv, ShapeInv, ReadList
<1>2. PICK b : eval' = [eval EXCEPT ![p].at = "features", ![p].board = b]
  BY DEF ReadList
<1>3. Moves(p, "features")
  BY <1>1, <1>2 DEF IInv, ShapeInv, Moves, Fields
<1>4. /\ "features" \in Places /\ "features" \notin Locking /\ eval[p].at \in Locking
      /\ catalogue' = catalogue /\ UNCHANGED connVars
  BY <1>1 DEF Places, Locking, ReadList
<1>5. ShapeInv' /\ \A c \in Connections : RestInv(c)'
  BY <1>1, <1>3, <1>4, MoveRests
<1>6. MutexInv'
  BY <1>3, <1>4, MoveUnlocks DEF ReadList
<1>7. CatalogueInv'
  BY <1>3, <1>4, MoveCatalogue
<1> QED
  BY <1>5, <1>6, <1>7 DEF IInv
-----------------------------------------------------------------------------
(* Steps of a connection *)

\* Of the evaluations, connection c changes only those of its own processors that
\* rest or have ended, and nothing else of other connections.
Touches(c) ==
  /\ DOMAIN eval' = Threads
  /\ \A p \in Threads :
       \/ eval'[p] = eval[p]
       \/ /\ p \in Owned(c) /\ eval[p].at \in {"off", "done", "failed"}
          /\ DOMAIN eval'[p] = Fields /\ eval'[p].left \in Seq(Images)
          /\ eval'[p].at \in {"off", "images", "failed"}
  /\ UNCHANGED <<gmutex, catalogue>>
  /\ pc' \in [Connections -> {"idle", "random", "start", "join", "answer", "reply"}]
  /\ next' \in [Connections -> Nat]
  /\ DOMAIN tree' = Connections /\ tree'[c] \in Trees[c]
  /\ \A d \in Connections :
       d # c => pc'[d] = pc[d] /\ next'[d] = next[d] /\ tree'[d] = tree[d]
  /\ DOMAIN query' = Connections
  /\ \A d \in Connections : query'[d].images \in Seq(Images)

\* The rest of the invariant follows if c's own part holds.
LEMMA TouchLemma ==
  ASSUME IInv, NEW c \in Connections, Touches(c), RestInv(c)'
  PROVE  IInv'
<1>1. ShapeInv'
  <2>1. \A p \in Threads :
          /\ DOMAIN eval'[p] = Fields /\ eval'[p].at \in Places
          /\ eval'[p].left \in Seq(Images)
    BY DEF IInv, ShapeInv, Touches, Places
  <2>2. \A d \in Connections : tree'[d] \in Trees[d]
    BY DEF IInv, ShapeInv, Touches
  <2> QED
    BY <2>1, <2>2 DEF ShapeInv, Touches
<1>2. \A p \in Threads : eval'[p].at \in Locking \/ eval[p].at \in Locking => eval'[p] = eval[p]
  BY DEF Touches, Locking
<1>3. MutexInv'
  BY <1>2 DEF IInv, MutexInv, Touches
<1>4. CatalogueInv'
  BY <1>2 DEF IInv, CatalogueInv, Touches, Locking
<1>5. ASSUME NEW d \in Connections, d # c
      PROVE  RestInv(d)'
  <2> DEFINE ps == tree[d].procs
  <2>1. tree[d] \in Trees[d] /\ RestInv(d)
    BY DEF IInv, ShapeInv
  <2>2. pc'[d] = pc[d] /\ next'[d] = next[d] /\ tree'[d] = tree[d]
    BY <1>5 DEF Touches
  <2>3. \A p \in Owned(d) : p \in Threads => eval'[p] = eval[p]
    BY <1>5, OwnedLemma DEF Touches
  <2>4. \A p \in Owned(d) : p \in Threads
    BY OwnedThreads
  <2>5. \A j \in 1 .. Len(ps) : eval'[ps[j]] = eval[ps[j]]
    BY <2>1, <2>3, <2>4, TreeLemma
  <2>6. next[d] \in 1 .. Len(ps) /\ Len(ps) \in Nat
    BY <2>1, TreeLemma DEF RestInv
  <2>7. \A p \in Owned(d) : p \notin Range(ps) => eval'[p].at = "off"
    BY <2>1, <2>3, <2>4 DEF RestInv
  <2>8. pc[d] = "start" =>
          tree[d].kind # "single" /\ \A j \in next[d] .. Len(ps) : eval'[ps[j]].at = "off"
    BY <2>1, <2>5, <2>6 DEF RestInv
  <2>9. pc[d] = "join" => \A j \in 1 .. (next[d] - 1) : Ended(ps[j])'
    BY SMTT(30), <2>1, <2>2, <2>5, <2>6 DEF RestInv, Ended
  <2>10. pc[d] = "answer" => \A j \in 1 .. Len(ps) : Ended(ps[j])'
    BY <2>1, <2>2, <2>5 DEF RestInv, Ended
  <2>11. pc[d] \in {"idle", "random", "reply"} =>
           \A j \in 1 .. Len(ps) : eval'[ps[j]].at = "off"
    BY <2>1, <2>5 DEF RestInv
  <2>12. (pc[d] \in {"idle", "random", "reply", "answer"} \/ tree[d].kind = "single") =>
           next[d] = 1
    BY <2>1 DEF RestInv
  <2> QED
    BY <2>2, <2>6, <2>7, <2>8, <2>9, <2>10, <2>11, <2>12 DEF RestInv
<1> QED
  BY <1>1, <1>3, <1>4, <1>5 DEF IInv

\* A connection that answers at random, or has replied: its processors rest.
LEMMA IdleStep ==
  ASSUME IInv, NEW c \in Connections, NEW l \in {"idle", "reply"},
         pc[c] \in {"random", "reply"}, pc' = [pc EXCEPT ![c] = l],
         query' = query \/ query' = [query EXCEPT ![c] = NoQuery],
         UNCHANGED <<gmutex, catalogue, eval, tree, next>>
  PROVE  IInv'
<1>1. Touches(c)
  <2>1. NoQuery.images = <<>> /\ <<>> \in Seq(Images)
    BY DEF NoQuery
  <2>2. DOMAIN query' = Connections
    BY DEF IInv, ShapeInv
  <2>3. \A d \in Connections : query'[d].images \in Seq(Images)
    <3>1. CASE query' = query
      BY <3>1 DEF IInv, ShapeInv
    <3>2. CASE query' = [query EXCEPT ![c] = NoQuery]
      <4>1. query'[c] = NoQuery /\ \A d \in Connections : d # c => query'[d] = query[d]
        BY <3>2 DEF IInv, ShapeInv
      <4> QED
        BY <2>1, <4>1 DEF IInv, ShapeInv
    <3> QED
      BY <3>1, <3>2
  <2>4. pc' \in [Connections -> {"idle", "random", "start", "join", "answer", "reply"}]
    BY DEF IInv, ShapeInv
  <2>5. \A d \in Connections : d # c => pc'[d] = pc[d]
    BY DEF IInv, ShapeInv
  <2> QED
    BY <2>2, <2>3, <2>4, <2>5 DEF IInv, ShapeInv, Touches
<1>2. pc'[c] = l /\ RestInv(c)
  BY DEF IInv, ShapeInv
<1>3. RestInv(c)'
  BY <1>2 DEF RestInv
<1> QED
  BY <1>1, <1>3, TouchLemma

LEMMA AskStep ==
  ASSUME IInv, NEW c \in Connections, Ask(c)
  PROVE  IInv'
<1>1. PICK t \in Trees[c], q \in Queries[c] :
        LET single == t.kind = "single" /\ ~q.bare IN
        /\ tree' = [tree EXCEPT ![c] = t]
        /\ query' = [query EXCEPT ![c] = q]
        /\ pc' = [pc EXCEPT ![c] =
                    IF q.bare THEN "random" ELSE IF single THEN "join" ELSE "start"]
        /\ eval' = IF single
                   THEN [eval EXCEPT ![t.procs[1]] = Started(q, q.size)]
                   ELSE eval
  BY DEF Ask
<1> DEFINE p == t.procs[1]
           ps == t.procs
<1>2. pc[c] = "idle" /\ next' = next /\ UNCHANGED <<gmutex, catalogue>> /\ RestInv(c)
  BY DEF IInv, Ask, accVars
<1>3. /\ Len(ps) \in Nat \ {0} /\ \A j \in 1 .. Len(ps) : ps[j] \in Owned(c) \cap Threads
      /\ \A i, j \in 1 .. Len(ps) : ps[i] = ps[j] => i = j
      /\ t.kind = "single" => Len(ps) = 1
  BY TreeLemma
<1>4. \A r \in Owned(c) : eval[r].at = "off"
  <2>1. ASSUME NEW r \in Owned(c), r \in Range(tree[c].procs)
        PROVE  eval[r].at = "off"
    <3>1. PICK j \in DOMAIN tree[c].procs : r = tree[c].procs[j]
      BY <2>1 DEF Range
    <3>2. tree[c].procs \in Seq(Threads)
      BY TreeLemma DEF IInv, ShapeInv
    <3> QED
      BY <1>2, <3>1, <3>2 DEF RestInv
  <2> QED
    BY <2>1, <1>2 DEF RestInv
<1>5. tree'[c] = t /\ DOMAIN tree' = Connections /\ next[c] = 1
  BY <1>1, <1>2 DEF IInv, ShapeInv, RestInv
<1>6. DOMAIN query' = Connections /\ \A d \in Connections : query'[d].images \in Seq(Images)
  <2>1. q.images \in Seq(Images)
    BY QueryProcessingAssumption DEF QueryProcessingAssumption, QueryType
  <2> QED
    BY <1>1, <2>1 DEF IInv, ShapeInv
<1>7. CASE t.kind = "single" /\ ~q.bare
  <2>1. eval' = [eval EXCEPT ![p] = Started(q, q.size)] /\ pc'[c] = "join"
    BY <1>1, <1>7 DEF IInv, ShapeInv
  <2>2. /\ p \in Threads /\ eval'[p] = Started(q, q.size) /\ p \in Owned(c)
        /\ \A r \in Threads : r # p => eval'[r] = eval[r]
        /\ DOMAIN eval' = Threads
    BY SMTT(30), <1>3, <1>7, <2>1 DEF IInv, ShapeInv
  <2>3. Touches(c)
    BY <1>1, <1>2, <1>4, <1>5, <1>7, <1>6, <2>2, StartedLemma DEF IInv, ShapeInv, Touches
  <2>4. \A r \in Owned(c) : r \notin Range(ps) => eval'[r].at = "off"
    <3>1. p \in Range(ps)
      BY <1>3, <1>7, TreeLemma DEF Range
    <3> QED
      BY <1>4, <2>2, <3>1, OwnedThreads
  <2>5. RestInv(c)'
    BY <1>2, <1>3, <1>5, <1>7, <2>1, <2>4 DEF RestInv
  <2> QED
    BY <2>3, <2>5, TouchLemma
<1>8. CASE ~(t.kind = "single" /\ ~q.bare)
  <2>1. eval' = eval /\ pc'[c] = IF q.bare THEN "random" ELSE "start"
    BY <1>1, <1>8 DEF IInv, ShapeInv
  <2>2. Touches(c)
    BY <1>1, <1>2, <1>5, <1>8, <1>6, <2>1 DEF IInv, ShapeInv, Touches
  <2>3. \A j \in 1 .. Len(ps) : eval[ps[j]].at = "off"
    BY <1>3, <1>4
  <2>4. RestInv(c)'
    BY <1>2, <1>3, <1>4, <1>5, <1>8, <2>1, <2>3 DEF RestInv
  <2> QED
    BY <2>2, <2>4, TouchLemma
<1> QED
  BY <1>7, <1>8

\* What Advance does, said of a connection whose turn is not over.
LEMMA AdvanceLemma ==
  ASSUME IInv, NEW c \in Connections, NEW l \in {"join", "answer"}, Advance(c, l)
  PROVE  LET n == Len(tree[c].procs) IN
         /\ pc' \in [Connections -> {"idle", "random", "start", "join", "answer", "reply"}]
         /\ next' \in [Connections -> Nat]
         /\ \A d \in Connections : d # c => pc'[d] = pc[d] /\ next'[d] = next[d]
         /\ next[c] = n => next'[c] = 1 /\ pc'[c] = l
         /\ next[c] # n => next'[c] = next[c] + 1 /\ pc'[c] = pc[c]
BY DEF IInv, ShapeInv, Advance

LEMMA SpawnStep ==
  ASSUME IInv, NEW c \in Connections, Spawn(c)
  PROVE  IInv'
<1> DEFINE ps == tree[c].procs
           p == Child(c)
<1>1. /\ pc[c] = "start" /\ tree' = tree /\ UNCHANGED <<gmutex, catalogue>>
      /\ Advance(c, "join") /\ RestInv(c) /\ tree[c] \in Trees[c] /\ DOMAIN tree = Connections
  BY DEF IInv, ShapeInv, Spawn, accVars
<1>2. /\ Len(ps) \in Nat \ {0} /\ \A j \in 1 .. Len(ps) : ps[j] \in Owned(c) \cap Threads
      /\ \A i, j \in 1 .. Len(ps) : ps[i] = ps[j] => i = j
  BY <1>1, TreeLemma
<1>3. next[c] \in 1 .. Len(ps) /\ p = ps[next[c]]
  BY <1>1 DEF RestInv, Child
<1>4. p \in Threads /\ p \in Owned(c) /\ eval[p].at = "off" /\ tree[c].kind # "single"
  BY <1>1, <1>2, <1>3 DEF RestInv
<1>5. PICK e : /\ eval' = [eval EXCEPT ![p] = e]
               /\ DOMAIN e = Fields /\ e.left \in Seq(Images)
               /\ e.at \in {"images", "failed"}
  <2>1. CASE eval' = [eval EXCEPT ![p] = Started(query[c], ChildLimit(c))]
    <3> DEFINE e == Started(query[c], ChildLimit(c))
    <3>1. DOMAIN e = Fields /\ e.left = query[c].images /\ e.at = "images"
      BY RestingLemma DEF Started, Fields
    <3>2. query[c].images \in Seq(Images)
      BY DEF IInv, ShapeInv
    <3> QED
      BY <2>1, <3>1, <3>2
  <2>2. CASE eval' = [eval EXCEPT ![p] = [Resting EXCEPT !.at = "failed"]]
    <3> DEFINE e == [Resting EXCEPT !.at = "failed"]
    <3>1. DOMAIN e = Fields /\ e.left = <<>> /\ e.at = "failed"
      BY RestingLemma DEF Fields
    <3>2. <<>> \in Seq(Images)
      OBVIOUS
    <3>3. eval' = [eval EXCEPT ![p] = e]
      BY <2>2
    <3> HIDE DEF e
    <3> QED
      BY <3>1, <3>2, <3>3
  <2> QED
    BY <2>1, <2>2 DEF Spawn
<1>6. /\ eval'[p] = e /\ DOMAIN eval' = Threads
      /\ \A r \in Threads : r # p => eval'[r] = eval[r]
  BY <1>4, <1>5 DEF IInv, ShapeInv
<1>7. Touches(c)
  <2>1. query' = query
    BY DEF Spawn
  <2> QED
    BY <1>1, <1>4, <1>5, <1>6, <2>1, AdvanceLemma DEF IInv, ShapeInv, Touches
<1>8. RestInv(c)'
  <2>1. \A r \in Owned(c) : r \notin Range(ps) => eval'[r].at = "off"
    <3>1. p \in Range(ps)
      BY <1>1, <1>3, TreeLemma DEF Range
    <3> QED
      BY <1>1, <1>6, <3>1, OwnedThreads DEF RestInv
  <2>2. \A j \in 1 .. Len(ps) : j > next[c] => eval'[ps[j]].at = "off"
    BY <1>1, <1>2, <1>3, <1>6 DEF RestInv
  <2>3. CASE next[c] = Len(ps)
    <3>1. next'[c] = 1 /\ pc'[c] = "join"
      BY <1>1, <2>3, AdvanceLemma
    <3> QED
      BY <1>1, <1>2, <1>4, <2>1, <3>1 DEF RestInv
  <2>4. CASE next[c] # Len(ps)
    <3>1. next'[c] = next[c] + 1 /\ pc'[c] = "start"
      BY <1>1, <2>4, AdvanceLemma
    <3>2. next'[c] \in 1 .. Len(ps) /\ \A j \in next'[c] .. Len(ps) : eval'[ps[j]].at = "off"
      BY <1>2, <1>3, <2>2, <2>4, <3>1
    <3> QED
      BY <1>1, <1>4, <2>1, <3>1, <3>2 DEF RestInv
  <2> QED
    BY <2>3, <2>4
<1> QED
  BY <1>7, <1>8, TouchLemma

LEMMA JoinStep ==
  ASSUME IInv, NEW c \in Connections, Join(c)
  PROVE  IInv'
<1> DEFINE ps == tree[c].procs
<1>1. /\ pc[c] = "join" /\ tree[c].kind # "single" /\ Ended(ps[next[c]])
      /\ eval' = eval /\ tree' = tree /\ query' = query /\ UNCHANGED <<gmutex, catalogue>>
      /\ Advance(c, "answer") /\ RestInv(c) /\ tree[c] \in Trees[c]
  BY DEF IInv, ShapeInv, Join, Joinable, Child, accVars
<1>2. Len(ps) \in Nat \ {0} /\ next[c] \in 1 .. Len(ps)
  BY <1>1, TreeLemma DEF RestInv
<1>3. Touches(c)
  BY <1>1, AdvanceLemma DEF IInv, ShapeInv, Touches
<1>4. \A j \in 1 .. next[c] : Ended(ps[j])
  BY <1>1, <1>2 DEF RestInv
<1>5. RestInv(c)'
  <2>1. CASE next[c] = Len(ps)
    <3>1. next'[c] = 1 /\ pc'[c] = "answer"
      BY <1>1, <2>1, AdvanceLemma
    <3>2. \A j \in 1 .. Len(ps) : Ended(ps[j])'
      BY <1>1, <1>4, <2>1 DEF Ended
    <3> QED
      BY <1>1, <1>2, <3>1, <3>2 DEF RestInv
  <2>2. CASE next[c] # Len(ps)
    <3>1. next'[c] = next[c] + 1 /\ pc'[c] = "join" /\ next'[c] \in 1 .. Len(ps)
      BY <1>1, <1>2, <2>2, AdvanceLemma
    <3>2. \A j \in 1 .. (next'[c] - 1) : Ended(ps[j])'
      BY <1>1, <1>2, <1>4, <3>1 DEF Ended
    <3> QED
      BY <1>1, <3>1, <3>2 DEF RestInv
  <2> QED
    BY <2>1, <2>2
<1> QED
  BY <1>3, <1>5, TouchLemma

LEMMA AnswerStep ==
  ASSUME IInv, NEW c \in Connections, Answer(c)
  PROVE  IInv'
<1> DEFINE ps == tree[c].procs
<1>1. /\ IF tree[c].kind = "single" THEN pc[c] = "join" /\ Ended(ps[1]) ELSE pc[c] = "answer"
      /\ eval' = Forgotten(c) /\ pc' = [pc EXCEPT ![c] = "reply"]
      /\ next' = next /\ tree' = tree /\ query' = query /\ UNCHANGED <<gmutex, catalogue>>
      /\ RestInv(c) /\ tree[c] \in Trees[c]
  BY DEF IInv, ShapeInv, Answer, Ended, accVars
<1>2. /\ Len(ps) \in Nat \ {0} /\ \A j \in 1 .. Len(ps) : ps[j] \in Owned(c) \cap Threads
      /\ ps \in Seq(Threads)
      /\ tree[c].kind = "single" => Len(ps) = 1
  BY <1>1, TreeLemma
<1>3. \A j \in 1 .. Len(ps) : Ended(ps[j])
  BY <1>1, <1>2 DEF RestInv
<1>4. \A r \in Threads :
        eval'[r] = IF r \in Range(ps) /\ Ended(r) THEN Resting ELSE eval[r]
  BY <1>1 DEF Forgotten
<1>5. \A j \in 1 .. Len(ps) : eval'[ps[j]].at = "off"
  <2>1. \A j \in 1 .. Len(ps) : ps[j] \in Range(ps)
    BY <1>2 DEF Range
  <2> QED
    BY <1>2, <1>3, <1>4, <2>1, RestingLemma
<1>6. \A r \in Owned(c) : r \notin Range(ps) => eval'[r].at = "off"
  BY <1>1, <1>4, OwnedThreads DEF RestInv
<1>7. pc'[c] = "reply" /\ next'[c] = 1
  BY <1>1 DEF IInv, ShapeInv, RestInv
<1>8. Touches(c)
  <2>1. DOMAIN eval' = Threads
    BY <1>1 DEF Forgotten
  <2>2. ASSUME NEW r \in Threads, eval'[r] # eval[r]
        PROVE  /\ r \in Owned(c) /\ eval[r].at \in {"off", "done", "failed"}
               /\ eval'[r] = Resting
    <3>1. r \in Range(ps) /\ Ended(r)
      BY <1>4, <2>2
    <3> QED
      BY <1>1, <1>4, <3>1 DEF Owned, Ended
  <2>3. <<>> \in Seq(Images)
    OBVIOUS
  <2> QED
    BY <1>1, <2>1, <2>2, <2>3, RestingLemma DEF IInv, ShapeInv, Touches
<1>9. RestInv(c)'
  BY <1>1, <1>2, <1>5, <1>6, <1>7 DEF RestInv
<1> QED
  BY <1>8, <1>9, TouchLemma
-----------------------------------------------------------------------------
(* The invariant and what follows from it *)

LEMMA InitLemma == Init => IInv
<1> SUFFICES ASSUME Init PROVE IInv
  OBVIOUS
<1>1. \A p \in Threads : eval[p] = Resting
  BY DEF Init
<1>2. /\ gmutex = FreeMutex /\ catalogue = Collection
      /\ eval = [p \in Threads |-> Resting] /\ pc = [c \in Connections |-> "idle"]
      /\ next = [c \in Connections |-> 1] /\ query = [c \in Connections |-> NoQuery]
  BY DEF Init
<1>3. DOMAIN tree = Connections /\ \A c \in Connections : tree[c] \in Trees[c]
  <2>1. \A c \in Connections : tree[c] = CHOOSE t \in Trees[c] : TRUE
    BY DEF Init
  <2>2. \A c \in Connections : Trees[c] # {}
    BY QueryProcessingAssumption DEF QueryProcessingAssumption
  <2> QED
    BY <2>1, <2>2 DEF Init
<1>4. ShapeInv
  <2>1. NoQuery.images = <<>> /\ <<>> \in Seq(Images) /\ "off" \in Places
    BY DEF NoQuery, Places
  <2>2. \A p \in Threads :
          DOMAIN eval[p] = Fields /\ eval[p].at \in Places /\ eval[p].left \in Seq(Images)
    BY <1>1, <2>1, RestingLemma
  <2>3. \A c \in Connections : query[c].images \in Seq(Images)
    BY <1>2, <2>1
  <2> QED
    BY <1>2, <1>3, <2>2, <2>3 DEF ShapeInv
<1>5. MutexInv
  BY <1>1, <1>2, RestingLemma, NoThreadAssumption
  DEF MutexInv, MutexType, FreeMutex, Locking
<1>6. CatalogueInv
  BY <1>1, <1>2, RestingLemma, QueryProcessingAssumption
  DEF CatalogueInv, QueryProcessingAssumption
<1>7. ASSUME NEW c \in Connections
      PROVE  RestInv(c)
  BY <1>1, <1>2, <1>3, RestingLemma, TreeLemma, OwnedThreads DEF RestInv
<1> QED
  BY <1>4, <1>5, <1>6, <1>7 DEF IInv

\* Every step keeps the invariant.
LEMMA NextLemma == IInv /\ [Next]_vars => IInv'
<1> SUFFICES ASSUME IInv, [Next]_vars PROVE IInv'
  OBVIOUS
<1>1. ASSUME NEW c \in Connections, ConnectionStep(c)
      PROVE  IInv'
  <2>1. CASE Ask(c)
    BY <2>1, AskStep
  <2>2. CASE RandomImages(c)
    <3>1. /\ pc[c] = "random" /\ pc' = [pc EXCEPT ![c] = "reply"] /\ query' = query
          /\ UNCHANGED <<gmutex, catalogue, eval, tree, next>>
      BY <2>2 DEF RandomImages, accVars
    <3> QED
      BY <3>1, IdleStep
  <2>3. CASE Spawn(c)
    BY <2>3, SpawnStep
  <2>4. CASE Join(c)
    BY <2>4, JoinStep
  <2>5. CASE JoinCrashes(c)
    <3>1. UNCHANGED <<accVars, eval, connVars>>
      BY <2>5 DEF JoinCrashes
    <3> QED
      BY <3>1 DEF IInv, ShapeInv, MutexInv, CatalogueInv, RestInv, Ended, accVars, connVars
  <2>6. CASE Answer(c)
    BY <2>6, AnswerStep
  <2>7. CASE Reply(c)
    <3>1. /\ pc[c] = "reply" /\ pc' = [pc EXCEPT ![c] = "idle"]
          /\ query' = [query EXCEPT ![c] = NoQuery]
          /\ UNCHANGED <<gmutex, catalogue, eval, tree, next>>
      BY <2>7 DEF Reply, accVars
    <3> QED
      BY <3>1, IdleStep
  <2> QED
    BY <1>1, <2>1, <2>2, <2>3, <2>4, <2>5, <2>6, <2>7 DEF ConnectionStep
<1>2. ASSUME NEW p \in Threads, ProcessorStep(p)
      PROVE  IInv'
  BY <1>2, CollectKnownStep, ExtractStep, AddImageStep, RandomIDsStep, BeginStep,
     SeekStep, ReadListStep, RankStep
  DEF ProcessorStep
<1>3. CASE UNCHANGED vars
  BY <1>3 DEF IInv, ShapeInv, MutexInv, CatalogueInv, RestInv, Ended, vars, accVars, connVars
<1> QED
  BY <1>1, <1>2, <1>3 DEF Next

\* gMutex is held by nobody but the thread that extracts features or reads a list,
\* what is extracted is unknown to the catalogue, and the processors of a
\* connection that neither starts, joins nor merges rest.
THEOREM InvariantHolds == Spec => []IInv
<1> QED
  BY InitLemma, NextLemma, PTL DEF Spec

\* However many queries ask for the same unknown image, the catalogue never gets
\* it twice: URLToFeatureList keeps gMutex from its search to addImage.
THEOREM OneIdForEveryImage == Spec => []OneIdPerImage
<1>1. IInv => OneIdPerImage
  BY DEF IInv, CatalogueInv, OneIdPerImage
<1> QED
  BY <1>1, InvariantHolds, PTL

\* When a connection answers, none of its processors is at work: every child that
\* was started has been joined, one that could not be started does not matter.
THEOREM NoThreadOutlivesQuery == Spec => []NoOrphans
<1>1. IInv => NoOrphans
  <2> SUFFICES ASSUME IInv, NEW c \in Connections, pc[c] \in {"idle", "random", "reply"},
                      NEW p \in Range(tree[c].procs)
               PROVE  eval[p].at = "off"
    BY DEF NoOrphans
  <2>1. PICK j \in DOMAIN tree[c].procs : p = tree[c].procs[j]
    BY DEF Range
  <2>2. tree[c].procs \in Seq(Threads)
    BY TreeLemma DEF IInv, ShapeInv
  <2> QED
    BY <2>1, <2>2 DEF IInv, RestInv
<1> QED
  BY <1>1, InvariantHolds, PTL
-----------------------------------------------------------------------------
(* Queues, ranking and what is summed *)

\* Weights of features are numbers.
LEMMA FactorIsNat ==
  ASSUME NEW f \in Features, NEW tf \in Nat
  PROVE  Factor(f, tf) \in Nat
BY QueryProcessingAssumption DEF Factor

\* The queue has each feature of the query once.
LEMMA ByFactorFacts ==
  ASSUME NEW tfs \in [Features -> Nat]
  PROVE  LET q == ByFactor(tfs)
         IN  /\ q \in Seq(Features)
             /\ \A j, k \in 1 .. Len(q) : q[j] = q[k] => j = k
             /\ \A f \in Features : tfs[f] > 0 <=> \E k \in 1 .. Len(q) : q[k] = f
<1> DEFINE S == {f \in Features : tfs[f] > 0}
           before(f, g) == \/ Factor(f, tfs[f]) > Factor(g, tfs[g])
                           \/ Factor(f, tfs[f]) = Factor(g, tfs[g]) /\ f > g
           R == {e \in S \X S : before(e[1], e[2])}
           q == ByFactor(tfs)
<1>1. IsFiniteSet(S)
  <2>1. S \in SUBSET Features /\ IsFiniteSet(Features)
    BY QueryProcessingAssumption
  <2> HIDE DEF S
  <2> QED
    BY <2>1, FS_Subset
<1>2. Features \subseteq Nat /\ S \subseteq Features
  BY QueryProcessingAssumption
<1>3. \A f \in S : Factor(f, tfs[f]) \in Nat
  BY FactorIsNat
<1>4. \A f, g \in S : <<f, g>> \in R <=> before(f, g)
  OBVIOUS
<1>5. StrictOrder(S, R)
  <2> HIDE DEF S, R
  <2>1. \A f, g \in S : /\ Factor(f, tfs[f]) \in Nat /\ Factor(g, tfs[g]) \in Nat
                        /\ f \in Nat /\ g \in Nat
    BY <1>2, <1>3
  <2>2. \A x \in S : <<x, x>> \notin R
    BY <1>4, <2>1
  <2>3. \A x, y \in S : x # y => <<x, y>> \in R \/ <<y, x>> \in R
    BY <1>4, <2>1
  <2>4. \A x, y, z \in S : <<x, y>> \in R /\ <<y, z>> \in R => <<x, z>> \in R
    BY <1>4, <2>1
  <2> QED
    BY <2>2, <2>3, <2>4 DEF StrictOrder
<1>6. \A x \in S : {y \in S : before(y, x)} = {y \in S : <<y, x>> \in R}
  <2> HIDE DEF S, R
  <2> QED
    BY <1>4
<1>7. q = [k \in 1 .. Cardinality(S) |->
             CHOOSE x \in S : Cardinality({y \in S : before(y, x)}) = k - 1]
  BY DEF ByFactor, Sorted
<1>8. ASSUME NEW k \in 1 .. Cardinality(S)
      PROVE  q[k] \in S /\ PlaceOf(S, R, q[k]) = k - 1
  <2> HIDE DEF S, R, q
  <2>1. PICK x \in S : PlaceOf(S, R, x) = k - 1
    BY <1>1, <1>5, PlacesAreTaken
  <2>2. Cardinality({y \in S : before(y, x)}) = k - 1
    BY <1>6, <2>1 DEF PlaceOf
  <2>3. q[k] \in S /\ Cardinality({y \in S : before(y, q[k])}) = k - 1
    BY <1>7, <2>2
  <2> QED
    BY <1>6, <2>3 DEF PlaceOf
<1>9. q \in [1 .. Cardinality(S) -> S]
  <2>1. \A k \in 1 .. Cardinality(S) : q[k] \in S
    BY <1>8
  <2>2. q = [k \in 1 .. Cardinality(S) |-> q[k]]
    BY <1>7
  <2> HIDE DEF q, S
  <2> QED
    BY <2>1, <2>2
<1>10. Enumerates(q, S)
  <2>1. \A k \in 1 .. Cardinality(S) : PlaceOf(S, R, q[k]) = k - 1
    BY <1>8
  <2> HIDE DEF S, R, q
  <2> QED
    BY <1>1, <1>5, <2>1, <1>9, PlacedOnce
<1>11. q \in Seq(Features)
  <2> HIDE DEF S, R, q
  <2>1. Len(q) \in Nat /\ q \in [1 .. Len(q) -> S]
    BY <1>10 DEF Enumerates
  <2>2. q \in [1 .. Len(q) -> Features]
    BY <1>2, <2>1
  <2> QED
    BY <2>1, <2>2
<1>12. \A k \in 1 .. Len(q) : q[k] \in S
  <2> HIDE DEF S, R, q
  <2> QED
    BY <1>10 DEF Enumerates
<1> QED
  BY <1>10, <1>11, <1>12 DEF Enumerates

\* Fractions of the same whole are in the order of their parts.
LEMMA SameWhole ==
  ASSUME NEW x \in Nat, NEW y \in Nat, NEW n \in Nat \ {0}
  PROVE  (x * n > y * n <=> x > y) /\ (x * n = y * n <=> x = y)
<1>1. ASSUME NEW v \in Nat, NEW w \in Nat, v > w PROVE v * n > w * n
  <2>1. PICK k \in Nat : v = w + k /\ k >= 1
    <3>1. v - w \in Nat /\ v = w + (v - w) /\ v - w >= 1
      BY <1>1
    <3> QED
      BY <3>1
  <2>2. v * n = w * n + k * n /\ k * n >= 1 /\ w * n \in Nat /\ k * n \in Nat
    <3>1. (w + k) * n = w * n + k * n
      OBVIOUS
    <3>2. k * n >= 1
      BY <2>1
    <3> QED
      BY <2>1, <3>1, <3>2
  <2> QED
    BY <2>2
<1>2. x * n \in Nat /\ y * n \in Nat
  OBVIOUS
<1> QED
  BY <1>1, <1>2

\* Documents by their scores, for pruning and as a result: the list has each once,
\* and those that reach a threshold first.
LEMMA ScoresRanked ==
  ASSUME NEW S, IsFiniteSet(S), S \subseteq Nat, NEW b \in [S -> Nat], NEW n \in Nat \ {0}
  PROVE  LET q == Ranking([d \in S |-> <<b[d], n>>], FALSE)
         IN  /\ Enumerates(q, S) /\ Len(q) = Cardinality(S)
             /\ \A T \in Nat : BeginsWith(q, {d \in S : 100 * b[d] >= T}, S)
<1> DEFINE rel == [d \in S |-> <<b[d], n>>]
           before(c, d) == \/ Exceeds(rel[c], rel[d])
                           \/ Equal(rel[c], rel[d]) /\ (IF FALSE THEN c < d ELSE c > d)
           R == {e \in S \X S : before(e[1], e[2])}
           q == Ranking(rel, FALSE)
<1>1. \A c, d \in S : before(c, d) <=> b[c] > b[d] \/ (b[c] = b[d] /\ c > d)
  <2>1. \A c, d \in S : b[c] \in Nat /\ b[d] \in Nat /\ rel[c] = <<b[c], n>> /\ rel[d] = <<b[d], n>>
    OBVIOUS
  <2> HIDE DEF rel
  <2>2. \A c, d \in S : /\ Exceeds(rel[c], rel[d]) <=> b[c] > b[d]
                        /\ Equal(rel[c], rel[d]) <=> b[c] = b[d]
    <3> SUFFICES ASSUME NEW c \in S, NEW d \in S
                 PROVE  /\ Exceeds(rel[c], rel[d]) <=> b[c] > b[d]
                        /\ Equal(rel[c], rel[d]) <=> b[c] = b[d]
      OBVIOUS
    <3>1. /\ Exceeds(rel[c], rel[d]) <=> b[c] * n > b[d] * n
          /\ Equal(rel[c], rel[d]) <=> b[c] * n = b[d] * n
      BY <2>1 DEF Exceeds, Equal
    <3>2. b[c] \in Nat /\ b[d] \in Nat
      BY <2>1
    <3> QED
      BY <3>1, <3>2, SameWhole
  <2> QED
    BY <2>2
<1>2. \A c, d \in S : <<c, d>> \in R <=> before(c, d)
  <2> HIDE DEF before
  <2> QED
    OBVIOUS
<1>3. StrictOrder(S, R)
  <2> HIDE DEF R, before
  <2>1. \A c \in S : c \in Nat /\ b[c] \in Nat
    OBVIOUS
  <2>2. \A x \in S : <<x, x>> \notin R
    BY <1>1, <1>2, <2>1
  <2>3. \A x, y \in S : x # y => <<x, y>> \in R \/ <<y, x>> \in R
    BY <1>1, <1>2, <2>1
  <2>4. \A x, y, z \in S : <<x, y>> \in R /\ <<y, z>> \in R => <<x, z>> \in R
    BY <1>1, <1>2, <2>1
  <2> QED
    BY <2>2, <2>3, <2>4 DEF StrictOrder
<1>4. \A x \in S : {y \in S : before(y, x)} = {y \in S : <<y, x>> \in R}
  <2> HIDE DEF R, before
  <2> QED
    BY <1>2
<1>5. q = [k \in 1 .. Cardinality(S) |->
             CHOOSE x \in S : Cardinality({y \in S : before(y, x)}) = k - 1]
  <2>1. DOMAIN rel = S
    OBVIOUS
  <2> HIDE DEF rel
  <2> QED
    BY <2>1 DEF Ranking, Sorted
<1>6. ASSUME NEW k \in 1 .. Cardinality(S)
      PROVE  q[k] \in S /\ PlaceOf(S, R, q[k]) = k - 1
  <2> HIDE DEF R, q, before
  <2>0. IsFiniteSet(S) /\ StrictOrder(S, R)
    BY <1>3
  <2>1. \E x \in S : PlaceOf(S, R, x) = k - 1
    BY <2>0, PlaceTaken
  <2>a. PICK x \in S : PlaceOf(S, R, x) = k - 1
    BY <2>1
  <2>2. Cardinality({y \in S : before(y, x)}) = k - 1
    BY <1>4, <2>a DEF PlaceOf
  <2>3. q[k] \in S /\ Cardinality({y \in S : before(y, q[k])}) = k - 1
    BY <1>5, <2>2
  <2> QED
    BY <1>4, <2>3 DEF PlaceOf
<1>7. q \in [1 .. Cardinality(S) -> S]
  <2>1. \A k \in 1 .. Cardinality(S) : q[k] \in S
    BY <1>6
  <2>2. q = [k \in 1 .. Cardinality(S) |-> q[k]]
    BY <1>5
  <2> HIDE DEF q
  <2> QED
    BY <2>1, <2>2
<1>8. \A k \in 1 .. Cardinality(S) : PlaceOf(S, R, q[k]) = k - 1
  BY <1>6
<1>9. \A c, d \in S : <<c, d>> \in R => b[c] >= b[d] /\ b[c] \in Nat /\ b[d] \in Nat
  <2> HIDE DEF R, before
  <2>1. \A c \in S : b[c] \in Nat
    OBVIOUS
  <2> QED
    BY <1>1, <1>2, <2>1
<1> HIDE DEF R, q
<1>10. Enumerates(q, S)
  BY <1>3, <1>7, <1>8, PlacedOnce
<1>11. Len(q) = Cardinality(S)
  <2>1. Cardinality(S) \in Nat
    BY FS_CardinalityType
  <2> QED
    BY <1>7, <2>1
<1>12. ASSUME NEW T \in Nat
       PROVE  BeginsWith(q, {d \in S : 100 * b[d] >= T}, S)
  <2> DEFINE K == {d \in S : 100 * b[d] >= T}
  <2>1. K \in SUBSET S /\ \A x \in K, y \in S : <<y, x>> \in R => y \in K
    BY <1>9
  <2> HIDE DEF K
  <2>2. BeginsWith(q, K, S)
    BY <1>3, <1>7, <1>8, <2>1, FirstPlaces
  <2> QED
    BY <2>2 DEF K
<1> QED
  BY <1>10, <1>11, <1>12 DEF q

\* What SumOver adds up, feature by feature.
GainsOver(g, S, p, q, d) ==
  [s \in SUBSET S |->
     IF s = {} THEN 0
     ELSE g[s \ {CHOOSE x \in s : TRUE}] + Gain(p, q, CHOOSE x \in s : TRUE, d)]

GainSum(S, p, q, d) == SumOver(S, LAMBDA f : Gain(p, q, f, d))

\* FoldSet adds up the gains of a document to their total.
LEMMA GainsAddUp ==
  ASSUME NEW p, NEW q, NEW d, NEW G \in [Features -> Nat], NEW S \in SUBSET Features,
         \A f \in S : Gain(p, q, f, d) = G[f]
  PROVE  GainSum(S, p, q, d) = Total(Features, S, G)
<1> DEFINE IsSum(g) == g = GainsOver(g, S, p, q, d)
           t == [s \in SUBSET S |-> Total(Features, s, G)]
<1>1. GainSum(S, p, q, d) = (CHOOSE g : IsSum(g))[S]
  BY DEF GainSum, SumOver, FoldSet, MapThenFoldSet, GainsOver
<1>2. IsFiniteSet(Features)
  BY QueryProcessingAssumption
<1>3. IsSum(t)
  <2>1. ASSUME NEW s \in SUBSET S, s # {}
        PROVE  t[s] = t[s \ {CHOOSE x \in s : TRUE}] + Gain(p, q, CHOOSE x \in s : TRUE, d)
    <3>1. PICK x \in s : x = CHOOSE y \in s : TRUE
      BY <2>1
    <3>2. s \in SUBSET Features /\ s \ {x} \in SUBSET S /\ x \in S
      OBVIOUS
    <3>3. Total(Features, s, G) = Total(Features, s \ {x}, G) + G[x]
      BY <1>2, <3>2, TotalFacts
    <3>4. t[s] = t[s \ {x}] + Gain(p, q, x, d)
      BY <3>2, <3>3
    <3> QED
      BY <3>1, <3>4
  <2>2. t[{}] = 0
    BY <1>2, TotalFacts
  <2>3. t = [s \in SUBSET S |-> t[s]]
    OBVIOUS
  <2> HIDE DEF t
  <2> QED
    BY <2>1, <2>2, <2>3 DEF GainsOver
<1>4. PICK g : g = CHOOSE h : IsSum(h)
  OBVIOUS
<1>5. IsSum(g)
  <2> HIDE DEF IsSum, t
  <2> QED
    BY <1>3, <1>4
<1>6. g[S] = Total(Features, S, G)
  <2>1. g[{}] = 0
    BY <1>5 DEF GainsOver
  <2>2. ASSUME NEW s \in SUBSET S, s # {}
        PROVE  \E x \in s : g[s \ {x}] \in Nat => g[s] = g[s \ {x}] + G[x]
    <3>1. PICK x \in s : x = CHOOSE y \in s : TRUE
      BY <2>2
    <3>2. g[s] = g[s \ {x}] + Gain(p, q, x, d)
      BY <1>5, <2>2, <3>1 DEF GainsOver
    <3> QED
      BY <3>2
  <2>3. AddsUp(g, S, G)
    BY <2>1, <2>2 DEF AddsUp
  <2> QED
    BY <1>2, <2>3, TotalIsUnique
<1> QED
  BY <1>1, <1>4, <1>6

\* How often feature f is counted in the images of a query that are in F.
CountIn(F, images, f) ==
  FoldLeft(LAMBDA n, i : IF i \in F THEN n + Frequency(i, f) ELSE n, 0, images)

Counts(F, images, f) ==
  [j \in 1 .. Len(images) |-> IF images[j] \in F THEN Frequency(images[j], f) ELSE 0]

CountsOver(g, F, images, f) ==
  [s \in SUBSET DOMAIN images |->
     IF s = {} THEN 0
     ELSE IF images[Max(s)] \in F THEN g[s \ {Max(s)}] + Frequency(images[Max(s)], f)
                                 ELSE g[s \ {Max(s)}]]

\* G begins with the counts of the images.
Begins(G, F, images, f) ==
  \A j \in 1 .. Len(images) : G[j] = Counts(F, images, f)[j]

\* Frequencies are numbers.
LEMMA FrequencyIsNat ==
  ASSUME NEW i \in Images, NEW f \in Features
  PROVE  Frequency(i, f) \in Nat
BY QueryProcessingAssumption DEF Frequency

\* FoldLeft adds up the counts of the images to their total.
LEMMA CountsAddUp ==
  ASSUME NEW F, NEW images \in Seq(Images), NEW f \in Features,
         NEW U, IsFiniteSet(U), 1 .. Len(images) \subseteq U, NEW G \in [U -> Nat],
         Begins(G, F, images, f)
  PROVE  CountIn(F, images, f) = Total(U, 1 .. Len(images), G)
<1> DEFINE IsSum(g) == g = CountsOver(g, F, images, f)
           S == 1 .. Len(images)
           t == [s \in SUBSET S |-> Total(U, s, G)]
<1>1. CountIn(F, images, f) = (CHOOSE g : IsSum(g))[S]
  <2>1. DOMAIN images = S
    OBVIOUS
  <2>2. CountIn(F, images, f) = (CHOOSE g : IsSum(g))[DOMAIN images]
    BY DEF CountIn, FoldLeft, MapThenFoldSet, CountsOver
  <2> QED
    BY <2>1, <2>2
<1>2. S \in SUBSET U /\ DOMAIN images = S
  OBVIOUS
<1>3. \A s \in SUBSET S : s # {} => Max(s) \in s
  <2>1. \A s \in SUBSET S : s # {} => s \subseteq Nat /\ \A k \in s : k <= Len(images)
    OBVIOUS
  <2> HIDE DEF S
  <2> QED
    BY <2>1, Largest, Len(images) \in Nat
<1>4. \A j \in S : G[j] = IF images[j] \in F THEN Frequency(images[j], f) ELSE 0
  BY DEF Counts, Begins
<1>a. /\ \A s \in SUBSET U : Total(U, s, G) \in Nat
      /\ \A s \in SUBSET U : \A x \in s : Total(U, s, G) = Total(U, s \ {x}, G) + G[x]
  <2> HIDE DEF IsSum, S, t
  <2> QED
    BY TotalFacts
<1>5. \A s \in SUBSET S : \A x \in s :
        t[s] \in Nat /\ t[s \ {x}] \in Nat /\ t[s] = t[s \ {x}] + G[x]
  <2>1. \A s \in SUBSET S : s \in SUBSET U /\ \A x \in s : s \ {x} \in SUBSET S
    BY <1>2
  <2>2. \A s \in SUBSET S : \A x \in s : t[s] = Total(U, s, G)
                                       /\ t[s \ {x}] = Total(U, s \ {x}, G)
    BY <2>1
  <2> SUFFICES ASSUME NEW s \in SUBSET S, NEW x \in s
               PROVE  t[s] \in Nat /\ t[s \ {x}] \in Nat /\ t[s] = t[s \ {x}] + G[x]
    OBVIOUS
  <2>3. s \in SUBSET U
    BY <2>1
  <2>4. /\ Total(U, s, G) \in Nat /\ Total(U, s \ {x}, G) \in Nat
        /\ Total(U, s, G) = Total(U, s \ {x}, G) + G[x]
    <3>1. s \ {x} \in SUBSET U
      BY <2>3
    <3> HIDE DEF S, t, IsSum
    <3> QED
      BY <1>a, <2>3, <3>1
  <2> HIDE DEF S, t
  <2> QED
    BY <2>2, <2>4
<1>6. IsSum(t)
  <2>1. ASSUME NEW s \in SUBSET S, s # {}
        PROVE  t[s] = IF images[Max(s)] \in F
                      THEN t[s \ {Max(s)}] + Frequency(images[Max(s)], f)
                      ELSE t[s \ {Max(s)}]
    <3>1. PICK x \in s : x = Max(s)
      BY <1>3, <2>1
    <3>2. t[s] = t[s \ {x}] + G[x] /\ t[s \ {x}] \in Nat
      BY <1>5
    <3>3. G[x] = IF images[x] \in F THEN Frequency(images[x], f) ELSE 0
      BY <1>4
    <3> HIDE DEF t
    <3> QED
      BY <3>1, <3>2, <3>3
  <2>2. t[{}] = 0
    BY <1>2, TotalFacts
  <2>3. t = [s \in SUBSET DOMAIN images |-> t[s]]
    BY <1>2
  <2> HIDE DEF t
  <2> QED
    BY <1>2, <2>1, <2>2, <2>3 DEF CountsOver
<1>7. PICK g : g = CHOOSE h : IsSum(h)
  OBVIOUS
<1>8. IsSum(g)
  <2> HIDE DEF IsSum, t
  <2> QED
    BY <1>6, <1>7
<1>9. g[S] = Total(U, S, G)
  <2>1. g[{}] = 0
    BY <1>8 DEF CountsOver
  <2>2. ASSUME NEW s \in SUBSET S, s # {}
        PROVE  \E x \in s : g[s \ {x}] \in Nat => g[s] = g[s \ {x}] + G[x]
    <3>1. PICK x \in s : x = Max(s)
      BY <1>3, <2>2
    <3>2. g[s] = IF images[x] \in F THEN g[s \ {x}] + Frequency(images[x], f) ELSE g[s \ {x}]
      BY <1>2, <1>8, <2>2, <3>1 DEF CountsOver
    <3>3. G[x] = IF images[x] \in F THEN Frequency(images[x], f) ELSE 0
      BY <1>4
    <3>4. g[s \ {x}] \in Nat => g[s] = g[s \ {x}] + G[x]
      BY <3>2, <3>3
    <3> QED
      BY <3>4
  <2>3. AddsUp(g, S, G)
    <3> HIDE DEF S
    <3> QED
      BY <2>1, <2>2 DEF AddsUp
  <2> HIDE DEF S
  <2> QED
    BY <1>2, <2>3, TotalIsUnique
<1> QED
  BY <1>1, <1>7, <1>9

\* One image more.
LEMMA CountsGrow ==
  ASSUME NEW F, NEW images \in Seq(Images), NEW i \in Images, NEW f \in Features
  PROVE  /\ CountIn(F, images, f) \in Nat
         /\ CountIn(F, Append(images, i), f)
              = CountIn(F, images, f) + (IF i \in F THEN Frequency(i, f) ELSE 0)
<1> DEFINE more == Append(images, i)
           n == Len(images) + 1
           U == 1 .. n
           V == 1 .. Len(images)
           G == Counts(F, more, f)
<1>1. /\ more \in Seq(Images) /\ Len(more) = n /\ n \in Nat /\ more[n] = i
      /\ \A j \in V : more[j] = images[j]
      /\ \A j \in U : more[j] \in Images
  OBVIOUS
<1>2. n \in U /\ V = U \ {n} /\ V \subseteq U
  <2>1. Len(images) \in Nat
    OBVIOUS
  <2> QED
    BY <2>1
<1>3. IsFiniteSet(U)
  <2>1. n \in Nat
    BY <1>1
  <2> HIDE DEF n
  <2> QED
    BY <2>1, FS_Interval
<1> HIDE DEF more
<1>4. G \in [U -> Nat]
  BY <1>1, FrequencyIsNat DEF Counts
<1>5. Begins(G, F, images, f) /\ Begins(G, F, more, f)
  BY <1>1, <1>2 DEF Counts, Begins
<1>6. G[n] = IF i \in F THEN Frequency(i, f) ELSE 0
  <2>1. n \in 1 .. Len(more)
    BY <1>1, <1>2
  <2> QED
    BY <1>1, <2>1 DEF Counts
<1>7. 1 .. Len(more) = U
  BY <1>1
<1> HIDE DEF n, U, G
<1>8. CountIn(F, more, f) = Total(U, U, G)
  <2>1. 1 .. Len(more) \subseteq U
    BY <1>7
  <2>2. CountIn(F, more, f) = Total(U, 1 .. Len(more), G)
    BY <1>1, <1>3, <1>4, <1>5, <2>1, CountsAddUp
  <2> QED
    BY <1>7, <2>2
<1>9. CountIn(F, images, f) = Total(U, V, G)
  <2>1. 1 .. Len(images) \subseteq U
    BY <1>2
  <2>2. CountIn(F, images, f) = Total(U, 1 .. Len(images), G)
    BY <1>3, <1>4, <1>5, <2>1, CountsAddUp
  <2> QED
    BY <2>2
<1> HIDE DEF V
<1>10. Total(U, U, G) = Total(U, V, G) + G[n] /\ Total(U, V, G) \in Nat
  <2>1. U \in SUBSET U
    OBVIOUS
  <2> QED
    BY <1>2, <1>3, <1>4, <2>1, OneMore
<1> QED
  BY <1>6, <1>8, <1>9, <1>10 DEF more

\* No image has no terms.
LEMMA NothingCounted ==
  ASSUME NEW F, NEW images \in Seq(Images), NEW f \in Features
  PROVE  images = <<>> => CountIn(F, images, f) = 0
<1> DEFINE G == Counts(F, images, f)
           U == 1 .. Len(images)
<1>1. G \in [U -> Nat]
  <2>1. \A j \in U : images[j] \in Images
    OBVIOUS
  <2> QED
    BY <2>1, FrequencyIsNat DEF Counts
<1>2. Begins(G, F, images, f)
  BY DEF Counts, Begins
<1>3. IsFiniteSet(U) /\ 1 .. Len(images) \subseteq U
  <2>1. Len(images) \in Nat
    OBVIOUS
  <2> QED
    BY <2>1, FS_Interval
<1>4. images = <<>> => 1 .. Len(images) = {}
  OBVIOUS
<1> HIDE DEF G, U
<1>5. CountIn(F, images, f) = Total(U, 1 .. Len(images), G)
  BY <1>1, <1>2, <1>3, CountsAddUp
<1>6. Total(U, {}, G) = 0
  BY <1>1, <1>3, TotalFacts
<1> QED
  BY <1>4, <1>5, <1>6

\* Only what is known of the images counts.
LEMMA CountsAgree ==
  ASSUME NEW F, NEW E, NEW images \in Seq(Images), NEW f \in Features,
         \A j \in 1 .. Len(images) : images[j] \in F <=> images[j] \in E
  PROVE  CountIn(F, images, f) = CountIn(E, images, f)
<1> DEFINE G == Counts(F, images, f)
           U == 1 .. Len(images)
<1>1. G \in [U -> Nat]
  <2>1. \A j \in U : images[j] \in Images
    OBVIOUS
  <2> QED
    BY <2>1, FrequencyIsNat DEF Counts
<1>2. Begins(G, E, images, f) /\ Begins(G, F, images, f)
  BY DEF Counts, Begins
<1>3. IsFiniteSet(U) /\ 1 .. Len(images) \subseteq U
  <2>1. Len(images) \in Nat
    OBVIOUS
  <2> QED
    BY <2>1, FS_Interval
<1>4. U = 1 .. Len(images)
  OBVIOUS
<1> HIDE DEF G, U
<1>5. CountIn(F, images, f) = Total(U, 1 .. Len(images), G)
  BY <1>1, <1>2, <1>3, CountsAddUp
<1>6. CountIn(E, images, f) = Total(U, 1 .. Len(images), G)
  BY <1>1, <1>2, <1>3, CountsAddUp
<1> QED
  BY <1>5, <1>6
-----------------------------------------------------------------------------
(* What a processor has computed *)

\* The images of the query that processor p has read have been counted, and are
\* known to the accessor if it adds images.
ReadSoFar(p, e, F, known, seen) ==
  /\ seen \in Seq(Images) /\ e.left \in Seq(Images)
  /\ e.query.images = seen \o e.left
  /\ e.tf \in [Features -> Nat]
  /\ \A f \in Features : e.tf[f] = IF f \in Considered[p] THEN CountIn(F, seen, f) ELSE 0
  /\ Adds => Range(seen) \subseteq Range(known)

TermsFit(p, e, F, known) == \E seen : ReadSoFar(p, e, F, known, seen)

\* The queue has each feature of the query once.
QueueFit(e) ==
  /\ e.queue \in Seq(Features)
  /\ \A j, k \in 1 .. Len(e.queue) : e.queue[j] = e.queue[k] => j = k
  /\ \A f \in Features : e.tf[f] > 0 <=> \E k \in 1 .. Len(e.queue) : e.queue[k] = f
  /\ e.count \in 0 .. Len(e.queue)
  /\ e.at = "read" => e.count # 0 /\ e.queue[e.count] \in Indexed

\* What feature f gives document d by the terms e has counted.
GainOf(e, f, d) ==
  LET w == Frequency(Collection[d], f) IN
  IF w > 0 /\ e.tf[f] > 0 THEN Apply(f, e.tf[f], Len(e.query.images), w) ELSE 0

GainsOf(e, d) == [f \in Features |-> GainOf(e, f, d)]

Evaluated(e) == {e.queue[j] : j \in 1 .. (IF e.at = "read" THEN e.count - 1 ELSE e.count)}

ScoredBy(S) == {d \in DOMAIN Collection : \E f \in S : d \in ListOf[f]}

BoardHas(board, ignore, S) ==
  IF ignore THEN DOMAIN board \subseteq ScoredBy(S) ELSE DOMAIN board = ScoredBy(S)

BoardFit(e) ==
  /\ BoardHas(e.board, e.ignore, Evaluated(e))
  /\ e.board \in [DOMAIN e.board -> Nat]
  /\ \A d \in DOMAIN e.board : e.board[d] = Total(Features, Evaluated(e), GainsOf(e, d))

Reading == {"images", "extract"}
Scoring == {"features", "read"}

Fresh(e) == e.board = <<>> /\ e.count = 0 /\ ~e.ignore

EvalFit(p, e, F, known) ==
  /\ e.at \in Reading \cup Scoring => TermsFit(p, e, F, known) /\ e.limit \in Nat
  /\ e.at \in Reading => Fresh(e)
  /\ e.at = "extract" => Adds
  /\ e.at \in Scoring => e.left = <<>> /\ QueueFit(e) /\ BoardFit(e)

StreamFit(p) == eval[p].at = "read" => stream = eval[p].queue[eval[p].count]

ExactInv ==
  /\ files \subseteq Range(catalogue)
  /\ \A c \in Connections : query[c].size \in Nat
  /\ \A p \in Threads : EvalFit(p, eval[p], files, catalogue)
  /\ \A p \in Threads : StreamFit(p)
-----------------------------------------------------------------------------
(* Reading the images of a query *)

\* The first of the images that are left becomes the last of those that are read.
LEMMA OneImageRead ==
  ASSUME NEW seen \in Seq(Images), NEW left \in Seq(Images), left # <<>>
  PROVE  /\ Append(seen, Head(left)) \in Seq(Images)
         /\ Tail(left) \in Seq(Images) /\ Head(left) \in Images
         /\ Append(seen, Head(left)) \o Tail(left) = seen \o left
         /\ Range(Append(seen, Head(left))) = Range(seen) \cup {Head(left)}
<1> DEFINE i == Head(left)
           more == Append(seen, i)
           rest == Tail(left)
<1>1. more \in Seq(Images) /\ rest \in Seq(Images) /\ i \in Images
  OBVIOUS
<1>2. Len(more) = Len(seen) + 1 /\ Len(rest) = Len(left) - 1 /\ Len(left) \in Nat /\ Len(seen) \in Nat
  OBVIOUS
<1>3. /\ \A j \in 1 .. Len(seen) : more[j] = seen[j]
      /\ more[Len(seen) + 1] = i
      /\ \A j \in 1 .. Len(rest) : rest[j] = left[j + 1]
      /\ left[1] = i
  OBVIOUS
<1>4. more \o rest = seen \o left
  <2> DEFINE a == more \o rest
             b == seen \o left
             n == Len(seen) + Len(left)
  <2>1. a \in Seq(Images) /\ b \in Seq(Images) /\ Len(a) = n /\ Len(b) = n
    BY <1>1, <1>2
  <2>2. ASSUME NEW j \in 1 .. n PROVE a[j] = b[j]
    <3>1. CASE j <= Len(seen)
      BY <1>1, <1>2, <1>3, <3>1
    <3>2. CASE j = Len(seen) + 1
      BY <1>1, <1>2, <1>3, <3>2
    <3>3. CASE j > Len(seen) + 1
      <4>1. a[j] = rest[j - Len(seen) - 1] /\ b[j] = left[j - Len(seen)]
        BY <1>1, <1>2, <3>3
      <4> QED
        BY <1>2, <1>3, <3>3, <4>1
    <3> QED
      BY <1>2, <3>1, <3>2, <3>3
  <2> HIDE DEF a, b, n
  <2> QED
    BY <2>1, <2>2
<1>5. Range(more) = Range(seen) \cup {i}
  <2>1. \A j \in 1 .. Len(more) : j \in 1 .. Len(seen) \/ j = Len(seen) + 1
    BY <1>2
  <2>2. DOMAIN more = 1 .. Len(more) /\ DOMAIN seen = 1 .. Len(seen)
    BY <1>1
  <2>3. 1 .. Len(seen) \subseteq 1 .. Len(more) /\ Len(seen) + 1 \in 1 .. Len(more)
    BY <1>2
  <2> HIDE DEF more
  <2> QED
    BY <1>3, <2>1, <2>2, <2>3 DEF Range
<1> QED
  BY <1>1, <1>4, <1>5

\* The terms of one image more.
LEMMA TermsGrow ==
  ASSUME NEW p, NEW F, NEW known, NEW e, NEW seen, ReadSoFar(p, e, F, known, seen), e.left # <<>>,
         NEW E, NEW more, NEW new,
         \* the accessor after the step
         Adds => Range(known) \cup {Head(e.left)} \subseteq Range(more),
         \A i \in Range(seen) : i \in F <=> i \in E,
         new.left = Tail(e.left), new.query = e.query,
         new.tf = IF Head(e.left) \in E THEN WithImage(p, e.tf, Head(e.left)) ELSE e.tf
  PROVE  ReadSoFar(p, new, E, more, Append(seen, Head(e.left)))
<1> DEFINE i == Head(e.left)
           s == Append(seen, i)
<1>1. /\ s \in Seq(Images) /\ new.left \in Seq(Images) /\ i \in Images
      /\ s \o new.left = e.query.images /\ Range(s) = Range(seen) \cup {i}
      /\ seen \in Seq(Images)
  BY OneImageRead DEF ReadSoFar
<1>2. Adds => Range(s) \subseteq Range(more)
  BY <1>1 DEF ReadSoFar
<1>3. ASSUME NEW f \in Features
      PROVE  /\ CountIn(E, s, f) = CountIn(F, seen, f) + (IF i \in E THEN Frequency(i, f) ELSE 0)
             /\ CountIn(F, seen, f) \in Nat /\ Frequency(i, f) \in Nat
  <2>1. \A j \in 1 .. Len(seen) : seen[j] \in F <=> seen[j] \in E
    BY <1>1 DEF Range
  <2>2. CountIn(E, seen, f) = CountIn(F, seen, f)
    BY <1>1, <2>1, CountsAgree
  <2> HIDE DEF s
  <2>3. CountIn(E, s, f) = CountIn(E, seen, f) + (IF i \in E THEN Frequency(i, f) ELSE 0)
    BY <1>1, CountsGrow DEF s
  <2> QED
    BY <1>1, <2>2, <2>3, CountsGrow, FrequencyIsNat
<1>4. e.tf \in [Features -> Nat]
      /\ \A f \in Features : e.tf[f] = IF f \in Considered[p] THEN CountIn(F, seen, f) ELSE 0
  BY DEF ReadSoFar
<1> HIDE DEF s
<1>5. ASSUME NEW f \in Features
      PROVE  new.tf[f] = (IF f \in Considered[p] THEN CountIn(E, s, f) ELSE 0) /\ new.tf[f] \in Nat
  <2>1. CASE i \in E
    <3>1. new.tf[f] = IF f \in Considered[p] THEN e.tf[f] + Frequency(i, f) ELSE e.tf[f]
      BY <2>1 DEF WithImage
    <3> QED
      BY <1>3, <1>4, <2>1, <3>1
  <2>2. CASE i \notin E
    BY <1>3, <1>4, <2>2
  <2> QED
    BY <2>1, <2>2
<1>6. new.tf \in [Features -> Nat]
  <2>1. new.tf = [f \in Features |-> new.tf[f]]
    BY <1>4 DEF WithImage
  <2> QED
    BY <1>5, <2>1
<1> QED
  BY <1>1, <1>2, <1>5, <1>6 DEF ReadSoFar, s
-----------------------------------------------------------------------------
(* Scoring documents *)

\* Gains are numbers.
LEMMA ApplyIsNat ==
  ASSUME NEW f \in Features, NEW tf \in Nat, NEW n \in Nat, NEW w \in Nat
  PROVE  Apply(f, tf, n, w) \in Nat
<1>1. n * w \in Nat
  OBVIOUS
<1>2. Lesser(n * w, tf) \in Nat
  BY <1>1 DEF Lesser
<1> QED
  BY <1>2, FactorIsNat DEF Apply

\* A document gains by a feature it has in common with the query.
LEMMA GainFacts ==
  ASSUME NEW e, e.tf \in [Features -> Nat], e.query.images \in Seq(Images),
         NEW d \in DOMAIN Collection
  PROVE  /\ GainsOf(e, d) \in [Features -> Nat]
         /\ \A f \in Features : d \notin ListOf[f] => GainsOf(e, d)[f] = 0
         /\ \A f \in Features :
              d \in ListOf[f] /\ e.tf[f] > 0 =>
                GainsOf(e, d)[f] = Apply(f, e.tf[f], Len(e.query.images), Frequency(Collection[d], f))
<1>1. Collection[d] \in Images
  BY QueryProcessingAssumption
<1>2. ASSUME NEW f \in Features
      PROVE  GainOf(e, f, d) \in Nat /\ (d \in ListOf[f] <=> Frequency(Collection[d], f) > 0)
  <2>1. Frequency(Collection[d], f) \in Nat /\ e.tf[f] \in Nat
    BY <1>1, FrequencyIsNat
  <2>2. Len(e.query.images) \in Nat
    OBVIOUS
  <2>3. Apply(f, e.tf[f], Len(e.query.images), Frequency(Collection[d], f)) \in Nat
    BY <2>1, <2>2, ApplyIsNat
  <2>4. d \in ListOf[f] <=> Frequency(Collection[d], f) > 0
    BY DEF ListOf
  <2> QED
    BY <2>3, <2>4 DEF GainOf
<1>3. \A f \in Features : GainsOf(e, d)[f] = GainOf(e, f, d)
  BY DEF GainsOf
<1>4. GainsOf(e, d) \in [Features -> Nat]
  BY <1>2 DEF GainsOf
<1> QED
  BY <1>2, <1>3, <1>4 DEF GainOf

\* The features before the one whose turn it is.
LEMMA EvaluatedFacts ==
  ASSUME NEW e, QueueFit(e), NEW new, new.queue = e.queue, new.count \in 0 .. Len(e.queue)
  PROVE  /\ Evaluated(e) \subseteq Features
         /\ \A f \in Evaluated(e) : e.tf[f] > 0
         /\ new.count = e.count + 1 /\ e.at # "read" =>
              /\ new.queue[new.count] \in Features \ Evaluated(e)
              /\ e.tf[new.queue[new.count]] > 0
              /\ Evaluated(new) = IF new.at = "read" THEN Evaluated(e)
                                  ELSE Evaluated(e) \cup {new.queue[new.count]}
         /\ new.count = e.count /\ e.at = "read" /\ new.at # "read" =>
              /\ new.queue[new.count] \in Features \ Evaluated(e)
              /\ e.tf[new.queue[new.count]] > 0
              /\ Evaluated(new) = Evaluated(e) \cup {new.queue[new.count]}
<1>1. /\ e.queue \in Seq(Features) /\ e.count \in 0 .. Len(e.queue) /\ Len(e.queue) \in Nat
      /\ \A j, k \in 1 .. Len(e.queue) : e.queue[j] = e.queue[k] => j = k
      /\ \A k \in 1 .. Len(e.queue) : e.queue[k] \in Features /\ e.tf[e.queue[k]] > 0
      /\ e.at = "read" => e.count # 0
  <2>1. e.queue \in Seq(Features)
    BY DEF QueueFit
  <2>2. \A k \in 1 .. Len(e.queue) : e.queue[k] \in Features
    BY <2>1
  <2> QED
    BY <2>1, <2>2 DEF QueueFit
<1> DEFINE n == IF e.at = "read" THEN e.count - 1 ELSE e.count
<1>2. n \in 0 .. Len(e.queue) /\ \A k \in 1 .. n : k \in 1 .. Len(e.queue)
  BY <1>1
<1>3. Evaluated(e) = {e.queue[j] : j \in 1 .. n}
  BY DEF Evaluated
<1> HIDE DEF n
<1>4. Evaluated(e) \subseteq Features /\ \A f \in Evaluated(e) : e.tf[f] > 0
  BY <1>1, <1>2, <1>3
<1>5. ASSUME n + 1 \in 1 .. Len(e.queue)
      PROVE  /\ e.queue[n + 1] \in Features \ Evaluated(e) /\ e.tf[e.queue[n + 1]] > 0
             /\ {e.queue[j] : j \in 1 .. n + 1} = Evaluated(e) \cup {e.queue[n + 1]}
  <2>1. \A j \in 1 .. n : j # n + 1
    BY <1>2
  <2>2. e.queue[n + 1] \notin Evaluated(e)
    <3>1. \A j \in 1 .. n : e.queue[j] # e.queue[n + 1]
      BY <1>1, <1>2, <1>5, <2>1
    <3> QED
      BY <1>3, <3>1
  <2>3. 1 .. n + 1 = (1 .. n) \cup {n + 1}
    BY <1>2
  <2> QED
    BY <1>1, <1>3, <1>5, <2>2, <2>3
<1>6. ASSUME new.count = e.count + 1, e.at # "read"
      PROVE  /\ new.queue[new.count] \in Features \ Evaluated(e)
             /\ e.tf[new.queue[new.count]] > 0
             /\ Evaluated(new) = IF new.at = "read" THEN Evaluated(e)
                                 ELSE Evaluated(e) \cup {new.queue[new.count]}
  <2>1. n = e.count /\ n + 1 \in 1 .. Len(e.queue) /\ new.count = n + 1 /\ n + 1 - 1 = n
    BY <1>1, <1>6 DEF n
  <2>4. /\ new.queue[new.count] = e.queue[n + 1]
        /\ e.queue[n + 1] \in Features \ Evaluated(e) /\ e.tf[e.queue[n + 1]] > 0
    BY <1>5, <2>1
  <2>2. CASE new.at = "read"
    <3>0. Evaluated(new) = {new.queue[j] : j \in 1 .. (new.count - 1)} /\ new.count - 1 = n
      <4>1. n \in Int
        BY <1>2
      <4>2. new.count - 1 = n
        BY <2>1, <4>1
      <4>3. Evaluated(new) = {new.queue[j] : j \in 1 .. (new.count - 1)}
        BY <2>2 DEF Evaluated
      <4> QED
        BY <4>2, <4>3
    <3>1. Evaluated(new) = {e.queue[j] : j \in 1 .. n}
      BY <3>0
    <3>2. Evaluated(new) = Evaluated(e)
      BY <1>3, <3>1
    <3> QED
      BY <2>2, <2>4, <3>2
  <2>3. CASE new.at # "read"
    <3>1. Evaluated(new) = {e.queue[j] : j \in 1 .. n + 1}
      BY <2>1, <2>3 DEF Evaluated
    <3>2. Evaluated(new) = Evaluated(e) \cup {e.queue[n + 1]}
      BY <1>5, <2>1, <3>1
    <3> QED
      BY <2>3, <2>4, <3>2
  <2> QED
    BY <2>2, <2>3
<1>7. ASSUME new.count = e.count, e.at = "read", new.at # "read"
      PROVE  /\ new.queue[new.count] \in Features \ Evaluated(e)
             /\ e.tf[new.queue[new.count]] > 0
             /\ Evaluated(new) = Evaluated(e) \cup {new.queue[new.count]}
  <2>1. n + 1 = e.count /\ n + 1 \in 1 .. Len(e.queue) /\ new.count = n + 1
    BY <1>1, <1>7 DEF n
  <2>2. Evaluated(new) = {e.queue[j] : j \in 1 .. n + 1}
    BY <1>7, <2>1 DEF Evaluated
  <2> QED
    BY <1>5, <2>1, <2>2
<1> QED
  BY <1>4, <1>6, <1>7

\* Two evaluations that have counted the same terms of the same query.
SameTerms(new, e) == new.tf = e.tf /\ new.query = e.query

\* They find the same gains.
LEMMA SameGains ==
  ASSUME NEW e, NEW new, SameTerms(new, e), NEW d
  PROVE  GainsOf(new, d) = GainsOf(e, d)
BY DEF SameTerms, GainsOf, GainOf

\* A score board that nobody writes to stays right.
LEMMA BoardKept ==
  ASSUME NEW e, NEW new, BoardFit(e), SameTerms(new, e), new.board = e.board,
         new.ignore = e.ignore, Evaluated(new) = Evaluated(e)
  PROVE  BoardFit(new)
<1>1. \A d : GainsOf(new, d) = GainsOf(e, d)
  BY SameGains
<1> QED
  BY <1>1 DEF BoardFit

\* What documents the list of a feature has.
LEMMA ListFacts ==
  ASSUME NEW f \in Features
  PROVE  /\ ListOf[f] \subseteq DOMAIN Collection
         /\ \A S : ScoredBy(S \cup {f}) = ScoredBy(S) \cup ListOf[f]
         /\ f \notin Indexed => ListOf[f] = {}
         /\ \A d \in ListOf[f] : Frequency(Collection[d], f) \in Nat
<1>1. ListOf[f] \subseteq DOMAIN Collection
  BY DEF ListOf
<1>2. ASSUME NEW S PROVE ScoredBy(S \cup {f}) = ScoredBy(S) \cup ListOf[f]
  BY <1>1 DEF ScoredBy
<1>3. \A d \in DOMAIN Collection : Collection[d] \in Images
  BY QueryProcessingAssumption
<1> QED
  BY <1>1, <1>2, <1>3, FrequencyIsNat DEF Indexed

\* A list is scored: the documents in it have one gain more.
LEMMA ListScored ==
  ASSUME NEW e, e.tf \in [Features -> Nat], e.query.images \in Seq(Images),
         BoardFit(e), Evaluated(e) \subseteq Features,
         NEW f \in Features, f \notin Evaluated(e), e.tf[f] > 0,
         NEW new, SameTerms(new, e), new.ignore = e.ignore,
         Evaluated(new) = Evaluated(e) \cup {f}, new.board = Scored(e, f)
  PROVE  BoardFit(new)
<1> DEFINE S == Evaluated(e)
           L == ListOf[f]
           D == DOMAIN e.board
           gain(d) == IF d \in L THEN Apply(f, e.tf[f], Len(e.query.images),
                                            Frequency(Collection[d], f)) ELSE 0
<1>1. L \subseteq DOMAIN Collection /\ ScoredBy(S \cup {f}) = ScoredBy(S) \cup L
  BY ListFacts
<1>2. /\ DOMAIN new.board = D \cup (IF e.ignore THEN {} ELSE L)
      /\ \A d \in DOMAIN new.board :
           new.board[d] = (IF d \in D THEN e.board[d] ELSE 0) + gain(d)
      /\ new.board = [d \in DOMAIN new.board |-> new.board[d]]
  BY DEF Scored
<1>3. BoardHas(e.board, e.ignore, S) /\ e.board \in [D -> Nat]
      /\ \A d \in D : e.board[d] = Total(Features, S, GainsOf(e, d))
  BY DEF BoardFit
<1>4. BoardHas(new.board, new.ignore, Evaluated(new))
  <2> HIDE DEF L, D, S
  <2>1. CASE e.ignore
    BY <1>1, <1>2, <1>3, <2>1 DEF BoardHas, D, S
  <2>2. CASE ~e.ignore
    BY <1>1, <1>2, <1>3, <2>2 DEF BoardHas, D, S
  <2> QED
    BY <2>1, <2>2
<1>5. D \subseteq DOMAIN Collection
  BY <1>3 DEF BoardHas, ScoredBy
<1>6. IsFiniteSet(Features)
  BY QueryProcessingAssumption
<1>7. ASSUME NEW d \in DOMAIN new.board
      PROVE  new.board[d] = Total(Features, S \cup {f}, GainsOf(e, d)) /\ new.board[d] \in Nat
  <2>1. d \in DOMAIN Collection
    BY <1>1, <1>2, <1>5
  <2>2. /\ GainsOf(e, d) \in [Features -> Nat]
        /\ \A g \in Features : d \notin ListOf[g] => GainsOf(e, d)[g] = 0
    BY <2>1, GainFacts
  <2>3. GainsOf(e, d)[f] = gain(d) /\ gain(d) \in Nat
    <3>1. d \in L => GainsOf(e, d)[f] = gain(d)
      BY <2>1, GainFacts
    <3>2. GainsOf(e, d)[f] \in Nat
      BY <2>2
    <3>3. d \notin L => GainsOf(e, d)[f] = 0 /\ gain(d) = 0
      BY <2>2
    <3> QED
      BY <3>1, <3>2, <3>3
  <2> HIDE DEF gain, L, D, S
  <2>4. /\ Total(Features, S \cup {f}, GainsOf(e, d)) = Total(Features, S, GainsOf(e, d)) + GainsOf(e, d)[f]
        /\ Total(Features, S, GainsOf(e, d)) \in Nat
    <3>1. PICK G : G = GainsOf(e, d)
      OBVIOUS
    <3>2. G \in [Features -> Nat] /\ S \in SUBSET Features /\ f \notin S
      BY <2>2, <3>1 DEF S
    <3>3. Total(Features, S \cup {f}, G) = Total(Features, S, G) + G[f] /\ Total(Features, S, G) \in Nat
      BY <1>6, <3>2, OneGainMore
    <3> QED
      BY <3>1, <3>3
  <2>5. new.board[d] = (IF d \in D THEN e.board[d] ELSE 0) + gain(d)
    BY <1>2
  <2>6. CASE d \in D
    BY <1>3, <2>3, <2>4, <2>5, <2>6 DEF S
  <2>7. CASE d \notin D
    <3>1. ~e.ignore /\ D = ScoredBy(S)
      BY <1>2, <1>3, <2>7 DEF BoardHas, D, S
    <3>2. \A g \in S : d \notin ListOf[g]
      BY <2>1, <2>7, <3>1 DEF ScoredBy
    <3>3. \A g \in S : GainsOf(e, d)[g] = 0
      BY <2>2, <3>2 DEF S
    <3>4. Total(Features, S, GainsOf(e, d)) = 0
      <4>1. PICK G : G = GainsOf(e, d)
        OBVIOUS
      <4>2. G \in [Features -> Nat] /\ S \in SUBSET Features /\ \A g \in S : G[g] = 0
        BY <2>2, <3>3, <4>1 DEF S
      <4>3. Total(Features, S, G) = 0
        BY <1>6, <4>2, NothingGained
      <4> QED
        BY <4>1, <4>3
    <3> QED
      BY <2>3, <2>4, <2>5, <2>7, <3>4
  <2> QED
    BY <2>6, <2>7
<1>8. \A d \in DOMAIN new.board : new.board[d] = Total(Features, Evaluated(new), GainsOf(new, d))
  BY ZenonT(30), <1>7, SameGains
<1>9. new.board \in [DOMAIN new.board -> Nat]
  BY <1>2, <1>7
<1> QED
  BY <1>4, <1>8, <1>9 DEF BoardFit

\* A feature the index lacks has no list.
LEMMA EmptyListScored ==
  ASSUME NEW e, e.board \in [DOMAIN e.board -> Nat], NEW f \in Features, f \notin Indexed
  PROVE  Scored(e, f) = e.board
<1>1. ListOf[f] = {}
  BY ListFacts
<1>2. /\ DOMAIN Scored(e, f) = DOMAIN e.board
      /\ \A d \in DOMAIN e.board : Scored(e, f)[d] = e.board[d] + 0
      /\ Scored(e, f) = [d \in DOMAIN Scored(e, f) |-> Scored(e, f)[d]]
  BY <1>1 DEF Scored
<1>3. \A d \in DOMAIN e.board : Scored(e, f)[d] = e.board[d]
  BY <1>2
<1> QED
  BY <1>2, <1>3

\* Pruning keeps some documents with their scores.
LEMMA PrunedFits ==
  ASSUME NEW p \in Threads, BoardFit(eval[p]), DOMAIN eval[p] = Fields, eval[p].limit \in Nat
  PROVE  /\ BoardFit(Pruned(p))
         /\ \A h \in Fields \ {"board", "ignore"} : Pruned(p)[h] = eval[p][h]
<1> DEFINE e == eval[p]
           S == DOMAIN e.board
           scores == [d \in S |-> <<e.board[d], 1>>]
           r == Ranking(scores, FALSE)
           n == Lesser(ReduceTo[p] * e.limit, Len(r))
           kept == Range(Cut(r, ReduceTo[p] * e.limit))
           new == [e EXCEPT !.board = [d \in kept |-> e.board[d]], !.ignore = TRUE]
<1>1. Pruned(p) = e \/ Pruned(p) = new
  BY DEF Pruned
<1>2. /\ new.board = [d \in kept |-> e.board[d]] /\ new.ignore = TRUE
      /\ \A h \in Fields \ {"board", "ignore"} : new[h] = e[h]
  BY DEF Fields
<1>3. /\ BoardHas(e.board, e.ignore, Evaluated(e)) /\ e.board \in [S -> Nat]
      /\ \A d \in S : e.board[d] = Total(Features, Evaluated(e), GainsOf(e, d))
  BY DEF BoardFit
<1>4. S \subseteq ScoredBy(Evaluated(e)) /\ S \subseteq DOMAIN Collection
  <2>1. S \subseteq ScoredBy(Evaluated(e))
    BY <1>3 DEF BoardHas
  <2> QED
    BY <2>1 DEF ScoredBy
<1>5. IsFiniteSet(S) /\ S \subseteq Nat
  <2>1. DOMAIN Collection = 1 .. Len(Collection) /\ Len(Collection) \in Nat
    BY QueryProcessingAssumption
  <2>3. \A m \in Nat : IsFiniteSet(1 .. m)
    BY FS_Interval
  <2>2. IsFiniteSet(DOMAIN Collection) /\ DOMAIN Collection \subseteq Nat
    BY <2>1, <2>3
  <2> HIDE DEF S
  <2> QED
    BY <1>4, <2>2, FS_Subset
<1>6. r \in Seq(S)
  <2> HIDE DEF S
  <2>1. e.board \in [S -> Nat]
    BY <1>3
  <2>2. 1 \in Nat \ {0}
    OBVIOUS
  <2>3. Enumerates(Ranking([d \in S |-> <<e.board[d], 1>>], FALSE), S)
    BY <1>5, <2>1, <2>2, ScoresRanked
  <2> QED
    BY <2>3 DEF Enumerates
<1>7. kept \subseteq S
  <2>1. ReduceTo[p] \in Nat
    BY QueryProcessingAssumption
  <2>2. n \in Nat /\ n <= Len(r)
    <3> HIDE DEF r
    <3>1. ReduceTo[p] * e.limit \in Nat
      BY <2>1
    <3> QED
      BY <1>6, <3>1 DEF Lesser
  <2>3. Cut(r, ReduceTo[p] * e.limit) = SubSeq(r, 1, n)
    BY DEF Cut
  <2> HIDE DEF r, S, n
  <2>4. \A j \in DOMAIN SubSeq(r, 1, n) : SubSeq(r, 1, n)[j] \in S
    BY <1>6, <2>2
  <2>5. kept = Range(SubSeq(r, 1, n))
    BY <2>3
  <2> HIDE DEF kept
  <2> QED
    BY <2>4, <2>5 DEF Range
<1>8. BoardFit(new)
  <2>1. SameTerms(new, e) /\ Evaluated(new) = Evaluated(e)
    <3>1. {"tf", "query", "at", "queue", "count"} \subseteq Fields \ {"board", "ignore"}
      BY DEF Fields
    <3> HIDE DEF new, e
    <3>2. /\ new.tf = e.tf /\ new.query = e.query /\ new.at = e.at
          /\ new.queue = e.queue /\ new.count = e.count
      BY <1>2, <3>1
    <3> QED
      BY <3>2 DEF SameTerms, Evaluated
  <2> HIDE DEF kept, new
  <2>2. DOMAIN new.board = kept /\ \A d \in kept : new.board[d] = e.board[d]
    BY <1>2
  <2>3. new.board \in [DOMAIN new.board -> Nat]
    BY <1>2, <1>3, <1>7
  <2>4. BoardHas(new.board, new.ignore, Evaluated(new))
    BY <1>2, <1>4, <1>7, <2>1, <2>2 DEF BoardHas
  <2>5. \A d \in kept : new.board[d] = Total(Features, Evaluated(new), GainsOf(new, d))
    BY <1>3, <1>7, <2>1, <2>2, SameGains
  <2> QED
    BY <2>2, <2>3, <2>4, <2>5 DEF BoardFit
<1> QED
  BY <1>1, <1>2, <1>8
-----------------------------------------------------------------------------
(* What steps do to what others have computed *)

\* The accessor adds images to its catalogue and to the files, none that anybody
\* has read.
Grows(F, known, E, more) ==
  /\ Range(known) \subseteq Range(more)
  /\ E = F \/ (Adds /\ \A i \in Range(known) : i \in F <=> i \in E)

\* What has been counted stays right while the accessor grows.
LEMMA TermsKept ==
  ASSUME NEW p, NEW e, NEW F, NEW known, TermsFit(p, e, F, known),
         NEW new, SameTerms(new, e), new.left = e.left,
         NEW E, NEW more, Grows(F, known, E, more)
  PROVE  TermsFit(p, new, E, more)
<1>1. PICK seen : ReadSoFar(p, e, F, known, seen)
  BY DEF TermsFit
<1>2. seen \in Seq(Images)
  BY <1>1 DEF ReadSoFar
<1>3. \A j \in 1 .. Len(seen) : seen[j] \in F <=> seen[j] \in E
  <2>1. Adds => \A j \in 1 .. Len(seen) : seen[j] \in Range(known)
    <3>1. Adds => Range(seen) \subseteq Range(known)
      BY <1>1 DEF ReadSoFar
    <3>2. \A j \in 1 .. Len(seen) : seen[j] \in Range(seen)
      BY <1>2 DEF Range
    <3> QED
      BY <3>1, <3>2
  <2> QED
    BY <2>1 DEF Grows
<1>4. \A f \in Features : CountIn(F, seen, f) = CountIn(E, seen, f)
  BY <1>2, <1>3, CountsAgree
<1>5. ReadSoFar(p, new, E, more, seen)
  BY <1>1, <1>4 DEF ReadSoFar, SameTerms, Grows
<1> QED
  BY <1>5 DEF TermsFit

\* So does all the rest of an evaluation.
LEMMA OthersFit ==
  ASSUME NEW p, NEW e, NEW F, NEW known, EvalFit(p, e, F, known),
         NEW E, NEW more, Grows(F, known, E, more)
  PROVE  EvalFit(p, e, E, more)
<1>1. SameTerms(e, e)
  BY DEF SameTerms
<1> QED
  BY <1>1, TermsKept DEF EvalFit

\* An accessor that nobody extends.
LEMMA NothingGrows ==
  ASSUME NEW F, NEW known PROVE Grows(F, known, F, known)
BY DEF Grows

\* A processor makes a step.
LEMMA MoveFits ==
  ASSUME ExactInv, NEW p \in Threads, \A q \in Threads : q # p => eval'[q] = eval[q],
         EvalFit(p, eval'[p], files', catalogue'),
         Grows(files, catalogue, files', catalogue'), files' \subseteq Range(catalogue'),
         query' = query, \A q \in Threads : StreamFit(q)'
  PROVE  ExactInv'
<1>1. \A q \in Threads : EvalFit(q, eval'[q], files', catalogue')
  BY OthersFit DEF ExactInv
<1> QED
  BY <1>1 DEF ExactInv

\* ... that does not concern the stream or the accessor.
LEMMA PlainMoveFits ==
  ASSUME ExactInv, NEW p \in Threads, \A q \in Threads : q # p => eval'[q] = eval[q],
         EvalFit(p, eval'[p], files, catalogue), eval'[p].at # "read",
         UNCHANGED <<stream, files, catalogue, query>>
  PROVE  ExactInv'
<1>1. \A q \in Threads : StreamFit(q)'
  BY DEF ExactInv, StreamFit
<1> QED
  BY <1>1, NothingGrows, MoveFits DEF ExactInv

\* While p has gMutex, or may have it, nobody else reads.
LEMMA OthersDoNotRead ==
  ASSUME IInv, NEW p \in Threads, eval[p].at \in Locking \/ CanLock(gmutex, p)
  PROVE  \A q \in Threads : q # p => eval[q].at # "read"
<1>1. gmutex.owner = p \/ gmutex.owner = NoThread
  BY DEF IInv, MutexInv, CanLock
<1> QED
  BY <1>1, NoThreadAssumption DEF IInv, MutexInv, Locking

\* What is known of a processor at a place.
LEMMA ProcessorFacts ==
  ASSUME IInv, ExactInv, NEW p \in Threads
  PROVE  /\ DOMAIN eval[p] = Fields /\ DOMAIN eval = Threads
         /\ EvalFit(p, eval[p], files, catalogue) /\ StreamFit(p)
BY DEF IInv, ShapeInv, ExactInv

\* An image is read that the accessor knows, or may not add.
LEMMA CollectKnownFits ==
  ASSUME IInv, ExactInv, NEW p \in Threads, CollectKnown(p)
  PROVE  ExactInv'
<1> DEFINE e == eval[p]
           i == Head(e.left)
           new == eval'[p]
<1>1. /\ e.at = "images" /\ e.left # <<>> /\ (i \in Range(catalogue) \/ ~Adds)
      /\ DOMAIN e = Fields /\ DOMAIN eval = Threads /\ EvalFit(p, e, files, catalogue)
  BY ProcessorFacts DEF CollectKnown
<1>2. eval' = [eval EXCEPT ![p].left = Tail(@), ![p].tf = Terms(p, i)]
      /\ UNCHANGED <<stream, files, catalogue, query>>
  BY DEF CollectKnown, accVars, connVars
<1>3. /\ \A q \in Threads : q # p => eval'[q] = eval[q]
      /\ new.left = Tail(e.left) /\ new.tf = Terms(p, i) /\ new.query = e.query
      /\ new.at = "images" /\ new.limit = e.limit /\ new.board = e.board
      /\ new.count = e.count /\ new.ignore = e.ignore
  BY <1>1, <1>2 DEF Fields
<1>4. PICK seen : ReadSoFar(p, e, files, catalogue, seen)
  BY <1>1 DEF EvalFit, TermsFit, Reading
<1>5. TermsFit(p, new, files, catalogue)
  <2>1. new.tf = IF i \in files THEN WithImage(p, e.tf, i) ELSE e.tf
    BY <1>3 DEF Terms
  <2>2. Adds => Range(catalogue) \cup {i} \subseteq Range(catalogue)
    BY <1>1
  <2> HIDE DEF e, new
  <2>3. ReadSoFar(p, new, files, catalogue, Append(seen, Head(e.left)))
    BY <1>1, <1>3, <1>4, <2>1, <2>2, TermsGrow
  <2> QED
    BY <2>3 DEF TermsFit
<1>6. EvalFit(p, new, files, catalogue)
  BY <1>1, <1>3, <1>5 DEF EvalFit, Fresh, Reading, Scoring
<1> QED
  BY <1>2, <1>3, <1>6, PlainMoveFits

\* The extraction begins.
LEMMA ExtractFits ==
  ASSUME IInv, ExactInv, NEW p \in Threads, Extract(p)
  PROVE  ExactInv'
<1> DEFINE e == eval[p]
           new == eval'[p]
<1>1. /\ e.at = "images" /\ Adds
      /\ DOMAIN e = Fields /\ DOMAIN eval = Threads /\ EvalFit(p, e, files, catalogue)
  BY ProcessorFacts DEF Extract
<1>2. eval' = [eval EXCEPT ![p].at = "extract"]
      /\ UNCHANGED <<stream, files, catalogue, query>>
  BY DEF Extract, connVars
<1>3. /\ \A q \in Threads : q # p => eval'[q] = eval[q]
      /\ new.left = e.left /\ SameTerms(new, e) /\ new.at = "extract"
      /\ new.limit = e.limit /\ Fresh(new) = Fresh(e)
  BY <1>1, <1>2 DEF Fields, SameTerms, Fresh
<1>4. TermsFit(p, new, files, catalogue)
  <2> HIDE DEF e, new
  <2> QED
    BY <1>1, <1>3, NothingGrows, TermsKept DEF EvalFit, Reading
<1>5. EvalFit(p, new, files, catalogue)
  BY <1>1, <1>3, <1>4 DEF EvalFit, Reading, Scoring
<1> QED
  BY <1>2, <1>3, <1>5, PlainMoveFits

\* Only the image that is new to everybody is added to catalogue and files.
LEMMA AddImageGrows ==
  ASSUME IInv, ExactInv, NEW p \in Threads, AddImage(p)
  PROVE  /\ Adds /\ Head(eval[p].left) \notin files
         /\ Range(catalogue') = Range(catalogue) \cup {Head(eval[p].left)}
         /\ Grows(files, catalogue, files', catalogue')
         /\ files' \subseteq Range(catalogue')
         /\ \A x \in Range(catalogue) : x \in files <=> x \in files'
<1> DEFINE e == eval[p]
           i == Head(e.left)
<1>1. /\ e.at = "extract" /\ e.left # <<>> /\ i \notin Range(catalogue)
      /\ catalogue \in Seq(Images) /\ files \subseteq Range(catalogue)
      /\ EvalFit(p, e, files, catalogue)
  BY ProcessorFacts DEF AddImage, IInv, CatalogueInv, ExactInv
<1>2. Adds /\ i \notin files
  BY <1>1 DEF EvalFit
<1>3. catalogue' = Append(catalogue, i)
  BY DEF AddImage
<1>4. files' = files \cup {i} \/ files' = files
  BY DEF AddImage
<1>5. Range(catalogue') = Range(catalogue) \cup {i}
  <2>1. i \in Images
    BY <1>1 DEF IInv, ShapeInv
  <2>2. /\ DOMAIN catalogue = 1 .. Len(catalogue) /\ Len(catalogue) \in Nat
        /\ DOMAIN catalogue' = 1 .. Len(catalogue) + 1
        /\ \A j \in 1 .. Len(catalogue) : catalogue'[j] = catalogue[j]
        /\ catalogue'[Len(catalogue) + 1] = i
    BY <1>1, <1>3, <2>1
  <2>3. \A j : j \in 1 .. Len(catalogue) + 1 <=> j \in 1 .. Len(catalogue) \/ j = Len(catalogue) + 1
    BY <2>2
  <2> QED
    BY <2>2, <2>3 DEF Range
<1> QED
  BY <1>1, <1>2, <1>4, <1>5 DEF Grows

\* The image is new to everybody.
LEMMA AddImageFits ==
  ASSUME IInv, ExactInv, NEW p \in Threads, AddImage(p)
  PROVE  ExactInv'
<1> DEFINE e == eval[p]
           i == Head(e.left)
           new == eval'[p]
<1>1. /\ e.at = "extract" /\ e.left # <<>> /\ i \notin Range(catalogue)
      /\ catalogue \in Seq(Images) /\ files \subseteq Range(catalogue)
      /\ DOMAIN e = Fields /\ DOMAIN eval = Threads /\ EvalFit(p, e, files, catalogue)
  BY ProcessorFacts DEF AddImage, IInv, CatalogueInv, ExactInv
<1>2. Adds /\ i \notin files
  BY <1>1 DEF EvalFit
<1>3. /\ catalogue' = Append(catalogue, i) /\ stream' = stream /\ query' = query
  BY DEF AddImage, connVars
<1>4. PICK ok \in Extracts :
        /\ files' = IF ok THEN files \cup {i} ELSE files
        /\ eval' = [eval EXCEPT ![p].at = "images", ![p].left = Tail(@),
                                ![p].tf = IF ok THEN WithImage(p, @, i) ELSE @]
  BY DEF AddImage
<1>5. /\ \A q \in Threads : q # p => eval'[q] = eval[q]
      /\ new.left = Tail(e.left) /\ new.query = e.query /\ new.at = "images"
      /\ new.tf = (IF ok THEN WithImage(p, e.tf, i) ELSE e.tf)
      /\ new.limit = e.limit /\ new.board = e.board
      /\ new.count = e.count /\ new.ignore = e.ignore
  BY <1>1, <1>4 DEF Fields
<1>6. new.tf = IF i \in files' THEN WithImage(p, e.tf, i) ELSE e.tf
  BY <1>2, <1>4, <1>5
<1>7. Range(catalogue') = Range(catalogue) \cup {i}
  BY AddImageGrows
<1>8. /\ Grows(files, catalogue, files', catalogue')
      /\ files' \subseteq Range(catalogue')
      /\ \A x \in Range(catalogue) : x \in files <=> x \in files'
  BY AddImageGrows
<1>9. PICK seen : ReadSoFar(p, e, files, catalogue, seen)
  BY <1>1 DEF EvalFit, TermsFit, Reading
<1>10. TermsFit(p, new, files', catalogue')
  <2>1. \A x \in Range(seen) : x \in files <=> x \in files'
    BY <1>2, <1>8, <1>9 DEF ReadSoFar
  <2>2. Adds => Range(catalogue) \cup {i} \subseteq Range(catalogue')
    BY <1>7
  <2> PICK E, more : E = files' /\ more = catalogue'
    OBVIOUS
  <2> HIDE DEF e, new
  <2>3. ReadSoFar(p, new, E, more, Append(seen, Head(e.left)))
    BY <1>1, <1>5, <1>6, <1>9, <2>1, <2>2, TermsGrow
  <2> QED
    BY <2>3 DEF TermsFit
<1>11. EvalFit(p, new, files', catalogue')
  BY <1>1, <1>5, <1>10 DEF EvalFit, Fresh, Reading, Scoring
<1>12. \A q \in Threads : StreamFit(q)'
  BY <1>3, <1>5 DEF ExactInv, StreamFit
<1> QED
  BY <1>3, <1>5, <1>8, <1>11, <1>12, MoveFits

\* A processor that rests, has ended or waits for its first image.
LEMMA AtRestFits ==
  ASSUME NEW p, NEW e, NEW F, NEW known, e.at \notin Reading \cup Scoring
  PROVE  EvalFit(p, e, F, known)
BY DEF EvalFit, Reading, Scoring

\* A processor that has just been started has read no image.
LEMMA StartedFits ==
  ASSUME NEW p, NEW q, q.images \in Seq(Images), NEW limit \in Nat, NEW F, NEW known
  PROVE  EvalFit(p, Started(q, limit), F, known)
<1> DEFINE e == Started(q, limit)
<1>1. /\ e.at = "images" /\ e.query = q /\ e.left = q.images /\ e.limit = limit
      /\ e.tf = NoTerms /\ e.board = <<>> /\ e.count = 0 /\ ~e.ignore
  BY DEF Started, Resting
<1>2. <<>> \in Seq(Images) /\ <<>> \o q.images = q.images /\ Range(<<>>) = {}
  BY DEF Range
<1>3. NoTerms \in [Features -> Nat] /\ \A f \in Features : NoTerms[f] = 0
  BY DEF NoTerms
<1>4. \A f \in Features : CountIn(F, <<>>, f) = 0
  BY <1>2, NothingCounted
<1>5. ReadSoFar(p, e, F, known, <<>>)
  <2> HIDE DEF e
  <2> QED
    BY <1>1, <1>2, <1>3, <1>4 DEF ReadSoFar
<1> HIDE DEF e
<1>6. EvalFit(p, e, F, known)
  BY <1>1, <1>5 DEF EvalFit, TermsFit, Fresh, Reading, Scoring
<1> QED
  BY <1>6 DEF e

\* Random documents need no score board.
LEMMA RandomIDsFits ==
  ASSUME IInv, ExactInv, NEW p \in Threads, RandomIDs(p)
  PROVE  ExactInv'
<1>1. UNCHANGED <<stream, files, catalogue, query>>
  BY DEF RandomIDs, accVars, connVars
<1>2. PICK r : eval' = [eval EXCEPT ![p].at = "done", ![p].result = r]
  BY DEF RandomIDs
<1>3. eval'[p].at = "done" /\ \A q \in Threads : q # p => eval'[q] = eval[q]
  BY <1>2, ProcessorFacts DEF Fields
<1>4. EvalFit(p, eval'[p], files, catalogue)
  BY <1>3, AtRestFits DEF Reading, Scoring
<1> QED
  BY <1>1, <1>3, <1>4, PlainMoveFits

\* The score board is ranked and left behind.
LEMMA RankFits ==
  ASSUME IInv, ExactInv, NEW p \in Threads, Rank(p)
  PROVE  ExactInv'
<1>1. UNCHANGED <<stream, files, catalogue, query>>
  BY DEF Rank, accVars, connVars
<1>2. PICK r : eval' = [eval EXCEPT ![p].at = "done", ![p].result = r]
  BY DEF Rank
<1>3. eval'[p].at = "done" /\ \A q \in Threads : q # p => eval'[q] = eval[q]
  BY <1>2, ProcessorFacts DEF Fields
<1>4. EvalFit(p, eval'[p], files, catalogue)
  BY <1>3, AtRestFits DEF Reading, Scoring
<1> QED
  BY <1>1, <1>3, <1>4, PlainMoveFits

\* What the processor's terms are.
LEMMA TermsTyped ==
  ASSUME NEW p, NEW e, NEW F, NEW known, TermsFit(p, e, F, known)
  PROVE  e.tf \in [Features -> Nat] /\ e.query.images \in Seq(Images)
<1>1. PICK seen : ReadSoFar(p, e, F, known, seen)
  BY DEF TermsFit
<1>2. /\ seen \in Seq(Images) /\ e.left \in Seq(Images) /\ e.query.images = seen \o e.left
      /\ e.tf \in [Features -> Nat]
  BY <1>1 DEF ReadSoFar
<1>3. seen \o e.left \in Seq(Images)
  BY <1>2
<1> QED
  BY <1>2, <1>3

\* The queue of features is built from the terms; the score board is empty.
LEMMA BeginFits ==
  ASSUME IInv, ExactInv, NEW p \in Threads, Begin(p)
  PROVE  ExactInv'
<1> DEFINE e == eval[p]
           new == eval'[p]
<1>1. /\ e.at = "images" /\ e.left = <<>>
      /\ DOMAIN e = Fields /\ DOMAIN eval = Threads /\ EvalFit(p, e, files, catalogue)
  BY ProcessorFacts DEF Begin
<1>2. eval' = [eval EXCEPT ![p].at = "features", ![p].queue = ByFactor(e.tf)]
      /\ UNCHANGED <<stream, files, catalogue, query>>
  BY DEF Begin, accVars, connVars
<1>3. /\ \A q \in Threads : q # p => eval'[q] = eval[q]
      /\ new.left = e.left /\ SameTerms(new, e) /\ new.at = "features"
      /\ new.queue = ByFactor(e.tf)
      /\ new.limit = e.limit /\ new.board = e.board
      /\ new.count = e.count /\ new.ignore = e.ignore
  BY <1>1, <1>2 DEF Fields, SameTerms
<1>4. /\ TermsFit(p, e, files, catalogue) /\ e.limit \in Nat
      /\ e.board = <<>> /\ e.count = 0 /\ ~e.ignore
  BY <1>1 DEF EvalFit, Fresh, Reading
<1> HIDE DEF e, new
<1>5. TermsFit(p, new, files, catalogue)
  BY <1>3, <1>4, NothingGrows, TermsKept
<1>6. e.tf \in [Features -> Nat]
  BY <1>4, TermsTyped
<1>7. QueueFit(new)
  <2>1. /\ new.queue \in Seq(Features)
        /\ \A j, k \in 1 .. Len(new.queue) : new.queue[j] = new.queue[k] => j = k
        /\ \A f \in Features : e.tf[f] > 0 <=> \E k \in 1 .. Len(new.queue) : new.queue[k] = f
    <3> DEFINE q == ByFactor(e.tf)
    <3>1. /\ q \in Seq(Features)
          /\ \A j, k \in 1 .. Len(q) : q[j] = q[k] => j = k
          /\ \A f \in Features : e.tf[f] > 0 <=> \E k \in 1 .. Len(q) : q[k] = f
      BY <1>6, ByFactorFacts
    <3>2. new.queue = q
      BY <1>3
    <3> HIDE DEF q
    <3> QED
      BY <3>1, <3>2
  <2>2. Len(new.queue) \in Nat /\ new.count = 0
    BY <1>3, <1>4, <2>1
  <2> QED
    BY <1>3, <2>1, <2>2 DEF QueueFit, SameTerms
<1>8. BoardFit(new)
  <2>1. Evaluated(new) = {}
    BY <1>3, <1>4 DEF Evaluated
  <2>2. ScoredBy({}) = {}
    BY DEF ScoredBy
  <2>3. new.board = <<>> /\ ~new.ignore /\ DOMAIN new.board = {}
    BY <1>3, <1>4
  <2>4. new.board \in [DOMAIN new.board -> Nat]
    BY <2>3
  <2> QED
    BY <2>1, <2>2, <2>3, <2>4 DEF BoardFit, BoardHas
<1>9. EvalFit(p, new, files, catalogue)
  BY <1>1, <1>3, <1>4, <1>5, <1>7, <1>8 DEF EvalFit, Reading, Scoring
<1> QED
  BY <1>2, <1>3, <1>9, PlainMoveFits DEF new

\* The stream is positioned, while nobody else reads.
LEMMA SeekFits ==
  ASSUME IInv, ExactInv, NEW p \in Threads, Seek(p)
  PROVE  ExactInv'
<1> DEFINE old == eval[p]
           e == Pruned(p)
           f == e.queue[e.count + 1]
           new == eval'[p]
<1>1. /\ DOMAIN old = Fields /\ DOMAIN eval = Threads /\ EvalFit(p, old, files, catalogue)
      /\ e.at = old.at /\ DOMAIN e = Fields
  BY ProcessorFacts, PrunedLemma
<1>2. /\ old.at = "features" /\ Continues(p) /\ CanLock(gmutex, p)
      /\ UNCHANGED <<files, catalogue, query>>
      /\ eval' = [eval EXCEPT ![p] =
           [e EXCEPT !.count = @ + 1, !.score = @ + ApplyOnThis(f, e.tf[f]),
                     !.at = IF f \in Indexed THEN "read" ELSE @]]
      /\ stream' = IF f \in Indexed THEN f ELSE stream
  BY <1>1 DEF Seek, connVars
<1>3. /\ TermsFit(p, old, files, catalogue) /\ old.limit \in Nat
      /\ old.left = <<>> /\ QueueFit(old) /\ BoardFit(old)
  BY <1>1, <1>2 DEF EvalFit, Scoring
<1>4. BoardFit(e) /\ \A h \in Fields \ {"board", "ignore"} : e[h] = old[h]
  BY <1>1, <1>3, PrunedFits
<1>5. /\ e.tf = old.tf /\ e.query = old.query /\ e.left = old.left /\ e.limit = old.limit
      /\ e.queue = old.queue /\ e.count = old.count /\ e.at = "features"
  <2>1. {"tf", "query", "left", "limit", "queue", "count"} \subseteq Fields \ {"board", "ignore"}
    BY DEF Fields
  <2> HIDE DEF e, old
  <2> QED
    BY <1>1, <1>2, <1>4, <2>1
<1>6. /\ \A q \in Threads : q # p => eval'[q] = eval[q]
      /\ new.left = e.left /\ SameTerms(new, e) /\ new.limit = e.limit
      /\ new.queue = e.queue /\ new.count = e.count + 1
      /\ new.board = e.board /\ new.ignore = e.ignore
      /\ new.at = IF f \in Indexed THEN "read" ELSE "features"
  <2> HIDE DEF e, old, f
  <2> QED
    BY <1>1, <1>2, <1>5 DEF Fields, SameTerms
<1>7. old.count + 1 \in 1 .. Len(old.queue) /\ old.count # old.count + 1 /\ old.count + 1 # 0
  <2>1. old.count < Len(old.queue)
    BY <1>2 DEF Continues
  <2>2. old.count \in 0 .. Len(old.queue) /\ Len(old.queue) \in Nat
    BY <1>3 DEF QueueFit
  <2> HIDE DEF old
  <2> QED
    BY <2>1, <2>2
<1> HIDE DEF old, e, new
<1>8. TermsFit(p, new, files, catalogue)
  <2>1. SameTerms(new, old) /\ new.left = old.left
    BY <1>5, <1>6 DEF SameTerms
  <2> QED
    BY <1>3, <2>1, NothingGrows, TermsKept
<1>9. QueueFit(e)
  BY <1>2, <1>3, <1>5 DEF QueueFit
<1>10. /\ f = new.queue[new.count] /\ f \in Features \ Evaluated(e) /\ e.tf[f] > 0
       /\ Evaluated(e) \subseteq Features
       /\ Evaluated(new) = IF new.at = "read" THEN Evaluated(e) ELSE Evaluated(e) \cup {f}
  <2>1. f = new.queue[new.count]
    BY <1>6
  <2>2. new.count \in 0 .. Len(e.queue)
    BY <1>5, <1>6, <1>7
  <2> HIDE DEF f
  <2> QED
    BY <1>5, <1>6, <1>9, <2>1, <2>2, EvaluatedFacts
<1>11. QueueFit(new)
  <2>1. new.count \in 0 .. Len(new.queue) /\ new.count # 0
    BY <1>5, <1>6, <1>7
  <2>2. new.at = "read" => new.queue[new.count] \in Indexed
    BY <1>6, <1>10
  <2> QED
    BY <1>6, <1>9, <2>1, <2>2 DEF QueueFit, SameTerms
<1>12. BoardFit(new)
  <2>1. CASE f \in Indexed
    BY <1>4, <1>6, <1>10, <2>1, BoardKept
  <2>2. CASE f \notin Indexed
    <3> HIDE DEF f
    <3>1. Scored(e, f) = e.board
      BY <1>4, <1>10, <2>2, EmptyListScored DEF BoardFit
    <3>2. Evaluated(new) = Evaluated(e) \cup {f}
      BY <1>6, <1>10, <2>2
    <3>3. e.tf \in [Features -> Nat] /\ e.query.images \in Seq(Images)
      BY <1>3, <1>5, TermsTyped
    <3> QED
      BY <1>4, <1>6, <1>10, <3>1, <3>2, <3>3, ListScored
  <2> QED
    BY <2>1, <2>2
<1>13. EvalFit(p, new, files, catalogue)
  <2>1. new.at \in {"read", "features"} /\ new.left = <<>> /\ new.limit \in Nat
    BY <1>3, <1>5, <1>6
  <2> QED
    BY <1>8, <1>11, <1>12, <2>1 DEF EvalFit, Reading, Scoring
<1>14. \A q \in Threads : StreamFit(q)'
  <2>1. \A q \in Threads : q # p => eval[q].at # "read"
    BY <1>2, OthersDoNotRead
  <2>2. \A q \in Threads : q # p => StreamFit(q)'
    BY <1>6, <2>1 DEF StreamFit
  <2>3. new.at = "read" => stream' = new.queue[new.count]
    BY <1>2, <1>6, <1>10
  <2>4. StreamFit(p)'
    BY <2>3 DEF StreamFit, new
  <2> QED
    BY <2>2, <2>4
<1> QED
  <2>1. files' \subseteq Range(catalogue')
    BY <1>2 DEF ExactInv
  <2>2. EvalFit(p, eval'[p], files', catalogue') /\ Grows(files, catalogue, files', catalogue')
    BY <1>2, <1>13, NothingGrows DEF new
  <2> QED
    BY <1>2, <1>6, <1>14, <2>1, <2>2, MoveFits

\* The list that is read is the one the stream was positioned at.
LEMMA ReadListFits ==
  ASSUME IInv, ExactInv, NEW p \in Threads, ReadList(p)
  PROVE  ExactInv'
<1> DEFINE e == eval[p]
           f == e.queue[e.count]
           new == eval'[p]
<1>1. /\ e.at = "read" /\ UNCHANGED <<files, catalogue, query>>
      /\ DOMAIN e = Fields /\ DOMAIN eval = Threads /\ EvalFit(p, e, files, catalogue)
      /\ stream = f
  BY ProcessorFacts DEF ReadList, connVars, StreamFit
<1>2. /\ TermsFit(p, e, files, catalogue) /\ e.limit \in Nat
      /\ e.left = <<>> /\ QueueFit(e) /\ BoardFit(e)
  BY <1>1 DEF EvalFit, Scoring
<1>3. eval' = [eval EXCEPT ![p].at = "features",
                           ![p].board = IF stream = f THEN Scored(e, f) ELSE @]
  BY DEF ReadList
<1>4. /\ \A q \in Threads : q # p => eval'[q] = eval[q]
      /\ new.left = e.left /\ SameTerms(new, e) /\ new.limit = e.limit
      /\ new.queue = e.queue /\ new.count = e.count /\ new.ignore = e.ignore
      /\ new.at = "features" /\ new.board = Scored(e, f)
  BY <1>1, <1>3 DEF Fields, SameTerms
<1> HIDE DEF e, new
<1>5. TermsFit(p, new, files, catalogue)
  BY <1>2, <1>4, NothingGrows, TermsKept
<1>6. QueueFit(new)
  BY <1>2, <1>4 DEF QueueFit, SameTerms
<1>7. /\ f \in Features \ Evaluated(e) /\ e.tf[f] > 0
      /\ Evaluated(e) \subseteq Features /\ Evaluated(new) = Evaluated(e) \cup {f}
  <2>1. new.count \in 0 .. Len(e.queue) /\ f = new.queue[new.count]
    BY <1>2, <1>4 DEF QueueFit
  <2> HIDE DEF f
  <2> QED
    BY <1>1, <1>2, <1>4, <2>1, EvaluatedFacts
<1>8. BoardFit(new)
  <2>1. e.tf \in [Features -> Nat] /\ e.query.images \in Seq(Images)
    BY <1>2, TermsTyped
  <2> HIDE DEF f
  <2> QED
    BY <1>2, <1>4, <1>7, <2>1, ListScored
<1>9. EvalFit(p, new, files, catalogue)
  BY <1>2, <1>4, <1>5, <1>6, <1>8 DEF EvalFit, Reading, Scoring
<1>10. \A q \in Threads : StreamFit(q)'
  <2>1. \A q \in Threads : q # p => eval[q].at # "read"
    BY <1>1, OthersDoNotRead DEF Locking, e
  <2>2. \A q \in Threads : q # p => StreamFit(q)'
    BY <1>4, <2>1 DEF StreamFit
  <2>3. StreamFit(p)'
    BY <1>4 DEF StreamFit, new
  <2> QED
    BY <2>2, <2>3
<1> QED
  <2>1. files' \subseteq Range(catalogue')
    BY <1>1 DEF ExactInv
  <2>2. EvalFit(p, eval'[p], files', catalogue') /\ Grows(files, catalogue, files', catalogue')
    BY <1>1, <1>9, NothingGrows DEF new
  <2> QED
    BY <1>1, <1>4, <1>10, <2>1, <2>2, MoveFits

\* A connection starts processors or forgets them, and touches nothing else.
LEMMA TouchFits ==
  ASSUME ExactInv, UNCHANGED <<stream, files, catalogue>>,
         \A c \in Connections : query'[c].size \in Nat,
         \A p \in Threads :
           \/ eval'[p] = eval[p]
           \/ EvalFit(p, eval'[p], files, catalogue) /\ eval'[p].at # "read"
  PROVE  ExactInv'
<1>1. \A p \in Threads : EvalFit(p, eval'[p], files, catalogue) /\ StreamFit(p)'
  BY DEF ExactInv, StreamFit
<1> QED
  BY <1>1 DEF ExactInv

\* What a query is.
LEMMA QueryFacts ==
  ASSUME NEW c \in Connections, NEW q \in Queries[c]
  PROVE  q.images \in Seq(Images) /\ q.size \in Nat
BY QueryProcessingAssumption DEF QueryType

\* Connections start processors and forget them.
LEMMA ConnectionFits ==
  ASSUME IInv, ExactInv, NEW c \in Connections, ConnectionStep(c)
  PROVE  ExactInv'
<1>1. /\ DOMAIN eval = Threads /\ DOMAIN query = Connections /\ tree[c] \in Trees[c]
      /\ \A d \in Connections : query[d].size \in Nat /\ query[d].images \in Seq(Images)
  BY DEF IInv, ShapeInv, ExactInv
<1>2. CASE Ask(c)
  <2>1. PICK t \in Trees[c], q \in Queries[c] :
          /\ query' = [query EXCEPT ![c] = q]
          /\ \/ eval' = eval
             \/ eval' = [eval EXCEPT ![t.procs[1]] = Started(q, q.size)]
    BY <1>2 DEF Ask
  <2>2. UNCHANGED <<stream, files, catalogue>>
    BY <1>2 DEF Ask, accVars
  <2>3. q.images \in Seq(Images) /\ q.size \in Nat
    BY QueryFacts
  <2>4. \A d \in Connections : query'[d].size \in Nat
    BY <1>1, <2>1, <2>3
  <2>5. \A p \in Threads : EvalFit(p, Started(q, q.size), files, catalogue)
                           /\ Started(q, q.size).at # "read"
    BY <2>3, StartedFits DEF Started, Resting
  <2>6. \A p \in Threads : eval'[p] = eval[p] \/ eval'[p] = Started(q, q.size)
    BY <1>1, <2>1
  <2>7. \A p \in Threads : \/ eval'[p] = eval[p]
                           \/ EvalFit(p, eval'[p], files, catalogue) /\ eval'[p].at # "read"
    BY <2>5, <2>6
  <2> QED
    BY <2>2, <2>4, <2>7, TouchFits
<1>3. CASE Spawn(c)
  <2> DEFINE s == Started(query[c], ChildLimit(c))
             r == [Resting EXCEPT !.at = "failed"]
  <2>1. /\ UNCHANGED <<stream, files, catalogue>> /\ query' = query
        /\ \A p \in Threads : eval'[p] = eval[p] \/ eval'[p] = s \/ eval'[p] = r
    BY <1>1, <1>3 DEF Spawn, accVars
  <2>2. ChildLimit(c) \in Nat
    BY <1>1, QueryProcessingAssumption DEF ChildLimit
  <2>3. \A p \in Threads : EvalFit(p, s, files, catalogue) /\ s.at # "read"
    BY <1>1, <2>2, StartedFits DEF Started, Resting
  <2>4. r.at = "failed"
    BY DEF Resting
  <2> HIDE DEF s, r
  <2>5. \A p \in Threads : EvalFit(p, r, files, catalogue) /\ r.at # "read"
    BY <2>4, AtRestFits DEF Reading, Scoring
  <2>6. \A p \in Threads : \/ eval'[p] = eval[p]
                           \/ EvalFit(p, eval'[p], files, catalogue) /\ eval'[p].at # "read"
    BY <2>1, <2>3, <2>5
  <2> QED
    BY <1>1, <2>1, <2>6, TouchFits
<1>4. CASE Answer(c)
  <2>1. /\ UNCHANGED <<stream, files, catalogue>> /\ query' = query
        /\ \A p \in Threads : eval'[p] = eval[p] \/ eval'[p] = Resting
    BY <1>4 DEF Answer, Forgotten, accVars
  <2>2. Resting.at = "off"
    BY DEF Resting
  <2>3. \A p \in Threads : EvalFit(p, Resting, files, catalogue) /\ Resting.at # "read"
    BY <2>2, AtRestFits DEF Reading, Scoring
  <2>4. \A p \in Threads : \/ eval'[p] = eval[p]
                           \/ EvalFit(p, eval'[p], files, catalogue) /\ eval'[p].at # "read"
    BY <2>1, <2>3
  <2> QED
    BY <1>1, <2>1, <2>4, TouchFits
<1>5. CASE RandomImages(c) \/ Join(c) \/ JoinCrashes(c) \/ Reply(c)
  <2>1. /\ UNCHANGED <<stream, files, catalogue, eval>>
        /\ query' = query \/ query' = [query EXCEPT ![c] = NoQuery]
    BY <1>5 DEF RandomImages, Join, JoinCrashes, Reply, accVars, connVars
  <2>2. \A d \in Connections : query'[d].size \in Nat
    BY <1>1, <2>1 DEF NoQuery
  <2> QED
    BY <2>1, <2>2, TouchFits
<1> QED
  BY <1>2, <1>3, <1>4, <1>5 DEF ConnectionStep
-----------------------------------------------------------------------------
(* Score boards are exact *)

\* At the beginning every processor rests.
LEMMA ExactInit == Init => ExactInv
<1> SUFFICES ASSUME Init PROVE ExactInv
  OBVIOUS
<1>1. files = Range(catalogue) /\ \A p \in Threads : eval[p].at = "off"
  BY DEF Init, Resting
<1>2. \A c \in Connections : query[c].size \in Nat
  BY DEF Init, NoQuery
<1>3. \A p \in Threads : EvalFit(p, eval[p], files, catalogue)
  BY <1>1, AtRestFits DEF Reading, Scoring
<1> QED
  BY <1>1, <1>2, <1>3 DEF ExactInv, StreamFit

\* Every step keeps what the processors have computed right.
LEMMA ExactNext == IInv /\ ExactInv /\ [Next]_vars => ExactInv'
<1> SUFFICES ASSUME IInv, ExactInv, [Next]_vars PROVE ExactInv'
  OBVIOUS
<1>1. ASSUME NEW p \in Threads, ProcessorStep(p) PROVE ExactInv'
  BY <1>1, CollectKnownFits, ExtractFits, AddImageFits, RandomIDsFits, BeginFits,
     SeekFits, ReadListFits, RankFits
  DEF ProcessorStep
<1>2. CASE UNCHANGED vars
  <2>1. UNCHANGED <<stream, files, catalogue, query, eval>>
    BY <1>2 DEF vars, accVars, connVars
  <2> QED
    BY <2>1, TouchFits DEF ExactInv
<1> QED
  BY <1>1, <1>2, ConnectionFits DEF Next

\* What a processor has counted is what is wanted.
LEMMA TermsWanted ==
  ASSUME NEW p \in Threads, NEW e, TermsFit(p, e, files, catalogue), e.left = <<>>
  PROVE  \A f \in Features : Wanted(p, e.query, f) = e.tf[f]
<1>1. PICK seen : ReadSoFar(p, e, files, catalogue, seen)
  BY DEF TermsFit
<1>2. seen \in Seq(Images) /\ e.query.images = seen \o <<>>
  BY <1>1 DEF ReadSoFar
<1>3. e.query.images = seen
  BY <1>2
<1>4. ASSUME NEW f \in Features
      PROVE  Wanted(p, e.query, f)
               = IF f \in Considered[p] THEN CountIn(files, e.query.images, f) ELSE 0
  BY DEF Wanted, CountIn
<1> QED
  BY <1>1, <1>3, <1>4 DEF ReadSoFar

\* Nothing but the features evaluated so far is in a score board, and all they
\* contribute: the stream stays where a thread has positioned it until the list is
\* read, and what pruning drops does not come back.
THEOREM BoardsAreExact == Spec => []BoardsExact
<1>1. ExactInv => BoardsExact
  <2> SUFFICES ASSUME ExactInv, NEW p \in Threads, eval[p].at \in Scoring
               PROVE  LET e == eval[p]
                          done == Evaluated(e) IN
                      /\ BoardHas(e.board, e.ignore, done)
                      /\ \A d \in DOMAIN e.board :
                           e.board[d] = SumOver(done, LAMBDA f : Gain(p, e.query, f, d))
    BY DEF BoardsExact, Scoring, BoardHas, Evaluated, ScoredBy
  <2> DEFINE e == eval[p]
             S == Evaluated(e)
  <2>1. /\ TermsFit(p, e, files, catalogue) /\ e.left = <<>> /\ QueueFit(e) /\ BoardFit(e)
    BY DEF ExactInv, EvalFit
  <2>2. BoardHas(e.board, e.ignore, S)
        /\ \A d \in DOMAIN e.board : e.board[d] = Total(Features, S, GainsOf(e, d))
    BY <2>1 DEF BoardFit
  <2>3. DOMAIN e.board \subseteq DOMAIN Collection
    BY <2>2 DEF BoardHas, ScoredBy
  <2>4. S \subseteq Features
    <3>1. /\ e.queue \in Seq(Features) /\ e.count \in 0 .. Len(e.queue)
      BY <2>1 DEF QueueFit
    <3> QED
      BY <3>1 DEF Evaluated
  <2>5. e.tf \in [Features -> Nat] /\ e.query.images \in Seq(Images)
    BY <2>1, TermsTyped
  <2>6. \A f \in Features : Wanted(p, e.query, f) = e.tf[f]
    BY <2>1, TermsWanted
  <2> HIDE DEF e, S
  <2>7. ASSUME NEW d \in DOMAIN e.board
        PROVE  e.board[d] = SumOver(S, LAMBDA f : Gain(p, e.query, f, d))
    <3>1. GainsOf(e, d) \in [Features -> Nat]
      BY <2>3, <2>5, GainFacts
    <3>2. \A f \in S : Gain(p, e.query, f, d) = GainsOf(e, d)[f]
      BY <2>4, <2>6 DEF Gain, GainsOf, GainOf
    <3>3. GainSum(S, p, e.query, d) = Total(Features, S, GainsOf(e, d))
      BY <2>4, <3>1, <3>2, GainsAddUp
    <3>4. e.board[d] = GainSum(S, p, e.query, d)
      BY <2>2, <3>3
    <3> QED
      BY <3>4 DEF GainSum
  <2> QED
    BY <2>2, <2>7 DEF e, S
<1>2. Init => IInv /\ ExactInv
  BY InitLemma, ExactInit
<1>3. IInv /\ ExactInv /\ [Next]_vars => (IInv /\ ExactInv)'
  BY NextLemma, ExactNext
<1> QED
  BY <1>1, <1>2, <1>3, PTL DEF Spec
-----------------------------------------------------------------------------
(* Sums of relevances *)

Fractions == Nat \X Nat
NoRelevance == <<0, 1>>

\* Relevances are added in any order, and grouped in any way.
LEMMA PlusCommutes ==
  ASSUME NEW r \in Fractions, NEW s \in Fractions
  PROVE  Plus(r, s) \in Fractions /\ Plus(r, s) = Plus(s, r)
<1>1. PICK a \in Nat, b \in Nat, c \in Nat, d \in Nat : r = <<a, b>> /\ s = <<c, d>>
  BY DEF Fractions
<1>2. a * d \in Nat /\ c * b \in Nat /\ b * d \in Nat /\ b * d = d * b
  BY SMTT(30)
<1>3. a * d + c * b \in Nat /\ a * d + c * b = c * b + a * d
  BY <1>2
<1> QED
  BY <1>1, <1>2, <1>3 DEF Plus, Fractions

LEMMA PlusAssociates ==
  ASSUME NEW r \in Fractions, NEW s \in Fractions, NEW t \in Fractions
  PROVE  Plus(r, Plus(s, t)) = Plus(s, Plus(r, t))
<1>1. PICK a \in Nat, b \in Nat, c \in Nat, d \in Nat, m \in Nat, n \in Nat :
        r = <<a, b>> /\ s = <<c, d>> /\ t = <<m, n>>
  BY SMTT(30) DEF Fractions
<1>2. a * (d * n) + (c * n + m * d) * b = c * (b * n) + (a * n + m * b) * d
  <2>1. (c * n + m * d) * b = c * (b * n) + (m * b) * d
    BY SMTT(30)
  <2>2. (a * n + m * b) * d = a * (d * n) + (m * b) * d
    BY SMTT(30)
  <2>3. a * (d * n) \in Nat /\ c * (b * n) \in Nat /\ (m * b) * d \in Nat
    BY SMTT(30)
  <2> QED
    BY <2>1, <2>2, <2>3
<1>3. b * (d * n) = d * (b * n)
  BY SMTT(30)
<1> QED
  BY <1>1, <1>2, <1>3 DEF Plus

\* Nothing adds nothing.
LEMMA PlusNothing ==
  ASSUME NEW r \in Fractions
  PROVE  Plus(r, NoRelevance) = r /\ Plus(NoRelevance, r) = r
<1>1. PICK a \in Nat, b \in Nat : r = <<a, b>>
  BY DEF Fractions
<1> QED
  BY <1>1 DEF Plus, NoRelevance

Typed(V, S) == \A x \in S : V[x] \in Fractions

\* h says of each part of S what the relevances of its elements add up to.
IsSum(h, S, V) ==
  /\ h \in [SUBSET S -> Fractions] /\ h[{}] = NoRelevance
  /\ \A s \in SUBSET S : \A x \in s : h[s] = Plus(V[x], h[s \ {x}])

\* There is such an h, by induction over finite sets.
LEMMA SumsExist ==
  ASSUME NEW S, IsFiniteSet(S), NEW V, Typed(V, S)
  PROVE  \E h : IsSum(h, S, V)
<1> DEFINE F == {t \in SUBSET S : ~ \E h : IsSum(h, t, V)}
<1>1. SUFFICES ASSUME S \in F PROVE FALSE
  OBVIOUS
<1>2. PICK t \in F : \A u \in F : u \subseteq t => u = t
  <2>1. F \in SUBSET (SUBSET S) /\ F # {}
    BY <1>1
  <2> HIDE DEF F
  <2> QED
    BY <2>1, MinimalSet
<1>3. t \subseteq S /\ \A h : ~IsSum(h, t, V)
  BY <1>2
<1>4. t # {}
  <2>1. NoRelevance \in Fractions
    BY DEF NoRelevance, Fractions
  <2>2. IsSum([s \in SUBSET {} |-> NoRelevance], {}, V)
    BY <2>1 DEF IsSum
  <2> QED
    BY <1>3, <2>2
<1>5. PICK x \in t : TRUE
  BY <1>4
<1>6. PICK g : IsSum(g, t \ {x}, V)
  <2>1. t \ {x} \in SUBSET S /\ t \ {x} \subseteq t /\ t \ {x} # t
    BY <1>3, <1>5
  <2> QED
    BY <1>2, <2>1
<1> DEFINE h == [s \in SUBSET t |-> IF x \in s THEN Plus(V[x], g[s \ {x}]) ELSE g[s]]
<1>7. V[x] \in Fractions /\ g \in [SUBSET (t \ {x}) -> Fractions]
  BY <1>3, <1>5, <1>6 DEF IsSum, Typed
<1>8. \A s \in SUBSET t : IF x \in s
                          THEN h[s] = Plus(V[x], g[s \ {x}]) /\ g[s \ {x}] \in Fractions
                          ELSE h[s] = g[s] /\ g[s] \in Fractions
  BY <1>7
<1>9. h \in [SUBSET t -> Fractions]
  <2>1. ASSUME NEW s \in SUBSET t PROVE h[s] \in Fractions
    <3> HIDE DEF h
    <3>1. CASE x \in s
      <4>1. h[s] = Plus(V[x], g[s \ {x}]) /\ g[s \ {x}] \in Fractions
        BY <1>8, <3>1
      <4> QED
        BY <1>7, <4>1, PlusCommutes
    <3>2. CASE x \notin s
      BY <1>8, <3>2
    <3> QED
      BY <3>1, <3>2
  <2> QED
    BY <2>1
<1>10. h[{}] = NoRelevance
  BY <1>6 DEF IsSum
<1>11. ASSUME NEW s \in SUBSET t, NEW y \in s PROVE h[s] = Plus(V[y], h[s \ {y}])
  <2>1. s \ {y} \in SUBSET t /\ y \in S /\ V[y] \in Fractions
    BY <1>3 DEF Typed
  <2>2. CASE y = x
    <3>1. h[s] = Plus(V[x], g[s \ {x}]) /\ h[s \ {x}] = g[s \ {x}]
      BY <1>8, <2>1, <2>2
    <3> QED
      BY <2>2, <3>1
  <2>3. CASE y # x /\ x \in s
    <3> DEFINE r == s \ {x}
    <3>1. r \in SUBSET (t \ {x}) /\ y \in r /\ r \ {y} \in SUBSET (t \ {x})
      BY <2>3
    <3>2. g[r] = Plus(V[y], g[r \ {y}]) /\ g[r \ {y}] \in Fractions
      BY <1>6, <1>7, <3>1 DEF IsSum
    <3>3. h[s] = Plus(V[x], g[r])
      BY <1>8, <2>3
    <3>4. x \in s \ {y} /\ (s \ {y}) \ {x} = r \ {y}
      BY <2>3
    <3>5. h[s \ {y}] = Plus(V[x], g[r \ {y}])
      BY <1>8, <2>1, <3>4
    <3> HIDE DEF r, h
    <3> QED
      BY <1>7, <2>1, <3>2, <3>3, <3>5, PlusAssociates
  <2>4. CASE x \notin s
    <3>1. s \in SUBSET (t \ {x})
      BY <2>4
    <3>2. g[s] = Plus(V[y], g[s \ {y}])
      BY <1>6, <3>1 DEF IsSum
    <3>3. h[s] = g[s] /\ h[s \ {y}] = g[s \ {y}]
      BY <1>8, <2>1, <2>4
    <3> QED
      BY <3>2, <3>3
  <2> QED
    BY <2>2, <2>3, <2>4
<1>12. IsSum(h, t, V)
  <2> HIDE DEF h
  <2> QED
    BY <1>9, <1>10, <1>11 DEF IsSum
<1> QED
  BY <1>3, <1>12

\* A function that adds up the relevances in some order.
SumsUp(g, S, V) ==
  /\ g[{}] = NoRelevance
  /\ \A s \in SUBSET S : s # {} => \E x \in s : g[s] = Plus(V[x], g[s \ {x}])

\* Whoever adds up the same relevances in some order finds the same sum.
LEMMA SumIsUnique ==
  ASSUME NEW S, IsFiniteSet(S), NEW V, NEW h, IsSum(h, S, V), NEW T \in SUBSET S, NEW W,
         \A x \in T : W[x] = V[x], NEW g, SumsUp(g, T, W)
  PROVE  g[T] = h[T]
<1> DEFINE F == {s \in SUBSET T : g[s] # h[s]}
<1>1. SUFFICES ASSUME F # {} PROVE FALSE
  <2>1. T \in SUBSET T
    OBVIOUS
  <2> QED
    BY <2>1
<1>2. PICK t \in F : \A u \in F : u \subseteq t => u = t
  <2>1. F \in SUBSET (SUBSET T) /\ IsFiniteSet(T)
    BY FS_Subset
  <2> HIDE DEF F
  <2> QED
    BY <1>1, <2>1, MinimalSet
<1>3. t \in SUBSET T /\ g[t] # h[t]
  BY <1>2
<1>4. t # {}
  BY <1>3 DEF SumsUp, IsSum
<1>5. PICK x \in t : g[t] = Plus(W[x], g[t \ {x}])
  BY <1>3, <1>4 DEF SumsUp
<1>6. g[t \ {x}] = h[t \ {x}]
  <2>1. t \ {x} \in SUBSET T /\ t \ {x} \subseteq t /\ t \ {x} # t
    BY <1>3
  <2> QED
    BY <1>2, <2>1
<1>7. h[t] = Plus(V[x], h[t \ {x}]) /\ W[x] = V[x]
  BY <1>3 DEF IsSum
<1> QED
  BY <1>3, <1>5, <1>6, <1>7

\* The sum of the relevances of the elements of S.
SumOf(S, V) == (CHOOSE h : IsSum(h, S, V))[S]

\* Every such function finds it.
LEMMA SumFound ==
  ASSUME NEW S, IsFiniteSet(S), NEW V, Typed(V, S), NEW g, SumsUp(g, S, V)
  PROVE  g[S] = SumOf(S, V) /\ SumOf(S, V) \in Fractions
<1>1. PICK h : h = CHOOSE f : IsSum(f, S, V)
  OBVIOUS
<1>2. IsSum(h, S, V)
  BY <1>1, SumsExist
<1>3. SumOf(S, V) = h[S] /\ S \in SUBSET S
  BY <1>1 DEF SumOf
<1>4. h[S] \in Fractions
  BY <1>2, <1>3 DEF IsSum
<1> QED
  BY <1>2, <1>3, <1>4, SumIsUnique

\* An element more adds its relevance.
LEMMA OneRelevanceMore ==
  ASSUME NEW S, IsFiniteSet(S), NEW V, Typed(V, S), NEW x \in S
  PROVE  /\ SumOf(S, V) = Plus(SumOf(S \ {x}, V), V[x])
         /\ SumOf(S, V) \in Fractions /\ SumOf(S \ {x}, V) \in Fractions
<1>1. PICK h : h = CHOOSE f : IsSum(f, S, V)
  OBVIOUS
<1>2. IsSum(h, S, V)
  BY <1>1, SumsExist
<1> DEFINE T == S \ {x}
<1>3. IsFiniteSet(T) /\ Typed(V, T) /\ T \in SUBSET S
  BY FS_Subset DEF Typed
<1>4. SumsUp(h, T, V)
  BY <1>2, <1>3 DEF SumsUp, IsSum
<1> HIDE DEF T
<1>5. h[T] = SumOf(T, V) /\ SumOf(T, V) \in Fractions
  BY <1>3, <1>4, SumFound
<1>6. h[S] = Plus(V[x], h[T]) /\ SumOf(S, V) = h[S] /\ h[S] \in Fractions
  BY <1>1, <1>2 DEF IsSum, SumOf, T
<1>7. Plus(V[x], h[T]) = Plus(h[T], V[x])
  BY <1>5, PlusCommutes DEF Typed
<1> QED
  BY <1>5, <1>6, <1>7 DEF T

\* Only the relevances of the elements matter.
LEMMA SameSum ==
  ASSUME NEW S, IsFiniteSet(S), NEW V, Typed(V, S), NEW W, \A x \in S : W[x] = V[x]
  PROVE  SumOf(S, W) = SumOf(S, V)
<1>1. PICK h : h = CHOOSE f : IsSum(f, S, W)
  OBVIOUS
<1>2. IsSum(h, S, W)
  <2>1. Typed(W, S)
    BY DEF Typed
  <2> QED
    BY <1>1, <2>1, SumsExist
<1>3. SumsUp(h, S, V)
  BY <1>2 DEF SumsUp, IsSum
<1> QED
  BY <1>1, <1>3, SumFound DEF SumOf

\* The sum of nothing is nothing, and that of one relevance is it.
LEMMA NoSum ==
  ASSUME NEW V
  PROVE  SumOf({}, V) = NoRelevance
<1>1. PICK h : h = CHOOSE f : IsSum(f, {}, V)
  OBVIOUS
<1>2. IsFiniteSet({}) /\ Typed(V, {})
  BY FS_EmptySet DEF Typed
<1>3. IsSum(h, {}, V)
  BY <1>1, <1>2, SumsExist
<1> QED
  BY <1>1, <1>3 DEF IsSum, SumOf

\* What FoldSet adds up in MergedExactly, processor by processor.
WeightedIn(c, q, d, p) ==
  Times(IF tree[c].kind = "byUrl" THEN 1 ELSE Weight[p], Relevance(p, q, d))

SumsOver(g, S, c, q, d) ==
  [s \in SUBSET S |->
     IF s = {} THEN <<0, 1>>
     ELSE Plus(WeightedIn(c, q, d, CHOOSE x \in s : TRUE), g[s \ {CHOOSE x \in s : TRUE}])]

WantedSum(S, c, q, d) ==
  FoldSet(LAMBDA p, r : Plus(Times(IF tree[c].kind = "byUrl" THEN 1 ELSE Weight[p],
                                   Relevance(p, q, d)), r),
          <<0, 1>>, S)

\* FoldSet adds up the relevances of a document to their sum.
LEMMA RelevancesAddUp ==
  ASSUME NEW c, NEW q, NEW d, NEW S, IsFiniteSet(S), NEW V, Typed(V, S),
         \A p \in S : WeightedIn(c, q, d, p) = V[p]
  PROVE  WantedSum(S, c, q, d) = SumOf(S, V)
<1> DEFINE Adds0(g) == g = SumsOver(g, S, c, q, d)
           t == [s \in SUBSET S |-> SumOf(s, V)]
<1>1. WantedSum(S, c, q, d) = (CHOOSE g : Adds0(g))[S]
  BY DEF WantedSum, FoldSet, MapThenFoldSet, SumsOver, WeightedIn
<1>2. Adds0(t)
  <2>1. ASSUME NEW s \in SUBSET S, s # {}
        PROVE  t[s] = Plus(WeightedIn(c, q, d, CHOOSE x \in s : TRUE),
                           t[s \ {CHOOSE x \in s : TRUE}])
    <3>1. PICK x \in s : x = CHOOSE y \in s : TRUE
      BY <2>1
    <3>2. IsFiniteSet(s) /\ Typed(V, s) /\ s \ {x} \in SUBSET S /\ x \in S
      BY FS_Subset DEF Typed
    <3>3. /\ SumOf(s, V) = Plus(SumOf(s \ {x}, V), V[x])
          /\ SumOf(s \ {x}, V) \in Fractions
      BY <3>2, OneRelevanceMore
    <3>4. SumOf(s, V) = Plus(V[x], SumOf(s \ {x}, V))
      BY <3>2, <3>3, PlusCommutes DEF Typed
    <3>5. t[s] = Plus(WeightedIn(c, q, d, x), t[s \ {x}])
      BY <3>2, <3>4
    <3> QED
      BY <3>1, <3>5
  <2>2. t[{}] = <<0, 1>>
    BY NoSum DEF NoRelevance
  <2>3. t = [s \in SUBSET S |-> t[s]]
    OBVIOUS
  <2> HIDE DEF t
  <2> QED
    BY <2>1, <2>2, <2>3 DEF SumsOver
<1>3. PICK g : g = CHOOSE h : Adds0(h)
  OBVIOUS
<1>4. Adds0(g)
  <2> HIDE DEF Adds0, t
  <2> QED
    BY <1>2, <1>3
<1>5. SumsUp(g, S, V)
  <2>1. g[{}] = NoRelevance
    BY <1>4 DEF SumsOver, NoRelevance
  <2>2. ASSUME NEW s \in SUBSET S, s # {}
        PROVE  \E x \in s : g[s] = Plus(V[x], g[s \ {x}])
    <3>1. PICK x \in s : x = CHOOSE y \in s : TRUE
      BY <2>2
    <3>2. g[s] = Plus(WeightedIn(c, q, d, x), g[s \ {x}])
      BY <1>4, <2>2, <3>1 DEF SumsOver
    <3> QED
      BY <3>2
  <2> QED
    BY <2>1, <2>2 DEF SumsUp
<1> QED
  BY <1>1, <1>3, <1>5, SumFound
-----------------------------------------------------------------------------
(* Merging a result *)

\* What m becomes when the relevances T of the keys K at the places in s are added.
Added(m, K, T, s) ==
  [k \in DOMAIN m \cup {K[j] : j \in s} |->
     IF k \notin {K[j] : j \in s} THEN m[k]
     ELSE LET j == CHOOSE i \in s : K[i] = k IN
          IF k \in DOMAIN m THEN Plus(m[k], T[j]) ELSE T[j]]

Distinct(K, s) == \A i, j \in s : K[i] = K[j] => i = j

IsAdded(a, m, K, T, s) ==
  /\ DOMAIN a = DOMAIN m \cup {K[j] : j \in s}
  /\ \A j \in s : a[K[j]] = IF K[j] \in DOMAIN m THEN Plus(m[K[j]], T[j]) ELSE T[j]
  /\ \A k \in DOMAIN m : k \notin {K[j] : j \in s} => a[k] = m[k]

\* Keys that differ do not get in each other's way.
LEMMA AddedFacts ==
  ASSUME NEW m, NEW K, NEW T, NEW s, Distinct(K, s)
  PROVE  IsAdded(Added(m, K, T, s), m, K, T, s)
<1>1. ASSUME NEW j \in s
      PROVE  Added(m, K, T, s)[K[j]] = IF K[j] \in DOMAIN m THEN Plus(m[K[j]], T[j]) ELSE T[j]
  <2>1. j = CHOOSE i \in s : K[i] = K[j]
    BY DEF Distinct
  <2>2. K[j] \in {K[i] : i \in s}
    OBVIOUS
  <2> QED
    BY <2>1, <2>2 DEF Added
<1> QED
  BY <1>1 DEF Added, IsAdded

\* One place more.
LEMMA AddedStep ==
  ASSUME NEW m, NEW K, NEW T, NEW s, Distinct(K, s), NEW x \in s
  PROVE  Added(m, K, T, s) = AddTo(Added(m, K, T, s \ {x}), K[x], T[x])
<1> DEFINE a == Added(m, K, T, s)
           r == s \ {x}
           b == Added(m, K, T, r)
           z == AddTo(b, K[x], T[x])
<1>a. IsAdded(a, m, K, T, s)
  BY AddedFacts
<1>b. IsAdded(b, m, K, T, r)
  <2>1. Distinct(K, r)
    BY DEF Distinct
  <2> HIDE DEF r
  <2> QED
    BY <2>1, AddedFacts
<1>1. /\ DOMAIN a = DOMAIN m \cup {K[j] : j \in s}
      /\ \A j \in s : a[K[j]] = IF K[j] \in DOMAIN m THEN Plus(m[K[j]], T[j]) ELSE T[j]
      /\ \A k \in DOMAIN m : k \notin {K[j] : j \in s} => a[k] = m[k]
  <2> HIDE DEF a
  <2> QED
    BY <1>a DEF IsAdded
<1>2. /\ DOMAIN b = DOMAIN m \cup {K[j] : j \in r}
      /\ \A j \in r : b[K[j]] = IF K[j] \in DOMAIN m THEN Plus(m[K[j]], T[j]) ELSE T[j]
      /\ \A k \in DOMAIN m : k \notin {K[j] : j \in r} => b[k] = m[k]
  <2> HIDE DEF b, r
  <2> QED
    BY <1>b DEF IsAdded
<1>3. s = r \cup {x} /\ x \notin r /\ K[x] \notin {K[j] : j \in r}
  BY DEF Distinct
<1>4. /\ DOMAIN z = DOMAIN b \cup {K[x]}
      /\ \A k \in DOMAIN z : k # K[x] => z[k] = b[k]
      /\ z[K[x]] = IF K[x] \in DOMAIN b THEN Plus(b[K[x]], T[x]) ELSE T[x]
      /\ z = [k \in DOMAIN z |-> z[k]]
  BY DEF AddTo
<1>5. a = [k \in DOMAIN a |-> a[k]]
  BY DEF Added
<1> HIDE DEF a, b, z, r
<1>6. DOMAIN z = DOMAIN a
  BY <1>1, <1>2, <1>3, <1>4
<1>7. ASSUME NEW k \in DOMAIN a PROVE z[k] = a[k]
  <2>1. CASE k = K[x]
    <3>1. K[x] \in DOMAIN b <=> K[x] \in DOMAIN m
      BY <1>2, <1>3
    <3>2. K[x] \in DOMAIN m => b[K[x]] = m[K[x]]
      BY <1>2, <1>3
    <3>3. a[K[x]] = IF K[x] \in DOMAIN m THEN Plus(m[K[x]], T[x]) ELSE T[x]
      BY <1>1
    <3> QED
      BY <1>4, <2>1, <3>1, <3>2, <3>3
  <2>2. CASE k # K[x] /\ k \in {K[j] : j \in r}
    <3>1. PICK j \in r : k = K[j]
      BY <2>2
    <3>2. a[k] = b[k]
      BY <1>1, <1>2, <1>3, <3>1
    <3> QED
      BY <1>4, <1>6, <2>2, <3>2
  <2>3. CASE k # K[x] /\ k \notin {K[j] : j \in r}
    <3>1. k \notin {K[j] : j \in s} /\ k \in DOMAIN m
      BY <1>1, <1>3, <2>3
    <3> QED
      BY <1>1, <1>2, <1>4, <1>6, <2>3, <3>1
  <2> QED
    BY <2>1, <2>2, <2>3
<1> QED
  BY <1>4, <1>5, <1>6, <1>7 DEF a, b, z, r

\* The name or ID under which a result is merged.
KeyOfResult(c, r) == IF tree[c].kind = "byUrl" THEN Name(catalogue, r.id) ELSE r.id

MergesOver(g, c, p) ==
  [s \in SUBSET DOMAIN eval[p].result |->
     IF s = {} THEN merged[c]
     ELSE AddTo(g[s \ {Max(s)}], KeyOfResult(c, eval[p].result[Max(s)]),
                Times(ResultWeight(c, p), eval[p].result[Max(s)].rel))]

IsMap(m) == m = [k \in DOMAIN m |-> m[k]]

\* FoldLeft adds what a processor has found.
LEMMA ResultAdds ==
  ASSUME NEW c, NEW p, NEW n \in Nat, DOMAIN eval[p].result = 1 .. n,
         IsMap(merged[c]),
         NEW K, \A j \in 1 .. n : K[j] = KeyOfResult(c, eval[p].result[j]),
         Distinct(K, 1 .. n),
         NEW T, \A j \in 1 .. n : T[j] = Times(ResultWeight(c, p), eval[p].result[j].rel)
  PROVE  WithResult(c, p) = Added(merged[c], K, T, 1 .. n)
<1> DEFINE Merges(g) == g = MergesOver(g, c, p)
           S == 1 .. n
           t == [s \in SUBSET S |-> Added(merged[c], K, T, s)]
<1>1. WithResult(c, p) = (CHOOSE g : Merges(g))[S]
  <2>1. DOMAIN eval[p].result = S
    OBVIOUS
  <2>2. WithResult(c, p) = (CHOOSE g : Merges(g))[DOMAIN eval[p].result]
    BY DEF WithResult, FoldLeft, MapThenFoldSet, MergesOver, KeyOfResult
  <2> QED
    BY <2>1, <2>2
<1>2. \A s \in SUBSET S : s # {} => Max(s) \in s
  <2>1. \A s \in SUBSET S : s # {} => s \subseteq Nat /\ \A k \in s : k <= n
    OBVIOUS
  <2> HIDE DEF S
  <2> QED
    BY <2>1, Largest
<1>3. t[{}] = merged[c]
  BY DEF Added, IsMap
<1>4. ASSUME NEW s \in SUBSET S, s # {}
      PROVE  /\ Max(s) \in s /\ s \ {Max(s)} \in SUBSET S
             /\ t[s] = AddTo(t[s \ {Max(s)}], KeyOfResult(c, eval[p].result[Max(s)]),
                             Times(ResultWeight(c, p), eval[p].result[Max(s)].rel))
  <2>1. PICK x \in s : x = Max(s)
    BY <1>2, <1>4
  <2>2. Distinct(K, s)
    BY DEF Distinct
  <2>3. Added(merged[c], K, T, s) = AddTo(Added(merged[c], K, T, s \ {x}), K[x], T[x])
    <3>1. PICK m : m = merged[c]
      OBVIOUS
    <3>2. x \in s
      OBVIOUS
    <3>3. Added(m, K, T, s) = AddTo(Added(m, K, T, s \ {x}), K[x], T[x])
      BY ONLY <2>2, <3>2, AddedStep
    <3> QED
      BY <3>1, <3>3
  <2>4. /\ s \ {x} \in SUBSET S /\ x \in S
        /\ t[s] = Added(merged[c], K, T, s)
        /\ t[s \ {x}] = Added(merged[c], K, T, s \ {x})
    OBVIOUS
  <2>5. /\ K[x] = KeyOfResult(c, eval[p].result[x])
        /\ T[x] = Times(ResultWeight(c, p), eval[p].result[x].rel)
    BY <2>4
  <2> HIDE DEF t, S
  <2> QED
    BY <2>1, <2>3, <2>4, <2>5
<1>5. Merges(t)
  <2>1. t = [s \in SUBSET DOMAIN eval[p].result |-> t[s]]
    OBVIOUS
  <2>2. DOMAIN eval[p].result = S
    OBVIOUS
  <2> HIDE DEF t, S
  <2> QED
    BY <1>3, <1>4, <2>1, <2>2 DEF MergesOver
<1>6. PICK g : g = CHOOSE h : Merges(h)
  OBVIOUS
<1>7. Merges(g)
  <2> HIDE DEF Merges, t
  <2> QED
    BY <1>5, <1>6
<1> DEFINE F == {s \in SUBSET S : g[s] # t[s]}
<1>8. ASSUME F # {} PROVE FALSE
  <2>1. PICK s \in F : \A u \in F : u \subseteq s => u = s
    <3>1. F \in SUBSET (SUBSET S)
      OBVIOUS
    <3>2. IsFiniteSet(S)
      BY FS_Interval, 1 \in Int /\ n \in Int
    <3> HIDE DEF F, S
    <3> QED
      BY <1>8, <3>1, <3>2, MinimalSet
  <2>2. s \in SUBSET S /\ g[s] # t[s]
    BY <2>1
  <2>3. DOMAIN eval[p].result = S
    OBVIOUS
  <2> HIDE DEF t, S
  <2>4. s # {}
    BY <1>3, <1>7, <2>2, <2>3 DEF MergesOver
  <2>5. s \ {Max(s)} \in SUBSET S /\ s \ {Max(s)} \subseteq s /\ s \ {Max(s)} # s
    BY <1>4, <2>2, <2>4
  <2>6. g[s \ {Max(s)}] = t[s \ {Max(s)}]
    BY <2>1, <2>5
  <2>7. g[s] = AddTo(g[s \ {Max(s)}], KeyOfResult(c, eval[p].result[Max(s)]),
                     Times(ResultWeight(c, p), eval[p].result[Max(s)].rel))
    BY <1>7, <2>2, <2>3, <2>4 DEF MergesOver
  <2> QED
    BY <1>4, <2>2, <2>4, <2>6, <2>7
<1>9. g[S] = t[S]
  <2>1. S \in SUBSET S
    OBVIOUS
  <2> QED
    BY <1>8, <2>1
<1> QED
  BY <1>1, <1>6, <1>9
-----------------------------------------------------------------------------
(* What processors find *)

\* The accessor's catalogue begins with the collection.
Collected(known) ==
  \A d \in DOMAIN Collection : d \in DOMAIN known /\ known[d] = Collection[d]

\* The features the score of the query has been added up of, and what they add.
Taken(e) == {e.queue[j] : j \in 1 .. e.count}
ScoresOf(e) == [f \in Features |-> ApplyOnThis(f, e.tf[f])]

ScoreFit(p, e) ==
  /\ e.at \in Reading \cup Scoring => e.query.cutoff \in Nat
  /\ e.at \in Reading => e.score = 0
  /\ e.at \in Scoring => /\ e.score = Total(Features, Taken(e), ScoresOf(e))
                         /\ ReduceAt[p] = 0 => ~e.ignore

\* The relevance of a document, and the documents that are found, by the terms e
\* has counted.
RelevanceIn(e, d) ==
  <<Total(Features, Features, GainsOf(e, d)), Total(Features, Features, ScoresOf(e))>>

FoundIn(e) ==
  {d \in DOMAIN Collection :
     /\ \E f \in Features : e.tf[f] > 0 /\ d \in ListOf[f]
     /\ 100 * RelevanceIn(e, d)[1] >= e.query.cutoff * RelevanceIn(e, d)[2]}

\* A processor that evaluates all features, and whose result is not cut.
Whole(p, e) == Percent[p] = 100 /\ ReduceAt[p] = 0 /\ Len(Collection) <= e.limit

\* The result has every document found, once, with its relevance.
ResultFit(e) ==
  \E n \in Nat :
    /\ DOMAIN e.result = 1 .. n
    /\ \A j, k \in 1 .. n : e.result[j].id = e.result[k].id => j = k
    /\ {e.result[j].id : j \in 1 .. n} = FoundIn(e)
    /\ \A j \in 1 .. n : e.result[j].rel = RelevanceIn(e, e.result[j].id)

DoneFit(p, e, F, known) ==
  /\ e.at = "failed" => e.result = <<>>
  /\ e.at = "done" /\ e.query.images # <<>> =>
       /\ e.left = <<>> /\ TermsFit(p, e, F, known)
       /\ Whole(p, e) => ResultFit(e)

\* What features add to the score of a query.
LEMMA ScoreFacts ==
  ASSUME NEW e, e.tf \in [Features -> Nat]
  PROVE  /\ ScoresOf(e) \in [Features -> Nat]
         /\ \A f \in Features : e.tf[f] = 0 => ScoresOf(e)[f] = 0
         /\ \A f \in Indexed : e.tf[f] > 0 => ScoresOf(e)[f] > 0
<1>1. ASSUME NEW f \in Features
      PROVE  /\ ApplyOnThis(f, e.tf[f]) \in Nat
             /\ e.tf[f] = 0 => ApplyOnThis(f, e.tf[f]) = 0
             /\ f \in Indexed /\ e.tf[f] > 0 => ApplyOnThis(f, e.tf[f]) > 0
  <2>1. e.tf[f] \in Nat /\ Idf[f] \in Nat /\ Idf[f] > 0
    BY QueryProcessingAssumption
  <2>2. e.tf[f] * Idf[f] \in Nat
    BY <2>1
  <2>3. e.tf[f] = 0 => e.tf[f] * Idf[f] = 0
    BY <2>1
  <2>4. e.tf[f] > 0 => e.tf[f] * Idf[f] > 0
    BY <2>1
  <2> QED
    BY <2>1, <2>2, <2>3, <2>4 DEF ApplyOnThis, Factor
<1>2. Indexed \subseteq Features
  BY DEF Indexed
<1> QED
  BY <1>1, <1>2 DEF ScoresOf

\* The terms a processor has counted decide what it finds.
LEMMA SameFinds ==
  ASSUME NEW e, NEW new, SameTerms(new, e)
  PROVE  /\ ScoresOf(new) = ScoresOf(e) /\ FoundIn(new) = FoundIn(e)
         /\ \A d : RelevanceIn(new, d) = RelevanceIn(e, d)
<1>1. ScoresOf(new) = ScoresOf(e)
  BY DEF SameTerms, ScoresOf
<1>2. \A d : RelevanceIn(new, d) = RelevanceIn(e, d)
  BY <1>1, SameGains DEF RelevanceIn
<1> QED
  BY <1>1, <1>2 DEF SameTerms, FoundIn

\* At the end of the loop over features all of them have been evaluated, unless the
\* processor is content with a part of them.
LEMMA AllEvaluated ==
  ASSUME NEW p \in Threads, NEW e, QueueFit(e), e.at = "features", Percent[p] = 100,
         ~(e.count < Len(e.queue) /\ e.count # (Percent[p] * Len(e.queue)) \div 100)
  PROVE  /\ Evaluated(e) = {f \in Features : e.tf[f] > 0}
         /\ Taken(e) = {f \in Features : e.tf[f] > 0}
<1>1. /\ e.queue \in Seq(Features) /\ e.count \in 0 .. Len(e.queue)
      /\ \A f \in Features : e.tf[f] > 0 <=> \E k \in 1 .. Len(e.queue) : e.queue[k] = f
  BY DEF QueueFit
<1>2. Len(e.queue) \in Nat /\ \A k \in 1 .. Len(e.queue) : e.queue[k] \in Features
  BY <1>1
<1>3. \A n \in Nat : (100 * n) \div 100 = n
  OBVIOUS
<1>4. e.count = Len(e.queue)
  <2>1. (Percent[p] * Len(e.queue)) \div 100 = Len(e.queue)
    BY <1>2, <1>3, ZenonT(60)
  <2>2. PICK k, n \in Nat : k = e.count /\ n = Len(e.queue)
    BY <1>1, <1>2
  <2>3. ~(e.count < Len(e.queue) /\ e.count # Len(e.queue))
    BY <2>1
  <2>4. k <= n
    BY <1>1, <2>2
  <2>5. ~(k < n /\ k # n)
    BY <2>2, <2>3
  <2> QED
    BY <2>2, <2>4, <2>5
<1>5. {e.queue[j] : j \in 1 .. Len(e.queue)} = {f \in Features : e.tf[f] > 0}
  BY <1>1, <1>2
<1> QED
  BY <1>4, <1>5 DEF Evaluated, Taken

\* The score board has the relevance of the documents, and what is close enough on
\* it is what is found.
BoardTells(e) ==
  /\ \A d \in DOMAIN e.board : <<e.board[d], e.score>> = RelevanceIn(e, d)
  /\ DOMAIN e.board \subseteq DOMAIN Collection
  /\ e.board \in [DOMAIN e.board -> Nat]
  /\ e.score \in Nat /\ (DOMAIN e.board # {} => e.score > 0)
  /\ {d \in DOMAIN e.board : 100 * e.board[d] >= e.query.cutoff * e.score} = FoundIn(e)

\* So it is if a processor has evaluated everything.
LEMMA BoardIsRelevance ==
  ASSUME NEW p \in Threads, NEW e, e.tf \in [Features -> Nat], e.query.images \in Seq(Images),
         QueueFit(e), BoardFit(e), ScoreFit(p, e), e.at = "features", Percent[p] = 100,
         ReduceAt[p] = 0,
         ~(e.count < Len(e.queue) /\ e.count # (Percent[p] * Len(e.queue)) \div 100)
  PROVE  BoardTells(e)
<1> DEFINE W == {f \in Features : e.tf[f] > 0}
<1>1. Evaluated(e) = W /\ Taken(e) = W /\ W \in SUBSET Features
  <2>1. Evaluated(e) = {f \in Features : e.tf[f] > 0} /\ Taken(e) = {f \in Features : e.tf[f] > 0}
    BY AllEvaluated, ZenonT(60)
  <2> QED
    BY <2>1
<1>2. IsFiniteSet(Features)
  BY QueryProcessingAssumption
<1>3. /\ ScoresOf(e) \in [Features -> Nat]
      /\ \A f \in Features : e.tf[f] = 0 => ScoresOf(e)[f] = 0
      /\ \A f \in Indexed : e.tf[f] > 0 => ScoresOf(e)[f] > 0
  BY ScoreFacts
<1>4. \A f \in Features \ W : e.tf[f] = 0
  OBVIOUS
<1>5. e.score = Total(Features, W, ScoresOf(e)) /\ ~e.ignore
  BY <1>1 DEF ScoreFit, Scoring
<1>6. e.score = Total(Features, Features, ScoresOf(e)) /\ e.score \in Nat
  <2>1. PICK G \in [Features -> Nat] : G = ScoresOf(e)
    BY <1>3
  <2>2. \A f \in Features \ W : G[f] = 0
    BY <1>3, <1>4, <2>1
  <2> HIDE DEF W
  <2>3. Total(Features, Features, G) = Total(Features, W, G)
    BY <1>1, <1>2, <2>2, TotalOfParts
  <2>4. Total(Features, W, G) \in Nat
    BY <1>1, <1>2, TotalFacts
  <2> QED
    BY <1>5, <2>1, <2>3, <2>4
<1>7. /\ DOMAIN e.board = ScoredBy(W) /\ e.board \in [DOMAIN e.board -> Nat]
      /\ \A d \in DOMAIN e.board : e.board[d] = Total(Features, W, GainsOf(e, d))
  <2> HIDE DEF W
  <2> QED
    BY <1>1, <1>5 DEF BoardFit, BoardHas
<1>8. DOMAIN e.board \subseteq DOMAIN Collection
  BY <1>7 DEF ScoredBy
<1>9. ASSUME NEW d \in DOMAIN e.board
      PROVE  e.board[d] = Total(Features, Features, GainsOf(e, d))
  <2>1. d \in DOMAIN Collection
    BY <1>8
  <2>2. PICK G : G = GainsOf(e, d)
    OBVIOUS
  <2>3. G \in [Features -> Nat]
    BY <2>1, <2>2, GainFacts
  <2>4. \A f \in Features \ W : G[f] = 0
    BY <1>4, <2>2 DEF GainsOf, GainOf
  <2> HIDE DEF W
  <2>5. Total(Features, Features, G) = Total(Features, W, G)
    BY <1>1, <1>2, <2>3, <2>4, TotalOfParts
  <2> QED
    BY <1>7, <2>2, <2>5
<1>10. \A d \in DOMAIN e.board : RelevanceIn(e, d) = <<e.board[d], e.score>>
  BY <1>6, <1>9 DEF RelevanceIn
<1>11. ASSUME NEW d \in DOMAIN e.board PROVE e.score > 0
  <2>1. PICK f \in W : d \in ListOf[f]
    BY <1>7 DEF ScoredBy
  <2>2. f \in Indexed
    BY <2>1 DEF Indexed
  <2>3. ScoresOf(e)[f] > 0
    BY <1>3, <2>2
  <2>4. PICK G \in [Features -> Nat] : G = ScoresOf(e)
    BY <1>3
  <2> HIDE DEF W
  <2>5. Total(Features, W, G) > 0
    BY <1>1, <1>2, <2>3, <2>4, TotalPositive
  <2> QED
    BY <1>5, <2>4, <2>5
<1>12. {d \in DOMAIN e.board : 100 * e.board[d] >= e.query.cutoff * e.score} = FoundIn(e)
  <2>1. \A d : d \in DOMAIN e.board <=>
          d \in DOMAIN Collection /\ \E f \in Features : e.tf[f] > 0 /\ d \in ListOf[f]
    BY <1>7 DEF ScoredBy
  <2>2. \A d \in DOMAIN e.board : /\ RelevanceIn(e, d)[1] = e.board[d]
                                  /\ RelevanceIn(e, d)[2] = e.score
    BY <1>10
  <2> HIDE DEF W
  <2> QED
    BY <2>1, <2>2 DEF FoundIn
<1> QED
  BY <1>6, <1>7, <1>8, <1>10, <1>11, <1>12 DEF BoardTells

\* The result is the front of the ranking.
LEMMA RankFinds ==
  ASSUME IInv, ExactInv, NEW p \in Threads, Rank(p), ScoreFit(p, eval[p])
  PROVE  DoneFit(p, eval'[p], files, catalogue)
<1> DEFINE e == eval[p]
           new == eval'[p]
           S == DOMAIN e.board
           rel == [d \in S |-> <<e.board[d], e.score>>]
           close == {d \in S : 100 * e.board[d] >= e.query.cutoff * e.score}
           m == Lesser(e.limit, Cardinality(close))
           wanted == SubSeq(Ranking(rel, FALSE), 1, m)
           result == [j \in DOMAIN wanted |-> [id |-> wanted[j], rel |-> rel[wanted[j]]]]
<1>1. /\ e.at = "features" /\ ~Continues(p)
      /\ eval' = [eval EXCEPT ![p].at = "done", ![p].result = result]
      /\ DOMAIN e = Fields /\ DOMAIN eval = Threads /\ EvalFit(p, e, files, catalogue)
  BY ProcessorFacts DEF Rank
<1>2. /\ new.at = "done" /\ new.result = result /\ SameTerms(new, e)
      /\ new.left = e.left /\ new.limit = e.limit
  <2>1. new = [e EXCEPT !.at = "done", !.result = result]
    <3> HIDE DEF result
    <3> QED
      BY <1>1
  <2>2. DOMAIN e = Fields
    BY <1>1
  <2> HIDE DEF e, new, result
  <2> QED
    BY <2>1, <2>2 DEF Fields, SameTerms
<1>3. /\ TermsFit(p, e, files, catalogue) /\ e.limit \in Nat
      /\ e.left = <<>> /\ QueueFit(e) /\ BoardFit(e) /\ e.query.cutoff \in Nat
  BY <1>1 DEF EvalFit, Scoring, ScoreFit
<1>4. e.tf \in [Features -> Nat] /\ e.query.images \in Seq(Images)
  BY <1>3, TermsTyped
<1> HIDE DEF e, new, result
<1>5. ASSUME Whole(p, new) PROVE ResultFit(new)
  <2>1. Percent[p] = 100 /\ ReduceAt[p] = 0 /\ Len(Collection) <= e.limit
    BY <1>2, <1>5 DEF Whole
  <2>2. ~(e.count < Len(e.queue) /\ e.count # (Percent[p] * Len(e.queue)) \div 100)
    BY <1>1 DEF Continues, e
  <2>3. ScoreFit(p, e)
    BY DEF e
  <2>4. /\ \A d \in S : <<e.board[d], e.score>> = RelevanceIn(e, d)
        /\ S \subseteq DOMAIN Collection /\ e.board \in [S -> Nat]
        /\ e.score \in Nat /\ (S # {} => e.score > 0) /\ close = FoundIn(e)
    <3>1. e.at = "features"
      BY <1>1
    <3>2. BoardTells(e)
      BY <1>3, <1>4, <2>1, <2>2, <2>3, <3>1, BoardIsRelevance
    <3> QED
      BY <3>2 DEF BoardTells
  <2>5. PICK n \in Nat \ {0} : S # {} => n = e.score
    <3>1. 1 \in Nat \ {0}
      OBVIOUS
    <3> QED
      BY <2>4, <3>1
  <2>6. rel = [d \in S |-> <<e.board[d], n>>]
    BY <2>5
  <2>7. IsFiniteSet(S) /\ S \subseteq Nat /\ Cardinality(S) \in Nat
        /\ Cardinality(S) <= Len(Collection)
    <3>1. DOMAIN Collection = 1 .. Len(Collection) /\ Len(Collection) \in Nat
      BY QueryProcessingAssumption
    <3>2. IsFiniteSet(1 .. Len(Collection)) /\ Cardinality(1 .. Len(Collection)) = Len(Collection)
      <4>1. \A k \in Nat : IsFiniteSet(1 .. k) /\ Cardinality(1 .. k) = k
        BY FS_Interval
      <4> QED
        BY <3>1, <4>1
    <3>3. S \in SUBSET (1 .. Len(Collection))
      BY <2>4, <3>1
    <3> HIDE DEF S
    <3>4. IsFiniteSet(S) /\ Cardinality(S) <= Len(Collection)
      BY <3>2, <3>3, FS_Subset
    <3> QED
      BY <3>3, <3>4, FS_CardinalityType
  <2> DEFINE r == Ranking(rel, FALSE)
             T == e.query.cutoff * e.score
             k == Cardinality(close)
  <2>8. T \in Nat
    BY <1>3, <2>4
  <2>9. /\ Enumerates(r, S) /\ Len(r) = Cardinality(S)
        /\ BeginsWith(r, close, S)
    <3>1. PICK b \in [S -> Nat] : b = e.board
      BY <2>4
    <3> DEFINE q == Ranking([d \in S |-> <<b[d], n>>], FALSE)
    <3>2. /\ Enumerates(q, S) /\ Len(q) = Cardinality(S)
          /\ \A t \in Nat : BeginsWith(q, {d \in S : 100 * b[d] >= t}, S)
      <4> HIDE DEF S
      <4> QED
        BY <2>7, ScoresRanked
    <3>3. r = q
      BY <2>6, <3>1
    <3>4. BeginsWith(q, {d \in S : 100 * b[d] >= T}, S)
      <4> HIDE DEF q, T, S
      <4> QED
        BY <2>8, <3>2
    <3>5. {d \in S : 100 * b[d] >= T} = close
      BY <3>1
    <3> HIDE DEF q, r, S, close, T
    <3> QED
      BY <3>2, <3>3, <3>4, <3>5
  <2> HIDE DEF S, rel, close, r, T
  <2>10. k \in Nat /\ k <= Len(r) /\ {r[j] : j \in 1 .. k} = close /\ k <= e.limit /\ m = k
    <3>1. k \in Nat /\ k <= Cardinality(S) /\ {r[j] : j \in 1 .. k} = close
      BY <2>9 DEF BeginsWith
    <3>2. Len(Collection) \in Nat
      BY QueryProcessingAssumption
    <3>3. k <= e.limit
      BY <1>3, <2>1, <2>7, <3>1, <3>2
    <3>4. m = k
      BY <1>3, <3>1, <3>3 DEF Lesser
    <3> QED
      BY <2>9, <3>1, <3>3, <3>4
  <2>11. r \in Seq(S) /\ \A i, j \in 1 .. Len(r) : r[i] = r[j] => i = j
    BY <2>9 DEF Enumerates
  <2> HIDE DEF k, m
  <2>12. DOMAIN wanted = 1 .. k /\ \A j \in 1 .. k : wanted[j] = r[j] /\ r[j] \in S
    <3>1. wanted = SubSeq(r, 1, k)
      BY <2>10 DEF r
    <3> HIDE DEF wanted
    <3> QED
      BY <2>10, <2>11, <3>1
  <2> HIDE DEF wanted
  <2>13. /\ DOMAIN result = 1 .. k
         /\ \A j \in 1 .. k : result[j].id = r[j] /\ result[j].rel = <<e.board[r[j]], e.score>>
    BY <2>12 DEF result, rel
  <2>14. \A i, j \in 1 .. k : result[i].id = result[j].id => i = j
    BY <2>10, <2>11, <2>13
  <2>15. {result[j].id : j \in 1 .. k} = FoundIn(e)
    BY <2>4, <2>10, <2>13
  <2>16. \A j \in 1 .. k : result[j].rel = RelevanceIn(e, result[j].id)
    BY <2>4, <2>12, <2>13
  <2>17. FoundIn(new) = FoundIn(e) /\ \A d : RelevanceIn(new, d) = RelevanceIn(e, d)
    BY <1>2, SameFinds
  <2> QED
    BY SMTT(30), <1>2, <2>10, <2>13, <2>14, <2>15, <2>16, <2>17 DEF ResultFit
<1>6. TermsFit(p, new, files, catalogue)
  BY <1>2, <1>3, NothingGrows, TermsKept
<1> QED
  BY <1>2, <1>3, <1>5, <1>6 DEF DoneFit, new
-----------------------------------------------------------------------------
(* Processors keep their scores *)

\* The accessor only learns of more images.
Learns ==
  /\ Grows(files, catalogue, files', catalogue')
  /\ Collected(catalogue) => Collected(catalogue')

\* Processor p goes on with the same query, and nobody else does anything.
Works(p) ==
  /\ \A q \in Threads : q # p => eval'[q] = eval[q]
  /\ eval[p].at \in Reading \cup Scoring
  /\ eval'[p].at \in Reading \cup Scoring \cup {"done"}
  /\ eval'[p].query = eval[p].query /\ eval'[p].limit = eval[p].limit
  /\ Learns /\ UNCHANGED connVars
  /\ ScoreFit(p, eval'[p]) /\ DoneFit(p, eval'[p], files', catalogue')

LEMMA NothingLearnt ==
  ASSUME UNCHANGED <<files, catalogue>>
  PROVE  Learns
BY NothingGrows DEF Learns

\* A processor that reads the images of its query has no score yet.
LEMMA ReadingScores ==
  ASSUME NEW p, NEW e, ScoreFit(p, e), e.at \in Reading, NEW new, new.at \in Reading,
         new.query = e.query, new.score = e.score, NEW F, NEW known
  PROVE  ScoreFit(p, new) /\ DoneFit(p, new, F, known)
BY DEF ScoreFit, DoneFit, Reading, Scoring

LEMMA CollectKnownWorks ==
  ASSUME IInv, ExactInv, NEW p \in Threads, CollectKnown(p), ScoreFit(p, eval[p])
  PROVE  Works(p)
<1> DEFINE e == eval[p]
           new == eval'[p]
<1>1. /\ e.at = "images" /\ DOMAIN e = Fields /\ DOMAIN eval = Threads
      /\ UNCHANGED <<files, catalogue, connVars>>
  BY ProcessorFacts DEF CollectKnown, accVars
<1>2. eval' = [eval EXCEPT ![p].left = Tail(@), ![p].tf = Terms(p, Head(e.left))]
  BY DEF CollectKnown
<1>3. /\ \A q \in Threads : q # p => eval'[q] = eval[q]
      /\ new.query = e.query /\ new.at = "images" /\ new.limit = e.limit
      /\ new.score = e.score
  BY <1>1, <1>2 DEF Fields
<1>4. e.at \in Reading /\ new.at \in Reading
  BY <1>1, <1>3 DEF Reading
<1>5. ScoreFit(p, new) /\ DoneFit(p, new, files', catalogue')
  BY <1>3, <1>4, ReadingScores
<1> QED
  BY <1>1, <1>3, <1>4, <1>5, NothingLearnt DEF Works

LEMMA ExtractWorks ==
  ASSUME IInv, ExactInv, NEW p \in Threads, Extract(p), ScoreFit(p, eval[p])
  PROVE  Works(p)
<1> DEFINE e == eval[p]
           new == eval'[p]
<1>1. /\ e.at = "images" /\ DOMAIN e = Fields /\ DOMAIN eval = Threads
      /\ UNCHANGED <<files, catalogue, connVars>>
  BY ProcessorFacts DEF Extract
<1>2. eval' = [eval EXCEPT ![p].at = "extract"]
  BY DEF Extract
<1>3. /\ \A q \in Threads : q # p => eval'[q] = eval[q]
      /\ new.query = e.query /\ new.at = "extract" /\ new.limit = e.limit
      /\ new.score = e.score
  BY <1>1, <1>2 DEF Fields
<1>4. e.at \in Reading /\ new.at \in Reading
  BY <1>1, <1>3 DEF Reading
<1>5. ScoreFit(p, new) /\ DoneFit(p, new, files', catalogue')
  BY <1>3, <1>4, ReadingScores
<1> QED
  BY <1>1, <1>3, <1>4, <1>5, NothingLearnt DEF Works

\* The image that is added is behind the collection.
LEMMA AddImageWorks ==
  ASSUME IInv, ExactInv, NEW p \in Threads, AddImage(p), ScoreFit(p, eval[p])
  PROVE  Works(p)
<1> DEFINE e == eval[p]
           i == Head(e.left)
           new == eval'[p]
<1>1. /\ e.at = "extract" /\ DOMAIN e = Fields /\ DOMAIN eval = Threads
      /\ UNCHANGED connVars /\ catalogue' = Append(catalogue, i)
  BY ProcessorFacts DEF AddImage
<1>2. PICK ok \in Extracts :
        eval' = [eval EXCEPT ![p].at = "images", ![p].left = Tail(@),
                             ![p].tf = IF ok THEN WithImage(p, @, i) ELSE @]
  BY DEF AddImage
<1>3. /\ \A q \in Threads : q # p => eval'[q] = eval[q]
      /\ new.query = e.query /\ new.at = "images" /\ new.limit = e.limit
      /\ new.score = e.score
  BY <1>1, <1>2 DEF Fields
<1>4. e.at \in Reading /\ new.at \in Reading
  BY <1>1, <1>3 DEF Reading
<1>5. ScoreFit(p, new) /\ DoneFit(p, new, files', catalogue')
  BY <1>3, <1>4, ReadingScores
<1>6. Learns
  <2>1. catalogue \in Seq(Images) /\ Len(catalogue) \in Nat
    BY DEF IInv, CatalogueInv
  <2>2. \A d \in DOMAIN catalogue : d \in DOMAIN catalogue' /\ catalogue'[d] = catalogue[d]
    <3>1. PICK s \in Seq(Images) : s = catalogue
      BY <2>1
    <3>2. PICK x : x = i
      OBVIOUS
    <3> HIDE DEF i
    <3>3. \A d \in DOMAIN s : d \in DOMAIN Append(s, x) /\ Append(s, x)[d] = s[d]
      OBVIOUS
    <3> QED
      BY <1>1, <3>1, <3>2, <3>3
  <2>3. Grows(files, catalogue, files', catalogue')
    BY AddImageGrows
  <2> QED
    BY <2>2, <2>3 DEF Learns, Collected
<1> QED
  BY <1>1, <1>3, <1>4, <1>5, <1>6 DEF Works

\* Random documents are no answer to images.
LEMMA RandomIDsWorks ==
  ASSUME IInv, ExactInv, NEW p \in Threads, RandomIDs(p), ScoreFit(p, eval[p])
  PROVE  Works(p)
<1> DEFINE e == eval[p]
           new == eval'[p]
<1>1. /\ e.at = "images" /\ DOMAIN e = Fields /\ DOMAIN eval = Threads
      /\ e.query.images = <<>> /\ UNCHANGED <<files, catalogue, connVars>>
  BY ProcessorFacts DEF RandomIDs, accVars
<1>2. PICK r : eval' = [eval EXCEPT ![p].at = "done", ![p].result = r]
  BY DEF RandomIDs
<1>3. /\ \A q \in Threads : q # p => eval'[q] = eval[q]
      /\ new.query = e.query /\ new.at = "done" /\ new.limit = e.limit
  BY <1>1, <1>2 DEF Fields
<1>4. ScoreFit(p, new) /\ DoneFit(p, new, files', catalogue')
  BY <1>1, <1>3 DEF ScoreFit, DoneFit, Reading, Scoring
<1> QED
  BY <1>1, <1>3, <1>4, NothingLearnt DEF Works, Reading

\* No feature has been evaluated yet.
LEMMA BeginWorks ==
  ASSUME IInv, ExactInv, NEW p \in Threads, Begin(p), ScoreFit(p, eval[p])
  PROVE  Works(p)
<1> DEFINE e == eval[p]
           new == eval'[p]
<1>1. /\ e.at = "images" /\ DOMAIN e = Fields /\ DOMAIN eval = Threads
      /\ EvalFit(p, e, files, catalogue) /\ UNCHANGED <<files, catalogue, connVars>>
  BY ProcessorFacts DEF Begin, accVars
<1>2. eval' = [eval EXCEPT ![p].at = "features", ![p].queue = ByFactor(e.tf)]
  BY DEF Begin
<1>3. /\ \A q \in Threads : q # p => eval'[q] = eval[q]
      /\ new.query = e.query /\ new.at = "features" /\ new.limit = e.limit
      /\ new.score = e.score /\ new.count = e.count /\ new.ignore = e.ignore
      /\ new.tf = e.tf
  BY <1>1, <1>2 DEF Fields
<1>4. /\ TermsFit(p, e, files, catalogue) /\ e.count = 0 /\ ~e.ignore /\ e.score = 0
      /\ e.query.cutoff \in Nat
  BY <1>1 DEF EvalFit, Fresh, ScoreFit, Reading
<1> HIDE DEF e, new
<1>5. Taken(new) = {}
  BY <1>3, <1>4 DEF Taken
<1>6. Total(Features, {}, ScoresOf(new)) = 0
  <2>1. new.tf \in [Features -> Nat]
    BY <1>3, <1>4, TermsTyped
  <2>2. PICK G \in [Features -> Nat] : G = ScoresOf(new)
    BY <2>1, ScoreFacts
  <2> QED
    BY <2>2, TotalFacts, QueryProcessingAssumption
<1>7. ScoreFit(p, new) /\ DoneFit(p, new, files', catalogue')
  BY <1>3, <1>4, <1>5, <1>6 DEF ScoreFit, DoneFit, Reading, Scoring
<1> QED
  BY <1>1, <1>3, <1>7, NothingLearnt DEF Works, Reading, Scoring, e, new

\* A feature adds its part to the score before its list is read.
LEMMA SeekWorks ==
  ASSUME IInv, ExactInv, NEW p \in Threads, Seek(p), ScoreFit(p, eval[p])
  PROVE  Works(p)
<1> DEFINE old == eval[p]
           e == Pruned(p)
           f == e.queue[e.count + 1]
           new == eval'[p]
<1>1. /\ DOMAIN old = Fields /\ DOMAIN eval = Threads /\ EvalFit(p, old, files, catalogue)
      /\ DOMAIN e = Fields
  BY ProcessorFacts, PrunedLemma
<1>2. /\ old.at = "features" /\ Continues(p) /\ UNCHANGED <<files, catalogue, connVars>>
      /\ eval' = [eval EXCEPT ![p] =
           [e EXCEPT !.count = @ + 1, !.score = @ + ApplyOnThis(f, e.tf[f]),
                     !.at = IF f \in Indexed THEN "read" ELSE @]]
  BY <1>1, PrunedLemma DEF Seek
<1>3. /\ TermsFit(p, old, files, catalogue) /\ old.limit \in Nat
      /\ QueueFit(old) /\ BoardFit(old)
  BY <1>1, <1>2 DEF EvalFit, Scoring
<1>4. \A h \in Fields \ {"board", "ignore"} : e[h] = old[h]
  BY <1>1, <1>3, PrunedFits
<1>5. /\ e.tf = old.tf /\ e.query = old.query /\ e.limit = old.limit /\ e.score = old.score
      /\ e.queue = old.queue /\ e.count = old.count /\ e.at = "features"
  <2>1. {"tf", "query", "limit", "queue", "count", "score", "at"} \subseteq Fields \ {"board", "ignore"}
    BY DEF Fields
  <2> HIDE DEF e, old
  <2> QED
    BY <1>2, <1>4, <2>1
<1>6. /\ \A q \in Threads : q # p => eval'[q] = eval[q]
      /\ new.tf = e.tf /\ new.query = e.query /\ new.limit = e.limit
      /\ new.queue = e.queue /\ new.count = e.count + 1 /\ new.ignore = e.ignore
      /\ new.score = e.score + ApplyOnThis(f, e.tf[f])
      /\ new.at = IF f \in Indexed THEN "read" ELSE "features"
  <2> HIDE DEF e, old, f
  <2> QED
    BY <1>1, <1>2, <1>5 DEF Fields
<1>7. old.count + 1 \in 1 .. Len(old.queue) /\ old.count \in Nat
  <2>1. old.count < Len(old.queue)
    BY <1>2 DEF Continues
  <2>2. old.count \in 0 .. Len(old.queue) /\ Len(old.queue) \in Nat
    BY <1>3 DEF QueueFit
  <2> HIDE DEF old
  <2> QED
    BY <2>1, <2>2
<1>8. ReduceAt[p] = 0 => ~e.ignore
  <2>1. ReduceAt[p] = 0 => ~old.ignore
    BY <1>2 DEF ScoreFit, Scoring
  <2>2. ASSUME ReduceAt[p] = 0 PROVE e = old
    <3>1. PICK k \in Nat, n \in Nat : k = old.count /\ n = Len(old.queue)
      BY <1>3, <1>7 DEF QueueFit
    <3>2. (ReduceAt[p] * n) \div 100 = 0
      BY <2>2
    <3>3. k + 1 # 0
      OBVIOUS
    <3>4. ~(old.count + 1 = (ReduceAt[p] * Len(old.queue)) \div 100)
      BY <3>1, <3>2, <3>3
    <3> QED
      BY <3>4 DEF Pruned
  <2> QED
    BY <2>1, <2>2
<1> HIDE DEF old, e, new
<1>9. Taken(new) = Taken(old) \cup {f} /\ f \in Features \ Taken(old) /\ Taken(old) \subseteq Features
  <2>1. f = old.queue[old.count + 1]
    BY <1>5 DEF f
  <2>2. /\ old.queue \in Seq(Features)
        /\ \A j, k \in 1 .. Len(old.queue) : old.queue[j] = old.queue[k] => j = k
    BY <1>3 DEF QueueFit
  <2>3. new.queue = old.queue /\ new.count = old.count + 1
    BY <1>5, <1>6
  <2>4. \A j \in 1 .. old.count : j \in 1 .. Len(old.queue) /\ j # old.count + 1
    BY <1>7
  <2>5. \A j \in 1 .. Len(old.queue) : old.queue[j] \in Features
    BY <2>2
  <2>6. 1 .. (old.count + 1) = (1 .. old.count) \cup {old.count + 1}
    BY <1>7
  <2> HIDE DEF f
  <2>7. Taken(new) = Taken(old) \cup {f}
    BY <2>1, <2>3, <2>6 DEF Taken
  <2>8. f \in Features /\ f \notin Taken(old)
    BY <1>7, <2>1, <2>2, <2>4, <2>5 DEF Taken
  <2> QED
    BY <2>4, <2>5, <2>7, <2>8 DEF Taken
<1>10. ScoresOf(new) = ScoresOf(old) /\ ApplyOnThis(f, e.tf[f]) = ScoresOf(old)[f]
  <2> HIDE DEF f
  <2> QED
    BY <1>5, <1>6, <1>9 DEF ScoresOf
<1>11. new.score = Total(Features, Taken(new), ScoresOf(new))
  <2>1. old.tf \in [Features -> Nat]
    BY <1>3, TermsTyped
  <2>2. PICK G \in [Features -> Nat] : G = ScoresOf(old)
    BY <2>1, ScoreFacts
  <2>3. old.score = Total(Features, Taken(old), G)
    BY <1>2, <2>2 DEF ScoreFit, Scoring, old
  <2>4. PICK S \in SUBSET Features : S = Taken(old)
    BY <1>9
  <2> HIDE DEF f
  <2>5. S \cup {f} \in SUBSET Features /\ (S \cup {f}) \ {f} = S /\ f \in S \cup {f}
    BY <1>9, <2>4
  <2>6. Total(Features, S \cup {f}, G) = Total(Features, (S \cup {f}) \ {f}, G) + G[f]
    <3>1. IsFiniteSet(Features)
      BY QueryProcessingAssumption
    <3> QED
      BY <2>5, <3>1, TotalFacts
  <2> QED
    BY <1>5, <1>6, <1>9, <1>10, <2>2, <2>3, <2>4, <2>5, <2>6
<1>12. new.at \in Scoring
  BY <1>6 DEF Scoring
<1>13. ScoreFit(p, new) /\ DoneFit(p, new, files', catalogue')
  <2>1. new.query.cutoff \in Nat
    BY <1>2, <1>5, <1>6 DEF ScoreFit, Scoring, old
  <2>2. ReduceAt[p] = 0 => ~new.ignore
    BY <1>6, <1>8
  <2> QED
    BY <1>11, <1>12, <2>1, <2>2 DEF ScoreFit, DoneFit, Reading, Scoring
<1> QED
  BY <1>2, <1>5, <1>6, <1>12, <1>13, NothingLearnt DEF Works, Scoring, new, old

\* Reading a list leaves the score alone.
LEMMA ReadListWorks ==
  ASSUME IInv, ExactInv, NEW p \in Threads, ReadList(p), ScoreFit(p, eval[p])
  PROVE  Works(p)
<1> DEFINE e == eval[p]
           new == eval'[p]
<1>1. /\ e.at = "read" /\ DOMAIN e = Fields /\ DOMAIN eval = Threads
      /\ UNCHANGED <<files, catalogue, connVars>>
  BY ProcessorFacts DEF ReadList
<1>2. PICK b : eval' = [eval EXCEPT ![p].at = "features", ![p].board = b]
  <2>1. eval' = [eval EXCEPT ![p].at = "features",
                             ![p].board = IF stream = e.queue[e.count]
                                          THEN Scored(e, e.queue[e.count]) ELSE @]
    BY DEF ReadList
  <2> QED
    BY <2>1
<1>3. /\ \A q \in Threads : q # p => eval'[q] = eval[q]
      /\ new.query = e.query /\ new.at = "features" /\ new.limit = e.limit
      /\ new.score = e.score /\ new.count = e.count /\ new.ignore = e.ignore
      /\ new.tf = e.tf /\ new.queue = e.queue
  BY <1>1, <1>2 DEF Fields
<1> HIDE DEF e, new
<1>4. Taken(new) = Taken(e) /\ ScoresOf(new) = ScoresOf(e)
  BY <1>3 DEF Taken, ScoresOf
<1>5. ScoreFit(p, e)
  BY DEF e
<1>6. ScoreFit(p, new) /\ DoneFit(p, new, files', catalogue')
  BY <1>1, <1>3, <1>4, <1>5 DEF ScoreFit, DoneFit, Reading, Scoring
<1> QED
  BY <1>1, <1>3, <1>6, NothingLearnt DEF Works, Scoring, e, new

\* The score board is ranked.
LEMMA RankWorks ==
  ASSUME IInv, ExactInv, NEW p \in Threads, Rank(p), ScoreFit(p, eval[p])
  PROVE  Works(p)
<1> DEFINE e == eval[p]
           new == eval'[p]
<1>1. /\ e.at = "features" /\ DOMAIN e = Fields /\ DOMAIN eval = Threads
      /\ UNCHANGED <<files, catalogue, connVars>>
  BY ProcessorFacts DEF Rank, accVars
<1>2. PICK r : eval' = [eval EXCEPT ![p].at = "done", ![p].result = r]
  BY DEF Rank
<1>3. /\ \A q \in Threads : q # p => eval'[q] = eval[q]
      /\ new.query = e.query /\ new.at = "done" /\ new.limit = e.limit
  BY <1>1, <1>2 DEF Fields
<1>4. DoneFit(p, new, files', catalogue')
  <2>1. DoneFit(p, new, files, catalogue)
    BY RankFinds
  <2> QED
    BY <1>1, <2>1
<1>5. ScoreFit(p, new)
  BY <1>3 DEF ScoreFit, Reading, Scoring
<1> QED
  BY <1>1, <1>3, <1>4, <1>5, NothingLearnt DEF Works, Scoring

\* So it is for every step of a processor.
LEMMA ProcessorWorks ==
  ASSUME IInv, ExactInv, NEW p \in Threads, ProcessorStep(p), ScoreFit(p, eval[p])
  PROVE  Works(p)
BY CollectKnownWorks, ExtractWorks, AddImageWorks, RandomIDsWorks, BeginWorks, SeekWorks,
   ReadListWorks, RankWorks DEF ProcessorStep
-----------------------------------------------------------------------------
(* What connections merge *)

\* The processors of a set whose thread ran, and those of them that have found d.
Ran(P) == {p \in P : eval[p].at = "done"}
Having(P, d) == {p \in Ran(P) : d \in FoundIn(eval[p])}

\* The name or ID under which the results for document d are merged.
KeyOf(c, d) == IF tree[c].kind = "byUrl" THEN Collection[d] ELSE d

\* What each processor adds to the merged relevance of document d.
Worth(c, d) == [p \in Threads |-> Times(ResultWeight(c, p), RelevanceIn(eval[p], d))]

\* In m, the results of the processors in P are merged.
IsMerged(m, c, P) ==
  /\ m \in [{KeyOf(c, d) : d \in {x \in DOMAIN Collection : Having(P, x) # {}}} -> Fractions]
  /\ \A d \in DOMAIN Collection :
       Having(P, d) # {} => m[KeyOf(c, d)] = SumOf(Having(P, d), Worth(c, d))

MergedFit(m, c, P) ==
  query[c].images # <<>> /\ (\A p \in Ran(P) : Whole(p, eval[p])) => IsMerged(m, c, P)

\* The children of c up to the nth.
Joined(c, n) == {tree[c].procs[j] : j \in 1 .. n}

MergeFit(c) ==
  /\ pc[c] \in {"idle", "random", "start"} \/ tree[c].kind = "single" => merged[c] = <<>>
  /\ tree[c].kind # "single" /\ pc[c] = "join" =>
       MergedFit(merged[c], c, Joined(c, next[c] - 1))
  /\ pc[c] = "answer" =>
       tree[c].kind # "single" /\ MergedFit(merged[c], c, Joined(c, Len(tree[c].procs)))

\* The children that connection c has started evaluate its query.
ChildrenFit(c) ==
  tree[c].kind # "single" /\ pc[c] \in {"start", "join", "answer"} =>
    \A p \in Joined(c, Len(tree[c].procs)) :
      eval[p].at \notin {"off", "failed"} =>
        eval[p].query = query[c] /\ eval[p].limit = ChildLimit(c)

MergeInv ==
  /\ Collected(catalogue)
  /\ DOMAIN merged = Connections /\ \A c \in Connections : query[c].cutoff \in Nat
  /\ \A p \in Threads : ScoreFit(p, eval[p]) /\ DoneFit(p, eval[p], files, catalogue)
  /\ \A c \in Connections : ChildrenFit(c) /\ MergeFit(c)

\* Different documents have different keys.
LEMMA KeysDiffer ==
  ASSUME NEW c, NEW d \in DOMAIN Collection, NEW x \in DOMAIN Collection,
         KeyOf(c, d) = KeyOf(c, x)
  PROVE  d = x
BY QueryProcessingAssumption DEF KeyOf, IsInjective

\* What a processor adds is a relevance.
LEMMA WorthTyped ==
  ASSUME NEW c, NEW d \in DOMAIN Collection, NEW p \in Threads, NEW F, NEW known,
         TermsFit(p, eval[p], F, known)
  PROVE  Worth(c, d)[p] \in Fractions /\ RelevanceIn(eval[p], d) \in Fractions
<1> DEFINE e == eval[p]
           w == ResultWeight(c, p)
<1>1. IsFiniteSet(Features) /\ Weight[p] \in Nat
  BY QueryProcessingAssumption
<1>2. e.tf \in [Features -> Nat] /\ e.query.images \in Seq(Images)
  BY TermsTyped
<1>3. Total(Features, Features, GainsOf(e, d)) \in Nat
  <2>1. PICK G \in [Features -> Nat] : G = GainsOf(e, d)
    BY <1>2, GainFacts
  <2> QED
    BY <1>1, <2>1, TotalFacts
<1>4. Total(Features, Features, ScoresOf(e)) \in Nat
  <2>1. PICK G \in [Features -> Nat] : G = ScoresOf(e)
    BY <1>2, ScoreFacts
  <2> QED
    BY <1>1, <2>1, TotalFacts
<1>5. RelevanceIn(e, d) \in Fractions
  BY <1>3, <1>4 DEF RelevanceIn, Fractions
<1>6. w \in Nat
  BY <1>1 DEF ResultWeight
<1>7. PICK a \in Nat, b \in Nat : RelevanceIn(e, d) = <<a, b>>
  BY <1>5 DEF Fractions
<1>8. Times(w, RelevanceIn(e, d)) = <<w * a, b>> /\ w * a \in Nat
  BY <1>6, <1>7 DEF Times
<1>9. Worth(c, d)[p] = Times(w, RelevanceIn(e, d))
  BY DEF Worth
<1> QED
  BY <1>5, <1>8, <1>9 DEF Fractions

\* One processor more: those that have found d.
LEMMA HavingMore ==
  ASSUME NEW P, NEW p \in Threads
  PROVE  /\ eval[p].at = "done" =>
              /\ Ran(P \cup {p}) = Ran(P) \cup {p}
              /\ \A d : d \in FoundIn(eval[p]) => Having(P \cup {p}, d) = Having(P, d) \cup {p}
              /\ \A d : d \notin FoundIn(eval[p]) => Having(P \cup {p}, d) = Having(P, d)
         /\ eval[p].at # "done" =>
              /\ Ran(P \cup {p}) = Ran(P)
              /\ \A d : Having(P \cup {p}, d) = Having(P, d)
BY DEF Ran, Having

\* Without a result nothing is added.
LEMMA NothingAdded ==
  ASSUME NEW c, NEW p, eval[p].result = <<>>, IsMap(merged[c])
  PROVE  WithResult(c, p) = merged[c]
<1>1. PICK n \in Nat : n = 0
  OBVIOUS
<1>2. PICK K : K = <<>>
  OBVIOUS
<1>3. DOMAIN eval[p].result = 1 .. n /\ 1 .. n = {}
  BY <1>1
<1>4. Distinct(K, 1 .. n)
  BY <1>3 DEF Distinct
<1>5. \A j \in 1 .. n : K[j] = KeyOfResult(c, eval[p].result[j])
  BY <1>3
<1>6. \A j \in 1 .. n : K[j] = Times(ResultWeight(c, p), eval[p].result[j].rel)
  BY <1>3
<1>7. WithResult(c, p) = Added(merged[c], K, K, 1 .. n)
  BY SMTT(30), <1>3, <1>4, <1>5, <1>6, ResultAdds
<1> QED
  BY <1>3, <1>7 DEF Added, IsMap

\* What is known of the processors in P, of which some ran.
Sound(P) ==
  /\ IsFiniteSet(P) /\ P \subseteq Threads
  /\ \A p \in P : eval[p].at \in {"done", "failed"}
  /\ \A p \in P : DoneFit(p, eval[p], files, catalogue)

\* What the processors that have found a document add.
LEMMA HavingTyped ==
  ASSUME NEW c, NEW P, Sound(P), \A p \in Ran(P) : eval[p].query.images # <<>>,
         NEW d \in DOMAIN Collection
  PROVE  IsFiniteSet(Having(P, d)) /\ Typed(Worth(c, d), Having(P, d))
<1>1. Having(P, d) \subseteq Ran(P) /\ Ran(P) \subseteq P
  BY DEF Having, Ran
<1>2. IsFiniteSet(Having(P, d))
  BY <1>1, FS_Subset DEF Sound
<1>3. ASSUME NEW p \in Ran(P) PROVE Worth(c, d)[p] \in Fractions
  <2>1. p \in Threads /\ TermsFit(p, eval[p], files, catalogue)
    BY <1>1, <1>3 DEF Sound, Ran, DoneFit
  <2> QED
    BY <2>1, WorthTyped
<1> QED
  BY <1>1, <1>2, <1>3 DEF Typed

\* The result of a child is added to what has been merged.
LEMMA ResultMerged ==
  ASSUME NEW c, NEW P, NEW p \in Threads, p \notin P, Sound(P \cup {p}), Collected(catalogue),
         eval[p].at = "done", eval[p].query.images # <<>>, Whole(p, eval[p]),
         \A q \in Ran(P) : eval[q].query.images # <<>>,
         IsMerged(merged[c], c, P)
  PROVE  IsMerged(WithResult(c, p), c, P \cup {p})
<1> DEFINE e == eval[p]
           m == merged[c]
           R == P \cup {p}
           has(Q) == {KeyOf(c, d) : d \in {x \in DOMAIN Collection : Having(Q, x) # {}}}
<1>1. PICK n \in Nat :
        /\ DOMAIN e.result = 1 .. n
        /\ \A j, k \in 1 .. n : e.result[j].id = e.result[k].id => j = k
        /\ {e.result[j].id : j \in 1 .. n} = FoundIn(e)
        /\ \A j \in 1 .. n : e.result[j].rel = RelevanceIn(e, e.result[j].id)
  <2>1. ResultFit(e)
    BY DEF Sound, DoneFit
  <2> QED
    BY <2>1 DEF ResultFit
<1>2. FoundIn(e) \subseteq DOMAIN Collection
  BY DEF FoundIn
<1>3. \A j \in 1 .. n : e.result[j].id \in FoundIn(e) /\ e.result[j].id \in DOMAIN Collection
  BY <1>1, <1>2
<1> DEFINE K == [j \in 1 .. n |-> KeyOf(c, e.result[j].id)]
           T == [j \in 1 .. n |-> Worth(c, e.result[j].id)[p]]
<1>4. \A j \in 1 .. n : K[j] = KeyOfResult(c, e.result[j])
  BY <1>3 DEF KeyOf, KeyOfResult, Name, Collected
<1>5. \A j \in 1 .. n : T[j] = Times(ResultWeight(c, p), e.result[j].rel)
  BY <1>1 DEF Worth
<1>6. Distinct(K, 1 .. n)
  BY <1>1, <1>3, KeysDiffer DEF Distinct
<1>7. {K[j] : j \in 1 .. n} = {KeyOf(c, d) : d \in FoundIn(e)}
  BY <1>1
<1>8. \A d \in FoundIn(e) : \E j \in 1 .. n : K[j] = KeyOf(c, d) /\ T[j] = Worth(c, d)[p]
  BY <1>1
<1>9. m \in [has(P) -> Fractions]
      /\ \A d \in DOMAIN Collection :
           Having(P, d) # {} => m[KeyOf(c, d)] = SumOf(Having(P, d), Worth(c, d))
  BY DEF IsMerged
<1>10. IsMap(m)
  BY <1>9 DEF IsMap
<1> HIDE DEF K, T
<1>11. PICK a : a = WithResult(c, p) /\ a = Added(m, K, T, 1 .. n)
  <2>1. WithResult(c, p) = Added(m, K, T, 1 .. n)
    BY <1>1, <1>4, <1>5, <1>6, <1>10, ResultAdds
  <2> QED
    BY <2>1
<1>12. IsAdded(a, m, K, T, 1 .. n)
  BY <1>6, <1>11, AddedFacts
<1>13. /\ Ran(R) = Ran(P) \cup {p}
       /\ \A d : d \in FoundIn(e) => Having(R, d) = Having(P, d) \cup {p}
       /\ \A d : d \notin FoundIn(e) => Having(R, d) = Having(P, d)
  BY HavingMore
<1>14. \A d : p \notin Having(P, d)
  BY DEF Having, Ran
<1>15. DOMAIN a = has(R)
  <2>1. DOMAIN a = has(P) \cup {KeyOf(c, d) : d \in FoundIn(e)}
    BY <1>7, <1>9, <1>12 DEF IsAdded
  <2>2. {x \in DOMAIN Collection : Having(R, x) # {}}
          = {x \in DOMAIN Collection : Having(P, x) # {}} \cup FoundIn(e)
    BY <1>2, <1>13
  <2> QED
    BY <2>1, <2>2
<1>16. \A q \in Ran(R) : eval[q].query.images # <<>>
  BY <1>13
<1>17. ASSUME NEW d \in DOMAIN Collection, Having(R, d) # {}
       PROVE  a[KeyOf(c, d)] = SumOf(Having(R, d), Worth(c, d)) /\ a[KeyOf(c, d)] \in Fractions
  <2> DEFINE S == Having(R, d)
             H == Having(P, d)
             V == Worth(c, d)
  <2>1. IsFiniteSet(S) /\ Typed(V, S)
    BY <1>16, HavingTyped
  <2>2. PICK x \in S : TRUE
    BY <1>17
  <2>3. SumOf(S, V) \in Fractions
    BY <2>1, <2>2, OneRelevanceMore
  <2>4. KeyOf(c, d) \in DOMAIN m <=> H # {}
    BY <1>9, KeysDiffer
  <2>5. CASE d \in FoundIn(e)
    <3>1. PICK j \in 1 .. n : K[j] = KeyOf(c, d) /\ T[j] = V[p]
      BY <1>8, <2>5
    <3>2. a[KeyOf(c, d)] = IF KeyOf(c, d) \in DOMAIN m THEN Plus(m[KeyOf(c, d)], V[p]) ELSE V[p]
      BY <1>12, <3>1 DEF IsAdded
    <3>3. S = H \cup {p} /\ p \notin H
      BY <1>13, <1>14, <2>5
    <3>4. p \in S /\ S \ {p} = H
      BY <3>3
    <3>5. SumOf(S, V) = Plus(SumOf(H, V), V[p]) /\ V[p] \in Fractions
      <4>1. SumOf(S, V) = Plus(SumOf(S \ {p}, V), V[p])
        <5> HIDE DEF S, V
        <5> QED
          BY <2>1, <3>4, OneRelevanceMore
      <4> QED
        BY <2>1, <3>4, <4>1 DEF Typed
    <3>6. CASE H = {}
      <4>1. SumOf(H, V) = NoRelevance
        BY <3>6, NoSum
      <4>2. SumOf(S, V) = V[p]
        <5> HIDE DEF S, V, H
        <5> QED
          BY <3>5, <4>1, PlusNothing
      <4> QED
        BY <2>3, <2>4, <3>2, <3>6, <4>2
    <3>7. CASE H # {}
      BY <1>9, <2>3, <2>4, <3>2, <3>5, <3>7
    <3> QED
      BY <3>6, <3>7
  <2>6. CASE d \notin FoundIn(e)
    <3>1. S = H
      BY <1>13, <2>6
    <3>2. KeyOf(c, d) \in DOMAIN m
      BY <1>17, <2>4, <3>1
    <3>3. KeyOf(c, d) \notin {K[j] : j \in 1 .. n}
      BY <1>2, <1>7, <2>6, KeysDiffer
    <3>4. a[KeyOf(c, d)] = m[KeyOf(c, d)]
      BY <1>12, <3>2, <3>3 DEF IsAdded
    <3> QED
      BY <1>9, <1>17, <2>3, <3>1, <3>4
  <2> QED
    BY <2>5, <2>6
<1>18. a \in [has(R) -> Fractions]
  <2>1. a = [k \in DOMAIN a |-> a[k]]
    BY <1>11 DEF Added
  <2>2. \A k \in has(R) : a[k] \in Fractions
    BY <1>17
  <2> HIDE DEF has
  <2> QED
    BY <1>15, <2>1, <2>2
<1> QED
  BY <1>11, <1>17, <1>18 DEF IsMerged

\* A child that has ended is merged, whether its thread ran or not.
LEMMA ChildMerged ==
  ASSUME NEW c, NEW P, NEW p \in Threads, p \notin P, Sound(P \cup {p}), Collected(catalogue),
         \A q \in Ran(P \cup {p}) : eval[q].query = query[c],
         MergedFit(merged[c], c, P)
  PROVE  MergedFit(WithResult(c, p), c, P \cup {p})
<1> SUFFICES ASSUME query[c].images # <<>>, \A q \in Ran(P \cup {p}) : Whole(q, eval[q])
             PROVE  IsMerged(WithResult(c, p), c, P \cup {p})
  BY DEF MergedFit
<1>1. Ran(P) \subseteq Ran(P \cup {p})
  BY DEF Ran
<1>2. IsMerged(merged[c], c, P)
  BY <1>1 DEF MergedFit
<1>3. CASE eval[p].at = "done"
  <2>1. p \in Ran(P \cup {p})
    BY <1>3 DEF Ran
  <2>2. \A q \in Ran(P) : eval[q].query.images # <<>>
    BY <1>1
  <2> QED
    BY <1>2, <1>3, <2>1, <2>2, ResultMerged
<1>4. CASE eval[p].at # "done"
  <2>1. eval[p].result = <<>>
    BY <1>4 DEF Sound, DoneFit
  <2>2. IsMap(merged[c])
    BY <1>2 DEF IsMap, IsMerged
  <2>3. WithResult(c, p) = merged[c]
    BY <2>1, <2>2, NothingAdded
  <2>4. \A d : Having(P \cup {p}, d) = Having(P, d)
    BY <1>4, HavingMore
  <2> QED
    BY <1>2, <2>3, <2>4 DEF IsMerged
<1> QED
  BY <1>3, <1>4

-----------------------------------------------------------------------------
(* Steps *)

\* What a processor that has ended has found does not change with the accessor.
LEMMA DoneKept ==
  ASSUME NEW p, NEW e, NEW F, NEW known, DoneFit(p, e, F, known),
         NEW E, NEW more, Grows(F, known, E, more)
  PROVE  DoneFit(p, e, E, more)
<1>1. SameTerms(e, e)
  BY DEF SameTerms
<1> QED
  BY <1>1, TermsKept DEF DoneFit

\* What has been merged stays merged while the children that were joined rest.
LEMMA MergedKept ==
  ASSUME NEW c, NEW P, NEW m, MergedFit(m, c, P), \A p \in P : eval'[p] = eval[p],
         tree'[c] = tree[c], query'[c] = query[c],
         Sound(P), \A p \in Ran(P) : eval[p].query = query[c]
  PROVE  MergedFit(m, c, P)'
<1>1. Ran(P)' = Ran(P)
  BY DEF Ran
<1>2. \A d : Having(P, d)' = Having(P, d)
  BY <1>1 DEF Having, Ran
<1>3. \A d : KeyOf(c, d)' = KeyOf(c, d)
  BY DEF KeyOf
<1>4. SUFFICES ASSUME query[c].images # <<>>, \A p \in Ran(P) : Whole(p, eval[p])
               PROVE  IsMerged(m, c, P)'
  <2>1. \A p \in Ran(P) : eval'[p] = eval[p]
    BY DEF Ran
  <2> QED
    BY <1>1, <2>1 DEF MergedFit
<1>5. IsMerged(m, c, P)
  BY <1>4 DEF MergedFit
<1>6. ASSUME NEW d \in DOMAIN Collection
      PROVE  SumOf(Having(P, d)', Worth(c, d)') = SumOf(Having(P, d), Worth(c, d))
  <2>1. PICK S, V, W : S = Having(P, d) /\ V = Worth(c, d) /\ W = Worth(c, d)'
    OBVIOUS
  <2>2. IsFiniteSet(S) /\ Typed(V, S)
    BY <1>4, <2>1, HavingTyped
  <2>3. \A p \in S : p \in P /\ p \in Threads
    BY <2>1 DEF Having, Ran, Sound
  <2>4. ASSUME NEW p \in S PROVE W[p] = V[p]
    <3>1. ResultWeight(c, p)' = ResultWeight(c, p)
      BY DEF ResultWeight
    <3>2. RelevanceIn(eval'[p], d) = RelevanceIn(eval[p], d)
      BY <2>3
    <3> QED
      BY <2>1, <2>3, <3>1, <3>2 DEF Worth
  <2>5. SumOf(S, W) = SumOf(S, V)
    BY <2>2, <2>4, SameSum
  <2> QED
    BY <1>2, <2>1, <2>5
<1>7. IsMerged(m, c, P)' <=>
        /\ m \in [{KeyOf(c, d)' : d \in {x \in DOMAIN Collection : Having(P, x)' # {}}} -> Fractions]
        /\ \A d \in DOMAIN Collection :
             Having(P, d)' # {} => m[KeyOf(c, d)'] = SumOf(Having(P, d)', Worth(c, d)')
  BY DEF IsMerged
<1> QED
  BY <1>2, <1>3, <1>5, <1>6, <1>7 DEF IsMerged

\* The children that have been joined, or can be.
LEMMA JoinedSound ==
  ASSUME IInv, MergeInv, NEW c \in Connections, NEW n \in 0 .. Len(tree[c].procs),
         \A j \in 1 .. n : Ended(tree[c].procs[j]),
         tree[c].kind # "single", pc[c] \in {"start", "join", "answer"}
  PROVE  /\ Sound(Joined(c, n))
         /\ \A p \in Ran(Joined(c, n)) : eval[p].query = query[c]
<1> DEFINE ps == tree[c].procs
           P == Joined(c, n)
<1>1. tree[c] \in Trees[c]
  BY DEF IInv, ShapeInv
<1>2. /\ Len(ps) \in Nat
      /\ \A j \in 1 .. Len(ps) : ps[j] \in Owned(c) \cap Threads
  BY <1>1, TreeLemma
<1>3. 1 .. n \subseteq 1 .. Len(ps) /\ n \in Nat
  BY <1>2
<1>4. P \subseteq Threads /\ P \subseteq Joined(c, Len(ps))
  BY <1>2, <1>3 DEF Joined
<1>5. IsFiniteSet(P)
  <2> DEFINE f == [j \in 1 .. n |-> ps[j]]
  <2>1. f \in Surjection(1 .. n, P)
    BY DEF Surjection, Joined
  <2>2. IsFiniteSet(1 .. n)
    BY <1>3, FS_Interval, 1 \in Int /\ n \in Int
  <2> HIDE DEF f, P
  <2> QED
    BY <2>1, <2>2, FS_Surjection
<1>6. \A p \in P : eval[p].at \in {"done", "failed"}
  BY DEF Joined, Ended
<1>7. \A p \in P : DoneFit(p, eval[p], files, catalogue)
  BY <1>4 DEF MergeInv
<1>8. \A p \in Ran(P) : eval[p].query = query[c]
  <2>1. \A p \in Ran(P) : p \in Joined(c, Len(ps)) /\ eval[p].at = "done"
    BY <1>4 DEF Ran
  <2> QED
    BY <2>1 DEF MergeInv, ChildrenFit
<1> QED
  BY <1>4, <1>5, <1>6, <1>7, <1>8 DEF Sound

\* A step that does not concern connection c, whose processors at work may go on.
LEMMA SameConnection ==
  ASSUME IInv, MergeInv, NEW c \in Connections,
         pc'[c] = pc[c], tree'[c] = tree[c], query'[c] = query[c], next'[c] = next[c],
         merged'[c] = merged[c],
         \A p \in Owned(c) :
           \/ eval'[p] = eval[p]
           \/ /\ eval[p].at \in Reading \cup Scoring
              /\ eval'[p].query = eval[p].query /\ eval'[p].limit = eval[p].limit
  PROVE  ChildrenFit(c)' /\ MergeFit(c)'
<1> DEFINE ps == tree[c].procs
<1>1. ChildrenFit(c) /\ MergeFit(c) /\ RestInv(c) /\ tree[c] \in Trees[c]
  BY DEF IInv, ShapeInv, MergeInv
<1>2. /\ Len(ps) \in Nat
      /\ \A j \in 1 .. Len(ps) : ps[j] \in Owned(c) \cap Threads
  BY <1>1, TreeLemma
<1>3. \A n : Joined(c, n)' = Joined(c, n)
  BY DEF Joined
<1>4. Joined(c, Len(ps)) \subseteq Owned(c)
  BY <1>2 DEF Joined
<1>5. ChildrenFit(c)'
  <2>1. \A p \in Joined(c, Len(ps)) :
          eval'[p].at \notin {"off", "failed"} =>
            \/ eval'[p] = eval[p]
            \/ /\ eval[p].at \notin {"off", "failed"}
               /\ eval'[p].query = eval[p].query /\ eval'[p].limit = eval[p].limit
    BY <1>4 DEF Reading, Scoring
  <2>2. ChildLimit(c)' = ChildLimit(c)
    BY DEF ChildLimit
  <2>3. Joined(c, Len(tree[c].procs))' = Joined(c, Len(ps))
    BY DEF Joined
  <2> QED
    BY <1>1, <2>1, <2>2, <2>3 DEF ChildrenFit
<1>6. ASSUME NEW n \in 0 .. Len(ps), \A j \in 1 .. n : Ended(ps[j]),
             tree[c].kind # "single", pc[c] \in {"join", "answer"},
             MergedFit(merged[c], c, Joined(c, n))
      PROVE  MergedFit(merged[c], c, Joined(c, n))'
  <2>1. PICK P, m : P = Joined(c, n) /\ m = merged[c]
    OBVIOUS
  <2>2. Sound(P) /\ \A p \in Ran(P) : eval[p].query = query[c]
    BY <1>6, <2>1, JoinedSound
  <2>3. \A p \in P : eval'[p] = eval[p]
    <3>1. \A p \in P : p \in Owned(c)
      BY <1>2, <2>1 DEF Joined
    <3> QED
      BY <2>2, <3>1 DEF Sound, Reading, Scoring
  <2>4. MergedFit(m, c, P)
    BY <1>6, <2>1
  <2>5. MergedFit(m, c, P)'
    BY <2>2, <2>3, <2>4, MergedKept
  <2>6. Joined(c, n)' = P /\ merged'[c] = m
    BY <1>3, <2>1
  <2> QED
    BY <2>5, <2>6
<1>7. tree[c].kind # "single" /\ pc[c] = "join" =>
        MergedFit(merged[c], c, Joined(c, next[c] - 1))'
  <2> SUFFICES ASSUME tree[c].kind # "single", pc[c] = "join"
               PROVE  MergedFit(merged[c], c, Joined(c, next[c] - 1))'
    OBVIOUS
  <2>1. PICK n : n = next[c] - 1
    OBVIOUS
  <2>2. n \in 0 .. Len(ps) /\ \A j \in 1 .. n : Ended(ps[j])
    BY <1>1, <1>2, <2>1 DEF RestInv
  <2>3. MergedFit(merged[c], c, Joined(c, n))
    BY <1>1, <2>1 DEF MergeFit
  <2>4. MergedFit(merged[c], c, Joined(c, n))'
    BY <1>6, <2>2, <2>3
  <2>5. next'[c] - 1 = n
    BY <2>1
  <2> QED
    BY <2>4, <2>5
<1>8. pc[c] = "answer" => MergedFit(merged[c], c, Joined(c, Len(tree[c].procs)))'
  <2> SUFFICES ASSUME pc[c] = "answer"
               PROVE  MergedFit(merged[c], c, Joined(c, Len(tree[c].procs)))'
    OBVIOUS
  <2>1. PICK n : n = Len(ps)
    OBVIOUS
  <2>2. n \in 0 .. Len(ps) /\ \A j \in 1 .. n : Ended(ps[j])
    BY <1>1, <1>2, <2>1 DEF RestInv
  <2>3. tree[c].kind # "single" /\ MergedFit(merged[c], c, Joined(c, n))
    BY <1>1, <2>1 DEF MergeFit
  <2>4. MergedFit(merged[c], c, Joined(c, n))'
    BY <1>6, <2>2, <2>3
  <2>5. Len(tree'[c].procs) = n
    BY <2>1
  <2> QED
    BY <2>4, <2>5
<1> QED
  BY <1>1, <1>5, <1>7, <1>8 DEF MergeFit

\* A processor that has just been started, or rests, fits.
LEMMA StartedFinds ==
  ASSUME NEW p, NEW q, q.cutoff \in Nat, NEW limit, NEW F, NEW known
  PROVE  ScoreFit(p, Started(q, limit)) /\ DoneFit(p, Started(q, limit), F, known)
<1> DEFINE e == Started(q, limit)
<1>1. e.at = "images" /\ e.query = q /\ e.score = 0
  BY DEF Started, Resting
<1> HIDE DEF e
<1>2. ScoreFit(p, e) /\ DoneFit(p, e, F, known)
  BY <1>1 DEF ScoreFit, DoneFit, Reading, Scoring
<1> QED
  BY <1>2 DEF e

LEMMA RestingFinds ==
  ASSUME NEW p, NEW e, e = Resting \/ e = [Resting EXCEPT !.at = "failed"], NEW F, NEW known
  PROVE  ScoreFit(p, e) /\ DoneFit(p, e, F, known)
<1>1. e.at \in {"off", "failed"} /\ e.result = <<>>
  BY DEF Resting
<1> QED
  BY <1>1 DEF ScoreFit, DoneFit, Reading, Scoring

\* A step of connection c, which starts or forgets processors of its own only.
LEMMA ConnectionMerges ==
  ASSUME IInv, MergeInv, NEW c \in Connections, UNCHANGED <<files, catalogue>>,
         DOMAIN merged' = Connections, query'[c].cutoff \in Nat,
         \A d \in Connections : d # c =>
           /\ pc'[d] = pc[d] /\ tree'[d] = tree[d] /\ query'[d] = query[d]
           /\ next'[d] = next[d] /\ merged'[d] = merged[d],
         \A p \in Threads :
           \/ eval'[p] = eval[p]
           \/ p \in Owned(c) /\ ScoreFit(p, eval'[p]) /\ DoneFit(p, eval'[p], files, catalogue),
         ChildrenFit(c)', MergeFit(c)'
  PROVE  MergeInv'
<1>1. \A p \in Threads : ScoreFit(p, eval'[p]) /\ DoneFit(p, eval'[p], files, catalogue)
  BY DEF MergeInv
<1>2. ASSUME NEW d \in Connections, d # c PROVE ChildrenFit(d)' /\ MergeFit(d)'
  <2>1. \A p \in Owned(d) : p \in Threads /\ p \notin Owned(c)
    BY <1>2, OwnedLemma, OwnedThreads
  <2>2. \A p \in Owned(d) : eval'[p] = eval[p]
    BY <2>1
  <2> QED
    BY <1>2, <2>2, SameConnection
<1>3. \A d \in Connections : query'[d].cutoff \in Nat
  BY DEF MergeInv
<1> QED
  BY <1>1, <1>2, <1>3 DEF MergeInv

LEMMA QueryCutoff ==
  ASSUME NEW c \in Connections, NEW q \in Queries[c]
  PROVE  q.cutoff \in Nat
<1>1. q \in QueryType
  BY QueryProcessingAssumption
<1>2. q.cutoff \in 0 .. 100
  BY <1>1 DEF QueryType
<1> QED
  BY <1>2

\* A query begins with nothing merged, and nothing started unless its tree is a
\* single processor.
LEMMA AskMerges ==
  ASSUME IInv, MergeInv, NEW c \in Connections, Ask(c)
  PROVE  MergeInv'
<1>1. PICK t \in Trees[c], q \in Queries[c] :
        LET single == t.kind = "single" /\ ~q.bare IN
        /\ tree' = [tree EXCEPT ![c] = t]
        /\ query' = [query EXCEPT ![c] = q]
        /\ pc' = [pc EXCEPT ![c] =
                    IF q.bare THEN "random" ELSE IF single THEN "join" ELSE "start"]
        /\ eval' = IF single
                   THEN [eval EXCEPT ![t.procs[1]] = Started(q, q.size)]
                   ELSE eval
  BY DEF Ask
<1>2. /\ pc[c] = "idle" /\ UNCHANGED <<files, catalogue, next, merged>>
      /\ DOMAIN eval = Threads /\ DOMAIN tree = Connections /\ DOMAIN query = Connections
      /\ DOMAIN pc = Connections /\ RestInv(c) /\ MergeFit(c) /\ tree[c] \in Trees[c]
  BY DEF Ask, accVars, IInv, ShapeInv, MergeInv
<1>3. /\ tree'[c] = t /\ query'[c] = q /\ q.cutoff \in Nat
      /\ pc'[c] = (IF q.bare THEN "random" ELSE IF t.kind = "single" THEN "join" ELSE "start")
      /\ \A d \in Connections : d # c =>
           tree'[d] = tree[d] /\ query'[d] = query[d] /\ pc'[d] = pc[d]
  BY <1>1, <1>2, QueryCutoff
<1>4. merged[c] = <<>>
  BY <1>2 DEF MergeFit
<1>5. \A p \in Owned(c) : eval[p].at = "off"
  <2>1. \A j \in 1 .. Len(tree[c].procs) : eval[tree[c].procs[j]].at = "off"
    BY <1>2 DEF RestInv
  <2>2. DOMAIN tree[c].procs = 1 .. Len(tree[c].procs)
    BY <1>2, TreeLemma
  <2> QED
    BY <1>2, <2>1, <2>2 DEF RestInv, Range
<1>6. ChildrenFit(c)'
  <2> SUFFICES ASSUME t.kind # "single", pc'[c] = "start" PROVE ChildrenFit(c)'
    BY <1>3 DEF ChildrenFit
  <2>1. eval' = eval
    BY <1>1
  <2>2. \A j \in 1 .. Len(t.procs) : t.procs[j] \in Owned(c)
    BY TreeLemma
  <2>3. \A p \in Joined(c, Len(tree[c].procs))' : eval'[p].at = "off"
    BY <1>3, <1>5, <2>1, <2>2 DEF Joined
  <2> QED
    BY <2>3 DEF ChildrenFit
<1>7. MergeFit(c)'
  BY <1>2, <1>3, <1>4 DEF MergeFit
<1>8. \A p \in Threads :
        \/ eval'[p] = eval[p]
        \/ p \in Owned(c) /\ ScoreFit(p, eval'[p]) /\ DoneFit(p, eval'[p], files, catalogue)
  <2>1. t.procs[1] \in Owned(c)
    BY TreeLemma
  <2>2. \A p : ScoreFit(p, Started(q, q.size)) /\ DoneFit(p, Started(q, q.size), files, catalogue)
    BY <1>3, StartedFinds
  <2> QED
    BY <1>1, <1>2, <2>1, <2>2
<1>9. DOMAIN merged' = Connections
  BY <1>2 DEF MergeInv
<1> QED
  BY <1>2, <1>3, <1>6, <1>7, <1>8, <1>9, ConnectionMerges

\* With no child joined nothing is merged.
LEMMA NothingMerged ==
  ASSUME NEW c
  PROVE  MergedFit(<<>>, c, {})
<1>1. \A d : Having({}, d) = {}
  BY DEF Having, Ran
<1>2. {KeyOf(c, d) : d \in {x \in DOMAIN Collection : Having({}, x) # {}}} = {}
  BY <1>1
<1>3. <<>> \in [{} -> Fractions]
  OBVIOUS
<1> QED
  BY <1>1, <1>2, <1>3 DEF MergedFit, IsMerged

\* A child is started with the connection's query.
LEMMA SpawnMerges ==
  ASSUME IInv, MergeInv, NEW c \in Connections, Spawn(c)
  PROVE  MergeInv'
<1> DEFINE ps == tree[c].procs
           p == Child(c)
           s == Started(query[c], ChildLimit(c))
<1>1. /\ pc[c] = "start" /\ UNCHANGED <<files, catalogue, tree, query, merged>>
      /\ Advance(c, "join") /\ DOMAIN eval = Threads
      /\ RestInv(c) /\ ChildrenFit(c) /\ MergeFit(c) /\ tree[c] \in Trees[c]
      /\ query[c].cutoff \in Nat /\ DOMAIN merged = Connections
  BY DEF Spawn, accVars, IInv, ShapeInv, MergeInv
<1>2. /\ next[c] \in 1 .. Len(ps) /\ Len(ps) \in Nat
      /\ \A j \in 1 .. Len(ps) : ps[j] \in Owned(c) \cap Threads
  BY <1>1, TreeLemma DEF RestInv
<1>3. p \in Owned(c) /\ p \in Threads
  BY <1>2 DEF Child
<1>4. PICK e : /\ eval' = [eval EXCEPT ![p] = e]
               /\ e = s \/ e = [Resting EXCEPT !.at = "failed"]
  BY <1>1 DEF Spawn
<1>5. eval'[p] = e /\ \A q \in Threads : q # p => eval'[q] = eval[q]
  BY <1>1, <1>3, <1>4
<1>6. ScoreFit(p, e) /\ DoneFit(p, e, files, catalogue)
  BY <1>1, <1>4, StartedFinds, RestingFinds
<1>7. e.at \notin {"off", "failed"} => e.query = query[c] /\ e.limit = ChildLimit(c)
  BY <1>4 DEF Started, Resting
<1>8. /\ \A d \in Connections : d # c => pc'[d] = pc[d] /\ next'[d] = next[d]
      /\ next[c] = Len(ps) => next'[c] = 1 /\ pc'[c] = "join"
      /\ next[c] # Len(ps) => next'[c] = next[c] + 1 /\ pc'[c] = pc[c]
  <2>1. "join" \in {"join", "answer"}
    OBVIOUS
  <2> QED
    BY <1>1, <2>1, AdvanceLemma
<1> HIDE DEF p, s
<1>9. ChildrenFit(c)'
  <2>1. \A q \in Joined(c, Len(ps)) :
          eval'[q].at \notin {"off", "failed"} =>
            eval'[q].query = query[c] /\ eval'[q].limit = ChildLimit(c)
    <3>1. \A q \in Joined(c, Len(ps)) : q \in Threads
      BY <1>2 DEF Joined
    <3>2. \A q \in Joined(c, Len(ps)) :
            eval[q].at \notin {"off", "failed"} =>
              eval[q].query = query[c] /\ eval[q].limit = ChildLimit(c)
      BY <1>1 DEF ChildrenFit, RestInv
    <3> QED
      BY <1>5, <1>7, <3>1, <3>2
  <2>2. ChildLimit(c)' = ChildLimit(c) /\ Joined(c, Len(tree[c].procs))' = Joined(c, Len(ps))
    BY <1>1 DEF ChildLimit, Joined
  <2> QED
    BY <1>1, <2>1, <2>2 DEF ChildrenFit
<1>10. MergeFit(c)'
  <2>1. merged'[c] = <<>> /\ merged[c] = <<>>
    BY <1>1 DEF MergeFit
  <2>2. CASE next[c] = Len(ps)
    <3>1. next'[c] - 1 = 0 /\ pc'[c] = "join"
      BY <1>8, <2>2
    <3>2. Joined(c, next[c] - 1)' = {}
      BY <3>1 DEF Joined
    <3>3. MergedFit(<<>>, c, {})'
      BY NothingMerged, PTL
    <3>4. MergedFit(merged[c], c, Joined(c, next[c] - 1))'
      BY <2>1, <3>2, <3>3
    <3> QED
      BY <2>1, <3>1, <3>4 DEF MergeFit
  <2>3. CASE next[c] # Len(ps)
    BY <1>1, <1>8, <2>1, <2>3 DEF MergeFit
  <2> QED
    BY <2>2, <2>3
<1>11. \A q \in Threads :
        \/ eval'[q] = eval[q]
        \/ q \in Owned(c) /\ ScoreFit(q, eval'[q]) /\ DoneFit(q, eval'[q], files, catalogue)
  BY <1>3, <1>5, <1>6
<1> QED
  BY <1>1, <1>8, <1>9, <1>10, <1>11, ConnectionMerges

\* A child that has ended is joined.
LEMMA JoinMerges ==
  ASSUME IInv, MergeInv, NEW c \in Connections, Join(c)
  PROVE  MergeInv'
<1> DEFINE ps == tree[c].procs
           p == Child(c)
<1>n. PICK n, P : n = next[c] /\ P = Joined(c, n - 1)
  OBVIOUS
<1>1. /\ pc[c] = "join" /\ tree[c].kind # "single" /\ Ended(p)
      /\ UNCHANGED <<files, catalogue, eval, tree, query>>
      /\ merged' = [merged EXCEPT ![c] = WithResult(c, p)] /\ Advance(c, "answer")
      /\ RestInv(c) /\ ChildrenFit(c) /\ MergeFit(c) /\ tree[c] \in Trees[c]
      /\ Collected(catalogue) /\ query[c].cutoff \in Nat /\ DOMAIN merged = Connections
  BY DEF Join, Joinable, accVars, IInv, ShapeInv, MergeInv
<1>2. /\ n \in 1 .. Len(ps) /\ Len(ps) \in Nat
      /\ \A j \in 1 .. Len(ps) : ps[j] \in Owned(c) \cap Threads
      /\ \A i, j \in 1 .. Len(ps) : ps[i] = ps[j] => i = j
      /\ \A j \in 1 .. (n - 1) : Ended(ps[j])
  BY <1>n, <1>1, TreeLemma DEF RestInv
<1>3. p = ps[n] /\ p \in Threads
  BY <1>n, <1>2 DEF Child
<1>4. Joined(c, n) = P \cup {p} /\ p \notin P
  <2>1. 1 .. n = (1 .. (n - 1)) \cup {n} /\ \A j \in 1 .. (n - 1) : j \in 1 .. Len(ps) /\ j # n
    BY <1>2
  <2> HIDE DEF p
  <2>2. Joined(c, n) = P \cup {p}
    BY <1>n, <1>3, <2>1 DEF Joined
  <2>3. p \notin P
    BY <1>n, <1>2, <1>3, <2>1 DEF Joined
  <2> QED
    BY <2>2, <2>3
<1>5. Sound(Joined(c, n)) /\ \A q \in Ran(Joined(c, n)) : eval[q].query = query[c]
  <2>1. n \in 0 .. Len(ps)
    BY <1>2
  <2>2. \A j \in 1 .. n : Ended(ps[j])
    BY <1>1, <1>2, <1>3
  <2> QED
    BY <1>1, <2>1, <2>2, JoinedSound
<1>6. MergedFit(merged[c], c, P)
  BY <1>n, <1>1 DEF MergeFit
<1>7. MergedFit(WithResult(c, p), c, Joined(c, n))
  <2> HIDE DEF p
  <2> QED
    BY <1>1, <1>3, <1>4, <1>5, <1>6, ChildMerged
<1>8. MergedFit(merged[c], c, Joined(c, n))'
  <2>1. PICK Q, m : Q = Joined(c, n) /\ m = WithResult(c, p)
    OBVIOUS
  <2>2. \A q \in Q : eval'[q] = eval[q]
    BY <1>1
  <2>3. MergedFit(m, c, Q)'
    <3>1. tree'[c] = tree[c] /\ query'[c] = query[c]
      BY <1>1
    <3> HIDE DEF p
    <3> QED
      BY <1>5, <1>7, <2>1, <2>2, <3>1, MergedKept
  <2>4. merged'[c] = m
    BY <1>1, <2>1
  <2>5. Joined(c, n)' = Q
    BY <1>1, <2>1 DEF Joined
  <2> QED
    BY <2>3, <2>4, <2>5
<1>9. /\ \A d \in Connections : d # c => pc'[d] = pc[d] /\ next'[d] = next[d]
      /\ n = Len(ps) => next'[c] = 1 /\ pc'[c] = "answer"
      /\ n # Len(ps) => next'[c] = n + 1 /\ pc'[c] = pc[c]
  <2>1. "answer" \in {"join", "answer"}
    OBVIOUS
  <2> QED
    BY <1>n, <1>1, <2>1, AdvanceLemma
<1>10. MergeFit(c)'
  <2>1. CASE n = Len(ps)
    <3>1. Len(tree[c].procs)' = n
      BY <1>1, <2>1
    <3>2. MergedFit(merged[c], c, Joined(c, Len(tree[c].procs)))'
      BY <1>8, <3>1
    <3> QED
      BY <1>1, <1>9, <2>1, <3>2 DEF MergeFit
  <2>2. CASE n # Len(ps)
    <3>1. next'[c] - 1 = n
      BY <1>2, <1>9, <2>2
    <3>2. MergedFit(merged[c], c, Joined(c, next[c] - 1))'
      BY <1>8, <3>1
    <3> QED
      BY <1>1, <1>9, <2>2, <3>2 DEF MergeFit
  <2> QED
    BY <2>1, <2>2
<1>11. ChildrenFit(c)'
  <2>1. Joined(c, Len(tree[c].procs))' = Joined(c, Len(ps)) /\ ChildLimit(c)' = ChildLimit(c)
    BY <1>1 DEF Joined, ChildLimit
  <2> QED
    BY <1>1, <2>1 DEF ChildrenFit
<1>12. \A d \in Connections : d # c => merged'[d] = merged[d]
  BY <1>1
<1>13. DOMAIN merged' = Connections
  BY <1>1
<1> QED
  BY <1>1, <1>9, <1>10, <1>11, <1>12, <1>13, ConnectionMerges

\* The other steps of a connection begin or end a query, or leave what was merged
\* to it.
LEMMA OtherMerges ==
  ASSUME IInv, MergeInv, NEW c \in Connections,
         RandomImages(c) \/ JoinCrashes(c) \/ Answer(c) \/ Reply(c)
  PROVE  MergeInv'
<1>1. /\ RestInv(c) /\ ChildrenFit(c) /\ MergeFit(c) /\ tree[c] \in Trees[c]
      /\ query[c].cutoff \in Nat /\ DOMAIN merged = Connections /\ DOMAIN query = Connections
      /\ DOMAIN pc = Connections
  BY DEF IInv, ShapeInv, MergeInv
<1>2. CASE RandomImages(c) \/ Answer(c)
  <2>1. /\ UNCHANGED <<files, catalogue, tree, query, next, merged>>
        /\ pc' = [pc EXCEPT ![c] = "reply"]
        /\ eval' = eval \/ eval' = Forgotten(c)
    BY <1>2 DEF RandomImages, Answer, accVars
  <2>2. pc'[c] = "reply" /\ \A d \in Connections : d # c => pc'[d] = pc[d]
    BY <1>1, <2>1
  <2>3. ChildrenFit(c)' /\ MergeFit(c)'
    BY <1>1, <2>1, <2>2 DEF ChildrenFit, MergeFit
  <2>4. \A p \in Threads :
          \/ eval'[p] = eval[p]
          \/ p \in Owned(c) /\ ScoreFit(p, eval'[p]) /\ DoneFit(p, eval'[p], files, catalogue)
    <3>1. Range(tree[c].procs) \subseteq Owned(c)
      BY <1>1 DEF Owned
    <3>2. \A p \in Threads : \/ eval'[p] = eval[p]
                             \/ p \in Range(tree[c].procs) /\ eval'[p] = Resting
      BY <2>1 DEF Forgotten
    <3> QED
      BY <3>1, <3>2, RestingFinds
  <2>5. query'[c].cutoff \in Nat /\ DOMAIN merged' = Connections
    BY <1>1, <2>1
  <2> QED
    BY <2>1, <2>2, <2>3, <2>4, <2>5, ConnectionMerges
<1>3. CASE Reply(c)
  <2>1. /\ UNCHANGED <<files, catalogue, eval, tree, next>>
        /\ pc' = [pc EXCEPT ![c] = "idle"]
        /\ query' = [query EXCEPT ![c] = NoQuery]
        /\ merged' = [merged EXCEPT ![c] = <<>>]
    BY <1>3 DEF Reply, accVars
  <2>2. /\ pc'[c] = "idle" /\ merged'[c] = <<>> /\ query'[c] = NoQuery
        /\ \A d \in Connections : d # c =>
             pc'[d] = pc[d] /\ merged'[d] = merged[d] /\ query'[d] = query[d]
    BY <1>1, <2>1
  <2>3. ChildrenFit(c)' /\ MergeFit(c)'
    BY <2>2 DEF ChildrenFit, MergeFit
  <2>4. query'[c].cutoff \in Nat /\ DOMAIN merged' = Connections
    BY <1>1, <2>1, <2>2 DEF NoQuery
  <2> QED
    BY <2>1, <2>2, <2>3, <2>4, ConnectionMerges
<1>4. CASE JoinCrashes(c)
  <2>1. UNCHANGED <<files, catalogue, eval, connVars>>
    BY <1>4 DEF JoinCrashes, accVars
  <2>2. UNCHANGED <<pc, tree, query, next, merged>>
    BY <2>1 DEF connVars
  <2>3. ChildrenFit(c)' /\ MergeFit(c)'
    BY <2>1, <2>2, SameConnection
  <2> QED
    BY <1>1, <2>1, <2>2, <2>3, ConnectionMerges
<1> QED
  BY <1>2, <1>3, <1>4

\* A step of a processor.
LEMMA ProcessorMerges ==
  ASSUME IInv, ExactInv, MergeInv, NEW p \in Threads, ProcessorStep(p)
  PROVE  MergeInv'
<1>1. Works(p)
  BY ProcessorWorks DEF MergeInv
<1>2. UNCHANGED <<pc, tree, query, next, merged>>
  BY <1>1 DEF Works, connVars
<1>3. ASSUME NEW q \in Threads
      PROVE  ScoreFit(q, eval'[q]) /\ DoneFit(q, eval'[q], files', catalogue')
  <2>1. CASE q = p
    BY <1>1, <2>1 DEF Works
  <2>2. CASE q # p
    <3>1. eval'[q] = eval[q] /\ Grows(files, catalogue, files', catalogue')
      BY <1>1, <2>2 DEF Works, Learns
    <3>2. PICK E, more : E = files' /\ more = catalogue'
      OBVIOUS
    <3>3. DoneFit(q, eval[q], E, more)
      BY <3>1, <3>2, DoneKept DEF MergeInv
    <3> QED
      BY <3>1, <3>2, <3>3 DEF MergeInv
  <2> QED
    BY <2>1, <2>2
<1>4. ASSUME NEW c \in Connections PROVE ChildrenFit(c)' /\ MergeFit(c)'
  <2>1. \A q \in Owned(c) :
          \/ eval'[q] = eval[q]
          \/ /\ eval[q].at \in Reading \cup Scoring
             /\ eval'[q].query = eval[q].query /\ eval'[q].limit = eval[q].limit
    BY <1>1, OwnedThreads DEF Works
  <2> QED
    BY <1>2, <2>1, SameConnection
<1>5. Collected(catalogue')
  BY <1>1 DEF Works, Learns, MergeInv
<1> QED
  BY <1>2, <1>3, <1>4, <1>5 DEF MergeInv

\* At the beginning nothing has been merged.
LEMMA MergeInit == Init => MergeInv
<1> SUFFICES ASSUME Init PROVE MergeInv
  OBVIOUS
<1>1. /\ catalogue = Collection /\ DOMAIN merged = Connections
      /\ \A c \in Connections : pc[c] = "idle" /\ query[c] = NoQuery /\ merged[c] = <<>>
      /\ \A p \in Threads : eval[p] = Resting
  BY DEF Init
<1>2. Collected(catalogue)
  BY <1>1 DEF Collected
<1>3. \A c \in Connections : query[c].cutoff \in Nat
  BY <1>1 DEF NoQuery
<1>4. \A p \in Threads : ScoreFit(p, eval[p]) /\ DoneFit(p, eval[p], files, catalogue)
  BY <1>1, RestingFinds
<1>5. \A c \in Connections : ChildrenFit(c) /\ MergeFit(c)
  BY <1>1 DEF ChildrenFit, MergeFit
<1> QED
  BY <1>1, <1>2, <1>3, <1>4, <1>5 DEF MergeInv

\* Every step keeps what has been merged right.
LEMMA MergeNext == IInv /\ ExactInv /\ MergeInv /\ [Next]_vars => MergeInv'
<1> SUFFICES ASSUME IInv, ExactInv, MergeInv, [Next]_vars PROVE MergeInv'
  OBVIOUS
<1>1. ASSUME NEW c \in Connections, ConnectionStep(c) PROVE MergeInv'
  BY <1>1, AskMerges, SpawnMerges, JoinMerges, OtherMerges DEF ConnectionStep
<1>2. CASE UNCHANGED vars
  <2>1. UNCHANGED <<files, catalogue, eval, pc, tree, query, next, merged>>
    BY <1>2 DEF vars, accVars, connVars
  <2>2. \A c \in Connections : ChildrenFit(c)' /\ MergeFit(c)'
    BY <2>1, SameConnection
  <2> QED
    BY <2>1, <2>2 DEF MergeInv
<1> QED
  BY <1>1, <1>2, ProcessorMerges DEF Next
-----------------------------------------------------------------------------
(* What is merged is exact *)

ScoresOver(g, S, p, q) ==
  [s \in SUBSET S |->
     IF s = {} THEN 0
     ELSE g[s \ {CHOOSE x \in s : TRUE}]
          + ApplyOnThis(CHOOSE x \in s : TRUE, Wanted(p, q, CHOOSE x \in s : TRUE))]

\* FoldSet adds up the score of a query to its total.
LEMMA ScoresAddUp ==
  ASSUME NEW p, NEW q, NEW G \in [Features -> Nat],
         \A f \in Features : ApplyOnThis(f, Wanted(p, q, f)) = G[f]
  PROVE  QueryScore(p, q) = Total(Features, Features, G)
<1> DEFINE Adds0(g) == g = ScoresOver(g, Features, p, q)
           t == [s \in SUBSET Features |-> Total(Features, s, G)]
<1>1. QueryScore(p, q) = (CHOOSE g : Adds0(g))[Features]
  BY DEF QueryScore, SumOver, FoldSet, MapThenFoldSet, ScoresOver
<1>2. IsFiniteSet(Features)
  BY QueryProcessingAssumption
<1>3. Adds0(t)
  <2>1. ASSUME NEW s \in SUBSET Features, s # {}
        PROVE  t[s] = t[s \ {CHOOSE x \in s : TRUE}]
                      + ApplyOnThis(CHOOSE x \in s : TRUE, Wanted(p, q, CHOOSE x \in s : TRUE))
    <3>1. PICK x \in s : x = CHOOSE y \in s : TRUE
      BY <2>1
    <3>2. s \ {x} \in SUBSET Features /\ x \in Features
      OBVIOUS
    <3>3. Total(Features, s, G) = Total(Features, s \ {x}, G) + G[x]
      BY <1>2, <3>2, TotalFacts
    <3>4. t[s] = t[s \ {x}] + ApplyOnThis(x, Wanted(p, q, x))
      BY <3>2, <3>3
    <3> QED
      BY <3>1, <3>4
  <2>2. t[{}] = 0
    BY <1>2, TotalFacts
  <2>3. t = [s \in SUBSET Features |-> t[s]]
    OBVIOUS
  <2> HIDE DEF t
  <2> QED
    BY <2>1, <2>2, <2>3 DEF ScoresOver
<1>4. PICK g : g = CHOOSE h : Adds0(h)
  OBVIOUS
<1>5. Adds0(g)
  <2> HIDE DEF Adds0, t
  <2> QED
    BY <1>3, <1>4
<1>6. g[Features] = Total(Features, Features, G)
  <2>1. g[{}] = 0
    BY <1>5 DEF ScoresOver
  <2>2. ASSUME NEW s \in SUBSET Features, s # {}
        PROVE  \E x \in s : g[s \ {x}] \in Nat => g[s] = g[s \ {x}] + G[x]
    <3>1. PICK x \in s : x = CHOOSE y \in s : TRUE
      BY <2>2
    <3>2. g[s] = g[s \ {x}] + ApplyOnThis(x, Wanted(p, q, x))
      BY <1>5, <2>2, <3>1 DEF ScoresOver
    <3> QED
      BY <3>2
  <2>3. AddsUp(g, Features, G)
    BY <2>1, <2>2 DEF AddsUp
  <2>4. Features \in SUBSET Features
    OBVIOUS
  <2> QED
    BY <1>2, <2>3, <2>4, TotalIsUnique
<1> QED
  BY <1>1, <1>4, <1>6

\* What a processor finds by the terms it has counted is what it should find.
LEMMA FoundAsWanted ==
  ASSUME NEW p \in Threads, NEW e, TermsFit(p, e, files, catalogue), e.left = <<>>
  PROVE  /\ Found(p, e.query) = FoundIn(e)
         /\ \A d \in DOMAIN Collection : Relevance(p, e.query, d) = RelevanceIn(e, d)
<1>1. e.tf \in [Features -> Nat] /\ e.query.images \in Seq(Images)
  BY TermsTyped
<1>2. \A f \in Features : Wanted(p, e.query, f) = e.tf[f]
  BY TermsWanted
<1>3. ASSUME NEW d \in DOMAIN Collection
      PROVE  Relevance(p, e.query, d) = RelevanceIn(e, d)
  <2>1. DocumentScore(p, e.query, d) = Total(Features, Features, GainsOf(e, d))
    <3>1. PICK G \in [Features -> Nat] : G = GainsOf(e, d)
      BY <1>1, GainFacts
    <3>2. \A f \in Features : Gain(p, e.query, f, d) = G[f]
      BY <1>2, <3>1 DEF Gain, GainsOf, GainOf
    <3>3. Features \in SUBSET Features
      OBVIOUS
    <3>4. GainSum(Features, p, e.query, d) = Total(Features, Features, G)
      BY <3>2, <3>3, GainsAddUp
    <3> QED
      BY <3>1, <3>4 DEF GainSum, DocumentScore
  <2>2. QueryScore(p, e.query) = Total(Features, Features, ScoresOf(e))
    <3>1. PICK G \in [Features -> Nat] : G = ScoresOf(e)
      BY <1>1, ScoreFacts
    <3>2. \A f \in Features : ApplyOnThis(f, Wanted(p, e.query, f)) = G[f]
      BY <1>2, <3>1 DEF ScoresOf
    <3> QED
      BY <3>1, <3>2, ScoresAddUp
  <2> QED
    BY <2>1, <2>2 DEF Relevance, RelevanceIn
<1>4. ASSUME NEW d \in DOMAIN Collection, NEW f \in Features
      PROVE  d \in ListOf[f] <=> Frequency(Collection[d], f) > 0
  BY DEF ListOf
<1>5. \A d \in DOMAIN Collection : /\ DocumentScore(p, e.query, d) = RelevanceIn(e, d)[1]
                                   /\ QueryScore(p, e.query) = RelevanceIn(e, d)[2]
  <2>1. \A d : /\ Relevance(p, e.query, d)[1] = DocumentScore(p, e.query, d)
               /\ Relevance(p, e.query, d)[2] = QueryScore(p, e.query)
    BY DEF Relevance
  <2> QED
    BY <1>3, <2>1
<1>6. Found(p, e.query) = FoundIn(e)
  BY <1>2, <1>4, <1>5 DEF Found, FoundIn
<1> QED
  BY <1>3, <1>6

\* When all children are joined, the merged relevance of an image is the weighted sum
\* of what it has with each child whose thread ran, in whatever order the threads ran
\* and whatever they did to the accessor they share.
THEOREM MergedIsExact == Spec => []MergedExactly
<1>1. ASSUME IInv, MergeInv, NEW c \in Connections,
             pc[c] = "answer", query[c].images # <<>>,
             \A p \in Ran(Range(tree[c].procs)) : Percent[p] = 100 /\ ReduceAt[p] = 0,
             tree[c].kind = "byUrl" => Len(Collection) <= 5 * query[c].size
      PROVE  LET has(d) == {p \in Ran(Range(tree[c].procs)) : d \in Found(p, query[c])} IN
             /\ DOMAIN merged[c] = {KeyOf(c, d) : d \in {x \in DOMAIN Collection : has(x) # {}}}
             /\ \A d \in DOMAIN Collection :
                  has(d) # {} =>
                    Equal(merged[c][KeyOf(c, d)], WantedSum(has(d), c, query[c], d))
  <2> DEFINE ps == tree[c].procs
             q == query[c]
  <2>1. /\ tree[c] \in Trees[c] /\ RestInv(c) /\ ChildrenFit(c) /\ MergeFit(c)
    BY <1>1 DEF IInv, ShapeInv, MergeInv
  <2>2. /\ tree[c].kind # "single" /\ Len(ps) \in Nat /\ DOMAIN ps = 1 .. Len(ps)
        /\ \A j \in 1 .. Len(ps) : Ended(ps[j])
    BY <1>1, <2>1, TreeLemma DEF RestInv, MergeFit
  <2>3. PICK P : P = Joined(c, Len(ps))
    OBVIOUS
  <2>4. P = Range(ps)
    BY <2>2, <2>3 DEF Joined, Range
  <2>5. Sound(P) /\ \A p \in Ran(P) : eval[p].query = q
    <3>1. Len(ps) \in 0 .. Len(ps)
      BY <2>2
    <3> QED
      BY <1>1, <2>2, <2>3, <3>1, JoinedSound
  <2>6. Ran(P) \subseteq P /\ P \subseteq Threads
    BY <2>5 DEF Ran, Sound
  <2>7. \A p \in Ran(P) : Whole(p, eval[p])
    <3>1. \A p \in Ran(P) : eval[p].limit = ChildLimit(c)
      <4>1. \A p \in Ran(P) : p \in Joined(c, Len(ps)) /\ eval[p].at \notin {"off", "failed"}
        BY <2>3 DEF Ran
      <4> QED
        BY <1>1, <2>1, <2>2, <4>1 DEF ChildrenFit
    <3>2. Len(Collection) <= ChildLimit(c)
      <4>1. Len(Collection) \in Nat
        BY QueryProcessingAssumption
      <4> QED
        BY <1>1, <4>1 DEF ChildLimit
    <3> QED
      BY <1>1, <2>4, <3>1, <3>2 DEF Whole
  <2>8. IsMerged(merged[c], c, P)
    BY <1>1, <2>1, <2>3, <2>7 DEF MergeFit, MergedFit
  <2>9. ASSUME NEW p \in Ran(P)
        PROVE  /\ Found(p, q) = FoundIn(eval[p])
               /\ \A d \in DOMAIN Collection : Relevance(p, q, d) = RelevanceIn(eval[p], d)
    <3>1. eval[p].at = "done" /\ p \in Threads /\ eval[p].query = q
      BY <2>5, <2>6 DEF Ran
    <3>2. TermsFit(p, eval[p], files, catalogue) /\ eval[p].left = <<>>
      BY <1>1, <2>5, <2>6, <3>1 DEF Sound, DoneFit
    <3>3. PICK e : e = eval[p]
      OBVIOUS
    <3> QED
      BY <3>1, <3>2, <3>3, FoundAsWanted
  <2> DEFINE has(d) == {p \in Ran(P) : d \in Found(p, q)}
  <2>10. \A d : has(d) = Having(P, d)
    BY <2>9 DEF Having
  <2> HIDE DEF has
  <2>11. DOMAIN merged[c] = {KeyOf(c, d) : d \in {x \in DOMAIN Collection : has(x) # {}}}
    BY <2>8, <2>10 DEF IsMerged
  <2>12. ASSUME NEW d \in DOMAIN Collection, has(d) # {}
         PROVE  Equal(merged[c][KeyOf(c, d)], WantedSum(has(d), c, q, d))
    <3>1. PICK S, V : S = Having(P, d) /\ V = Worth(c, d)
      OBVIOUS
    <3>2. IsFiniteSet(S) /\ Typed(V, S)
      BY <1>1, <2>5, <3>1, HavingTyped
    <3>3. ASSUME NEW p \in S PROVE WeightedIn(c, q, d, p) = V[p]
      <4>1. p \in Ran(P) /\ p \in Threads
        BY <2>6, <3>1 DEF Having
      <4>2. tree[c].kind \in {"byId", "byUrl"}
        <5>1. tree[c] \in TreeType
          BY <2>1, QueryProcessingAssumption
        <5> QED
          BY <2>2, <5>1 DEF TreeType
      <4>3. V[p] = Times(ResultWeight(c, p), RelevanceIn(eval[p], d))
        BY <3>1, <4>1 DEF Worth
      <4> QED
        BY <2>9, <4>1, <4>2, <4>3 DEF WeightedIn, ResultWeight
    <3>4. WantedSum(S, c, q, d) = SumOf(S, V)
      BY <3>2, <3>3, RelevancesAddUp
    <3>5. merged[c][KeyOf(c, d)] = SumOf(S, V)
      BY <2>8, <2>10, <2>12, <3>1 DEF IsMerged
    <3>6. has(d) = S
      BY <2>10, <3>1
    <3> QED
      BY <3>4, <3>5, <3>6 DEF Equal
  <2>13. \A d : has(d) = {p \in Ran(Range(tree[c].procs)) : d \in Found(p, query[c])}
    BY <2>4 DEF has
  <2> QED
    BY <2>11, <2>12, <2>13
<1>2. IInv /\ MergeInv => MergedExactly
  BY <1>1 DEF MergedExactly, Ran, KeyOf, WantedSum
<1>3. Init => IInv /\ ExactInv /\ MergeInv
  BY InitLemma, ExactInit, MergeInit
<1>4. IInv /\ ExactInv /\ MergeInv /\ [Next]_vars => (IInv /\ ExactInv /\ MergeInv)'
  BY NextLemma, ExactNext, MergeNext
<1> QED
  BY <1>2, <1>3, <1>4, PTL DEF Spec
=============================================================================
