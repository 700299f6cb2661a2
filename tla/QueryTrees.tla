------------------------------ MODULE QueryTrees ------------------------------
(***************************************************************************)
(* From the algorithm element a client sends to the query tree that        *)
(* answers its queries: the plugins found when the server starts           *)
(* (CDynamicQueryFactory, CAccessorFactoryContainer), inheritance of       *)
(* attributes (CAlgorithm::configure), the building of a tree and of the   *)
(* container that finds its nodes (CQueryTreeBuilder), and the accessors   *)
(* the nodes open and close (CAccessorAdmin).                              *)
(*                                                                         *)
(* All of it runs under the lock of the session manager, so one job is     *)
(* under way at a time; a thread that an exception takes out of its job    *)
(* keeps that lock and may begin another job.  Constructors of accessors   *)
(* lock gMutex, too, and two of them may leave it locked.                  *)
(*                                                                         *)
(* An algorithm is a function from positions (<<>> is the root, <<2, 1>>   *)
(* the first child of its second child) to the attributes of the element   *)
(* there, and these are a function from names to values.  Only elements    *)
(* named "algorithm" have a position.                                      *)
(***************************************************************************)
EXTENDS Integers, Sequences, FiniteSets, SequencesExt, TLC, Functions, Mutex

CONSTANTS
  Sessions,
  Collections,  \* the collections in the configuration file
  Requests,     \* the algorithms clients send
  Defaults,     \* mContent of the algorithm collection: from types to algorithms
  WithOthers,   \* types whose default has children that are no algorithms
  Directory,    \* the files of the library directory
  Optional,     \* those of them an installation may lack
  Outcomes,     \* what the constructor of an accessor may come to
  FreeUnused,   \* the settings of __GIFT_FREE_UNUSED_ACCESSORS
  MaxThrown,    \* bound: how many jobs of a thread fail
  MaxCount      \* bound: no job begins once an accessor is counted more often

AccessorNames == {"url2fts", "inverted_file", "if_mysql", "hierarchy"}
Attribute == {"id", "type", "base", "sub", "coll", "weight"}

FileType == [lib : STRING, kind : {"query", "accessor"}, name : STRING, sane : BOOLEAN]

\* The children of an element.
Kids(a, p) == {q \in DOMAIN a : q # <<>> /\ Front(q) = p}

ASSUME QueryTreesAssumption ==
  /\ \A a \in Requests \cup {Defaults[y] : y \in DOMAIN Defaults} :
       /\ IsFiniteSet(DOMAIN a) /\ <<>> \in DOMAIN a
       /\ \A p \in DOMAIN a :
            /\ p \in Seq(Nat) /\ DOMAIN a[p] \subseteq Attribute
            /\ \A n \in 0 .. Len(p) : SubSeq(p, 1, n) \in DOMAIN a
            /\ Kids(a, p) = {Append(p, k) : k \in 1 .. Cardinality(Kids(a, p))}
  /\ WithOthers \subseteq DOMAIN Defaults
  /\ Directory \subseteq FileType /\ Optional \subseteq Directory
  /\ \A f, g \in Directory : f.lib = g.lib => f.kind = g.kind
  /\ Outcomes \subseteq {"good", "caught", "thrown"}
  /\ FreeUnused \subseteq BOOLEAN
  /\ {MaxThrown, MaxCount} \subseteq Nat

VARIABLES
  up,         \* the process runs
  frees,      \* built with __GIFT_FREE_UNUSED_ACCESSORS
  unread,     \* directory entries readdir() has not returned yet
  seen,       \* lSeenLibs
  plugins,    \* the names of the registered plugins of each kind
  manager,    \* mMutexSessionManager
  gmutex,     \* gMutex
  admin,      \* mContent of each collection's CAccessorAdmin
  container,  \* mQueryTree.first of each session
  tree,       \* the nodes under mQueryTree.second
  job,        \* the configuration under way
  thrown,     \* how many jobs of a thread an exception has ended
  kept        \* how often a constructor has kept gMutex for a thread

pluginVars == <<unread, seen, plugins>>
sessionVars == <<container, tree>>
lossVars == <<thrown, kept>>
vars == <<up, frees, pluginVars, manager, gmutex, admin, sessionVars, job, lossVars>>
-----------------------------------------------------------------------------
(* Algorithms and attributes *)

\* stringReadAttribute(name).second
Read(attributes, name) ==
  IF name \in DOMAIN attributes THEN attributes[name] ELSE ""

\* getWeight
Weight(attributes) ==
  IF "weight" \in DOMAIN attributes THEN attributes["weight"] ELSE 1

\* The children of an element as they follow each other.
KidSeq(a, p) == [k \in 1 .. Cardinality(Kids(a, p)) |-> Append(p, k)]

\* containsAlgorithmByType, for the type the element has of its own.
HasDefault(attributes) ==
  "type" \in DOMAIN attributes /\ attributes["type"] \in DOMAIN Defaults

\* Faulty variant of Merged: the other one's values win.
MergedBadly(mine, other) ==
  [n \in DOMAIN mine \cup DOMAIN other |->
     IF n \in DOMAIN other THEN other[n] ELSE mine[n]]

\* mergeAttributes: what is there already is kept.
Merged(mine, other) ==
  [n \in DOMAIN mine \cup DOMAIN other |-> IF n \in DOMAIN mine THEN mine[n] ELSE other[n]]

\* The children of a default, as descendants of position p.
Clones(default, p) ==
  [q \in {p \o r : r \in DOMAIN default \ {<<>>}} |->
     default[SubSeq(q, Len(p) + 1, Len(q))]]
-----------------------------------------------------------------------------
(* State *)

EmptyEntry == [count |-> 0, object |-> FALSE]

Nobody == [on |-> FALSE, by |-> NoThread]

Begun(t, s, a) ==
  [on |-> TRUE, by |-> t, session |-> s, step |-> "configure", given |-> a,
   alg |-> a, linked |-> DOMAIN a \ {<<>>}, cloned |-> {},
   todo |-> <<[pos |-> <<>>, leave |-> FALSE]>>,
   entries |-> <<>>, nodes |-> <<>>]

Init ==
  /\ up = TRUE
  /\ frees \in FreeUnused
  /\ unread \in {Directory, Directory \ Optional}
  /\ seen = {}
  /\ plugins = [k \in {"query", "accessor"} |-> {}]
  /\ manager = FreeMutex /\ gmutex = FreeMutex
  /\ admin = [c \in Collections |-> [n \in AccessorNames |-> EmptyEntry]]
  /\ container = [s \in Sessions |-> <<>>]
  /\ tree = [s \in Sessions |-> <<>>]
  /\ job = Nobody
  /\ thrown = [t \in Threads |-> 0] /\ kept = [t \in Threads |-> 0]
-----------------------------------------------------------------------------
(* The start: readdir() returns the files in any order *)

\* Only the library of a sane file is in lSeenLibs.
Marked(f) == IF f.sane THEN seen \cup {f.lib} ELSE seen

\* The file can be opened and has the two symbols its library's name promises.
Loads(f) == f.lib \notin seen /\ f.sane

\* registerFactory throws when it knows the name, which ends the server; the map of
\* the query plugins ignores the second.
Twice(f) == f.kind = "accessor" /\ f.name \in plugins[f.kind]

\* A file of a library that is not registered yet is opened and asked for its name.
Scan(f) ==
  /\ up /\ f \in unread
  /\ unread' = unread \ {f}
  /\ up' = ~(Loads(f) /\ Twice(f))
  /\ seen' = IF f.lib \in seen THEN seen ELSE Marked(f)
  /\ plugins' = IF Loads(f) THEN [plugins EXCEPT ![f.kind] = @ \cup {f.name}]
                            ELSE plugins
  /\ UNCHANGED <<frees, manager, gmutex, admin, sessionVars, job, lossVars>>
-----------------------------------------------------------------------------
(* Accessors *)

\* The accessor the constructor of a query opens.
AccessorOf(attributes) ==
  CASE Read(attributes, "base") = "multiple" -> "url2fts"
    [] Read(attributes, "base") = "hierarchy" -> "hierarchy"
    [] OTHER -> IF Read(attributes, "sub") = "mysql" THEN "if_mysql" ELSE "inverted_file"

\* Faulty variant of Reused: nobody counts the second user.
ReusedUncounted(entry) == entry

\* The second increment is in the expression printed at line 68.
Reused(entry) == [entry EXCEPT !.count = @ + 2]

\* A factory that is not there makes a null accessor, which is counted as well.
Opened(object) == [count |-> 1, object |-> object]

\* closeAccessor, called k times; it does nothing in a build that frees no accessors.
Closed(entry, k) ==
  IF ~frees THEN entry
  ELSE IF k < entry.count THEN [entry EXCEPT !.count = @ - k]
  ELSE EmptyEntry

\* CQMultiple and CQHierarchy leave their accessor open.
Closes(node) == node.accessor \in {"inverted_file", "if_mysql"}

Users(nodes, c, n) == {p \in DOMAIN nodes : nodes[p].coll = c /\ nodes[p].accessor = n}

\* The destructors of the nodes of a tree.
AfterDestruction(nodes) ==
  [c \in Collections |-> [n \in AccessorNames |->
     Closed(admin[c][n], Cardinality({p \in Users(nodes, c, n) : Closes(nodes[p])}))]]

\* The other sessions' trees if adm is what is left: who uses a deleted accessor
\* has a dangling pointer.
Disturbed(s, adm) ==
  [r \in Sessions |->
     IF r = s THEN <<>>
     ELSE [p \in DOMAIN tree[r] |->
             LET n == tree[r][p] IN
             [n EXCEPT !.live = @ /\ adm[n.coll][n.accessor].object]]]
-----------------------------------------------------------------------------
(* Jobs.  Whatever a thread does it allocates, and operator new locks gMutex. *)

May(t) == up /\ unread = {} /\ CanLock(gmutex, t)

Free(t) ==
  /\ May(t) /\ ~job.on /\ CanLock(manager, t)
  /\ thrown[t] < MaxThrown /\ kept[t] < MaxThrown
  /\ \A c \in Collections, n \in AccessorNames : admin[c][n].count <= MaxCount

\* setActiveAlgorithm, up to the configuration: the new algorithm's ID is taken out
\* of the container and the old tree destroyed.  An algorithm without a type is
\* not built.
SetAlgorithm(t, s, a) ==
  /\ Free(t)
  /\ admin' = AfterDestruction(tree[s])
  /\ tree' = Disturbed(s, admin')
  /\ container' =
       [container EXCEPT ![s] = Restrict(@, DOMAIN @ \ {Read(a[<<>>], "id")})]
  /\ IF "type" \in DOMAIN a[<<>>]
     THEN job' = Begun(t, s, a) /\ manager' = Locked(manager, t, 1)
     ELSE UNCHANGED <<job, manager>>
  /\ UNCHANGED <<up, frees, pluginVars, gmutex, lossVars>>

\* deleteSession; the name may be used by a new session.
DeleteSession(t, s) ==
  /\ Free(t) /\ tree[s] # <<>>
  /\ admin' = AfterDestruction(tree[s])
  /\ tree' = Disturbed(s, admin')
  /\ container' = [container EXCEPT ![s] = <<>>]
  /\ UNCHANGED <<up, frees, pluginVars, manager, gmutex, job, lossVars>>

Here == Head(job.todo).pos

Visit(kids, rest) == [j \in DOMAIN kids |-> [pos |-> kids[j], leave |-> FALSE]] \o rest

\* What configure makes of the algorithm when it is called for position p: default
\* values first, then the children of the default if there are none, then the
\* father's values if the element knows its father.
ConfiguredAt(p) ==
  LET own == job.alg[p]
      has == HasDefault(own)
      default == Defaults[own["type"]]
      withDefault == IF has THEN Merged(own, default[<<>>]) ELSE own
      clones == IF has /\ Kids(job.alg, p) = {} THEN Clones(default, p) ELSE <<>>
      all == IF p \in job.linked THEN Merged(withDefault, job.alg[Front(p)])
                                 ELSE withDefault
      alg == Merged([job.alg EXCEPT ![p] = all], clones) IN
  [job EXCEPT !.alg = alg,
              !.given = Merged(@, clones),
              !.linked = @ \cup {q \in DOMAIN clones : Front(q) = p},
              !.cloned = @ \cup DOMAIN clones,
              !.todo = Visit(KidSeq(alg, p), Tail(@))]

\* A clone does not say where its children go (mCurrentChild is not initialized), so
\* that none can be added to it.
AddsToClone(p) ==
  LET own == job.alg[p] IN
  /\ p \in job.cloned /\ HasDefault(own) /\ Kids(job.alg, p) = {}
  /\ own["type"] \in WithOthers \/ Kids(Defaults[own["type"]], <<>>) # {}

Working(t, step) == May(t) /\ job.on /\ job.by = t /\ job.step = step

ConfigureElement(t) ==
  /\ Working(t, "configure") /\ job.todo # <<>>
  /\ ~AddsToClone(Here)
  /\ job' = ConfiguredAt(Here)
  /\ UNCHANGED <<up, frees, pluginVars, manager, gmutex, admin, sessionVars, lossVars>>

\* The pointer leads nowhere.
ConfigureCrashes(t) ==
  /\ Working(t, "configure") /\ job.todo # <<>>
  /\ AddsToClone(Here)
  /\ up' = FALSE
  /\ UNCHANGED <<frees, pluginVars, manager, gmutex, admin, sessionVars, job, lossVars>>

StartBuild(t) ==
  /\ Working(t, "configure") /\ job.todo = <<>>
  /\ job' = [job EXCEPT !.step = "build", !.todo = <<[pos |-> <<>>, leave |-> FALSE]>>]
  /\ UNCHANGED <<up, frees, pluginVars, manager, gmutex, admin, sessionVars, lossVars>>

\* Faulty variant of Entered: an ID that is in the container stays what it is.
EnteredOnce(entries, id, p) == Merged(entries, [i \in {id} |-> p])

\* (*inoutContainer)[inAlgorithm.getID()]=lRoot
Entered(entries, id, p) == Merged([i \in {id} |-> p], entries)

\* buildQueryTree, up to the loop over the children.
EnterNode(t) ==
  /\ Working(t, "build") /\ job.todo # <<>> /\ ~Head(job.todo).leave
  /\ job' = [job EXCEPT
       !.entries = Entered(@, Read(job.alg[Here], "id"), Here),
       !.todo = Visit(KidSeq(job.alg, Here), <<[pos |-> Here, leave |-> TRUE]>> \o Tail(@))]
  /\ UNCHANGED <<up, frees, pluginVars, manager, gmutex, admin, sessionVars, lossVars>>

Constructing(t) == Working(t, "build") /\ job.todo # <<>> /\ Head(job.todo).leave

Attributes == job.alg[Here]
Base == Read(Attributes, "base")
Entry == admin[Read(Attributes, "coll")][AccessorOf(Attributes)]

\* What makeQuery of the factory can make.
KnownBase == Base = "multiple" \/ Base \in plugins["query"]

\* getProxy finds the collection; it throws otherwise.
HasProxy == Read(Attributes, "coll") \in Collections

Constructible == KnownBase /\ HasProxy

NodeHere ==
  [id |-> Read(Attributes, "id"), coll |-> Read(Attributes, "coll"),
   weight |-> Weight(Attributes), accessor |-> AccessorOf(Attributes), live |-> TRUE]

\* The node at hand is configured: its children have been, so they can be added.
NodeDone == [job EXCEPT !.nodes = Merged([p \in {Here} |-> NodeHere], @), !.todo = Tail(@)]

SetEntry(entry) ==
  admin' = [admin EXCEPT ![Read(Attributes, "coll")][AccessorOf(Attributes)] = entry]

\* An exception reaches the visitor that has called setAlgorithm.
Throw(t) ==
  /\ job' = Nobody
  /\ thrown' = [thrown EXCEPT ![t] = @ + 1]

\* The accessor is there, for all the table knows.
ReuseAccessor(t) ==
  /\ Constructing(t) /\ Constructible /\ Entry.count # 0 /\ Entry.object
  /\ SetEntry(Reused(Entry))
  /\ job' = NodeDone
  /\ UNCHANGED <<up, frees, pluginVars, manager, gmutex, sessionVars, lossVars>>

Installed == AccessorOf(Attributes) \in plugins["accessor"]

\* The factory makes an accessor.  If the inverted file's init throws, it catches the
\* exception and leaves gMutex locked; the constructor ignores what it returns.
MakeAccessor(t) ==
  /\ Constructing(t) /\ Constructible /\ Entry.count = 0 /\ Installed
  /\ \E outcome \in Outcomes \cap {"good", "caught"} :
       /\ outcome = "caught" => AccessorOf(Attributes) = "inverted_file"
       /\ LET lost == IF outcome = "caught" THEN 1 ELSE 0 IN
          /\ gmutex' = IF lost = 0 THEN gmutex ELSE Locked(gmutex, t, lost)
          /\ kept' = [kept EXCEPT ![t] = @ + lost]
  /\ SetEntry(Opened(TRUE))
  /\ job' = NodeDone
  /\ UNCHANGED <<up, frees, pluginVars, manager, sessionVars, thrown>>

\* CAcURL2FTS throws if it cannot parse its file, with gMutex locked; the accessor of
\* the inverted file makes one of its own.
AccessorThrows(t) ==
  /\ Constructing(t) /\ Constructible /\ Entry.count = 0 /\ Installed
  /\ "thrown" \in Outcomes /\ AccessorOf(Attributes) \in {"url2fts", "inverted_file"}
  /\ gmutex' = Locked(gmutex, t, 1)
  /\ kept' = [kept EXCEPT ![t] = @ + 1]
  /\ Throw(t)
  /\ UNCHANGED <<up, frees, pluginVars, manager, admin, sessionVars>>

\* CAcHierarchy throws an exception if its file is no XML; if it cannot open the
\* file, it throws a string, which nobody but the accept loop catches: it takes a
\* connection served there out of its job, and ends the server from any other thread.
HierarchyThrows(t) ==
  /\ Constructing(t) /\ Constructible /\ Entry.count = 0 /\ Installed
  /\ "thrown" \in Outcomes /\ AccessorOf(Attributes) = "hierarchy"
  /\ \/ Throw(t) /\ UNCHANGED up
     \/ up' = FALSE /\ UNCHANGED <<job, thrown>>
  /\ UNCHANGED <<frees, pluginVars, manager, gmutex, admin, sessionVars, kept>>

\* Faulty variant of NullIsRefused: CQInvertedFile takes what it gets.
NullIsTaken == FALSE

\* CQInvertedFile throws VEWrongAccessor; the others assert that there is an accessor.
NullIsRefused == AccessorOf(Attributes) \in {"inverted_file", "if_mysql"}

NullAccessor(t) ==
  /\ Constructing(t) /\ Constructible
  /\ IF Entry.count = 0 THEN ~Installed /\ SetEntry(Opened(FALSE))
                        ELSE ~Entry.object /\ SetEntry(Reused(Entry))
  /\ CASE NullIsRefused -> Throw(t) /\ UNCHANGED up
       [] AccessorOf(Attributes) \in {"url2fts", "hierarchy"} ->
            up' = FALSE /\ UNCHANGED <<job, thrown>>
       [] OTHER -> job' = NodeDone /\ UNCHANGED <<up, thrown>>
  /\ UNCHANGED <<frees, pluginVars, manager, gmutex, sessionVars, kept>>

\* VEConfigurationError or VENotFound.
Refuse(t) ==
  /\ Constructing(t) /\ ~Constructible
  /\ Throw(t)
  /\ UNCHANGED <<up, frees, pluginVars, manager, gmutex, admin, sessionVars, kept>>

\* The tree is the session's.
Finish(t) ==
  /\ Working(t, "build") /\ job.todo = <<>>
  /\ tree' = [tree EXCEPT ![job.session] = job.nodes]
  /\ container' = [container EXCEPT ![job.session] = job.entries]
  /\ manager' = Unlocked(manager, 1)
  /\ job' = Nobody
  /\ UNCHANGED <<up, frees, pluginVars, gmutex, admin, lossVars>>

Next ==
  \/ \E f \in Directory : Scan(f)
  \/ \E t \in Threads :
       \/ \E s \in Sessions : \/ \E a \in Requests : SetAlgorithm(t, s, a)
                              \/ DeleteSession(t, s)
       \/ ConfigureElement(t) \/ ConfigureCrashes(t) \/ StartBuild(t) \/ EnterNode(t)
       \/ ReuseAccessor(t) \/ MakeAccessor(t) \/ AccessorThrows(t)
       \/ HierarchyThrows(t) \/ NullAccessor(t) \/ Refuse(t) \/ Finish(t)

Spec == Init /\ [][Next]_vars
-----------------------------------------------------------------------------
(* Properties *)

Node ==
  [id : STRING, coll : Collections, weight : Nat, accessor : AccessorNames, live : BOOLEAN]

\* Trees, containers and the tables of accessors are what the code can make of them.
TypeOK ==
  /\ {up, frees} \subseteq BOOLEAN
  /\ unread \subseteq Directory /\ seen \subseteq {f.lib : f \in Directory}
  /\ {manager, gmutex} \subseteq MutexType
  /\ admin \in [Collections -> [AccessorNames -> [count : Nat, object : BOOLEAN]]]
  /\ \A s \in Sessions : Range(tree[s]) \subseteq Node
  /\ job.on => job.by \in Threads /\ job.session \in Sessions
                /\ Range(job.nodes) \subseteq Node
  /\ {thrown, kept} \subseteq [Threads -> Nat]

\* The accessor a node of a tree works with is there as long as the node is, whatever
\* other sessions configure or delete (CAccessorAdmin.cc:48-102: a count of users that
\* is wrong by chance of a print statement, in a table that may free what it holds).
AccessorsInUse ==
  \A s \in Sessions : \A p \in DOMAIN tree[s] :
    LET n == tree[s][p] IN n.live /\ admin[n.coll][n.accessor].object

\* The places of a tree, in the order buildQueryTree enters them.
Before(p, q) ==
  \/ IsStrictPrefix(p, q)
  \/ \E k \in DOMAIN p \cap DOMAIN q :
       /\ p[k] < q[k]
       /\ \A j \in 1 .. k - 1 : p[j] = q[j]

\* As long as a tree stands, the container of its session finds every one of its
\* nodes by its ID, if the ID is the node's alone, and nothing else; of the nodes
\* that share an ID (one that an element inherits from its father, for instance) it
\* finds the one that was entered last, hence not the root.  A configuration that
\* fails half-way must not leave entries for a tree that stands.
NodesAreFound ==
  \A s \in Sessions : tree[s] # <<>> =>
    /\ DOMAIN container[s] = {tree[s][p].id : p \in DOMAIN tree[s]}
    /\ \A i \in DOMAIN container[s] :
         LET found == container[s][i] IN
         /\ found \in DOMAIN tree[s] /\ tree[s][found].id = i
         /\ \A p \in DOMAIN tree[s] : tree[s][p].id = i => p = found \/ Before(p, found)

\* An element and those of its ancestors whose values it can see: a clone below a
\* clone has no father.
Visible(p) ==
  {q \in DOMAIN job.given :
     IsPrefix(q, p) /\ \A r \in DOMAIN job.given :
       IsPrefix(r, p) /\ IsStrictPrefix(q, r) => r \in job.linked}

Says(q, name) ==
  \/ name \in DOMAIN job.given[q]
  \/ HasDefault(job.given[q])
     /\ name \in DOMAIN Defaults[job.given[q]["type"]][<<>>]

Said(q, name) ==
  IF name \in DOMAIN job.given[q] THEN job.given[q][name]
  ELSE Defaults[job.given[q]["type"]][<<>>][name]

\* When a tree is built from it, an algorithm says of every attribute what the nearest
\* element says that says anything, the element itself first: as sent or cloned, or
\* else in the default of its own type (CAlgorithm.cc:149-171 and 179-277,
\* CAlgorithm.h:66-75).
InheritsFromNearest ==
  job.on /\ job.step = "build" =>
    \A p \in DOMAIN job.alg : \A name \in Attribute :
      LET from == {q \in Visible(p) : Says(q, name)} IN
      IF from = {} THEN name \notin DOMAIN job.alg[p]
      ELSE LET nearest == CHOOSE q \in from : \A r \in from : Len(r) <= Len(q) IN
           /\ name \in DOMAIN job.alg[p]
           /\ job.alg[p][name] = Said(nearest, name)

\* Between jobs a thread holds the manager's lock as often as a job of it was ended by
\* an exception, and gMutex as often as a constructor of an accessor failed in it
\* (CAcURL2FTS.cc:112 and 213, CAcIFFileSystem.cc:864 and 1114): nobody else keeps a
\* lock, and a success does not give back one that was lost.
LocksBalanced ==
  up => \A t \in Threads :
    /\ Depth(gmutex, t) = kept[t]
    /\ Depth(manager, t) = thrown[t] + (IF job.on /\ job.by = t THEN 1 ELSE 0)
=============================================================================
