--------------------------- MODULE BrowserBenchmark ---------------------------
(***************************************************************************)
(* The programs that query a server by themselves.  CFeedbackClient's      *)
(* doQueryGroup gives relevance feedback until a query repeats itself;     *)
(* CFCMovingTarget's doQueryGroup searches targets by browsing.  The first *)
(* talks to a server of which only the form of its replies is known, the   *)
(* second to the hierarchy browser of this server, each of whose           *)
(* connections has a thread, if the server is built with threads.          *)
(*                                                                         *)
(* A program does one thing at a time: it sends a message, waits for the   *)
(* whole reply, reads it, and decides.  The path of XML names and the path *)
(* in the hierarchy are the same field of the client.                      *)
(***************************************************************************)
EXTENDS FeedbackClient, HierarchyBrowser

CONSTANTS
  RelevantLists,  \* the lists of relevant images that begin a group
  Displays,       \* the results of the server of a group, no image twice
  Greetings,      \* replies to startSession
  Files,          \* the hierarchy files
  Targets,        \* the targets of a test, in their order
  Rankings,       \* the results of the server that measures distances
  BrowsedCollection, \* inCollection2 of a test
  MaxGroups,      \* bound: groups one client does
  MaxSteps,       \* the bound of doQueryGroup (100)
  MaxTries        \* the bound for each target (200)

ASSUME BrowserBenchmarkAssumption ==
  /\ RelevantLists \subseteq Seq(Nat) \ {<<>>}
  /\ \A images \in Displays : images \in Seq(Nat) /\ IsInjective(images)
  /\ \A greeting \in Greetings : greeting \in Seq(ToSet(greeting))
  /\ {MaxGroups, MaxSteps, MaxTries} \subseteq Nat \ {0}
  /\ Targets # <<>>

VARIABLES
  program,   \* "group" or "test"
  pc,        \* what the program does next
  c,         \* the client
  request,   \* the query on its way, or NoQuery
  reply,     \* the reply to it
  group,     \* doQueryGroup of CFeedbackClient: lOldQuery, lCount, groups done and,
             \* for the properties, all relevant images and whether there were results
  test,      \* doQueryGroup of CFCMovingTarget
  server,    \* the hierarchy, the session's node, the lock, threads or not
  shown      \* the last results a server sent

vars == <<program, pc, c, request, reply, group, test, server, shown>>

M == INSTANCE Mutex WITH Threads <- Nat, NoThread <- -1

NoReply == <<>>

ResultElement(image) ==
  <<Start("query-result-element", Attr("image-location", image)), End("query-result-element")>>

\* A reply with results, and one without.
Reply(session, content) ==
  <<Start("mrml", Attr("session-id", session))>> \o content \o <<End("mrml")>>
ResultReply(session, images) ==
  Reply(session, <<Start("query-result", <<>>), Start("query-result-element-list", <<>>)>>
                 \o FlattenSeq([i \in DOMAIN images |-> ResultElement(images[i])])
                 \o <<End("query-result-element-list"), End("query-result")>>)
ErrorReply(session) == Reply(session, <<Start("error", <<>>), End("error")>>)

Idle == [target |-> 0, count |-> 0, oldCount |-> 0, up |-> FALSE, feedback |-> <<>>,
         clicked |-> {}, untouched |-> <<>>, old |-> <<>>, ranks |-> <<>>,
         clicks |-> 0, retrieved |-> 0, found |-> {}]

Init ==
  /\ program \in {"group", "test"}
  /\ pc = "begin"
  /\ c = NewClient
  /\ request = NoQuery /\ reply = NoReply /\ shown = <<>>
  /\ group = [old |-> NoQuery, count |-> 0, done |-> 0, wanted |-> {}, seen |-> FALSE]
  /\ test = Idle
  /\ server \in [hierarchy : {ReadHierarchy(f) : f \in IF program = "test" THEN Files ELSE {<<>>}},
                 node : {<<>>}, lock : {M!FreeMutex},
                 threads : IF program = "test" THEN BOOLEAN ELSE {FALSE}]

Send(query, next) ==
  /\ request' = query
  /\ reply' = NoReply
  /\ pc' = next
-----------------------------------------------------------------------------
(* Both programs: a session is opened and configured *)

BeginGroup ==
  /\ program = "group" /\ pc \in {"begin", "end"} /\ group.done < MaxGroups
  /\ \E images \in RelevantLists :
       /\ c' = setRelevantImages(c, images)
       /\ group' = [group EXCEPT !.wanted = @ \cup ToSet(images), !.seen = FALSE]
  /\ pc' = "start"
  /\ UNCHANGED <<program, request, reply, test, server, shown>>

\* onSearchStart, createDistanceMeasure with a client of its own
BeginTest ==
  /\ program = "test" /\ pc = "begin"
  /\ \E ranks \in [ToSet(Targets) -> Rankings] : test' = [test EXCEPT !.ranks = ranks]
  /\ c' = [c EXCEPT !.path = <<>>]
  /\ pc' = "start"
  /\ UNCHANGED <<program, request, reply, group, server, shown>>

\* The algorithm found decides only whether there is a test at all.
MayBrowse(d) ==
  /\ HasCollection(d, BrowsedCollection)
  /\ getAlgorithmsByParadigmAndCollection(
       d, <<Attr("interaction-type", "browsing")>>, getCollection(d, BrowsedCollection)) # <<>>

startSession ==
  /\ pc = "start"
  /\ \E d \in {readAndParse(c, greeting) : greeting \in Greetings} :
       /\ c' = d
       /\ pc' = IF program = "test" /\ ~MayBrowse(d) THEN "died" ELSE "configure"
  /\ UNCHANGED <<program, request, reply, group, test, server, shown>>

\* The message asks for random images, too.  Without IDs the first algorithm is
\* configured; a test gives none.
configureSession ==
  /\ pc = "configure"
  /\ \/ \E images \in Displays :
          /\ c' = readAndParse(c, ResultReply(c.session, images))
          /\ shown' = images
          /\ group' = [group EXCEPT !.seen = TRUE]
     \/ c' = readAndParse(c, ErrorReply(c.session)) /\ UNCHANGED <<group, shown>>
  /\ pc' = IF program = "group" THEN "first" ELSE "target"
  /\ UNCHANGED <<program, request, reply, test, server>>
-----------------------------------------------------------------------------
(* A group of queries *)

doFirstQueryStep ==
  /\ program = "group" /\ pc = "first"
  /\ LET query == makeQuery(c, <<c.given[1]>>, c.session, Nth(0), Nth(0)) IN
     /\ Send(query, "read")
     /\ group' = [group EXCEPT !.old = query, !.count = 1]
  /\ UNCHANGED <<program, c, test, server, shown>>

Answer ==
  /\ program = "group" /\ request # NoQuery /\ reply = NoReply
  /\ \/ \E images \in Displays :
          /\ reply' = ResultReply(request.session, images)
          /\ shown' = images
          /\ group' = [group EXCEPT !.seen = TRUE]
     \/ reply' = ErrorReply(request.session) /\ UNCHANGED <<group, shown>>
  /\ UNCHANGED <<program, pc, c, request, test, server>>

Read ==
  /\ program = "group" /\ pc = "read" /\ reply # NoReply
  /\ c' = readAndParse(c, reply)
  /\ request' = NoQuery /\ reply' = NoReply
  /\ pc' = "step"
  /\ UNCHANGED <<program, group, test, server, shown>>

\* Faulty variant of Counted: the steps are not counted.
Uncounted(n) == n

\* lCount after another step.
Counted(n) == n + 1

\* doQueryStep in the loop of doQueryGroup: a query that repeats itself ends the group,
\* and so does the step after lCount has reached its bound.  Without any results so far
\* nothing is sent, and the program waits for an answer.
doQueryStep ==
  /\ program = "group" /\ pc = "step"
  /\ IF c.query # group.old /\ group.count <= MaxSteps
     THEN /\ Send(c.query, "read")
          /\ group' = [group EXCEPT !.old = c.query, !.count = Counted(@)]
     ELSE /\ pc' = "end"
          /\ group' = [group EXCEPT !.done = @ + 1, !.old = NoQuery, !.count = 0]
          /\ UNCHANGED <<request, reply>>
  /\ UNCHANGED <<program, c, test, server, shown>>
-----------------------------------------------------------------------------
(* The search for targets *)

Target == Targets[test.target]

isEqualList(list, other) == Ascending(list) = Ascending(other)

isImageClicked(path, image) == Append(path, image) \in test.clicked

\* A rank of 0 is false.
Rank(image) ==
  LET ranking == test.ranks[Target] IN
  IF \E i \in DOMAIN ranking : ranking[i] = image
  THEN Max({i \in DOMAIN ranking : ranking[i] = image}) - 1 ELSE 0

\* Faulty variant of Choice: what has been clicked is clicked again.
ChoiceAmongAll(path, results) ==
  LET ranked == {i \in DOMAIN results : Rank(results[i]) > 0} IN
  CASE ranked # {} -> results[CHOOSE i \in ranked :
                        \A j \in ranked : Rank(results[i]) <= Rank(results[j])]
    [] ranked = {} /\ results # <<>> -> results[1]
    [] OTHER -> NoImage

\* The image clicked next: the first of the lowest rank, or the first one without.
Choice(path, results) ==
  LET free == {i \in DOMAIN results : ~isImageClicked(path, results[i])}
      ranked == {i \in free : Rank(results[i]) > 0}
      best == {i \in ranked : \A j \in ranked : Rank(results[i]) <= Rank(results[j])} IN
  CASE ranked # {} -> results[Min(best)]
    [] ranked = {} /\ free # {} -> results[Min(free)]
    [] OTHER -> NoImage

\* doFirstQueryStep with the feedback made last.
Query ==
  IF test.up THEN [makeQuery(c, <<>>, c.session, Nth(0), Nth(0)) EXCEPT !.up = TRUE]
  ELSE makeQuery(c, test.feedback, c.session, Nth(0), Nth(0))

\* foreach $iTarget
NextTarget ==
  /\ program = "test" /\ pc = "target"
  /\ IF test.target < Len(Targets)
     THEN /\ test' = [test EXCEPT !.target = @ + 1, !.feedback = <<>>, !.oldCount = test.count]
          /\ pc' = "query"
     ELSE pc' = "end" /\ UNCHANGED test
  /\ UNCHANGED <<program, c, request, reply, group, server, shown>>

SendQuery ==
  /\ program = "test" /\ pc = "query"
  /\ Send(Query, "look")
  /\ UNCHANGED <<program, c, group, test, server, shown>>

\* A connection has a thread; getChildren keeps the lock when it finds children.
Browse ==
  LET node == NodeAfter(server.hierarchy, server.node, request)
      thread == test.count
      leaks == HasChildren(server.hierarchy, node) /\ ~(request.up /\ server.node = <<>>) IN
  /\ program = "test" /\ request # NoQuery /\ reply = NoReply
  /\ server.threads => M!CanLock(server.lock, thread)
  /\ server' = [server EXCEPT !.node = node,
                  !.lock = IF server.threads /\ leaks THEN M!Locked(@, thread, 1) ELSE @]
  /\ IF HasDisplay(server.hierarchy, server.node, request)
     THEN LET images == Display(server.hierarchy, server.node, request) IN
          reply' = ResultReply(request.session, images) /\ shown' = images
     ELSE reply' = Reply(request.session, <<>>) /\ UNCHANGED shown
  /\ UNCHANGED <<program, pc, c, request, group, test>>

\* hierarchyCreateFeedback: a display that has not changed means that one has not
\* moved.
CreateFeedback(d, seen) ==
  LET unmoved == isEqualList(d.results, test.untouched)
      path == IF unmoved THEN Popped(d.path) ELSE d.path
      choice == Choice(path, d.results) IN
  /\ c' = [d EXCEPT !.path = IF choice = NoImage THEN Popped(path) ELSE Append(path, choice)]
  /\ test' = [seen EXCEPT !.untouched = d.results,
                !.up = (choice = NoImage),
                !.feedback = IF choice = NoImage THEN <<>> ELSE <<choice>>,
                !.clicked = IF choice = NoImage THEN @ ELSE @ \cup {Append(path, choice)},
                !.clicks = IF choice = NoImage THEN @ ELSE @ + 1]

\* onTargetFound, which a search that is given up does as well
EndSearch(d, seen, found) ==
  /\ c' = [d EXCEPT !.path = <<>>]
  /\ test' = [seen EXCEPT !.clicked = {}, !.up = FALSE, !.feedback = <<>>,
                !.clicks = @ - Len(test.feedback), !.found = IF found THEN @ \cup {Target} ELSE @]

\* The loop after the reply has been read.  Images are counted when the display has not
\* changed.
Looked(d) ==
  LET seen == [test EXCEPT !.count = @ + 1, !.old = d.results,
                 !.retrieved = IF isEqualList(d.results, test.old) THEN @ + Len(d.results)
                               ELSE @]
      over == test.count - test.oldCount >= MaxTries
      found == Target \in ToSet(d.results) IN
  /\ \/ over /\ EndSearch(d, test, FALSE) /\ pc' = "target"
     \/ ~over /\ found /\ EndSearch(d, seen, TRUE) /\ pc' = "target"
     \/ ~over /\ ~found /\ CreateFeedback(d, seen) /\ pc' = "query"

Look ==
  /\ program = "test" /\ pc = "look" /\ reply # NoReply
  /\ \E d \in {readAndParse(c, reply)} : Looked(d)
  /\ request' = NoQuery /\ reply' = NoReply
  /\ UNCHANGED <<program, group, server, shown>>
-----------------------------------------------------------------------------
Next ==
  \/ BeginGroup \/ BeginTest \/ startSession \/ configureSession
  \/ doFirstQueryStep \/ Answer \/ Read \/ doQueryStep
  \/ NextTarget \/ SendQuery \/ Browse \/ Look

\* The programs and the server go on as long as they can.
Spec == Init /\ [][Next]_vars /\ WF_vars(Next)
-----------------------------------------------------------------------------
(* Properties *)

\* Feedback is about what the user has seen: a query sent in a group after the first one
\* names, each once and in order, the images of the last results the server sent that
\* are relevant - whatever the replies in between were (handleStart, handleEnd,
\* buildNewQuery).  A group that has had no results yet sends the last query of the
\* group before.
FeedbackFromLastResults ==
  (program = "group" /\ request # NoQuery /\ reply = NoReply /\ group.count > 1 /\ group.seen)
    => /\ ToSet(request.images) = ToSet(shown) \cap group.wanted
       /\ \A i, j \in DOMAIN request.images : i < j => request.images[i] < request.images[j]

\* No image is a child of two nodes.
ImagesOnce(h) ==
  \A p, q \in DOMAIN h.edges :
    /\ IsInjective(h.edges[p])
    /\ p # q => ToSet(h.edges[p]) \cap ToSet(h.edges[q]) = {}

\* A search does not give up on a target that is in the hierarchy, if no image is there
\* twice: clicking what is new and going up reaches every node (hierarchyCreateFeedback
\* with fastQuery).
TargetsAreFound ==
  LET h == server.hierarchy
      searched == SubSeq(Targets, 1, IF pc = "target" THEN test.target ELSE test.target - 1) IN
  (program = "test" /\ test.target > 0 /\ ImagesOnce(h))
    => \A t \in ToSet(searched) :
         (\E p \in DOMAIN h.edges : t \in ToSet(getChildren(h, p))) => t \in test.found

\* Without threads a program that has once got results comes to its end, whatever the
\* server answers (the bounds of doQueryStep and of the search).
ProgramsEnd == (~server.threads /\ c.query # NoQuery) ~> (pc \in {"died", "end"})
===============================================================================
