--------------------------- MODULE HierarchyBrowser ---------------------------
(***************************************************************************)
(* A hierarchy of images (CAcHierarchy) and browsing in it (CQHierarchy).  *)
(* A hierarchy file is a sequence of entries: "element" gives an ID its    *)
(* image, "tree" and "/tree" open and close a reference-tree.  A node of   *)
(* the hierarchy is the path of IDs that leads to it.                      *)
(***************************************************************************)
EXTENDS Integers, Sequences, SequencesExt, TLC

ImageEntry(id, image) == [tag |-> "element", id |-> id, image |-> image]
OpenTree(id) == [tag |-> "tree", id |-> id, image |-> id]
CloseTree == [tag |-> "/tree", id |-> 0, image |-> 0]

EmptyHierarchy == [stack |-> <<>>, edges |-> <<>>, toImage |-> <<>>, toID |-> <<>>]

addEdge(h, path, son) ==
  LET sons == IF path \in DOMAIN h.edges THEN h.edges[path] ELSE <<>> IN
  [h EXCEPT !.edges = (path :> Append(sons, son)) @@ @]

popNodeAndRegisterEdge(h) ==
  IF h.stack = <<>> THEN h
  ELSE addEdge([h EXCEPT !.stack = Front(@)], Front(h.stack), Last(h.stack))

\* The first image of an ID counts, and the last ID of an image.
addElement(h, id, image) ==
  [h EXCEPT !.toImage = @ @@ (id :> image), !.toID = (image :> id) @@ @]

ReadEntry(h, entry) ==
  CASE entry.tag = "element" -> addElement(h, entry.id, entry.image)
    [] entry.tag = "tree" -> [h EXCEPT !.stack = Append(@, entry.id)]
    [] entry.tag = "/tree" -> popNodeAndRegisterEdge(h)

\* CAcHierarchy::init
ReadHierarchy(file) == FoldLeft(ReadEntry, EmptyHierarchy, file)

HasChildren(h, path) == path \in DOMAIN h.edges

\* An ID without an element has no URL.
IDToImage(h, id) == IF id \in DOMAIN h.toImage THEN h.toImage[id] ELSE 0

\* getChildren, as the images they stand for
getChildren(h, path) ==
  [i \in DOMAIN h.edges[path] |-> IDToImage(h, h.edges[path][i])]

URLToID(h, image) == IF image \in DOMAIN h.toID THEN h.toID[image] ELSE -1

\* mCurrentPath after fastQuery: up, to the child chosen if it has children, or to
\* the beginning.
NodeAfter(h, path, query) ==
  CASE query.up -> IF path = <<>> THEN path ELSE Front(path)
    [] ~query.up /\ query.images # <<>> ->
         LET below == Append(path, URLToID(h, query.images[1])) IN
         IF HasChildren(h, below) THEN below ELSE path
    [] OTHER -> <<>>

\* fastQuery has no result at all where a file has no tree.
HasDisplay(h, path, query) ==
  (query.up /\ path = <<>>) \/ HasChildren(h, NodeAfter(h, path, query))

\* There is nothing to show for a step up from the beginning.
Display(h, path, query) ==
  IF query.up /\ path = <<>> THEN <<>> ELSE getChildren(h, NodeAfter(h, path, query))
===============================================================================
