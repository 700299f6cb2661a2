----------------------------- MODULE MrmlMessages -----------------------------
(***************************************************************************)
(* One request and its reply, element by element: the configuration file   *)
(* (CAlgorithmCollection, CAccessorAdminCollection), the reading of the     *)
(* request (CCommunicationHandler::readAndParse), the visit of its elements *)
(* (CXEVCommunication), the reply that is collected meanwhile, and its way *)
(* through the socket in blocks.                                           *)
(*                                                                         *)
(* Of what a request asks for, the session manager says here only if it    *)
(* was done (SessionManager has the rest); of attributes it matters        *)
(* whether a session-id is there, who is meant by the IDs of the           *)
(* configuration, and whether a value has a character that XML needs       *)
(* escaped ("special").                                                    *)
(***************************************************************************)
EXTENDS ElementTrees

CONSTANTS
  Configs,      \* the configuration files, as tokens
  Requests,     \* the start tags of elements below mrml
  Inner,        \* the start tags of elements below those
  MaxPieces,    \* bound: elements of a message below mrml, and pieces of text
  BlockSize     \* lWriteSize, in tokens

TokenType == [tag : {"start", "end", "text"}, name : STRING]

ASSUME MrmlMessagesAssumption ==
  /\ \A c \in Configs : \A j \in DOMAIN c : [tag |-> c[j].tag, name |-> c[j].name] \in TokenType
  /\ \A r \in Requests \cup Inner : r.tag = "start" /\ r.name # "mrml"
  /\ MaxPieces \in Nat
  /\ BlockSize \in Nat \ {0}

VARIABLES
  config,    \* the configuration file
  proxies,   \* mIDToProxy: from collection IDs to collection elements
  types,     \* mContent of the algorithm collection, the same for types
  stage,     \* where the server is in processing the connection
  sent,      \* what the client has sent
  tree,      \* mDocumentRoot
  stack,     \* what traverse has still to do
  reply,     \* mMultiResponse
  wire       \* what has been written to the socket

tables == <<config, proxies, types>>
vars == <<tables, stage, sent, tree, stack, reply, wire>>

Attr(attrs, a) == IF a \in DOMAIN attrs THEN attrs[a] ELSE ""
-----------------------------------------------------------------------------
(* Configuration *)

\* The tables are filled in the order of the file; the second collection of an ID
\* throws, as one without an ID does, and the second algorithm of a type is ignored.
ById(elements, key) ==
  FoldLeft(LAMBDA table, e : table @@ (Attr(e.nodes[Root].attrs, key) :> e),
           <<>>, elements)

\* The algorithms of the file are collected whatever else is in it.
TypesIn(file) == ById(Collected("algorithm", file), "algorithm-type")

Accepted(elements) ==
  LET id(j) == Attr(elements[j].nodes[Root].attrs, "collection-id") IN
  /\ \A j \in DOMAIN elements : id(j) # ""
  /\ \A j, k \in DOMAIN elements : id(j) = id(k) => j = k

Init ==
  /\ config \in Configs
  /\ proxies = <<>> /\ types = <<>>
  /\ stage = "start"
  /\ sent = <<>> /\ tree = NoTree /\ stack = <<>>
  /\ reply = NoTree /\ wire = <<>>

\* An exception of a constructor of a collection ends the server.
Configure ==
  /\ stage = "start"
  /\ LET collections == Collected("collection", config) IN
     IF Accepted(collections)
     THEN /\ proxies' = ById(collections, "collection-id")
          /\ types' = TypesIn(config)
          /\ stage' = "read"
          /\ tree' = Single(Element("__ROOT__", <<>>))
     ELSE stage' = "down" /\ UNCHANGED <<proxies, types, tree>>
  /\ UNCHANGED <<config, sent, stack, reply, wire>>
-----------------------------------------------------------------------------
(* Reading.  The root of a message is mrml, and no other element is. *)

Count(tag) == Cardinality({j \in DOMAIN sent : sent[j].tag = tag})

\* The level of what comes next: 0 for mrml, 1 for what is in it.
Level == Count("start") - Count("end")

\* The element that is open.
OpenName == tree.nodes[tree.cursor].name

Allowed ==
  (IF sent = <<>> THEN {Start("mrml", "session-id" :> "s")} ELSE {})
  \cup (IF Level > 0 THEN {End(OpenName)} ELSE {})
  \cup (IF Level > 0 /\ Count("start") + Count("text") <= MaxPieces
        THEN (IF Level = 1 THEN Requests ELSE Inner) \cup {Piece("ws"), Piece("ink")}
        ELSE {})

\* What expat makes of it; the end of mrml moves up from the root, too.
Parsed(token) ==
  LET q == Len(sent) + 1 IN
  CASE token.tag = "start" -> AddChild(tree, q, Element(token.name, token.attrs))
    [] token.tag = "text" -> AddText(tree, q, token.name)
    [] token.tag = "end" -> IF token.name = "mrml" THEN MoveUp(MoveUp(tree))
                                                   ELSE MoveUp(tree)

ToVisit(p) == [node |-> p, leave |-> FALSE]

\* readAndParse goes on until the tree is complete ...
ReadToken(token) ==
  /\ stage = "read"
  /\ sent' = Append(sent, token)
  /\ tree' = Parsed(token)
  /\ IF isSubtreeFinished(tree') THEN stage' = "visit" /\ stack' = <<ToVisit(Root)>>
                                 ELSE UNCHANGED <<stage, stack>>
  /\ UNCHANGED <<tables, reply, wire>>

\* ... or the stream ends, or what it brings is no XML.  What has been read is visited.
BreakOff ==
  /\ stage = "read"
  /\ stage' = "visit" /\ stack' = <<ToVisit(Root)>>
  /\ UNCHANGED <<tables, sent, tree, reply, wire>>
-----------------------------------------------------------------------------
(* The visit *)

Here == Head(stack).node
Node == tree.nodes[Here]
HasFather == Node.father # NoNode
Father == tree.nodes[Node.father]

Visiting == stage = "visit" /\ stack # <<>> /\ ~Head(stack).leave

\* startVisit returns true: the children, and then endVisit.
Descend ==
  stack' = [j \in DOMAIN ChildSeq(tree, Here) |-> ToVisit(ChildSeq(tree, Here)[j])]
           \o <<[node |-> Here, leave |-> TRUE]>> \o Tail(stack)

\* startVisit returns false: endVisit is not called either.
PassOver == stack' = Tail(stack)

\* addToMultiResponse, for an element with children.
Extended(answer, children) ==
  LET q == Max(DOMAIN reply.nodes) + 1
      with == FoldLeftDomain(LAMBDA r, j : MoveUp(AddChild(r, q + j, children[j])),
                             AddChild(reply, q, answer), children) IN
  MoveUp(with)

\* An answer says which request it is for, and whether it quotes a special character.
Answer(name, p) ==
  Element(name, ("for" :> ToString(p))
                @@ (IF Attr(tree.nodes[p].attrs, "special") = "yes"
                    THEN "special" :> "yes" ELSE <<>>))

Add(answer) == reply' = Extended(answer, <<>>)

TimeStamp == Element("cui-time-stamp", <<>>)

\* __ROOT__ and configure-session are only gone through.
VisitOuter ==
  /\ Visiting /\ Node.name \in {"__ROOT__", "configure-session"}
  /\ Descend
  /\ UNCHANGED <<tables, stage, sent, tree, reply, wire>>

\* startMultiRequest
VisitMrml ==
  /\ Visiting /\ Node.name = "mrml"
  /\ Descend
  /\ reply' = LET r == Single(Element("mrml", Node.attrs)) IN
              MoveUp(AddChild(r, 1, TimeStamp))
  /\ UNCHANGED <<tables, stage, sent, tree, wire>>

\* The session that was opened is the session of the reply from then on.
OpenSession ==
  /\ Visiting /\ Node.name = "open-session"
  /\ PassOver
  /\ LET opened == Extended(Answer("acknowledge-session-op", Here), <<>>) IN
     reply' = [opened EXCEPT !.nodes[Root].attrs = ("session-id" :> ToString(Here)) @@ @]
  /\ UNCHANGED <<tables, stage, sent, tree, wire>>

\* An algorithm counts below a configure-session that says of which session; the
\* session meant is another one if one was opened before.
Configures ==
  /\ Node.name = "algorithm" /\ HasFather
  /\ Father.name = "configure-session" /\ Attr(Father.attrs, "session-id") # ""

Operations == {"query-step", "rename-session", "delete-session", "cui-random-images",
               "get-property-sheet"}

\* Faulty variant of Failed: an exception is only logged.
FailedSilently == reply' = reply

\* The error element that takes the place of an answer.
Failed == Add(Answer("error", Here))

\* What the session manager does may fail, by an answer or by an exception that is
\* caught here.  get-property-sheet renames the session it comes with.
Operate ==
  /\ Visiting
  /\ Node.name \in Operations \/ Configures
  /\ PassOver
  /\ \/ Failed
     \/ Add(Answer(CASE Node.name \in {"query-step", "cui-random-images"} -> "query-result"
                     [] OTHER -> "acknowledge-session-op", Here))
  /\ UNCHANGED <<tables, stage, sent, tree, wire>>

\* The copies the reply gets of the elements of a table.
Listed(table) ==
  LET s == SetToSeq(DOMAIN table) IN
  [j \in DOMAIN s |-> LET n == table[s[j]].nodes[Root] IN Element(n.name, n.attrs)]

GetLists ==
  /\ Visiting /\ Node.name \in {"get-collections", "get-algorithms"}
  /\ PassOver
  /\ reply' = IF Node.name = "get-collections"
              THEN Extended(Answer("collection-list", Here), Listed(proxies))
              ELSE Extended(Answer("algorithm-list", Here), Listed(types))
  /\ UNCHANGED <<tables, stage, sent, tree, wire>>

\* Text, get-sessions (which does nothing) and what the server does not know.
Handled == Operations \cup {"__ROOT__", "configure-session", "mrml", "open-session",
                            "get-collections", "get-algorithms"}

VisitOther ==
  /\ Visiting /\ Node.name \notin Handled /\ ~Configures
  /\ PassOver
  /\ UNCHANGED <<tables, stage, sent, tree, reply, wire>>

\* endVisit; that of mrml is endMultiRequest.
EndVisit ==
  /\ stage = "visit" /\ stack # <<>> /\ Head(stack).leave
  /\ stack' = Tail(stack)
  /\ reply' = IF Node.name = "mrml" THEN Extended(TimeStamp, <<>>) ELSE reply
  /\ stage' = IF Node.name = "mrml" THEN "send" ELSE stage
  /\ UNCHANGED <<tables, sent, tree, wire>>
-----------------------------------------------------------------------------
(* sendMessage: blocks of lWriteSize, and what is left.  write() on a blocking socket
   takes all it is given. *)

message == Written(reply)

\* Faulty variant of Block: the blocks are one shorter than their distance.
ShortBlock(i) == SubSeq(message, i * BlockSize + 1, (i + 1) * BlockSize - 1)

\* The block with the number i, or what there is of it.
Block(i) == SubSeq(message, i * BlockSize + 1,
                   IF (i + 1) * BlockSize < Len(message) THEN (i + 1) * BlockSize
                                                         ELSE Len(message))

Send ==
  /\ stage = "send"
  /\ wire' = wire \o Block(Len(wire) \div BlockSize)
  /\ stage' = IF Len(message) - Len(wire) < BlockSize THEN "visit" ELSE "send"
  /\ UNCHANGED <<tables, sent, tree, stack, reply>>

\* processMessage shuts the socket down when the visit is over.
Close ==
  /\ stage = "visit" /\ stack = <<>>
  /\ stage' = "closed"
  /\ UNCHANGED <<tables, sent, tree, stack, reply, wire>>

Next ==
  \/ Configure
  \/ \E token \in Allowed : ReadToken(token)
  \/ BreakOff
  \/ VisitOuter \/ VisitMrml \/ OpenSession \/ Operate \/ GetLists \/ VisitOther
  \/ EndVisit \/ Send \/ Close

Spec == Init /\ [][Next]_vars
-----------------------------------------------------------------------------
(* Properties *)

\* The start tags that are open when token i comes.
OpenAt(i) ==
  {j \in 1 .. i - 1 :
     /\ sent[j].tag = "start"
     /\ \A k \in j + 1 .. i - 1 :
          Cardinality({l \in j + 1 .. k : sent[l].tag = "end"})
            <= Cardinality({l \in j + 1 .. k : sent[l].tag = "start"})}

FatherAt(i) == IF OpenAt(i) = {} THEN Root ELSE Max(OpenAt(i))

\* Where the pieces of text begin that nothing separates, and the pieces.
RunAt(i) ==
  LET end == Min({j \in i .. Len(sent) + 1 : j \notin DOMAIN sent \/ sent[j].tag # "text"}) IN
  [j \in 1 .. end - i |-> sent[i + j - 1].name]

RunStarts == {i \in DOMAIN sent : sent[i].tag = "text" /\ (i = 1 \/ sent[i - 1].tag # "text")}

\* White space that an element follows.
Dropped(i) ==
  LET next == i + Len(RunAt(i)) IN
  /\ \A j \in DOMAIN RunAt(i) : RunAt(i)[j] = "ws"
  /\ next \in DOMAIN sent /\ sent[next].tag = "start"

\* However expat cuts up the text, the tree is the document as far as it has been read:
\* its elements with their fathers and attributes, and every stretch of text as one
\* node, but for white space that another element follows; the element under
\* construction is the one that is open (CXMLElement.cc:232-306,
\* CCommunicationHandler.cc:277-331).
TreeIsDocument ==
  stage \in {"read", "visit"} =>
    LET elements == {j \in DOMAIN sent : sent[j].tag = "start"}
        texts == {i \in RunStarts : ~Dropped(i)} IN
    /\ DOMAIN tree.nodes = {Root} \cup elements \cup texts
    /\ \A j \in elements \cup texts : tree.nodes[j].father = FatherAt(j)
    /\ \A j \in elements : /\ tree.nodes[j].name = sent[j].name
                           /\ tree.nodes[j].attrs = sent[j].attrs
    /\ \A i \in texts : tree.nodes[i].kind = "text" /\ tree.nodes[i].text = RunAt(i)
    /\ tree.cursor = IF sent # <<>> /\ Level = 0 THEN NoNode ELSE FatherAt(Len(sent) + 1)

\* The elements that are to be answered: operations that are not inside of anything but
\* mrml and configure-session, and the algorithm of a configure-session.
Wanted ==
  {j \in DOMAIN sent :
     /\ sent[j].tag = "start"
     /\ \A k \in OpenAt(j) : sent[k].name \in {"mrml", "configure-session"}
     /\ \/ sent[j].name \in Operations \cup {"open-session", "get-collections",
                                             "get-algorithms"}
        \/ /\ sent[j].name = "algorithm"
           /\ sent[FatherAt(j)].name = "configure-session"
           /\ "session-id" \in DOMAIN sent[FatherAt(j)].attrs}

ListOf(name, table, q) ==
  reply.nodes[q].name = name =>
    {<<reply.nodes[c].name, reply.nodes[c].attrs>> : c \in Children(reply, q)}
      = {<<table[i].nodes[Root].name, table[i].nodes[Root].attrs>> : i \in DOMAIN table}

\* The reply is complete before it is sent: a time stamp, one answer for each request
\* the message (or what came of it) contains, in its order, whatever failed meanwhile,
\* and a time stamp; the lists in it are those of the configuration file, and it is
\* about the session that was opened last (CXEVCommunication.cc:14-166).
AnswersInOrder ==
  stage = "send" =>
    LET answers == ChildSeq(reply, Root)
        wanted == SetToSortSeq(Wanted, <)
        opened == {j \in Wanted : sent[j].name = "open-session"} IN
    /\ Len(answers) = Len(wanted) + 2
    /\ \A j \in DOMAIN answers :
         Attr(reply.nodes[answers[j]].attrs, "for")
           = IF j \in {1, Len(answers)} THEN "" ELSE ToString(wanted[j - 1])
    /\ \A q \in DOMAIN reply.nodes :
         /\ ListOf("collection-list", proxies, q)
         /\ ListOf("algorithm-list", types, q)
    /\ Attr(reply.nodes[Root].attrs, "session-id")
         = IF opened = {} THEN "s" ELSE ToString(Max(opened))

\* White space that closes an element.
Trimmed(t) ==
  {[father |-> IF t.nodes[p].father = NoNode THEN NoNode
               ELSE Cardinality({q \in DOMAIN t.nodes : q < t.nodes[p].father
                                                         /\ ~WhitespaceOnly(t, q)}),
    place |-> Cardinality({q \in DOMAIN t.nodes : q < p /\ ~WhitespaceOnly(t, q)}),
    name |-> t.nodes[p].name, attrs |-> t.nodes[p].attrs] :
     p \in {q \in DOMAIN t.nodes : ~WhitespaceOnly(t, q)}}

\* A client that has what was sent reads the reply as it was made, but for white space,
\* if no value in it has a character that would have to be escaped, for which nothing
\* provides (CXMLElement.cc:126-171, CAttributeList.cc:382-391,
\* CCommunicationHandler.cc:159-237).
ReplyReadsBack ==
  stage = "closed" /\ ~IsNull(reply)
    /\ (\A p \in DOMAIN reply.nodes : "special" \notin DOMAIN reply.nodes[p].attrs) =>
    LET read == stringToElement(wire) IN
    isSubtreeFinished(read) /\ Trimmed(read) = Trimmed(reply)
===============================================================================
