---------------------------- MODULE DistanceMatrix ----------------------------
(***************************************************************************)
(* The matrix of the distances of all documents: gift --generate-matrix    *)
(* <Algorithm> <Collection> <from> <to> (GIFTServer/Server.cc) writes the  *)
(* scores of the documents <from> to <to>, a line each, into a file that   *)
(* must be there; gift-modify-distance-matrix makes distances of them; the *)
(* accessor CAcDistanceMatrix reads lines of these (CDistanceCalculator,   *)
(* CPersistentTranslatedIndexMatrix, CPersistentMatrix, CPersistentVector).*)
(*                                                                         *)
(* A document has the ID of its place in the index, counted from 0; it is  *)
(* known by its URL in replies, and its line is the place of its ID.       *)
(* Scores and distances are floats, here integers from 0 to Precision.     *)
(***************************************************************************)
EXTENDS InvertedFileScores

CONSTANTS
  Precision,
  MatrixAlgorithm  \* the attributes of the algorithm the program is called with

ASSUME DistanceMatrixAssumption ==
  /\ Precision \in Nat \ {0}
  /\ MatrixAlgorithm["function"] \in Functions

VARIABLES
  line, to,    \* the line the program writes next, if it runs, and inTo
  scores,      \* the floats in its file
  distances,   \* those in the file of gift-modify-distance-matrix
  calculator,  \* the accessor's translator of IDs into lines
  near         \* the distances calculated last, and what they were asked for

matrixVars == <<line, to, scores, distances, calculator, near>>

NotRunning == -1
Closed == <<>>

\* The number of documents.
Documents == Len(index.docs)
IDs == 0 .. Documents - 1

-----------------------------------------------------------------------------
(* gift --generate-matrix *)

\* The session of the user DistanceMatrixMaker has the algorithm the program is
\* called with.
GeneratorSettings == Settings(MatrixAlgorithm)

\* The query of a line: the document alone, with relevance 1, everything wanted and
\* nothing cut off.
LineQuery(id) ==
  [NoQuery EXCEPT !.images = <<<<index.docs[id + 1], 1>>>>, !.size = Documents]

ScoreList(id) ==
  LET q == LineQuery(id)
  IN  Respond(GeneratorSettings, TermsOf(GeneratorSettings, <<>>, q), q, Never)

\* calculated-similarity is a text with a number of decimals, see addAttribute.
Similarity(list, n) == (2 * Precision * list.scores[n] + list.unit) \div (2 * list.unit)

\* lURLToPosition
LineOfURL(url) == (CHOOSE n \in 1 .. Documents : index.docs[n] = url) - 1

\* lOutVector: a line has zeros for the documents that are not in the reply.
Floats(list) ==
  LET Of(n) == {m \in DOMAIN list.docs : LineOfURL(index.docs[list.docs[m]]) = n - 1}
  IN  [n \in 1 .. Documents |->
         IF Of(n) = {} THEN 0 ELSE Similarity(list, CHOOSE m \in Of(n) : TRUE)]

LineOf(id) == Floats(ScoreList(id))

\* The file after floats have been written from a line on.
Written(file, id, floats) ==
  LET start == id * Documents
  IN  [n \in 1 .. IF Len(file) > start + Len(floats) THEN Len(file) ELSE start + Len(floats) |->
         IF n \in start + 1 .. start + Len(floats) THEN floats[n - start] ELSE file[n]]

\* The lines that are skipped are there, though the program does not ask.
Generate(from, until) ==
  /\ line = NotRunning
  /\ from * Documents <= Len(scores)
  /\ line' = from /\ to' = until
  /\ UNCHANGED <<scores, distances, calculator, near>>

Going == line \in IDs /\ line < to

WriteLine ==
  /\ Going
  /\ scores' = Written(scores, line, LineOf(line))
  /\ line' = line + 1
  /\ UNCHANGED <<to, distances, calculator, near>>

EndGeneration ==
  /\ line # NotRunning /\ ~Going
  /\ line' = NotRunning /\ to' = NotRunning
  /\ UNCHANGED <<scores, distances, calculator, near>>

\* The program is killed; of the line it was writing, which is only flushed at
\* its end, any part may have come into the file.
KillGeneration(part) ==
  /\ Going
  /\ scores' = Written(scores, line, SubSeq(LineOf(line), 1, part))
  /\ line' = NotRunning /\ to' = NotRunning
  /\ UNCHANGED <<distances, calculator, near>>
-----------------------------------------------------------------------------
(* gift-modify-distance-matrix *)

\* Broken: distances are not made the same both ways.
NotSymmetrified(file, size) == file

\* symmetrify, and changeSign.
Symmetrified(file, size) ==
  [n \in DOMAIN file |-> Lowest(file[n], file[((n - 1) % size) * size + (n - 1) \div size + 1])]

ChangedSign(file) == [n \in DOMAIN file |-> Precision - file[n]]

\* It is called with the size of the matrix, and the names of two files.
ModifyMatrix ==
  /\ line = NotRunning /\ Len(scores) = Documents * Documents
  /\ distances' = ChangedSign(Symmetrified(scores, Documents))
  /\ UNCHANGED <<line, to, scores, calculator, near>>
-----------------------------------------------------------------------------
(* The accessor *)

\* open: the loop ends when a read has failed, and inserts what the variables
\* hold by then: the pair read before it, or anything.
Translators ==
  LET read == [id \in IDs |-> id]
  IN  {read} \cup {read @@ (Documents :> n) : n \in {0, Documents}}

OpenMatrix ==
  /\ distances # <<>>
  /\ calculator' \in Translators
  /\ near' = Closed
  /\ UNCHANGED <<line, to, scores, distances>>

Size == Cardinality(DOMAIN calculator)

\* getLineVector of CPersistentMatrix.  A line that is not completely in the file
\* ends the process (assert(*mContent)).
LineVector(row) == SubSeq(distances, row * Size + 1, Lowest((row + 1) * Size, Len(distances)))

\* getLineVector, by IDs; an index out of the line may come with any value.
DistancesFrom(pivot) ==
  [id \in {i \in DOMAIN calculator : calculator[i] < Size} |->
     LineVector(calculator[pivot])[calculator[id] + 1]]

CalculateDistances(pivot, deletePivot) ==
  /\ calculator # Closed
  /\ Len(LineVector(calculator[pivot])) = Size
  /\ near' = [pivot |-> pivot, deleted |-> deletePivot,
              of |-> [id \in DOMAIN DistancesFrom(pivot) \ (IF deletePivot THEN {pivot} ELSE {}) |->
                        DistancesFrom(pivot)[id]]]
  /\ UNCHANGED <<line, to, scores, distances, calculator>>
-----------------------------------------------------------------------------
(* Behaviour *)

MatrixInit ==
  /\ Init
  /\ line = NotRunning /\ to = NotRunning
  /\ scores = <<>> /\ distances = <<>>
  /\ calculator = Closed /\ near = Closed

\* Matrix and server share nothing but the index, which neither changes, and the
\* accessor reads no file of the generator: it is enough to consider them one
\* without the other.
MatrixNext ==
  \/ Next /\ line = NotRunning /\ scores = <<>> /\ UNCHANGED matrixVars
  \/ /\ index # NoIndex /\ settings = NoSettings /\ up
     /\ \/ calculator = Closed /\ \E from \in IDs : \E until \in from + 1 .. Documents : Generate(from, until)
        \/ WriteLine
        \/ EndGeneration
        \/ \E part \in IDs : KillGeneration(part)
        \/ ModifyMatrix
        \/ OpenMatrix
        \/ \E pivot \in IDs, deletePivot \in BOOLEAN : CalculateDistances(pivot, deletePivot)
     /\ UNCHANGED vars

MatrixSpec == MatrixInit /\ [][MatrixNext]_<<vars, matrixVars>>
-----------------------------------------------------------------------------
(* Properties *)

\* The scores of all documents in the answers to queries with each of them.
ScoreTable ==
  LET ScoreOf(list, other) ==
        MapThenSumSet(LAMBDA n : Similarity(list, n),
                      {n \in DOMAIN list.docs : list.docs[n] = other + 1})
      lists == [id \in IDs |-> ScoreList(id)] @@ <<>>
  IN  [ids \in IDs \X IDs |-> ScoreOf(lists[ids[1]], ids[2])] @@ <<>>

\* Distances are what the scores say, however often the generation was killed and
\* resumed: that of two documents is the same both ways, and given by the lower
\* of their scores in queries with one another; a document is at no distance from
\* itself.  This is so unless open() has read a pair that is not in the file.
\* (gift --generate-matrix ... <from> <to>; symmetrify; open and getLineVector of
\* CPersistentTranslatedIndexMatrix)
DistancesFromScores ==
  near # Closed /\ Size = Documents =>
    LET table == ScoreTable
    IN  /\ DOMAIN near.of = IF near.deleted THEN IDs \ {near.pivot} ELSE IDs
        /\ \A id \in DOMAIN near.of :
             /\ near.of[id] = Precision - Lowest(table[near.pivot, id], table[id, near.pivot])
             /\ near.of[id] \in 0 .. Precision
             /\ id = near.pivot => near.of[id] = 0
=============================================================================
