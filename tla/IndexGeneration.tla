---------------------------- MODULE IndexGeneration ----------------------------
(***************************************************************************)
(* gift-generate-inverted-file: how CAcIFFileSystem::newGenerateInvertedFile*)
(* turns the feature files of a collection into an inverted file, by way of *)
(* merge_sort_streams, and what CAcIFFileSystem::init finds of it when a    *)
(* server starts.                                                          *)
(*                                                                         *)
(* A feature file is a count and that many entries, a feature and its      *)
(* frequency.  The triplets (feature, document, frequency) of all files go *)
(* to gift-auxiliary-1, are sorted by feature, and each run of one feature *)
(* becomes a list of the inverted file and an element of the offset file.  *)
(* Last, a file of additional document information (ADI) is written for    *)
(* every document.  The program may be killed at any time and run again.   *)
(*                                                                         *)
(* Files are sequences, and a position in the inverted file is the number  *)
(* of the list that starts there.                                          *)
(***************************************************************************)
EXTENDS Integers, Sequences, FiniteSets, FiniteSetsExt, SequencesExt

CONSTANTS
  Docs,            \* the document IDs, 0 .. n
  Features,        \* feature IDs
  Frequencies,     \* document frequencies
  Collections,     \* the collections considered: from documents to feature files
  LogICF,          \* minus the logarithm of the share of n documents, in a unit
  PageSize,        \* inNumberOfPageElements: the triplets sorted in memory at once
  MaxGenerations   \* bound: how often the program is started

FeatureFiles ==
  [there : BOOLEAN, count : Nat, body : Seq([f : Features, w : Frequencies])]

ASSUME IndexGenerationAssumption ==
  /\ IsFiniteSet(Docs) /\ Docs = 0 .. Cardinality(Docs) - 1 /\ Docs # {}
  /\ Features \subseteq Nat
  /\ Frequencies \subseteq Nat
  /\ \A c \in Collections : c \in [Docs -> FeatureFiles]
  /\ LogICF \in [1 .. Cardinality(Docs) -> Nat]
  /\ PageSize \in Nat \ {0}
  /\ MaxGenerations \in Nat

VARIABLES
  files,       \* the feature files of the collection
  gen,         \* how often the program has been started
  phase,       \* how far it is
  next,        \* the document to be collected or to have its ADI written
  error,       \* lError
  aux,         \* gift-auxiliary-1 and gift-auxiliary-2
  page,        \* lPage, the triplets in memory
  pos,         \* how many triplets have been read, or merged in this pass
  src,         \* which auxiliary file is read
  mergeSize,   \* iMergeSize, in triplets
  sums,        \* lADI: what is known of the frequencies of each document
  inverted,    \* the inverted file, as written so far
  offset,      \* the offset file
  adi,         \* the ADI files
  collected    \* history: the triplets this generation has written

sortVars == <<page, pos, src, mergeSize>>
indexVars == <<inverted, offset, adi>>
vars == <<files, gen, phase, next, error, aux, sortVars, sums, indexVars, collected>>

Triplets == [f : Features \cup {0}, d : Docs, w : Frequencies \cup {0}]
Postings == [d : Docs, w : Frequencies \cup {0}]
Offsets == [f : Features \cup {0}, at : Nat \ {0}]

\* The largest frequency of a document, the sum of their squares, and that of the
\* squares of their products with the logarithm of the collection frequency.
Sums == [max : Nat, square : Nat, logICF : Nat]
ADIFiles == [gen : 0 .. MaxGenerations, sums : Sums]

\* resetDF, when lADI gets an entry
NoSums == [max |-> 0, square |-> 0, logICF |-> 0]

\* size is what the head of a list says; the postings of a list may be cut.
Lists == [f : Features \cup {0}, size : Nat, postings : Seq(Postings)]

Phases == {"off", "collect", "presort", "merge", "lists", "adi", "done"}

\* The number of triplets to sort: the size of gift-auxiliary-1.
Count == Len(collected)

TypeOK ==
  /\ files \in Collections
  /\ gen \in 0 .. MaxGenerations
  /\ phase \in Phases
  /\ next \in Docs \cup {Cardinality(Docs)}
  /\ error \in BOOLEAN
  /\ aux \in [1 .. 2 -> Seq(Triplets)]
  /\ page \in Seq(Triplets) /\ Len(page) <= PageSize
  /\ pos \in Nat
  /\ src \in 1 .. 2
  /\ mergeSize \in Nat \ {0}
  /\ sums \in [Docs -> Sums]
  /\ inverted \in Seq(Lists)
  /\ offset \in Seq(Offsets)
  /\ adi \in [Docs -> ADIFiles]
  /\ collected \in Seq(Triplets)

Init ==
  /\ files \in Collections
  /\ gen = 0
  /\ phase = "off"
  /\ next = 0
  /\ error = FALSE
  /\ aux = [i \in 1 .. 2 |-> <<>>]
  /\ page = <<>> /\ pos = 0 /\ src = 1 /\ mergeSize = PageSize
  /\ sums = [d \in Docs |-> NoSums]
  /\ inverted = <<>> /\ offset = <<>>
  /\ adi = [d \in Docs |-> [gen |-> 0, sums |-> NoSums]]
  /\ collected = <<>>
-----------------------------------------------------------------------------
(* Collecting the triplets *)

\* The old index is gone as soon as its files are opened for writing.
Open ==
  /\ phase \in {"off", "done"}
  /\ gen < MaxGenerations
  /\ gen' = gen + 1
  /\ phase' = "collect"
  /\ next' = 0
  /\ error' = FALSE
  /\ aux' = [aux EXCEPT ![1] = <<>>]
  /\ sums' = [d \in Docs |-> NoSums]
  /\ inverted' = <<>> /\ offset' = <<>>
  /\ collected' = <<>>
  /\ UNCHANGED <<files, sortVars, adi>>

\* What the loop over the entries of a feature file writes.  A file that ends
\* too soon yields one triplet more, from a record that was never filled.
Extracted(d) ==
  LET file == files[d]
      entry(i) == [f |-> file.body[i].f, d |-> d, w |-> file.body[i].w]
      whole(n) == [i \in 1 .. n |-> entry(i)]
  IN IF ~file.there THEN {<<>>}
     ELSE IF file.count <= Len(file.body) THEN {whole(file.count)}
     ELSE {Append(whole(Len(file.body)), [f |-> f, d |-> d, w |-> w]) :
             f \in Features, w \in Frequencies}

Collect ==
  /\ phase = "collect"
  /\ next \in Docs
  /\ \E new \in Extracted(next) :
       /\ aux' = [aux EXCEPT ![1] = @ \o new]
       /\ collected' = collected \o new
  /\ error' = (error \/ ~files[next].there \/ files[next].count > Len(files[next].body))
  /\ next' = next + 1
  /\ UNCHANGED <<files, gen, phase, sortVars, sums, indexVars>>

\* An empty file has no page to sort.
StartSort ==
  /\ phase = "collect"
  /\ next \notin Docs
  /\ phase' = IF Count = 0 THEN "merge" ELSE "presort"
  /\ page' = <<>> /\ pos' = 0 /\ src' = 2 /\ mergeSize' = PageSize
  /\ aux' = [aux EXCEPT ![2] = <<>>]
  /\ UNCHANGED <<files, gen, next, error, sums, indexVars, collected>>
-----------------------------------------------------------------------------
(* merge_sort_streams *)

\* s in any of the orders in which the features do not decrease: sort() is not
\* stable, and the triplets of one feature compare as equal.
SortedByFeature(s) ==
  {[i \in DOMAIN s |-> s[p[i]]] :
     p \in {q \in SetToSeqs(DOMAIN s) : \A i, j \in DOMAIN s : i < j => s[q[i]].f <= s[q[j]].f}}

\* How much first_level_quicksort asks for: lSum stays zero, so that the end of
\* the file is not foreseen.
Wanted == IF PageSize < Count THEN PageSize ELSE Count

\* The page after a read: one that comes short leaves the rest as it was.
Reading(read) == read \o SubSeq(page, Len(read) + 1, Len(page))

\* One page of first_level_quicksort.  The page is sorted and written after a
\* short read as well, and it is the last one.
Presort ==
  LET end == IF pos + Wanted < Count THEN pos + Wanted ELSE Count
      read == SubSeq(aux[1], pos + 1, end)
  IN /\ phase = "presort"
     /\ \E sorted \in SortedByFeature(Reading(read)) :
          /\ page' = sorted
          /\ aux' = [aux EXCEPT ![2] = @ \o sorted]
     /\ \/ /\ Len(read) = Wanted
           /\ pos' = end
           /\ UNCHANGED phase
        \/ /\ Len(read) < Wanted
           /\ pos' = 0
           /\ phase' = "merge"
     /\ UNCHANGED <<files, gen, next, error, src, mergeSize, sums, indexVars, collected>>

\* merge_streams: what follows k[1] triplets of l and k[2] of r, where rest is the
\* same for more of them; of two with the same feature the one of r goes first.
Merging(l, r, rest, k) ==
  IF k[1] = Len(l) THEN SubSeq(r, k[2] + 1, Len(r))
  ELSE IF k[2] = Len(r) \/ l[k[1] + 1].f < r[k[2] + 1].f
       THEN <<l[k[1] + 1]>> \o rest[<<k[1] + 1, k[2]>>]
  ELSE <<r[k[2] + 1]>> \o rest[<<k[1], k[2] + 1>>]

Merged(l, r) ==
  LET rest[k \in (0 .. Len(l)) \X (0 .. Len(r))] == Merging(l, r, rest, k)
  IN  rest[<<0, 0>>]

\* The first pass must be followed by an even number of others, for the result
\* to end up in gift-auxiliary-1.
PassNeeded == mergeSize < Count \/ src = 2

\* Two neighbouring runs of the file read are merged into the other one, which
\* the first merge of a pass finds empty.  Only Count triplets are read.
Merge ==
  LET upTo(n) == IF n < Count THEN n ELSE Count
      l == SubSeq(aux[src], pos + 1, upTo(pos + mergeSize))
      r == SubSeq(aux[src], pos + mergeSize + 1, upTo(pos + 2 * mergeSize))
  IN /\ phase = "merge"
     /\ PassNeeded
     /\ pos < Count
     /\ aux' = [aux EXCEPT ![3 - src] = (IF pos = 0 THEN <<>> ELSE @) \o Merged(l, r)]
     /\ pos' = pos + 2 * mergeSize
     /\ UNCHANGED <<files, gen, phase, next, error, page, src, mergeSize, sums, indexVars, collected>>

\* Faulty variant of EndPass: the runs are taken to be as long as before.
EndPassSameSize ==
  /\ phase = "merge"
  /\ PassNeeded
  /\ pos >= Count
  /\ src' = 3 - src
  /\ pos' = 0
  /\ UNCHANGED <<files, gen, phase, next, error, aux, page, mergeSize, sums, indexVars, collected>>

EndPass ==
  /\ phase = "merge"
  /\ PassNeeded
  /\ pos >= Count
  /\ src' = 3 - src
  /\ mergeSize' = 2 * mergeSize
  /\ pos' = 0
  /\ UNCHANGED <<files, gen, phase, next, error, aux, page, sums, indexVars, collected>>

EndSort ==
  /\ phase = "merge"
  /\ ~PassNeeded
  /\ phase' = "lists"
  /\ UNCHANGED <<files, gen, next, error, aux, sortVars, sums, indexVars, collected>>
-----------------------------------------------------------------------------
(* The lists *)

\* The triplets the lists are made of.  The first one is used before the end of
\* the file is noticed: an empty file stands for one triplet of zeros.
Sorted == IF Count = 0 THEN <<[f |-> 0, d |-> 0, w |-> 0]>> ELSE aux[src]

\* Faulty variant of RunEnd: the last triplet is left to a list of its own.
RunEndBeforeLast(s, i) ==
  Max({k \in i + 1 .. Len(s) : (\A m \in i + 1 .. k : s[m].f = s[i + 1].f)
                                 /\ (k < Len(s) \/ k = i + 1)})

\* The last triplet of the run of one feature that follows position i of s.
RunEnd(s, i) == Max({k \in i + 1 .. Len(s) : \A m \in i + 1 .. k : s[m].f = s[i + 1].f})

\* A CDocumentFrequencyElement
Posting(triplet) == [d |-> triplet.d, w |-> triplet.w]

\* CInvertedFileChunk: of two entries for one document the first one stays.
Chunk(run) ==
  {Posting(run[i]) :
     i \in {k \in DOMAIN run : \A m \in 1 .. k - 1 : run[m].d # run[k].d}}

\* writeBinary sorts the postings by decreasing frequency.
ByFrequency(chunk) ==
  {s \in SetToSeqs(chunk) : \A i, j \in DOMAIN s : i < j => s[i].w >= s[j].w}

\* adjustDF, for the frequency w of a feature in a document.
Adjusted(of, w) ==
  [of EXCEPT !.max = Max({@, w}), !.square = @ + w * w]

\* adjustSquareDFLogICF, for a feature that n documents have.
AdjustedLogICF(of, w, n) == [of EXCEPT !.logICF = @ + (w * LogICF[n]) * (w * LogICF[n])]

\* The ADI of document d after a chunk: a frequency of zero changes nothing.
AfterChunk(of, d, chunk) ==
  FoldSet(LAMBDA p, a : AdjustedLogICF(Adjusted(a, p.w), p.w, Cardinality(chunk)),
          of, {p \in chunk : p.d = d /\ p.w # 0})

\* writeOffsetFileElement: the list to come is the next one.
OffsetElement(feature) == [f |-> feature, at |-> Len(inverted) + 1]

\* One list, its element of the offset file, and its part of the ADI.
List ==
  LET end == RunEnd(Sorted, pos)
      feature == Sorted[pos + 1].f
      chunk == Chunk(SubSeq(Sorted, pos + 1, end))
  IN /\ phase = "lists"
     /\ pos < Len(Sorted)
     /\ \E postings \in ByFrequency(chunk) :
          inverted' = Append(inverted, [f |-> feature, size |-> Cardinality(chunk),
                                        postings |-> postings])
     /\ offset' = Append(offset, OffsetElement(feature))
     /\ sums' = [d \in Docs |-> AfterChunk(sums[d], d, chunk)]
     /\ pos' = end
     /\ UNCHANGED <<files, gen, phase, next, error, aux, page, src, mergeSize, adi, collected>>

\* Both files are closed, which writes what was buffered.
CloseFiles ==
  /\ phase = "lists"
  /\ pos = Len(Sorted)
  /\ phase' = "adi"
  /\ next' = 0
  /\ UNCHANGED <<files, gen, error, aux, sortVars, sums, indexVars, collected>>

WriteADI ==
  /\ phase = "adi"
  /\ next \in Docs
  /\ adi' = [adi EXCEPT ![next] = [gen |-> gen, sums |-> sums[next]]]
  /\ next' = next + 1
  /\ UNCHANGED <<files, gen, phase, error, aux, sortVars, sums, inverted, offset, collected>>

\* checkConsistency is compiled to nothing, and unlink() misses the auxiliary
\* files: it is given their names without the directory they are in.
Finish ==
  /\ phase = "adi"
  /\ next \notin Docs
  /\ phase' = "done"
  /\ UNCHANGED <<files, gen, next, error, aux, sortVars, sums, indexVars, collected>>
-----------------------------------------------------------------------------
(* The program is killed *)

\* Faulty variant of Buffered: the two files stay open while the ADI is written.
BufferedTooLong == {"lists", "adi"}

\* The phases in which the index files may lack what has been written to them.
Buffered == {"lists"}

\* What has reached the disk: the first n lists and k postings of the next one.
CutLists(n, k) ==
  IF n = Len(inverted) THEN inverted
  ELSE Append(SubSeq(inverted, 1, n),
              [inverted[n + 1] EXCEPT !.postings = SubSeq(@, 1, k)])

Kill ==
  /\ phase \notin {"off", "done"}
  /\ phase' = "off"
  /\ \/ /\ phase \in Buffered
        /\ \E n \in 0 .. Len(inverted) :
             \/ inverted' = SubSeq(inverted, 1, n)
             \/ /\ n < Len(inverted)
                /\ \E k \in 0 .. inverted[n + 1].size - 1 : inverted' = CutLists(n, k)
        /\ \E m \in 0 .. Len(offset) : offset' = SubSeq(offset, 1, m)
        /\ UNCHANGED adi
     \/ /\ phase = "adi" /\ next \in Docs
        /\ adi' = [adi EXCEPT ![next].gen = 0]
        /\ UNCHANGED <<inverted, offset>>
     \/ /\ phase \notin Buffered
        /\ UNCHANGED indexVars
  /\ UNCHANGED <<files, gen, next, error, aux, sortVars, sums, collected>>
-----------------------------------------------------------------------------
Generate ==
  \/ Collect \/ StartSort \/ Presort \/ Merge \/ EndPass \/ EndSort
  \/ List \/ CloseFiles \/ WriteADI \/ Finish

Next == Open \/ Generate \/ Kill

Spec == Init /\ [][Next]_vars

\* The program runs on until it is done or killed.
FairSpec == Spec /\ WF_vars(Generate)
-----------------------------------------------------------------------------
(* What a server finds: CAcIFFileSystem::init *)

\* The head of a list is not where the offset file says it is.
InitAborts == \E i \in DOMAIN offset : offset[i].at > Len(inverted)

\* init returns true: the index files are there, and every ADI file can be read.
InitSucceeds == ~InitAborts /\ \A d \in Docs : adi[d].gen > 0

\* Of two elements of the offset file for one feature the later one counts.
IDToOffset ==
  [f \in {element.f : element \in ToSet(offset)} |->
     offset[Max({i \in DOMAIN offset : offset[i].f = f})].at]

\* DIDToMaxDocumentFrequency, DIDToDFSquareSum and DIDToSquareDFLogICFSum
DocumentInformation(d) == adi[d].sums

\* Whether the list of feature f, if it has one, says that document d has
\* frequency w; the list is asked for by its place, and must be that of f.
FindWithinStream(f, d, w) ==
  /\ f \in DOMAIN IDToOffset
  /\ inverted[IDToOffset[f]].f = f
  /\ [d |-> d, w |-> w] \in ToSet(inverted[IDToOffset[f]].postings)

\* The entries of the feature file of document d.
FeatureList(d) == SubSeq(files[d].body, 1, files[d].count)

\* What is compiled only without _NO_CONSISTENCYPRINT: the accessor finds every
\* entry of every feature file.
CheckConsistency ==
  \A d \in Docs : \A e \in ToSet(FeatureList(d)) : FindWithinStream(e.f, d, e.w)
-----------------------------------------------------------------------------
(* What the program made before it sorted: CAcIFFileSystem::generateInvertedFile,
   which nobody calls any more, makes the index of a collection in memory *)

\* lInvertedFileHash: a chunk for each feature, in which the first entry of a
\* document stays.
InvertedFileHash ==
  LET Places(d, f) == {i \in DOMAIN FeatureList(d) : FeatureList(d)[i].f = f}
  IN  [f \in {e.f : e \in UNION {ToSet(FeatureList(d)) : d \in Docs}} |->
         {[d |-> d, w |-> FeatureList(d)[Min(Places(d, f))].w] :
            d \in {doc \in Docs : Places(doc, f) # {}}}]

\* The lists are written in the order of the features.
WrittenFromHash(lists) ==
  LET Matches(list) ==
        /\ list.size = Cardinality(InvertedFileHash[list.f])
        /\ list.postings \in ByFrequency(InvertedFileHash[list.f])
  IN  /\ {list.f : list \in ToSet(lists)} = DOMAIN InvertedFileHash
      /\ \A i, j \in DOMAIN lists : i < j => lists[i].f < lists[j].f
      /\ \A list \in ToSet(lists) : Matches(list)

\* The ADI of document d: adjustDF for each of its entries, and then the
\* logarithms for each chunk it is in.
SumsFromHash(d) ==
  LET read == FoldLeft(LAMBDA a, e : Adjusted(a, e.w), NoSums, FeatureList(d))
      Of(f) == {p \in InvertedFileHash[f] : p.d = d /\ p.w # 0}
      Added(a, f) == FoldSet(LAMBDA p, b : AdjustedLogICF(b, p.w, Cardinality(InvertedFileHash[f])),
                             a, Of(f))
  IN  FoldSet(LAMBDA f, a : Added(a, f), read, DOMAIN InvertedFileHash)
-----------------------------------------------------------------------------
(* Properties *)

\* The pages are sorted and written whole: one page is enough, or the last one
\* is full.
Fits == Count <= PageSize \/ Count % PageSize = 0

Entries(d) == ToSet(FeatureList(d))

\* Feature f of document d is in the list the offset file names for f.
Indexed(f, d) ==
  /\ f \in DOMAIN IDToOffset
  /\ IDToOffset[f] \in DOMAIN inverted
  /\ \E p \in ToSet(inverted[IDToOffset[f]].postings) : p.d = d

\* No feature twice in the file of a document: with one, what is sorted first is
\* what stays in the list, and sort() may put either first.
OncePerFeature(d) ==
  \A i, j \in DOMAIN FeatureList(d) : FeatureList(d)[i].f = FeatureList(d)[j].f => i = j

\* The lists of a collection without faulty files: one for a feature, every posting
\* from the file of its document.  If the triplets fit the pages, all are in them.
ListsMatchFiles ==
  phase = "done" /\ ~error /\ Count > 0 =>
    /\ \A i, j \in DOMAIN offset : offset[i].f = offset[j].f => i = j
    /\ \A i \in DOMAIN offset :
         LET list == inverted[offset[i].at]
         IN /\ list.f = offset[i].f
            /\ \A p \in ToSet(list.postings) : [f |-> list.f, w |-> p.w] \in Entries(p.d)
    /\ Fits => \A d \in Docs : \A e \in Entries(d) : Indexed(e.f, d)

\* The index of such a collection: its lists, and the ADI of a document from its
\* postings, positive as getMaximumDF and getDFSquareSum assert.  If the triplets
\* fit the pages, it is the index generateInvertedFile made in memory, in which the
\* consistency check finds all entries.
IndexMatchesFiles ==
  /\ ListsMatchFiles
  /\ phase = "done" /\ ~error /\ Count > 0 =>
       /\ \A i \in DOMAIN inverted : \A p \in ToSet(inverted[i].postings) :
            DocumentInformation(p.d).max >= p.w /\ p.w > 0
       /\ \A d \in Docs :
            LET ws(i) == {p.w : p \in {q \in ToSet(inverted[i].postings) : q.d = d}}
            IN  DocumentInformation(d).square = MapThenSumSet(LAMBDA i :
                  MapThenSumSet(LAMBDA w : w * w, ws(i)), DOMAIN inverted)
       /\ Fits /\ (\A d \in Docs : OncePerFeature(d)) =>
            /\ WrittenFromHash(inverted)
            /\ \A d \in Docs : DocumentInformation(d) = SumsFromHash(d)
            /\ CheckConsistency

\* The ADI is written last: if a server's init succeeds, with the ADI files of
\* the last generation, the index is whole, whenever that generation was killed.
FreshAdiMeansWholeIndex ==
  phase \in {"off", "done"} /\ gen > 0 /\ InitSucceeds
    /\ (\A d \in Docs : adi[d].gen = gen) /\ Fits =>
      /\ \A i \in DOMAIN inverted : Len(inverted[i].postings) = inverted[i].size
      /\ \A i \in DOMAIN collected : Indexed(collected[i].f, collected[i].d)

\* Whatever the number of triplets, the merging comes to an end.
GenerationEnds == (phase \notin {"off", "done"}) ~> (phase \in {"off", "done"})
=============================================================================
