----------------------------- MODULE TextFeatures -----------------------------
(***************************************************************************)
(* gift-extract-text-features: feature files from the annotations of       *)
(* images, for gift-generate-inverted-file (IndexGeneration).              *)
(*                                                                         *)
(* A text is a sequence of paragraphs: the name of an image, then its      *)
(* annotations of four kinds.  The script reads it twice, for the words in *)
(* use, and to write the features, which are the numbers of the words.     *)
(*                                                                         *)
(* Words are numbers in the order sort() gives them; what a reference to a *)
(* line of the thesaurus looks like is a word, too.  A hash is traversed in*)
(* that order.  No word is "0", which Perl takes for the end of a list.    *)
(***************************************************************************)
EXTENDS IndexGeneration

CONSTANTS
  Texts,      \* the texts considered
  Thesaurus   \* from words to the references to their lines

\* The name of an image is its directory and the rest.
NoImage == <<>>
Paragraphs == [image : {NoImage} \cup (Nat \X Nat), words : Seq(Nat)]

Kinds == 1 .. 4
Free == 2

ASSUME TextFeaturesAssumption ==
  /\ \A text \in Texts : text \in Seq(Paragraphs)
  /\ Thesaurus \in [DOMAIN Thesaurus -> Nat]

\* The paragraphs taken for names of images: the four after one of them are its
\* annotations, whatever they are.
Headers(text) ==
  LET from[n \in 1 .. Len(text) + 5] ==
        IF n > Len(text) THEN <<>>
        ELSE IF text[n].image = NoImage THEN from[n + 1]
        ELSE <<n>> \o from[n + 5]
  IN  from[1]

\* useThesaurus puts the reference to its line behind every word, or nothing that
\* is defined; removeDoubles takes that for the end of the list.
Augmented(words) ==
  LET Known(i) == \A j \in 1 .. i : words[j] \in DOMAIN Thesaurus
  IN  UNION {{words[i], Thesaurus[words[i]]} : i \in {j \in DOMAIN words : Known(j)}}
        \cup {words[i] : i \in {j \in DOMAIN words : Known(j - 1)}}

\* The annotation of a kind of the image named in a paragraph.
Annotation(text, header, kind) ==
  LET words == IF header + kind <= Len(text) THEN text[header + kind].words ELSE <<>>
  IN  IF kind = Free THEN SetToSortSeq(Augmented(words), <) ELSE words

\* addWords, for all images.
Used(text, kind) ==
  UNION {ToSet(Annotation(text, header, kind)) : header \in ToSet(Headers(text))}

\* Faulty variant of Offset: the numbers of every kind begin with 0.
OffsetRestarts(text, kind) == 0

\* Every kind has its numbers after those of the kinds before it.
Offset(text, kind) == MapThenSumSet(LAMBDA k : Cardinality(Used(text, k)), 1 .. kind - 1)

\* generateLookup.
Lookup(text, kind) ==
  [w \in Used(text, kind) |-> Offset(text, kind) + Cardinality({v \in Used(text, kind) : v < w})]

\* translate, for each kind; all frequencies are 1.
FeaturesOfImage(text, header) ==
  LET Numbers(kind) ==
        [i \in DOMAIN Annotation(text, header, kind) |->
           Lookup(text, kind)[Annotation(text, header, kind)[i]]]
      numbers == FlattenSeq([kind \in Kinds |-> Numbers(kind)])
  IN  [there |-> TRUE, count |-> Len(numbers),
       body |-> [i \in DOMAIN numbers |-> [f |-> numbers[i], w |-> 1]]]

\* url2fts has a line for every name.  A feature file is called like the image,
\* without its directory: that of a later image may take its place.
FilesOf(text) ==
  LET headers == Headers(text)
      Name(d) == text[headers[d + 1]].image[2]
      images == 0 .. Len(headers) - 1
  IN  [d \in images |->
         FeaturesOfImage(text, headers[Max({e \in images : Name(e) = Name(d)}) + 1])]
-----------------------------------------------------------------------------
(* Properties *)

\* The first images of a text that have all of their annotations.
Complete(text) ==
  {d \in 0 .. Len(text) : 5 * d + 5 <= Len(text) /\
     \A n \in 1 .. 5 * d + 5 : (text[n].image # NoImage) <=> (n % 5 = 1)}

\* No image with the same name, but for its directory, follows.
Alone(text, d) ==
  \A n \in 5 * d + 2 .. Len(text) :
    text[n].image # NoImage => text[n].image[2] # text[5 * d + 1].image[2]

\* The words an image is annotated with, as far as they are said to be used.
Words(text, d, kind) ==
  LET words == text[5 * d + 1 + kind].words
  IN  IF kind = Free THEN Augmented(words) ELSE ToSet(words)

\* A word finds the images that are annotated with it, in this kind of annotation
\* and in no other: the index made of the feature files lists an image for the
\* number of a word if and only if it is one of the image's words.  This is so up
\* to the first image that lacks an annotation, for images that share their name
\* with none after them.
\* (generateLookup of gift-extract-text-features, and newGenerateInvertedFile)
WordsFindImages ==
  phase = "done" /\ ~error /\ Fits =>
    \A text \in Texts : files = FilesOf(text) =>
      \A d \in Complete(text) : Alone(text, d) =>
        \A kind \in Kinds : \A w \in Used(text, kind) :
          Indexed(Lookup(text, kind)[w], d) <=> w \in Words(text, d, kind)
=============================================================================
