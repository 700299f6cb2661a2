--------------------------- MODULE MCIndexGeneration ---------------------------
(***************************************************************************)
(* Instances of IndexGeneration and TextFeatures for TLC.                  *)
(***************************************************************************)
EXTENDS TextFeatures, TLC

E(f, w) == [f |-> f, w |-> w]
File(entries) == [there |-> TRUE, count |-> Len(entries), body |-> entries]
Missing == [there |-> FALSE, count |-> 0, body |-> <<>>]
Truncated == [there |-> TRUE, count |-> 2, body |-> <<E(1, 2)>>]

\* No, one, two and three entries; one feature twice; in both orders.
Whole == {File(<<>>), File(<<E(2, 1)>>), File(<<E(1, 2), E(2, 1)>>), File(<<E(2, 2), E(1, 1)>>),
          File(<<E(1, 1), E(1, 2)>>), File(<<E(2, 1), E(1, 1), E(3, 2)>>)}

\* Every pair of whole files, and two collections with a faulty one.
TwoDocuments ==
  [0 .. 1 -> Whole] \cup
    {[d \in 0 .. 1 |-> IF d = 0 THEN Missing ELSE File(<<E(1, 2), E(2, 1)>>)],
     [d \in 0 .. 1 |-> IF d = 0 THEN Truncated ELSE File(<<E(2, 1)>>)]}

\* Word 0 is the reference to the line of the thesaurus for word 2.
MCThesaurus == 2 :> 0

Image(directory, name, word) == [image |-> <<directory, name>>, words |-> <<word>>]
Note(words) == [image |-> NoImage, words |-> words]

\* A text as it should be; one in which the second of three images lacks an
\* annotation; one in which images of two directories have the same name.  The number
\* of words of each, as far as they are features, fits the pages.
MCTexts ==
  {<<Image(1, 1, 7), Note(<<3, 3>>), Note(<<2, 1, 3>>), Note(<<2>>), Note(<<1>>),
     Image(1, 2, 8), Note(<<1>>), Note(<<3>>), Note(<<2, 1>>), Note(<<3>>)>>,
   <<Image(1, 1, 7), Note(<<1>>), Note(<<2>>), Note(<<1, 3>>), Note(<<1>>),
     Image(1, 2, 8), Note(<<1>>), Note(<<1, 2>>), Note(<<3>>),
     Image(1, 3, 9), Note(<<1>>), Note(<<2>>), Note(<<3>>), Note(<<2>>)>>,
   <<Image(1, 1, 7), Note(<<1>>), Note(<<2>>), Note(<<1>>), Note(<<1>>),
     Image(2, 1, 8), Note(<<3>>), Note(<<2>>), Note(<<1>>), Note(<<3>>)>>}

\* A feature that all documents have is worth nothing.
MCLogICF == <<3, 0>>

MCCollections == TwoDocuments \cup {FilesOf(text) : text \in MCTexts}
=============================================================================
