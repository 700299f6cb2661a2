------------------------- MODULE MCInvertedFileScores -------------------------
(***************************************************************************)
(* Pictures of 8 x 8 pixels in blocks of 2 x 2, so that there are blocks at*)
(* two scales; three hues, two saturations, two values and two greys; two  *)
(* filters of three coefficients, for edges across and along.              *)
(***************************************************************************)
EXTENDS DistanceMatrix

MCKernels == <<<< <<<<-1, 2, -1>>, <<1, 1, 1>>, <<0, 1, 0>>, <<1, 0, -1>>>>,
                  <<<<1, 1, 1>>, <<-1, 2, -1>>, <<1, 0, -1>>, <<0, 1, 0>>>> >>>>

MCRanges == <<110, 180, 370, 10000>>

Painted(planes, Colour(_, _)) ==
  [n \in 1 .. 64 * planes |->
     LET p == (n - 1) \div planes
     IN  Colour(p % 8, p \div 8)[1 + ((n - 1) % planes)]] \o <<>>

Red == <<90, 0, 0>>
Green == <<0, 255, 0>>
Navy == <<0, 0, 100>>
Rose == <<255, 140, 150>>
Black == <<0, 0, 0>>
Grey == <<90, 90, 90>>
White == <<255, 255, 255>>

Raw(data) == [raw |-> TRUE, planes |-> 3, maxval |-> 255, data |-> data]

MCPictures == {"stripes", "corner", "plain", "shade", "ascii", "grey", "short"}

MCFileOf ==
  [i \in MCPictures |->
     CASE i = "stripes" -> Raw(Painted(3, LAMBDA x, y : IF x % 3 = 0 THEN Red ELSE White))
       [] i = "corner" ->
            Raw(Painted(3, LAMBDA x, y : IF x < 5 /\ y < 3 THEN Green ELSE IF x + y > 11 THEN Rose ELSE White))
       [] i = "plain" -> Raw(Painted(3, LAMBDA x, y : White))
       [] i = "shade" -> Raw(Painted(3, LAMBDA x, y : <<30 * x, 17 * (x + y), 250 - 31 * y>>))
       [] i = "ascii" ->
            [raw |-> FALSE, planes |-> 3, maxval |-> 255,
             data |-> SubSeq(Painted(3, LAMBDA x, y : IF y % 2 = 0 THEN Navy ELSE Grey), 1, 100)]
       [] i = "grey" -> [raw |-> TRUE, planes |-> 1, maxval |-> 255,
                         data |-> Painted(1, LAMBDA x, y : <<10 * x>>)]
       [] i = "short" -> Raw(<<1, 2, 3>>)]

MCIndexes == {<<"stripes", "corner", "plain", "shade">>, <<"ascii", "plain", "shade", "corner">>}

With(function) == "function" :> function

MCAlgorithms ==
  {With(f) : f \in Functions}
  \cup {<<>>, With("TFIDF"),
        With("ClassicalIDF") @@ ("color-histogram" :> TRUE) @@ ("modulo-class" :> 1),
        With("BinaryTerm") @@ ("texture-histogram" :> TRUE) @@ ("color-blocks" :> TRUE),
        With("Coordination") @@ ("texture-blocks" :> TRUE) @@ ("color-blocks" :> FALSE),
        With("ClassicalIDF") @@ ("modulo" :> 3) @@ ("modulo-class" :> 1),
        With("Probability") @@ ("modulo" :> 2) @@ ("color-blocks" :> TRUE),
        With("ClassicalIDF") @@ ("percentage" :> 50) @@ ("reduced-at" :> 50),
        With("ClassicalIDF") @@ ("reduced-at" :> 30) @@ ("reduced-to" :> 1),
        With("ClassicalIDF") @@ ("time" :> 1)}

Query(images, size, cutoff) ==
  [features |-> <<>>, images |-> images, size |-> size, cutoff |-> cutoff]

\* Feature 293 is a share of white pixels; no picture has feature 9999.
MCQueries ==
  {Query(<<<<i, 1>>>>, 2, 0) : i \in {"stripes", "corner", "ascii"}}
  \cup {Query(<<<<"corner", 2>>, <<"stripes", 1>>>>, 3, 20),
        Query(<<<<"shade", 1>>, <<"plain", -1>>>>, 4, 0),
        Query(<<<<"stripes", 0>>, <<"shade", -2>>, <<"plain", -1>>>>, 1, 0),
        [Query(<<>>, 2, 0) EXCEPT !.features = <<<<293, 1>>>>],
        [Query(<<<<"corner", 1>>>>, 2, 50) EXCEPT !.features = <<<<293, 1>>, <<9999, -1>>>>]}

MCMatrixAlgorithm == With("ClassicalIDF")

MCLogSquared == <<8, 2, 1, 0>>
MCLogOdds == <<1, 0, -1, -9>>
=============================================================================
