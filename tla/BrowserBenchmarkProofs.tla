------------------------ MODULE BrowserBenchmarkProofs ------------------------
(***************************************************************************)
(* What feedback is about, for any images, replies and bounds: the query   *)
(* sent after a reply names what is relevant among the last results.  The  *)
(* reply is read tag by tag, so its results are taken up one by one;       *)
(* choosing and sorting neither lose an image nor add one.                 *)
(***************************************************************************)
EXTENDS BrowserBenchmark, SharedLemmas

\* What holds at first and is passed on holds at all numbers up to n.
LEMMA StepByStep ==
  ASSUME NEW n \in Nat, NEW P, 0 \in P, \A k \in 1 .. n : k - 1 \in P => k \in P
  PROVE  \A k \in 0 .. n : k \in P
<1> DEFINE F == {k \in 0 .. n : k \notin P}
<1>1. SUFFICES ASSUME F # {} PROVE FALSE
  OBVIOUS
<1>2. PICK k \in F : \A j \in F : k <= j
  <2>1. F \subseteq Nat
    OBVIOUS
  <2> HIDE DEF F
  <2> QED
    BY <1>1, <2>1, Smallest
<1>3. k \in 1 .. n /\ k \notin P
  BY <1>2
<1>4. k - 1 \notin F
  <2>1. ~(k <= k - 1)
    BY <1>3
  <2> HIDE DEF F
  <2> QED
    BY <1>2, <2>1
<1> QED
  BY <1>3, <1>4
-----------------------------------------------------------------------------
(* Sorting images *)

\* No image is there twice; the images are in order.
Once(s) == \A i, j \in 1 .. Len(s) : s[i] = s[j] => i = j
Increasing(s) == \A i, j \in 1 .. Len(s) : i < j => s[i] < s[j]

\* Sorting keeps the images and puts them in order.
LEMMA Sorting ==
  ASSUME NEW s \in Seq(Nat), Once(s)
  PROVE  /\ Ascending(s) \in Seq(Nat)
         /\ ToSet(Ascending(s)) = ToSet(s)
         /\ Increasing(Ascending(s))
<1> DEFINE Before(i, j) == s[i] < s[j] \/ (s[i] = s[j] /\ i < j)
           Place(i) == Cardinality({j \in DOMAIN s : Before(j, i)}) + 1
           at(k) == CHOOSE i \in DOMAIN s : Place(i) = k
<1>1. PICK n \in Nat : n = Len(s) /\ DOMAIN s = 1 .. n
  OBVIOUS
<1>2. PICK D : D = 1 .. n
  OBVIOUS
<1>3. PICK R : R = {p \in D \X D : Before(p[1], p[2])}
  OBVIOUS
<1>4. \A i \in D : s[i] \in Nat /\ i \in Nat
  BY <1>1, <1>2
<1>5. \A i, j \in D : <<i, j>> \in R <=> Before(i, j)
  BY <1>3
<1>6. StrictOrder(D, R)
  <2>1. \A i \in D : ~Before(i, i)
    BY <1>4
  <2>2. \A i, j \in D : i # j => Before(i, j) \/ Before(j, i)
    BY <1>4
  <2>3. \A i, j, k \in D : Before(i, j) /\ Before(j, k) => Before(i, k)
    BY <1>4
  <2> HIDE DEF Before
  <2> QED
    BY <1>5, <2>1, <2>2, <2>3 DEF StrictOrder
<1>7. IsFiniteSet(D) /\ Cardinality(D) = n
  BY <1>2, FS_Interval
<1>8. ASSUME NEW i \in D PROVE Place(i) = PlaceOf(D, R, i) + 1
  <2>1. {j \in D : Before(j, i)} = {j \in D : <<j, i>> \in R}
    BY <1>5
  <2> HIDE DEF Before
  <2> QED
    BY <1>1, <1>2, <2>1 DEF PlaceOf
<1>9. ASSUME NEW i \in D PROVE PlaceOf(D, R, i) \in Nat
  <2>1. {j \in D : <<j, i>> \in R} \in SUBSET D
    OBVIOUS
  <2>2. IsFiniteSet({j \in D : <<j, i>> \in R})
    BY <1>7, <2>1, FS_Subset
  <2> QED
    BY <2>2, FS_CardinalityType DEF PlaceOf
<1>10. /\ \A i, j \in D : PlaceOf(D, R, i) = PlaceOf(D, R, j) => i = j
       /\ \A k \in 1 .. n : \E i \in D : PlaceOf(D, R, i) = k - 1
  <2>1. /\ \A i, j \in D : PlaceOf(D, R, i) = PlaceOf(D, R, j) => i = j
        /\ \A k \in 1 .. Cardinality(D) : \E i \in D : PlaceOf(D, R, i) = k - 1
    <3>1. IsFiniteSet(D)
      BY <1>7
    <3> QED
      BY <1>6, <3>1, PlacesAreTaken
  <2> QED
    BY <1>7, <2>1
<1>11. ASSUME NEW k \in 1 .. n PROVE at(k) \in D /\ PlaceOf(D, R, at(k)) = k - 1
  <2>1. PICK i \in D : PlaceOf(D, R, i) = k - 1
    BY <1>10
  <2>2. Place(i) = k
    BY <1>8, <2>1
  <2> HIDE DEF Place
  <2>3. at(k) \in D /\ Place(at(k)) = k
    BY <1>1, <1>2, <2>2
  <2>4. PICK j \in D : j = at(k)
    BY <2>3
  <2> HIDE DEF at
  <2>5. k = PlaceOf(D, R, j) + 1 /\ PlaceOf(D, R, j) \in Nat
    BY <1>8, <1>9, <2>3, <2>4
  <2> QED
    BY <2>4, <2>5
<1>12. ASSUME NEW i \in D PROVE \E k \in 1 .. n : at(k) = i
  <2>1. PlaceOf(D, R, i) < n
    <3>1. {j \in D : <<j, i>> \in R} \in SUBSET D /\ i \notin {j \in D : <<j, i>> \in R}
      BY <1>6 DEF StrictOrder
    <3> DEFINE P == {j \in D : <<j, i>> \in R}
    <3>2. P # D
      BY <3>1
    <3> HIDE DEF P
    <3>3. IsFiniteSet(P) /\ Cardinality(P) <= n /\ (n = Cardinality(P) => D = P)
      BY <1>7, <3>1, FS_Subset DEF P
    <3>4. Cardinality(P) \in Nat
      BY <3>3, FS_CardinalityType
    <3> QED
      BY <3>2, <3>3, <3>4 DEF PlaceOf, P
  <2>2. PICK k \in 1 .. n : k = PlaceOf(D, R, i) + 1
    BY <1>9, <2>1
  <2> HIDE DEF at
  <2>3. PlaceOf(D, R, at(k)) = PlaceOf(D, R, i) /\ at(k) \in D
    BY <1>9, <1>11, <2>2
  <2> QED
    BY <1>10, <2>3
<1>13. Ascending(s) = [k \in 1 .. n |-> s[at(k)]]
  BY <1>1 DEF Ascending
<1> HIDE DEF at, Place
<1>14. Ascending(s) \in Seq(Nat) /\ Len(Ascending(s)) = n /\ DOMAIN Ascending(s) = 1 .. n
  BY <1>4, <1>11, <1>13
<1>15. ToSet(Ascending(s)) = ToSet(s)
  <2>1. \A k \in 1 .. n : Ascending(s)[k] = s[at(k)]
    BY <1>13
  <2>2. /\ ToSet(Ascending(s)) = {Ascending(s)[k] : k \in 1 .. n}
        /\ ToSet(s) = {s[i] : i \in D}
    BY <1>1, <1>2, <1>14 DEF ToSet
  <2>3. \A k \in 1 .. n : s[at(k)] \in {s[i] : i \in D}
    BY <1>11
  <2>4. \A i \in D : \E k \in 1 .. n : s[at(k)] = s[i]
    BY <1>12
  <2> QED
    BY <2>1, <2>2, <2>3, <2>4
<1>16. ASSUME NEW i \in 1 .. n, NEW j \in 1 .. n, i < j PROVE s[at(i)] < s[at(j)]
  <2>1. PICK x \in D, y \in D : x = at(i) /\ y = at(j)
    BY <1>11
  <2>2. PlaceOf(D, R, x) = i - 1 /\ PlaceOf(D, R, y) = j - 1
    BY <1>11, <2>1
  <2>3. x # y
    BY <1>16, <2>2
  <2>4. s[x] # s[y]
    BY <1>1, <1>2, <2>3 DEF Once
  <2>5. CASE <<y, x>> \in R
    <3> DEFINE X == {z \in D : <<z, x>> \in R}
               Y == {z \in D : <<z, y>> \in R}
    <3>1. Y \in SUBSET X /\ X \in SUBSET D
      BY <1>6, <2>5 DEF StrictOrder
    <3>2. Cardinality(X) = i - 1 /\ Cardinality(Y) = j - 1
      BY <2>2 DEF PlaceOf
    <3> HIDE DEF X, Y
    <3>3. IsFiniteSet(X)
      BY <1>7, <3>1, FS_Subset
    <3>4. Cardinality(Y) <= Cardinality(X)
      BY <3>1, <3>3, FS_Subset
    <3> QED
      BY <1>16, <3>2, <3>4
  <2>6. CASE <<y, x>> \notin R
    <3>1. <<x, y>> \in R
      BY <1>6, <2>3, <2>6 DEF StrictOrder
    <3>2. s[x] < s[y]
      BY <1>5, <2>4, <3>1
    <3> QED
      BY <2>1, <3>2
  <2> QED
    BY <2>5, <2>6
<1> QED
  BY <1>13, <1>14, <1>15, <1>16 DEF Increasing
-----------------------------------------------------------------------------
(* Reading a reply tag by tag *)

\* The largest of some numbers up to k, if k is one of them.
LEMMA LastOfSome ==
  ASSUME NEW k \in Nat, NEW s \in SUBSET (1 .. k), k \in s
  PROVE  Max(s) = k
<1>1. s \subseteq Nat /\ s # {} /\ \A m \in s : m <= k
  OBVIOUS
<1>2. Max(s) \in s /\ \A m \in s : m <= Max(s)
  BY <1>1, Largest
<1>3. PICK m \in s : m = Max(s) /\ m \in Nat
  BY <1>1, <1>2
<1> QED
  BY <1>1, <1>2, <1>3

\* readAndParse of a reply that is not empty, from the state in which it begins.
Reading(d, tags) ==
  FoldLeft(LAMBDA e, tag : CHOOSE f \in {Handle(x, tag) : x \in {e}} : TRUE, d, tags)

\* What FoldLeft adds up in readAndParse, set by set.
Handlings(g, d, tags, m) ==
  g = [s \in SUBSET (1 .. m) |->
        IF s = {} THEN d ELSE Handle(g[s \ {Max(s)}], tags[Max(s)])]

\* There is such a function for as many tags as one likes.
LEMMA HandlingsExist ==
  ASSUME NEW n \in Nat, NEW tags, NEW d
  PROVE  \E g : Handlings(g, d, tags, n)
<1> DEFINE P == {m \in 0 .. n : \E g : Handlings(g, d, tags, m)}
<1>1. 0 \in P
  <2>1. \A s \in SUBSET (1 .. 0) : s = {}
    OBVIOUS
  <2> DEFINE g == [s \in SUBSET (1 .. 0) |-> d]
  <2>2. Handlings(g, d, tags, 0)
    BY <2>1 DEF Handlings
  <2> HIDE DEF g
  <2> QED
    BY <2>2
<1>2. ASSUME NEW k \in 1 .. n, k - 1 \in P PROVE k \in P
  <2>1. PICK g : Handlings(g, d, tags, k - 1)
    BY <1>2
  <2> DEFINE h == [s \in SUBSET (1 .. k) |-> IF k \in s THEN Handle(g[s \ {k}], tags[k]) ELSE g[s]]
             x(s) == IF s = {} THEN d ELSE Handle(h[s \ {Max(s)}], tags[Max(s)])
  <2>2. ASSUME NEW s \in SUBSET (1 .. k), k \in s PROVE h[s] = x(s)
    <3>1. Max(s) = k
      BY <2>2, LastOfSome
    <3>2. s \ {k} \in SUBSET (1 .. k) /\ k \notin s \ {k}
      OBVIOUS
    <3>3. h[s \ {k}] = g[s \ {k}]
      BY <3>2
    <3>4. h[s] = Handle(g[s \ {k}], tags[k])
      BY <2>2
    <3> HIDE DEF h
    <3> QED
      BY <2>2, <3>1, <3>3, <3>4
  <2>3. ASSUME NEW s \in SUBSET (1 .. k), k \notin s PROVE h[s] = x(s)
    <3>1. s \in SUBSET (1 .. k - 1)
      BY <2>3
    <3>2. g[s] = IF s = {} THEN d ELSE Handle(g[s \ {Max(s)}], tags[Max(s)])
      BY <2>1, <3>1 DEF Handlings
    <3>3. h[s] = g[s]
      BY <2>3
    <3>4. s # {} => h[s \ {Max(s)}] = g[s \ {Max(s)}]
      <4>1. s \ {Max(s)} \in SUBSET (1 .. k) /\ k \notin s \ {Max(s)}
        BY <2>3
      <4> QED
        BY <4>1
    <3> HIDE DEF h
    <3> QED
      BY <3>2, <3>3, <3>4
  <2>4. h = [s \in SUBSET (1 .. k) |-> x(s)]
    <3>1. \A s \in SUBSET (1 .. k) : h[s] = x(s)
      BY <2>2, <2>3
    <3>2. h = [s \in SUBSET (1 .. k) |-> h[s]]
      OBVIOUS
    <3> HIDE DEF h, x
    <3> QED
      BY <3>1, <3>2
  <2>5. Handlings(h, d, tags, k)
    <3> HIDE DEF h
    <3> QED
      BY <2>4 DEF Handlings
  <2> HIDE DEF h
  <2> QED
    BY <2>5
<1>3. \A k \in 0 .. n : k \in P
  <2> HIDE DEF P
  <2> QED
    BY <1>1, <1>2, StepByStep
<1> QED
  BY <1>3

\* A reply is read from its first tag to its last, from one state to the next.
LEMMA HandlingsOneByOne ==
  ASSUME NEW T, NEW tags \in Seq(T), NEW d
  PROVE  \E st : /\ st[0] = d
                 /\ \A k \in 1 .. Len(tags) : st[k] = Handle(st[k - 1], tags[k])
                 /\ Reading(d, tags) = st[Len(tags)]
<1>1. PICK n \in Nat : n = Len(tags) /\ DOMAIN tags = 1 .. n
  OBVIOUS
<1> DEFINE Is(g) == Handlings(g, d, tags, n)
<1>2. PICK g : g = CHOOSE h : Is(h)
  OBVIOUS
<1>3. Is(g)
  <2>1. \E h : Is(h)
    BY HandlingsExist
  <2> HIDE DEF Is
  <2> QED
    BY <1>2, <2>1
<1>4. Reading(d, tags) = g[1 .. n]
  <2>1. DOMAIN tags = 1 .. n
    BY <1>1
  <2>2. Reading(d, tags) = (CHOOSE h : Is(h))[DOMAIN tags]
    <3> DEFINE R(h) == [s \in SUBSET DOMAIN tags |->
                          IF s = {} THEN d
                          ELSE CHOOSE f \in {Handle(x, tags[Max(s)]) : x \in {h[s \ {Max(s)}]}} : TRUE]
    <3>1. Reading(d, tags) = (CHOOSE h : h = R(h))[DOMAIN tags]
      BY DEF Reading, FoldLeft, MapThenFoldSet
    <3>2. \A x, t : (CHOOSE f \in {Handle(y, t) : y \in {x}} : TRUE) = Handle(x, t)
      OBVIOUS
    <3>3. \A h : (h = R(h)) <=> Is(h)
      BY ZenonT(60), <2>1, <3>2 DEF Handlings
    <3> HIDE DEF R, Is
    <3> QED
      BY <3>1, <3>3
  <2> HIDE DEF Is
  <2> QED
    BY <1>2, <2>1, <2>2
<1> DEFINE st == [k \in 0 .. n |-> g[1 .. k]]
<1>5. st[0] = d
  BY <1>3 DEF Handlings
<1>6. ASSUME NEW k \in 1 .. n PROVE st[k] = Handle(st[k - 1], tags[k])
  <2>1. Max(1 .. k) = k
    <3>1. (1 .. k) \in SUBSET (1 .. k) /\ k \in 1 .. k
      OBVIOUS
    <3> QED
      BY <3>1, LastOfSome
  <2>2. (1 .. k) \ {k} = 1 .. k - 1 /\ (1 .. k) # {} /\ (1 .. k) \in SUBSET (1 .. n)
    <3>1. \A j \in 1 .. k : j # k => j \in 1 .. k - 1
      OBVIOUS
    <3>2. \A j \in 1 .. k - 1 : j \in 1 .. k /\ j # k
      OBVIOUS
    <3>3. k \in 1 .. k /\ \A j \in 1 .. k : j \in 1 .. n
      OBVIOUS
    <3> QED
      BY <3>1, <3>2, <3>3
  <2>3. st[k] = g[1 .. k] /\ st[k - 1] = g[1 .. k - 1]
    OBVIOUS
  <2> HIDE DEF st
  <2> QED
    BY ZenonT(60), <1>3, <2>1, <2>2, <2>3 DEF Handlings
<1>7. st[n] = g[1 .. n]
  OBVIOUS
<1> HIDE DEF st
<1> QED
  BY <1>1, <1>4, <1>5, <1>6, <1>7

\* An image is added if it is relevant.
Added(images, image, relevant) ==
  IF image \in relevant THEN Append(images, image) ELSE images

\* What FoldLeft adds up in RelevantResults, set by set.
Additions(g, results, relevant, m) ==
  g = [s \in SUBSET (1 .. m) |->
        IF s = {} THEN <<>> ELSE Added(g[s \ {Max(s)}], results[Max(s)], relevant)]

\* There is such a function for as many images as one likes.
LEMMA AdditionsExist ==
  ASSUME NEW n \in Nat, NEW results, NEW relevant
  PROVE  \E g : Additions(g, results, relevant, n)
<1> DEFINE P == {m \in 0 .. n : \E g : Additions(g, results, relevant, m)}
<1>1. 0 \in P
  <2>1. \A s \in SUBSET (1 .. 0) : s = {}
    OBVIOUS
  <2> DEFINE g == [s \in SUBSET (1 .. 0) |-> <<>>]
  <2>2. Additions(g, results, relevant, 0)
    BY <2>1 DEF Additions
  <2> HIDE DEF g
  <2> QED
    BY <2>2
<1>2. ASSUME NEW k \in 1 .. n, k - 1 \in P PROVE k \in P
  <2>1. PICK g : Additions(g, results, relevant, k - 1)
    BY <1>2
  <2> DEFINE h == [s \in SUBSET (1 .. k) |-> IF k \in s THEN Added(g[s \ {k}], results[k], relevant) ELSE g[s]]
             x(s) == IF s = {} THEN <<>> ELSE Added(h[s \ {Max(s)}], results[Max(s)], relevant)
  <2>2. ASSUME NEW s \in SUBSET (1 .. k), k \in s PROVE h[s] = x(s)
    <3>1. Max(s) = k
      BY <2>2, LastOfSome
    <3>2. s \ {k} \in SUBSET (1 .. k) /\ k \notin s \ {k}
      OBVIOUS
    <3>3. h[s \ {k}] = g[s \ {k}]
      BY <3>2
    <3>4. h[s] = Added(g[s \ {k}], results[k], relevant)
      BY <2>2
    <3> HIDE DEF h
    <3> QED
      BY <2>2, <3>1, <3>3, <3>4
  <2>3. ASSUME NEW s \in SUBSET (1 .. k), k \notin s PROVE h[s] = x(s)
    <3>1. s \in SUBSET (1 .. k - 1)
      BY <2>3
    <3>2. g[s] = IF s = {} THEN <<>> ELSE Added(g[s \ {Max(s)}], results[Max(s)], relevant)
      BY <2>1, <3>1 DEF Additions
    <3>3. h[s] = g[s]
      BY <2>3
    <3>4. s # {} => h[s \ {Max(s)}] = g[s \ {Max(s)}]
      <4>1. s \ {Max(s)} \in SUBSET (1 .. k) /\ k \notin s \ {Max(s)}
        BY <2>3
      <4> QED
        BY <4>1
    <3> HIDE DEF h
    <3> QED
      BY <3>2, <3>3, <3>4
  <2>4. h = [s \in SUBSET (1 .. k) |-> x(s)]
    <3>1. \A s \in SUBSET (1 .. k) : h[s] = x(s)
      BY <2>2, <2>3
    <3>2. h = [s \in SUBSET (1 .. k) |-> h[s]]
      OBVIOUS
    <3> HIDE DEF h, x
    <3> QED
      BY <3>1, <3>2
  <2>5. Additions(h, results, relevant, k)
    <3> HIDE DEF h
    <3> QED
      BY <2>4 DEF Additions
  <2> HIDE DEF h
  <2> QED
    BY <2>5
<1>3. \A k \in 0 .. n : k \in P
  <2> HIDE DEF P
  <2> QED
    BY <1>1, <1>2, StepByStep
<1> QED
  BY <1>3

\* The results are looked at from the first to the last.
LEMMA AdditionsOneByOne ==
  ASSUME NEW T, NEW results \in Seq(T), NEW relevant
  PROVE  \E st : /\ st[0] = <<>>
                 /\ \A k \in 1 .. Len(results) : st[k] = Added(st[k - 1], results[k], relevant)
                 /\ RelevantResults(results, relevant) = st[Len(results)]
<1>1. PICK n \in Nat : n = Len(results) /\ DOMAIN results = 1 .. n
  OBVIOUS
<1> DEFINE Is(g) == Additions(g, results, relevant, n)
<1>2. PICK g : g = CHOOSE h : Is(h)
  OBVIOUS
<1>3. Is(g)
  <2>1. \E h : Is(h)
    BY AdditionsExist
  <2> HIDE DEF Is
  <2> QED
    BY <1>2, <2>1
<1>4. RelevantResults(results, relevant) = g[1 .. n]
  <2>1. DOMAIN results = 1 .. n
    BY <1>1
  <2>2. RelevantResults(results, relevant) = (CHOOSE h : Is(h))[DOMAIN results]
    BY <2>1 DEF RelevantResults, FoldLeft, MapThenFoldSet, Additions, Added
  <2> HIDE DEF Is
  <2> QED
    BY <1>2, <2>1, <2>2
<1> DEFINE st == [k \in 0 .. n |-> g[1 .. k]]
<1>5. st[0] = <<>>
  BY <1>3 DEF Additions
<1>6. ASSUME NEW k \in 1 .. n PROVE st[k] = Added(st[k - 1], results[k], relevant)
  <2>1. Max(1 .. k) = k
    <3>1. (1 .. k) \in SUBSET (1 .. k) /\ k \in 1 .. k
      OBVIOUS
    <3> QED
      BY <3>1, LastOfSome
  <2>2. (1 .. k) \ {k} = 1 .. k - 1 /\ (1 .. k) # {} /\ (1 .. k) \in SUBSET (1 .. n)
    <3>1. \A j \in 1 .. k : j # k => j \in 1 .. k - 1
      OBVIOUS
    <3>2. \A j \in 1 .. k - 1 : j \in 1 .. k /\ j # k
      OBVIOUS
    <3>3. k \in 1 .. k /\ \A j \in 1 .. k : j \in 1 .. n
      OBVIOUS
    <3> QED
      BY <3>1, <3>2, <3>3
  <2>3. st[k] = g[1 .. k] /\ st[k - 1] = g[1 .. k - 1]
    OBVIOUS
  <2> HIDE DEF st
  <2> QED
    BY ZenonT(60), <1>3, <2>1, <2>2, <2>3 DEF Additions
<1>7. st[n] = g[1 .. n]
  OBVIOUS
<1> HIDE DEF st
<1> QED
  BY <1>1, <1>4, <1>5, <1>6, <1>7

\* Of images that are different, the relevant ones.
LEMMA RelevantOnes ==
  ASSUME NEW results \in Seq(Nat), Once(results), NEW relevant
  PROVE  /\ RelevantResults(results, relevant) \in Seq(Nat)
         /\ Once(RelevantResults(results, relevant))
         /\ ToSet(RelevantResults(results, relevant)) = ToSet(results) \cap relevant
<1>1. PICK n \in Nat : n = Len(results) /\ DOMAIN results = 1 .. n
  OBVIOUS
<1>2. PICK st : /\ st[0] = <<>>
                /\ \A k \in 1 .. n : st[k] = Added(st[k - 1], results[k], relevant)
                /\ RelevantResults(results, relevant) = st[n]
  BY <1>1, AdditionsOneByOne
<1> DEFINE G(k) == /\ st[k] \in Seq(Nat) /\ Once(st[k])
                   /\ \A i \in 1 .. Len(st[k]) :
                        \E j \in 1 .. k : results[j] \in relevant /\ st[k][i] = results[j]
                   /\ \A j \in 1 .. k : results[j] \in relevant =>
                        \E i \in 1 .. Len(st[k]) : st[k][i] = results[j]
           P == {k \in 0 .. n : G(k)}
<1>3. 0 \in P
  <2>1. PICK a \in Seq(Nat) : a = <<>> /\ Len(a) = 0
    <3>1. <<>> \in Seq(Nat) /\ Len(<<>>) = 0
      OBVIOUS
    <3> QED
      BY <3>1
  <2>2. st[0] = a
    BY <1>2, <2>1
  <2>3. Once(a) /\ \A i \in 1 .. Len(a) : FALSE
    BY <2>1 DEF Once
  <2>4. \A j \in 1 .. 0 : FALSE
    OBVIOUS
  <2>5. G(0)
    BY <2>2, <2>3, <2>4
  <2> HIDE DEF G
  <2> QED
    BY <2>5
<1>4. ASSUME NEW k \in 1 .. n, k - 1 \in P PROVE k \in P
  <2>1. st[k] = Added(st[k - 1], results[k], relevant) /\ results[k] \in Nat
    BY <1>1, <1>2
  <2>2. PICK a \in Seq(Nat) : a = st[k - 1]
    BY <1>4
  <2>3. /\ Once(a)
        /\ \A i \in 1 .. Len(a) : \E j \in 1 .. k - 1 : results[j] \in relevant /\ a[i] = results[j]
        /\ \A j \in 1 .. k - 1 : results[j] \in relevant => \E i \in 1 .. Len(a) : a[i] = results[j]
    BY <1>4, <2>2
  <2>4. CASE results[k] \notin relevant
    <3>1. st[k] = a
      BY <2>1, <2>2, <2>4 DEF Added
    <3>2. \A j \in 1 .. k : results[j] \in relevant => j \in 1 .. k - 1
      BY <2>4
    <3>3. \A j \in 1 .. k - 1 : j \in 1 .. k
      OBVIOUS
    <3>4. G(k)
      BY <2>3, <3>1, <3>2, <3>3
    <3> HIDE DEF G
    <3> QED
      BY <3>4
  <2>5. CASE results[k] \in relevant
    <3>0. PICK x \in Nat : x = results[k]
      BY <2>1
    <3>1. PICK b \in Seq(Nat) : b = Append(a, x)
      <4>1. Append(a, x) \in Seq(Nat)
        OBVIOUS
      <4> QED
        BY <4>1
    <3>2. st[k] = b
      BY <2>1, <2>2, <2>5, <3>0, <3>1 DEF Added
    <3>3. /\ Len(b) = Len(a) + 1 /\ b[Len(a) + 1] = results[k]
          /\ \A i \in 1 .. Len(a) : b[i] = a[i] /\ i \in 1 .. Len(b)
          /\ \A i \in 1 .. Len(b) : i \in 1 .. Len(a) \/ i = Len(a) + 1
          /\ Len(a) + 1 \in 1 .. Len(b)
      BY <3>0, <3>1
    <3>4. \A i \in 1 .. Len(a) : a[i] # results[k]
      <4>1. \A j \in 1 .. k - 1 : results[j] # results[k]
        BY <1>1 DEF Once
      <4> QED
        BY <2>3, <4>1
    <3>5. Once(b)
      <4> SUFFICES ASSUME NEW i \in 1 .. Len(b), NEW j \in 1 .. Len(b), b[i] = b[j] PROVE i = j
        BY DEF Once
      <4>1. CASE i \in 1 .. Len(a) /\ j \in 1 .. Len(a)
        <5>1. a[i] = a[j]
          BY <3>3, <4>1
        <5> QED
          BY <2>3, <4>1, <5>1 DEF Once
      <4>2. CASE i = Len(a) + 1 /\ j \in 1 .. Len(a)
        BY <3>3, <3>4, <4>2
      <4>3. CASE i \in 1 .. Len(a) /\ j = Len(a) + 1
        BY <3>3, <3>4, <4>3
      <4> QED
        BY <3>3, <4>1, <4>2, <4>3
    <3>6. ASSUME NEW i \in 1 .. Len(b) PROVE \E j \in 1 .. k : results[j] \in relevant /\ b[i] = results[j]
      <4>1. CASE i \in 1 .. Len(a)
        <5>1. PICK j \in 1 .. k - 1 : results[j] \in relevant /\ a[i] = results[j]
          BY <2>3, <4>1
        <5>2. j \in 1 .. k /\ b[i] = results[j]
          BY SMTT(30), <3>3, <4>1, <5>1
        <5> QED
          BY <5>1, <5>2
      <4>2. CASE i = Len(a) + 1
        <5>1. k \in 1 .. k
          OBVIOUS
        <5> QED
          BY <2>5, <3>3, <4>2, <5>1
      <4> QED
        BY <3>3, <4>1, <4>2
    <3>7. ASSUME NEW j \in 1 .. k, results[j] \in relevant PROVE \E i \in 1 .. Len(b) : b[i] = results[j]
      <4>1. CASE j = k
        BY <3>3, <4>1
      <4>2. CASE j # k
        <5>1. j \in 1 .. k - 1
          BY <4>2
        <5>2. PICK i \in 1 .. Len(a) : a[i] = results[j]
          BY <2>3, <3>7, <5>1
        <5> QED
          BY <3>3, <5>2
      <4> QED
        BY <4>1, <4>2
    <3>8. G(k)
      BY <3>2, <3>5, <3>6, <3>7
    <3> HIDE DEF G
    <3> QED
      BY <3>8
  <2> QED
    BY <2>4, <2>5
<1>5. G(n)
  <2>1. \A k \in 0 .. n : k \in P
    <3> HIDE DEF P
    <3> QED
      BY <1>3, <1>4, StepByStep
  <2>2. n \in 0 .. n
    OBVIOUS
  <2> HIDE DEF G
  <2> QED
    BY <2>1, <2>2
<1>6. PICK s \in Seq(Nat) : s = RelevantResults(results, relevant)
  BY <1>2, <1>5
<1>7. /\ Once(s)
      /\ \A i \in 1 .. Len(s) : \E j \in 1 .. n : results[j] \in relevant /\ s[i] = results[j]
      /\ \A j \in 1 .. n : results[j] \in relevant => \E i \in 1 .. Len(s) : s[i] = results[j]
  BY <1>2, <1>5, <1>6
<1>8. ToSet(s) = ToSet(results) \cap relevant
  <2>1. ToSet(s) = {s[i] : i \in 1 .. Len(s)} /\ ToSet(results) = {results[j] : j \in 1 .. n}
    BY <1>1 DEF ToSet
  <2> QED
    BY <1>7, <2>1
<1> QED
  BY <1>6, <1>7, <1>8
-----------------------------------------------------------------------------
(* Handling a tag *)

\* What a CFeedbackClient object has.
IsClient(d) ==
  DOMAIN d = {"path", "results", "query", "given", "relevant", "session", "algorithms",
              "collections"}

\* What is to be found among the images on display.
Feedback(images, relevant) == Ascending(RelevantResults(images, relevant))

\* A start tag changes the results, not what is relevant, nor the query (handleStart).
LEMMA StartHandled ==
  ASSUME NEW d, IsClient(d), NEW t, t.tag = "start"
  PROVE  /\ IsClient(Handle(d, t)) /\ Handle(d, t).relevant = d.relevant
         /\ Handle(d, t).query = d.query /\ Handle(d, t).results = ResultsAfter(d, t)
BY DEF IsClient, Handle, handleStart

\* An end tag makes a query when it ends the results (handleEnd).
LEMMA EndHandled ==
  ASSUME NEW d, IsClient(d), NEW t, t.tag # "start"
  PROVE  /\ IsClient(Handle(d, t)) /\ Handle(d, t).relevant = d.relevant
         /\ Handle(d, t).results = d.results
         /\ t.name # "query-result" => Handle(d, t).query = d.query
         /\ t.name = "query-result" =>
              Handle(d, t).query.images = Feedback(d.results, d.relevant)
<1>1. PICK left : left = [d EXCEPT !.path = Popped(@)]
  OBVIOUS
<1>2. /\ IsClient(left) /\ left.relevant = d.relevant /\ left.results = d.results
      /\ left.query = d.query
  BY <1>1 DEF IsClient
<1>3. Handle(d, t) = IF t.name = "query-result"
                     THEN [left EXCEPT !.query = buildNewQuery(left)] ELSE left
  BY <1>1 DEF Handle, handleEnd
<1>4. buildNewQuery(left).images = Feedback(d.results, d.relevant)
  BY <1>2 DEF buildNewQuery, makeQuery, Feedback
<1> QED
  BY <1>2, <1>3, <1>4 DEF IsClient

\* Neither changes what is relevant.
LEMMA Handled ==
  ASSUME NEW d, IsClient(d), NEW t
  PROVE  IsClient(Handle(d, t)) /\ Handle(d, t).relevant = d.relevant
BY StartHandled, EndHandled

\* No tag of them ends a result.
HasNoResults(T) == \A t \in T : t.tag = "start" \/ t.name # "query-result"

\* What is relevant stays so, whatever is read, and so does the query unless there are
\* results.
LEMMA ReadingKeeps ==
  ASSUME NEW d, IsClient(d), NEW T, NEW tags \in Seq(T)
  PROVE  /\ IsClient(readAndParse(d, tags)) /\ readAndParse(d, tags).relevant = d.relevant
         /\ HasNoResults(T) => readAndParse(d, tags).query = d.query
<1>1. CASE tags = <<>>
  BY <1>1 DEF readAndParse
<1>2. CASE tags # <<>>
  <2>1. PICK e : e = [d EXCEPT !.path = <<>>]
    OBVIOUS
  <2>2. IsClient(e) /\ e.relevant = d.relevant /\ e.query = d.query
    BY <2>1 DEF IsClient
  <2>3. readAndParse(d, tags) = Reading(e, tags)
    BY <1>2, <2>1 DEF readAndParse, Reading
  <2>4. PICK n \in Nat : n = Len(tags)
    OBVIOUS
  <2>5. PICK st : /\ st[0] = e
                  /\ \A k \in 1 .. n : st[k] = Handle(st[k - 1], tags[k])
                  /\ Reading(e, tags) = st[n]
    BY <2>4, HandlingsOneByOne
  <2> DEFINE Kept(k) == /\ IsClient(st[k]) /\ st[k].relevant = d.relevant
                        /\ HasNoResults(T) => st[k].query = d.query
             P == {k \in 0 .. n : Kept(k)}
  <2>6. 0 \in P
    <3>1. Kept(0)
      BY <2>2, <2>5
    <3> HIDE DEF Kept
    <3> QED
      BY <3>1
  <2>7. ASSUME NEW k \in 1 .. n, k - 1 \in P PROVE k \in P
    <3>1. st[k] = Handle(st[k - 1], tags[k])
      BY <2>5
    <3>2. Kept(k - 1)
      <4> HIDE DEF Kept
      <4> QED
        BY <2>7
    <3>3. IsClient(st[k]) /\ st[k].relevant = d.relevant
      BY <3>1, <3>2, Handled
    <3>4. ASSUME HasNoResults(T) PROVE st[k].query = d.query
      <4>1. st[k - 1].query = d.query
        BY <3>2, <3>4
      <4>2. tags[k] \in T
        BY <2>4
      <4>3. CASE tags[k].tag = "start"
        BY <3>1, <3>2, <4>1, <4>3, StartHandled
      <4>4. CASE tags[k].tag # "start"
        <5>1. tags[k].name # "query-result"
          BY <3>4, <4>2, <4>4 DEF HasNoResults
        <5> QED
          BY <3>1, <3>2, <4>1, <4>4, <5>1, EndHandled
      <4> QED
        BY <4>3, <4>4
    <3>5. Kept(k)
      BY <3>3, <3>4
    <3> HIDE DEF Kept
    <3> QED
      BY <3>5
  <2>8. \A k \in 0 .. n : k \in P
    <3> HIDE DEF P
    <3> QED
      BY <2>6, <2>7, StepByStep
  <2>9. Kept(n)
    <3> HIDE DEF Kept
    <3> QED
      BY <2>8
  <2> QED
    BY <2>3, <2>5, <2>9
<1> QED
  BY <1>1, <1>2
-----------------------------------------------------------------------------
(* What a reply with results is *)

\* What FlattenSeq makes of n sequences.
Flattens(f, seqs, n) ==
  f = [i \in 1 .. n |-> IF i = 1 THEN seqs[i] ELSE f[i - 1] \o seqs[i]]

\* There is such a function for as many sequences as one likes.
LEMMA FlattensExist ==
  ASSUME NEW n \in Nat, NEW seqs
  PROVE  \E f : Flattens(f, seqs, n)
<1> DEFINE P == {m \in 0 .. n : \E f : Flattens(f, seqs, m)}
<1>1. 0 \in P
  <2> DEFINE f == [i \in 1 .. 0 |-> seqs[i]]
  <2>1. \A i \in 1 .. 0 : FALSE
    OBVIOUS
  <2>2. Flattens(f, seqs, 0)
    BY <2>1 DEF Flattens
  <2> HIDE DEF f
  <2> QED
    BY <2>2
<1>2. ASSUME NEW k \in 1 .. n, k - 1 \in P PROVE k \in P
  <2>1. PICK f : Flattens(f, seqs, k - 1)
    BY <1>2
  <2> DEFINE last == IF k = 1 THEN seqs[k] ELSE f[k - 1] \o seqs[k]
             h == [i \in 1 .. k |-> IF i = k THEN last ELSE f[i]]
  <2>2. h[k] = IF k = 1 THEN seqs[k] ELSE h[k - 1] \o seqs[k]
    <3>1. k # 1 => h[k - 1] = f[k - 1]
      OBVIOUS
    <3>2. h[k] = last
      OBVIOUS
    <3> HIDE DEF h
    <3> QED
      BY <3>1, <3>2
  <2>3. ASSUME NEW i \in 1 .. k, i # k
        PROVE  h[i] = IF i = 1 THEN seqs[i] ELSE h[i - 1] \o seqs[i]
    <3>1. i \in 1 .. k - 1
      BY <2>3
    <3>2. f[i] = IF i = 1 THEN seqs[i] ELSE f[i - 1] \o seqs[i]
      BY <2>1, <3>1 DEF Flattens
    <3>3. h[i] = f[i]
      BY <2>3
    <3>4. i # 1 => h[i - 1] = f[i - 1]
      BY <3>1
    <3> HIDE DEF h
    <3> QED
      BY <3>2, <3>3, <3>4
  <2>4. h = [i \in 1 .. k |-> h[i]]
    OBVIOUS
  <2>5. Flattens(h, seqs, k)
    <3>1. \A i \in 1 .. k : h[i] = IF i = 1 THEN seqs[i] ELSE h[i - 1] \o seqs[i]
      BY <2>2, <2>3
    <3> HIDE DEF h
    <3> QED
      BY <2>4, <3>1 DEF Flattens
  <2> HIDE DEF h
  <2> QED
    BY <2>5
<1>3. \A k \in 0 .. n : k \in P
  <2> HIDE DEF P
  <2> QED
    BY <1>1, <1>2, StepByStep
<1> QED
  BY <1>3

\* The tags of an image in a reply.
Opened(image) == Start("query-result-element", Attr("image-location", image))
Closed == End("query-result-element")
ElementTags == {Opened(image) : image \in Nat} \cup {Closed}

\* A start tag and an end tag for an image.
Elements(images) == FlattenSeq([i \in DOMAIN images |-> ResultElement(images[i])])

\* Two elements at the end of a sequence.
LEMMA TwoMore ==
  ASSUME NEW T, NEW q \in Seq(T), NEW a \in T, NEW b \in T
  PROVE  /\ q \o <<a, b>> \in Seq(T) /\ Len(q \o <<a, b>>) = Len(q) + 2
         /\ \A j \in 1 .. Len(q) : (q \o <<a, b>>)[j] = q[j]
         /\ (q \o <<a, b>>)[Len(q) + 1] = a /\ (q \o <<a, b>>)[Len(q) + 2] = b
<1>1. PICK p \in Seq(T) : p = <<a, b>> /\ Len(p) = 2 /\ p[1] = a /\ p[2] = b
  <2>1. <<a, b>> \in Seq(T) /\ Len(<<a, b>>) = 2
    OBVIOUS
  <2> QED
    BY <2>1
<1>2. PICK n \in Nat : n = Len(q)
  OBVIOUS
<1>3. /\ q \o p \in Seq(T) /\ Len(q \o p) = n + 2
      /\ \A j \in 1 .. n : (q \o p)[j] = q[j]
      /\ (q \o p)[n + 1] = p[1] /\ (q \o p)[n + 2] = p[2]
  BY <1>1, <1>2
<1> QED
  BY <1>1, <1>2, <1>3

\* The tags of the first k images.
Paired(q, images, k) ==
  /\ q \in Seq(ElementTags) /\ Len(q) = 2 * k
  /\ \A i \in 1 .. k : q[2 * i - 1] = Opened(images[i]) /\ q[2 * i] = Closed

\* Each image has its two tags, in the order of the images.
LEMMA ElementsPaired ==
  ASSUME NEW images \in Seq(Nat)
  PROVE  Paired(Elements(images), images, Len(images))
<1>1. PICK m \in Nat : m = Len(images) /\ DOMAIN images = 1 .. m
  OBVIOUS
<1> DEFINE seqs == [i \in DOMAIN images |-> ResultElement(images[i])]
<1>2. /\ seqs \in Seq({ResultElement(x) : x \in Nat}) /\ Len(seqs) = m
      /\ \A i \in 1 .. m : seqs[i] = <<Opened(images[i]), Closed>> /\ images[i] \in Nat
  BY <1>1 DEF ResultElement, Opened, Closed
<1>3. CASE m = 0
  <2>1. seqs = <<>>
    BY <1>2, <1>3
  <2>2. Elements(images) = seqs
    <3> HIDE DEF seqs
    <3> QED
      BY <1>2, <1>3 DEF Elements, FlattenSeq, seqs
  <2>3. <<>> \in Seq(ElementTags) /\ Len(<<>>) = 0 /\ \A i \in 1 .. 0 : FALSE
    OBVIOUS
  <2> HIDE DEF seqs
  <2> QED
    BY <1>1, <1>3, <2>1, <2>2, <2>3 DEF Paired
<1>4. CASE m # 0
  <2> DEFINE Is(f) == Flattens(f, seqs, m)
  <2>1. PICK f : f = CHOOSE g : Is(g)
    OBVIOUS
  <2>2. Is(f)
    <3>1. \E g : Is(g)
      BY FlattensExist
    <3> HIDE DEF Is
    <3> QED
      BY <2>1, <3>1
  <2>3. Elements(images) = f[m]
    <3>1. FlattenSeq(seqs) = (CHOOSE g : g = [i \in 1 .. Len(seqs) |->
                                 IF i = 1 THEN seqs[i] ELSE g[i - 1] \o seqs[i]])[Len(seqs)]
      <4>1. Len(seqs) # 0
        BY <1>2, <1>4
      <4> HIDE DEF seqs
      <4> QED
        BY <4>1 DEF FlattenSeq
    <3>2. FlattenSeq(seqs) = (CHOOSE g : Is(g))[m]
      <4> HIDE DEF seqs
      <4> QED
        BY <1>2, <3>1 DEF Flattens
    <3> HIDE DEF Is, seqs
    <3> QED
      BY <2>1, <3>2 DEF Elements, seqs
  <2>4. \A i \in 1 .. m : f[i] = IF i = 1 THEN seqs[i] ELSE f[i - 1] \o seqs[i]
    <3> HIDE DEF seqs
    <3> QED
      BY <2>2 DEF Flattens
  <2> HIDE DEF seqs, Is
  <2> DEFINE P == {k \in 0 .. m : k = 0 \/ Paired(f[k], images, k)}
  <2>5. 0 \in P
    OBVIOUS
  <2>6. ASSUME NEW k \in 1 .. m, k - 1 \in P PROVE k \in P
    <3>1. PICK a \in ElementTags, b \in ElementTags : a = Opened(images[k]) /\ b = Closed
      BY <1>2 DEF ElementTags
    <3>2. seqs[k] = <<a, b>>
      BY <1>2, <3>1
    <3>3. CASE k = 1
      <4>1. f[k] = <<a, b>>
        BY <2>4, <3>2, <3>3
      <4>2. <<a, b>> \in Seq(ElementTags) /\ Len(<<a, b>>) = 2
        OBVIOUS
      <4>3. \A i \in 1 .. k : i = 1
        BY <3>3
      <4>4. Paired(f[k], images, k)
        BY <3>1, <3>3, <4>1, <4>2, <4>3 DEF Paired
      <4> QED
        BY <4>4
    <3>4. CASE k # 1
      <4>1. PICK q \in Seq(ElementTags) : q = f[k - 1] /\ Paired(q, images, k - 1)
        <5>1. Paired(f[k - 1], images, k - 1)
          BY <2>6, <3>4
        <5>2. f[k - 1] \in Seq(ElementTags)
          BY <5>1 DEF Paired
        <5> QED
          BY <5>1, <5>2
      <4>2. PICK r : r = f[k]
        OBVIOUS
      <4>3. r = q \o <<a, b>>
        BY <2>4, <3>2, <3>4, <4>1, <4>2
      <4>4. Len(q) = 2 * (k - 1)
        BY <4>1 DEF Paired
      <4>5. /\ r \in Seq(ElementTags) /\ Len(r) = 2 * k
            /\ \A j \in 1 .. 2 * (k - 1) : r[j] = q[j]
            /\ r[2 * k - 1] = a /\ r[2 * k] = b
        <5>1. /\ r \in Seq(ElementTags) /\ Len(r) = Len(q) + 2
              /\ \A j \in 1 .. Len(q) : r[j] = q[j]
              /\ r[Len(q) + 1] = a /\ r[Len(q) + 2] = b
          BY <4>3, TwoMore
        <5> QED
          BY <4>4, <5>1
      <4>6. ASSUME NEW i \in 1 .. k
            PROVE  r[2 * i - 1] = Opened(images[i]) /\ r[2 * i] = Closed
        <5>1. CASE i = k
          BY <3>1, <4>5, <5>1
        <5>2. CASE i # k
          <6>1. i \in 1 .. k - 1 /\ 2 * i - 1 \in 1 .. 2 * (k - 1) /\ 2 * i \in 1 .. 2 * (k - 1)
            BY <5>2
          <6>2. q[2 * i - 1] = Opened(images[i]) /\ q[2 * i] = Closed
            BY <4>1, <6>1 DEF Paired
          <6> QED
            BY <4>5, <6>1, <6>2
        <5> QED
          BY <5>1, <5>2
      <4>7. Paired(r, images, k)
        BY <4>5, <4>6 DEF Paired
      <4> QED
        BY <4>2, <4>7
    <3> QED
      BY <3>3, <3>4
  <2>7. \A k \in 0 .. m : k \in P
    <3> HIDE DEF P
    <3> QED
      BY <2>5, <2>6, StepByStep
  <2>8. m \in P
    BY <2>7
  <2> QED
    BY <1>1, <1>4, <2>3, <2>8
<1> QED
  BY <1>3, <1>4

\* What is put around the tags of the images.
Frame(a, b, l, E, x, y, z) == <<a>> \o (<<b, l>> \o E \o <<x, y>>) \o <<z>>

\* All of it is of U.
IsFrame(r, U, a, b, l, E, x, y, z) ==
  /\ E \in Seq(U)
  /\ a \in U /\ b \in U /\ l \in U /\ x \in U /\ y \in U /\ z \in U
  /\ r = Frame(a, b, l, E, x, y, z)

\* What is where in it.
FrameHas(r, U, a, b, l, E, x, y, z) ==
  /\ r \in Seq(U) /\ Len(r) = Len(E) + 6
  /\ r[1] = a /\ r[2] = b /\ r[3] = l
  /\ \A j \in 1 .. Len(E) : r[j + 3] = E[j]
  /\ r[Len(E) + 4] = x /\ r[Len(E) + 5] = y /\ r[Len(E) + 6] = z

\* That is so in every frame.
LEMMA Framed ==
  ASSUME NEW r, NEW U, NEW a, NEW b, NEW l, NEW E, NEW x, NEW y, NEW z,
         IsFrame(r, U, a, b, l, E, x, y, z)
  PROVE  FrameHas(r, U, a, b, l, E, x, y, z)
<1> SUFFICES ASSUME E \in Seq(U), a \in U, b \in U, l \in U, x \in U, y \in U, z \in U,
                    r = Frame(a, b, l, E, x, y, z)
             PROVE  FrameHas(r, U, a, b, l, E, x, y, z)
  BY DEF IsFrame
<1>1. PICK n \in Nat : n = Len(E)
  OBVIOUS
<1>2. PICK p \in Seq(U) : p = <<b, l>> \o E /\ Len(p) = n + 2 /\ p[1] = b /\ p[2] = l
                          /\ \A j \in 1 .. n : p[j + 2] = E[j]
  <2>1. PICK h \in Seq(U) : h = <<b, l>> /\ Len(h) = 2 /\ h[1] = b /\ h[2] = l
    <3>1. <<b, l>> \in Seq(U) /\ Len(<<b, l>>) = 2
      OBVIOUS
    <3> QED
      BY <3>1
  <2>2. /\ h \o E \in Seq(U) /\ Len(h \o E) = n + 2 /\ (h \o E)[1] = h[1] /\ (h \o E)[2] = h[2]
        /\ \A j \in 1 .. n : (h \o E)[j + 2] = E[j]
    BY <1>1, <2>1
  <2> QED
    BY <2>1, <2>2
<1>3. PICK q \in Seq(U) : q = p \o <<x, y>> /\ Len(q) = n + 4
                          /\ (\A j \in 1 .. n + 2 : q[j] = p[j]) /\ q[n + 3] = x /\ q[n + 4] = y
  <2>1. /\ p \o <<x, y>> \in Seq(U) /\ Len(p \o <<x, y>>) = Len(p) + 2
        /\ \A j \in 1 .. Len(p) : (p \o <<x, y>>)[j] = p[j]
        /\ (p \o <<x, y>>)[Len(p) + 1] = x /\ (p \o <<x, y>>)[Len(p) + 2] = y
    BY TwoMore
  <2>2. /\ p \o <<x, y>> \in Seq(U) /\ Len(p \o <<x, y>>) = n + 4
        /\ \A j \in 1 .. n + 2 : (p \o <<x, y>>)[j] = p[j]
        /\ (p \o <<x, y>>)[n + 3] = x /\ (p \o <<x, y>>)[n + 4] = y
    <3>1. Len(p) = n + 2 /\ n + 2 + 1 = n + 3 /\ n + 2 + 2 = n + 4
      BY <1>2
    <3> QED
      BY <2>1, <3>1
  <2> QED
    BY <2>2
<1>4. PICK s \in Seq(U) : s = <<a>> \o q /\ Len(s) = n + 5 /\ s[1] = a
                          /\ \A j \in 1 .. n + 4 : s[j + 1] = q[j]
  <2>1. PICK h \in Seq(U) : h = <<a>> /\ Len(h) = 1 /\ h[1] = a
    <3>1. <<a>> \in Seq(U) /\ Len(<<a>>) = 1
      OBVIOUS
    <3> QED
      BY <3>1
  <2>2. /\ h \o q \in Seq(U) /\ Len(h \o q) = n + 5 /\ (h \o q)[1] = h[1]
        /\ \A j \in 1 .. n + 4 : (h \o q)[j + 1] = q[j]
    BY <1>3, <2>1
  <2> QED
    BY <2>1, <2>2
<1>5. r = s \o <<z>>
  BY <1>2, <1>3, <1>4 DEF Frame
<1>6. /\ r \in Seq(U) /\ Len(r) = n + 6 /\ r[n + 6] = z
      /\ \A j \in 1 .. n + 5 : r[j] = s[j]
  BY <1>4, <1>5
<1>7. r[1] = a /\ r[2] = q[1] /\ r[3] = q[2] /\ r[n + 4] = q[n + 3] /\ r[n + 5] = q[n + 4]
  <2>1. /\ 1 \in 1 .. n + 5 /\ 2 \in 1 .. n + 5 /\ 3 \in 1 .. n + 5
        /\ n + 4 \in 1 .. n + 5 /\ n + 5 \in 1 .. n + 5
        /\ 1 \in 1 .. n + 4 /\ 2 \in 1 .. n + 4 /\ n + 3 \in 1 .. n + 4 /\ n + 4 \in 1 .. n + 4
    OBVIOUS
  <2>2. r[1] = s[1] /\ r[2] = s[2] /\ r[3] = s[3] /\ r[n + 4] = s[n + 4] /\ r[n + 5] = s[n + 5]
    BY <1>6, <2>1
  <2>3. s[1 + 1] = q[1] /\ s[2 + 1] = q[2] /\ s[n + 3 + 1] = q[n + 3] /\ s[n + 4 + 1] = q[n + 4]
    BY <1>4, <2>1
  <2>4. 1 + 1 = 2 /\ 2 + 1 = 3 /\ n + 3 + 1 = n + 4 /\ n + 4 + 1 = n + 5
    OBVIOUS
  <2> QED
    BY <1>4, <2>2, <2>3, <2>4
<1>8. ASSUME NEW j \in 1 .. n PROVE r[j + 3] = E[j]
  <2>1. r[j + 3] = s[j + 3] /\ s[j + 2 + 1] = q[j + 2] /\ q[j + 2] = p[j + 2] /\ p[j + 2] = E[j]
    <3>1. j + 3 \in 1 .. n + 5 /\ j + 2 \in 1 .. n + 4 /\ j + 2 \in 1 .. n + 2
      OBVIOUS
    <3> QED
      BY <1>2, <1>3, <1>4, <1>6, <3>1
  <2>2. j + 2 + 1 = j + 3
    OBVIOUS
  <2> QED
    BY <2>1, <2>2
<1>9. q[1] = b /\ q[2] = l
  BY <1>2, <1>3
<1> QED
  BY <1>1, <1>3, <1>6, <1>7, <1>8, <1>9 DEF FrameHas
-----------------------------------------------------------------------------
(* Reading results *)

\* After a reply with results they are the results of the client, and its query is made
\* of them.
LEMMA ResultsRead ==
  ASSUME NEW d, IsClient(d), NEW session, NEW images \in Seq(Nat)
  PROVE  LET e == readAndParse(d, ResultReply(session, images))
         IN  /\ IsClient(e) /\ e.relevant = d.relevant
             /\ e.query.images = Feedback(images, d.relevant)
<1>1. PICK m \in Nat : m = Len(images)
  OBVIOUS
<1>2. PICK E : E = Elements(images) /\ Paired(E, images, m)
  BY <1>1, ElementsPaired
<1>3. PICK a, b, l, x, y, z :
        /\ a = Start("mrml", Attr("session-id", session)) /\ b = Start("query-result", <<>>)
        /\ l = Start("query-result-element-list", <<>>)
        /\ x = End("query-result-element-list") /\ y = End("query-result") /\ z = End("mrml")
  OBVIOUS
<1>4. PICK U : U = ElementTags \cup {a, b, l, x, y, z}
  OBVIOUS
<1>5. PICK r : r = ResultReply(session, images)
  OBVIOUS
<1>6. r = Frame(a, b, l, E, x, y, z)
  BY <1>2, <1>3, <1>5 DEF ResultReply, Reply, Elements, Frame
<1>7. /\ r \in Seq(U) /\ Len(r) = 2 * m + 6
      /\ r[1] = a /\ r[2] = b /\ r[3] = l
      /\ \A j \in 1 .. 2 * m : r[j + 3] = E[j]
      /\ r[2 * m + 4] = x /\ r[2 * m + 5] = y /\ r[2 * m + 6] = z
  <2>1. E \in Seq(U) /\ Len(E) = 2 * m
    BY <1>2, <1>4 DEF Paired
  <2>2. a \in U /\ b \in U /\ l \in U /\ x \in U /\ y \in U /\ z \in U
    BY <1>4
  <2>3. /\ r \in Seq(U) /\ Len(r) = Len(E) + 6
        /\ r[1] = a /\ r[2] = b /\ r[3] = l
        /\ \A j \in 1 .. Len(E) : r[j + 3] = E[j]
        /\ r[Len(E) + 4] = x /\ r[Len(E) + 5] = y /\ r[Len(E) + 6] = z
    <3>1. IsFrame(r, U, a, b, l, E, x, y, z)
      BY <1>6, <2>1, <2>2 DEF IsFrame
    <3>2. FrameHas(r, U, a, b, l, E, x, y, z)
      BY <3>1, Framed
    <3> QED
      BY <3>2 DEF FrameHas
  <2> QED
    BY <2>1, <2>3
<1>8. PICK e : e = [d EXCEPT !.path = <<>>]
  OBVIOUS
<1>9. IsClient(e) /\ e.relevant = d.relevant
  BY <1>8 DEF IsClient
<1>10. readAndParse(d, r) = Reading(e, r)
  <2>1. r # <<>>
    BY <1>7
  <2> QED
    BY <1>8, <2>1 DEF readAndParse, Reading
<1>11. PICK n \in Nat : n = 2 * m + 6
  OBVIOUS
<1>12. PICK st : /\ st[0] = e
                 /\ \A k \in 1 .. n : st[k] = Handle(st[k - 1], r[k])
                 /\ Reading(e, r) = st[n]
  <2>1. r \in Seq(U) /\ Len(r) = n
    BY <1>7, <1>11
  <2>2. \E st : /\ st[0] = e
                /\ \A k \in 1 .. Len(r) : st[k] = Handle(st[k - 1], r[k])
                /\ Reading(e, r) = st[Len(r)]
    BY <2>1, HandlingsOneByOne
  <2> QED
    BY <2>1, <2>2
<1> DEFINE OK(k) == IsClient(st[k]) /\ st[k].relevant = d.relevant
<1>13. \A k \in 0 .. n : OK(k)
  <2> DEFINE P == {k \in 0 .. n : OK(k)}
  <2>1. 0 \in P
    BY <1>9, <1>12
  <2>2. ASSUME NEW k \in 1 .. n, k - 1 \in P PROVE k \in P
    <3>1. st[k] = Handle(st[k - 1], r[k])
      BY <1>12
    <3>2. IsClient(st[k - 1]) /\ st[k - 1].relevant = d.relevant
      BY <2>2
    <3>3. IsClient(st[k]) /\ st[k].relevant = d.relevant
      BY <3>1, <3>2, Handled
    <3> QED
      BY <3>3
  <2>3. \A k \in 0 .. n : k \in P
    <3> HIDE DEF P
    <3> QED
      BY <2>1, <2>2, StepByStep
  <2> QED
    BY <2>3
<1> HIDE DEF OK
<1>14. st[3].results = <<>>
  <2>1. 3 \in 1 .. n /\ 3 - 1 \in 0 .. n
    BY <1>11
  <2>2. st[3] = Handle(st[3 - 1], l) /\ IsClient(st[3 - 1])
    BY <1>7, <1>12, <1>13, <2>1 DEF OK
  <2>3. l.tag = "start" /\ l.name = "query-result-element-list"
    BY <1>3 DEF Start
  <2>4. st[3].results = ResultsAfter(st[3 - 1], l)
    BY <2>2, <2>3, StartHandled
  <2> QED
    BY <2>3, <2>4 DEF ResultsAfter
<1> DEFINE First(k) == [i \in 1 .. k |-> images[i]]
<1>15. ASSUME NEW k \in 1 .. m, st[2 * k + 1].results = First(k - 1)
       PROVE  st[2 * k + 3].results = First(k)
  <2>1. /\ 2 * k + 1 \in 0 .. n /\ 2 * k + 2 \in 1 .. n /\ 2 * k + 3 \in 1 .. n
        /\ 2 * k - 1 \in 1 .. 2 * m /\ 2 * k \in 1 .. 2 * m /\ images[k] \in Nat
    BY <1>1, <1>11
  <2>2. r[2 * k + 2] = Opened(images[k]) /\ r[2 * k + 3] = Closed
    <3>1. r[2 * k - 1 + 3] = E[2 * k - 1] /\ r[2 * k + 3] = E[2 * k]
      BY <1>7, <2>1
    <3>2. E[2 * k - 1] = Opened(images[k]) /\ E[2 * k] = Closed
      BY <1>2 DEF Paired
    <3> QED
      BY <3>1, <3>2
  <2>3. PICK u, v, w : u = st[2 * k + 1] /\ v = st[2 * k + 2] /\ w = st[2 * k + 3]
    OBVIOUS
  <2>4. v = Handle(u, Opened(images[k])) /\ w = Handle(v, Closed) /\ IsClient(u) /\ IsClient(v)
    <3>1. st[2 * k + 2] = Handle(st[2 * k + 2 - 1], r[2 * k + 2])
          /\ st[2 * k + 3] = Handle(st[2 * k + 3 - 1], r[2 * k + 3])
      BY <1>12, <2>1
    <3>2. IsClient(st[2 * k + 1]) /\ IsClient(st[2 * k + 2])
      BY <1>13, <2>1 DEF OK
    <3> QED
      BY <2>2, <2>3, <3>1, <3>2
  <2>5. v.results = Append(u.results, images[k])
    <3>1. /\ Opened(images[k]).tag = "start" /\ Opened(images[k]).name = "query-result-element"
          /\ Attribute(Opened(images[k]), "image-location") = images[k]
      BY DEF Opened, Start, Attr, Attribute
    <3>2. v.results = ResultsAfter(u, Opened(images[k]))
      BY <2>4, <3>1, StartHandled
    <3> QED
      BY <3>1, <3>2 DEF ResultsAfter
  <2>6. w.results = v.results
    <3>1. Closed.tag # "start"
      BY DEF Closed, End
    <3> QED
      BY <2>4, <3>1, EndHandled
  <2>7. Append(First(k - 1), images[k]) = First(k)
    <3>1. \A i \in 1 .. k : images[i] \in Nat
      BY <1>1
    <3>2. First(k - 1) \in Seq(Nat) /\ Len(First(k - 1)) = k - 1
      BY <3>1
    <3>3. First(k) \in Seq(Nat) /\ Len(First(k)) = k
      BY <3>1
    <3>4. \A i \in 1 .. k : Append(First(k - 1), images[k])[i] = images[i]
      BY <2>1, <3>2
    <3>5. \A i \in 1 .. k : First(k)[i] = images[i]
      OBVIOUS
    <3>6. PICK s \in Seq(Nat) : s = Append(First(k - 1), images[k]) /\ Len(s) = k
      <4> HIDE DEF First
      <4>1. Append(First(k - 1), images[k]) \in Seq(Nat)
            /\ Len(Append(First(k - 1), images[k])) = k
        BY <2>1, <3>2
      <4> QED
        BY <4>1
    <3> HIDE DEF First
    <3>7. \A i \in 1 .. k : s[i] = First(k)[i]
      BY <3>4, <3>5, <3>6
    <3>8. s = [i \in 1 .. k |-> s[i]] /\ First(k) = [i \in 1 .. k |-> First(k)[i]]
      BY SMTT(30), <3>3, <3>6
    <3> QED
      BY <3>6, <3>7, <3>8
  <2> HIDE DEF First
  <2> QED
    BY <1>15, <2>3, <2>5, <2>6, <2>7
<1>16. st[2 * m + 3].results = images
  <2> DEFINE P == {k \in 0 .. m : st[2 * k + 3].results = First(k)}
  <2>1. 0 \in P
    <3>1. First(0) = <<>>
      OBVIOUS
    <3>2. 2 * 0 + 3 = 3
      OBVIOUS
    <3> HIDE DEF First
    <3> QED
      BY <1>14, <3>1, <3>2
  <2>2. ASSUME NEW k \in 1 .. m, k - 1 \in P PROVE k \in P
    <3> HIDE DEF First
    <3>1. st[2 * (k - 1) + 3].results = First(k - 1) /\ 2 * (k - 1) + 3 = 2 * k + 1
      BY <2>2
    <3> QED
      BY <1>15, <3>1
  <2>3. \A k \in 0 .. m : k \in P
    <3> HIDE DEF P
    <3> QED
      BY <2>1, <2>2, StepByStep
  <2>4. st[2 * m + 3].results = First(m)
    <3> HIDE DEF First
    <3> QED
      BY <2>3
  <2>5. First(m) = images
    BY <1>1
  <2> QED
    BY <2>4, <2>5
<1>17. PICK p, q, u, v : p = st[2 * m + 3] /\ q = st[2 * m + 4] /\ u = st[2 * m + 5] /\ v = st[n]
  OBVIOUS
<1>18. /\ q = Handle(p, x) /\ u = Handle(q, y) /\ v = Handle(u, z)
       /\ IsClient(p) /\ IsClient(q) /\ IsClient(u) /\ IsClient(v)
       /\ q.relevant = d.relevant /\ v.relevant = d.relevant
  <2>1. 2 * m + 4 \in 1 .. n /\ 2 * m + 5 \in 1 .. n /\ 2 * m + 6 \in 1 .. n /\ 2 * m + 3 \in 0 .. n
    BY <1>11
  <2>2. /\ st[2 * m + 4] = Handle(st[2 * m + 4 - 1], r[2 * m + 4])
        /\ st[2 * m + 5] = Handle(st[2 * m + 5 - 1], r[2 * m + 5])
        /\ st[2 * m + 6] = Handle(st[2 * m + 6 - 1], r[2 * m + 6])
    BY <1>12, <2>1
  <2>3. OK(2 * m + 3) /\ OK(2 * m + 4) /\ OK(2 * m + 5) /\ OK(n)
    BY <1>11, <1>13, <2>1
  <2> QED
    BY <1>7, <1>11, <1>17, <2>2, <2>3 DEF OK
<1>19. /\ x.tag # "start" /\ y.tag # "start" /\ z.tag # "start"
       /\ x.name # "query-result" /\ y.name = "query-result" /\ z.name # "query-result"
  BY <1>3 DEF End
<1>20. q.results = images
  <2>1. p.results = images
    BY <1>16, <1>17
  <2>2. IsClient(p) /\ q = Handle(p, x) /\ x.tag # "start"
    BY <1>18, <1>19
  <2>3. q.results = p.results
    BY <2>2, EndHandled
  <2> QED
    BY <2>1, <2>3
<1>21. u.query.images = Feedback(images, d.relevant)
  <2>1. IsClient(q) /\ u = Handle(q, y) /\ y.tag # "start" /\ y.name = "query-result"
    BY <1>18, <1>19
  <2>2. u.query.images = Feedback(q.results, q.relevant)
    BY <2>1, EndHandled
  <2> QED
    BY <1>18, <1>20, <2>2
<1>22. v.query = u.query
  BY <1>18, <1>19, EndHandled
<1>23. readAndParse(d, ResultReply(session, images)) = v
  BY <1>5, <1>10, <1>12, <1>17
<1> QED
  BY <1>18, <1>21, <1>22, <1>23

\* Nor is anything lost by a reply without results.
LEMMA ErrorRead ==
  ASSUME NEW d, IsClient(d), NEW session
  PROVE  LET e == readAndParse(d, ErrorReply(session))
         IN  IsClient(e) /\ e.relevant = d.relevant /\ e.query = d.query
<1>1. PICK a, b, x, z : /\ a = Start("mrml", Attr("session-id", session))
                        /\ b = Start("error", <<>>) /\ x = End("error") /\ z = End("mrml")
  OBVIOUS
<1>2. PICK T : T = {a, b, x, z}
  OBVIOUS
<1>3. HasNoResults(T)
  BY <1>1, <1>2 DEF HasNoResults, Start, End
<1>4. ErrorReply(session) = <<a>> \o <<b, x>> \o <<z>>
  BY <1>1 DEF ErrorReply, Reply
<1>5. ErrorReply(session) \in Seq(T)
  <2>1. a \in T /\ b \in T /\ x \in T /\ z \in T
    BY <1>2
  <2>2. <<a>> \in Seq(T) /\ <<b, x>> \in Seq(T) /\ <<z>> \in Seq(T)
    BY <2>1
  <2>3. \A p, q \in Seq(T) : p \o q \in Seq(T)
    OBVIOUS
  <2> QED
    BY <1>4, <2>2, <2>3
<1> QED
  BY <1>3, <1>5, ReadingKeeps
\* A reply is not empty.
LEMMA ReplyIsSome ==
  ASSUME NEW U, NEW content \in Seq(U), NEW session
  PROVE  Reply(session, content) # NoReply
<1>1. PICK a, z : a = Start("mrml", Attr("session-id", session)) /\ z = End("mrml")
  OBVIOUS
<1>2. PICK V : V = U \cup {a, z}
  OBVIOUS
<1>3. content \in Seq(V) /\ a \in V /\ z \in V
  BY <1>2
<1>4. PICK p \in Seq(V) : p = <<a>> \o content
  <2>1. <<a>> \in Seq(V)
    BY <1>3
  <2>2. <<a>> \o content \in Seq(V)
    BY <1>3, <2>1
  <2> QED
    BY <2>2
<1>5. Len(p \o <<z>>) = Len(p) + 1 /\ Len(p) \in Nat /\ Len(<<>>) = 0
  <2>1. \A q \in Seq(V) : Len(p \o q) = Len(p) + Len(q)
    OBVIOUS
  <2>2. <<z>> \in Seq(V) /\ Len(<<z>>) = 1
    BY <1>3
  <2> QED
    BY <2>1, <2>2
<1>6. Reply(session, content) = p \o <<z>>
  BY <1>1, <1>4 DEF Reply
<1> QED
  BY <1>5, <1>6 DEF NoReply

\* Neither kind of reply is.
LEMMA RepliesAreSome ==
  ASSUME NEW session
  PROVE  /\ ErrorReply(session) # NoReply
         /\ \A images \in Displays : ResultReply(session, images) # NoReply
<1>1. ErrorReply(session) # NoReply
  <2>1. PICK b, x : b = Start("error", <<>>) /\ x = End("error")
    OBVIOUS
  <2>2. <<b, x>> \in Seq({b, x})
    OBVIOUS
  <2> QED
    BY <2>1, <2>2, ReplyIsSome DEF ErrorReply
<1>2. ASSUME NEW images \in Displays PROVE ResultReply(session, images) # NoReply
  <2>1. images \in Seq(Nat)
    BY BrowserBenchmarkAssumption
  <2>2. PICK E : E = Elements(images) /\ E \in Seq(ElementTags)
    BY <2>1, ElementsPaired DEF Paired
  <2>3. PICK b, l, x, y : /\ b = Start("query-result", <<>>)
                          /\ l = Start("query-result-element-list", <<>>)
                          /\ x = End("query-result-element-list") /\ y = End("query-result")
    OBVIOUS
  <2>4. PICK U : U = ElementTags \cup {b, l, x, y}
    OBVIOUS
  <2>5. <<b, l>> \in Seq(U) /\ E \in Seq(U) /\ <<x, y>> \in Seq(U)
    BY <2>2, <2>4
  <2>6. \A p, q \in Seq(U) : p \o q \in Seq(U)
    OBVIOUS
  <2>7. <<b, l>> \o E \o <<x, y>> \in Seq(U)
    BY <2>5, <2>6
  <2>8. ResultReply(session, images) = Reply(session, <<b, l>> \o E \o <<x, y>>)
    BY <2>2, <2>3 DEF ResultReply, Elements
  <2> QED
    BY <2>7, <2>8, ReplyIsSome
<1> QED
  BY <1>1, <1>2
-----------------------------------------------------------------------------
(* A group of queries *)

\* The query of the client is made of the last results.
Known == c.query.images = Feedback(shown, group.wanted)

\* While a group goes on the client knows what is relevant, and its query is made of
\* the last results unless they are still to be read.
GroupInv ==
  program = "group" =>
    /\ IsClient(c) /\ c.relevant = group.wanted
    /\ pc \in {"begin", "start", "configure", "first", "read", "step", "end"}
    /\ pc # "read" => request = NoQuery /\ reply = NoReply
    /\ pc \in {"start", "configure"} => ~group.seen
    /\ group.seen => shown \in Displays
    /\ \/ /\ reply \in {NoReply, ErrorReply(request.session)}
          /\ group.seen /\ pc \in {"first", "read", "step"} => Known
       \/ group.seen /\ reply = ResultReply(request.session, shown)
    /\ pc = "read" /\ group.count > 1 /\ reply = NoReply => request = c.query

\* What is known of group at any time.
IsGroup == DOMAIN group = {"old", "count", "done", "wanted", "seen"}

\* Nothing is known or asked at first.
LEMMA GroupBegins == Init => GroupInv /\ IsGroup
<1> SUFFICES ASSUME Init PROVE GroupInv /\ IsGroup
  OBVIOUS
<1>1. IsClient(c) /\ c.relevant = {} /\ pc = "begin" /\ request = NoQuery /\ reply = NoReply
  BY DEF Init, NewClient, IsClient
<1>2. group.wanted = {} /\ group.seen = FALSE /\ IsGroup
  BY DEF Init, IsGroup
<1> QED
  BY <1>1, <1>2 DEF GroupInv

\* Relevant images are added (setRelevantImages).
LEMMA BeginGroupKeeps == IsGroup /\ GroupInv /\ BeginGroup => GroupInv'
<1> SUFFICES ASSUME IsGroup, GroupInv, BeginGroup PROVE GroupInv'
  OBVIOUS
<1>1. PICK images \in RelevantLists :
        /\ c' = setRelevantImages(c, images)
        /\ group' = [group EXCEPT !.wanted = @ \cup ToSet(images), !.seen = FALSE]
  BY DEF BeginGroup
<1>2. /\ program = "group" /\ pc \in {"begin", "end"} /\ pc' = "start"
      /\ request' = request /\ reply' = reply
  BY DEF BeginGroup
<1>3. IsClient(c) /\ c.relevant = group.wanted /\ request = NoQuery /\ reply = NoReply
  BY <1>2 DEF GroupInv
<1>4. IsClient(c') /\ c'.relevant = c.relevant \cup ToSet(images)
  BY <1>1, <1>3 DEF setRelevantImages, IsClient
<1>5. group'.wanted = group.wanted \cup ToSet(images) /\ ~group'.seen
  BY <1>1 DEF IsGroup
<1> QED
  BY <1>2, <1>3, <1>4, <1>5 DEF GroupInv

\* A greeting changes nothing of this.
LEMMA StartSessionKeeps == IsGroup /\ GroupInv /\ startSession => GroupInv'
<1> SUFFICES ASSUME IsGroup, GroupInv, startSession, program = "group" PROVE GroupInv'
  BY DEF startSession, GroupInv
<1>1. PICK greeting \in Greetings : c' = readAndParse(c, greeting)
  BY DEF startSession
<1>2. /\ pc = "start" /\ pc' = "configure" /\ UNCHANGED <<request, reply, group, shown>>
  BY DEF startSession
<1>3. /\ IsClient(c) /\ c.relevant = group.wanted /\ request = NoQuery /\ reply = NoReply
      /\ ~group.seen
  BY <1>2 DEF GroupInv
<1>4. IsClient(c') /\ c'.relevant = c.relevant
  <2>1. greeting \in Seq(ToSet(greeting))
    BY BrowserBenchmarkAssumption
  <2> QED
    BY <1>1, <1>3, <2>1, ReadingKeeps
<1> QED
  BY <1>2, <1>3, <1>4 DEF GroupInv

\* The first results, or none, are read at once.
LEMMA ConfigureSessionKeeps == IsGroup /\ GroupInv /\ configureSession => GroupInv'
<1> SUFFICES ASSUME IsGroup, GroupInv, configureSession, program = "group" PROVE GroupInv'
  BY DEF configureSession, GroupInv
<1>1. pc = "configure" /\ pc' = "first" /\ UNCHANGED <<request, reply>>
  BY DEF configureSession
<1>2. /\ IsClient(c) /\ c.relevant = group.wanted /\ request = NoQuery /\ reply = NoReply
      /\ ~group.seen
  BY <1>1 DEF GroupInv
<1>3. ASSUME NEW images \in Displays, c' = readAndParse(c, ResultReply(c.session, images)),
             shown' = images, group' = [group EXCEPT !.seen = TRUE]
      PROVE  GroupInv'
  <2>1. images \in Seq(Nat)
    BY BrowserBenchmarkAssumption
  <2>2. /\ IsClient(c') /\ c'.relevant = c.relevant
        /\ c'.query.images = Feedback(images, c.relevant)
    BY <1>2, <1>3, <2>1, ResultsRead
  <2>3. group'.wanted = group.wanted /\ group'.seen
    BY <1>3 DEF IsGroup
  <2>4. Known'
    BY <1>2, <1>3, <2>2, <2>3 DEF Known
  <2> QED
    BY <1>1, <1>2, <1>3, <2>2, <2>3, <2>4 DEF GroupInv
<1>4. ASSUME c' = readAndParse(c, ErrorReply(c.session)), UNCHANGED <<group, shown>>
      PROVE  GroupInv'
  <2>1. IsClient(c') /\ c'.relevant = c.relevant
    BY <1>2, <1>4, ErrorRead
  <2> QED
    BY <1>1, <1>2, <1>4, <2>1 DEF GroupInv
<1> QED
  BY <1>3, <1>4 DEF configureSession

\* The first query is of the first relevant image.
LEMMA FirstStepKeeps == IsGroup /\ GroupInv /\ doFirstQueryStep => GroupInv'
<1> SUFFICES ASSUME IsGroup, GroupInv, doFirstQueryStep PROVE GroupInv'
  OBVIOUS
<1>1. PICK query : /\ Send(query, "read")
                   /\ group' = [group EXCEPT !.old = query, !.count = 1]
  BY DEF doFirstQueryStep
<1>2. program = "group" /\ pc = "first" /\ UNCHANGED <<c, shown>>
  BY DEF doFirstQueryStep
<1>3. reply' = NoReply /\ pc' = "read"
  BY <1>1 DEF Send
<1>4. /\ IsClient(c) /\ c.relevant = group.wanted /\ group.seen => shown \in Displays
      /\ reply = NoReply
  BY <1>2 DEF GroupInv
<1>5. group'.wanted = group.wanted /\ group'.seen = group.seen /\ group'.count = 1
  BY <1>1 DEF IsGroup
<1>6. group.seen => Known
  BY <1>2, <1>4, RepliesAreSome DEF GroupInv, Known
<1>7. Known' = Known
  BY <1>2, <1>5 DEF Known
<1> QED
  BY <1>2, <1>3, <1>4, <1>5, <1>6, <1>7 DEF GroupInv

\* New results are on their way, or an error.
LEMMA AnswerKeeps == IsGroup /\ GroupInv /\ Answer => GroupInv'
<1> SUFFICES ASSUME IsGroup, GroupInv, Answer PROVE GroupInv'
  OBVIOUS
<1>1. /\ program = "group" /\ request # NoQuery /\ reply = NoReply
      /\ UNCHANGED <<pc, c, request>>
  BY DEF Answer
<1>2. pc = "read" /\ IsClient(c) /\ c.relevant = group.wanted
  BY <1>1 DEF GroupInv
<1>3. ASSUME NEW images \in Displays, reply' = ResultReply(request.session, images),
             shown' = images, group' = [group EXCEPT !.seen = TRUE]
      PROVE  GroupInv'
  <2>1. group'.wanted = group.wanted /\ group'.seen
    BY <1>3 DEF IsGroup
  <2>2. reply' # NoReply
    BY <1>3, RepliesAreSome
  <2> QED
    BY <1>1, <1>2, <1>3, <2>1, <2>2 DEF GroupInv
<1>4. ASSUME reply' = ErrorReply(request.session), UNCHANGED <<group, shown>>
      PROVE  GroupInv'
  <2>1. reply' # NoReply
    BY <1>4, RepliesAreSome
  <2>2. /\ group.seen => Known
        /\ group.seen => shown \in Displays
    BY <1>1, <1>2, RepliesAreSome DEF GroupInv
  <2>3. Known' = Known
    BY <1>1, <1>4 DEF Known
  <2> QED
    BY <1>1, <1>2, <1>4, <2>1, <2>2, <2>3 DEF GroupInv
<1> QED
  BY <1>3, <1>4 DEF Answer

\* The reply is read (readAndParse).
LEMMA ReadKeeps == IsGroup /\ GroupInv /\ Read => GroupInv'
<1> SUFFICES ASSUME IsGroup, GroupInv, Read PROVE GroupInv'
  OBVIOUS
<1>1. /\ program = "group" /\ pc = "read" /\ reply # NoReply
      /\ c' = readAndParse(c, reply) /\ request' = NoQuery /\ reply' = NoReply
      /\ pc' = "step" /\ UNCHANGED <<group, shown>>
  BY DEF Read
<1>2. IsClient(c) /\ c.relevant = group.wanted /\ (group.seen => shown \in Displays)
  BY <1>1 DEF GroupInv
<1>3. CASE group.seen /\ reply = ResultReply(request.session, shown)
  <2>1. shown \in Seq(Nat)
    BY <1>2, <1>3, BrowserBenchmarkAssumption
  <2>2. /\ IsClient(c') /\ c'.relevant = c.relevant
        /\ c'.query.images = Feedback(shown, c.relevant)
    BY <1>1, <1>2, <1>3, <2>1, ResultsRead
  <2>3. Known'
    BY <1>1, <1>2, <2>2 DEF Known
  <2> QED
    BY <1>1, <1>2, <2>2, <2>3 DEF GroupInv
<1>4. CASE reply = ErrorReply(request.session) /\ (group.seen => Known)
  <2>1. IsClient(c') /\ c'.relevant = c.relevant /\ c'.query = c.query
    BY <1>1, <1>2, <1>4, ErrorRead
  <2>2. Known' = Known
    BY <1>1, <2>1 DEF Known
  <2> QED
    BY <1>1, <1>2, <1>4, <2>1, <2>2 DEF GroupInv
<1> QED
  BY <1>1, <1>3, <1>4 DEF GroupInv

\* The query of the client is sent, or the group ends.
LEMMA QueryStepKeeps == IsGroup /\ GroupInv /\ doQueryStep => GroupInv'
<1> SUFFICES ASSUME IsGroup, GroupInv, doQueryStep PROVE GroupInv'
  OBVIOUS
<1>1. program = "group" /\ pc = "step" /\ UNCHANGED <<c, shown>>
  BY DEF doQueryStep
<1>2. /\ IsClient(c) /\ c.relevant = group.wanted /\ (group.seen => shown \in Displays)
      /\ reply = NoReply /\ request = NoQuery
  BY <1>1 DEF GroupInv
<1>3. group.seen => Known
  BY <1>1, <1>2, RepliesAreSome DEF GroupInv
<1>4. group'.wanted = group.wanted /\ group'.seen = group.seen
  BY DEF doQueryStep, IsGroup
<1>5. Known' = Known
  BY <1>1, <1>4 DEF Known
<1>6. \/ request' = c.query /\ reply' = NoReply /\ pc' = "read"
      \/ request' = NoQuery /\ reply' = NoReply /\ pc' = "end"
  BY <1>2 DEF doQueryStep, Send
<1> QED
  BY <1>1, <1>2, <1>3, <1>4, <1>5, <1>6 DEF GroupInv

\* Every step keeps it, whoever takes it.
LEMMA GroupGoesOn == IsGroup /\ GroupInv /\ [Next]_vars => IsGroup' /\ GroupInv'
<1> SUFFICES ASSUME IsGroup, GroupInv, [Next]_vars PROVE IsGroup' /\ GroupInv'
  OBVIOUS
<1>1. IsGroup'
  <2>1. CASE UNCHANGED vars
    BY <2>1 DEF IsGroup, vars
  <2>2. CASE Next
    <3>1. CASE BeginGroup
      BY <3>1 DEF IsGroup, BeginGroup
    <3>2. CASE configureSession
      BY <3>2 DEF IsGroup, configureSession
    <3>3. CASE doFirstQueryStep
      BY <3>3 DEF IsGroup, doFirstQueryStep
    <3>4. CASE Answer
      BY <3>4 DEF IsGroup, Answer
    <3>5. CASE doQueryStep
      BY <3>5 DEF IsGroup, doQueryStep
    <3>6. CASE BeginTest \/ startSession \/ Read \/ NextTarget \/ SendQuery \/ Browse \/ Look
      <4>1. group' = group
        BY <3>6 DEF BeginTest, startSession, Read, NextTarget, SendQuery, Browse, Look
      <4> QED
        BY <4>1 DEF IsGroup
    <3> QED
      BY <2>2, <3>1, <3>2, <3>3, <3>4, <3>5, <3>6 DEF Next
  <2> QED
    BY <2>1, <2>2
<1>2. GroupInv'
  <2>1. CASE UNCHANGED vars
    BY <2>1 DEF GroupInv, Known, vars
  <2>2. CASE BeginTest \/ NextTarget \/ SendQuery \/ Browse \/ Look
    <3>1. program' # "group"
      BY <2>2 DEF BeginTest, NextTarget, SendQuery, Browse, Look
    <3> QED
      BY <3>1 DEF GroupInv
  <2> QED
    BY <2>1, <2>2, BeginGroupKeeps, StartSessionKeeps, ConfigureSessionKeeps, FirstStepKeeps,
       AnswerKeeps, ReadKeeps, QueryStepKeeps DEF Next
<1> QED
  BY <1>1, <1>2

\* Then a query names what is relevant in the last results.
LEMMA FeedbackNamesRelevantOnes == GroupInv => FeedbackFromLastResults
<1> SUFFICES ASSUME GroupInv, program = "group", request # NoQuery, reply = NoReply,
                    group.count > 1, group.seen
             PROVE  /\ ToSet(request.images) = ToSet(shown) \cap group.wanted
                    /\ \A i, j \in DOMAIN request.images :
                         i < j => request.images[i] < request.images[j]
  BY DEF FeedbackFromLastResults
<1>1. pc = "read" /\ shown \in Displays /\ request = c.query
  BY DEF GroupInv
<1>2. Known
  BY <1>1, RepliesAreSome DEF GroupInv
<1>3. shown \in Seq(Nat) /\ Once(shown)
  <2>1. shown \in Seq(Nat) /\ IsInjective(shown)
    BY <1>1, BrowserBenchmarkAssumption
  <2> QED
    BY <2>1 DEF IsInjective, Once
<1>4. PICK s \in Seq(Nat) : /\ s = RelevantResults(shown, group.wanted) /\ Once(s)
                            /\ ToSet(s) = ToSet(shown) \cap group.wanted
  BY <1>3, RelevantOnes
<1>5. PICK a \in Seq(Nat) : a = Ascending(s) /\ ToSet(a) = ToSet(s) /\ Increasing(a)
  BY <1>4, Sorting
<1>6. request.images = a
  BY <1>1, <1>2, <1>4, <1>5 DEF Known, Feedback
<1>7. \A i, j \in DOMAIN a : i < j => a[i] < a[j]
  BY <1>5 DEF Increasing
<1> QED
  BY <1>4, <1>5, <1>6, <1>7

\* A query sent in a group after the first one names, each once and in order, the images
\* of the last results that are relevant (handleStart, handleEnd, buildNewQuery of
\* CFeedbackClient), for all lists of relevant images, all results and greetings of a
\* server and every number of groups and steps.
THEOREM FeedbackIsOfLastResults == Spec => []FeedbackFromLastResults
<1>1. Init => GroupInv /\ IsGroup
  BY GroupBegins
<1>2. GroupInv /\ IsGroup /\ [Next]_vars => (GroupInv /\ IsGroup)'
  BY GroupGoesOn
<1>3. GroupInv => FeedbackFromLastResults
  BY FeedbackNamesRelevantOnes
<1> QED
  BY <1>1, <1>2, <1>3, PTL DEF Spec
===============================================================================
