------------------------ MODULE IndexGenerationProofs ------------------------
(***************************************************************************)
(* Theorems about IndexGeneration: for every collection of feature files,  *)
(* every size of a page, and wherever the program is killed, the files of  *)
(* additional document information are written after a whole index, and    *)
(* the index of files without faults is what the files say.                *)
(***************************************************************************)
EXTENDS IndexGeneration, SharedLemmas
-----------------------------------------------------------------------------
(* Merging *)

Ordered(s) == \A i, j \in 1 .. Len(s) : i < j => s[i].f <= s[j].f

\* What may be left to merge, and how much that is.
Places(l, r) == (0 .. Len(l)) \X (0 .. Len(r))
Left(l, r, a, b) == Len(l) - a + Len(r) - b

\* s is the rest of l and r after a triplets of l and b of r, in order.
Merges(s, l, r, a, b) ==
  /\ s \in Seq(Triplets) /\ Len(s) = Left(l, r, a, b)
  /\ \A i \in a + 1 .. Len(l) : \E n \in 1 .. Len(s) : s[n] = l[i]
  /\ \A j \in b + 1 .. Len(r) : \E n \in 1 .. Len(s) : s[n] = r[j]
  /\ \A n \in 1 .. Len(s) : \/ \E i \in a + 1 .. Len(l) : s[n] = l[i]
                            \/ \E j \in b + 1 .. Len(r) : s[n] = r[j]
  /\ Ordered(l) /\ Ordered(r) => Ordered(s)

LEMMA FeaturesAreNumbers == \A t \in Triplets : t.f \in Nat
<1>1. \A x \in Features \cup {0} : x \in Nat
  BY IndexGenerationAssumption
<1>2. \A t \in Triplets : t.f \in Features \cup {0}
  BY DEF Triplets
<1> QED
  BY <1>1, <1>2

LEMMA MergeRight ==
  ASSUME NEW l \in Seq(Triplets), NEW r \in Seq(Triplets), NEW b \in 0 .. Len(r)
  PROVE  Merges(SubSeq(r, b + 1, Len(r)), l, r, Len(l), b)
<1> DEFINE s == SubSeq(r, b + 1, Len(r))
<1>1. /\ s \in Seq(Triplets) /\ Len(s) = Len(r) - b
      /\ \A n \in 1 .. Len(s) : s[n] = r[b + n]
  OBVIOUS
<1> HIDE DEF s
<1>2. ASSUME NEW j \in b + 1 .. Len(r) PROVE \E n \in 1 .. Len(s) : s[n] = r[j]
  <2>1. j - b \in 1 .. Len(s) /\ s[j - b] = r[b + (j - b)]
    BY <1>1
  <2> QED
    BY <2>1
<1>3. ASSUME NEW n \in 1 .. Len(s) PROVE \E j \in b + 1 .. Len(r) : s[n] = r[j]
  <2>1. b + n \in b + 1 .. Len(r) /\ s[n] = r[b + n]
    BY <1>1
  <2> QED
    BY <2>1
<1>4. ASSUME Ordered(r) PROVE Ordered(s)
  <2>1. ASSUME NEW m \in 1 .. Len(s), NEW n \in 1 .. Len(s), m < n PROVE s[m].f <= s[n].f
    <3>1. b + m \in 1 .. Len(r) /\ b + n \in 1 .. Len(r) /\ b + m < b + n
      BY <1>1, <2>1
    <3>2. r[b + m].f <= r[b + n].f
      BY <1>4, <3>1 DEF Ordered
    <3>3. s[m] = r[b + m] /\ s[n] = r[b + n]
      BY <1>1
    <3> QED
      BY <3>2, <3>3
  <2> QED
    BY <2>1 DEF Ordered
<1>5. /\ \A i \in Len(l) + 1 .. Len(l) : \E n \in 1 .. Len(s) : s[n] = l[i]
      /\ Len(s) = Left(l, r, Len(l), b)
  BY <1>1 DEF Left
<1>6. Merges(s, l, r, Len(l), b)
  BY <1>1, <1>2, <1>3, <1>4, <1>5 DEF Merges
<1> QED
  BY <1>6 DEF s

\* What is written first and then the rest of a merge.
LEMMA Prepended ==
  ASSUME NEW x \in Triplets, NEW s \in Seq(Triplets)
  PROVE  LET t == <<x>> \o s
         IN  /\ t \in Seq(Triplets) /\ Len(t) = Len(s) + 1
             /\ 1 \in 1 .. Len(t) /\ t[1] = x
             /\ \A n \in 1 .. Len(s) : n + 1 \in 1 .. Len(t) /\ t[n + 1] = s[n]
             /\ \A n \in 1 .. Len(t) : n = 1 \/ (n - 1 \in 1 .. Len(s) /\ t[n] = s[n - 1])
             /\ Ordered(s) /\ (\A n \in 1 .. Len(s) : x.f <= s[n].f) => Ordered(t)
<1> DEFINE t == <<x>> \o s
<1>1. t \in Seq(Triplets) /\ Len(t) = Len(s) + 1 /\ t[1] = x
  OBVIOUS
<1>2. \A n \in 1 .. Len(s) : n + 1 \in 1 .. Len(t) /\ t[n + 1] = s[n]
  OBVIOUS
<1>3. \A n \in 1 .. Len(t) : n = 1 \/ (n - 1 \in 1 .. Len(s) /\ t[n] = s[n - 1])
  OBVIOUS
<1> HIDE DEF t
<1>4. ASSUME Ordered(s), \A n \in 1 .. Len(s) : x.f <= s[n].f,
             NEW i \in 1 .. Len(t), NEW j \in 1 .. Len(t), i < j
      PROVE  t[i].f <= t[j].f
  <2>1. j - 1 \in 1 .. Len(s) /\ t[j] = s[j - 1]
    BY <1>3, <1>4
  <2>2. CASE i = 1
    BY <1>1, <1>4, <2>1, <2>2
  <2>3. CASE i # 1
    <3>1. i - 1 \in 1 .. Len(s) /\ t[i] = s[i - 1] /\ i - 1 < j - 1
      BY <1>3, <1>4, <2>3
    <3> QED
      BY <1>4, <2>1, <3>1 DEF Ordered
  <2> QED
    BY <2>2, <2>3
<1> QED
  BY <1>1, <1>2, <1>3, <1>4 DEF Ordered, t

LEMMA MergeLeftFirst ==
  ASSUME NEW l \in Seq(Triplets), NEW r \in Seq(Triplets), NEW s,
         NEW a \in 0 .. Len(l) - 1, NEW b \in 0 .. Len(r),
         b = Len(r) \/ l[a + 1].f < r[b + 1].f,
         Merges(s, l, r, a + 1, b)
  PROVE  Merges(<<l[a + 1]>> \o s, l, r, a, b)
<1> DEFINE t == <<l[a + 1]>> \o s
<1>a. l[a + 1] \in Triplets /\ s \in Seq(Triplets)
  BY DEF Merges
<1>1. /\ t \in Seq(Triplets) /\ Len(t) = Len(s) + 1
      /\ 1 \in 1 .. Len(t) /\ t[1] = l[a + 1]
      /\ \A n \in 1 .. Len(s) : n + 1 \in 1 .. Len(t) /\ t[n + 1] = s[n]
      /\ \A n \in 1 .. Len(t) : n = 1 \/ (n - 1 \in 1 .. Len(s) /\ t[n] = s[n - 1])
      /\ Ordered(s) /\ (\A n \in 1 .. Len(s) : l[a + 1].f <= s[n].f) => Ordered(t)
  BY <1>a, Prepended
<1> HIDE DEF t
<1>2. ASSUME NEW i \in a + 1 .. Len(l) PROVE \E n \in 1 .. Len(t) : t[n] = l[i]
  <2>1. CASE i = a + 1
    BY <1>1, <2>1
  <2>2. CASE i # a + 1
    <3>1. i \in a + 1 + 1 .. Len(l)
      BY <2>2
    <3>2. PICK n \in 1 .. Len(s) : s[n] = l[i]
      BY <3>1 DEF Merges
    <3> QED
      BY <1>1, <3>2
  <2> QED
    BY <2>1, <2>2
<1>3. ASSUME NEW j \in b + 1 .. Len(r) PROVE \E n \in 1 .. Len(t) : t[n] = r[j]
  <2>1. PICK n \in 1 .. Len(s) : s[n] = r[j]
    BY DEF Merges
  <2> QED
    BY SMTT(60), <1>1, <2>1
<1>4. ASSUME NEW n \in 1 .. Len(t)
      PROVE  \/ \E i \in a + 1 .. Len(l) : t[n] = l[i]
             \/ \E j \in b + 1 .. Len(r) : t[n] = r[j]
  <2>1. CASE n = 1
    <3>1. a + 1 \in a + 1 .. Len(l)
      OBVIOUS
    <3> QED
      BY <1>1, <2>1, <3>1
  <2>2. CASE n # 1
    <3>1. n - 1 \in 1 .. Len(s) /\ t[n] = s[n - 1]
      BY <1>1, <2>2
    <3>2. \/ \E i \in a + 1 + 1 .. Len(l) : s[n - 1] = l[i]
          \/ \E j \in b + 1 .. Len(r) : s[n - 1] = r[j]
      BY <3>1 DEF Merges
    <3>3. ASSUME NEW i \in a + 1 + 1 .. Len(l) PROVE i \in a + 1 .. Len(l)
      OBVIOUS
    <3> QED
      BY <3>1, <3>2, <3>3
  <2> QED
    BY <2>1, <2>2
<1>5. ASSUME Ordered(l), Ordered(r) PROVE Ordered(t)
  <2>1. ASSUME NEW n \in 1 .. Len(s) PROVE l[a + 1].f <= s[n].f
    <3>1. ASSUME NEW i \in a + 1 + 1 .. Len(l) PROVE l[a + 1].f <= l[i].f
      <4>1. a + 1 \in 1 .. Len(l) /\ i \in 1 .. Len(l) /\ a + 1 < i
        OBVIOUS
      <4> QED
        BY <1>5, <4>1 DEF Ordered
    <3>2. ASSUME NEW j \in b + 1 .. Len(r) PROVE l[a + 1].f <= r[j].f
      <4>1. r[b + 1].f <= r[j].f
        BY SMTT(30), <1>5, FeaturesAreNumbers DEF Ordered
      <4>2. l[a + 1].f \in Nat /\ r[b + 1].f \in Nat /\ r[j].f \in Nat
        BY FeaturesAreNumbers
      <4>3. l[a + 1].f < r[b + 1].f
        OBVIOUS
      <4> QED
        BY SMTT(30), <4>1, <4>2, <4>3
    <3>3. \/ \E i \in a + 1 + 1 .. Len(l) : s[n] = l[i]
          \/ \E j \in b + 1 .. Len(r) : s[n] = r[j]
      BY DEF Merges
    <3> QED
      BY <3>1, <3>2, <3>3
  <2>2. Ordered(s)
    BY <1>5 DEF Merges
  <2> QED
    BY <1>1, <2>1, <2>2
<1>6. Len(t) = Left(l, r, a, b)
  BY <1>1 DEF Merges, Left
<1>7. Merges(t, l, r, a, b)
  BY <1>1, <1>2, <1>3, <1>4, <1>5, <1>6 DEF Merges
<1> QED
  BY <1>7 DEF t

LEMMA MergeRightFirst ==
  ASSUME NEW l \in Seq(Triplets), NEW r \in Seq(Triplets), NEW s,
         NEW a \in 0 .. Len(l) - 1, NEW b \in 0 .. Len(r) - 1,
         ~(l[a + 1].f < r[b + 1].f),
         Merges(s, l, r, a, b + 1)
  PROVE  Merges(<<r[b + 1]>> \o s, l, r, a, b)
<1> DEFINE t == <<r[b + 1]>> \o s
<1>a. r[b + 1] \in Triplets /\ s \in Seq(Triplets)
  BY DEF Merges
<1>1. /\ t \in Seq(Triplets) /\ Len(t) = Len(s) + 1
      /\ 1 \in 1 .. Len(t) /\ t[1] = r[b + 1]
      /\ \A n \in 1 .. Len(s) : n + 1 \in 1 .. Len(t) /\ t[n + 1] = s[n]
      /\ \A n \in 1 .. Len(t) : n = 1 \/ (n - 1 \in 1 .. Len(s) /\ t[n] = s[n - 1])
      /\ Ordered(s) /\ (\A n \in 1 .. Len(s) : r[b + 1].f <= s[n].f) => Ordered(t)
  BY <1>a, Prepended
<1> HIDE DEF t
<1>2. ASSUME NEW j \in b + 1 .. Len(r) PROVE \E n \in 1 .. Len(t) : t[n] = r[j]
  <2>1. CASE j = b + 1
    BY <1>1, <2>1
  <2>2. CASE j # b + 1
    <3>1. j \in b + 1 + 1 .. Len(r)
      BY <2>2
    <3>2. PICK n \in 1 .. Len(s) : s[n] = r[j]
      BY <3>1 DEF Merges
    <3> QED
      BY <1>1, <3>2
  <2> QED
    BY <2>1, <2>2
<1>3. ASSUME NEW i \in a + 1 .. Len(l) PROVE \E n \in 1 .. Len(t) : t[n] = l[i]
  <2>1. PICK n \in 1 .. Len(s) : s[n] = l[i]
    BY DEF Merges
  <2> QED
    BY ZenonT(30), <1>1, <2>1
<1>4. ASSUME NEW n \in 1 .. Len(t)
      PROVE  \/ \E j \in b + 1 .. Len(r) : t[n] = r[j]
             \/ \E i \in a + 1 .. Len(l) : t[n] = l[i]
  <2>1. CASE n = 1
    <3>1. b + 1 \in b + 1 .. Len(r)
      OBVIOUS
    <3> QED
      BY <1>1, <2>1, <3>1
  <2>2. CASE n # 1
    <3>1. n - 1 \in 1 .. Len(s) /\ t[n] = s[n - 1]
      BY <1>1, <2>2
    <3>2. \/ \E j \in b + 1 + 1 .. Len(r) : s[n - 1] = r[j]
          \/ \E i \in a + 1 .. Len(l) : s[n - 1] = l[i]
      BY <3>1 DEF Merges
    <3>3. ASSUME NEW j \in b + 1 + 1 .. Len(r) PROVE j \in b + 1 .. Len(r)
      OBVIOUS
    <3> QED
      BY <3>1, <3>2, <3>3
  <2> QED
    BY <2>1, <2>2
<1>5. ASSUME Ordered(r), Ordered(l) PROVE Ordered(t)
  <2>1. ASSUME NEW n \in 1 .. Len(s) PROVE r[b + 1].f <= s[n].f
    <3>1. ASSUME NEW j \in b + 1 + 1 .. Len(r) PROVE r[b + 1].f <= r[j].f
      <4>1. b + 1 \in 1 .. Len(r) /\ j \in 1 .. Len(r) /\ b + 1 < j
        OBVIOUS
      <4> QED
        BY <1>5, <4>1 DEF Ordered
    <3>2. ASSUME NEW i \in a + 1 .. Len(l) PROVE r[b + 1].f <= l[i].f
      <4>1. l[a + 1].f <= l[i].f
        BY <1>5, FeaturesAreNumbers DEF Ordered
      <4>2. r[b + 1].f \in Nat /\ l[a + 1].f \in Nat /\ l[i].f \in Nat
        BY FeaturesAreNumbers
      <4>3. ~(l[a + 1].f < r[b + 1].f)
        OBVIOUS
      <4> QED
        BY SMTT(30), <4>1, <4>2, <4>3
    <3>3. \/ \E j \in b + 1 + 1 .. Len(r) : s[n] = r[j]
          \/ \E i \in a + 1 .. Len(l) : s[n] = l[i]
      BY DEF Merges
    <3> QED
      BY <3>1, <3>2, <3>3
  <2>2. Ordered(s)
    BY <1>5 DEF Merges
  <2> QED
    BY <1>1, <2>1, <2>2
<1>6. Len(t) = Left(l, r, a, b)
  BY <1>1 DEF Merges, Left
<1>7. Merges(t, l, r, a, b)
  BY <1>1, <1>2, <1>3, <1>4, <1>5, <1>6 DEF Merges
<1> QED
  BY <1>7 DEF t

\* The recursion of Merged is well-founded: there is a function it defines.
LEMMA MergingExists ==
  ASSUME NEW l \in Seq(Triplets), NEW r \in Seq(Triplets)
  PROVE  \E rest : rest = [k \in Places(l, r) |-> Merging(l, r, rest, k)]
<1> DEFINE Good(rest, n) ==
             /\ rest = [k \in Places(l, r) |-> rest[k]]
             /\ \A k \in Places(l, r) : Left(l, r, k[1], k[2]) <= n => rest[k] = Merging(l, r, rest, k)
           T == {n \in Nat : \E rest : Good(rest, n)}
<1>1. \A k \in Places(l, r) : k[1] \in 0 .. Len(l) /\ k[2] \in 0 .. Len(r) /\ k = <<k[1], k[2]>>
  BY DEF Places
<1>2. ASSUME NEW g, NEW h, NEW k \in Places(l, r),
             \A j \in Places(l, r) :
                Left(l, r, j[1], j[2]) < Left(l, r, k[1], k[2]) => g[j] = h[j]
      PROVE  Merging(l, r, g, k) = Merging(l, r, h, k)
  <2>1. CASE k[1] = Len(l)
    BY <2>1 DEF Merging
  <2>2. CASE k[1] # Len(l) /\ (k[2] = Len(r) \/ l[k[1] + 1].f < r[k[2] + 1].f)
    <3>1. <<k[1] + 1, k[2]>> \in Places(l, r)
      BY <1>1, <2>2 DEF Places
    <3>2. Left(l, r, k[1] + 1, k[2]) < Left(l, r, k[1], k[2])
      BY <1>1 DEF Left
    <3>3. g[<<k[1] + 1, k[2]>>] = h[<<k[1] + 1, k[2]>>]
      BY <1>2, <3>1, <3>2
    <3> QED
      BY <2>2, <3>3 DEF Merging
  <2>3. CASE k[1] # Len(l) /\ ~(k[2] = Len(r) \/ l[k[1] + 1].f < r[k[2] + 1].f)
    <3>1. <<k[1], k[2] + 1>> \in Places(l, r)
      BY <1>1, <2>3 DEF Places
    <3>2. Left(l, r, k[1], k[2] + 1) < Left(l, r, k[1], k[2])
      BY <1>1 DEF Left
    <3>3. g[<<k[1], k[2] + 1>>] = h[<<k[1], k[2] + 1>>]
      BY <1>2, <3>1, <3>2
    <3> QED
      BY <2>3, <3>3 DEF Merging
  <2> QED
    BY <2>1, <2>2, <2>3
<1>3. \A k \in Places(l, r) : Left(l, r, k[1], k[2]) \in Nat
  BY <1>1 DEF Left
<1>4. 0 \in T
  <2> DEFINE z == [k \in Places(l, r) |-> SubSeq(r, k[2] + 1, Len(r))]
  <2>1. ASSUME NEW k \in Places(l, r), Left(l, r, k[1], k[2]) <= 0
        PROVE  z[k] = Merging(l, r, z, k)
    <3>1. k[1] = Len(l)
      BY <1>1, <2>1 DEF Left
    <3> QED
      BY <3>1 DEF Merging
  <2>2. Good(z, 0)
    BY <2>1
  <2> QED
    BY <2>2
<1>5. ASSUME NEW n \in Nat, n \in T PROVE n + 1 \in T
  <2>1. PICK g : Good(g, n)
    BY <1>5
  <2> DEFINE h == [k \in Places(l, r) |-> IF Left(l, r, k[1], k[2]) = n + 1
                                         THEN Merging(l, r, g, k) ELSE g[k]]
  <2>2. ASSUME NEW k \in Places(l, r), Left(l, r, k[1], k[2]) <= n + 1
        PROVE  h[k] = Merging(l, r, h, k)
    <3>1. Merging(l, r, g, k) = Merging(l, r, h, k)
      <4>1. ASSUME NEW j \in Places(l, r), Left(l, r, j[1], j[2]) < Left(l, r, k[1], k[2])
            PROVE  g[j] = h[j]
        BY <1>3, <2>2, <4>1
      <4> HIDE DEF h
      <4> QED
        BY <1>2, <4>1
    <3>2. h[k] = Merging(l, r, g, k)
      <4>1. CASE Left(l, r, k[1], k[2]) = n + 1
        BY <4>1
      <4>2. CASE Left(l, r, k[1], k[2]) # n + 1
        BY <1>3, <2>1, <2>2, <4>2
      <4> QED
        BY <4>1, <4>2
    <3> QED
      BY <3>1, <3>2
  <2>3. Good(h, n + 1)
    <3>1. h = [k \in Places(l, r) |-> h[k]]
      OBVIOUS
    <3> HIDE DEF h
    <3> QED
      BY <2>2, <3>1
  <2>4. \E rest : Good(rest, n + 1)
    <3> HIDE DEF Good, h
    <3> QED
      BY <2>3
  <2> QED
    BY <2>4
<1>6. Len(l) + Len(r) \in T
  <2>1. Nat \subseteq T
    <3> HIDE DEF T
    <3> QED
      BY <1>4, <1>5, Counting
  <2> QED
    BY <2>1
<1>7. PICK g : Good(g, Len(l) + Len(r))
  BY <1>6
<1>8. \A k \in Places(l, r) : g[k] = Merging(l, r, g, k)
  BY <1>1, <1>7 DEF Left
<1> QED
  BY <1>7, <1>8

\* What merge_streams does with two files: all triplets of both, and if both are
\* in the order of their features, the result is.
LEMMA MergedMerges ==
  ASSUME NEW l \in Seq(Triplets), NEW r \in Seq(Triplets)
  PROVE  Merges(Merged(l, r), l, r, 0, 0)
<1>1. PICK rest : /\ rest = [k \in Places(l, r) |-> Merging(l, r, rest, k)]
                  /\ Merged(l, r) = rest[<<0, 0>>]
  BY MergingExists DEF Merged, Places
<1> DEFINE T == {n \in Nat : \A a \in 0 .. Len(l), b \in 0 .. Len(r) :
                               Left(l, r, a, b) = n => Merges(rest[<<a, b>>], l, r, a, b)}
<1>2. ASSUME NEW a \in 0 .. Len(l), NEW b \in 0 .. Len(r)
      PROVE  /\ a = Len(l) => rest[<<a, b>>] = SubSeq(r, b + 1, Len(r))
             /\ a # Len(l) /\ (b = Len(r) \/ l[a + 1].f < r[b + 1].f) =>
                  rest[<<a, b>>] = <<l[a + 1]>> \o rest[<<a + 1, b>>]
             /\ a # Len(l) /\ ~(b = Len(r) \/ l[a + 1].f < r[b + 1].f) =>
                  rest[<<a, b>>] = <<r[b + 1]>> \o rest[<<a, b + 1>>]
  <2>1. <<a, b>> \in Places(l, r)
    BY DEF Places
  <2>2. rest[<<a, b>>] = Merging(l, r, rest, <<a, b>>)
    BY <1>1, <2>1
  <2> QED
    BY <2>2 DEF Merging
<1>3. ASSUME NEW a \in 0 .. Len(l), NEW b \in 0 .. Len(r),
             a < Len(l) => Merges(rest[<<a + 1, b>>], l, r, a + 1, b),
             b < Len(r) => Merges(rest[<<a, b + 1>>], l, r, a, b + 1)
      PROVE  Merges(rest[<<a, b>>], l, r, a, b)
  <2>1. CASE a = Len(l)
    BY <1>2, <2>1, MergeRight
  <2>2. CASE a < Len(l) /\ (b = Len(r) \/ l[a + 1].f < r[b + 1].f)
    <3>1. rest[<<a, b>>] = <<l[a + 1]>> \o rest[<<a + 1, b>>]
      <4>1. a # Len(l)
        BY <2>2
      <4> QED
        BY <1>2, <2>2, <4>1, Zenon
    <3>2. a \in 0 .. Len(l) - 1
      BY <2>2
    <3>3. Merges(rest[<<a + 1, b>>], l, r, a + 1, b)
      BY <1>3, <2>2
    <3> QED
      BY <2>2, <3>1, <3>2, <3>3, MergeLeftFirst
  <2>3. CASE a < Len(l) /\ b < Len(r) /\ ~(l[a + 1].f < r[b + 1].f)
    <3>1. rest[<<a, b>>] = <<r[b + 1]>> \o rest[<<a, b + 1>>]
      <4>1. a # Len(l) /\ b # Len(r)
        BY <2>3
      <4> QED
        BY <1>2, <2>3, <4>1, Zenon
    <3>2. a \in 0 .. Len(l) - 1 /\ b \in 0 .. Len(r) - 1
      BY <2>3
    <3>3. Merges(rest[<<a, b + 1>>], l, r, a, b + 1)
      BY <1>3, <2>3
    <3> QED
      BY <2>3, <3>1, <3>2, <3>3, MergeRightFirst
  <2> QED
    BY <2>1, <2>2, <2>3
<1>4. 0 \in T
  <2>1. ASSUME NEW a \in 0 .. Len(l), NEW b \in 0 .. Len(r), Left(l, r, a, b) = 0
        PROVE  Merges(rest[<<a, b>>], l, r, a, b)
    <3>1. ~(a < Len(l)) /\ ~(b < Len(r))
      BY <2>1 DEF Left
    <3> HIDE DEF T
    <3> QED
      BY <1>3, <3>1
  <2> QED
    BY <2>1
<1>5. ASSUME NEW n \in Nat, n \in T PROVE n + 1 \in T
  <2>1. ASSUME NEW a \in 0 .. Len(l), NEW b \in 0 .. Len(r), Left(l, r, a, b) = n + 1
        PROVE  Merges(rest[<<a, b>>], l, r, a, b)
    <3>1. ASSUME a < Len(l) PROVE Merges(rest[<<a + 1, b>>], l, r, a + 1, b)
      <4>1. Left(l, r, a + 1, b) = n /\ a + 1 \in 0 .. Len(l)
        BY <2>1, <3>1 DEF Left
      <4> QED
        BY <1>5, <4>1
    <3>2. ASSUME b < Len(r) PROVE Merges(rest[<<a, b + 1>>], l, r, a, b + 1)
      <4>1. Left(l, r, a, b + 1) = n /\ b + 1 \in 0 .. Len(r)
        BY <2>1, <3>2 DEF Left
      <4> QED
        BY <1>5, <4>1
    <3> QED
      BY <1>3, <3>1, <3>2
  <2> QED
    BY <2>1
<1>6. Len(l) + Len(r) \in T
  <2>1. Nat \subseteq T
    <3> HIDE DEF T
    <3> QED
      BY <1>4, <1>5, Counting
  <2> QED
    BY <2>1
<1>7. Left(l, r, 0, 0) = Len(l) + Len(r) /\ 0 \in 0 .. Len(l) /\ 0 \in 0 .. Len(r)
  BY DEF Left
<1>8. Merges(rest[<<0, 0>>], l, r, 0, 0)
  BY <1>6, <1>7
<1> QED
  BY <1>1, <1>8
-----------------------------------------------------------------------------
(* Runs *)

Multiple(b, m) == \E q \in Nat : b = q * m

\* The first n triplets of s are in order within each run of m.
InRuns(s, n, m) ==
  \A b \in Nat : Multiple(b, m) =>
     \A i, j \in 1 .. n : b < i /\ i < j /\ j <= b + m => s[i].f <= s[j].f

\* The first n of s are among the first m of t.
Among(s, n, t, m) == \A k \in 1 .. n : \E i \in 1 .. m : t[i] = s[k]

LEMMA Multiples ==
  ASSUME NEW m \in Nat \ {0}, NEW b \in Nat
  PROVE  /\ Multiple(0, m)
         /\ Multiple(b, m) => Multiple(b + m, m)
         /\ Multiple(b, 2 * m) => Multiple(b, m) /\ Multiple(b + m, m)
<1>1. Multiple(0, m)
  <2>1. 0 = 0 * m
    OBVIOUS
  <2> QED
    BY <2>1 DEF Multiple
<1>2. ASSUME Multiple(b, m) PROVE Multiple(b + m, m)
  <2>1. PICK q \in Nat : b = q * m
    BY <1>2 DEF Multiple
  <2>2. b + m = (q + 1) * m /\ q + 1 \in Nat
    BY <2>1
  <2> QED
    BY <2>2 DEF Multiple
<1>3. ASSUME Multiple(b, 2 * m) PROVE Multiple(b, m)
  <2>1. PICK q \in Nat : b = q * (2 * m)
    BY <1>3 DEF Multiple
  <2>2. b = (2 * q) * m /\ 2 * q \in Nat
    BY <2>1
  <2> QED
    BY <2>2 DEF Multiple
<1>4. ASSUME Multiple(b, 2 * m) PROVE Multiple(b + m, m)
  <2>1. PICK q \in Nat : b = q * (2 * m)
    BY <1>4 DEF Multiple
  <2>2. b + m = (2 * q + 1) * m /\ 2 * q + 1 \in Nat
    BY <2>1
  <2> QED
    BY <2>2 DEF Multiple
<1> QED
  BY <1>1, <1>2, <1>3, <1>4

LEMMA MultiplesApart ==
  ASSUME NEW m \in Nat \ {0}, NEW a \in Nat, NEW b \in Nat,
         Multiple(a, m), Multiple(b, m), a < b
  PROVE  a + m <= b
<1>1. PICK p \in Nat : a = p * m
  BY DEF Multiple
<1>2. PICK q \in Nat : b = q * m
  BY DEF Multiple
<1>3. p < q
  <2> SUFFICES ASSUME q <= p PROVE FALSE
    OBVIOUS
  <2>1. PICK d \in Nat : p = q + d
    <3>1. p - q \in Nat /\ p = q + (p - q)
      OBVIOUS
    <3> QED
      BY <3>1
  <2>2. p * m = q * m + d * m /\ d * m \in Nat
    BY <2>1
  <2> QED
    BY <1>1, <1>2, <2>2
<1>4. PICK d \in Nat : q = p + 1 + d
  <2>1. q - p - 1 \in Nat /\ q = p + 1 + (q - p - 1)
    BY <1>3
  <2> QED
    BY <2>1
<1>5. q * m = p * m + m + d * m /\ d * m \in Nat /\ p * m \in Nat
  BY <1>4
<1> QED
  BY <1>1, <1>2, <1>5

\* A file in runs and one run more.
LEMMA RunAppended ==
  ASSUME NEW s \in Seq(Triplets), NEW t \in Seq(Triplets), NEW m \in Nat \ {0},
         NEW n \in Nat, n <= Len(s) + Len(t),
         InRuns(s, Len(s), m), Ordered(t), n <= Len(s) \/ Multiple(Len(s), m)
  PROVE  InRuns(s \o t, n, m)
<1> DEFINE u == s \o t
<1>1. /\ \A i \in 1 .. Len(s) : u[i] = s[i]
      /\ \A i \in 1 .. Len(t) : u[Len(s) + i] = t[i]
  OBVIOUS
<1> HIDE DEF u
<1>2. ASSUME NEW b \in Nat, Multiple(b, m), NEW i \in 1 .. n, NEW j \in 1 .. n,
             b < i, i < j, j <= b + m
      PROVE  u[i].f <= u[j].f
  <2>1. CASE j <= Len(s)
    <3>1. i \in 1 .. Len(s) /\ j \in 1 .. Len(s)
      BY <1>2, <2>1
    <3>2. s[i].f <= s[j].f
      BY <1>2, <3>1 DEF InRuns
    <3> QED
      BY <1>1, <3>1, <3>2
  <2>2. CASE i > Len(s)
    <3>1. i - Len(s) \in 1 .. Len(t) /\ j - Len(s) \in 1 .. Len(t)
      BY <1>2, <2>2
    <3>2. t[i - Len(s)].f <= t[j - Len(s)].f
      BY <1>2, <3>1 DEF Ordered
    <3>3. u[i] = t[i - Len(s)] /\ u[j] = t[j - Len(s)]
      <4>1. i = Len(s) + (i - Len(s)) /\ j = Len(s) + (j - Len(s))
        OBVIOUS
      <4>2. u[Len(s) + (i - Len(s))] = t[i - Len(s)] /\ u[Len(s) + (j - Len(s))] = t[j - Len(s)]
        BY <1>1, <3>1
      <4> QED
        BY <4>1, <4>2
    <3> QED
      BY <3>2, <3>3
  <2>3. CASE i <= Len(s) /\ Len(s) < j
    <3>1. Multiple(Len(s), m)
      BY <1>2, <2>3
    <3>2. b < Len(s) /\ Len(s) \in Nat
      BY <1>2, <2>3
    <3>3. b + m <= Len(s)
      BY <1>2, <3>1, <3>2, MultiplesApart
    <3> QED
      BY <1>2, <2>3, <3>3
  <2> QED
    BY <2>1, <2>2, <2>3
<1>3. InRuns(u, n, m)
  BY <1>2 DEF InRuns
<1> QED
  BY <1>3 DEF u

\* Of a file in runs one is in order.
LEMMA RunOrdered ==
  ASSUME NEW s \in Seq(Triplets), NEW n \in Nat, n <= Len(s), NEW m \in Nat \ {0},
         InRuns(s, n, m), NEW b \in Nat, Multiple(b, m), NEW e \in Nat, e <= n, e <= b + m
  PROVE  Ordered(SubSeq(s, b + 1, e))
<1> DEFINE t == SubSeq(s, b + 1, e)
<1>1. /\ \A i \in 1 .. Len(t) : b + i \in 1 .. e /\ t[i] = s[b + i]
  OBVIOUS
<1> HIDE DEF t
<1>2. ASSUME NEW i \in 1 .. Len(t), NEW j \in 1 .. Len(t), i < j
      PROVE  t[i].f <= t[j].f
  <2>1. /\ b + i \in 1 .. n /\ b + j \in 1 .. n
        /\ b < b + i /\ b + i < b + j /\ b + j <= b + m
    BY <1>1, <1>2
  <2>2. s[b + i].f <= s[b + j].f
    BY <2>1 DEF InRuns
  <2> QED
    BY <1>1, <2>2
<1>3. Ordered(t)
  BY <1>2 DEF Ordered
<1> QED
  BY <1>3 DEF t

\* sort: the same triplets, in order.
LEMMA SortedOrdered ==
  ASSUME NEW s \in Seq(Triplets), NEW t \in SortedByFeature(s)
  PROVE  /\ t \in Seq(Triplets) /\ Len(t) = Len(s)
         /\ Ordered(t)
         /\ \A k \in 1 .. Len(s) : \E i \in 1 .. Len(t) : t[i] = s[k]
         /\ \A i \in 1 .. Len(t) : \E k \in 1 .. Len(s) : t[i] = s[k]
<1> DEFINE D == 1 .. Len(s)
<1>1. PICK p \in SetToSeqs(DOMAIN s) :
         /\ \A i, j \in DOMAIN s : i < j => s[p[i]].f <= s[p[j]].f
         /\ t = [i \in DOMAIN s |-> s[p[i]]]
  BY DEF SortedByFeature
<1>2. DOMAIN s = D /\ Len(s) \in Nat
  OBVIOUS
<1>3. IsFiniteSet(D) /\ Cardinality(D) = Len(s)
  <2>1. Len(s) \in Nat /\ Len(s) \in Int /\ 1 \in Int
    BY <1>2
  <2>2. IsFiniteSet(D) /\ Cardinality(D) = IF 1 > Len(s) THEN 0 ELSE Len(s) - 1 + 1
    BY <2>1, FS_Interval
  <2> QED
    BY <2>1, <2>2
<1>4. p \in [D -> D] /\ \A i, j \in D : i # j => p[i] # p[j]
  BY <1>1, <1>2, <1>3 DEF SetToSeqs
<1>5. p \in Surjection(D, D)
  <2> HIDE DEF D
  <2>1. p \in Injection(D, D)
    BY <1>4 DEF Injection, IsInjective
  <2> QED
    BY <1>3, <2>1, FS_Injection
<1>6. \A k \in D : \E i \in D : p[i] = k
  BY <1>5 DEF Surjection
<1>7. t = [i \in D |-> s[p[i]]]
  BY <1>1, <1>2
<1>8. \A i \in D : p[i] \in D /\ s[p[i]] \in Triplets
  BY <1>4
<1>9. t \in Seq(Triplets) /\ Len(t) = Len(s)
  <2>1. t \in [1 .. Len(s) -> Triplets]
    BY <1>7, <1>8
  <2> QED
    BY <1>2, <2>1
<1>10. Ordered(t)
  BY <1>1, <1>2, <1>7, <1>9 DEF Ordered
<1> QED
  BY <1>6, <1>7, <1>8, <1>9, <1>10
-----------------------------------------------------------------------------
(* Lists *)

\* A run ends where the next triplet has another feature.
LEMMA RunEnds ==
  ASSUME NEW s \in Seq(Triplets), NEW i \in 0 .. Len(s) - 1
  PROVE  /\ RunEnd(s, i) \in i + 1 .. Len(s)
         /\ \A m \in i + 1 .. RunEnd(s, i) : s[m].f = s[i + 1].f
         /\ RunEnd(s, i) < Len(s) => s[RunEnd(s, i) + 1].f # s[i + 1].f
<1> DEFINE T == {k \in i + 1 .. Len(s) : \A m \in i + 1 .. k : s[m].f = s[i + 1].f}
           e == RunEnd(s, i)
<1>1. i \in Nat /\ Len(s) \in Nat
  OBVIOUS
<1>2. i + 1 \in T
  BY <1>1
<1>3. T \subseteq Nat /\ \A n \in T : n <= Len(s)
  BY <1>1
<1>4. e \in T /\ \A n \in T : n <= e
  <2>1. e = Max(T)
    BY DEF RunEnd
  <2> HIDE DEF T, e
  <2> QED
    BY <1>1, <1>2, <1>3, <2>1, Largest
<1>5. ASSUME e < Len(s), s[e + 1].f = s[i + 1].f PROVE FALSE
  <2>1. e + 1 \in i + 1 .. Len(s)
    BY <1>1, <1>4, <1>5
  <2>2. ASSUME NEW m \in i + 1 .. e + 1 PROVE s[m].f = s[i + 1].f
    <3>1. CASE m = e + 1
      BY <1>5, <3>1
    <3>2. CASE m # e + 1
      <4>1. m \in i + 1 .. e
        BY <1>1, <1>4, <3>2
      <4> QED
        BY <1>4, <4>1
    <3> QED
      BY <3>1, <3>2
  <2>3. e + 1 \in T
    BY <2>1, <2>2
  <2> QED
    BY <1>1, <1>4, <2>1, <2>3
<1> QED
  BY <1>4, <1>5

\* The postings of a run: one for each document, with a frequency it has there.
LEMMA ChunkOfRun ==
  ASSUME NEW run \in Seq(Triplets), Len(run) > 0
  PROVE  /\ IsFiniteSet(Chunk(run)) /\ Chunk(run) \subseteq Postings
         /\ \A k \in 1 .. Len(run) : \E p \in Chunk(run) : p.d = run[k].d
         /\ \A p \in Chunk(run) : \E k \in 1 .. Len(run) : p = Posting(run[k])
         /\ Cardinality(Chunk(run)) \in 1 .. Cardinality(Docs)
<1> DEFINE D == 1 .. Len(run)
           K == {k \in D : \A m \in 1 .. k - 1 : run[m].d # run[k].d}
           C == Chunk(run)
<1>1. C = {Posting(run[k]) : k \in K}
  BY DEF Chunk
<1>2. \A k \in D : run[k] \in Triplets /\ Posting(run[k]) \in Postings /\ Posting(run[k]).d = run[k].d
  <2>1. \A t \in Triplets : Posting(t) \in Postings /\ Posting(t).d = t.d
    BY DEF Triplets, Postings, Posting
  <2> QED
    BY <2>1
<1>3. C \subseteq Postings
  BY <1>1, <1>2
<1>4. ASSUME NEW k \in D PROVE \E p \in C : p.d = run[k].d
  <2> DEFINE T == {m \in D : run[m].d = run[k].d}
  <2>1. T \subseteq Nat /\ T # {}
    OBVIOUS
  <2>2. PICK m \in T : \A n \in T : m <= n
    <3> HIDE DEF T
    <3> QED
      BY <2>1, Smallest
  <2>3. ASSUME NEW n \in 1 .. m - 1, run[n].d = run[m].d PROVE FALSE
    <3>1. n \in D /\ run[n].d = run[k].d
      BY <2>2, <2>3
    <3>2. n \in T
      BY <3>1
    <3> QED
      BY <2>2, <3>2
  <2>4. m \in K
    BY <2>2, <2>3
  <2>5. Posting(run[m]) \in C
    BY <1>1, <2>4
  <2> QED
    BY <1>2, <2>2, <2>5
<1>5. \A p \in C : \E k \in D : p = Posting(run[k])
  BY <1>1
<1>6. IsFiniteSet(C)
  <2> DEFINE g == [k \in K |-> Posting(run[k])]
  <2>1. IsFiniteSet(D)
    <3>1. 1 \in Int /\ Len(run) \in Int
      OBVIOUS
    <3> QED
      BY <3>1, FS_Interval
  <2>2. IsFiniteSet(K)
    <3>1. K \in SUBSET D
      OBVIOUS
    <3> HIDE DEF K, D
    <3> QED
      BY <2>1, <3>1, FS_Subset
  <2>3. g \in [K -> C] /\ \A p \in C : \E k \in K : g[k] = p
    BY <1>1
  <2>4. g \in Surjection(K, C)
    <3> HIDE DEF g, K, C
    <3> QED
      BY <2>3 DEF Surjection
  <2> HIDE DEF g, K, C
  <2> QED
    BY <2>2, <2>4, FS_Surjection
<1>7. Cardinality(C) \in 1 .. Cardinality(Docs)
  <2> DEFINE h == [p \in C |-> p.d]
  <2>1. ASSUME NEW p \in C, NEW q \in C, p.d = q.d PROVE p = q
    <3>1. PICK i \in K : p = Posting(run[i])
      BY <1>1
    <3>2. PICK j \in K : q = Posting(run[j])
      BY <1>1
    <3>3. run[i].d = run[j].d
      BY <1>2, <2>1, <3>1, <3>2
    <3>4. i = j
      BY <3>3
    <3> QED
      BY <3>1, <3>2, <3>4
  <2>2. h \in [C -> Docs]
    BY <1>3 DEF Postings
  <2>3. h \in Injection(C, Docs)
    <3>1. \A p, q \in C : h[p] = h[q] => p = q
      BY <2>1
    <3> HIDE DEF h, C
    <3> QED
      BY <2>2, <3>1 DEF Injection, IsInjective
  <2>4. IsFiniteSet(Docs)
    BY IndexGenerationAssumption
  <2>5. Cardinality(C) <= Cardinality(Docs)
    <3> HIDE DEF h, C
    <3> QED
      BY <2>3, <2>4, FS_Injection
  <2>6. C # {}
    <3>1. 1 \in D
      OBVIOUS
    <3> QED
      BY <1>4, <3>1
  <2>7. Cardinality(C) \in Nat /\ Cardinality(C) # 0
    <3> HIDE DEF C
    <3> QED
      BY <1>6, <2>6, FS_CardinalityType, FS_EmptySet
  <2>8. Cardinality(Docs) \in Nat
    BY <2>4, FS_CardinalityType
  <2> QED
    BY <2>5, <2>7, <2>8
<1> QED
  BY <1>3, <1>4, <1>5, <1>6, <1>7

\* A list has a posting for each of its chunk and no other.
LEMMA ListOfChunk ==
  ASSUME NEW chunk, IsFiniteSet(chunk), chunk \subseteq Postings, NEW postings \in ByFrequency(chunk)
  PROVE  /\ postings \in Seq(Postings) /\ Len(postings) = Cardinality(chunk)
         /\ \A p \in chunk : \E n \in 1 .. Len(postings) : postings[n] = p
         /\ \A n \in 1 .. Len(postings) : postings[n] \in chunk
<1> DEFINE D == 1 .. Cardinality(chunk)
<1>1. postings \in [D -> chunk] /\ \A i, j \in D : i # j => postings[i] # postings[j]
  BY DEF ByFrequency, SetToSeqs
<1>2. Cardinality(chunk) \in Nat
  BY FS_CardinalityType
<1>3. IsFiniteSet(D) /\ Cardinality(D) = Cardinality(chunk)
  <2>1. Cardinality(chunk) \in Int /\ 1 \in Int
    BY <1>2
  <2>2. IsFiniteSet(D) /\ Cardinality(D) = IF 1 > Cardinality(chunk) THEN 0 ELSE Cardinality(chunk) - 1 + 1
    BY <2>1, FS_Interval
  <2> QED
    BY <1>2, <2>2
<1>4. postings \in Surjection(D, chunk)
  <2> HIDE DEF D
  <2>1. postings \in Injection(D, chunk)
    BY <1>1 DEF Injection, IsInjective
  <2> QED
    BY <1>3, <2>1, FS_Injection
<1>5. \A p \in chunk : \E n \in D : postings[n] = p
  BY <1>4 DEF Surjection
<1>6. postings \in Seq(Postings) /\ Len(postings) = Cardinality(chunk)
  <2>1. postings \in [1 .. Cardinality(chunk) -> Postings]
    BY <1>1
  <2> QED
    BY <1>2, <2>1
<1> QED
  BY <1>1, <1>5, <1>6
-----------------------------------------------------------------------------
(* Sums *)

\* What one posting of a chunk of n adds to the sums of its document.
Added(a, p, n) == AdjustedLogICF(Adjusted(a, p.w), p.w, n)

LEMMA AddedType ==
  ASSUME NEW a \in Sums, NEW p \in Postings, NEW n \in 1 .. Cardinality(Docs)
  PROVE  Added(a, p, n) \in Sums
<1>1. p.w \in Nat
  <2>1. \A x \in Frequencies \cup {0} : x \in Nat
    BY IndexGenerationAssumption
  <2> QED
    BY <2>1 DEF Postings
<1>2. a.max \in Nat /\ a.square \in Nat /\ a.logICF \in Nat
  BY DEF Sums
<1>3. LogICF[n] \in Nat
  BY IndexGenerationAssumption
<1>4. Max({a.max, p.w}) \in Nat
  <2> DEFINE T == {a.max, p.w}
  <2>1. T \subseteq Nat /\ T # {}
    BY <1>1, <1>2
  <2>2. \A x \in T : x <= a.max + p.w
    BY <1>1, <1>2
  <2>3. a.max + p.w \in Nat
    BY <1>1, <1>2
  <2>4. Max(T) \in Nat
    <3> HIDE DEF T
    <3> QED
      BY <2>1, <2>2, <2>3, Largest
  <2> QED
    BY <2>4
<1>5. a.square + p.w * p.w \in Nat
  <2>1. p.w * p.w \in Nat
    BY <1>1
  <2> QED
    BY <1>2, <2>1
<1>7. \A x, y \in Nat : [a EXCEPT !.max = x, !.square = y] \in Sums
  BY <1>2 DEF Sums
<1>8. \A b \in Sums, x \in Nat : [b EXCEPT !.logICF = x] \in Sums
  BY DEF Sums
<1>9. PICK b \in Sums : b = Adjusted(a, p.w)
  BY <1>4, <1>5, <1>7, Zenon DEF Adjusted
<1>10. b.logICF + (p.w * LogICF[n]) * (p.w * LogICF[n]) \in Nat
  <2>1. p.w * LogICF[n] \in Nat
    BY <1>1, <1>3
  <2>2. (p.w * LogICF[n]) * (p.w * LogICF[n]) \in Nat
    BY <2>1
  <2>3. b.logICF \in Nat
    BY DEF Sums
  <2> QED
    BY <2>2, <2>3
<1> QED
  BY <1>8, <1>9, <1>10, Zenon DEF Added, AdjustedLogICF

\* The recursion of FoldSet over the postings in S.
Folding(g, s, of, n) ==
  IF s = {} THEN of ELSE Added(g[s \ {CHOOSE x \in s : TRUE}], CHOOSE x \in s : TRUE, n)

IsFold(g, S, of, n) == g = [s \in SUBSET S |-> Folding(g, s, of, n)]

LEMMA FoldingExists ==
  ASSUME NEW S, IsFiniteSet(S), NEW of, NEW n
  PROVE  \E g : IsFold(g, S, of, n)
<1> DEFINE Good(g, m) ==
             /\ g = [s \in SUBSET S |-> g[s]]
             /\ \A s \in SUBSET S : Cardinality(s) <= m => g[s] = Folding(g, s, of, n)
           T == {m \in Nat : \E g : Good(g, m)}
<1>1. ASSUME NEW s \in SUBSET S
      PROVE  /\ IsFiniteSet(s) /\ Cardinality(s) \in Nat
             /\ Cardinality(s) <= Cardinality(S)
             /\ s # {} => /\ (CHOOSE x \in s : TRUE) \in s
                          /\ Cardinality(s \ {CHOOSE x \in s : TRUE}) = Cardinality(s) - 1
  <2>1. IsFiniteSet(s) /\ Cardinality(s) <= Cardinality(S)
    BY FS_Subset
  <2>2. Cardinality(s) \in Nat
    BY <2>1, FS_CardinalityType
  <2>3. ASSUME s # {}
        PROVE  /\ (CHOOSE x \in s : TRUE) \in s
               /\ Cardinality(s \ {CHOOSE x \in s : TRUE}) = Cardinality(s) - 1
    <3>1. PICK c : c = (CHOOSE x \in s : TRUE)
      OBVIOUS
    <3>2. c \in s
      BY <2>3, <3>1
    <3>3. Cardinality(s \ {c}) = Cardinality(s) - 1
      BY <2>1, <3>2, FS_RemoveElement
    <3> QED
      BY <3>1, <3>2, <3>3
  <2> QED
    BY <2>1, <2>2, <2>3
<1>2. ASSUME NEW g, NEW h, NEW s \in SUBSET S,
             \A t \in SUBSET S : Cardinality(t) < Cardinality(s) => g[t] = h[t]
      PROVE  Folding(g, s, of, n) = Folding(h, s, of, n)
  <2>1. CASE s = {}
    BY <2>1 DEF Folding
  <2>2. CASE s # {}
    <3>1. PICK t \in SUBSET S : t = s \ {CHOOSE x \in s : TRUE}
      OBVIOUS
    <3>2. Cardinality(t) < Cardinality(s)
      BY <1>1, <2>2, <3>1
    <3>3. g[t] = h[t]
      BY <1>2, <3>2
    <3> QED
      BY <2>2, <3>1, <3>3 DEF Folding
  <2> QED
    BY <2>1, <2>2
<1>3. 0 \in T
  <2> DEFINE z == [s \in SUBSET S |-> of]
  <2>1. ASSUME NEW s \in SUBSET S, Cardinality(s) <= 0 PROVE z[s] = Folding(z, s, of, n)
    <3>1. s = {}
      BY <1>1, <2>1, FS_EmptySet
    <3> QED
      BY <3>1 DEF Folding
  <2>2. Good(z, 0)
    BY <2>1
  <2>3. \E g : Good(g, 0)
    <3> HIDE DEF Good, z
    <3> QED
      BY <2>2
  <2> QED
    BY <2>3
<1>4. ASSUME NEW m \in Nat, m \in T PROVE m + 1 \in T
  <2>1. PICK g : Good(g, m)
    BY <1>4
  <2> DEFINE h == [s \in SUBSET S |-> IF Cardinality(s) = m + 1 THEN Folding(g, s, of, n) ELSE g[s]]
  <2>2. ASSUME NEW s \in SUBSET S, Cardinality(s) <= m + 1
        PROVE  h[s] = Folding(h, s, of, n)
    <3>1. Folding(g, s, of, n) = Folding(h, s, of, n)
      <4>1. ASSUME NEW t \in SUBSET S, Cardinality(t) < Cardinality(s) PROVE g[t] = h[t]
        <5>1. Cardinality(t) # m + 1
          <6>1. Cardinality(t) \in Nat /\ Cardinality(s) \in Nat
            BY <1>1
          <6> QED
            BY <2>2, <4>1, <6>1
        <5> QED
          BY <5>1
      <4> HIDE DEF h
      <4> QED
        BY <1>2, <4>1
    <3>2. h[s] = Folding(g, s, of, n)
      <4>1. CASE Cardinality(s) = m + 1
        BY <4>1
      <4>2. CASE Cardinality(s) # m + 1
        <5>1. Cardinality(s) <= m
          <6>1. Cardinality(s) \in Nat
            BY <1>1
          <6> QED
            BY <2>2, <4>2, <6>1
        <5> QED
          BY <2>1, <4>2, <5>1
      <4> QED
        BY <4>1, <4>2
    <3> QED
      BY <3>1, <3>2
  <2>3. Good(h, m + 1)
    <3>1. h = [s \in SUBSET S |-> h[s]]
      OBVIOUS
    <3> HIDE DEF h
    <3> QED
      BY <2>2, <3>1
  <2>4. \E f : Good(f, m + 1)
    <3> HIDE DEF Good, h
    <3> QED
      BY <2>3
  <2> HIDE DEF Good
  <2> QED
    BY <2>4
<1>5. Cardinality(S) \in T
  <2>1. Nat \subseteq T
    <3> HIDE DEF T
    <3> QED
      BY <1>3, <1>4, Counting
  <2>2. Cardinality(S) \in Nat
    BY FS_CardinalityType
  <2> QED
    BY <2>1, <2>2
<1>6. PICK g : Good(g, Cardinality(S))
  BY <1>5
<1>7. \A s \in SUBSET S : g[s] = Folding(g, s, of, n)
  BY <1>1, <1>6
<1>8. IsFold(g, S, of, n)
  BY <1>6, <1>7 DEF IsFold
<1> QED
  BY <1>8

LEMMA SumsStaySums ==
  ASSUME NEW chunk, IsFiniteSet(chunk), chunk \subseteq Postings,
         Cardinality(chunk) \in 1 .. Cardinality(Docs), NEW of \in Sums, NEW d
  PROVE  AfterChunk(of, d, chunk) \in Sums
<1> DEFINE S == {p \in chunk : p.d = d /\ p.w # 0}
           n == Cardinality(chunk)
<1>1. IsFiniteSet(S) /\ S \subseteq Postings
  <2>1. S \in SUBSET chunk
    OBVIOUS
  <2> HIDE DEF S
  <2> QED
    BY <2>1, FS_Subset
<1>2. PICK g : /\ g = [s \in SUBSET S |-> Folding(g, s, of, n)]
               /\ AfterChunk(of, d, chunk) = g[S]
  <2>1. AfterChunk(of, d, chunk) = (CHOOSE g : IsFold(g, S, of, n))[S]
    BY DEF AfterChunk, FoldSet, MapThenFoldSet, IsFold, Folding, Added
  <2>2. \E g : IsFold(g, S, of, n)
    <3> HIDE DEF S, n
    <3> QED
      BY <1>1, FoldingExists
  <2>3. PICK g : g = CHOOSE h : IsFold(h, S, of, n)
    OBVIOUS
  <2>4. IsFold(g, S, of, n)
    <3> HIDE DEF S, n
    <3> QED
      BY <2>2, <2>3
  <2>5. AfterChunk(of, d, chunk) = g[S]
    BY <2>1, <2>3
  <2> HIDE DEF S, n
  <2> QED
    BY <2>4, <2>5 DEF IsFold
<1>3. ASSUME g[S] \notin Sums PROVE FALSE
  <2> DEFINE F == {s \in SUBSET S : g[s] \notin Sums}
  <2>1. F \in SUBSET (SUBSET S) /\ F # {}
    BY <1>3
  <2>2. PICK t \in F : \A u \in F : u \subseteq t => u = t
    <3> HIDE DEF F, S
    <3> QED
      BY <1>1, <2>1, MinimalSet
  <2>3. t \in SUBSET S /\ g[t] \notin Sums
    OBVIOUS
  <2>4. g[t] = Folding(g, t, of, n)
    BY <1>2, <2>3
  <2>5. t # {}
    BY <2>3, <2>4 DEF Folding
  <2>6. PICK x \in t : x = (CHOOSE y \in t : TRUE)
    BY <2>5
  <2>7. g[t \ {x}] \in Sums
    <3>1. t \ {x} \in SUBSET S /\ t \ {x} \subseteq t /\ t \ {x} # t
      BY <2>3
    <3>2. t \ {x} \notin F
      BY <2>2, <3>1
    <3> QED
      BY <3>1, <3>2
  <2>8. g[t] = Added(g[t \ {x}], x, n)
    BY <2>4, <2>5, <2>6 DEF Folding
  <2>9. x \in Postings
    BY <1>1, <2>3
  <2>10. Added(g[t \ {x}], x, n) \in Sums
    <3> HIDE DEF n, F, S
    <3>1. n \in 1 .. Cardinality(Docs)
      BY DEF n
    <3> QED
      BY <2>7, <2>9, <3>1, AddedType
  <2> QED
    BY <2>3, <2>8, <2>10
<1> QED
  BY <1>2, <1>3
-----------------------------------------------------------------------------
(* The inductive invariant *)

\* How far the pass has been written.
Reached == IF pos < Count THEN pos ELSE Count

\* All triplets of s have been collected.
Collected(s) == Among(s, Len(s), collected, Count)

EntryOf(t) == [f |-> t.f, w |-> t.w]

\* Without a faulty file, the triplets collected are the entries of the files.
GatheredInv ==
  phase # "off" /\ ~error =>
    /\ \A k \in 1 .. Count : EntryOf(collected[k]) \in Entries(collected[k].d)
    /\ \A d \in Docs : phase # "collect" \/ d < next =>
         \A e \in Entries(d) : \E k \in 1 .. Count : collected[k].d = d /\ collected[k].f = e.f

CollectInv ==
  /\ phase = "collect" => aux[1] = collected
  /\ phase \in {"collect", "presort", "merge"} => inverted = <<>> /\ offset = <<>>

\* The pages that have been sorted are runs, and no triplet is lost.
PresortInv ==
  phase = "presort" =>
    /\ Count > 0 /\ aux[1] = collected /\ src = 2 /\ mergeSize = PageSize
    /\ pos <= Count /\ Multiple(pos, Wanted) /\ Len(aux[2]) = pos
    /\ Len(page) = IF pos = 0 THEN 0 ELSE Wanted
    /\ InRuns(aux[2], pos, PageSize)
    /\ Among(collected, pos, aux[2], pos)
    /\ Collected(page) /\ Collected(aux[2])

\* The file read is in runs of mergeSize, what is written in runs of twice that.
MergeInv ==
  phase = "merge" =>
    /\ Count <= Len(aux[src])
    /\ InRuns(aux[src], Count, mergeSize)
    /\ Count > 0 => Collected(aux[src])
    /\ Fits => Among(collected, Count, aux[src], Count)
    /\ src = 1 /\ Count > 0 => Len(aux[1]) = Count
    /\ Multiple(pos, 2 * mergeSize)
    /\ ~PassNeeded => pos = 0
    /\ pos > 0 => /\ Len(aux[3 - src]) = Reached
                  /\ InRuns(aux[3 - src], Reached, 2 * mergeSize)
                  /\ Among(aux[src], Reached, aux[3 - src], Reached)
                  /\ Collected(aux[3 - src])

\* Document d is in a list of feature f.
Listed(f, d) ==
  \E i \in 1 .. Len(inverted) : \E n \in 1 .. Len(inverted[i].postings) :
     inverted[i].f = f /\ inverted[i].postings[n].d = d

Fresh == gen > 0 /\ \A d \in Docs : adi[d].gen = gen

\* The phases in which the index is complete on the disk.
Whole == phase \in {"adi", "done"} \/ (phase = "off" /\ Fresh)

\* One list for a feature, and the offset file says where it is.
ListsInv ==
  phase = "lists" \/ Whole =>
    /\ Len(offset) = Len(inverted)
    /\ \A i \in 1 .. Len(inverted) :
         /\ offset[i] = [f |-> inverted[i].f, at |-> i]
         /\ Len(inverted[i].postings) = inverted[i].size
    /\ \A i, j \in 1 .. Len(inverted) : inverted[i].f = inverted[j].f => i = j
    /\ Count > 0 =>
         \A i \in 1 .. Len(inverted) : \A n \in 1 .. Len(inverted[i].postings) :
           \E k \in 1 .. Count : /\ collected[k].f = inverted[i].f
                                 /\ Posting(collected[k]) = inverted[i].postings[n]

\* The triplets up to pos are in the lists, and those that follow have other features.
ListingInv ==
  phase = "lists" =>
    /\ pos <= Len(Sorted)
    /\ Ordered(Sorted)
    /\ Count > 0 => Collected(Sorted)
    /\ Fits => Among(collected, Count, Sorted, Len(Sorted))
    /\ \A k \in 1 .. pos : Listed(Sorted[k].f, Sorted[k].d)
    /\ \A i \in 1 .. Len(inverted), k \in pos + 1 .. Len(Sorted) : inverted[i].f < Sorted[k].f

WholeInv == Whole /\ Fits => \A k \in 1 .. Count : Listed(collected[k].f, collected[k].d)

\* Only the generation that wrote the lists writes the ADI, in the order of the documents.
AdiInv ==
  /\ \A d \in Docs : adi[d].gen <= gen
  /\ phase \notin {"off", "adi", "done"} => \A d \in Docs : adi[d].gen < gen
  /\ phase = "adi" => \A d \in Docs : next <= d => adi[d].gen < gen
  /\ phase # "off" => gen > 0

IInv ==
  /\ TypeOK
  /\ GatheredInv
  /\ CollectInv
  /\ PresortInv
  /\ MergeInv
  /\ ListsInv
  /\ ListingInv
  /\ WholeInv
  /\ AdiInv

-----------------------------------------------------------------------------
(* Facts about the constants and the state *)

LEMMA ConstantFacts ==
  /\ Cardinality(Docs) \in Nat \ {0} /\ Docs = 0 .. Cardinality(Docs) - 1
  /\ 0 \in Docs /\ \A d \in Docs : d \in Nat
  /\ PageSize \in Nat \ {0} /\ MaxGenerations \in Nat
<1>1. IsFiniteSet(Docs) /\ Docs = 0 .. Cardinality(Docs) - 1 /\ Docs # {}
  BY IndexGenerationAssumption
<1>2. Cardinality(Docs) \in Nat
  BY <1>1, FS_CardinalityType
<1> QED
  BY <1>1, <1>2, IndexGenerationAssumption

LEMMA StateFacts ==
  ASSUME TypeOK
  PROVE  /\ aux[1] \in Seq(Triplets) /\ aux[2] \in Seq(Triplets)
         /\ aux[src] \in Seq(Triplets) /\ aux[3 - src] \in Seq(Triplets)
         /\ src \in {1, 2} /\ (3 - src) \in {1, 2} /\ 3 - src # src
         /\ Count \in Nat /\ pos \in Nat /\ mergeSize \in Nat \ {0}
         /\ 2 * mergeSize \in Nat \ {0}
         /\ Sorted \in Seq(Triplets)
         /\ Count > 0 => Wanted \in 1 .. Count /\ Wanted <= PageSize
<1>1. aux[1] \in Seq(Triplets) /\ aux[2] \in Seq(Triplets) /\ src \in {1, 2}
  BY DEF TypeOK
<1>2. (3 - src) \in {1, 2} /\ 3 - src # src
  BY <1>1
<1>3. aux[src] \in Seq(Triplets) /\ aux[3 - src] \in Seq(Triplets)
  BY <1>1, <1>2
<1>4. collected \in Seq(Triplets) /\ Count \in Nat
  BY DEF TypeOK, Count
<1>5. [f |-> 0, d |-> 0, w |-> 0] \in Triplets
  BY ConstantFacts DEF Triplets
<1>6. Sorted \in Seq(Triplets)
  BY <1>3, <1>5 DEF Sorted
<1> QED
  BY <1>1, <1>2, <1>3, <1>4, <1>6, ConstantFacts DEF TypeOK, Wanted

\* If the pages are whole, a page ends where the triplets do.
LEMMA FitsMultiple ==
  ASSUME TypeOK, Fits, Count > 0
  PROVE  Multiple(Count, Wanted)
<1>1. Count \in Nat /\ PageSize \in Nat \ {0}
  BY StateFacts, ConstantFacts
<1>2. CASE Count <= PageSize
  <2>1. Wanted = Count
    BY <1>1, <1>2 DEF Wanted
  <2>2. Count = 1 * Count
    BY <1>1
  <2> QED
    BY <2>1, <2>2 DEF Multiple
<1>3. CASE Count > PageSize
  <2>1. Wanted = PageSize
    BY <1>1, <1>3 DEF Wanted
  <2>2. Count % PageSize = 0
    BY <1>1, <1>3 DEF Fits
  <2>3. Count = (Count \div PageSize) * PageSize /\ Count \div PageSize \in Nat
    BY <1>1, <2>2
  <2> QED
    BY <2>1, <2>3 DEF Multiple
<1> QED
  BY <1>1, <1>2, <1>3

LEMMA AmongTransitive ==
  ASSUME NEW s, NEW t, NEW u, NEW m \in Nat, NEW n \in Nat, NEW k \in Nat,
         Among(s, m, t, n), Among(t, n, u, k)
  PROVE  Among(s, m, u, k)
BY DEF Among
-----------------------------------------------------------------------------
(* The steps *)

LEMMA InitHolds == Init => IInv
<1> SUFFICES ASSUME Init PROVE IInv
  OBVIOUS
<1> USE DEF Init
<1>1. TypeOK
  <2>1. NoSums \in Sums
    BY DEF NoSums, Sums
  <2>2. adi \in [Docs -> ADIFiles]
    <3>1. [gen |-> 0, sums |-> NoSums] \in ADIFiles
      BY <2>1, ConstantFacts DEF ADIFiles
    <3> QED
      BY <3>1
  <2>3. aux \in [1 .. 2 -> Seq(Triplets)] /\ inverted \in Seq(Lists) /\ offset \in Seq(Offsets)
    OBVIOUS
  <2>4. sums \in [Docs -> Sums]
    BY <2>1
  <2>5. gen \in 0 .. MaxGenerations /\ next \in Docs \cup {Cardinality(Docs)}
    BY ConstantFacts
  <2>6. files \in Collections /\ phase \in Phases /\ error \in BOOLEAN
    BY DEF Phases
  <2>7. page \in Seq(Triplets) /\ Len(page) <= PageSize /\ collected \in Seq(Triplets)
    BY ConstantFacts
  <2>8. pos \in Nat /\ src \in 1 .. 2 /\ mergeSize \in Nat \ {0}
    BY ConstantFacts
  <2> HIDE DEF Init
  <2> QED
    BY <2>2, <2>3, <2>4, <2>5, <2>6, <2>7, <2>8 DEF TypeOK
<1>2. ~Whole
  BY DEF Whole, Fresh
<1> QED
  BY <1>1, <1>2 DEF IInv, GatheredInv, CollectInv, PresortInv, MergeInv, ListsInv, ListingInv,
                    WholeInv, AdiInv

LEMMA OpenStep ==
  ASSUME IInv, Open
  PROVE  IInv'
<1> USE DEF Open
<1>1. Count' = 0 /\ phase' = "collect" /\ next' = 0
  BY DEF Count
<1>2. TypeOK'
  <2> USE DEF IInv, TypeOK
  <2>1. NoSums \in Sums
    BY DEF NoSums, Sums
  <2>2. sums' \in [Docs -> Sums]
    BY <2>1
  <2>3. aux' \in [1 .. 2 -> Seq(Triplets)]
    OBVIOUS
  <2>4. gen' \in 0 .. MaxGenerations
    BY ConstantFacts
  <2>5. inverted' \in Seq(Lists) /\ offset' \in Seq(Offsets) /\ collected' \in Seq(Triplets)
    OBVIOUS
  <2>6. next' \in Docs \cup {Cardinality(Docs)} /\ phase' \in Phases
    BY ConstantFacts DEF Phases
  <2> QED
    BY <2>2, <2>3, <2>4, <2>5, <2>6 DEF sortVars
<1>3. AdiInv'
  <2>1. gen \in Nat /\ gen' = gen + 1 /\ adi' = adi
    BY ConstantFacts DEF IInv, TypeOK
  <2>2. \A d \in Docs : adi[d].gen \in Nat /\ adi[d].gen <= gen
    BY ConstantFacts DEF IInv, TypeOK, AdiInv, ADIFiles
  <2> QED
    BY <2>1, <2>2 DEF AdiInv
<1>4. GatheredInv'
  BY <1>1, ConstantFacts DEF GatheredInv
<1>5. CollectInv'
  <2>1. aux'[1] = <<>>
    BY DEF IInv, TypeOK
  <2> QED
    BY <2>1 DEF CollectInv
<1>6. ~Whole'
  BY DEF Whole
<1> QED
  BY <1>1, <1>2, <1>3, <1>4, <1>5, <1>6 DEF IInv, PresortInv, MergeInv, ListsInv, ListingInv, WholeInv

\* What the loop over the entries of a file writes has the type of triplets, and
\* without a fault it is the entries, each with the document.
IsExtraction(new, d) ==
  /\ new \in Seq(Triplets)
  /\ files[d].there /\ ~(files[d].count > Len(files[d].body)) =>
       /\ \A k \in 1 .. Len(new) : new[k].d = d /\ EntryOf(new[k]) \in Entries(d)
       /\ \A e \in Entries(d) : \E k \in 1 .. Len(new) : new[k].d = d /\ new[k].f = e.f

LEMMA ExtractedTriplets ==
  ASSUME files \in Collections
  PROVE  \A d \in Docs : \A new \in Extracted(d) : IsExtraction(new, d)
<1> SUFFICES ASSUME NEW d \in Docs, NEW new \in Extracted(d)
             PROVE  /\ new \in Seq(Triplets)
                    /\ files[d].there /\ ~(files[d].count > Len(files[d].body)) =>
                         /\ \A k \in 1 .. Len(new) : new[k].d = d /\ EntryOf(new[k]) \in Entries(d)
                         /\ \A e \in Entries(d) :
                              \E k \in 1 .. Len(new) : new[k].d = d /\ new[k].f = e.f
  BY DEF IsExtraction
<1> DEFINE E == [f : Features, w : Frequencies]
           body == files[d].body
           whole(n) == [i \in 1 .. n |-> [f |-> body[i].f, d |-> d, w |-> body[i].w]]
<1>1. files[d].there \in BOOLEAN /\ files[d].count \in Nat /\ body \in Seq(E)
  BY IndexGenerationAssumption DEF FeatureFiles
<1>2. ASSUME NEW n \in Nat, n <= Len(body)
      PROVE  /\ whole(n) \in Seq(Triplets) /\ Len(whole(n)) = n
             /\ \A k \in 1 .. n : whole(n)[k] = [f |-> body[k].f, d |-> d, w |-> body[k].w]
             /\ \A k \in 1 .. n : body[k] \in E
  <2>1. \A k \in 1 .. n : body[k] \in E
    <3> HIDE DEF body, E
    <3> QED
      BY <1>1, <1>2
  <2>2. \A e \in E : [f |-> e.f, d |-> d, w |-> e.w] \in Triplets
    BY DEF Triplets
  <2>3. whole(n) \in [1 .. n -> Triplets]
    BY <2>1, <2>2
  <2> QED
    BY <1>2, <2>1, <2>3
<1>3. CASE ~files[d].there
  <2>1. new = <<>>
    BY <1>3 DEF Extracted
  <2> QED
    BY <1>3, <2>1
<1>4. CASE files[d].there /\ files[d].count <= Len(body)
  <2> DEFINE n == files[d].count
  <2>1. new = whole(n)
    BY <1>4 DEF Extracted
  <2>2. /\ new \in Seq(Triplets) /\ Len(new) = n
        /\ \A k \in 1 .. n : new[k] = [f |-> body[k].f, d |-> d, w |-> body[k].w] /\ body[k] \in E
    <3> HIDE DEF whole, body
    <3> QED
      BY <1>1, <1>2, <1>4, <2>1
  <2>3. Entries(d) = {body[k] : k \in 1 .. n}
    <3>1. /\ FeatureList(d) = SubSeq(body, 1, n)
          /\ FeatureList(d) \in Seq(E) /\ Len(FeatureList(d)) = n
          /\ \A k \in 1 .. n : FeatureList(d)[k] = body[k]
      <4>1. FeatureList(d) = SubSeq(body, 1, n)
        BY DEF FeatureList
      <4> HIDE DEF body, E
      <4> QED
        BY <1>1, <1>4, <4>1
    <3>2. DOMAIN FeatureList(d) = 1 .. n
      BY <3>1
    <3> QED
      BY <3>1, <3>2 DEF Entries, ToSet
  <2>4. ASSUME NEW k \in 1 .. n PROVE new[k].d = d /\ EntryOf(new[k]) \in Entries(d)
    <3>1. EntryOf(new[k]) = body[k]
      <4>1. \A e \in E : [f |-> e.f, w |-> e.w] = e
        OBVIOUS
      <4> HIDE DEF body, E, n
      <4>2. new[k].f = body[k].f /\ new[k].w = body[k].w /\ body[k] \in E
        BY <2>2
      <4> QED
        BY <4>1, <4>2 DEF EntryOf
    <3> HIDE DEF body, n
    <3> QED
      BY <2>2, <2>3, <3>1
  <2>5. ASSUME NEW e \in Entries(d) PROVE \E k \in 1 .. n : new[k].d = d /\ new[k].f = e.f
    <3>1. PICK k \in 1 .. n : e = body[k]
      BY <2>3
    <3> HIDE DEF body, n
    <3> QED
      BY <2>2, <3>1
  <2> QED
    BY <2>2, <2>4, <2>5
<1>5. CASE files[d].there /\ files[d].count > Len(body)
  <2>1. PICK f \in Features, w \in Frequencies :
           new = Append(whole(Len(body)), [f |-> f, d |-> d, w |-> w])
    <3>1. ~(files[d].count <= Len(body))
      BY <1>1, <1>5
    <3>2. Extracted(d) = {Append(whole(Len(body)), [f |-> f, d |-> d, w |-> w]) :
                            f \in Features, w \in Frequencies}
      BY <1>5, <3>1 DEF Extracted
    <3>3. PICK b : b = whole(Len(body))
      OBVIOUS
    <3>4. Extracted(d) = {Append(b, [f |-> f, d |-> d, w |-> w]) : f \in Features, w \in Frequencies}
      BY <3>2, <3>3
    <3>5. \E f \in Features, w \in Frequencies : new = Append(b, [f |-> f, d |-> d, w |-> w])
      BY <3>4
    <3> QED
      BY <3>3, <3>5
  <2>2. Len(body) \in Nat
    BY <1>1
  <2>3. [f |-> f, d |-> d, w |-> w] \in Triplets
    BY DEF Triplets
  <2>4. whole(Len(body)) \in Seq(Triplets)
    BY <1>2, <2>2
  <2>5. new \in Seq(Triplets)
    <3> HIDE DEF whole
    <3> QED
      BY <2>1, <2>3, <2>4
  <2> QED
    BY <1>5, <2>5
<1> QED
  BY <1>1, <1>3, <1>4, <1>5

LEMMA CollectStep ==
  ASSUME IInv, Collect
  PROVE  IInv'
<1>1. PICK new \in Extracted(next) : /\ aux' = [aux EXCEPT ![1] = @ \o new]
                                     /\ collected' = collected \o new
  BY DEF Collect
<1>0. /\ phase = "collect" /\ phase' = "collect" /\ next \in Docs /\ next' = next + 1
      /\ error' = (error \/ ~files[next].there \/ files[next].count > Len(files[next].body))
      /\ UNCHANGED <<files, gen, page, pos, src, mergeSize, sums, inverted, offset, adi>>
  BY DEF Collect, sortVars, indexVars
<1>2. files \in Collections /\ next \in Docs /\ collected \in Seq(Triplets)
      /\ aux \in [1 .. 2 -> Seq(Triplets)]
  BY <1>0 DEF IInv, TypeOK
<1>3. /\ new \in Seq(Triplets)
      /\ files[next].there /\ ~(files[next].count > Len(files[next].body)) =>
           /\ \A k \in 1 .. Len(new) : new[k].d = next /\ EntryOf(new[k]) \in Entries(next)
           /\ \A e \in Entries(next) : \E k \in 1 .. Len(new) : new[k].d = next /\ new[k].f = e.f
  <2>1. IsExtraction(new, next)
    BY <1>2, ExtractedTriplets
  <2> QED
    BY <2>1 DEF IsExtraction
<1>4. TypeOK'
  <2>1. aux' \in [1 .. 2 -> Seq(Triplets)]
    <3>1. aux[1] \o new \in Seq(Triplets)
      BY <1>2, <1>3
    <3> QED
      BY <1>1, <1>2, <3>1
  <2>2. collected' \in Seq(Triplets)
    BY <1>1, <1>2, <1>3
  <2>3. next' \in Docs \cup {Cardinality(Docs)}
    BY <1>0, ConstantFacts
  <2>4. error' \in BOOLEAN
    BY <1>0
  <2> QED
    BY <1>0, <2>1, <2>2, <2>3, <2>4 DEF IInv, TypeOK
<1>5. CollectInv'
  <2>1. aux[1] = collected /\ inverted = <<>> /\ offset = <<>>
    BY <1>0 DEF IInv, CollectInv
  <2>2. aux'[1] = aux[1] \o new
    BY <1>1, <1>2
  <2> QED
    BY <1>0, <1>1, <2>1, <2>2 DEF CollectInv
<1>6. GatheredInv'
  <2> SUFFICES ASSUME ~error' PROVE GatheredInv'
    BY DEF GatheredInv
  <2>1. ~error /\ files[next].there /\ ~(files[next].count > Len(files[next].body))
    BY <1>0
  <2>2. \A d \in Docs : Entries(d)' = Entries(d)
    BY <1>0 DEF Entries, FeatureList
  <2>3. /\ Count' = Count + Len(new) /\ Count \in Nat /\ Len(new) \in Nat
        /\ \A k \in 1 .. Count : collected'[k] = collected[k] /\ k \in 1 .. Count'
        /\ \A k \in 1 .. Len(new) : collected'[Count + k] = new[k] /\ Count + k \in 1 .. Count'
        /\ \A k \in 1 .. Count' : k \in 1 .. Count \/ k - Count \in 1 .. Len(new)
    BY <1>1, <1>2, <1>3 DEF Count
  <2>4. /\ \A k \in 1 .. Count : EntryOf(collected[k]) \in Entries(collected[k].d)
        /\ \A d \in Docs : d < next =>
             \A e \in Entries(d) : \E k \in 1 .. Count : collected[k].d = d /\ collected[k].f = e.f
    BY <1>0, <2>1 DEF IInv, GatheredInv
  <2>5. ASSUME NEW k \in 1 .. Count' PROVE EntryOf(collected'[k]) \in Entries(collected'[k].d)
    <3>1. CASE k \in 1 .. Count
      BY <2>3, <2>4, <3>1
    <3>2. CASE k - Count \in 1 .. Len(new)
      <4>1. PICK m \in 1 .. Len(new) : k = Count + m
        <5>1. k = Count + (k - Count)
          BY <2>3
        <5> QED
          BY <3>2, <5>1
      <4>2. collected'[k] = new[m]
        BY <2>3, <4>1
      <4> QED
        BY <1>3, <2>1, <4>2
    <3> QED
      BY <2>3, <3>1, <3>2
  <2>6. ASSUME NEW d \in Docs, d < next', NEW e \in Entries(d)
        PROVE  \E k \in 1 .. Count' : collected'[k].d = d /\ collected'[k].f = e.f
    <3>1. CASE d = next
      <4>1. PICK m \in 1 .. Len(new) : new[m].d = next /\ new[m].f = e.f
        BY <1>3, <2>1, <2>6, <3>1
      <4> QED
        BY <2>3, <3>1, <4>1
    <3>2. CASE d # next
      <4>1. d < next
        BY <1>0, <1>2, <2>6, <3>2, ConstantFacts
      <4>2. PICK m \in 1 .. Count : collected[m].d = d /\ collected[m].f = e.f
        BY <2>4, <2>6, <4>1
      <4> QED
        BY <2>3, <4>2
    <3> QED
      BY <3>1, <3>2
  <2>7. \A k \in 1 .. Count' : EntryOf(collected[k])' \in (Entries(collected[k].d))'
    <3>1. \A t \in Triplets : t.d \in Docs
      BY DEF Triplets
    <3>2. \A k \in 1 .. Count' : collected'[k].d \in Docs
      BY <1>4, <3>1 DEF TypeOK, Count
    <3>3. \A k \in 1 .. Count' : Entries(collected[k].d)' = Entries(collected'[k].d)
      BY <1>0 DEF Entries, FeatureList
    <3>4. \A k \in 1 .. Count' : EntryOf(collected[k])' = EntryOf(collected'[k])
      BY DEF EntryOf
    <3> QED
      BY <2>5, <3>3, <3>4
  <2>8. ASSUME NEW d \in Docs, d < next', NEW e \in Entries(d)'
        PROVE  \E k \in 1 .. Count' : collected'[k].d = d /\ collected'[k].f = e.f
    BY <2>2, <2>6, <2>8
  <2> QED
    BY <1>0, <2>7, <2>8 DEF GatheredInv
<1>7. AdiInv'
  BY <1>0 DEF IInv, AdiInv
<1>8. ~Whole' /\ phase' = "collect"
  BY <1>0 DEF Whole
<1> QED
  BY <1>4, <1>5, <1>6, <1>7, <1>8 DEF IInv, PresortInv, MergeInv, ListsInv, ListingInv, WholeInv

LEMMA StartSortStep ==
  ASSUME IInv, StartSort
  PROVE  IInv'
<1> USE DEF StartSort
<1>1. /\ phase' = IF Count = 0 THEN "merge" ELSE "presort"
      /\ page' = <<>> /\ pos' = 0 /\ src' = 2 /\ mergeSize' = PageSize
      /\ aux' = [aux EXCEPT ![2] = <<>>] /\ collected' = collected
  OBVIOUS
<1>2. Count' = Count /\ Count \in Nat /\ Wanted' = Wanted
  BY StateFacts DEF IInv, Count, Wanted
<1>3. aux'[2] = <<>> /\ aux'[1] = collected
  BY <1>1 DEF IInv, TypeOK, CollectInv
<1>4. TypeOK'
  <2>1. aux' \in [1 .. 2 -> Seq(Triplets)]
    BY <1>1 DEF IInv, TypeOK
  <2>2. page' \in Seq(Triplets) /\ Len(page') <= PageSize
    BY <1>1, ConstantFacts
  <2> QED
    BY <1>1, <2>1, <2>2, ConstantFacts DEF IInv, TypeOK, indexVars, Phases
<1>5. GatheredInv'
  <2>1. \A d \in Docs : Entries(d)' = Entries(d)
    BY DEF Entries, FeatureList
  <2>2. \A d \in Docs : d < next
    BY ConstantFacts DEF IInv, TypeOK
  <2>3. phase = "collect" /\ error' = error
    OBVIOUS
  <2>4. \A k \in 1 .. Count : collected[k].d \in Docs
    <3>1. \A t \in Triplets : t.d \in Docs
      BY DEF Triplets
    <3> QED
      BY <3>1 DEF IInv, TypeOK, Count
  <2> QED
    BY <1>1, <1>2, <2>1, <2>2, <2>3, <2>4 DEF IInv, GatheredInv
<1>6. CollectInv'
  BY <1>1 DEF IInv, CollectInv, indexVars
<1>7. InRuns(<<>>, 0, PageSize) /\ Among(collected, 0, <<>>, 0) /\ Among(<<>>, 0, collected, Count)
  BY DEF InRuns, Among
<1>8. Multiple(0, Wanted) /\ Multiple(0, 2 * PageSize)
  <2>1. 0 = 0 * (2 * PageSize)
    BY ConstantFacts
  <2>2. 0 = 0 * Wanted
    BY <1>2, ConstantFacts DEF Wanted
  <2> QED
    BY <2>1, <2>2 DEF Multiple
<1>9. PresortInv'
  BY <1>1, <1>2, <1>3, <1>7, <1>8 DEF PresortInv, Collected
<1>10. MergeInv'
  <2> SUFFICES ASSUME Count = 0 PROVE MergeInv'
    BY <1>1 DEF MergeInv
  <2>1. Among(collected, 0, <<>>, 0)
    BY DEF Among
  <2> QED
    BY <1>1, <1>2, <1>3, <1>7, <1>8, <2>1 DEF MergeInv
<1>11. ~Whole' /\ phase' # "lists" /\ phase' # "adi" /\ phase' # "off"
  BY <1>1 DEF Whole
<1>12. AdiInv'
  <2>1. \A d \in Docs : adi[d].gen < gen
    BY DEF IInv, AdiInv
  <2> QED
    BY <1>11, <2>1 DEF IInv, AdiInv, indexVars
<1> QED
  BY <1>4, <1>5, <1>6, <1>9, <1>10, <1>11, <1>12 DEF IInv, ListsInv, ListingInv, WholeInv

LEMMA EndPassStep ==
  ASSUME IInv, EndPass
  PROVE  IInv'
<1>1. /\ phase = "merge" /\ phase' = "merge" /\ PassNeeded /\ Count <= pos
      /\ src' = 3 - src /\ mergeSize' = 2 * mergeSize /\ pos' = 0
      /\ UNCHANGED <<files, gen, next, error, aux, page, sums, inverted, offset, adi, collected>>
  BY StateFacts DEF EndPass, indexVars, IInv
<1>2. /\ aux[src] \in Seq(Triplets) /\ aux[3 - src] \in Seq(Triplets)
      /\ src \in {1, 2} /\ (3 - src) \in {1, 2} /\ Count \in Nat /\ pos \in Nat
      /\ mergeSize \in Nat \ {0} /\ 2 * mergeSize \in Nat \ {0}
  BY StateFacts DEF IInv
<1>3. Count' = Count /\ (Fits' <=> Fits)
  BY <1>1 DEF Count, Fits
<1>4. TypeOK'
  <2>1. src' \in 1 .. 2 /\ mergeSize' \in Nat \ {0} /\ pos' \in Nat
    BY <1>1, <1>2
  <2> QED
    BY <1>1, <2>1 DEF IInv, TypeOK
<1>5. GatheredInv'
  <2>1. \A d : Entries(d)' = Entries(d)
    BY <1>1 DEF Entries, FeatureList
  <2> QED
    BY <1>1, <1>3, <2>1 DEF IInv, GatheredInv, EntryOf, Entries, FeatureList
<1>6. CollectInv'
  BY <1>1 DEF IInv, CollectInv
<1>7. MergeInv'
  <2>1. Multiple(0, 2 * (2 * mergeSize))
    <3>1. 2 * (2 * mergeSize) \in Nat \ {0} /\ 0 \in Nat
      BY <1>2
    <3> QED
      BY <3>1, Multiples
  <2>2. CASE Count = 0
    <3>1. /\ Count <= Len(aux[3 - src]) /\ InRuns(aux[3 - src], Count, 2 * mergeSize)
          /\ Among(collected, Count, aux[3 - src], Count)
      BY <1>2, <2>2 DEF InRuns, Among
    <3> QED
      BY <1>1, <1>3, <2>1, <2>2, <3>1 DEF MergeInv, Collected
  <2>3. CASE Count > 0
    <3>1. pos > 0 /\ Reached = Count
      BY <1>1, <1>2, <2>3 DEF Reached
    <3>2. /\ Len(aux[3 - src]) = Count
          /\ InRuns(aux[3 - src], Count, 2 * mergeSize)
          /\ Among(aux[src], Count, aux[3 - src], Count)
          /\ Among(aux[3 - src], Len(aux[3 - src]), collected, Count)
          /\ Fits => Among(collected, Count, aux[src], Count)
      BY <1>1, <3>1 DEF IInv, MergeInv, Collected
    <3>3. Fits => Among(collected, Count, aux[3 - src], Count)
      BY <1>2, <3>2, AmongTransitive
    <3>4. aux'[src'] = aux[3 - src]
      BY <1>1
    <3>5. Collected(aux[src])' /\ (src' = 1 => Len(aux'[1]) = Count)
      BY <1>1, <1>3, <3>2, <3>4 DEF Collected
    <3> QED
      BY <1>1, <1>2, <1>3, <2>1, <3>2, <3>3, <3>4, <3>5 DEF MergeInv
  <2> QED
    BY <1>2, <2>2, <2>3
<1>8. AdiInv'
  BY <1>1 DEF IInv, AdiInv
<1>9. ~Whole'
  BY <1>1 DEF Whole
<1> QED
  BY <1>1, <1>4, <1>5, <1>6, <1>7, <1>8, <1>9 DEF IInv, PresortInv, ListsInv, ListingInv, WholeInv

LEMMA EndSortStep ==
  ASSUME IInv, EndSort
  PROVE  IInv'
<1>1. /\ phase = "merge" /\ phase' = "lists" /\ ~PassNeeded
      /\ UNCHANGED <<files, gen, next, error, aux, page, pos, src, mergeSize, sums, inverted, offset,
                     adi, collected>>
  BY DEF EndSort, sortVars, indexVars
<1>2. /\ aux[src] \in Seq(Triplets) /\ Count \in Nat /\ mergeSize \in Nat \ {0} /\ src \in {1, 2}
  BY StateFacts DEF IInv
<1>3. Count' = Count /\ (Fits' <=> Fits) /\ Sorted' = Sorted
  BY <1>1 DEF Count, Fits, Sorted
<1>4. TypeOK'
  BY <1>1 DEF IInv, TypeOK, Phases
<1>5. GatheredInv'
  BY <1>1, <1>3 DEF IInv, GatheredInv, EntryOf, Entries, FeatureList
<1>6. pos = 0 /\ inverted = <<>> /\ offset = <<>>
  BY <1>1 DEF IInv, MergeInv, CollectInv
<1>7. ListingInv'
  <2>1. CASE Count = 0
    <3>1. Sorted = <<[f |-> 0, d |-> 0, w |-> 0]>>
      BY <2>1 DEF Sorted
    <3>2. Len(Sorted) = 1
      BY <3>1
    <3>3. Ordered(Sorted)
      BY <3>2 DEF Ordered
    <3>4. Among(collected, 0, Sorted, Len(Sorted))
      BY DEF Among
    <3>5. pos' = 0 /\ inverted' = <<>> /\ pos' <= Len(Sorted')
      BY <1>1, <1>3, <1>6, <3>2
    <3> QED
      BY <1>1, <1>3, <2>1, <3>3, <3>4, <3>5 DEF ListingInv, Ordered
  <2>2. CASE Count > 0
    <3>1. Sorted = aux[src] /\ src = 1 /\ Count <= mergeSize
      BY <1>1, <1>2, <2>2 DEF Sorted, PassNeeded
    <3>2. /\ Len(Sorted) = Count /\ InRuns(Sorted, Count, mergeSize) /\ Collected(Sorted)
          /\ Fits => Among(collected, Count, Sorted, Count)
      BY <1>1, <2>2, <3>1 DEF IInv, MergeInv
    <3>3. Ordered(Sorted)
      <4>1. Multiple(0, mergeSize)
        BY <1>2, Multiples
      <4>2. \A i, j \in 1 .. Count : i < j => 0 < i /\ j <= 0 + mergeSize
        BY <1>2, <3>1
      <4> QED
        BY <3>2, <4>1, <4>2 DEF Ordered, InRuns
    <3>4. Collected(Sorted)'
      BY <1>1, <1>3, <3>2 DEF Collected
    <3>5. pos' = 0 /\ inverted' = <<>> /\ pos' <= Len(Sorted')
      BY <1>1, <1>2, <1>3, <1>6, <3>2
    <3> QED
      BY <1>1, <1>3, <3>2, <3>3, <3>4, <3>5 DEF ListingInv, Ordered
  <2> QED
    BY <1>2, <2>1, <2>2
<1>8. ListsInv'
  BY <1>1, <1>6 DEF ListsInv
<1>9. AdiInv'
  BY <1>1 DEF IInv, AdiInv
<1>10. ~Whole'
  BY <1>1 DEF Whole
<1> QED
  BY <1>1, <1>4, <1>5, <1>7, <1>8, <1>9, <1>10 DEF IInv, PresortInv, CollectInv, MergeInv, WholeInv

LEMMA CloseFilesStep ==
  ASSUME IInv, CloseFiles
  PROVE  IInv'
<1>1. /\ phase = "lists" /\ phase' = "adi" /\ pos = Len(Sorted) /\ next' = 0
      /\ UNCHANGED <<files, gen, error, aux, page, pos, src, mergeSize, sums, inverted, offset,
                     adi, collected>>
  BY DEF CloseFiles, sortVars, indexVars
<1>3. Count' = Count /\ (Fits' <=> Fits)
  BY <1>1 DEF Count, Fits
<1>4. TypeOK'
  BY <1>1, ConstantFacts DEF IInv, TypeOK, Phases
<1>5. GatheredInv'
  BY <1>1, <1>3 DEF IInv, GatheredInv, EntryOf, Entries, FeatureList
<1>6. ListsInv'
  <2>1. ListsInv
    BY DEF IInv
  <2> QED
    BY <1>1, <1>3, <2>1 DEF ListsInv
<1>7. WholeInv'
  <2> SUFFICES ASSUME Fits, NEW k \in 1 .. Count PROVE Listed(collected[k].f, collected[k].d)
    BY <1>1, <1>3 DEF WholeInv, Listed
  <2>1. PICK i \in 1 .. Len(Sorted) : Sorted[i] = collected[k]
    BY <1>1 DEF IInv, ListingInv, Among
  <2>2. \A j \in 1 .. pos : Listed(Sorted[j].f, Sorted[j].d)
    BY <1>1 DEF IInv, ListingInv
  <2> QED
    BY <1>1, <2>1, <2>2
<1>8. AdiInv'
  <2>1. \A d \in Docs : adi[d].gen < gen
    BY <1>1 DEF IInv, AdiInv
  <2> QED
    BY <1>1, <2>1 DEF IInv, AdiInv
<1> QED
  BY <1>1, <1>4, <1>5, <1>6, <1>7, <1>8 DEF IInv, PresortInv, CollectInv, MergeInv, ListingInv

LEMMA WriteADIStep ==
  ASSUME IInv, WriteADI
  PROVE  IInv'
<1>1. /\ phase = "adi" /\ phase' = "adi" /\ next \in Docs /\ next' = next + 1
      /\ adi' = [adi EXCEPT ![next] = [gen |-> gen, sums |-> sums[next]]]
      /\ UNCHANGED <<files, gen, error, aux, page, pos, src, mergeSize, sums, inverted, offset,
                     collected>>
  BY DEF WriteADI, sortVars
<1>2. adi \in [Docs -> ADIFiles] /\ [gen |-> gen, sums |-> sums[next]] \in ADIFiles
  BY <1>1 DEF IInv, TypeOK, ADIFiles
<1>3. Count' = Count /\ (Fits' <=> Fits)
  BY <1>1 DEF Count, Fits
<1>4. TypeOK'
  <2>1. adi' \in [Docs -> ADIFiles]
    BY <1>1, <1>2
  <2>2. next' \in Docs \cup {Cardinality(Docs)}
    BY <1>1, ConstantFacts
  <2> QED
    BY <1>1, <2>1, <2>2 DEF IInv, TypeOK
<1>5. GatheredInv'
  BY <1>1, <1>3 DEF IInv, GatheredInv, EntryOf, Entries, FeatureList
<1>6. ListsInv'
  <2>1. ListsInv /\ Whole
    BY <1>1 DEF IInv, Whole
  <2> QED
    BY <1>1, <1>3, <2>1 DEF ListsInv
<1>7. WholeInv'
  <2>1. WholeInv /\ Whole
    BY <1>1 DEF IInv, Whole
  <2> QED
    BY <1>1, <1>3, <2>1 DEF WholeInv, Listed
<1>8. AdiInv'
  <2>1. \A d \in Docs : adi'[d] = IF d = next THEN [gen |-> gen, sums |-> sums[next]] ELSE adi[d]
    BY <1>1, <1>2
  <2>2. \A d \in Docs : adi'[d].gen = IF d = next THEN gen ELSE adi[d].gen
    BY <2>1
  <2>3. gen > 0 /\ gen' = gen /\ gen \in Nat /\ \A d \in Docs : adi[d].gen <= gen
    BY <1>1, ConstantFacts DEF IInv, TypeOK, AdiInv
  <2>4. \A d \in Docs : next <= d => adi[d].gen < gen
    BY <1>1 DEF IInv, AdiInv
  <2>5. \A d \in Docs : next' <= d => next <= d /\ d # next
    BY <1>1, ConstantFacts
  <2> QED
    BY <1>1, <2>2, <2>3, <2>4, <2>5 DEF AdiInv
<1> QED
  BY <1>1, <1>4, <1>5, <1>6, <1>7, <1>8 DEF IInv, PresortInv, CollectInv, MergeInv, ListingInv

LEMMA FinishStep ==
  ASSUME IInv, Finish
  PROVE  IInv'
<1>1. /\ phase = "adi" /\ phase' = "done"
      /\ UNCHANGED <<files, gen, next, error, aux, page, pos, src, mergeSize, sums, inverted, offset,
                     adi, collected>>
  BY DEF Finish, sortVars, indexVars
<1>3. Count' = Count /\ (Fits' <=> Fits)
  BY <1>1 DEF Count, Fits
<1>4. TypeOK'
  BY <1>1 DEF IInv, TypeOK, Phases
<1>5. GatheredInv'
  BY <1>1, <1>3 DEF IInv, GatheredInv, EntryOf, Entries, FeatureList
<1>6. ListsInv'
  <2>1. ListsInv /\ Whole
    BY <1>1 DEF IInv, Whole
  <2> QED
    BY <1>1, <1>3, <2>1 DEF ListsInv
<1>7. WholeInv'
  <2>1. WholeInv /\ Whole
    BY <1>1 DEF IInv, Whole
  <2> QED
    BY <1>1, <1>3, <2>1 DEF WholeInv, Listed
<1>8. AdiInv'
  BY <1>1 DEF IInv, AdiInv
<1> QED
  BY <1>1, <1>4, <1>5, <1>6, <1>7, <1>8 DEF IInv, PresortInv, CollectInv, MergeInv, ListingInv

\* What has reached the disk of the lists and of the offset file is of their type.
LEMMA CutFiles ==
  ASSUME IInv, phase = "lists"
  PROVE  /\ \A n \in 0 .. Len(inverted) : SubSeq(inverted, 1, n) \in Seq(Lists)
         /\ \A n \in 0 .. Len(inverted) - 1 : \A k \in 0 .. inverted[n + 1].size - 1 :
              CutLists(n, k) \in Seq(Lists)
         /\ \A m \in 0 .. Len(offset) : SubSeq(offset, 1, m) \in Seq(Offsets)
<1>1. inverted \in Seq(Lists) /\ offset \in Seq(Offsets) /\ Len(inverted) \in Nat
  BY DEF IInv, TypeOK
<1>2. ASSUME NEW n \in 0 .. Len(inverted) PROVE SubSeq(inverted, 1, n) \in Seq(Lists)
  <2> HIDE DEF Lists
  <2> QED
    BY <1>1, <1>2
<1>3. ASSUME NEW n \in 0 .. Len(inverted) - 1, NEW k \in 0 .. inverted[n + 1].size - 1
      PROVE  CutLists(n, k) \in Seq(Lists)
  <2>1. n + 1 \in 1 .. Len(inverted) /\ n # Len(inverted)
    BY <1>1
  <2>2. inverted[n + 1] \in Lists
    BY <1>1, <2>1
  <2>3. [inverted[n + 1] EXCEPT !.postings = SubSeq(@, 1, k)] \in Lists
    <3>1. ASSUME NEW list \in Lists, k <= Len(list.postings)
          PROVE  [list EXCEPT !.postings = SubSeq(@, 1, k)] \in Lists
      <4>1. list.postings \in Seq(Postings)
        BY DEF Lists
      <4>2. SubSeq(list.postings, 1, k) \in Seq(Postings)
        BY <3>1, <4>1
      <4> QED
        BY <4>2 DEF Lists
    <3>2. Len(inverted[n + 1].postings) = inverted[n + 1].size
      BY <2>1 DEF IInv, ListsInv
    <3>3. inverted[n + 1].size \in Nat
      BY <2>2 DEF Lists
    <3>4. k <= Len(inverted[n + 1].postings)
      BY <3>2, <3>3
    <3> QED
      BY <2>2, <3>1, <3>4
  <2> QED
    BY <1>1, <1>2, <2>1, <2>3 DEF CutLists
<1> QED
  BY <1>1, <1>2, <1>3

LEMMA KillStep ==
  ASSUME IInv, Kill
  PROVE  IInv'
<1>1. /\ phase \notin {"off", "done"} /\ phase' = "off"
      /\ UNCHANGED <<files, gen, next, error, aux, page, pos, src, mergeSize, sums, collected>>
  BY DEF Kill, sortVars
<1>2. Count' = Count /\ (Fits' <=> Fits)
  BY <1>1 DEF Count, Fits
<1>3. adi \in [Docs -> ADIFiles] /\ gen \in Nat /\ \A d \in Docs : adi[d].gen \in Nat
  BY SMTT(30), ConstantFacts DEF IInv, TypeOK, ADIFiles
<1>4. CASE /\ phase \in Buffered
           /\ \E n \in 0 .. Len(inverted) :
                \/ inverted' = SubSeq(inverted, 1, n)
                \/ /\ n < Len(inverted)
                   /\ \E k \in 0 .. inverted[n + 1].size - 1 : inverted' = CutLists(n, k)
           /\ \E m \in 0 .. Len(offset) : offset' = SubSeq(offset, 1, m)
           /\ UNCHANGED adi
  <2>1. phase = "lists"
    BY <1>4 DEF Buffered
  <2>2. inverted' \in Seq(Lists) /\ offset' \in Seq(Offsets)
    <3>1. PICK n \in 0 .. Len(inverted) :
             \/ inverted' = SubSeq(inverted, 1, n)
             \/ n < Len(inverted) /\ \E k \in 0 .. inverted[n + 1].size - 1 : inverted' = CutLists(n, k)
      BY <1>4
    <3>2. n < Len(inverted) => n \in 0 .. Len(inverted) - 1
      BY DEF IInv, TypeOK
    <3> QED
      BY <1>4, <2>1, <3>1, <3>2, CutFiles
  <2>3. TypeOK'
    BY <1>1, <1>4, <2>2 DEF IInv, TypeOK, Phases
  <2>4. AdiInv'
    BY <1>1, <1>4 DEF IInv, AdiInv
  <2>5. ~Whole'
    <3>1. adi[0].gen < gen /\ 0 \in Docs
      BY <2>1, ConstantFacts DEF IInv, AdiInv
    <3>2. adi'[0].gen # gen'
      BY <1>1, <1>3, <1>4, <3>1
    <3> QED
      BY <1>1, <3>1, <3>2 DEF Whole, Fresh
  <2> QED
    BY <1>1, <2>3, <2>4, <2>5 DEF IInv, GatheredInv, CollectInv, PresortInv, MergeInv, ListsInv,
                                  ListingInv, WholeInv
<1>5. CASE /\ phase = "adi" /\ next \in Docs
           /\ adi' = [adi EXCEPT ![next].gen = 0]
           /\ UNCHANGED <<inverted, offset>>
  <2>1. \A d \in Docs : adi'[d].gen = IF d = next THEN 0 ELSE adi[d].gen
    BY <1>3, <1>5 DEF ADIFiles
  <2>2. TypeOK'
    <3>1. [adi[next] EXCEPT !.gen = 0] \in ADIFiles
      <4>1. \A a \in ADIFiles : [a EXCEPT !.gen = 0] \in ADIFiles
        BY ConstantFacts DEF ADIFiles
      <4>2. adi[next] \in ADIFiles
        BY <1>3, <1>5
      <4> QED
        BY <4>1, <4>2
    <3>2. adi' \in [Docs -> ADIFiles]
      BY <1>3, <1>5, <3>1
    <3> QED
      BY <1>1, <1>5, <3>2 DEF IInv, TypeOK, Phases
  <2>3. AdiInv'
    <3>1. \A d \in Docs : adi[d].gen <= gen
      BY DEF IInv, AdiInv
    <3> QED
      BY <1>1, <1>3, <2>1, <3>1 DEF AdiInv
  <2>4. ~Whole'
    <3>1. gen > 0
      BY <1>5 DEF IInv, AdiInv
    <3> QED
      BY <1>1, <1>3, <1>5, <2>1, <3>1 DEF Whole, Fresh
  <2> QED
    BY <1>1, <2>2, <2>3, <2>4 DEF IInv, GatheredInv, CollectInv, PresortInv, MergeInv, ListsInv,
                                  ListingInv, WholeInv
<1>6. CASE phase \notin Buffered /\ UNCHANGED <<inverted, offset, adi>>
  <2>1. TypeOK'
    BY <1>1, <1>6 DEF IInv, TypeOK, Phases
  <2>2. AdiInv'
    BY <1>1, <1>6 DEF IInv, AdiInv
  <2>3. CASE phase = "adi"
    <3>1. ListsInv /\ WholeInv /\ Whole
      BY <2>3 DEF IInv, Whole
    <3>2. ListsInv' /\ WholeInv'
      BY <1>1, <1>2, <1>6, <3>1 DEF ListsInv, WholeInv, Listed
    <3> QED
      BY <1>1, <2>1, <2>2, <3>2 DEF IInv, GatheredInv, CollectInv, PresortInv, MergeInv, ListingInv
  <2>4. CASE phase # "adi"
    <3>1. adi[0].gen < gen /\ 0 \in Docs
      BY <1>1, <2>4, ConstantFacts DEF IInv, AdiInv
    <3>2. ~Whole'
      BY <1>1, <1>3, <1>6, <3>1 DEF Whole, Fresh
    <3> QED
      BY <1>1, <2>1, <2>2, <3>2 DEF IInv, GatheredInv, CollectInv, PresortInv, MergeInv, ListsInv,
                                    ListingInv, WholeInv
  <2> QED
    BY <2>3, <2>4
<1> QED
  BY <1>4, <1>5, <1>6 DEF Kill, indexVars
-----------------------------------------------------------------------------
(* Sorting the pages *)

LEMMA Joined ==
  ASSUME NEW s \in Seq(Triplets), NEW t \in Seq(Triplets)
  PROVE  /\ s \o t \in Seq(Triplets) /\ Len(s \o t) = Len(s) + Len(t)
         /\ Len(s) \in Nat /\ Len(t) \in Nat
         /\ \A i \in 1 .. Len(s) : (s \o t)[i] = s[i]
         /\ \A i \in 1 .. Len(t) : (s \o t)[Len(s) + i] = t[i]
         /\ \A i \in 1 .. Len(s \o t) :
              i \in 1 .. Len(s) \/ \E j \in 1 .. Len(t) : i = Len(s) + j
<1>1. /\ s \o t \in Seq(Triplets) /\ Len(s \o t) = Len(s) + Len(t)
      /\ Len(s) \in Nat /\ Len(t) \in Nat
  OBVIOUS
<1>2. \A i \in 1 .. Len(s) : (s \o t)[i] = s[i]
  OBVIOUS
<1>3. \A i \in 1 .. Len(t) : (s \o t)[Len(s) + i] = t[i]
  OBVIOUS
<1>4. ASSUME NEW i \in 1 .. Len(s) + Len(t), i \notin 1 .. Len(s)
      PROVE  \E j \in 1 .. Len(t) : i = Len(s) + j
  <2>1. i - Len(s) \in 1 .. Len(t) /\ i = Len(s) + (i - Len(s))
    BY <1>1, <1>4
  <2> QED
    BY <2>1
<1> QED
  BY <1>1, <1>2, <1>3, <1>4

\* The page with g in it, after r has been read.
PageAfter(r, g) == r \o SubSeq(g, Len(r) + 1, Len(g))

\* A read into a page changes its beginning.
LEMMA PageRead ==
  ASSUME NEW c \in Seq(Triplets), NEW g \in Seq(Triplets),
         NEW p \in Nat, NEW e \in Nat, p <= e, e <= Len(c),
         NEW x, x = PageAfter(SubSeq(c, p + 1, e), g)
  PROVE  /\ Len(SubSeq(c, p + 1, e)) = e - p
         /\ x \in Seq(Triplets)
         /\ Len(x) = IF e - p < Len(g) THEN Len(g) ELSE e - p
         /\ \A i \in 1 .. e - p : x[i] = c[p + i]
         /\ \A i \in 1 .. Len(x) : i \in 1 .. e - p \/ (i \in 1 .. Len(g) /\ x[i] = g[i])
<1> DEFINE r == SubSeq(c, p + 1, e)
           q == SubSeq(g, e - p + 1, Len(g))
<1>1. r \in Seq(Triplets) /\ Len(r) = e - p /\ \A i \in 1 .. e - p : r[i] = c[p + i]
  OBVIOUS
<1>2. /\ q \in Seq(Triplets) /\ Len(q) = IF e - p < Len(g) THEN Len(g) - (e - p) ELSE 0
      /\ \A i \in 1 .. Len(q) : q[i] = g[e - p + i]
  <2>1. CASE e - p < Len(g)
    <3>1. e - p + 1 \in 1 .. Len(g) /\ Len(g) \in Nat
      BY <2>1
    <3>2. q \in Seq(Triplets) /\ Len(q) = Len(g) - (e - p)
      BY <3>1
    <3>3. \A i \in 1 .. Len(g) - (e - p) : q[i] = g[e - p + i]
      BY <3>1
    <3> QED
      BY <2>1, <3>2, <3>3
  <2>2. CASE ~(e - p < Len(g))
    <3>1. e - p + 1 > Len(g) /\ Len(g) \in Nat /\ e - p + 1 \in Nat
      BY <2>2
    <3>2. q = <<>>
      BY <3>1
    <3>3. Len(q) = 0 /\ q \in Seq(Triplets)
      <4> HIDE DEF q
      <4> QED
        BY <3>2
    <3> QED
      BY <2>2, <3>3
  <2> QED
    BY <2>1, <2>2
<1>5. x = r \o q
  BY <1>1 DEF PageAfter
<1> HIDE DEF r, q
<1>3. /\ x \in Seq(Triplets) /\ Len(x) = Len(r) + Len(q)
      /\ \A i \in 1 .. Len(r) : x[i] = r[i]
      /\ \A i \in 1 .. Len(q) : x[Len(r) + i] = q[i]
      /\ \A i \in 1 .. Len(x) : i \in 1 .. Len(r) \/ \E j \in 1 .. Len(q) : i = Len(r) + j
  <2>1. r \in Seq(Triplets) /\ q \in Seq(Triplets)
    BY <1>1, <1>2
  <2>2. /\ r \o q \in Seq(Triplets) /\ Len(r \o q) = Len(r) + Len(q)
        /\ \A i \in 1 .. Len(r) : (r \o q)[i] = r[i]
        /\ \A i \in 1 .. Len(q) : (r \o q)[Len(r) + i] = q[i]
        /\ \A i \in 1 .. Len(r \o q) : i \in 1 .. Len(r) \/ \E j \in 1 .. Len(q) : i = Len(r) + j
    BY <2>1, Joined
  <2> QED
    BY <1>5, <2>2, Zenon
<1>4. ASSUME NEW i \in 1 .. Len(x), i \notin 1 .. e - p
      PROVE  i \in 1 .. Len(g) /\ x[i] = g[i]
  <2>1. PICK j \in 1 .. Len(q) : i = Len(r) + j
    BY <1>1, <1>3, <1>4
  <2>2. x[i] = q[j] /\ q[j] = g[e - p + j]
    BY <1>2, <1>3, <2>1
  <2> QED
    BY <1>1, <1>2, <2>1, <2>2
<1>6. Len(x) = IF e - p < Len(g) THEN Len(g) ELSE e - p
  <2>1. Len(g) \in Nat
    OBVIOUS
  <2>2. Len(x) = (e - p) + Len(q)
    BY <1>1, <1>3
  <2> QED
    BY <1>2, <2>1, <2>2
<1>7. \A i \in 1 .. e - p : x[i] = c[p + i]
  BY <1>1, <1>3
<1> QED
  BY <1>1, <1>3, <1>4, <1>6, <1>7 DEF r

\* t is what the pages before have given, from the first p triplets of c.
LEMMA PageSorted ==
  ASSUME NEW c \in Seq(Triplets), NEW t \in Seq(Triplets), NEW g \in Seq(Triplets),
         NEW p \in Nat, NEW e \in Nat, p <= e, e <= Len(c), Len(t) = p,
         Among(g, Len(g), c, Len(c)), Among(t, p, c, Len(c)), Among(c, p, t, p),
         NEW sorted \in SortedByFeature(PageAfter(SubSeq(c, p + 1, e), g))
  PROVE  /\ sorted \in Seq(Triplets) /\ Ordered(sorted)
         /\ Len(sorted) = IF e - p < Len(g) THEN Len(g) ELSE e - p
         /\ Among(sorted, Len(sorted), c, Len(c))
         /\ t \o sorted \in Seq(Triplets) /\ Len(t \o sorted) = p + Len(sorted)
         /\ Among(t \o sorted, Len(t \o sorted), c, Len(c))
         /\ Among(c, p, t \o sorted, p)
         /\ Len(g) <= e - p => Among(c, e, t \o sorted, e)
<1> DEFINE u == t \o sorted
<1>0. PICK x : x = PageAfter(SubSeq(c, p + 1, e), g)
  OBVIOUS
<1>1. /\ x \in Seq(Triplets)
      /\ Len(x) = IF e - p < Len(g) THEN Len(g) ELSE e - p
      /\ \A i \in 1 .. e - p : x[i] = c[p + i]
      /\ \A i \in 1 .. Len(x) : i \in 1 .. e - p \/ (i \in 1 .. Len(g) /\ x[i] = g[i])
  BY <1>0, PageRead
<1>2. sorted \in SortedByFeature(x)
  BY <1>0
<1>3. /\ sorted \in Seq(Triplets) /\ Len(sorted) = Len(x) /\ Ordered(sorted)
      /\ \A k \in 1 .. Len(x) : \E i \in 1 .. Len(sorted) : sorted[i] = x[k]
      /\ \A i \in 1 .. Len(sorted) : \E k \in 1 .. Len(x) : sorted[i] = x[k]
  <2>1. /\ sorted \in Seq(Triplets) /\ Len(sorted) = Len(x) /\ Ordered(sorted)
        /\ \A k \in 1 .. Len(x) : \E i \in 1 .. Len(sorted) : sorted[i] = x[k]
        /\ \A i \in 1 .. Len(sorted) : \E k \in 1 .. Len(x) : sorted[i] = x[k]
    BY <1>1, <1>2, SortedOrdered
  <2> QED
    BY <2>1
<1>4. ASSUME NEW i \in 1 .. Len(sorted)
      PROVE  \E k \in 1 .. Len(c) : c[k] = sorted[i]
  <2>1. PICK k \in 1 .. Len(x) : sorted[i] = x[k]
    BY <1>3
  <2>2. CASE k \in 1 .. e - p
    <3>1. p + k \in 1 .. Len(c) /\ x[k] = c[p + k]
      BY <1>1, <2>2
    <3> QED
      BY <2>1, <3>1
  <2>3. CASE k \in 1 .. Len(g) /\ x[k] = g[k]
    <3>1. \E m \in 1 .. Len(c) : c[m] = g[k]
      BY <2>3 DEF Among
    <3> QED
      BY <2>1, <2>3, <3>1
  <2> QED
    BY <1>1, <2>2, <2>3
<1>5. /\ u \in Seq(Triplets) /\ Len(u) = p + Len(sorted)
      /\ \A i \in 1 .. p : u[i] = t[i]
      /\ \A i \in 1 .. Len(sorted) : u[p + i] = sorted[i]
  BY <1>3, Joined
<1>6. Len(sorted) \in Nat
  BY <1>3
<1> HIDE DEF u
<1>7. ASSUME NEW i \in 1 .. Len(u) PROVE \E k \in 1 .. Len(c) : c[k] = u[i]
  <2>1. CASE i <= p
    <3>1. i \in 1 .. p /\ u[i] = t[i]
      BY <1>5, <2>1
    <3> QED
      BY <3>1 DEF Among
  <2>2. CASE p < i
    <3>1. i - p \in 1 .. Len(sorted) /\ i = p + (i - p)
      BY <1>5, <1>6, <2>2
    <3>2. u[i] = sorted[i - p]
      <4>1. u[p + (i - p)] = sorted[i - p]
        BY <1>5, <3>1
      <4> QED
        BY <3>1, <4>1
    <3> QED
      BY <1>4, <3>1, <3>2
  <2> QED
    BY <1>5, <1>6, <2>1, <2>2
<1>8. ASSUME NEW k \in 1 .. p PROVE \E i \in 1 .. p : u[i] = c[k]
  <2>1. PICK i \in 1 .. p : t[i] = c[k]
    BY DEF Among
  <2> QED
    BY <1>5, <2>1
<1>9. ASSUME Len(g) <= e - p, NEW k \in 1 .. e
      PROVE  \E i \in 1 .. e : u[i] = c[k]
  <2>1. CASE k <= p
    <3>1. PICK i \in 1 .. p : t[i] = c[k]
      BY <2>1 DEF Among
    <3> QED
      BY <1>5, <3>1
  <2>2. CASE p < k
    <3>1. k - p \in 1 .. e - p /\ p + (k - p) = k
      BY <2>2
    <3>2. Len(x) = e - p
      BY <1>1, <1>9
    <3>3. x[k - p] = c[k]
      <4>1. x[k - p] = c[p + (k - p)]
        BY <1>1, <3>1
      <4> QED
        BY <3>1, <4>1
    <3>4. PICK i \in 1 .. Len(sorted) : sorted[i] = x[k - p]
      BY <1>3, <3>1, <3>2
    <3>5. u[p + i] = c[k] /\ p + i \in 1 .. e
      BY <1>3, <1>5, <3>2, <3>3, <3>4
    <3> QED
      BY <3>5
  <2> QED
    BY <2>1, <2>2
<1> QED
  BY <1>1, <1>3, <1>4, <1>5, <1>7, <1>8, <1>9 DEF Among, u

LEMMA PresortStep ==
  ASSUME IInv, Presort
  PROVE  IInv'
<1> DEFINE e == IF pos + Wanted < Count THEN pos + Wanted ELSE Count
           read == SubSeq(aux[1], pos + 1, e)
<1>1. PICK sorted \in SortedByFeature(Reading(read)) :
         /\ page' = sorted
         /\ aux' = [aux EXCEPT ![2] = @ \o sorted]
  BY DEF Presort
<1>2. /\ phase = "presort"
      /\ \/ Len(read) = Wanted /\ pos' = e /\ phase' = "presort"
         \/ Len(read) < Wanted /\ pos' = 0 /\ phase' = "merge"
      /\ UNCHANGED <<files, gen, next, error, src, mergeSize, sums, inverted, offset, adi, collected>>
  BY DEF Presort, indexVars
<1>3. /\ aux[1] = collected /\ src = 2 /\ mergeSize = PageSize /\ Count > 0 /\ pos <= Count
      /\ Multiple(pos, Wanted) /\ Len(aux[2]) = pos
      /\ Len(page) = IF pos = 0 THEN 0 ELSE Wanted
      /\ InRuns(aux[2], pos, PageSize)
      /\ Among(collected, pos, aux[2], pos)
      /\ Collected(page) /\ Collected(aux[2])
  BY <1>2 DEF IInv, PresortInv
<1>4. /\ Count \in Nat /\ pos \in Nat /\ Wanted \in 1 .. Count /\ Wanted <= PageSize
      /\ PageSize \in Nat \ {0}
      /\ collected \in Seq(Triplets) /\ aux[2] \in Seq(Triplets) /\ page \in Seq(Triplets)
      /\ aux \in [1 .. 2 -> Seq(Triplets)]
  BY <1>3, StateFacts, ConstantFacts DEF IInv, TypeOK
<1>5. /\ e \in Nat /\ pos <= e /\ e <= Len(collected) /\ e - pos <= Wanted /\ Count = Len(collected)
      /\ e - pos = Wanted \/ e = Count
      /\ pos = 0 => e = Wanted
  BY <1>3, <1>4 DEF Count
<1>6. Len(read) = e - pos
  <2> HIDE DEF e
  <2> QED
    BY <1>3, <1>4, <1>5
<1>7. /\ sorted \in Seq(Triplets) /\ Ordered(sorted)
      /\ Len(sorted) = Wanted
      /\ Among(sorted, Len(sorted), collected, Count)
      /\ aux[2] \o sorted \in Seq(Triplets) /\ Len(aux[2] \o sorted) = pos + Wanted
      /\ Among(aux[2] \o sorted, Len(aux[2] \o sorted), collected, Count)
      /\ Among(collected, pos, aux[2] \o sorted, pos)
      /\ Len(read) = Wanted => Among(collected, e, aux[2] \o sorted, e)
  <2>1. sorted \in SortedByFeature(PageAfter(SubSeq(collected, pos + 1, e), page))
    BY <1>3 DEF Reading, PageAfter
  <2>2. /\ Among(page, Len(page), collected, Len(collected))
        /\ Among(aux[2], pos, collected, Len(collected))
    BY <1>3, <1>5 DEF Collected
  <2> HIDE DEF e, read
  <2>3. /\ sorted \in Seq(Triplets) /\ Ordered(sorted)
        /\ Len(sorted) = IF e - pos < Len(page) THEN Len(page) ELSE e - pos
        /\ Among(sorted, Len(sorted), collected, Len(collected))
        /\ aux[2] \o sorted \in Seq(Triplets) /\ Len(aux[2] \o sorted) = pos + Len(sorted)
        /\ Among(aux[2] \o sorted, Len(aux[2] \o sorted), collected, Len(collected))
        /\ Among(collected, pos, aux[2] \o sorted, pos)
        /\ Len(page) <= e - pos => Among(collected, e, aux[2] \o sorted, e)
    BY <1>3, <1>4, <1>5, <2>1, <2>2, PageSorted
  <2>4. Len(sorted) = Wanted
    BY <1>3, <1>4, <1>5, <2>3
  <2>5. Len(read) = Wanted => Len(page) <= e - pos
    BY <1>3, <1>4, <1>5, <1>6
  <2> QED
    BY <1>5, <2>3, <2>4, <2>5
<1>8. aux'[1] = collected /\ aux'[2] = aux[2] \o sorted
  BY <1>1, <1>3, <1>4
<1>9. Count' = Count /\ (Fits' <=> Fits) /\ Wanted' = Wanted
  BY <1>2 DEF Count, Fits, Wanted
<1>10. TypeOK'
  <2>1. aux' \in [1 .. 2 -> Seq(Triplets)]
    BY <1>1, <1>4, <1>7
  <2>2. page' \in Seq(Triplets) /\ Len(page') <= PageSize
    BY <1>1, <1>4, <1>7
  <2>3. pos' \in Nat /\ phase' \in Phases
    BY <1>2, <1>5 DEF Phases
  <2> QED
    BY <1>2, <2>1, <2>2, <2>3 DEF IInv, TypeOK
<1>11. GatheredInv'
  BY <1>2, <1>9 DEF IInv, GatheredInv, EntryOf, Entries, FeatureList
<1>12. CollectInv'
  BY <1>2 DEF IInv, CollectInv
<1>13. ASSUME NEW n \in Nat, n <= pos + Wanted, n <= pos \/ Multiple(pos, PageSize)
       PROVE  InRuns(aux'[2], n, PageSize)
  <2>1. Len(aux[2]) = pos /\ InRuns(aux[2], Len(aux[2]), PageSize)
    BY <1>3
  <2> QED
    BY <1>4, <1>7, <1>8, <1>13, <2>1, RunAppended
<1>14. pos = 0 \/ Wanted = PageSize \/ pos = Count
  <2>1. ASSUME pos > 0, Wanted # PageSize, pos < Count PROVE FALSE
    <3>1. Wanted = Count
      BY <1>4, <2>1 DEF Wanted
    <3>2. Multiple(0, Wanted)
      <4>1. Wanted \in Nat \ {0} /\ 0 \in Nat
        BY <1>4
      <4> QED
        BY <4>1, Multiples
    <3>3. 0 + Wanted <= pos
      <4>1. Wanted \in Nat \ {0} /\ 0 \in Nat /\ pos \in Nat
        BY <1>4
      <4> QED
        BY <1>3, <2>1, <3>2, <4>1, MultiplesApart
    <3> QED
      BY <1>4, <2>1, <3>1, <3>3
  <2> QED
    BY <1>3, <1>4, <2>1
<1>15. Multiple(pos, PageSize) \/ pos = Count
  <2>1. Multiple(0, PageSize)
    BY <1>4, Multiples
  <2> QED
    BY <1>3, <1>14, <2>1
<1>16. CASE Len(read) = Wanted /\ pos' = e /\ phase' = "presort"
  <2>1. e = pos + Wanted
    BY <1>4, <1>5, <1>6, <1>16
  <2>2. Multiple(e, Wanted)
    <3>1. Wanted \in Nat \ {0} /\ pos \in Nat
      BY <1>4
    <3>2. Multiple(pos + Wanted, Wanted)
      BY <1>3, <3>1, Multiples
    <3> QED
      BY <2>1, <3>2
  <2>3. InRuns(aux'[2], e, PageSize)
    <3>1. pos # Count
      BY <1>4, <1>5, <2>1
    <3> HIDE DEF e
    <3> QED
      BY <1>5, <1>13, <1>15, <2>1, <3>1
  <2>4. /\ Among(collected, e, aux'[2], e) /\ Len(aux'[2]) = e
        /\ Among(aux'[2], Len(aux'[2]), collected, Count)
        /\ Among(page', Len(page'), collected, Count) /\ Len(page') = Wanted
    BY <1>1, <1>7, <1>8, <1>16, <2>1
  <2>5. e > 0 /\ e <= Count
    BY <1>4, <1>5, <2>1
  <2>6. PresortInv'
    <3> HIDE DEF e, read
    <3> QED
      BY <1>2, <1>3, <1>5, <1>8, <1>9, <1>16, <2>2, <2>3, <2>4, <2>5 DEF PresortInv, Collected
  <2>7. AdiInv'
    BY <1>2, <1>16 DEF IInv, AdiInv
  <2>8. ~Whole'
    BY <1>16 DEF Whole
  <2> QED
    BY <1>10, <1>11, <1>12, <1>16, <2>6, <2>7, <2>8 DEF IInv, MergeInv, ListsInv, ListingInv, WholeInv
<1>17. CASE Len(read) < Wanted /\ pos' = 0 /\ phase' = "merge"
  <2>1. e = Count /\ Count <= pos + Wanted
    BY <1>4, <1>5, <1>6, <1>17
  <2>2. InRuns(aux'[2], Count, PageSize)
    BY <1>4, <1>13, <1>15, <2>1
  <2>3. Fits => Among(collected, Count, aux'[2], Count)
    <3> SUFFICES ASSUME Fits PROVE pos = Count
      BY <1>7, <1>8
    <3>1. Multiple(Count, Wanted)
      BY <1>3, FitsMultiple DEF IInv
    <3>2. ASSUME pos < Count PROVE FALSE
      <4>1. pos + Wanted <= Count
        <5>1. Wanted \in Nat \ {0}
          BY <1>4
        <5> QED
          BY <1>3, <1>4, <3>1, <3>2, <5>1, MultiplesApart
      <4>2. Len(read) = Count - pos
        BY <1>6, <2>1
      <4> HIDE DEF read
      <4> QED
        BY <1>4, <1>17, <4>1, <4>2
    <3> QED
      BY <1>3, <1>4, <3>2
  <2>4. /\ Count <= Len(aux'[2]) /\ Among(aux'[2], Len(aux'[2]), collected, Count)
    BY <1>4, <1>7, <1>8, <2>1
  <2>5. Multiple(0, 2 * PageSize)
    <3>1. 2 * PageSize \in Nat \ {0} /\ 0 \in Nat
      BY <1>4
    <3> QED
      BY <3>1, Multiples
  <2>6. MergeInv'
    <3>1. src' = 2 /\ mergeSize' = PageSize /\ pos' = 0 /\ ~(0 > 0)
      BY <1>2, <1>3, <1>17
    <3>2. Collected(aux[src])'
      BY <1>2, <1>9, <2>4, <3>1 DEF Collected
    <3>3. Count <= Len(aux'[src']) /\ InRuns(aux'[src'], Count, mergeSize')
          /\ (Fits => Among(collected, Count, aux'[src'], Count))
      BY <2>2, <2>3, <2>4, <3>1
    <3>4. Multiple(0, 2 * mergeSize')
      BY <2>5, <3>1
    <3> HIDE DEF e, read
    <3> QED
      BY <1>2, <1>9, <3>1, <3>2, <3>3, <3>4 DEF MergeInv
  <2>7. AdiInv'
    BY <1>2, <1>17 DEF IInv, AdiInv
  <2>8. ~Whole'
    BY <1>17 DEF Whole
  <2> QED
    BY <1>10, <1>11, <1>12, <1>17, <2>6, <2>7, <2>8 DEF IInv, PresortInv, ListsInv, ListingInv, WholeInv
<1> QED
  BY <1>2, <1>16, <1>17
-----------------------------------------------------------------------------
(* Merging the runs *)

\* q is what follows the first b triplets of s, up to e.
Stretched(q, s, b, e) ==
  /\ q \in Seq(Triplets)
  /\ Len(q) = IF b < e THEN e - b ELSE 0
  /\ \A i \in 1 .. Len(q) : b + i \in b + 1 .. e /\ q[i] = s[b + i]
  /\ \A k \in b + 1 .. e : \E i \in 1 .. Len(q) : q[i] = s[k]

LEMMA Stretch ==
  ASSUME NEW s \in Seq(Triplets), NEW b \in Nat, NEW e \in Nat, e <= Len(s)
  PROVE  Stretched(SubSeq(s, b + 1, e), s, b, e)
<1> DEFINE q == SubSeq(s, b + 1, e)
<1>1. CASE b < e
  <2>1. b + 1 \in 1 .. Len(s) /\ Len(s) \in Nat
    BY <1>1
  <2>2. q \in Seq(Triplets) /\ Len(q) = e - b
    BY <1>1, <2>1
  <2>3. \A i \in 1 .. e - b : q[i] = s[b + i]
    BY <1>1, <2>1
  <2> HIDE DEF q
  <2>4. ASSUME NEW k \in b + 1 .. e PROVE \E i \in 1 .. Len(q) : q[i] = s[k]
    <3>1. k - b \in 1 .. e - b /\ b + (k - b) = k
      OBVIOUS
    <3>2. q[k - b] = s[b + (k - b)]
      BY <2>3, <3>1
    <3> QED
      BY <2>2, <3>1, <3>2
  <2>5. ASSUME NEW i \in 1 .. Len(q) PROVE b + i \in b + 1 .. e /\ q[i] = s[b + i]
    <3>1. i \in 1 .. e - b
      BY <2>2
    <3> QED
      BY <2>3, <3>1
  <2>6. Len(q) = IF b < e THEN e - b ELSE 0
    BY <1>1, <2>2
  <2>7. Stretched(q, s, b, e)
    BY <2>2, <2>4, <2>5, <2>6 DEF Stretched
  <2> QED
    BY <2>7 DEF q
<1>2. CASE ~(b < e)
  <2>1. b + 1 > e /\ b + 1 \in Nat
    BY <1>2
  <2>2. q = <<>>
    BY <2>1
  <2>3. Len(q) = 0 /\ q \in Seq(Triplets)
    <3> HIDE DEF q
    <3> QED
      BY <2>2
  <2> HIDE DEF q
  <2>4. Stretched(q, s, b, e)
    BY <1>2, <2>3 DEF Stretched
  <2> QED
    BY <2>4 DEF q
<1> QED
  BY <1>1, <1>2

\* One merge of a pass: base is what the pass has written from the first p triplets
\* of s, of which n are read.
LEMMA RunsMerged ==
  ASSUME NEW s \in Seq(Triplets), NEW n \in Nat, n <= Len(s), NEW m \in Nat \ {0}, InRuns(s, n, m),
         NEW p \in Nat, p < n, Multiple(p, 2 * m),
         NEW base \in Seq(Triplets), Len(base) = p, InRuns(base, p, 2 * m), Among(s, p, base, p),
         NEW c, NEW k \in Nat, Among(base, p, c, k), Among(s, Len(s), c, k),
         NEW a \in Nat, NEW e \in Nat, p < a, a <= e, e <= n, a <= p + m, e <= p + m + m,
         a = e \/ a = p + m, p + m < e \/ a = e,
         NEW l, Stretched(l, s, p, a), Ordered(l),
         NEW r, Stretched(r, s, p + m, e), Ordered(r),
         NEW v, Merges(v, l, r, 0, 0)
  PROVE  /\ base \o v \in Seq(Triplets) /\ Len(base \o v) = e
         /\ InRuns(base \o v, e, 2 * m)
         /\ Among(s, e, base \o v, e)
         /\ Among(base \o v, e, c, k)
<1>1. 2 * m \in Nat \ {0} /\ p + m \in Nat /\ Len(s) \in Nat /\ a <= Len(s) /\ e <= Len(s)
  OBVIOUS
<1>4. /\ l \in Seq(Triplets) /\ Len(l) = a - p
      /\ \A i \in 1 .. Len(l) : p + i \in p + 1 .. a /\ l[i] = s[p + i]
      /\ \A j \in p + 1 .. a : \E i \in 1 .. Len(l) : l[i] = s[j]
  BY DEF Stretched
<1>5. /\ r \in Seq(Triplets) /\ Len(r) = IF p + m < e THEN e - (p + m) ELSE 0
      /\ \A i \in 1 .. Len(r) : p + m + i \in p + m + 1 .. e /\ r[i] = s[p + m + i]
      /\ \A j \in p + m + 1 .. e : \E i \in 1 .. Len(r) : r[i] = s[j]
  BY DEF Stretched
<1>8. /\ v \in Seq(Triplets) /\ Len(v) = Len(l) + Len(r) /\ Ordered(v)
      /\ \A i \in 1 .. Len(l) : \E j \in 1 .. Len(v) : v[j] = l[i]
      /\ \A i \in 1 .. Len(r) : \E j \in 1 .. Len(v) : v[j] = r[i]
      /\ \A j \in 1 .. Len(v) : \/ \E i \in 1 .. Len(l) : v[j] = l[i]
                                \/ \E i \in 1 .. Len(r) : v[j] = r[i]
  <2>1. Left(l, r, 0, 0) = Len(l) + Len(r) /\ 0 + 1 = 1
    BY <1>4, <1>5 DEF Left
  <2> QED
    BY <2>1 DEF Merges
<1>9. Len(v) = e - p
  <2>1. Len(r) = e - a
    BY SMTT(30), <1>5
  <2> QED
    BY <1>4, <1>8, <2>1
<1>10. PICK u : u = base \o v
  OBVIOUS
<1>11. /\ u \in Seq(Triplets) /\ Len(u) = p + Len(v)
       /\ \A i \in 1 .. p : u[i] = base[i]
       /\ \A i \in 1 .. Len(v) : u[p + i] = v[i]
       /\ \A i \in 1 .. Len(u) : i \in 1 .. p \/ \E j \in 1 .. Len(v) : i = p + j
  <2>1. /\ base \o v \in Seq(Triplets) /\ Len(base \o v) = Len(base) + Len(v)
        /\ \A i \in 1 .. Len(base) : (base \o v)[i] = base[i]
        /\ \A i \in 1 .. Len(v) : (base \o v)[Len(base) + i] = v[i]
        /\ \A i \in 1 .. Len(base \o v) :
             i \in 1 .. Len(base) \/ \E j \in 1 .. Len(v) : i = Len(base) + j
    BY <1>8, Joined
  <2>2. Len(base) = p
    OBVIOUS
  <2> QED
    BY ZenonT(30), <1>10, <2>1, <2>2
<1>12. Len(u) = e
  BY <1>1, <1>9, <1>11
<1>13. InRuns(u, e, 2 * m)
  BY <1>1, <1>8, <1>9, <1>10, RunAppended
<1>14. ASSUME NEW j \in 1 .. Len(v) PROVE \E i \in 1 .. Len(s) : v[j] = s[i]
  <2>1. CASE \E i \in 1 .. Len(l) : v[j] = l[i]
    <3>1. PICK i \in 1 .. Len(l) : v[j] = l[i]
      BY <2>1
    <3>2. p + i \in 1 .. Len(s) /\ l[i] = s[p + i]
      BY <1>1, <1>4, <3>1
    <3> QED
      BY <3>1, <3>2
  <2>2. CASE \E i \in 1 .. Len(r) : v[j] = r[i]
    <3>1. PICK i \in 1 .. Len(r) : v[j] = r[i]
      BY <2>2
    <3>2. p + m + i \in 1 .. Len(s) /\ r[i] = s[p + m + i]
      BY <1>1, <1>5, <3>1
    <3> QED
      BY <3>1, <3>2
  <2> QED
    BY <1>8, <2>1, <2>2
<1>15. Among(u, e, c, k)
  <2> SUFFICES ASSUME NEW i \in 1 .. e PROVE \E j \in 1 .. k : c[j] = u[i]
    BY DEF Among
  <2>1. CASE i \in 1 .. p
    <3>1. \E j \in 1 .. k : c[j] = base[i]
      BY <2>1 DEF Among
    <3>2. u[i] = base[i]
      BY <1>11, <2>1
    <3> QED
      BY <3>1, <3>2
  <2>2. CASE \E j \in 1 .. Len(v) : i = p + j
    <3>1. PICK j \in 1 .. Len(v) : i = p + j
      BY <2>2
    <3>2. PICK h \in 1 .. Len(s) : v[j] = s[h]
      BY <1>14
    <3>3. u[i] = s[h]
      BY <1>11, <3>1, <3>2
    <3>4. \E g \in 1 .. k : c[g] = s[h]
      BY <3>2 DEF Among
    <3> QED
      BY <3>3, <3>4
  <2> QED
    BY <1>11, <1>12, <2>1, <2>2
<1>16. Among(s, e, u, e)
  <2> SUFFICES ASSUME NEW i \in 1 .. e PROVE \E j \in 1 .. e : u[j] = s[i]
    BY DEF Among
  <2>1. CASE i <= p
    <3>1. i \in 1 .. p
      BY <2>1
    <3>2. PICK j \in 1 .. p : base[j] = s[i]
      BY <3>1 DEF Among
    <3>3. u[j] = base[j]
      BY <1>11
    <3>4. p \in Nat /\ p <= e
      BY <1>1
    <3>5. j \in 1 .. e
      BY <3>4
    <3> QED
      BY <3>2, <3>3, <3>5
  <2>2. CASE p < i
    <3>1. \E j \in 1 .. Len(v) : v[j] = s[i]
      <4>1. CASE i <= a
        <5>1. i \in p + 1 .. a
          BY <2>2, <4>1
        <5>2. PICK h \in 1 .. Len(l) : l[h] = s[i]
          BY <1>4, <5>1
        <5> QED
          BY <1>8, <5>2
      <4>2. CASE a < i
        <5>1. i \in p + m + 1 .. e
          BY <1>1, <4>2
        <5>2. PICK h \in 1 .. Len(r) : r[h] = s[i]
          BY <1>5, <5>1
        <5> QED
          BY <1>8, <5>2
      <4> QED
        BY <1>1, <4>1, <4>2
    <3>2. PICK j \in 1 .. Len(v) : v[j] = s[i]
      BY <3>1
    <3>3. u[p + j] = s[i] /\ p + j \in 1 .. e
      BY <1>1, <1>9, <1>11, <3>2
    <3> QED
      BY <3>3
  <2> QED
    BY <2>1, <2>2
<1> QED
  BY <1>10, <1>11, <1>12, <1>13, <1>15, <1>16

LEMMA MergeStep ==
  ASSUME IInv, Merge
  PROVE  IInv'
<1> DEFINE a == IF pos + mergeSize < Count THEN pos + mergeSize ELSE Count
           e == IF pos + 2 * mergeSize < Count THEN pos + 2 * mergeSize ELSE Count
           base == IF pos = 0 THEN <<>> ELSE aux[3 - src]
           v == Merged(SubSeq(aux[src], pos + 1, a), SubSeq(aux[src], pos + mergeSize + 1, e))
<1>1. /\ phase = "merge" /\ phase' = "merge" /\ PassNeeded /\ pos < Count
      /\ aux' = [aux EXCEPT ![3 - src] = base \o v]
      /\ pos' = pos + 2 * mergeSize
      /\ UNCHANGED <<files, gen, next, error, page, src, mergeSize, sums, inverted, offset, adi, collected>>
  BY DEF Merge, indexVars
<1>2. /\ aux[src] \in Seq(Triplets) /\ aux[3 - src] \in Seq(Triplets)
      /\ src \in {1, 2} /\ (3 - src) \in {1, 2} /\ 3 - src # src /\ Count \in Nat /\ pos \in Nat
      /\ mergeSize \in Nat \ {0} /\ 2 * mergeSize \in Nat \ {0}
      /\ aux \in [1 .. 2 -> Seq(Triplets)]
  BY StateFacts DEF IInv, TypeOK
<1>3. /\ Count <= Len(aux[src])
      /\ InRuns(aux[src], Count, mergeSize)
      /\ Collected(aux[src])
      /\ Fits => Among(collected, Count, aux[src], Count)
      /\ src = 1 /\ Count > 0 => Len(aux[1]) = Count
      /\ Multiple(pos, 2 * mergeSize)
      /\ pos > 0 => /\ Len(aux[3 - src]) = Reached
                    /\ InRuns(aux[3 - src], Reached, 2 * mergeSize)
                    /\ Among(aux[src], Reached, aux[3 - src], Reached)
                    /\ Collected(aux[3 - src])
  <2>1. Count > 0
    BY <1>1, <1>2
  <2> QED
    BY <1>1, <2>1 DEF IInv, MergeInv
<1>4. Reached = pos
  BY <1>1 DEF Reached
<1>5. /\ base \in Seq(Triplets) /\ Len(base) = pos /\ InRuns(base, pos, 2 * mergeSize)
      /\ Among(aux[src], pos, base, pos) /\ Among(base, pos, collected, Count)
  <2>1. CASE pos = 0
    <3>1. base = <<>>
      BY <2>1
    <3>2. base \in Seq(Triplets) /\ Len(base) = 0
      <4> HIDE DEF base
      <4> QED
        BY <3>1
    <3>3. InRuns(base, 0, 2 * mergeSize) /\ Among(aux[src], 0, base, 0) /\ Among(base, 0, collected, Count)
      BY DEF InRuns, Among
    <3> QED
      BY <2>1, <3>2, <3>3
  <2>2. CASE pos # 0
    <3>1. base = aux[3 - src] /\ pos > 0
      BY <1>2, <2>2
    <3> HIDE DEF base
    <3> QED
      BY <1>2, <1>3, <1>4, <3>1 DEF Collected
  <2> QED
    BY <2>1, <2>2
<1>6. /\ base \o v \in Seq(Triplets) /\ Len(base \o v) = e
      /\ InRuns(base \o v, e, 2 * mergeSize)
      /\ Among(aux[src], e, base \o v, e)
      /\ Among(base \o v, e, collected, Count)
  <2>1. Among(aux[src], Len(aux[src]), collected, Count)
    BY <1>3 DEF Collected
  <2>2. PICK l : l = SubSeq(aux[src], pos + 1, a)
    OBVIOUS
  <2>3. PICK r : r = SubSeq(aux[src], pos + mergeSize + 1, e)
    OBVIOUS
  <2>4. /\ a \in Nat /\ e \in Nat /\ pos < a /\ a <= e /\ e <= Count /\ a <= pos + mergeSize
        /\ e <= pos + mergeSize + mergeSize /\ (a = e \/ a = pos + mergeSize)
        /\ (pos + mergeSize < e \/ a = e)
        /\ a <= Len(aux[src]) /\ e <= Len(aux[src])
        /\ pos + mergeSize \in Nat
    BY <1>1, <1>2, <1>3
  <2>5. v = Merged(l, r)
    BY <2>2, <2>3
  <2> HIDE DEF a, e, v, base
  <2>6. Stretched(l, aux[src], pos, a) /\ Stretched(r, aux[src], pos + mergeSize, e)
    BY <1>2, <2>2, <2>3, <2>4, Stretch
  <2>7. Ordered(l) /\ Ordered(r)
    <3>1. Multiple(pos, mergeSize) /\ Multiple(pos + mergeSize, mergeSize)
      BY <1>2, <1>3, Multiples
    <3>2. Ordered(l)
      BY SMTT(30), <1>2, <1>3, <2>2, <2>4, <3>1, RunOrdered
    <3>3. Ordered(r)
      BY <1>2, <1>3, <2>3, <2>4, <3>1, RunOrdered
    <3> QED
      BY <3>2, <3>3
  <2>8. Merges(v, l, r, 0, 0)
    <3>1. l \in Seq(Triplets) /\ r \in Seq(Triplets)
      BY <2>6 DEF Stretched
    <3> QED
      BY <2>5, <3>1, MergedMerges
  <2> QED
    BY ZenonT(30), <1>1, <1>2, <1>3, <1>5, <2>1, <2>4, <2>6, <2>7, <2>8, RunsMerged
<1>7. Count' = Count /\ (Fits' <=> Fits) /\ (PassNeeded' <=> PassNeeded) /\ Reached' = e
  BY <1>1 DEF Count, Fits, PassNeeded, Reached
<1> HIDE DEF a, e, base, v
<1>8. aux'[3 - src] = base \o v /\ aux'[src] = aux[src]
  BY <1>1, <1>2
<1>9. TypeOK'
  <2>1. aux' \in [1 .. 2 -> Seq(Triplets)]
    BY <1>1, <1>2, <1>6
  <2>2. pos' \in Nat
    BY <1>1, <1>2
  <2> QED
    BY <1>1, <2>1, <2>2 DEF IInv, TypeOK
<1>10. GatheredInv'
  <2>1. Count' = Count
    BY <1>7
  <2> QED
    BY <1>1, <2>1 DEF IInv, GatheredInv, EntryOf, Entries, FeatureList
<1>11. CollectInv'
  BY <1>1 DEF IInv, CollectInv
<1>12. MergeInv'
  <2>1. src' = src /\ mergeSize' = mergeSize /\ collected' = collected /\ pos' = pos + 2 * mergeSize
    BY <1>1
  <2>2. Multiple(pos', 2 * mergeSize)
    BY <1>2, <1>3, <2>1, Multiples
  <2>3. Collected(aux[src])' /\ Collected(aux[3 - src])'
    BY <1>3, <1>6, <1>7, <1>8, <2>1 DEF Collected
  <2>4. src' = 1 /\ Count' > 0 => Len(aux'[1]) = Count'
    BY <1>3, <1>7, <1>8, <2>1
  <2>5. /\ Len(aux'[3 - src']) = Reached' /\ InRuns(aux'[3 - src'], Reached', 2 * mergeSize')
        /\ Among(aux'[src'], Reached', aux'[3 - src'], Reached')
    BY <1>6, <1>7, <1>8, <2>1
  <2>6. /\ Count' <= Len(aux'[src']) /\ InRuns(aux'[src'], Count', mergeSize')
        /\ Fits' => Among(collected', Count', aux'[src'], Count')
    BY <1>3, <1>7, <1>8, <2>1
  <2> QED
    BY <1>1, <1>7, <2>1, <2>2, <2>3, <2>4, <2>5, <2>6 DEF MergeInv
<1>13. AdiInv'
  BY <1>1 DEF IInv, AdiInv
<1>14. ~Whole'
  BY <1>1 DEF Whole
<1> QED
  BY <1>1, <1>9, <1>10, <1>11, <1>12, <1>13, <1>14 DEF IInv, PresortInv, ListsInv, ListingInv, WholeInv
-----------------------------------------------------------------------------
(* Writing the lists *)

LEMMA Appended ==
  ASSUME NEW S, NEW s \in Seq(S), NEW x \in S
  PROVE  /\ Append(s, x) \in Seq(S) /\ Len(Append(s, x)) = Len(s) + 1 /\ Len(s) \in Nat
         /\ \A i \in 1 .. Len(s) : Append(s, x)[i] = s[i]
         /\ Append(s, x)[Len(s) + 1] = x
  OBVIOUS

LEMMA ListStep ==
  ASSUME IInv, List
  PROVE  IInv'
<1>1. PICK s : s = Sorted
  OBVIOUS
<1>2. PICK end : end = RunEnd(s, pos)
  OBVIOUS
<1>3. PICK run : run = SubSeq(s, pos + 1, end)
  OBVIOUS
<1>4. PICK chunk : chunk = Chunk(run)
  OBVIOUS
<1>5. PICK feature : feature = s[pos + 1].f
  OBVIOUS
<1>6. PICK postings \in ByFrequency(chunk) :
        inverted' = Append(inverted, [f |-> feature, size |-> Cardinality(chunk), postings |-> postings])
  BY <1>1, <1>2, <1>3, <1>4, <1>5 DEF List
<1>7. PICK list : list = [f |-> feature, size |-> Cardinality(chunk), postings |-> postings]
  OBVIOUS
<1>8. PICK element : element = [f |-> feature, at |-> Len(inverted) + 1]
  OBVIOUS
<1>9. /\ phase = "lists" /\ phase' = "lists" /\ pos < Len(s) /\ pos' = end
      /\ inverted' = Append(inverted, list) /\ offset' = Append(offset, element)
      /\ sums' = [d \in Docs |-> AfterChunk(sums[d], d, chunk)]
      /\ UNCHANGED <<files, gen, next, error, aux, page, src, mergeSize, adi, collected>>
  BY <1>1, <1>2, <1>3, <1>4, <1>5, <1>6, <1>7, <1>8 DEF List, OffsetElement
<1>10. s \in Seq(Triplets) /\ pos \in Nat /\ Count \in Nat
  BY <1>1, StateFacts DEF IInv
<1>11. /\ end \in Nat /\ pos < end /\ end <= Len(s) /\ Len(s) \in Nat
       /\ \A m \in pos + 1 .. end : s[m].f = feature
       /\ end < Len(s) => s[end + 1].f # feature
  <2>1. pos \in 0 .. Len(s) - 1 /\ Len(s) \in Nat
    BY <1>9, <1>10
  <2>2. /\ RunEnd(s, pos) \in pos + 1 .. Len(s)
        /\ \A m \in pos + 1 .. RunEnd(s, pos) : s[m].f = s[pos + 1].f
        /\ RunEnd(s, pos) < Len(s) => s[RunEnd(s, pos) + 1].f # s[pos + 1].f
    BY <1>10, <2>1, RunEnds
  <2>3. end \in pos + 1 .. Len(s)
    BY <1>2, <2>2
  <2>4. end \in Nat /\ pos < end /\ end <= Len(s)
    BY <1>10, <2>1, <2>3
  <2> QED
    BY <1>2, <1>5, <2>1, <2>2, <2>4
<1>12. /\ run \in Seq(Triplets) /\ Len(run) = end - pos /\ Len(run) > 0
       /\ \A k \in 1 .. Len(run) : pos + k \in pos + 1 .. end /\ run[k] = s[pos + k]
       /\ \A k \in pos + 1 .. end : \E i \in 1 .. Len(run) : run[i] = s[k]
  <2>1. Stretched(run, s, pos, end)
    BY <1>3, <1>10, <1>11, Stretch
  <2> QED
    BY <1>10, <1>11, <2>1 DEF Stretched
<1>13. /\ IsFiniteSet(chunk) /\ chunk \subseteq Postings
       /\ \A k \in 1 .. Len(run) : \E p \in chunk : p.d = run[k].d
       /\ \A p \in chunk : \E k \in 1 .. Len(run) : p = Posting(run[k])
       /\ Cardinality(chunk) \in 1 .. Cardinality(Docs)
  BY <1>4, <1>12, ChunkOfRun
<1>14. /\ postings \in Seq(Postings) /\ Len(postings) = Cardinality(chunk)
       /\ \A p \in chunk : \E n \in 1 .. Len(postings) : postings[n] = p
       /\ \A n \in 1 .. Len(postings) : postings[n] \in chunk
  BY <1>13, ListOfChunk
<1>15. feature \in Features \cup {0} /\ feature \in Nat /\ \A k \in 1 .. Len(s) : s[k].f \in Nat
  <2>1. \A k \in 1 .. Len(s) : s[k] \in Triplets
    BY <1>10
  <2>2. pos + 1 \in 1 .. Len(s)
    BY <1>9, <1>10, <1>11
  <2>3. \A t \in Triplets : t.f \in Features \cup {0}
    BY DEF Triplets
  <2> QED
    BY <1>5, <2>1, <2>2, <2>3, FeaturesAreNumbers
<1>16. list \in Lists /\ element \in Offsets
  <2>1. Cardinality(chunk) \in Nat /\ Len(inverted) + 1 \in Nat \ {0}
    BY <1>13, FS_CardinalityType DEF IInv, TypeOK
  <2> QED
    BY <1>7, <1>8, <1>14, <1>15, <2>1 DEF Lists, Offsets
<1>17. /\ inverted \in Seq(Lists) /\ Len(inverted) \in Nat
       /\ inverted' \in Seq(Lists) /\ Len(inverted') = Len(inverted) + 1
       /\ \A i \in 1 .. Len(inverted) : inverted'[i] = inverted[i]
       /\ inverted'[Len(inverted) + 1] = list
  <2>1. inverted \in Seq(Lists)
    BY DEF IInv, TypeOK
  <2> QED
    BY <1>9, <1>16, <2>1, Appended
<1>18. /\ offset' \in Seq(Offsets) /\ Len(offset') = Len(offset) + 1
       /\ \A i \in 1 .. Len(offset) : offset'[i] = offset[i]
       /\ offset'[Len(offset) + 1] = element
  <2>1. offset \in Seq(Offsets)
    BY DEF IInv, TypeOK
  <2> QED
    BY <1>9, <1>16, <2>1, Appended
<1>19. list.f = feature /\ list.size = Cardinality(chunk) /\ list.postings = postings
  BY <1>7
<1>20. Count' = Count /\ (Fits' <=> Fits) /\ Sorted' = s
  BY <1>1, <1>9 DEF Count, Fits, Sorted
<1>21. /\ Ordered(s) /\ (Count > 0 => Collected(s))
       /\ Fits => Among(collected, Count, s, Len(s))
       /\ \A k \in 1 .. pos : Listed(s[k].f, s[k].d)
       /\ \A i \in 1 .. Len(inverted), k \in pos + 1 .. Len(s) : inverted[i].f < s[k].f
  BY <1>1, <1>9 DEF IInv, ListingInv
<1>22. /\ Len(offset) = Len(inverted)
       /\ \A i \in 1 .. Len(inverted) :
            /\ offset[i] = [f |-> inverted[i].f, at |-> i]
            /\ Len(inverted[i].postings) = inverted[i].size
       /\ \A i, j \in 1 .. Len(inverted) : inverted[i].f = inverted[j].f => i = j
       /\ Count > 0 =>
            \A i \in 1 .. Len(inverted) : \A n \in 1 .. Len(inverted[i].postings) :
              \E k \in 1 .. Count : /\ collected[k].f = inverted[i].f
                                    /\ Posting(collected[k]) = inverted[i].postings[n]
  BY <1>9 DEF IInv, ListsInv
<1>23. TypeOK'
  <2>1. sums' \in [Docs -> Sums]
    <3>1. sums \in [Docs -> Sums]
      BY DEF IInv, TypeOK
    <3>2. \A d \in Docs : AfterChunk(sums[d], d, chunk) \in Sums
      <4>1. ASSUME NEW d \in Docs PROVE AfterChunk(sums[d], d, chunk) \in Sums
        <5>1. sums[d] \in Sums
          BY <3>1
        <5> QED
          BY <1>13, <5>1, SumsStaySums
      <4> QED
        BY <4>1
    <3> QED
      BY <1>9, <3>2
  <2> QED
    BY <1>9, <1>11, <1>17, <1>18, <2>1 DEF IInv, TypeOK
<1>24. GatheredInv'
  <2>1. Count' = Count
    BY <1>20
  <2> QED
    BY <1>9, <2>1 DEF IInv, GatheredInv, EntryOf, Entries, FeatureList
<1>25. \A i \in 1 .. Len(inverted') : i \in 1 .. Len(inverted) \/ i = Len(inverted) + 1
  BY <1>17
<1>26. ListsInv'
  <2>1. Len(offset') = Len(inverted')
    BY <1>17, <1>18, <1>22
  <2>2. ASSUME NEW i \in 1 .. Len(inverted')
        PROVE  /\ offset'[i] = [f |-> inverted'[i].f, at |-> i]
               /\ Len(inverted'[i].postings) = inverted'[i].size
    <3>1. CASE i \in 1 .. Len(inverted)
      BY <1>17, <1>18, <1>22, <3>1
    <3>2. CASE i = Len(inverted) + 1
      BY <1>8, <1>14, <1>17, <1>18, <1>19, <1>22, <3>2
    <3> QED
      BY <1>25, <3>1, <3>2
  <2>3. \A i \in 1 .. Len(inverted) : inverted[i].f < feature
    <3>1. pos + 1 \in pos + 1 .. Len(s)
      BY <1>9, <1>10, <1>11
    <3> QED
      BY <1>5, <1>21, <3>1
  <2>4. \A i \in 1 .. Len(inverted) : inverted[i].f \in Nat
    <3>1. \A x \in Lists : x.f \in Nat
      <4>1. \A x \in Features \cup {0} : x \in Nat
        BY IndexGenerationAssumption
      <4> QED
        BY <4>1 DEF Lists
    <3> QED
      BY <1>17, <3>1
  <2>5. ASSUME NEW i \in 1 .. Len(inverted'), NEW j \in 1 .. Len(inverted'),
               inverted'[i].f = inverted'[j].f
        PROVE  i = j
    <3>1. CASE i \in 1 .. Len(inverted) /\ j \in 1 .. Len(inverted)
      BY <1>17, <1>22, <2>5, <3>1
    <3>2. CASE i \in 1 .. Len(inverted) /\ j = Len(inverted) + 1
      BY <1>15, <1>17, <1>19, <2>3, <2>4, <2>5, <3>2
    <3>3. CASE i = Len(inverted) + 1 /\ j \in 1 .. Len(inverted)
      BY <1>15, <1>17, <1>19, <2>3, <2>4, <2>5, <3>3
    <3>4. CASE i = Len(inverted) + 1 /\ j = Len(inverted) + 1
      BY <3>4
    <3> QED
      BY <1>25, <3>1, <3>2, <3>3, <3>4
  <2>6. ASSUME Count > 0, NEW i \in 1 .. Len(inverted'), NEW n \in 1 .. Len(inverted'[i].postings)
        PROVE  \E k \in 1 .. Count : /\ collected[k].f = inverted'[i].f
                                     /\ Posting(collected[k]) = inverted'[i].postings[n]
    <3>1. CASE i \in 1 .. Len(inverted)
      <4>1. inverted'[i] = inverted[i]
        BY <1>17, <3>1
      <4>2. n \in 1 .. Len(inverted[i].postings)
        BY <4>1
      <4> QED
        BY <1>22, <2>6, <3>1, <4>1, <4>2
    <3>2. CASE i = Len(inverted) + 1
      <4>1. inverted'[i].f = feature /\ inverted'[i].postings = postings
        BY <1>17, <1>19, <3>2
      <4>2. n \in 1 .. Len(postings)
        BY <4>1
      <4>3. PICK k \in 1 .. Len(run) : postings[n] = Posting(run[k])
        BY <1>13, <1>14, <4>2
      <4>4. pos + k \in pos + 1 .. end /\ run[k] = s[pos + k]
        BY <1>12
      <4>5. pos + k \in 1 .. Len(s) /\ s[pos + k].f = feature
        BY SMTT(30), <1>10, <1>11, <4>4
      <4>6. PICK m \in 1 .. Count : collected[m] = s[pos + k]
        BY <1>21, <2>6, <4>5 DEF Collected, Among
      <4> QED
        BY <4>1, <4>3, <4>4, <4>5, <4>6
    <3> QED
      BY <1>25, <3>1, <3>2
  <2>7. Count' > 0 =>
          \A i \in 1 .. Len(inverted') : \A n \in 1 .. Len(inverted'[i].postings) :
            \E k \in 1 .. Count' : /\ collected'[k].f = inverted'[i].f
                                   /\ Posting(collected'[k]) = inverted'[i].postings[n]
    BY <1>9, <1>20, <2>6
  <2> QED
    BY <2>1, <2>2, <2>5, <2>7 DEF ListsInv, Posting
<1>27. ListingInv'
  <2>1. \A f, d : Listed(f, d) => Listed(f, d)'
    <3>1. ASSUME NEW f, NEW d, Listed(f, d) PROVE Listed(f, d)'
      <4>0. PICK i \in 1 .. Len(inverted) :
               \E n \in 1 .. Len(inverted[i].postings) :
                  inverted[i].f = f /\ inverted[i].postings[n].d = d
        BY <3>1 DEF Listed
      <4>1. PICK n \in 1 .. Len(inverted[i].postings) :
               inverted[i].f = f /\ inverted[i].postings[n].d = d
        BY <4>0
      <4>2. i \in 1 .. Len(inverted') /\ inverted'[i] = inverted[i]
        BY <1>17
      <4>3. n \in 1 .. Len(inverted'[i].postings)
        BY <4>2
      <4> QED
        BY <4>1, <4>2, <4>3 DEF Listed
    <3> QED
      BY <3>1
  <2>2. ASSUME NEW k \in 1 .. end PROVE Listed(s[k].f, s[k].d)'
    <3>1. CASE k <= pos
      <4>1. k \in 1 .. pos
        BY <1>10, <3>1
      <4>2. Listed(s[k].f, s[k].d)
        BY <1>21, <4>1
      <4> QED
        BY <2>1, <4>2 DEF Listed
    <3>2. CASE pos < k
      <4>1. k \in pos + 1 .. end
        BY <1>10, <1>11, <3>2
      <4>2. PICK h \in 1 .. Len(run) : run[h] = s[k]
        BY <1>12, <4>1
      <4>3. PICK p \in chunk : p.d = run[h].d
        BY <1>13
      <4>4. PICK n \in 1 .. Len(postings) : postings[n] = p
        BY <1>14
      <4>5. s[k].f = feature
        BY <1>11, <4>1
      <4>6. PICK i \in 1 .. Len(inverted') : i = Len(inverted) + 1
        BY <1>17
      <4>7. inverted'[i].f = feature /\ inverted'[i].postings = postings
        BY <1>17, <1>19, <4>6
      <4>8. n \in 1 .. Len(inverted'[i].postings) /\ inverted'[i].postings[n].d = s[k].d
        BY <4>2, <4>3, <4>4, <4>7
      <4> QED
        BY <4>5, <4>7, <4>8 DEF Listed
    <3> QED
      BY <1>10, <1>11, <3>1, <3>2
  <2>3. ASSUME NEW i \in 1 .. Len(inverted'), NEW k \in end + 1 .. Len(s)
        PROVE  inverted'[i].f < s[k].f
    <3>1. CASE i \in 1 .. Len(inverted)
      <4>1. k \in pos + 1 .. Len(s) /\ inverted'[i] = inverted[i]
        BY <1>10, <1>11, <1>17, <3>1
      <4> QED
        BY <1>21, <3>1, <4>1
    <3>2. CASE i = Len(inverted) + 1
      <4>1. inverted'[i].f = feature
        BY <1>17, <1>19, <3>2
      <4>2. end + 1 \in 1 .. Len(s) /\ end \in 1 .. Len(s) /\ end < Len(s) /\ k \in 1 .. Len(s)
            /\ end \in pos + 1 .. end
        BY <1>10, <1>11
      <4>3. s[end].f <= s[end + 1].f /\ s[end].f = feature /\ s[end + 1].f # feature
        BY <1>11, <1>21, <4>2 DEF Ordered
      <4>4. s[end + 1].f <= s[k].f
        <5>1. CASE k = end + 1
          BY <1>15, <4>2, <5>1
        <5>2. CASE k # end + 1
          BY <1>11, <1>21, <4>2, <5>2 DEF Ordered
        <5> QED
          BY <5>1, <5>2
      <4>5. s[end + 1].f \in Nat /\ s[k].f \in Nat
        BY <1>15, <4>2
      <4> QED
        BY SMTT(30), <1>15, <4>1, <4>3, <4>4, <4>5
    <3> QED
      BY <1>25, <3>1, <3>2
  <2>4. Count > 0 => Collected(s)'
    BY <1>9, <1>20, <1>21 DEF Collected
  <2>5. \A k \in 1 .. pos' : Listed(Sorted[k].f, Sorted[k].d)'
    BY <1>9, <1>20, <2>2 DEF Listed
  <2>6. \A i \in 1 .. Len(inverted'), k \in pos' + 1 .. Len(Sorted') : inverted'[i].f < Sorted'[k].f
    BY <1>9, <1>20, <2>3
  <2>7. pos' <= Len(Sorted') /\ Ordered(Sorted')
        /\ (Count' > 0 => Among(Sorted', Len(Sorted'), collected', Count'))
        /\ (Fits' => Among(collected', Count', Sorted', Len(Sorted')))
    BY <1>9, <1>11, <1>20, <1>21 DEF Collected
  <2> QED
    BY <2>5, <2>6, <2>7 DEF ListingInv, Collected, Ordered
<1>28. AdiInv'
  BY <1>9 DEF IInv, AdiInv
<1>29. ~Whole'
  BY <1>9 DEF Whole
<1> QED
  BY <1>9, <1>23, <1>24, <1>26, <1>27, <1>28, <1>29 DEF IInv, CollectInv, PresortInv, MergeInv, WholeInv
-----------------------------------------------------------------------------
(* The induction *)

THEOREM Induction == Spec => []IInv
<1>1. Init => IInv
  BY InitHolds
<1>2. IInv /\ [Next]_vars => IInv'
  <2> SUFFICES ASSUME IInv, [Next]_vars PROVE IInv'
    OBVIOUS
  <2>1. ASSUME UNCHANGED vars PROVE IInv'
    <3>1. UNCHANGED <<files, gen, phase, next, error, aux, page, pos, src, mergeSize, sums,
                      inverted, offset, adi, collected>>
      BY <2>1 DEF vars, sortVars, indexVars
    <3>2. /\ Count' = Count /\ (Fits' <=> Fits) /\ Wanted' = Wanted /\ Reached' = Reached
          /\ (PassNeeded' <=> PassNeeded) /\ Sorted' = Sorted /\ (Whole' <=> Whole)
      BY <3>1 DEF Count, Fits, Wanted, Reached, PassNeeded, Sorted, Whole, Fresh
    <3>3. TypeOK' /\ CollectInv' /\ AdiInv'
      BY <3>1 DEF IInv, TypeOK, CollectInv, AdiInv
    <3>4. GatheredInv'
      <4>1. Count' = Count
        BY <3>2
      <4> QED
        BY <3>1, <4>1 DEF IInv, GatheredInv, EntryOf, Entries, FeatureList
    <3>5. PresortInv'
      BY <3>1, <3>2 DEF IInv, PresortInv, Collected
    <3>6. MergeInv'
      BY <3>1, <3>2 DEF IInv, MergeInv, Collected
    <3>7. ListsInv'
      BY <3>1, <3>2 DEF IInv, ListsInv
    <3>8. ListingInv'
      BY <3>1, <3>2 DEF IInv, ListingInv, Collected, Listed, Ordered
    <3>9. WholeInv'
      BY <3>1, <3>2 DEF IInv, WholeInv, Listed
    <3> QED
      BY <3>3, <3>4, <3>5, <3>6, <3>7, <3>8, <3>9 DEF IInv
  <2> QED
    BY <2>1, OpenStep, CollectStep, StartSortStep, PresortStep, MergeStep, EndPassStep, EndSortStep,
       ListStep, CloseFilesStep, WriteADIStep, FinishStep, KillStep DEF Next, Generate
<1> QED
  BY <1>1, <1>2, PTL DEF Spec

\* In a complete index a feature and a document that are in a list are found by way
\* of the offset file.
LEMMA ListedIsIndexed ==
  ASSUME IInv, phase = "lists" \/ Whole, NEW f, NEW d, Listed(f, d)
  PROVE  Indexed(f, d) /\ inverted[IDToOffset[f]].f = f
<1>1. /\ Len(offset) = Len(inverted)
      /\ \A i \in 1 .. Len(inverted) : offset[i] = [f |-> inverted[i].f, at |-> i]
      /\ \A i, j \in 1 .. Len(inverted) : inverted[i].f = inverted[j].f => i = j
  BY DEF IInv, ListsInv
<1>2. /\ DOMAIN offset = 1 .. Len(inverted) /\ DOMAIN inverted = 1 .. Len(inverted)
      /\ Len(inverted) \in Nat /\ inverted \in Seq(Lists)
  BY <1>1 DEF IInv, TypeOK
<1>3. PICK i \in 1 .. Len(inverted) :
         \E n \in 1 .. Len(inverted[i].postings) : inverted[i].f = f /\ inverted[i].postings[n].d = d
  BY DEF Listed
<1>4. PICK n \in 1 .. Len(inverted[i].postings) : inverted[i].f = f /\ inverted[i].postings[n].d = d
  BY <1>3
<1>11. \A j \in 1 .. Len(inverted) : offset[j].f = inverted[j].f /\ offset[j].at = j
  <2>1. ASSUME NEW j \in 1 .. Len(inverted)
        PROVE  offset[j].f = inverted[j].f /\ offset[j].at = j
    <3>1. offset[j] = [f |-> inverted[j].f, at |-> j]
      BY <1>1
    <3> QED
      BY <3>1
  <2> QED
    BY <2>1
<1>5. offset[i].f = f /\ offset[i].at = i
  BY <1>4, <1>11
<1> DEFINE T == {j \in DOMAIN offset : offset[j].f = f}
<1>6. T = {i}
  <2>1. \A j \in 1 .. Len(inverted) : offset[j].f = inverted[j].f
    BY <1>11
  <2> QED
    BY <1>1, <1>2, <1>4, <1>5, <2>1
<1>7. Max(T) = i
  <2>1. T \subseteq Nat /\ T # {} /\ i \in Nat /\ \A m \in T : m <= i
    BY <1>6
  <2>2. Max(T) \in T
    <3> HIDE DEF T
    <3> QED
      BY <2>1, Largest
  <2> QED
    BY <1>6, <2>2
<1>8. f \in {element.f : element \in ToSet(offset)}
  BY <1>2, <1>5 DEF ToSet
<1>9. f \in DOMAIN IDToOffset /\ IDToOffset[f] = i
  <2>1. IDToOffset[f] = offset[Max(T)].at
    BY <1>8 DEF IDToOffset
  <2>2. DOMAIN IDToOffset = {element.f : element \in ToSet(offset)}
    BY DEF IDToOffset
  <2> HIDE DEF T
  <2> QED
    BY <1>5, <1>7, <1>8, <2>1, <2>2
<1>10. \E p \in ToSet(inverted[i].postings) : p.d = d
  <2>0. \A x \in Lists : x.postings \in Seq(Postings)
    BY DEF Lists
  <2>1. inverted[i].postings \in Seq(Postings)
    BY <1>2, <2>0
  <2>2. n \in DOMAIN inverted[i].postings
    BY <2>1
  <2> QED
    BY <1>4, <2>2 DEF ToSet
<1> QED
  BY <1>2, <1>4, <1>9, <1>10 DEF Indexed
-----------------------------------------------------------------------------
(* What the ADI has been added up of *)

\* The frequency of document d in a list; 0 if it is not there.
FrequencyIn(list, d) ==
  IF \E p \in ToSet(list.postings) : p.d = d
  THEN (CHOOSE p \in ToSet(list.postings) : p.d = d).w ELSE 0

\* What a list adds for document d to the squares, and to those with logarithms.
SquareIn(list, d) == FrequencyIn(list, d) * FrequencyIn(list, d)
LogSquareIn(list, d) ==
  (FrequencyIn(list, d) * LogICF[list.size]) * (FrequencyIn(list, d) * LogICF[list.size])

Squares(lists, d) == [i \in 1 .. Len(lists) |-> SquareIn(lists[i], d)]
LogSquares(lists, d) == [i \in 1 .. Len(lists) |-> LogSquareIn(lists[i], d)]

\* The total of the first n.
TotalTo(n, G) == Total(1 .. n, 1 .. n, G)

\* The sums of document d are those of the lists.
SumsOf(a, lists, d) ==
  /\ a.square = TotalTo(Len(lists), Squares(lists, d))
  /\ a.logICF = TotalTo(Len(lists), LogSquares(lists, d))
  /\ \A i \in 1 .. Len(lists) : FrequencyIn(lists[i], d) <= a.max
  /\ a.max = 0 \/ \E i \in 1 .. Len(lists) : FrequencyIn(lists[i], d) = a.max

\* A document is in a list once, and the frequencies decrease.
PostingsFit(ps) ==
  \A m, n \in 1 .. Len(ps) : m < n => ps[m].d # ps[n].d /\ ps[m].w >= ps[n].w

\* Lists are not empty, and in the order of their features.
PostingsInv ==
  phase \in {"lists", "adi", "done"} =>
    \A i \in 1 .. Len(inverted) :
      /\ inverted[i].size \in 1 .. Cardinality(Docs) /\ PostingsFit(inverted[i].postings)
      /\ \A j \in 1 .. Len(inverted) : i < j => inverted[i].f < inverted[j].f

\* The sums of the documents are those of the lists, and the ADI files get them.
SumsInv ==
  /\ phase \in {"collect", "presort", "merge"} => sums = [d \in Docs |-> NoSums]
  /\ phase \in {"lists", "adi", "done"} => \A d \in Docs : SumsOf(sums[d], inverted, d)
  /\ phase = "adi" => \A d \in Docs : d < next => adi[d].sums = sums[d]
  /\ phase = "done" => \A d \in Docs : adi[d].sums = sums[d]

-----------------------------------------------------------------------------
(* A chunk and its list *)

PerDocument(chunk) == \A p, q \in chunk : p.d = q.d => p = q

\* Of two entries for one document the first one stays.
LEMMA ChunkPerDocument ==
  ASSUME NEW run \in Seq(Triplets)
  PROVE  PerDocument(Chunk(run))
<1> DEFINE K == {k \in DOMAIN run : \A m \in 1 .. k - 1 : run[m].d # run[k].d}
<1>1. Chunk(run) = {Posting(run[k]) : k \in K}
  BY DEF Chunk
<1>2. \A k \in K : Posting(run[k]).d = run[k].d
  BY DEF Posting
<1>3. \A i, j \in K : run[i].d = run[j].d => i = j
  <2>1. \A i \in K : i \in 1 .. Len(run) /\ \A m \in 1 .. i - 1 : run[m].d # run[i].d
    OBVIOUS
  <2> SUFFICES ASSUME NEW i \in K, NEW j \in K, run[i].d = run[j].d PROVE i = j
    OBVIOUS
  <2> HIDE DEF K
  <2>2. ~(i < j) /\ ~(j < i)
    BY <2>1
  <2> QED
    BY <2>1, <2>2
<1> HIDE DEF K
<1> QED
  BY <1>1, <1>2, <1>3 DEF PerDocument

LEMMA PostingsOfChunk ==
  ASSUME NEW chunk, IsFiniteSet(chunk), chunk \subseteq Postings, PerDocument(chunk),
         NEW ps \in ByFrequency(chunk)
  PROVE  PostingsFit(ps)
<1>1. /\ ps \in [1 .. Cardinality(chunk) -> chunk]
      /\ \A i, j \in 1 .. Cardinality(chunk) : i # j => ps[i] # ps[j]
      /\ \A i, j \in 1 .. Cardinality(chunk) : i < j => ps[i].w >= ps[j].w
  BY DEF ByFrequency, SetToSeqs
<1>2. Len(ps) = Cardinality(chunk)
  BY ListOfChunk
<1>3. \A i, j \in 1 .. Cardinality(chunk) : i < j => ps[i].d # ps[j].d
  <2> SUFFICES ASSUME NEW i \in 1 .. Cardinality(chunk), NEW j \in 1 .. Cardinality(chunk), i < j
               PROVE  ps[i].d # ps[j].d
    OBVIOUS
  <2>1. i # j
    BY FS_CardinalityType
  <2> QED
    BY <1>1, <2>1 DEF PerDocument
<1> QED
  BY <1>1, <1>2, <1>3 DEF PostingsFit

\* In such a list a document has the frequency of its posting.
LEMMA FrequencyOfPosting ==
  ASSUME NEW list, list.postings \in Seq(Postings), PostingsFit(list.postings),
         NEW n \in 1 .. Len(list.postings)
  PROVE  FrequencyIn(list, list.postings[n].d) = list.postings[n].w
<1>1. PICK ps \in Seq(Postings) : ps = list.postings
  OBVIOUS
<1>2. PICK p : p = ps[n]
  OBVIOUS
<1>3. p \in ToSet(ps) /\ \A q \in ToSet(ps) : \E m \in 1 .. Len(ps) : q = ps[m]
  BY <1>1, <1>2 DEF ToSet
<1>4. \A q \in ToSet(ps) : q.d = p.d => q = p
  <2> SUFFICES ASSUME NEW q \in ToSet(ps), q.d = p.d PROVE q = p
    OBVIOUS
  <2>1. PICK m \in 1 .. Len(ps) : q = ps[m]
    BY <1>3
  <2>2. ~(m < n) /\ ~(n < m)
    BY <1>1, <1>2, <2>1 DEF PostingsFit
  <2> QED
    BY <1>1, <1>2, <2>1, <2>2
<1>5. (CHOOSE q \in ToSet(ps) : q.d = p.d) = p
  BY <1>3, <1>4
<1> QED
  BY <1>1, <1>2, <1>3, <1>5 DEF FrequencyIn

LEMMA FrequencyIsNumber ==
  ASSUME NEW list, list.postings \in Seq(Postings), NEW d
  PROVE  FrequencyIn(list, d) \in Nat
<1>1. \A p \in Postings : p.w \in Nat
  <2>1. \A x \in Frequencies \cup {0} : x \in Nat
    BY IndexGenerationAssumption
  <2> QED
    BY <2>1 DEF Postings
<1>2. ToSet(list.postings) \subseteq Postings
  BY DEF ToSet
<1>3. CASE \E p \in ToSet(list.postings) : p.d = d
  <2>1. PICK q \in ToSet(list.postings) : q = CHOOSE p \in ToSet(list.postings) : p.d = d
    BY <1>3
  <2> QED
    BY <1>1, <1>2, <1>3, <2>1 DEF FrequencyIn
<1>4. CASE ~\E p \in ToSet(list.postings) : p.d = d
  BY <1>4 DEF FrequencyIn
<1> QED
  BY <1>3, <1>4

\* A chunk has one posting of a document at most, so that the sums of the document
\* change once.
LEMMA ChunkAdds ==
  ASSUME NEW chunk, IsFiniteSet(chunk), PerDocument(chunk), NEW of, NEW d
  PROVE  /\ (\A p \in chunk : p.d = d => p.w = 0) => AfterChunk(of, d, chunk) = of
         /\ \A p \in chunk : p.d = d /\ p.w # 0 =>
              AfterChunk(of, d, chunk) = Added(of, p, Cardinality(chunk))
<1> DEFINE S == {p \in chunk : p.d = d /\ p.w # 0}
           n == Cardinality(chunk)
           r(p) == Added(of, p, n)
           t == [s \in SUBSET S |-> IF s = {} THEN of ELSE r(CHOOSE x \in s : TRUE)]
<1>1. AfterChunk(of, d, chunk) = (CHOOSE g : IsFold(g, S, of, n))[S]
  BY DEF AfterChunk, FoldSet, MapThenFoldSet, IsFold, Folding, Added
<1>2. \A p, q \in S : p = q
  BY DEF PerDocument
<1>3. \A g : IsFold(g, S, of, n) =>
        (S = {} => g[S] = of) /\ \A p \in S : g[S] = Added(of, p, n)
  <2> SUFFICES ASSUME NEW g, IsFold(g, S, of, n)
               PROVE  (S = {} => g[S] = of) /\ \A p \in S : g[S] = Added(of, p, n)
    OBVIOUS
  <2> HIDE DEF S, n
  <2>1. \A s \in SUBSET S : g[s] = Folding(g, s, of, n)
    BY DEF IsFold
  <2>2. g[{}] = of
    BY <2>1 DEF Folding
  <2>3. ASSUME NEW p \in S PROVE g[S] = Added(of, p, n)
    <3>1. (CHOOSE x \in S : TRUE) \in S
      OBVIOUS
    <3>2. (CHOOSE x \in S : TRUE) = p
      BY <1>2, <3>1
    <3>3. S \ {p} = {} /\ S # {}
      BY <1>2
    <3>4. g[S] = Folding(g, S, of, n)
      BY <2>1
    <3> QED
      BY <2>2, <3>2, <3>3, <3>4 DEF Folding
  <2> QED
    BY <2>2, <2>3
<1>4. \E g : IsFold(g, S, of, n)
  <2>1. IsFiniteSet(S)
    <3>1. S \in SUBSET chunk
      OBVIOUS
    <3> QED
      BY <3>1, FS_Subset
  <2> HIDE DEF S
  <2> QED
    BY <2>1, FoldingExists
<1>5. PICK g : g = CHOOSE h : IsFold(h, S, of, n)
  OBVIOUS
<1>6. IsFold(g, S, of, n)
  <2> HIDE DEF S, n
  <2> QED
    BY <1>4, <1>5
<1>7. AfterChunk(of, d, chunk) = g[S]
  BY <1>1, <1>5
<1> QED
  BY <1>3, <1>6, <1>7

\* One contribution more.
LEMMA TotalToNext ==
  ASSUME NEW n \in Nat, NEW G \in [1 .. n -> Nat], NEW H \in [1 .. n + 1 -> Nat],
         \A i \in 1 .. n : G[i] = H[i]
  PROVE  TotalTo(n + 1, H) = TotalTo(n, G) + H[n + 1] /\ TotalTo(n, G) \in Nat
<1> DEFINE U == 1 .. n + 1
           S == 1 .. n
<1>1. IsFiniteSet(U) /\ IsFiniteSet(S)
  <2>1. \A k \in Int : IsFiniteSet(1 .. k)
    BY FS_Interval
  <2> QED
    BY <2>1
<1>2. S \in SUBSET U /\ n + 1 \in U /\ n + 1 \notin S /\ S \cup {n + 1} = U
  OBVIOUS
<1> HIDE DEF U, S
<1>3. Total(S, S, G) = Total(U, S, H)
  BY <1>1, <1>2, TotalWithin DEF U, S
<1>4. Total(U, S \cup {n + 1}, H) = Total(U, S, H) + H[n + 1] /\ Total(U, S, H) \in Nat
  BY <1>1, <1>2, OneGainMore DEF U
<1> QED
  BY <1>2, <1>3, <1>4 DEF TotalTo, U, S

LEMMA MaxOfTwo ==
  ASSUME NEW x \in Nat, NEW y \in Nat
  PROVE  Max({x, y}) \in {x, y} /\ x <= Max({x, y}) /\ y <= Max({x, y})
<1>1. PICK T : T = {x, y}
  OBVIOUS
<1>2. T \subseteq Nat /\ T # {} /\ x + y \in Nat /\ \A k \in T : k <= x + y
  BY <1>1
<1>3. Max(T) \in T /\ \A k \in T : k <= Max(T)
  BY <1>2, Largest
<1> QED
  BY <1>1, <1>3

\* The sums after one posting.
LEMMA AddedFields ==
  ASSUME NEW a \in Sums, NEW p \in Postings, NEW n \in 1 .. Cardinality(Docs)
  PROVE  /\ Added(a, p, n).max = Max({a.max, p.w})
         /\ Added(a, p, n).square = a.square + p.w * p.w
         /\ Added(a, p, n).logICF = a.logICF + (p.w * LogICF[n]) * (p.w * LogICF[n])
<1>1. a = [max |-> a.max, square |-> a.square, logICF |-> a.logICF]
  BY DEF Sums
<1>2. PICK b : b = Adjusted(a, p.w)
  OBVIOUS
<1>3. b = [max |-> Max({a.max, p.w}), square |-> a.square + p.w * p.w, logICF |-> a.logICF]
  BY <1>1, <1>2, Zenon DEF Adjusted
<1>4. Added(a, p, n) = AdjustedLogICF(b, p.w, n)
  BY <1>2 DEF Added
<1>5. PICK x, y, z : /\ x = Max({a.max, p.w}) /\ y = a.square + p.w * p.w
                     /\ z = (p.w * LogICF[n]) * (p.w * LogICF[n])
  OBVIOUS
<1>6. b = [max |-> x, square |-> y, logICF |-> a.logICF]
  BY <1>3, <1>5
<1>7. Added(a, p, n) = [b EXCEPT !.logICF = @ + z]
  BY <1>4, <1>5 DEF AdjustedLogICF
<1>8. Added(a, p, n) = [max |-> x, square |-> y, logICF |-> a.logICF + z]
  BY <1>6, <1>7
<1> QED
  BY <1>5, <1>8

\* Lists have numbers in them.
LEMMA ListNumbers ==
  ASSUME NEW lists \in Seq(Lists), \A i \in 1 .. Len(lists) : lists[i].size \in 1 .. Cardinality(Docs),
         NEW d
  PROVE  /\ Squares(lists, d) \in [1 .. Len(lists) -> Nat]
         /\ LogSquares(lists, d) \in [1 .. Len(lists) -> Nat]
         /\ \A i \in 1 .. Len(lists) : FrequencyIn(lists[i], d) \in Nat
<1>1. ASSUME NEW i \in 1 .. Len(lists) PROVE FrequencyIn(lists[i], d) \in Nat
  <2>1. lists[i].postings \in Seq(Postings)
    <3>1. lists[i] \in Lists
      OBVIOUS
    <3> QED
      BY <3>1 DEF Lists
  <2> QED
    BY <2>1, FrequencyIsNumber
<1>2. \A x \in Nat : x * x \in Nat
  OBVIOUS
<1>3. \A x, y \in Nat : x * y \in Nat
  OBVIOUS
<1>4. ASSUME NEW i \in 1 .. Len(lists)
      PROVE  SquareIn(lists[i], d) \in Nat /\ LogSquareIn(lists[i], d) \in Nat
  <2>1. LogICF[lists[i].size] \in Nat
    BY IndexGenerationAssumption
  <2>2. FrequencyIn(lists[i], d) * LogICF[lists[i].size] \in Nat
    BY <1>1, <1>3, <2>1
  <2> QED
    BY <1>1, <1>2, <2>2 DEF SquareIn, LogSquareIn
<1> QED
  BY <1>1, <1>4 DEF Squares, LogSquares

\* A list more, and the sums after its chunk.
LEMMA SumsGrow ==
  ASSUME NEW lists \in Seq(Lists), \A i \in 1 .. Len(lists) : lists[i].size \in 1 .. Cardinality(Docs),
         NEW list \in Lists, list.size \in 1 .. Cardinality(Docs), PostingsFit(list.postings),
         NEW chunk, IsFiniteSet(chunk), PerDocument(chunk), list.size = Cardinality(chunk),
         \A p \in chunk : \E n \in 1 .. Len(list.postings) : list.postings[n] = p,
         \A n \in 1 .. Len(list.postings) : list.postings[n] \in chunk,
         NEW a \in Sums, NEW d, SumsOf(a, lists, d)
  PROVE  SumsOf(AfterChunk(a, d, chunk), Append(lists, list), d)
<1>1. PICK n \in Nat : n = Len(lists)
  OBVIOUS
<1>2. PICK new \in Seq(Lists) : new = Append(lists, list)
  BY Appended
<1>3. Len(new) = n + 1 /\ (\A i \in 1 .. n : new[i] = lists[i]) /\ new[n + 1] = list
  BY <1>1, <1>2, Appended
<1>4. \A i \in 1 .. Len(new) : new[i].size \in 1 .. Cardinality(Docs)
  <2>1. \A i \in 1 .. n + 1 : i \in 1 .. n \/ i = n + 1
    BY <1>1
  <2> QED
    BY <1>1, <1>3, <2>1
<1>5. /\ Squares(lists, d) \in [1 .. n -> Nat] /\ LogSquares(lists, d) \in [1 .. n -> Nat]
      /\ Squares(new, d) \in [1 .. n + 1 -> Nat] /\ LogSquares(new, d) \in [1 .. n + 1 -> Nat]
      /\ \A i \in 1 .. n + 1 : FrequencyIn(new[i], d) \in Nat
  BY <1>1, <1>3, <1>4, ListNumbers
<1>6. /\ \A i \in 1 .. n : /\ Squares(lists, d)[i] = Squares(new, d)[i]
                           /\ LogSquares(lists, d)[i] = LogSquares(new, d)[i]
      /\ Squares(new, d)[n + 1] = SquareIn(list, d)
      /\ LogSquares(new, d)[n + 1] = LogSquareIn(list, d)
  BY <1>1, <1>3 DEF Squares, LogSquares
<1>7. /\ TotalTo(n + 1, Squares(new, d)) = a.square + SquareIn(list, d)
      /\ TotalTo(n + 1, LogSquares(new, d)) = a.logICF + LogSquareIn(list, d)
  <2>1. /\ TotalTo(n + 1, Squares(new, d)) = TotalTo(n, Squares(lists, d)) + SquareIn(list, d)
        /\ TotalTo(n + 1, LogSquares(new, d)) = TotalTo(n, LogSquares(lists, d)) + LogSquareIn(list, d)
    <3>1. PICK G, K \in [1 .. n -> Nat] : G = Squares(lists, d) /\ K = LogSquares(lists, d)
      BY <1>5
    <3>2. PICK H, L \in [1 .. n + 1 -> Nat] : H = Squares(new, d) /\ L = LogSquares(new, d)
      BY <1>5
    <3>3. (\A i \in 1 .. n : G[i] = H[i]) /\ (\A i \in 1 .. n : K[i] = L[i])
      BY <1>6, <3>1, <3>2
    <3>4. TotalTo(n + 1, H) = TotalTo(n, G) + H[n + 1] /\ TotalTo(n + 1, L) = TotalTo(n, K) + L[n + 1]
      BY <3>3, TotalToNext
    <3> QED
      BY <1>6, <3>1, <3>2, <3>4
  <2>2. a.square = TotalTo(n, Squares(lists, d)) /\ a.logICF = TotalTo(n, LogSquares(lists, d))
    BY <1>1 DEF SumsOf
  <2> QED
    BY <2>1, <2>2
<1>8. PICK w \in Nat : w = FrequencyIn(list, d)
  <2>1. n + 1 \in 1 .. n + 1
    BY <1>1
  <2> QED
    BY <1>3, <1>5, <2>1
<1>9. SquareIn(list, d) = w * w /\ LogSquareIn(list, d) = (w * LogICF[list.size]) * (w * LogICF[list.size])
  BY <1>8 DEF SquareIn, LogSquareIn
<1>10. a.max \in Nat /\ a.square \in Nat /\ a.logICF \in Nat
  BY DEF Sums
<1>11. /\ \A i \in 1 .. n : FrequencyIn(new[i], d) <= a.max
       /\ a.max = 0 \/ \E i \in 1 .. n : FrequencyIn(new[i], d) = a.max
  BY <1>1, <1>3 DEF SumsOf
<1>12. \A i \in 1 .. n + 1 : i \in 1 .. n \/ i = n + 1
  BY <1>1
<1>13. n + 1 \in 1 .. n + 1 /\ \A i \in 1 .. n : i \in 1 .. n + 1
  BY <1>1
<1>14. list.postings \in Seq(Postings) /\ LogICF[list.size] \in Nat
  BY IndexGenerationAssumption DEF Lists
<1>15. \A p \in chunk : p \in Postings /\ FrequencyIn(list, p.d) = p.w
  <2> SUFFICES ASSUME NEW p \in chunk PROVE p \in Postings /\ FrequencyIn(list, p.d) = p.w
    OBVIOUS
  <2>1. PICK m \in 1 .. Len(list.postings) : list.postings[m] = p
    OBVIOUS
  <2>2. list.postings[m] \in Postings
    BY <1>14
  <2> QED
    BY <1>14, <2>1, <2>2, FrequencyOfPosting
<1>16. CASE w = 0
  <2>1. AfterChunk(a, d, chunk) = a
    <3>1. \A p \in chunk : p.d = d => p.w = 0
      BY <1>8, <1>15, <1>16
    <3> QED
      BY <3>1, ChunkAdds
  <2>2. SquareIn(list, d) = 0 /\ LogSquareIn(list, d) = 0
    <3>1. 0 * LogICF[list.size] = 0
      BY <1>14
    <3> QED
      BY <1>9, <1>16, <3>1
  <2>3. /\ \A i \in 1 .. n + 1 : FrequencyIn(new[i], d) <= a.max
        /\ a.max = 0 \/ \E i \in 1 .. n + 1 : FrequencyIn(new[i], d) = a.max
    <3>1. \A i \in 1 .. n + 1 : FrequencyIn(new[i], d) <= a.max
      <4>1. FrequencyIn(new[n + 1], d) <= a.max
        BY <1>3, <1>8, <1>10, <1>16
      <4> QED
        BY <1>11, <1>12, <4>1
    <3>2. a.max = 0 \/ \E i \in 1 .. n + 1 : FrequencyIn(new[i], d) = a.max
      BY <1>11, <1>13
    <3> QED
      BY <3>1, <3>2
  <2> QED
    BY <1>2, <1>3, <1>7, <1>10, <2>1, <2>2, <2>3 DEF SumsOf
<1>17. CASE w # 0
  <2>1. PICK p \in chunk : p.d = d
    <3>1. PICK q \in ToSet(list.postings) : q.d = d
      BY <1>8, <1>17 DEF FrequencyIn
    <3>2. PICK m \in 1 .. Len(list.postings) : q = list.postings[m]
      BY <1>14 DEF ToSet
    <3> QED
      BY <3>1, <3>2
  <2>2. p \in Postings /\ p.w = w
    BY <1>8, <1>15, <2>1
  <2>3. PICK b : b = AfterChunk(a, d, chunk)
    OBVIOUS
  <2>4. b = Added(a, p, list.size)
    BY <1>17, <2>1, <2>2, <2>3, ChunkAdds
  <2>5. /\ b.max = Max({a.max, w}) /\ b.square = a.square + w * w
        /\ b.logICF = a.logICF + (w * LogICF[list.size]) * (w * LogICF[list.size])
    BY <2>2, <2>4, AddedFields
  <2>6. Max({a.max, w}) \in {a.max, w} /\ a.max <= Max({a.max, w}) /\ w <= Max({a.max, w})
    BY <1>10, MaxOfTwo
  <2>7. b.max \in {a.max, w} /\ a.max <= b.max /\ w <= b.max /\ b.max \in Nat
    BY <1>10, <2>5, <2>6
  <2>8. /\ \A i \in 1 .. n + 1 : FrequencyIn(new[i], d) <= b.max
        /\ b.max = 0 \/ \E i \in 1 .. n + 1 : FrequencyIn(new[i], d) = b.max
    <3>1. ASSUME NEW i \in 1 .. n + 1 PROVE FrequencyIn(new[i], d) <= b.max
      <4>1. CASE i \in 1 .. n
        <5>1. FrequencyIn(new[i], d) \in Nat /\ FrequencyIn(new[i], d) <= a.max
          BY <1>5, <1>11, <4>1
        <5> QED
          BY <1>10, <2>7, <5>1
      <4>2. CASE i = n + 1
        BY <1>3, <1>8, <2>7, <4>2
      <4> QED
        BY <1>12, <4>1, <4>2
    <3> QED
      BY <1>3, <1>8, <1>11, <1>13, <2>7, <3>1
  <2>9. b.square = TotalTo(n + 1, Squares(new, d)) /\ b.logICF = TotalTo(n + 1, LogSquares(new, d))
    BY <1>7, <1>9, <2>5
  <2> QED
    BY <1>2, <1>3, <2>3, <2>8, <2>9 DEF SumsOf
<1> QED
  BY <1>16, <1>17

\* One list more.
LEMMA ListWritten ==
  ASSUME IInv, List
  PROVE  \E run \in Seq(Triplets), list \in Lists :
           /\ Len(run) > 0 /\ list.postings \in ByFrequency(Chunk(run))
           /\ list.size = Cardinality(Chunk(run))
           /\ inverted' = Append(inverted, list)
           /\ sums' = [d \in Docs |-> AfterChunk(sums[d], d, Chunk(run))]
           /\ \A i \in 1 .. Len(inverted) : inverted[i].f < list.f
<1>1. PICK s : s = Sorted
  OBVIOUS
<1>2. PICK end : end = RunEnd(s, pos)
  OBVIOUS
<1>3. PICK run : run = SubSeq(s, pos + 1, end)
  OBVIOUS
<1>4. PICK chunk : chunk = Chunk(run)
  OBVIOUS
<1>5. PICK feature : feature = s[pos + 1].f
  OBVIOUS
<1>6. PICK postings \in ByFrequency(chunk) :
        inverted' = Append(inverted, [f |-> feature, size |-> Cardinality(chunk), postings |-> postings])
  BY <1>1, <1>2, <1>3, <1>4, <1>5 DEF List
<1>7. PICK list : list = [f |-> feature, size |-> Cardinality(chunk), postings |-> postings]
  OBVIOUS
<1>8. /\ phase = "lists" /\ pos < Len(s)
      /\ sums' = [d \in Docs |-> AfterChunk(sums[d], d, chunk)]
  BY <1>1, <1>2, <1>3, <1>4 DEF List
<1>9. s \in Seq(Triplets) /\ pos \in Nat /\ Len(s) \in Nat
  BY <1>1, StateFacts DEF IInv
<1>10. end \in Nat /\ pos < end /\ end <= Len(s)
  <2>1. pos \in 0 .. Len(s) - 1
    BY <1>8, <1>9
  <2>2. end \in pos + 1 .. Len(s)
    BY <1>2, <1>9, <2>1, RunEnds
  <2> QED
    BY <1>9, <2>2
<1>11. run \in Seq(Triplets) /\ Len(run) > 0
  <2>1. Stretched(run, s, pos, end)
    BY <1>3, <1>9, <1>10, Stretch
  <2> QED
    BY <1>9, <1>10, <2>1 DEF Stretched
<1>12. /\ IsFiniteSet(chunk) /\ chunk \subseteq Postings
       /\ Cardinality(chunk) \in 1 .. Cardinality(Docs)
  BY <1>4, <1>11, ChunkOfRun
<1>13. postings \in Seq(Postings)
  BY <1>12, ListOfChunk
<1>14. pos + 1 \in 1 .. Len(s) /\ pos + 1 \in pos + 1 .. Len(s)
  BY <1>8, <1>9
<1>15. feature \in Features \cup {0}
  <2>1. s[pos + 1] \in Triplets
    BY <1>9, <1>14
  <2> QED
    BY <1>5, <2>1 DEF Triplets
<1>16. list \in Lists
  <2>1. Cardinality(chunk) \in Nat
    BY <1>12, FS_CardinalityType
  <2> QED
    BY <1>7, <1>13, <1>15, <2>1 DEF Lists
<1>17. \A i \in 1 .. Len(inverted) : inverted[i].f < feature
  BY <1>1, <1>5, <1>8, <1>14 DEF IInv, ListingInv
<1>18. list.f = feature /\ list.size = Cardinality(chunk) /\ list.postings = postings
  BY <1>7
<1> QED
  BY <1>4, <1>6, <1>7, <1>8, <1>11, <1>16, <1>17, <1>18

\* Nothing has been added up of nothing.
LEMMA NoSumsYet ==
  ASSUME NEW d
  PROVE  SumsOf(NoSums, <<>>, d)
<1>1. 1 .. 0 = {} /\ Len(<<>>) = 0
  OBVIOUS
<1>2. \A G : TotalTo(0, G) = Total({}, {}, G)
  BY <1>1 DEF TotalTo
<1>3. \A G \in [{} -> Nat] : Total({}, {}, G) = 0
  BY FS_EmptySet, TotalFacts
<1>4. Squares(<<>>, d) \in [{} -> Nat] /\ LogSquares(<<>>, d) \in [{} -> Nat]
  BY <1>1 DEF Squares, LogSquares
<1>5. NoSums.max = 0 /\ NoSums.square = 0 /\ NoSums.logICF = 0
  BY DEF NoSums
<1> QED
  BY <1>1, <1>2, <1>3, <1>4, <1>5 DEF SumsOf

\* What has been added up is that of the lists, whatever happens next.
LEMMA ListSums ==
  ASSUME IInv, PostingsInv, SumsInv, List
  PROVE  PostingsInv' /\ SumsInv'
<1>1. PICK run \in Seq(Triplets), list \in Lists :
           /\ Len(run) > 0 /\ list.postings \in ByFrequency(Chunk(run))
           /\ list.size = Cardinality(Chunk(run))
           /\ inverted' = Append(inverted, list)
           /\ sums' = [d \in Docs |-> AfterChunk(sums[d], d, Chunk(run))]
           /\ \A i \in 1 .. Len(inverted) : inverted[i].f < list.f
  BY ListWritten
<1>2. PICK chunk : chunk = Chunk(run)
  OBVIOUS
<1>3. /\ IsFiniteSet(chunk) /\ chunk \subseteq Postings /\ PerDocument(chunk)
      /\ Cardinality(chunk) \in 1 .. Cardinality(Docs)
  BY <1>1, <1>2, ChunkOfRun, ChunkPerDocument
<1>4. /\ list.postings \in Seq(Postings)
      /\ \A p \in chunk : \E n \in 1 .. Len(list.postings) : list.postings[n] = p
      /\ \A n \in 1 .. Len(list.postings) : list.postings[n] \in chunk
  BY <1>1, <1>2, <1>3, ListOfChunk
<1>5. PostingsFit(list.postings)
  BY <1>1, <1>2, <1>3, PostingsOfChunk
<1>6. phase = "lists" /\ phase' = "lists"
  BY DEF List
<1>7. inverted \in Seq(Lists) /\ sums \in [Docs -> Sums]
  BY DEF IInv, TypeOK
<1>8. /\ Len(inverted') = Len(inverted) + 1 /\ Len(inverted) \in Nat
      /\ \A i \in 1 .. Len(inverted) : inverted'[i] = inverted[i]
      /\ inverted'[Len(inverted) + 1] = list
  BY <1>1, <1>7, Appended
<1>9. \A i \in 1 .. Len(inverted) : inverted[i].size \in 1 .. Cardinality(Docs)
  BY <1>6 DEF PostingsInv
<1>10. PostingsInv'
  <2>1. \A i \in 1 .. Len(inverted') : i \in 1 .. Len(inverted) \/ i = Len(inverted) + 1
    BY <1>8
  <2>2. ASSUME NEW i \in 1 .. Len(inverted')
        PROVE  inverted'[i].size \in 1 .. Cardinality(Docs) /\ PostingsFit(inverted'[i].postings)
    <3>1. CASE i \in 1 .. Len(inverted)
      BY <1>6, <1>8, <3>1 DEF PostingsInv
    <3>2. CASE i = Len(inverted) + 1
      BY <1>1, <1>2, <1>3, <1>5, <1>8, <3>2
    <3> QED
      BY <2>1, <3>1, <3>2
  <2>3. ASSUME NEW i \in 1 .. Len(inverted'), NEW j \in 1 .. Len(inverted'), i < j
        PROVE  inverted'[i].f < inverted'[j].f
    <3>1. i \in 1 .. Len(inverted)
      BY <1>8, <2>3
    <3>2. CASE j \in 1 .. Len(inverted)
      BY <1>6, <1>8, <2>3, <3>1, <3>2 DEF PostingsInv
    <3>3. CASE j = Len(inverted) + 1
      BY <1>1, <1>8, <3>1, <3>3
    <3> QED
      BY <2>1, <3>2, <3>3
  <2> QED
    BY <2>2, <2>3 DEF PostingsInv, PostingsFit
<1>11. ASSUME NEW d \in Docs PROVE SumsOf(sums'[d], inverted', d)
  <2>1. SumsOf(sums[d], inverted, d) /\ sums[d] \in Sums
    BY <1>6, <1>7 DEF SumsInv
  <2>2. sums'[d] = AfterChunk(sums[d], d, chunk)
    BY <1>1, <1>2
  <2>3. SumsOf(AfterChunk(sums[d], d, chunk), Append(inverted, list), d)
    <3>1. PICK a \in Sums : a = sums[d]
      BY <2>1
    <3> QED
      BY <1>1, <1>2, <1>3, <1>4, <1>5, <1>7, <1>9, <2>1, <3>1, SumsGrow
  <2> QED
    BY <1>1, <2>2, <2>3
<1>12. SumsInv'
  BY <1>6, <1>11 DEF SumsInv, SumsOf, Squares, LogSquares, FrequencyIn, SquareIn, LogSquareIn
<1> QED
  BY <1>10, <1>12

\* Before the lists are written there is nothing to be said of them.
LEMMA SortSums ==
  ASSUME IInv, PostingsInv, SumsInv,
         Open \/ Collect \/ StartSort \/ Presort \/ Merge \/ EndPass \/ EndSort
  PROVE  PostingsInv' /\ SumsInv'
<1>1. CASE Open
  <2>1. phase' = "collect" /\ sums' = [d \in Docs |-> NoSums]
    BY <1>1 DEF Open
  <2> QED
    BY <2>1 DEF PostingsInv, SumsInv
<1>2. CASE Collect \/ StartSort \/ Presort \/ Merge \/ EndPass
  <2>1. /\ phase \in {"collect", "presort", "merge"} /\ phase' \in {"collect", "presort", "merge"}
        /\ sums' = sums
    BY <1>2 DEF Collect, StartSort, Presort, Merge, EndPass
  <2> QED
    BY <2>1 DEF PostingsInv, SumsInv
<1>3. CASE EndSort
  <2>1. phase = "merge" /\ phase' = "lists" /\ sums' = sums /\ inverted' = inverted
    BY <1>3 DEF EndSort, indexVars
  <2>2. inverted = <<>> /\ sums = [d \in Docs |-> NoSums]
    BY <2>1 DEF IInv, CollectInv, SumsInv
  <2>3. 1 .. Len(inverted') = {}
    BY <2>1, <2>2
  <2>4. PostingsInv'
    BY <2>3 DEF PostingsInv
  <2>5. \A d \in Docs : SumsOf(sums'[d], inverted', d)
    BY <2>1, <2>2, NoSumsYet
  <2> QED
    BY <2>1, <2>4, <2>5 DEF SumsInv, SumsOf, Squares, LogSquares, FrequencyIn, SquareIn, LogSquareIn
<1> QED
  BY <1>1, <1>2, <1>3

\* After that they stay as they are, and each document gets its sums.
LEMMA AdiSums ==
  ASSUME IInv, PostingsInv, SumsInv, CloseFiles \/ WriteADI \/ Finish
  PROVE  PostingsInv' /\ SumsInv'
<1>1. /\ phase \in {"lists", "adi"} /\ phase' \in {"adi", "done"}
      /\ sums' = sums /\ inverted' = inverted
  BY DEF CloseFiles, WriteADI, Finish, indexVars
<1>2. PostingsInv'
  BY <1>1 DEF PostingsInv, PostingsFit
<1>3. \A d \in Docs : SumsOf(sums'[d], inverted', d)
  BY <1>1 DEF SumsInv
<1>4. phase' = "adi" => \A d \in Docs : d < next' => adi'[d].sums = sums'[d]
  <2>1. CASE CloseFiles
    <3>1. next' = 0 /\ \A d \in Docs : ~(d < 0)
      BY <2>1, ConstantFacts DEF CloseFiles
    <3> QED
      BY <3>1
  <2>2. CASE WriteADI
    <3>1. /\ phase = "adi" /\ next \in Docs /\ next' = next + 1
          /\ adi' = [adi EXCEPT ![next] = [gen |-> gen, sums |-> sums[next]]]
          /\ adi \in [Docs -> ADIFiles]
      BY <2>2 DEF WriteADI, IInv, TypeOK
    <3>2. \A d \in Docs : adi'[d] = IF d = next THEN [gen |-> gen, sums |-> sums[next]] ELSE adi[d]
      BY <3>1
    <3>3. \A d \in Docs : d < next + 1 => d = next \/ d < next
      BY <3>1, ConstantFacts
    <3>4. \A d \in Docs : d < next => adi[d].sums = sums[d]
      BY <3>1 DEF SumsInv
    <3>5. adi'[next].sums = sums[next]
      BY <3>1, <3>2
    <3> QED
      BY <1>1, <3>1, <3>2, <3>3, <3>4, <3>5
  <2>3. CASE Finish
    BY <2>3 DEF Finish
  <2> QED
    BY <2>1, <2>2, <2>3
<1>5. phase' = "done" => \A d \in Docs : adi'[d].sums = sums'[d]
  <2> SUFFICES ASSUME phase' = "done" PROVE \A d \in Docs : adi'[d].sums = sums'[d]
    OBVIOUS
  <2>1. Finish
    BY DEF CloseFiles, WriteADI
  <2>2. phase = "adi" /\ next \notin Docs /\ adi' = adi
    BY <2>1 DEF Finish, indexVars
  <2>3. next = Cardinality(Docs)
    BY <2>2 DEF IInv, TypeOK
  <2>4. \A d \in Docs : d < next
    BY <2>3, ConstantFacts
  <2> QED
    BY <1>1, <2>2, <2>4 DEF SumsInv
<1> QED
  BY <1>1, <1>2, <1>3, <1>4, <1>5
     DEF SumsInv, SumsOf, Squares, LogSquares, FrequencyIn, SquareIn, LogSquareIn

LEMMA SumsNext ==
  ASSUME IInv, PostingsInv, SumsInv, [Next]_vars
  PROVE  PostingsInv' /\ SumsInv'
<1>1. CASE Kill
  <2>1. phase' = "off"
    BY <1>1 DEF Kill
  <2> QED
    BY <2>1 DEF PostingsInv, SumsInv
<1>2. CASE UNCHANGED vars
  <2>1. UNCHANGED <<phase, next, sums, inverted, adi>>
    BY <1>2 DEF vars, sortVars, indexVars
  <2>2. PostingsInv'
    BY <2>1 DEF PostingsInv, PostingsFit
  <2>3. SumsInv'
    <3>1. /\ phase' = phase /\ next' = next /\ sums' = sums /\ inverted' = inverted /\ adi' = adi
      BY <2>1
    <3>2. \A d \in Docs : SumsOf(sums'[d], inverted', d) <=> SumsOf(sums[d], inverted, d)
      BY <3>1
    <3>3. SumsInv' <=>
            /\ phase' \in {"collect", "presort", "merge"} => sums' = [d \in Docs |-> NoSums]
            /\ phase' \in {"lists", "adi", "done"} => \A d \in Docs : SumsOf(sums'[d], inverted', d)
            /\ phase' = "adi" => \A d \in Docs : d < next' => adi'[d].sums = sums'[d]
            /\ phase' = "done" => \A d \in Docs : adi'[d].sums = sums'[d]
      BY DEF SumsInv, SumsOf, Squares, LogSquares, FrequencyIn, SquareIn, LogSquareIn
    <3> QED
      BY <3>1, <3>2, <3>3 DEF SumsInv
  <2> QED
    BY <2>2, <2>3
<1> QED
  BY <1>1, <1>2, SortSums, ListSums, AdiSums DEF Next, Generate

LEMMA SumsHold == Spec => [](IInv /\ PostingsInv /\ SumsInv)
<1>1. Init => PostingsInv /\ SumsInv
  BY DEF Init, PostingsInv, SumsInv
<1>2. IInv /\ PostingsInv /\ SumsInv /\ [Next]_vars => PostingsInv' /\ SumsInv'
  BY SumsNext
<1> QED
  BY <1>1, <1>2, Induction, PTL DEF Spec

\* If no file has been faulty, those that have been read have the entries they count.
ReadInv ==
  phase # "off" /\ ~error =>
    \A d \in Docs : phase # "collect" \/ d < next => files[d].count <= Len(files[d].body)

LEMMA ReadNext ==
  ASSUME IInv, ReadInv, [Next]_vars
  PROVE  ReadInv'
<1>1. CASE Open
  <2>1. phase' = "collect" /\ next' = 0 /\ \A d \in Docs : ~(d < 0)
    BY <1>1, ConstantFacts DEF Open
  <2> QED
    BY <2>1 DEF ReadInv
<1>2. CASE Collect
  <2>1. /\ phase = "collect" /\ phase' = phase /\ next \in Docs /\ next' = next + 1 /\ files' = files
        /\ error' = (error \/ ~files[next].there \/ files[next].count > Len(files[next].body))
    BY <1>2 DEF Collect
  <2>2. SUFFICES ASSUME ~error', NEW d \in Docs, d < next + 1
                 PROVE  files[d].count <= Len(files[d].body)
    BY <2>1 DEF ReadInv
  <2>3. ~error /\ ~(files[next].count > Len(files[next].body))
    BY <2>1, <2>2
  <2>4. d = next \/ d < next
    BY <2>1, <2>2, ConstantFacts
  <2>5. CASE d = next
    <3>1. files[d].count \in Nat /\ Len(files[d].body) \in Nat
      <4>1. files \in [Docs -> FeatureFiles]
        BY IndexGenerationAssumption DEF IInv, TypeOK
      <4>2. files[d] \in FeatureFiles
        BY <4>1
      <4> QED
        BY <4>2 DEF FeatureFiles
    <3> QED
      BY <2>3, <2>5, <3>1
  <2>6. CASE d < next
    BY <2>1, <2>3, <2>6 DEF ReadInv
  <2> QED
    BY <2>4, <2>5, <2>6
<1>3. CASE StartSort
  <2>1. phase = "collect" /\ next = Cardinality(Docs) /\ files' = files /\ error' = error
    BY <1>3 DEF StartSort, IInv, TypeOK
  <2>2. \A d \in Docs : d < next
    BY <2>1, ConstantFacts
  <2> QED
    BY <2>1, <2>2 DEF ReadInv
<1>4. CASE Kill
  <2>1. phase' = "off"
    BY <1>4 DEF Kill
  <2> QED
    BY <2>1 DEF ReadInv
<1>5. CASE Presort \/ Merge \/ EndPass \/ EndSort \/ List \/ CloseFiles \/ WriteADI \/ Finish
  <2>1. phase \notin {"off", "collect"} /\ files' = files /\ error' = error
    BY <1>5 DEF Presort, Merge, EndPass, EndSort, List, CloseFiles, WriteADI, Finish
  <2> QED
    BY <2>1 DEF ReadInv
<1>6. CASE UNCHANGED vars
  BY <1>6 DEF vars, ReadInv
<1> QED
  BY <1>1, <1>2, <1>3, <1>4, <1>5, <1>6 DEF Next, Generate

LEMMA IndexInduction == Spec => [](IInv /\ PostingsInv /\ SumsInv /\ ReadInv)
<1>1. Init => ReadInv
  BY DEF Init, ReadInv
<1>2. IInv /\ ReadInv /\ [Next]_vars => ReadInv'
  BY ReadNext
<1> QED
  BY <1>1, <1>2, SumsHold, PTL DEF Spec

-----------------------------------------------------------------------------
(* A finished index *)

\* The program is done with a collection without faulty files.
Done == phase = "done" /\ ~error /\ Count > 0

\* The frequency of feature f in document d, if it is in its file.
IsEntry(f, d, w) == [f |-> f, w |-> w] \in Entries(d)

LEMMA EntriesOfFiles ==
  ASSUME IInv, ReadInv, Done, NEW d \in Docs
  PROVE  /\ FeatureList(d) \in Seq([f : Features, w : Frequencies])
         /\ \A e \in Entries(d) : /\ e = [f |-> e.f, w |-> e.w] /\ e.f \in Features /\ e.w \in Frequencies
                                  /\ \E k \in 1 .. Len(FeatureList(d)) : FeatureList(d)[k] = e
         /\ \A k \in 1 .. Len(FeatureList(d)) : FeatureList(d)[k] \in Entries(d)
<1>1. files \in [Docs -> FeatureFiles]
  BY IndexGenerationAssumption DEF IInv, TypeOK
<1>2. files[d] \in FeatureFiles
  BY <1>1
<1>3. PICK R : R = [f : Features, w : Frequencies]
  OBVIOUS
<1>4. PICK body \in Seq(R), n \in Nat : body = files[d].body /\ n = files[d].count
  BY <1>2, <1>3 DEF FeatureFiles
<1>5. n <= Len(body)
  BY <1>4 DEF ReadInv, Done
<1>6. PICK s : s = FeatureList(d)
  OBVIOUS
<1>7. s = SubSeq(body, 1, n)
  BY <1>4, <1>6 DEF FeatureList
<1>8. s \in Seq(R) /\ \A k \in 1 .. Len(s) : s[k] \in R
  BY <1>5, <1>7
<1>9. Entries(d) = {s[k] : k \in 1 .. Len(s)}
  BY <1>6, <1>8 DEF Entries, ToSet
<1>10. \A e \in R : e = [f |-> e.f, w |-> e.w] /\ e.f \in Features /\ e.w \in Frequencies
  BY <1>3
<1> QED
  BY <1>3, <1>6, <1>8, <1>9, <1>10

\* The lists of a finished index, and where their postings come from.
LEMMA DoneLists ==
  ASSUME IInv, PostingsInv, SumsInv, ReadInv, Done
  PROVE  /\ inverted \in Seq(Lists) /\ Len(inverted) \in Nat /\ Whole
         /\ \A i \in 1 .. Len(inverted) :
              /\ inverted[i] \in Lists /\ inverted[i].postings \in Seq(Postings)
              /\ Len(inverted[i].postings) = inverted[i].size
              /\ inverted[i].size \in 1 .. Cardinality(Docs)
              /\ PostingsFit(inverted[i].postings)
         /\ \A i, j \in 1 .. Len(inverted) :
              /\ i < j => inverted[i].f < inverted[j].f
              /\ inverted[i].f = inverted[j].f => i = j
<1>1. inverted \in Seq(Lists) /\ Len(inverted) \in Nat
  BY DEF IInv, TypeOK
<1>2. \A x \in Lists : x.postings \in Seq(Postings)
  BY DEF Lists
<1>3. \A i \in 1 .. Len(inverted) : inverted[i] \in Lists
  BY <1>1
<1>4. Whole
  BY DEF Whole, Done
<1>5. /\ \A i \in 1 .. Len(inverted) : Len(inverted[i].postings) = inverted[i].size
      /\ \A i, j \in 1 .. Len(inverted) : inverted[i].f = inverted[j].f => i = j
  BY <1>4 DEF IInv, ListsInv
<1>6. \A i \in 1 .. Len(inverted) :
        /\ inverted[i].size \in 1 .. Cardinality(Docs) /\ PostingsFit(inverted[i].postings)
        /\ \A j \in 1 .. Len(inverted) : i < j => inverted[i].f < inverted[j].f
  BY DEF PostingsInv, Done
<1> QED
  BY <1>1, <1>2, <1>3, <1>4, <1>5, <1>6

LEMMA DonePostings ==
  ASSUME IInv, PostingsInv, SumsInv, ReadInv, Done,
         NEW i \in 1 .. Len(inverted), NEW p \in ToSet(inverted[i].postings)
  PROVE  /\ p \in Postings /\ p.d \in Docs /\ p.w \in Frequencies /\ inverted[i].f \in Features
         /\ IsEntry(inverted[i].f, p.d, p.w)
         /\ FrequencyIn(inverted[i], p.d) = p.w
<1>1. inverted[i].postings \in Seq(Postings) /\ PostingsFit(inverted[i].postings) /\ Whole
  BY DoneLists
<1>2. PICK n \in 1 .. Len(inverted[i].postings) : p = inverted[i].postings[n]
  BY <1>1 DEF ToSet
<1>3. p \in Postings
  BY <1>1, <1>2
<1>4. p.d \in Docs
  BY <1>3 DEF Postings
<1>5. PICK k \in 1 .. Count : collected[k].f = inverted[i].f /\ Posting(collected[k]) = p
  BY <1>1, <1>2 DEF IInv, ListsInv, Done
<1>6. collected[k].d = p.d /\ collected[k].w = p.w
  BY <1>5 DEF Posting
<1>7. EntryOf(collected[k]) \in Entries(collected[k].d)
  BY DEF IInv, GatheredInv, Done
<1>8. IsEntry(inverted[i].f, p.d, p.w)
  BY <1>5, <1>6, <1>7 DEF EntryOf, IsEntry
<1>9. p.w \in Frequencies /\ inverted[i].f \in Features
  <2>1. PICK e \in Entries(p.d) : e = [f |-> inverted[i].f, w |-> p.w]
    BY <1>8 DEF IsEntry
  <2>2. e.f \in Features /\ e.w \in Frequencies
    BY <1>4, <2>1, EntriesOfFiles
  <2> QED
    BY <2>1, <2>2
<1>10. FrequencyIn(inverted[i], p.d) = p.w
  BY <1>1, <1>2, FrequencyOfPosting
<1> QED
  BY <1>3, <1>4, <1>8, <1>9, <1>10
-----------------------------------------------------------------------------
(* The sums of squares *)

SquareSum(W) == MapThenSumSet(LAMBDA w : w * w, W)

SquareAdding(g, W) ==
  [s \in SUBSET W |->
     IF s = {} THEN 0
     ELSE (CHOOSE x \in s : TRUE) * (CHOOSE x \in s : TRUE) + g[s \ {CHOOSE x \in s : TRUE}]]

\* The sum of the squares of one number, or of none.
LEMMA OneSquare ==
  ASSUME NEW W, \A x, y \in W : x = y, W \subseteq Nat
  PROVE  /\ W = {} => SquareSum(W) = 0
         /\ \A w \in W : SquareSum(W) = w * w
<1> DEFINE IsSum(g) == g = SquareAdding(g, W)
           t == [s \in SUBSET W |-> IF s = {} THEN 0
                                    ELSE (CHOOSE x \in s : TRUE) * (CHOOSE x \in s : TRUE) + 0]
<1>1. SquareSum(W) = (CHOOSE g : IsSum(g))[W]
  BY DEF SquareSum, MapThenSumSet, MapThenFoldSet, SquareAdding
<1>2. ASSUME NEW s \in SUBSET W, s # {}
      PROVE  /\ s \ {CHOOSE x \in s : TRUE} = {} /\ s \ {CHOOSE x \in s : TRUE} \in SUBSET W
             /\ (CHOOSE x \in s : TRUE) \in s
  <2>1. PICK x \in s : x = CHOOSE y \in s : TRUE
    BY <1>2
  <2>2. s \ {x} = {}
    OBVIOUS
  <2> QED
    BY <2>1, <2>2
<1>3. IsSum(t)
  <2>1. t[{}] = 0
    OBVIOUS
  <2>2. ASSUME NEW s \in SUBSET W, s # {}
        PROVE  t[s] = (CHOOSE x \in s : TRUE) * (CHOOSE x \in s : TRUE) + t[s \ {CHOOSE x \in s : TRUE}]
    <3>1. t[s \ {CHOOSE x \in s : TRUE}] = 0
      BY <1>2, <2>1, <2>2
    <3>2. t[s] = (CHOOSE x \in s : TRUE) * (CHOOSE x \in s : TRUE) + 0
      BY <2>2
    <3> HIDE DEF t
    <3> QED
      BY <3>1, <3>2
  <2>3. t = [s \in SUBSET W |-> t[s]]
    OBVIOUS
  <2> HIDE DEF t
  <2> QED
    BY <2>1, <2>2, <2>3 DEF SquareAdding
<1>4. PICK g : g = CHOOSE h : IsSum(h)
  OBVIOUS
<1>5. g = SquareAdding(g, W)
  <2>1. IsSum(g)
    <3> HIDE DEF IsSum, t
    <3> QED
      BY <1>3, <1>4
  <2> QED
    BY <2>1
<1>6. g[{}] = 0
  BY <1>5 DEF SquareAdding
<1>7. ASSUME NEW w \in W PROVE g[W] = w * w
  <2>1. PICK x \in W : x = CHOOSE y \in W : TRUE
    BY <1>7
  <2>2. x = w /\ W \ {x} = {} /\ W # {} /\ w * w \in Nat
    OBVIOUS
  <2>3. g[W] = x * x + g[W \ {x}]
    BY <1>5, <2>1, <2>2 DEF SquareAdding
  <2>4. g[W] = w * w + 0
    BY <1>6, <2>2, <2>3
  <2> QED
    BY <2>2, <2>4
<1>8. SquareSum(W) = g[W]
  BY <1>1, <1>4
<1> QED
  BY <1>6, <1>7, <1>8

\* The frequencies of document d in list i: one or none.
ws(i, d) == {p.w : p \in {q \in ToSet(inverted[i].postings) : q.d = d}}

ListSquares(d) == MapThenSumSet(LAMBDA i : SquareSum(ws(i, d)), DOMAIN inverted)

ListAdding(g, d) ==
  [s \in SUBSET DOMAIN inverted |->
     IF s = {} THEN 0
     ELSE SquareSum(ws(CHOOSE x \in s : TRUE, d)) + g[s \ {CHOOSE x \in s : TRUE}]]

LEMMA ListsAddUp ==
  ASSUME NEW d, NEW n \in Nat, DOMAIN inverted = 1 .. n, NEW G \in [1 .. n -> Nat],
         \A i \in 1 .. n : SquareSum(ws(i, d)) = G[i]
  PROVE  ListSquares(d) = TotalTo(n, G)
<1> DEFINE IsSum(g) == g = ListAdding(g, d)
           U == 1 .. n
           t == [s \in SUBSET U |-> Total(U, s, G)]
<1>1. ListSquares(d) = (CHOOSE g : IsSum(g))[DOMAIN inverted]
  BY DEF ListSquares, MapThenSumSet, MapThenFoldSet, ListAdding
<1>2. IsFiniteSet(U)
  BY FS_Interval, 1 \in Int, n \in Int
<1>3. IsSum(t)
  <2>1. ASSUME NEW s \in SUBSET U, s # {}
        PROVE  t[s] = SquareSum(ws(CHOOSE x \in s : TRUE, d)) + t[s \ {CHOOSE x \in s : TRUE}]
    <3>1. PICK x \in s : x = CHOOSE y \in s : TRUE
      BY <2>1
    <3>2. s \ {x} \in SUBSET U /\ x \in U
      OBVIOUS
    <3>3. SquareSum(ws(x, d)) = G[x] /\ G[x] \in Nat
      BY <3>2
    <3>4. Total(U, s, G) = Total(U, s \ {x}, G) + G[x] /\ Total(U, s \ {x}, G) \in Nat
      <4>1. PICK V : V = 1 .. n
        OBVIOUS
      <4>2. IsFiniteSet(V) /\ G \in [V -> Nat] /\ s \in SUBSET V /\ s \ {x} \in SUBSET V
        BY <1>2, <4>1
      <4>3. /\ \A S \in SUBSET V : Total(V, S, G) \in Nat
            /\ \A S \in SUBSET V : \A y \in S : Total(V, S, G) = Total(V, S \ {y}, G) + G[y]
        BY <4>2, TotalFacts
      <4>4. Total(V, s, G) = Total(V, s \ {x}, G) + G[x] /\ Total(V, s \ {x}, G) \in Nat
        <5> HIDE DEF t, U
        <5> QED
          BY <4>2, <4>3
      <4> QED
        BY <4>1, <4>4
    <3>5. t[s] = Total(U, s, G) /\ t[s \ {x}] = Total(U, s \ {x}, G)
      BY <3>2
    <3> HIDE DEF t, U
    <3>6. t[s] = SquareSum(ws(x, d)) + t[s \ {x}]
      BY <3>3, <3>4, <3>5
    <3> QED
      BY <3>1, <3>6
  <2>2. t[{}] = 0
    BY <1>2, TotalFacts
  <2>3. t = [s \in SUBSET DOMAIN inverted |-> t[s]]
    OBVIOUS
  <2>4. DOMAIN inverted = U
    OBVIOUS
  <2> HIDE DEF t, U
  <2> QED
    BY <2>1, <2>2, <2>3, <2>4 DEF ListAdding
<1>4. PICK g : g = CHOOSE h : IsSum(h)
  OBVIOUS
<1>5. IsSum(g)
  <2> HIDE DEF IsSum, t
  <2> QED
    BY <1>3, <1>4
<1>6. g[U] = Total(U, U, G)
  <2>1. g[{}] = 0
    BY <1>5 DEF ListAdding
  <2>2. ASSUME NEW s \in SUBSET U, s # {}
        PROVE  \E x \in s : g[s \ {x}] \in Nat => g[s] = g[s \ {x}] + G[x]
    <3>1. PICK x \in s : x = CHOOSE y \in s : TRUE
      BY <2>2
    <3>2. g[s] = SquareSum(ws(x, d)) + g[s \ {x}]
      BY <1>5, <2>2, <3>1 DEF ListAdding
    <3>3. SquareSum(ws(x, d)) = G[x] /\ G[x] \in Nat
      OBVIOUS
    <3>4. g[s \ {x}] \in Nat => g[s] = g[s \ {x}] + G[x]
      BY <3>2, <3>3
    <3> QED
      BY <3>4
  <2>3. AddsUp(g, U, G)
    BY <2>1, <2>2 DEF AddsUp
  <2>4. U \in SUBSET U
    OBVIOUS
  <2> HIDE DEF U
  <2> QED
    BY <1>2, <2>3, <2>4, TotalIsUnique DEF U
<1> QED
  BY <1>1, <1>4, <1>6 DEF TotalTo

\* The squares in the ADI are those of the postings.
LEMMA DoneSquares ==
  ASSUME IInv, PostingsInv, SumsInv, ReadInv, Done, NEW d \in Docs
  PROVE  adi[d].sums.square = ListSquares(d)
<1>1. PICK n \in Nat : n = Len(inverted)
  BY DoneLists
<1>2. DOMAIN inverted = 1 .. n /\ Squares(inverted, d) \in [1 .. n -> Nat]
  <2>1. \A i \in 1 .. n : inverted[i].size \in 1 .. Cardinality(Docs)
    BY <1>1, DoneLists
  <2> QED
    BY <1>1, <2>1, DoneLists, ListNumbers
<1>3. ASSUME NEW i \in 1 .. n PROVE SquareSum(ws(i, d)) = Squares(inverted, d)[i]
  <2>1. PICK w : w = FrequencyIn(inverted[i], d)
    OBVIOUS
  <2>2. \A p \in ToSet(inverted[i].postings) : p.d = d => p.w = w /\ p.w \in Nat
    <3>1. \A x \in Frequencies : x \in Nat
      BY IndexGenerationAssumption
    <3> QED
      BY <1>1, <2>1, <3>1, DonePostings
  <2>3. (\A x, y \in ws(i, d) : x = y) /\ ws(i, d) \subseteq Nat /\ ws(i, d) \subseteq {w}
    BY <2>2 DEF ws
  <2>4. CASE ws(i, d) = {}
    <3>1. ~\E p \in ToSet(inverted[i].postings) : p.d = d
      BY <2>4 DEF ws
    <3>2. w = 0
      BY <2>1, <3>1 DEF FrequencyIn
    <3>3. SquareSum(ws(i, d)) = 0
      BY <2>3, <2>4, OneSquare
    <3>4. Squares(inverted, d)[i] = w * w
      BY <1>1, <2>1 DEF Squares, SquareIn
    <3> QED
      BY <3>2, <3>3, <3>4
  <2>5. CASE ws(i, d) # {}
    <3>1. w \in ws(i, d)
      BY <2>3, <2>5
    <3>2. SquareSum(ws(i, d)) = w * w
      BY <2>3, <3>1, OneSquare
    <3> QED
      BY <1>1, <2>1, <3>2 DEF Squares, SquareIn
  <2> QED
    BY <2>4, <2>5
<1>4. ListSquares(d) = TotalTo(n, Squares(inverted, d))
  <2>1. PICK G \in [1 .. n -> Nat] : G = Squares(inverted, d)
    BY <1>2
  <2> QED
    BY <1>2, <1>3, <2>1, ListsAddUp
<1>5. adi[d].sums = sums[d] /\ SumsOf(sums[d], inverted, d)
  BY DEF SumsInv, Done
<1> QED
  BY <1>1, <1>4, <1>5 DEF SumsOf

\* No frequency in the list is above that in the ADI.
LEMMA DoneMaximum ==
  ASSUME IInv, PostingsInv, SumsInv, ReadInv, Done,
         NEW i \in 1 .. Len(inverted), NEW p \in ToSet(inverted[i].postings)
  PROVE  adi[p.d].sums.max >= p.w
<1>1. p.d \in Docs /\ FrequencyIn(inverted[i], p.d) = p.w /\ p.w \in Nat
  <2>1. \A x \in Frequencies : x \in Nat
    BY IndexGenerationAssumption
  <2> QED
    BY <2>1, DonePostings
<1>2. adi[p.d].sums = sums[p.d] /\ SumsOf(sums[p.d], inverted, p.d) /\ sums[p.d].max \in Nat
  <2>1. sums[p.d] \in Sums
    BY <1>1 DEF IInv, TypeOK
  <2> QED
    BY <1>1, <2>1 DEF SumsInv, Done, Sums
<1>3. FrequencyIn(inverted[i], p.d) <= sums[p.d].max
  BY <1>2 DEF SumsOf
<1> QED
  BY <1>1, <1>2, <1>3
-----------------------------------------------------------------------------
(* The index that is made in memory *)

PlacesIn(d, f) == {i \in DOMAIN FeatureList(d) : FeatureList(d)[i].f = f}

\* The only place of a feature in a file.
LEMMA OnlyPlace ==
  ASSUME IInv, ReadInv, Done, NEW d \in Docs, OncePerFeature(d),
         NEW k \in 1 .. Len(FeatureList(d)), NEW f, FeatureList(d)[k].f = f
  PROVE  PlacesIn(d, f) = {k} /\ Min(PlacesIn(d, f)) = k
<1>1. FeatureList(d) \in Seq([f : Features, w : Frequencies])
  BY EntriesOfFiles
<1>2. DOMAIN FeatureList(d) = 1 .. Len(FeatureList(d)) /\ Len(FeatureList(d)) \in Nat
  <2>1. PICK R : R = [f : Features, w : Frequencies]
    OBVIOUS
  <2>2. FeatureList(d) \in Seq(R)
    BY <1>1, <2>1
  <2> QED
    BY <2>2
<1>3. PlacesIn(d, f) = {k}
  BY <1>2 DEF PlacesIn, OncePerFeature
<1>4. Min(PlacesIn(d, f)) = k
  <2>1. k \in Nat
    BY <1>2
  <2>2. (CHOOSE x \in {k} : \A y \in {k} : x <= y) = k
    BY <2>1
  <2> QED
    BY <1>3, <2>2 DEF Min
<1> QED
  BY <1>3, <1>4

\* Its chunk for a feature has what the files say of the feature.
LEMMA HashOfFeature ==
  ASSUME IInv, ReadInv, Done, \A d \in Docs : OncePerFeature(d)
  PROVE  /\ \A f : f \in DOMAIN InvertedFileHash <=> \E d \in Docs : \E e \in Entries(d) : e.f = f
         /\ \A f \in DOMAIN InvertedFileHash :
              InvertedFileHash[f] = {p \in Postings : IsEntry(f, p.d, p.w)}
<1>1. InvertedFileHash =
        [f \in {e.f : e \in UNION {Entries(d) : d \in Docs}} |->
           {[d |-> d, w |-> FeatureList(d)[Min(PlacesIn(d, f))].w] :
              d \in {doc \in Docs : PlacesIn(doc, f) # {}}}]
  BY DEF InvertedFileHash, Entries, PlacesIn
<1>2. DOMAIN InvertedFileHash = {e.f : e \in UNION {Entries(d) : d \in Docs}}
  BY <1>1
<1>3. ASSUME NEW f \in DOMAIN InvertedFileHash
      PROVE  InvertedFileHash[f] = {p \in Postings : IsEntry(f, p.d, p.w)}
  <2>1. PICK H : H = InvertedFileHash[f]
    OBVIOUS
  <2>2. H = {[d |-> d, w |-> FeatureList(d)[Min(PlacesIn(d, f))].w] :
               d \in {doc \in Docs : PlacesIn(doc, f) # {}}}
    BY <1>1, <1>2, <2>1
  <2>3. ASSUME NEW p \in H PROVE p \in Postings /\ IsEntry(f, p.d, p.w)
    <3>1. PICK d \in Docs : /\ PlacesIn(d, f) # {}
                            /\ p = [d |-> d, w |-> FeatureList(d)[Min(PlacesIn(d, f))].w]
      BY <2>2
    <3>2. PICK k \in 1 .. Len(FeatureList(d)) : FeatureList(d)[k].f = f
      <4>1. PICK R : R = [f : Features, w : Frequencies]
        OBVIOUS
      <4>2. FeatureList(d) \in Seq(R)
        BY <4>1, EntriesOfFiles
      <4> QED
        BY <3>1, <4>2 DEF PlacesIn
    <3>3. p = [d |-> d, w |-> FeatureList(d)[k].w]
      BY <3>1, <3>2, OnlyPlace
    <3>4. PICK e \in Entries(d) : e = FeatureList(d)[k]
      BY EntriesOfFiles
    <3>5. e = [f |-> e.f, w |-> e.w] /\ e.w \in Frequencies
      BY EntriesOfFiles
    <3>6. p.d = d /\ p.w = e.w /\ e.f = f
      BY <3>2, <3>3, <3>4
    <3>7. p \in Postings
      BY <3>3, <3>4, <3>5 DEF Postings
    <3>8. [f |-> f, w |-> p.w] \in Entries(d)
      BY <3>5, <3>6
    <3> QED
      BY <3>6, <3>7, <3>8 DEF IsEntry
  <2>4. ASSUME NEW p \in Postings, IsEntry(f, p.d, p.w) PROVE p \in H
    <3>1. PICK d \in Docs : d = p.d
      BY DEF Postings
    <3>2. PICK e \in Entries(d) : e = [f |-> f, w |-> p.w]
      BY <2>4, <3>1 DEF IsEntry
    <3>3. PICK k \in 1 .. Len(FeatureList(d)) : FeatureList(d)[k] = e
      BY EntriesOfFiles
    <3>4. e.f = f /\ e.w = p.w
      BY <3>2
    <3>5. PlacesIn(d, f) = {k} /\ Min(PlacesIn(d, f)) = k
      BY <3>3, <3>4, OnlyPlace
    <3>6. p = [d |-> d, w |-> FeatureList(d)[Min(PlacesIn(d, f))].w]
      <4>1. p = [d |-> p.d, w |-> p.w]
        BY DEF Postings
      <4> QED
        BY <3>1, <3>3, <3>4, <3>5, <4>1
    <3> QED
      BY <2>2, <3>5, <3>6
  <2> QED
    BY <2>1, <2>3, <2>4
<1>4. ASSUME NEW f
      PROVE  f \in DOMAIN InvertedFileHash <=> \E d \in Docs : \E e \in Entries(d) : e.f = f
  BY <1>2
<1> QED
  BY <1>3, <1>4

\* If the triplets fit the pages, a list has all postings of that chunk.
LEMMA ListHasChunk ==
  ASSUME IInv, PostingsInv, SumsInv, ReadInv, Done, Fits, \A d \in Docs : OncePerFeature(d),
         NEW i \in 1 .. Len(inverted)
  PROVE  /\ inverted[i].f \in DOMAIN InvertedFileHash
         /\ ToSet(inverted[i].postings) = InvertedFileHash[inverted[i].f]
         /\ inverted[i].size = Cardinality(InvertedFileHash[inverted[i].f])
         /\ inverted[i].postings \in ByFrequency(InvertedFileHash[inverted[i].f])
<1>1. PICK list \in Lists : list = inverted[i]
  BY DoneLists
<1>2. PICK ps \in Seq(Postings) : ps = list.postings
  BY <1>1, DoneLists
<1>3. PICK f : f = list.f
  OBVIOUS
<1>4. Len(ps) = list.size /\ list.size \in 1 .. Cardinality(Docs) /\ PostingsFit(ps) /\ Whole
  BY <1>1, <1>2, DoneLists
<1>5. \A p \in ToSet(ps) : p \in Postings /\ p.d \in Docs /\ IsEntry(f, p.d, p.w)
  BY <1>1, <1>2, <1>3, DonePostings
<1>6. ToSet(ps) = {ps[n] : n \in 1 .. Len(ps)} /\ Len(ps) \in Nat
  BY <1>2 DEF ToSet
<1>7. f \in DOMAIN InvertedFileHash
  <2>1. 1 \in 1 .. Len(ps)
    BY <1>4, ConstantFacts
  <2>2. PICK p \in ToSet(ps) : p = ps[1]
    BY <1>6, <2>1
  <2>3. PICK e \in Entries(p.d) : e = [f |-> f, w |-> p.w]
    BY <1>5 DEF IsEntry
  <2>4. e.f = f
    BY <2>3
  <2> QED
    BY <1>5, <2>3, <2>4, HashOfFeature
<1>8. PICK H : H = InvertedFileHash[f]
  OBVIOUS
<1>9. H = {p \in Postings : IsEntry(f, p.d, p.w)}
  BY <1>7, <1>8, HashOfFeature
<1>10. ASSUME NEW p \in H PROVE p \in ToSet(ps)
  <2>1. p \in Postings /\ p.d \in Docs /\ IsEntry(f, p.d, p.w)
    BY <1>9 DEF Postings
  <2>2. PICK e \in Entries(p.d) : e = [f |-> f, w |-> p.w]
    BY <2>1 DEF IsEntry
  <2>3. PICK k \in 1 .. Count : collected[k].d = p.d /\ collected[k].f = e.f
    BY <2>1 DEF IInv, GatheredInv, Done
  <2>4. Listed(f, p.d)
    BY <1>4, <2>2, <2>3 DEF IInv, WholeInv
  <2>5. PICK j \in 1 .. Len(inverted) :
          \E n \in 1 .. Len(inverted[j].postings) : inverted[j].f = f /\ inverted[j].postings[n].d = p.d
    BY <2>4 DEF Listed
  <2>6. j = i
    BY <1>1, <1>3, <2>5, DoneLists
  <2>7. PICK q \in ToSet(ps) : q.d = p.d
    BY <1>1, <1>2, <1>6, <2>5, <2>6
  <2>8. q.w = p.w
    <3>1. PICK c \in Entries(p.d) : c = [f |-> f, w |-> q.w]
      BY <1>5, <2>7 DEF IsEntry
    <3>2. PICK k1 \in 1 .. Len(FeatureList(p.d)) : FeatureList(p.d)[k1] = e
      BY <2>1, EntriesOfFiles
    <3>3. PICK k2 \in 1 .. Len(FeatureList(p.d)) : FeatureList(p.d)[k2] = c
      BY <2>1, EntriesOfFiles
    <3>4. PlacesIn(p.d, f) = {k1} /\ PlacesIn(p.d, f) = {k2}
      <4>1. FeatureList(p.d)[k1].f = f /\ FeatureList(p.d)[k2].f = f
        BY <2>2, <3>1, <3>2, <3>3
      <4> QED
        BY <2>1, <4>1, OnlyPlace
    <3>5. c = e
      BY <3>2, <3>3, <3>4
    <3> QED
      BY <2>2, <3>1, <3>5
  <2>9. q = p
    <3>1. q = [d |-> q.d, w |-> q.w] /\ p = [d |-> p.d, w |-> p.w]
      BY <1>5, <2>1 DEF Postings
    <3> QED
      BY <2>7, <2>8, <3>1
  <2> QED
    BY <2>9
<1>11. ToSet(ps) = H
  <2>1. \A p \in ToSet(ps) : p \in H
    BY <1>5, <1>9
  <2> QED
    BY <1>10, <2>1
<1>12. \A m, n \in 1 .. Len(ps) : m # n => ps[m] # ps[n]
  <2> SUFFICES ASSUME NEW m \in 1 .. Len(ps), NEW n \in 1 .. Len(ps), m # n PROVE ps[m] # ps[n]
    OBVIOUS
  <2>1. m < n \/ n < m
    BY <1>6
  <2> QED
    BY <1>4, <2>1 DEF PostingsFit
<1>13. IsFiniteSet(H) /\ Cardinality(H) = Len(ps)
  <2> DEFINE D == 1 .. Len(ps)
  <2>1. ps \in Bijection(D, H)
    <3>1. ps \in [D -> H]
      BY <1>6, <1>11
    <3>2. \A h \in H : \E n \in D : ps[n] = h
      BY <1>6, <1>11
    <3>3. IsInjective(ps)
      BY <1>6, <1>12 DEF IsInjective
    <3> QED
      BY <3>1, <3>2, <3>3 DEF Bijection, Injection, Surjection
  <2>2. IsFiniteSet(D) /\ Cardinality(D) = Len(ps)
    <3>1. PICK n \in Nat : n = Len(ps)
      BY <1>6
    <3>2. IsFiniteSet(1 .. n) /\ Cardinality(1 .. n) = IF 1 > n THEN 0 ELSE n - 1 + 1
      BY FS_Interval
    <3> QED
      BY <3>1, <3>2
  <2>3. ExistsBijection(D, H)
    BY <2>1 DEF ExistsBijection
  <2> QED
    BY <2>2, <2>3, FS_Bijection
<1>14. ps \in ByFrequency(H)
  <2>1. ps \in SetToSeqs(H)
    <3>1. ps \in [1 .. Cardinality(H) -> H]
      BY <1>6, <1>11, <1>13
    <3> QED
      BY <1>12, <1>13, <3>1 DEF SetToSeqs
  <2>2. \A m, n \in DOMAIN ps : m < n => ps[m].w >= ps[n].w
    BY <1>4 DEF PostingsFit
  <2> QED
    BY <2>1, <2>2 DEF ByFrequency
<1> QED
  BY <1>1, <1>2, <1>3, <1>4, <1>7, <1>8, <1>11, <1>13, <1>14

\* The lists are those generateInvertedFile would have written.
LEMMA DoneHash ==
  ASSUME IInv, PostingsInv, SumsInv, ReadInv, Done, Fits, \A d \in Docs : OncePerFeature(d)
  PROVE  /\ WrittenFromHash(inverted)
         /\ \A f \in DOMAIN InvertedFileHash : \E i \in 1 .. Len(inverted) : inverted[i].f = f
<1>1. DOMAIN inverted = 1 .. Len(inverted) /\ Whole
  BY DoneLists
<1>2. \A list \in ToSet(inverted) : \E i \in 1 .. Len(inverted) : list = inverted[i]
  BY <1>1 DEF ToSet
<1>3. \A i \in 1 .. Len(inverted) : inverted[i] \in ToSet(inverted)
  BY <1>1 DEF ToSet
<1>4. ASSUME NEW f \in DOMAIN InvertedFileHash
      PROVE  \E i \in 1 .. Len(inverted) : inverted[i].f = f
  <2>1. PICK d \in Docs : \E e \in Entries(d) : e.f = f
    BY HashOfFeature
  <2>2. PICK e \in Entries(d) : e.f = f
    BY <2>1
  <2>3. PICK k \in 1 .. Count : collected[k].d = d /\ collected[k].f = e.f
    BY DEF IInv, GatheredInv, Done
  <2>4. Listed(f, d)
    BY <1>1, <2>2, <2>3 DEF IInv, WholeInv
  <2> QED
    BY <2>4 DEF Listed
<1>5. {list.f : list \in ToSet(inverted)} = DOMAIN InvertedFileHash
  <2>1. \A i \in 1 .. Len(inverted) : inverted[i].f \in DOMAIN InvertedFileHash
    BY ListHasChunk
  <2>2. \A f \in DOMAIN InvertedFileHash : \E list \in ToSet(inverted) : f = list.f
    BY <1>3, <1>4
  <2>3. \A list \in ToSet(inverted) : list.f \in DOMAIN InvertedFileHash
    BY <1>2, <2>1
  <2> QED
    BY ZenonT(30), <2>2, <2>3
<1>6. \A i, j \in DOMAIN inverted : i < j => inverted[i].f < inverted[j].f
  BY <1>1, DoneLists
<1>7. \A list \in ToSet(inverted) :
        /\ list.size = Cardinality(InvertedFileHash[list.f])
        /\ list.postings \in ByFrequency(InvertedFileHash[list.f])
  BY <1>2, ListHasChunk
<1> QED
  BY <1>4, <1>5, <1>6, <1>7 DEF WrittenFromHash
-----------------------------------------------------------------------------
(* What generateInvertedFile adds up *)

LEMMA LargestOfMore ==
  ASSUME NEW A, A \subseteq Nat, A # {}, NEW b \in Nat, \A x \in A : x <= b,
         NEW w \in Nat, w <= b
  PROVE  Max({Max(A), w}) = Max(A \cup {w})
<1>1. Max(A) \in A /\ \A x \in A : x <= Max(A)
  BY Largest
<1>2. PICK B : B = A \cup {w}
  OBVIOUS
<1>3. B \subseteq Nat /\ B # {} /\ \A x \in B : x <= b
  BY <1>2
<1>4. Max(B) \in B /\ \A x \in B : x <= Max(B)
  BY <1>3, Largest
<1>5. PICK y \in Nat : y = Max(A)
  BY <1>1
<1>6. PICK z : z = Max({y, w})
  OBVIOUS
<1>7. z \in {y, w} /\ y <= z /\ w <= z
  BY <1>6, MaxOfTwo
<1>8. z \in B /\ \A x \in B : x <= z
  <2>1. z \in B
    BY <1>1, <1>2, <1>5, <1>7
  <2>2. ASSUME NEW x \in A PROVE x <= z
    <3>1. x <= y /\ x \in Nat
      BY <1>1, <1>5
    <3> QED
      BY <1>5, <1>7, <3>1
  <2> QED
    BY <1>2, <1>7, <2>1, <2>2
<1>9. Max(B) = z
  <2>1. PICK v : v = Max(B)
    OBVIOUS
  <2>2. v \in Nat /\ z \in Nat /\ v <= z /\ z <= v
    BY <1>3, <1>4, <1>8, <2>1
  <2> QED
    BY <2>1, <2>2
<1> QED
  BY <1>2, <1>5, <1>6, <1>9

\* adjustDF for the entries of a file.
ReadSums(F) == FoldLeft(LAMBDA a, e : Adjusted(a, e.w), NoSums, F)

Reads(g, F) ==
  [s \in SUBSET DOMAIN F |->
     IF s = {} THEN NoSums ELSE Adjusted(g[s \ {Max(s)}], F[Max(s)].w)]

SquareOf(W, m) == [k \in 1 .. m |-> W[k] * W[k]]
FrequenciesOf(W, s) == {0} \cup {W[k] : k \in s}
SumsRead(W, m, s) ==
  [max |-> Max(FrequenciesOf(W, s)), square |-> Total(1 .. m, s, SquareOf(W, m)), logICF |-> 0]

LEMMA SquaresAreNumbers ==
  ASSUME NEW m \in Nat, NEW W \in [1 .. m -> Nat]
  PROVE  SquareOf(W, m) \in [1 .. m -> Nat]
<1>1. \A x \in Nat : x * x \in Nat
  OBVIOUS
<1>2. \A k \in 1 .. m : W[k] \in Nat
  OBVIOUS
<1>3. \A k \in 1 .. m : W[k] * W[k] \in Nat
  BY <1>1, <1>2
<1> QED
  BY <1>3 DEF SquareOf

LEMMA SumsReadStep ==
  ASSUME NEW m \in Nat, NEW W \in [1 .. m -> Nat], NEW b \in Nat, \A k \in 1 .. m : W[k] <= b,
         NEW s \in SUBSET (1 .. m), NEW x \in s
  PROVE  SumsRead(W, m, s) = Adjusted(SumsRead(W, m, s \ {x}), W[x])
<1>1. PICK U : U = 1 .. m
  OBVIOUS
<1>2. IsFiniteSet(U)
  BY <1>1, FS_Interval, 1 \in Int /\ m \in Int
<1>3. PICK G \in [U -> Nat] : G = SquareOf(W, m)
  BY <1>1, SquaresAreNumbers
<1>4. Total(U, s, G) = Total(U, s \ {x}, G) + W[x] * W[x]
  <2>1. /\ \A S \in SUBSET U : \A y \in S : Total(U, S, G) = Total(U, S \ {y}, G) + G[y]
    BY <1>2, TotalFacts
  <2>2. G[x] = W[x] * W[x]
    BY <1>3 DEF SquareOf
  <2> QED
    BY <1>1, <2>1, <2>2
<1>5. Max({Max(FrequenciesOf(W, s \ {x})), W[x]}) = Max(FrequenciesOf(W, s))
  <2>1. PICK A : A = FrequenciesOf(W, s \ {x})
    OBVIOUS
  <2>2. A \cup {W[x]} = FrequenciesOf(W, s)
    BY <2>1 DEF FrequenciesOf
  <2>3. A \subseteq Nat /\ A # {} /\ \A y \in A : y <= b
    BY <2>1 DEF FrequenciesOf
  <2>4. W[x] \in Nat /\ W[x] <= b
    OBVIOUS
  <2>5. Max({Max(A), W[x]}) = Max(A \cup {W[x]})
    BY <2>3, <2>4, LargestOfMore
  <2> QED
    BY <2>1, <2>2, <2>5
<1>6. PICK u, v : u = Max(FrequenciesOf(W, s \ {x})) /\ v = Total(U, s \ {x}, G)
  OBVIOUS
<1>7. PICK a : a = SumsRead(W, m, s \ {x})
  OBVIOUS
<1>8. Adjusted(a, W[x]) = [max |-> Max({u, W[x]}), square |-> v + W[x] * W[x], logICF |-> 0]
  <2>1. a = [max |-> u, square |-> v, logICF |-> 0]
    BY <1>1, <1>3, <1>6, <1>7 DEF SumsRead
  <2>2. a.max = u /\ a.square = v
    BY <2>1
  <2>3. PICK y, z : y = Max({a.max, W[x]}) /\ z = a.square + W[x] * W[x]
    OBVIOUS
  <2>4. Adjusted(a, W[x]) = [[a EXCEPT !.max = y] EXCEPT !.square = z]
    BY <2>3, Zenon DEF Adjusted
  <2>5. [[a EXCEPT !.max = y] EXCEPT !.square = z] = [max |-> y, square |-> z, logICF |-> 0]
    <3>1. PICK c : c = [a EXCEPT !.max = y]
      OBVIOUS
    <3>2. c = [max |-> y, square |-> v, logICF |-> 0]
      BY <2>1, <3>1
    <3>3. [c EXCEPT !.square = z] = [max |-> y, square |-> z, logICF |-> 0]
      BY <3>2
    <3> QED
      BY <3>1, <3>3
  <2> QED
    BY <2>2, <2>3, <2>4, <2>5
<1>9. SumsRead(W, m, s) = [max |-> Max(FrequenciesOf(W, s)), square |-> Total(U, s, G), logICF |-> 0]
  BY <1>1, <1>3 DEF SumsRead
<1>10. Max({u, W[x]}) = Max(FrequenciesOf(W, s)) /\ v + W[x] * W[x] = Total(U, s, G)
  BY <1>4, <1>5, <1>6
<1> QED
  BY <1>7, <1>8, <1>9, <1>10

LEMMA SumsReadNothing ==
  ASSUME NEW m \in Nat, NEW W \in [1 .. m -> Nat]
  PROVE  SumsRead(W, m, {}) = NoSums
<1>1. FrequenciesOf(W, {}) = {0}
  BY DEF FrequenciesOf
<1>2. Max({0}) = 0
  <2>1. (CHOOSE x \in {0} : \A y \in {0} : x >= y) = 0
    OBVIOUS
  <2> QED
    BY <2>1 DEF Max
<1>3. Total(1 .. m, {}, SquareOf(W, m)) = 0
  <2>1. PICK U : U = 1 .. m
    OBVIOUS
  <2>2. IsFiniteSet(U)
    BY <2>1, FS_Interval, 1 \in Int /\ m \in Int
  <2>3. PICK G \in [U -> Nat] : G = SquareOf(W, m)
    BY <2>1, SquaresAreNumbers
  <2> QED
    BY <2>1, <2>2, <2>3, TotalFacts
<1> QED
  BY <1>1, <1>2, <1>3 DEF SumsRead, NoSums

LEMMA FileSums ==
  ASSUME NEW F, NEW m \in Nat, DOMAIN F = 1 .. m, NEW W \in [1 .. m -> Nat],
         \A k \in 1 .. m : F[k].w = W[k], NEW b \in Nat, \A k \in 1 .. m : W[k] <= b
  PROVE  ReadSums(F) = SumsRead(W, m, 1 .. m)
<1> DEFINE IsRead(g) == g = Reads(g, F)
           S == 1 .. m
           t == [s \in SUBSET S |-> SumsRead(W, m, s)]
<1>1. ReadSums(F) = (CHOOSE g : IsRead(g))[S]
  <2>1. DOMAIN F = S
    OBVIOUS
  <2>2. ReadSums(F) = (CHOOSE g : IsRead(g))[DOMAIN F]
    BY DEF ReadSums, FoldLeft, MapThenFoldSet, Reads
  <2> QED
    BY <2>1, <2>2
<1>2. \A s \in SUBSET S : s # {} => Max(s) \in s
  <2>1. \A s \in SUBSET S : s # {} => s \subseteq Nat /\ \A k \in s : k <= m
    OBVIOUS
  <2> HIDE DEF S
  <2> QED
    BY <2>1, Largest
<1>3. t[{}] = NoSums
  BY SumsReadNothing
<1>4. ASSUME NEW s \in SUBSET S, s # {}
      PROVE  /\ Max(s) \in s /\ s \ {Max(s)} \in SUBSET S
             /\ t[s] = Adjusted(t[s \ {Max(s)}], F[Max(s)].w)
  <2>1. PICK x \in s : x = Max(s)
    BY <1>2, <1>4
  <2>2. SumsRead(W, m, s) = Adjusted(SumsRead(W, m, s \ {x}), W[x])
    BY SumsReadStep
  <2>3. /\ s \ {x} \in SUBSET S /\ F[x].w = W[x]
        /\ t[s] = SumsRead(W, m, s)
        /\ t[s \ {x}] = SumsRead(W, m, s \ {x})
    OBVIOUS
  <2> HIDE DEF t, S
  <2> QED
    BY <2>1, <2>2, <2>3
<1>5. IsRead(t)
  <2>1. t = [s \in SUBSET DOMAIN F |-> t[s]]
    OBVIOUS
  <2>2. DOMAIN F = S
    OBVIOUS
  <2> HIDE DEF t, S
  <2> QED
    BY <1>3, <1>4, <2>1, <2>2 DEF Reads
<1>6. PICK g : g = CHOOSE h : IsRead(h)
  OBVIOUS
<1>7. IsRead(g)
  <2> HIDE DEF IsRead, t
  <2> QED
    BY <1>5, <1>6
<1>8. g[S] = t[S]
  <2>1. IsFiniteSet(S)
    BY FS_Interval, 1 \in Int /\ m \in Int
  <2>2. DOMAIN F = S
    OBVIOUS
  <2>3. PICK c : c = [s \in SUBSET S |-> Max(s)]
    OBVIOUS
  <2> HIDE DEF t, S
  <2>4. \A s \in SUBSET S : s # {} => c[s] \in s
    BY <1>2, <2>3
  <2>5. g[{}] = t[{}]
    BY <1>3, <1>7, <2>2 DEF Reads
  <2>6. ASSUME NEW s \in SUBSET S, s # {}, g[s \ {c[s]}] = t[s \ {c[s]}] PROVE g[s] = t[s]
    <3>1. g[s] = Adjusted(g[s \ {Max(s)}], F[Max(s)].w)
      BY <1>7, <2>2, <2>6 DEF Reads
    <3> QED
      BY <1>4, <2>3, <2>6, <3>1
  <2>7. \A s \in SUBSET S : s # {} /\ g[s \ {c[s]}] = t[s \ {c[s]}] => g[s] = t[s]
    BY <2>6
  <2>8. FoldAlike(g, t, c, S)
    BY <2>4, <2>5, <2>7 DEF FoldAlike
  <2> QED
    BY <2>1, <2>8, SameFold
<1> QED
  BY <1>1, <1>6, <1>8

\* adjustSquareDFLogICF for the posting of a document in a chunk.
ChunkLog(a, f, d) ==
  FoldSet(LAMBDA p, b : AdjustedLogICF(b, p.w, Cardinality(InvertedFileHash[f])),
          a, {p \in InvertedFileHash[f] : p.d = d /\ p.w # 0})

LogAdding(g, S, a, n) ==
  [s \in SUBSET S |->
     IF s = {} THEN a
     ELSE AdjustedLogICF(g[s \ {CHOOSE x \in s : TRUE}], (CHOOSE x \in s : TRUE).w, n)]

LEMMA OneLog ==
  ASSUME NEW a, NEW f, NEW d, \A p, q \in InvertedFileHash[f] : p.d = d /\ q.d = d => p = q
  PROVE  /\ (\A p \in InvertedFileHash[f] : p.d = d => p.w = 0) => ChunkLog(a, f, d) = a
         /\ \A p \in InvertedFileHash[f] : p.d = d /\ p.w # 0 =>
              ChunkLog(a, f, d) = AdjustedLogICF(a, p.w, Cardinality(InvertedFileHash[f]))
<1> DEFINE S == {p \in InvertedFileHash[f] : p.d = d /\ p.w # 0}
           n == Cardinality(InvertedFileHash[f])
           IsLog(g) == g = LogAdding(g, S, a, n)
           t == [s \in SUBSET S |-> IF s = {} THEN a
                                    ELSE AdjustedLogICF(a, (CHOOSE x \in s : TRUE).w, n)]
<1>1. ChunkLog(a, f, d) = (CHOOSE g : IsLog(g))[S]
  BY DEF ChunkLog, FoldSet, MapThenFoldSet, LogAdding
<1>2. \A p, q \in S : p = q
  OBVIOUS
<1>3. ASSUME NEW s \in SUBSET S, s # {}
      PROVE  /\ s \ {CHOOSE x \in s : TRUE} = {} /\ s \ {CHOOSE x \in s : TRUE} \in SUBSET S
             /\ (CHOOSE x \in s : TRUE) \in s
  <2> HIDE DEF S
  <2>1. PICK x \in s : x = CHOOSE y \in s : TRUE
    BY <1>3
  <2>2. s \ {x} = {}
    BY <1>2
  <2> QED
    BY <2>1, <2>2
<1>4. IsLog(t)
  <2>1. t[{}] = a
    OBVIOUS
  <2>2. ASSUME NEW s \in SUBSET S, s # {}
        PROVE  t[s] = AdjustedLogICF(t[s \ {CHOOSE x \in s : TRUE}], (CHOOSE x \in s : TRUE).w, n)
    <3>1. t[s \ {CHOOSE x \in s : TRUE}] = a
      BY <1>3, <2>1, <2>2
    <3>2. t[s] = AdjustedLogICF(a, (CHOOSE x \in s : TRUE).w, n)
      BY <2>2
    <3> HIDE DEF t, S, n
    <3> QED
      BY <3>1, <3>2
  <2>3. t = [s \in SUBSET S |-> t[s]]
    OBVIOUS
  <2> HIDE DEF t, S, n
  <2> QED
    BY <2>1, <2>2, <2>3 DEF LogAdding
<1>5. PICK g : g = CHOOSE h : IsLog(h)
  OBVIOUS
<1>6. g = LogAdding(g, S, a, n)
  <2>1. IsLog(g)
    <3> HIDE DEF IsLog, t
    <3> QED
      BY <1>4, <1>5
  <2> QED
    BY <2>1
<1>7. g[{}] = a
  <2> HIDE DEF S, n
  <2> QED
    BY <1>6 DEF LogAdding
<1>8. ASSUME NEW p \in S PROVE g[S] = AdjustedLogICF(a, p.w, n)
  <2> HIDE DEF S, n
  <2>1. PICK x \in S : x = CHOOSE y \in S : TRUE
    BY <1>8
  <2>2. x = p /\ S \ {x} = {} /\ S # {} /\ S \in SUBSET S
    BY <1>2
  <2>3. g[S] = AdjustedLogICF(g[S \ {x}], x.w, n)
    BY <1>6, <2>1, <2>2 DEF LogAdding
  <2> QED
    BY <1>7, <2>2, <2>3
<1>9. ChunkLog(a, f, d) = g[S]
  BY <1>1, <1>5
<1>10. (\A p \in InvertedFileHash[f] : p.d = d => p.w = 0) => S = {}
  OBVIOUS
<1>11. \A p \in InvertedFileHash[f] : p.d = d /\ p.w # 0 => p \in S
  OBVIOUS
<1> HIDE DEF S, IsLog, t
<1> QED
  BY <1>7, <1>8, <1>9, <1>10, <1>11

SumsWith(x, y, l) == [max |-> x, square |-> y, logICF |-> l]

\* What a chunk adds to the sums of a document is what its list does.
LEMMA ChunkLogOf ==
  ASSUME IInv, PostingsInv, SumsInv, ReadInv, Done, Fits, \A d \in Docs : OncePerFeature(d),
         NEW i \in 1 .. Len(inverted), NEW d, NEW x, NEW y, NEW l \in Nat
  PROVE  /\ LogSquareIn(inverted[i], d) \in Nat
         /\ ChunkLog(SumsWith(x, y, l), inverted[i].f, d) = SumsWith(x, y, l + LogSquareIn(inverted[i], d))
<1>1. PICK list, f : list \in Lists /\ list = inverted[i] /\ f = list.f
  BY DoneLists
<1>2. PICK H : H = InvertedFileHash[f]
  OBVIOUS
<1>3. H = ToSet(list.postings) /\ Cardinality(H) = list.size
  BY <1>1, <1>2, ListHasChunk
<1>4. \A p \in H : p \in Postings /\ FrequencyIn(list, p.d) = p.w
  BY <1>1, <1>3, DonePostings
<1>5. \A p, q \in H : p.d = d /\ q.d = d => p = q
  <2> SUFFICES ASSUME NEW p \in H, NEW q \in H, p.d = d, q.d = d PROVE p = q
    OBVIOUS
  <2>1. p = [d |-> p.d, w |-> p.w] /\ q = [d |-> q.d, w |-> q.w]
    BY <1>4 DEF Postings
  <2>2. p.w = q.w
    BY <1>4
  <2> QED
    BY <2>1, <2>2
<1>6. PICK w \in Nat : w = FrequencyIn(list, d)
  BY <1>1, DoneLists, FrequencyIsNumber
<1>7. PICK k \in Nat : k = LogICF[list.size]
  <2>1. list.size \in 1 .. Cardinality(Docs)
    BY <1>1, DoneLists
  <2> QED
    BY <2>1, IndexGenerationAssumption
<1>8. LogSquareIn(list, d) = (w * k) * (w * k) /\ (w * k) * (w * k) \in Nat
  <2>1. \A a, b \in Nat : a * b \in Nat
    OBVIOUS
  <2>2. w * k \in Nat
    BY <2>1
  <2> QED
    BY <1>6, <1>7, <2>1, <2>2 DEF LogSquareIn
<1>9. PICK a : a = SumsWith(x, y, l)
  OBVIOUS
<1>10. CASE \E p \in H : p.d = d /\ p.w # 0
  <2>1. PICK p \in H : p.d = d /\ p.w # 0
    BY <1>10
  <2>2. p.w = w
    BY <1>4, <1>6, <2>1
  <2>3. ChunkLog(a, f, d) = AdjustedLogICF(a, w, list.size)
    <3>1. ChunkLog(a, f, d) = AdjustedLogICF(a, p.w, Cardinality(InvertedFileHash[f]))
      BY <1>2, <1>5, <2>1, OneLog
    <3> QED
      BY <1>2, <1>3, <2>2, <3>1
  <2>4. PICK z : z = (w * LogICF[list.size]) * (w * LogICF[list.size])
    OBVIOUS
  <2>5. z = (w * k) * (w * k)
    BY <1>7, <2>4
  <2>6. AdjustedLogICF(a, w, list.size) = [a EXCEPT !.logICF = @ + z]
    BY <2>4 DEF AdjustedLogICF
  <2>7. [a EXCEPT !.logICF = @ + z] = SumsWith(x, y, l + z)
    BY <1>9 DEF SumsWith
  <2> QED
    BY <1>1, <1>8, <1>9, <2>3, <2>5, <2>6, <2>7
<1>11. CASE ~\E p \in H : p.d = d /\ p.w # 0
  <2>1. ChunkLog(a, f, d) = a
    BY <1>2, <1>5, <1>11, OneLog
  <2>2. w = 0
    <3>1. CASE \E p \in ToSet(list.postings) : p.d = d
      BY <1>3, <1>4, <1>6, <1>11, <3>1
    <3>2. CASE ~\E p \in ToSet(list.postings) : p.d = d
      BY <1>6, <3>2 DEF FrequencyIn
    <3> QED
      BY <3>1, <3>2
  <2>3. (w * k) * (w * k) = 0
    BY <2>2
  <2>4. l + (w * k) * (w * k) = l
    BY <2>3
  <2> QED
    BY <1>1, <1>8, <1>9, <2>1, <2>4
<1> QED
  BY <1>10, <1>11

HashAdding(g, d) ==
  [s \in SUBSET DOMAIN InvertedFileHash |->
     IF s = {} THEN ReadSums(FeatureList(d))
     ELSE ChunkLog(g[s \ {CHOOSE x \in s : TRUE}], CHOOSE x \in s : TRUE, d)]

LEMMA HashAddsUp ==
  ASSUME NEW d, NEW D, D = DOMAIN InvertedFileHash, IsFiniteSet(D), NEW G \in [D -> Nat],
         NEW x, NEW y, ReadSums(FeatureList(d)) = SumsWith(x, y, 0),
         \A f \in D, l \in Nat : ChunkLog(SumsWith(x, y, l), f, d) = SumsWith(x, y, l + G[f])
  PROVE  SumsFromHash(d) = SumsWith(x, y, Total(D, D, G))
<1> DEFINE Adds(g) == g = HashAdding(g, d)
           t == [s \in SUBSET D |-> SumsWith(x, y, Total(D, s, G))]
<1>1. SumsFromHash(d) = (CHOOSE g : Adds(g))[D]
  <2>1. SumsFromHash(d) = (CHOOSE g : Adds(g))[DOMAIN InvertedFileHash]
    BY DEF SumsFromHash, FoldSet, MapThenFoldSet, HashAdding, ReadSums, FoldLeft, ChunkLog
  <2> QED
    BY <2>1
<1>2. t[{}] = SumsWith(x, y, 0)
  BY TotalFacts
<1>3. ASSUME NEW s \in SUBSET D, s # {}
      PROVE  /\ (CHOOSE z \in s : TRUE) \in s /\ s \ {CHOOSE z \in s : TRUE} \in SUBSET D
             /\ t[s] = ChunkLog(t[s \ {CHOOSE z \in s : TRUE}], CHOOSE z \in s : TRUE, d)
  <2>1. PICK f \in s : f = CHOOSE z \in s : TRUE
    BY <1>3
  <2>2. s \ {f} \in SUBSET D /\ f \in D
    OBVIOUS
  <2>3. t[s] = SumsWith(x, y, Total(D, s, G)) /\ t[s \ {f}] = SumsWith(x, y, Total(D, s \ {f}, G))
    BY <2>2
  <2> HIDE DEF t
  <2>4. Total(D, s, G) = Total(D, s \ {f}, G) + G[f] /\ Total(D, s \ {f}, G) \in Nat
    <3>1. /\ \A S \in SUBSET D : Total(D, S, G) \in Nat
          /\ \A S \in SUBSET D : \A z \in S : Total(D, S, G) = Total(D, S \ {z}, G) + G[z]
      BY TotalFacts
    <3> QED
      BY <2>2, <3>1
  <2>5. t[s] = ChunkLog(t[s \ {f}], f, d)
    BY <2>2, <2>3, <2>4
  <2> QED
    BY <2>1, <2>2, <2>5
<1>4. Adds(t)
  <2>1. t = [s \in SUBSET DOMAIN InvertedFileHash |-> t[s]]
    OBVIOUS
  <2> HIDE DEF t
  <2> QED
    BY <1>2, <1>3, <2>1 DEF HashAdding
<1>5. PICK g : g = CHOOSE h : Adds(h)
  OBVIOUS
<1>6. Adds(g)
  <2> HIDE DEF Adds, t
  <2> QED
    BY <1>4, <1>5
<1>7. g[D] = t[D]
  <2>1. PICK c : c = [s \in SUBSET D |-> CHOOSE z \in s : TRUE]
    OBVIOUS
  <2> HIDE DEF t
  <2>2. \A s \in SUBSET D : s # {} => c[s] \in s
    BY <1>3, <2>1
  <2>3. g[{}] = t[{}]
    BY <1>2, <1>6 DEF HashAdding
  <2>4. ASSUME NEW s \in SUBSET D, s # {}, g[s \ {c[s]}] = t[s \ {c[s]}] PROVE g[s] = t[s]
    <3>1. g[s] = ChunkLog(g[s \ {CHOOSE z \in s : TRUE}], CHOOSE z \in s : TRUE, d)
      BY <1>6, <2>4 DEF HashAdding
    <3>2. c[s] = CHOOSE z \in s : TRUE
      BY <2>1
    <3> QED
      BY <1>3, <2>4, <3>1, <3>2
  <2>5. FoldAlike(g, t, c, D)
    BY <2>2, <2>3, <2>4 DEF FoldAlike
  <2> QED
    BY <2>5, SameFold
<1>8. t[D] = SumsWith(x, y, Total(D, D, G))
  OBVIOUS
<1> QED
  BY <1>1, <1>5, <1>7, <1>8

\* at says which list is that of a feature of the files.
PlacesOfLists(at, n, D) ==
  /\ at \in [D -> 1 .. n]
  /\ \A f \in D : inverted[at[f]].f = f
  /\ \A i \in 1 .. n : inverted[i].f \in D /\ at[inverted[i].f] = i

LEMMA ListPlaces ==
  ASSUME IInv, PostingsInv, SumsInv, ReadInv, Done, Fits, \A d \in Docs : OncePerFeature(d),
         NEW n, n = Len(inverted), NEW D, D = DOMAIN InvertedFileHash
  PROVE  IsFiniteSet(D) /\ \E at : PlacesOfLists(at, n, D)
<1>1. \A f \in D : \E i \in 1 .. n : inverted[i].f = f
  BY DoneHash
<1>2. \A i \in 1 .. n : inverted[i].f \in D
  BY ListHasChunk
<1>3. \A i, j \in 1 .. n : inverted[i].f = inverted[j].f => i = j
  BY DoneLists
<1>4. IsFiniteSet(D)
  <2>1. PICK S : S = 1 .. n
    OBVIOUS
  <2>2. IsFiniteSet(S)
    BY <2>1, DoneLists, FS_Interval, 1 \in Int
  <2>3. PICK h : h = [i \in S |-> inverted[i].f]
    OBVIOUS
  <2>4. h \in [S -> D] /\ \A f \in D : \E i \in S : h[i] = f
    BY <1>1, <1>2, <2>1, <2>3
  <2>5. h \in Surjection(S, D)
    BY <2>4 DEF Surjection
  <2> QED
    BY <2>2, <2>5, FS_Surjection
<1>5. PICK at : at = [f \in D |-> CHOOSE i \in 1 .. n : inverted[i].f = f]
  OBVIOUS
<1>6. \A f \in D : at[f] \in 1 .. n /\ inverted[at[f]].f = f
  BY <1>1, <1>5
<1>7. PlacesOfLists(at, n, D)
  <2>1. at \in [D -> 1 .. n]
    BY <1>5, <1>6
  <2>2. \A i \in 1 .. n : at[inverted[i].f] = i
    BY <1>2, <1>3, <1>6
  <2> QED
    BY <1>2, <1>6, <2>1, <2>2 DEF PlacesOfLists
<1> QED
  BY <1>4, <1>7

\* The list of an entry of document d has its frequency, and a list that has one of
\* the document has that of an entry.
LEMMA EntriesInLists ==
  ASSUME IInv, PostingsInv, SumsInv, ReadInv, Done, Fits, \A c \in Docs : OncePerFeature(c),
         NEW d \in Docs, NEW n, n = Len(inverted), NEW F, F = FeatureList(d)
  PROVE  /\ \A k \in 1 .. Len(F) :
              /\ F[k].f \in DOMAIN InvertedFileHash
              /\ \A i \in 1 .. n : inverted[i].f = F[k].f => FrequencyIn(inverted[i], d) = F[k].w
         /\ \A i \in 1 .. n : FrequencyIn(inverted[i], d) # 0 =>
              \E k \in 1 .. Len(F) : F[k].f = inverted[i].f /\ F[k].w = FrequencyIn(inverted[i], d)
<1>1. ASSUME NEW k \in 1 .. Len(F) PROVE F[k].f \in DOMAIN InvertedFileHash
  <2>1. F[k] \in Entries(d)
    BY EntriesOfFiles
  <2> QED
    BY <2>1, HashOfFeature
<1>2. ASSUME NEW k \in 1 .. Len(F), NEW i \in 1 .. n, inverted[i].f = F[k].f
      PROVE  FrequencyIn(inverted[i], d) = F[k].w
  <2>1. PICK e \in Entries(d) : e = F[k]
    BY EntriesOfFiles
  <2>2. e = [f |-> e.f, w |-> e.w] /\ e.w \in Frequencies
    BY EntriesOfFiles
  <2>3. PICK p : p = [d |-> d, w |-> e.w]
    OBVIOUS
  <2>4. p \in Postings /\ p.d = d /\ p.w = e.w
    BY <2>2, <2>3 DEF Postings
  <2>5. IsEntry(e.f, p.d, p.w)
    BY <2>2, <2>4 DEF IsEntry
  <2>6. p \in InvertedFileHash[e.f]
    BY <1>1, <2>1, <2>4, <2>5, HashOfFeature
  <2>7. p \in ToSet(inverted[i].postings)
    BY <1>2, <2>1, <2>6, ListHasChunk
  <2>8. FrequencyIn(inverted[i], p.d) = p.w
    BY <2>7, DonePostings
  <2> QED
    BY <2>1, <2>4, <2>8
<1>3. ASSUME NEW i \in 1 .. n, FrequencyIn(inverted[i], d) # 0
      PROVE  \E k \in 1 .. Len(F) : F[k].f = inverted[i].f /\ F[k].w = FrequencyIn(inverted[i], d)
  <2>1. PICK p \in ToSet(inverted[i].postings) : p.d = d
    BY <1>3 DEF FrequencyIn
  <2>2. IsEntry(inverted[i].f, d, p.w) /\ FrequencyIn(inverted[i], d) = p.w
    BY <2>1, DonePostings
  <2>3. PICK e \in Entries(d) : e = [f |-> inverted[i].f, w |-> p.w]
    BY <2>2 DEF IsEntry
  <2>4. PICK k \in 1 .. Len(F) : F[k] = e
    BY EntriesOfFiles
  <2>5. e.f = inverted[i].f /\ e.w = p.w
    BY <2>3
  <2> QED
    BY <2>2, <2>4, <2>5
<1> QED
  BY <1>1, <1>2, <1>3

\* What adjustDF finds in the file of document d is in its ADI.
LEMMA DoneRead ==
  ASSUME IInv, PostingsInv, SumsInv, ReadInv, Done, Fits, \A c \in Docs : OncePerFeature(c),
         NEW d \in Docs
  PROVE  ReadSums(FeatureList(d)) = SumsWith(adi[d].sums.max, adi[d].sums.square, 0)
<1>0. PICK D : D = DOMAIN InvertedFileHash
  OBVIOUS
<1>1. PICK F : F = FeatureList(d)
  OBVIOUS
<1>2. PICK R : R = [f : Features, w : Frequencies]
  OBVIOUS
<1>3. PICK m \in Nat : m = Len(F) /\ DOMAIN F = 1 .. m
  <2>1. F \in Seq(R)
    BY <1>1, <1>2, EntriesOfFiles
  <2> QED
    BY <2>1
<1>4. \A k \in 1 .. m : F[k].w \in Nat
  <2>1. \A k \in 1 .. m : F[k].w \in Frequencies
    BY <1>1, <1>3, EntriesOfFiles
  <2>2. \A x \in Frequencies : x \in Nat
    BY IndexGenerationAssumption
  <2> QED
    BY <2>1, <2>2
<1>5. PICK W \in [1 .. m -> Nat] : \A k \in 1 .. m : F[k].w = W[k]
  <2>1. PICK W : W = [k \in 1 .. m |-> F[k].w]
    OBVIOUS
  <2> QED
    BY <1>4, <2>1
<1>6. PICK n \in Nat : n = Len(inverted)
  BY DoneLists
<1>7. PICK at : PlacesOfLists(at, n, D)
  BY <1>0, <1>6, ListPlaces
<1>8. /\ \A k \in 1 .. m :
           /\ F[k].f \in D
           /\ \A i \in 1 .. n : inverted[i].f = F[k].f => FrequencyIn(inverted[i], d) = W[k]
      /\ \A i \in 1 .. n : FrequencyIn(inverted[i], d) # 0 =>
           \E k \in 1 .. m : F[k].f = inverted[i].f /\ W[k] = FrequencyIn(inverted[i], d)
  BY <1>0, <1>1, <1>3, <1>5, <1>6, EntriesInLists
<1>9. PICK to : to = [k \in 1 .. m |-> at[F[k].f]]
  OBVIOUS
<1>10. \A k \in 1 .. m : /\ to[k] \in 1 .. n /\ inverted[to[k]].f = F[k].f
                         /\ FrequencyIn(inverted[to[k]], d) = W[k]
  BY <1>7, <1>8, <1>9 DEF PlacesOfLists
<1>11. \A k, j \in 1 .. m : to[k] = to[j] => k = j
  <2>1. \A k, j \in 1 .. m : F[k].f = F[j].f => k = j
    BY <1>1, <1>3 DEF OncePerFeature
  <2>2. ASSUME NEW k \in 1 .. m, NEW j \in 1 .. m, to[k] = to[j] PROVE k = j
    <3>1. inverted[to[k]].f = F[k].f /\ inverted[to[j]].f = F[j].f
      BY <1>10
    <3>2. F[k].f = F[j].f
      BY <2>2, <3>1
    <3> QED
      BY <2>1, <3>2
  <2> QED
    BY <2>2
<1>12. \A i \in 1 .. n : FrequencyIn(inverted[i], d) # 0 => \E k \in 1 .. m : to[k] = i
  <2> SUFFICES ASSUME NEW i \in 1 .. n, FrequencyIn(inverted[i], d) # 0
               PROVE  \E k \in 1 .. m : to[k] = i
    OBVIOUS
  <2>1. PICK k \in 1 .. m : F[k].f = inverted[i].f
    BY <1>8
  <2>2. to[k] = i
    BY <1>7, <1>9, <2>1 DEF PlacesOfLists
  <2> QED
    BY <2>2
<1>13. PICK a : a = sums[d]
  OBVIOUS
<1>14. adi[d].sums = a /\ SumsOf(a, inverted, d) /\ a.max \in Nat
  <2>1. a \in Sums
    BY <1>13 DEF IInv, TypeOK
  <2> QED
    BY <1>13, <2>1 DEF SumsInv, Done, Sums
<1>15. /\ \A i \in 1 .. n : FrequencyIn(inverted[i], d) <= a.max
       /\ a.max = 0 \/ \E i \in 1 .. n : FrequencyIn(inverted[i], d) = a.max
       /\ a.square = TotalTo(n, Squares(inverted, d))
  BY <1>6, <1>14 DEF SumsOf
<1>16. \A k \in 1 .. m : W[k] <= a.max
  <2> SUFFICES ASSUME NEW k \in 1 .. m PROVE W[k] <= a.max
    OBVIOUS
  <2>1. to[k] \in 1 .. n /\ FrequencyIn(inverted[to[k]], d) = W[k]
    BY <1>10
  <2>2. FrequencyIn(inverted[to[k]], d) <= a.max
    BY <1>15, <2>1
  <2> QED
    BY <2>1, <2>2
<1>17. ReadSums(F) = SumsRead(W, m, 1 .. m)
  BY <1>3, <1>5, <1>14, <1>16, FileSums
<1>18. Max(FrequenciesOf(W, 1 .. m)) = a.max
  <2>1. PICK A : A = FrequenciesOf(W, 1 .. m)
    OBVIOUS
  <2>2. A \subseteq Nat /\ A # {} /\ \A x \in A : x <= a.max
    BY <1>14, <1>16, <2>1 DEF FrequenciesOf
  <2>3. Max(A) \in A /\ \A x \in A : x <= Max(A)
    BY <1>14, <2>2, Largest
  <2>4. a.max \in A
    <3>1. CASE a.max = 0
      BY <2>1, <3>1 DEF FrequenciesOf
    <3>2. CASE a.max # 0
      <4>1. PICK i \in 1 .. n : FrequencyIn(inverted[i], d) = a.max
        BY <1>15, <3>2
      <4>2. PICK k \in 1 .. m : W[k] = FrequencyIn(inverted[i], d)
        BY <1>8, <3>2, <4>1
      <4> QED
        BY <2>1, <4>1, <4>2 DEF FrequenciesOf
    <3> QED
      BY <3>1, <3>2
  <2>5. PICK z : z = Max(A)
    OBVIOUS
  <2>6. z \in Nat /\ z <= a.max /\ a.max <= z
    BY <2>2, <2>3, <2>4, <2>5
  <2> QED
    BY <1>14, <2>1, <2>5, <2>6
<1>19. Total(1 .. m, 1 .. m, SquareOf(W, m)) = a.square
  <2>1. PICK U, V : U = 1 .. m /\ V = 1 .. n
    OBVIOUS
  <2>2. IsFiniteSet(U) /\ IsFiniteSet(V)
    <3>1. \A k \in Nat : IsFiniteSet(1 .. k)
      BY FS_Interval
    <3> QED
      BY <2>1, <3>1
  <2>3. PICK G \in [U -> Nat] : G = SquareOf(W, m)
    BY <2>1, SquaresAreNumbers
  <2>4. PICK H \in [V -> Nat] : H = Squares(inverted, d)
    <3>1. \A i \in 1 .. n : inverted[i].size \in 1 .. Cardinality(Docs)
      BY <1>6, DoneLists
    <3> QED
      BY <1>6, <2>1, <3>1, DoneLists, ListNumbers
  <2>5. to \in [U -> V] /\ U \in SUBSET U
    BY <1>9, <1>10, <2>1
  <2>6. \A k \in U : G[k] = H[to[k]]
    BY <1>6, <1>10, <2>1, <2>3, <2>4 DEF SquareOf, Squares, SquareIn
  <2>7. PICK S : S = {to[k] : k \in U}
    OBVIOUS
  <2>8. Total(U, U, G) = Total(V, S, H)
    <3>1. \A x, y \in U : to[x] = to[y] => x = y
      BY <1>11, <2>1
    <3>2. Total(U, U, G) = Total(V, {to[k] : k \in U}, H)
      BY SMTT(30), <2>2, <2>5, <2>6, <3>1, TotalAlong
    <3> QED
      BY <2>7, <3>2
  <2>9. \A i \in V \ S : H[i] = 0
    <3> SUFFICES ASSUME NEW i \in V \ S PROVE H[i] = 0
      OBVIOUS
    <3>1. i \in 1 .. n /\ FrequencyIn(inverted[i], d) = 0
      BY <1>12, <2>1, <2>7
    <3> QED
      BY <1>6, <2>4, <3>1 DEF Squares, SquareIn
  <2>10. S \in SUBSET V
    BY <2>5, <2>7
  <2>11. Total(V, V, H) = Total(V, S, H)
    BY <2>2, <2>9, <2>10, TotalOfParts
  <2> QED
    BY <1>15, <2>1, <2>3, <2>4, <2>8, <2>11 DEF TotalTo
<1> QED
  BY <1>1, <1>14, <1>17, <1>18, <1>19 DEF SumsRead, SumsWith

\* The ADI is what generateInvertedFile would have written.
LEMMA DoneSums ==
  ASSUME IInv, PostingsInv, SumsInv, ReadInv, Done, Fits, \A c \in Docs : OncePerFeature(c),
         NEW d \in Docs
  PROVE  adi[d].sums = SumsFromHash(d)
<1>0. PICK D : D = DOMAIN InvertedFileHash
  OBVIOUS
<1>1. PICK n \in Nat : n = Len(inverted)
  BY DoneLists
<1>2. PICK at : IsFiniteSet(D) /\ PlacesOfLists(at, n, D)
  BY <1>0, <1>1, ListPlaces
<1>3. PICK V : V = 1 .. n
  OBVIOUS
<1>4. IsFiniteSet(V) /\ V \in SUBSET V /\ D \in SUBSET D
  <2>1. \A k \in Nat : IsFiniteSet(1 .. k)
    BY FS_Interval
  <2> QED
    BY <1>3, <2>1
<1>5. PICK H \in [V -> Nat] : H = LogSquares(inverted, d)
  <2>1. \A i \in 1 .. n : inverted[i].size \in 1 .. Cardinality(Docs)
    BY <1>1, DoneLists
  <2> QED
    BY <1>1, <1>3, <2>1, DoneLists, ListNumbers
<1>6. at \in [D -> V] /\ \A f \in D : inverted[at[f]].f = f
  BY <1>2, <1>3 DEF PlacesOfLists
<1>7. PICK G \in [D -> Nat] : \A f \in D : G[f] = H[at[f]]
  <2>1. PICK G : G = [f \in D |-> H[at[f]]]
    OBVIOUS
  <2> QED
    BY <1>5, <1>6, <2>1
<1>8. Total(D, D, G) = Total(V, V, H)
  <2>1. \A f, g \in D : at[f] = at[g] => f = g
    BY <1>6
  <2>2. {at[f] : f \in D} = V
    <3>1. \A i \in V : \E f \in D : at[f] = i
      BY <1>2, <1>3 DEF PlacesOfLists
    <3>2. \A f \in D : at[f] \in V
      BY <1>6
    <3> QED
      BY <3>1, <3>2
  <2>3. Total(D, D, G) = Total(V, {at[f] : f \in D}, H)
    BY <1>2, <1>4, <1>6, <1>7, <2>1, TotalAlong
  <2> QED
    BY <2>2, <2>3
<1>9. PICK x, y : x = adi[d].sums.max /\ y = adi[d].sums.square
  OBVIOUS
<1>10. ReadSums(FeatureList(d)) = SumsWith(x, y, 0)
  BY <1>9, DoneRead
<1>11. \A f \in D, l \in Nat : ChunkLog(SumsWith(x, y, l), f, d) = SumsWith(x, y, l + G[f])
  <2> SUFFICES ASSUME NEW f \in D, NEW l \in Nat
               PROVE  ChunkLog(SumsWith(x, y, l), f, d) = SumsWith(x, y, l + G[f])
    OBVIOUS
  <2>1. PICK i \in 1 .. Len(inverted) : i = at[f]
    BY <1>1, <1>3, <1>6
  <2>2. inverted[i].f = f
    BY <1>6, <2>1
  <2>3. G[f] = LogSquareIn(inverted[i], d)
    BY <1>1, <1>3, <1>5, <1>7, <2>1 DEF LogSquares
  <2>4. ChunkLog(SumsWith(x, y, l), inverted[i].f, d) = SumsWith(x, y, l + LogSquareIn(inverted[i], d))
    BY ChunkLogOf
  <2> QED
    BY <2>2, <2>3, <2>4
<1>12. SumsFromHash(d) = SumsWith(x, y, Total(D, D, G))
  BY <1>0, <1>1, <1>2, <1>10, <1>11, HashAddsUp
<1>13. PICK a \in Sums : a = sums[d]
  BY DEF IInv, TypeOK
<1>14. adi[d].sums = a /\ SumsOf(a, inverted, d)
  BY <1>13 DEF SumsInv, Done
<1>15. a.logICF = Total(V, V, H)
  BY <1>1, <1>3, <1>5, <1>14 DEF SumsOf, TotalTo
<1>16. a = SumsWith(a.max, a.square, a.logICF)
  BY DEF Sums, SumsWith
<1> QED
  BY <1>8, <1>9, <1>12, <1>14, <1>15, <1>16
-----------------------------------------------------------------------------
(* The theorems *)

\* TypeOK is an invariant: the files and the buffers of gift-generate-inverted-file
\* hold triplets, lists and sums, whatever it is given and wherever it is killed.
THEOREM TypeCorrect == Spec => []TypeOK
<1>1. IInv => TypeOK
  BY DEF IInv
<1> QED
  BY <1>1, Induction, PTL

\* If a server's init succeeds with the ADI files of the last generation, all lists
\* are on the disk, with all triplets in them that the feature files have given.
THEOREM FreshIsWhole == Spec => []FreshAdiMeansWholeIndex
<1>1. IInv => FreshAdiMeansWholeIndex
  <2> SUFFICES ASSUME IInv, phase \in {"off", "done"}, gen > 0, \A d \in Docs : adi[d].gen = gen, Fits
               PROVE  /\ \A i \in DOMAIN inverted : Len(inverted[i].postings) = inverted[i].size
                      /\ \A i \in DOMAIN collected : Indexed(collected[i].f, collected[i].d)
    BY DEF FreshAdiMeansWholeIndex
  <2>1. Whole
    BY DEF Whole, Fresh
  <2>2. DOMAIN inverted = 1 .. Len(inverted) /\ DOMAIN collected = 1 .. Count
    BY DEF IInv, TypeOK, Count
  <2>3. \A i \in 1 .. Len(inverted) : Len(inverted[i].postings) = inverted[i].size
    BY <2>1 DEF IInv, ListsInv
  <2>4. \A i \in 1 .. Count : Listed(collected[i].f, collected[i].d)
    BY <2>1 DEF IInv, WholeInv
  <2> QED
    BY <2>1, <2>2, <2>3, <2>4, ListedIsIndexed
<1> QED
  BY <1>1, Induction, PTL

\* Of a finished index the lists are those of the feature files.
LEMMA ListsOfFiles ==
  ASSUME IInv
  PROVE  ListsMatchFiles
<1> SUFFICES ASSUME IInv, phase = "done", ~error, Count > 0
             PROVE  /\ \A i, j \in DOMAIN offset : offset[i].f = offset[j].f => i = j
                    /\ \A i \in DOMAIN offset :
                         LET list == inverted[offset[i].at]
                         IN /\ list.f = offset[i].f
                            /\ \A p \in ToSet(list.postings) : [f |-> list.f, w |-> p.w] \in Entries(p.d)
                    /\ Fits => \A d \in Docs : \A e \in Entries(d) : Indexed(e.f, d)
  BY DEF ListsMatchFiles
<1>1. Whole
  BY DEF Whole
<1>2. /\ Len(offset) = Len(inverted)
      /\ \A i \in 1 .. Len(inverted) : offset[i] = [f |-> inverted[i].f, at |-> i]
      /\ \A i, j \in 1 .. Len(inverted) : inverted[i].f = inverted[j].f => i = j
      /\ \A i \in 1 .. Len(inverted) : \A n \in 1 .. Len(inverted[i].postings) :
           \E k \in 1 .. Count : /\ collected[k].f = inverted[i].f
                                 /\ Posting(collected[k]) = inverted[i].postings[n]
  BY <1>1 DEF IInv, ListsInv
<1>3. DOMAIN offset = 1 .. Len(inverted) /\ inverted \in Seq(Lists)
  BY <1>2 DEF IInv, TypeOK
<1>4. /\ \A k \in 1 .. Count : EntryOf(collected[k]) \in Entries(collected[k].d)
      /\ \A d \in Docs : \A e \in Entries(d) :
           \E k \in 1 .. Count : collected[k].d = d /\ collected[k].f = e.f
  BY DEF IInv, GatheredInv
<1>5. ASSUME NEW i \in DOMAIN offset, NEW j \in DOMAIN offset, offset[i].f = offset[j].f PROVE i = j
  <2>1. offset[i].f = inverted[i].f /\ offset[j].f = inverted[j].f
    BY <1>2, <1>3
  <2> QED
    <3>1. inverted[i].f = inverted[j].f /\ i \in 1 .. Len(inverted) /\ j \in 1 .. Len(inverted)
      BY <1>2, <1>3, <1>5, <2>1
    <3> QED
      BY <1>2, <3>1
<1>6. ASSUME NEW i \in DOMAIN offset
      PROVE  /\ inverted[offset[i].at].f = offset[i].f
             /\ \A p \in ToSet(inverted[offset[i].at].postings) :
                  [f |-> inverted[offset[i].at].f, w |-> p.w] \in Entries(p.d)
  <2>1. i \in 1 .. Len(inverted) /\ offset[i].at = i /\ offset[i].f = inverted[i].f
    BY <1>2, <1>3
  <2>2. ASSUME NEW p \in ToSet(inverted[i].postings)
        PROVE  [f |-> inverted[i].f, w |-> p.w] \in Entries(p.d)
    <3>0. inverted[i] \in Lists /\ \A x \in Lists : x.postings \in Seq(Postings)
      <4>1. \A x \in Lists : x.postings \in Seq(Postings)
        BY DEF Lists
      <4> QED
        BY <1>3, <2>1, <4>1
    <3>1. inverted[i].postings \in Seq(Postings)
      BY <3>0
    <3>2. PICK n \in 1 .. Len(inverted[i].postings) : p = inverted[i].postings[n]
      BY <3>1 DEF ToSet
    <3>3. PICK k \in 1 .. Count : collected[k].f = inverted[i].f /\ Posting(collected[k]) = p
      BY <1>2, <2>1, <3>2
    <3>4. p.d = collected[k].d /\ p.w = collected[k].w
      BY <3>3 DEF Posting
    <3>5. EntryOf(collected[k]) \in Entries(collected[k].d)
      BY <1>4
    <3> QED
      BY <3>3, <3>4, <3>5 DEF EntryOf
  <2> QED
    BY <2>1, <2>2
<1>7. ASSUME Fits, NEW d \in Docs, NEW e \in Entries(d) PROVE Indexed(e.f, d)
  <2>1. PICK k \in 1 .. Count : collected[k].d = d /\ collected[k].f = e.f
    BY <1>4
  <2>2. Listed(e.f, d)
    BY <1>1, <1>7, <2>1 DEF IInv, WholeInv
  <2> QED
    BY <1>1, <2>2, ListedIsIndexed
<1> QED
  BY <1>5, <1>6, <1>7

\* The lists are those of the feature files: one for a feature, where the offset file
\* says, with frequencies of its documents only, and, if the triplets fit the pages, all.
THEOREM ListsAreOfFiles == Spec => []ListsMatchFiles
<1>1. IInv => ListsMatchFiles
  BY ListsOfFiles
<1> QED
  BY <1>1, Induction, PTL

\* The index of a collection without faulty files is what the property says.
LEMMA IndexOfFiles ==
  ASSUME IInv, PostingsInv, SumsInv, ReadInv, 0 \notin Frequencies
  PROVE  IndexMatchesFiles
<1>1. ListsMatchFiles
  BY ListsOfFiles
<1> SUFFICES ASSUME Done
               PROVE  /\ \A i \in DOMAIN inverted : \A p \in ToSet(inverted[i].postings) :
                           DocumentInformation(p.d).max >= p.w /\ p.w > 0
                      /\ \A d \in Docs : DocumentInformation(d).square = ListSquares(d)
                      /\ Fits /\ (\A d \in Docs : OncePerFeature(d)) =>
                           /\ WrittenFromHash(inverted)
                           /\ \A d \in Docs : DocumentInformation(d) = SumsFromHash(d)
                           /\ CheckConsistency
  BY <1>1 DEF IndexMatchesFiles, Done, ListSquares, SquareSum, ws
<1>2. \A d : DocumentInformation(d) = adi[d].sums
  BY DEF DocumentInformation
<1>3. DOMAIN inverted = 1 .. Len(inverted) /\ Whole
  BY DoneLists
<1>4. ASSUME NEW i \in DOMAIN inverted, NEW p \in ToSet(inverted[i].postings)
      PROVE  DocumentInformation(p.d).max >= p.w /\ p.w > 0
  <2>1. i \in 1 .. Len(inverted)
    BY <1>3
  <2>2. p.w \in Frequencies /\ adi[p.d].sums.max >= p.w
    BY <2>1, DonePostings, DoneMaximum
  <2>3. p.w \in Nat /\ p.w # 0
    BY <2>2, IndexGenerationAssumption
  <2> QED
    BY <1>2, <2>2, <2>3
<1>5. \A d \in Docs : DocumentInformation(d).square = ListSquares(d)
  BY <1>2, DoneSquares
<1>6. ASSUME Fits, \A d \in Docs : OncePerFeature(d)
      PROVE  /\ WrittenFromHash(inverted)
             /\ \A d \in Docs : DocumentInformation(d) = SumsFromHash(d)
             /\ CheckConsistency
  <2>1. WrittenFromHash(inverted)
    BY <1>6, DoneHash
  <2>2. \A d \in Docs : DocumentInformation(d) = SumsFromHash(d)
    BY <1>2, <1>6, DoneSums
  <2>3. ASSUME NEW d \in Docs, NEW e \in ToSet(FeatureList(d)) PROVE FindWithinStream(e.f, d, e.w)
    <3>1. e \in Entries(d) /\ e = [f |-> e.f, w |-> e.w] /\ e.w \in Frequencies
      BY <2>3, EntriesOfFiles DEF Entries
    <3>2. PICK k \in 1 .. Count : collected[k].d = d /\ collected[k].f = e.f
      BY <3>1 DEF IInv, GatheredInv, Done
    <3>3. Listed(e.f, d)
      BY <1>3, <1>6, <3>2 DEF IInv, WholeInv
    <3>4. Indexed(e.f, d) /\ inverted[IDToOffset[e.f]].f = e.f
      BY <1>3, <3>3, ListedIsIndexed
    <3>5. PICK i \in 1 .. Len(inverted) : i = IDToOffset[e.f]
      BY <1>3, <3>4 DEF Indexed
    <3>6. PICK p : p = [d |-> d, w |-> e.w]
      OBVIOUS
    <3>7. p \in Postings /\ IsEntry(e.f, p.d, p.w)
      BY <3>1, <3>6 DEF Postings, IsEntry
    <3>8. p \in InvertedFileHash[e.f]
      <4>1. e.f \in DOMAIN InvertedFileHash
        BY <1>6, <3>1, HashOfFeature
      <4> QED
        BY <1>6, <3>7, <4>1, HashOfFeature
    <3>9. p \in ToSet(inverted[i].postings)
      BY <1>6, <3>4, <3>5, <3>8, ListHasChunk
    <3> QED
      BY <3>4, <3>5, <3>6, <3>9 DEF FindWithinStream, Indexed
  <2>4. CheckConsistency
    BY <2>3 DEF CheckConsistency
  <2> QED
    BY <2>1, <2>2, <2>4
<1> QED
  BY <1>4, <1>5, <1>6

\* IndexMatchesFiles is an invariant, if no feature file has a frequency of zero:
\* write_mode_features leaves them out.  The lists and the ADI that
\* newGenerateInvertedFile writes from files without faults belong together, and, if
\* the triplets fit the pages and no feature is twice in a file, they are what
\* generateInvertedFile made in memory and what checkConsistency finds in order.
THEOREM IndexIsOfFiles ==
  ASSUME 0 \notin Frequencies
  PROVE  Spec => []IndexMatchesFiles
<1>1. IInv /\ PostingsInv /\ SumsInv /\ ReadInv => IndexMatchesFiles
  BY IndexOfFiles
<1> QED
  BY <1>1, IndexInduction, PTL
=============================================================================
