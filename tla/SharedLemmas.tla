---------------------------- MODULE SharedLemmas ----------------------------
(***************************************************************************)
(* Lemmas that the proofs about several components need, or that are not   *)
(* about any component: recursive mutexes, induction by way of a set that  *)
(* is smallest, sums over finite sets, and the places of elements in an    *)
(* order.                                                                  *)
(***************************************************************************)
EXTENDS Integers, Sequences, FiniteSets, FiniteSetsExt, Mutex, FiniteSetTheorems, TLAPS

(* Recursive mutexes *)

\* Nobody holds the free mutex.
LEMMA FreeLemma ==
  /\ FreeMutex \in MutexType /\ WellFormed(FreeMutex)
  /\ \A t \in Threads : Depth(FreeMutex, t) = 0
BY NoThreadAssumption DEF MutexType, WellFormed, Depth, FreeMutex

\* Locking a mutex that lets t in adds to t's depth and changes nobody else's.
LEMMA LockLemma ==
  ASSUME NEW m \in MutexType, WellFormed(m), NEW t \in Threads, CanLock(m, t),
         NEW n \in Nat, n > 0
  PROVE  /\ Locked(m, t, n) \in MutexType
         /\ WellFormed(Locked(m, t, n))
         /\ Depth(Locked(m, t, n), t) = Depth(m, t) + n
         /\ \A u \in Threads \ {t} : Depth(Locked(m, t, n), u) = Depth(m, u)
BY NoThreadAssumption DEF MutexType, WellFormed, CanLock, Locked, Depth

\* Unlocking takes from the owner's depth, as often as he has locked the mutex.
LEMMA UnlockLemma ==
  ASSUME NEW m \in MutexType, WellFormed(m), NEW t \in Threads,
         NEW n \in Nat, n > 0, Depth(m, t) >= n
  PROVE  /\ Unlocked(m, n) \in MutexType
         /\ WellFormed(Unlocked(m, n))
         /\ Depth(Unlocked(m, n), t) = Depth(m, t) - n
         /\ \A u \in Threads \ {t} : Depth(Unlocked(m, n), u) = Depth(m, u)
BY NoThreadAssumption DEF MutexType, WellFormed, Unlocked, Depth, FreeMutex

\* Two threads do not both hold a mutex.
LEMMA OwnerLemma ==
  ASSUME NEW m, NEW t, NEW u, Depth(m, t) > 0, Depth(m, u) > 0
  PROVE  t = u
BY DEF Depth

\* What a thread holds of a mutex is a number.
LEMMA DepthIsNat ==
  ASSUME NEW m \in MutexType, NEW t PROVE Depth(m, t) \in Nat
BY DEF MutexType, Depth
-----------------------------------------------------------------------------
(* Induction, for sets that are given *)

\* Of finitely many sets one contains no other.
LEMMA MinimalSet ==
  ASSUME NEW S, IsFiniteSet(S), NEW F \in SUBSET (SUBSET S), F # {}
  PROVE  \E t \in F : \A u \in F : u \subseteq t => u = t
<1> DEFINE R == StrictSubsetOrdering(S)
           FS == FiniteSubsetsOf(S)
<1>1. IsWellFoundedOn(R, FS)
  BY FS_StrictSubsetOrderingWellFounded
<1>2. F \subseteq FS
  BY FS_FiniteSubsetsOfFinite
<1>3. PICK t \in F : \A y \in F : <<y, t>> \notin R
  <2> HIDE DEF R, FS
  <2> QED
    BY <1>1, <1>2, WFMin
<1>4. ASSUME NEW u \in F, u \subseteq t, u # t PROVE FALSE
  BY <1>3, <1>4 DEF StrictSubsetOrdering
<1> QED
  BY <1>4

\* Of some numbers one is the smallest.
LEMMA Smallest ==
  ASSUME NEW T, T \subseteq Nat, T # {}
  PROVE  \E m \in T : \A n \in T : m <= n
<1>1. PICK b \in T : TRUE
  OBVIOUS
<1> DEFINE F == {0 .. n : n \in {k \in T : k <= b}}
           S == 0 .. b
<1>2. F \in SUBSET (SUBSET S) /\ F # {}
  BY <1>1
<1>3. IsFiniteSet(S)
  BY FS_Interval, b \in Nat
<1>4. PICK t \in F : \A u \in F : u \subseteq t => u = t
  <2>1. F \in SUBSET (SUBSET S)
    BY <1>2
  <2>2. F # {}
    BY <1>2
  <2> HIDE DEF F, S
  <2> QED
    BY <2>1, <2>2, <1>3, MinimalSet
<1>5. PICK m \in T : t = 0 .. m /\ m <= b
  BY <1>4
<1>6. ASSUME NEW n \in T, n < m PROVE FALSE
  <2>1. (0 .. n) \in F
    BY <1>6, <1>5
  <2>2. (0 .. n) \subseteq t /\ (0 .. n) # t
    BY <1>6, <1>5
  <2> QED
    BY <2>1, <2>2, <1>4
<1> QED
  BY <1>6

\* Of some numbers that have a bound one is the largest.
LEMMA Largest ==
  ASSUME NEW T, T \subseteq Nat, T # {}, NEW b \in Nat, \A n \in T : n <= b
  PROVE  Max(T) \in T /\ \A n \in T : n <= Max(T)
<1> DEFINE D == {b - n : n \in T}
<1>1. PICK d \in D : \A e \in D : d <= e
  <2>1. \A n \in T : b - n \in Nat
    OBVIOUS
  <2>2. D \subseteq Nat
    BY <2>1
  <2>3. D # {}
    OBVIOUS
  <2> HIDE DEF D
  <2> QED
    BY <2>2, <2>3, Smallest
<1>2. PICK m \in T : d = b - m
  BY <1>1
<1>3. ASSUME NEW n \in T PROVE m >= n
  <2>1. d <= b - n
    BY <1>1
  <2> QED
    BY <1>2, <2>1
<1> QED
  BY <1>3 DEF Max

\* A set of numbers that has 0, and with a number the next, has them all.
LEMMA Counting ==
  ASSUME NEW T, 0 \in T, \A n \in Nat : n \in T => n + 1 \in T
  PROVE  Nat \subseteq T
<1> SUFFICES ASSUME Nat \ T # {} PROVE FALSE
  OBVIOUS
<1>1. PICK m \in Nat \ T : \A n \in Nat \ T : m <= n
  BY Smallest
<1>2. m - 1 \in Nat /\ m - 1 \in T
  BY <1>1
<1> QED
  BY <1>1, <1>2
-----------------------------------------------------------------------------
(* Sums over finite sets *)

\* h says of each set of U what its elements contribute by G, in whatever order.
IsTotal(h, U, G) ==
  /\ h \in [SUBSET U -> Nat] /\ h[{}] = 0
  /\ \A s \in SUBSET U : \A x \in s : h[s] = h[s \ {x}] + G[x]

\* There is such an h, by induction over finite sets: a minimal part of U without
\* one would have one.
LEMMA TotalsExist ==
  ASSUME NEW U, IsFiniteSet(U), NEW G \in [U -> Nat]
  PROVE  \E h : IsTotal(h, U, G)
<1> DEFINE F == {t \in SUBSET U : ~ \E h : IsTotal(h, t, G)}
<1>1. SUFFICES ASSUME U \in F PROVE FALSE
  OBVIOUS
<1>2. PICK t \in F : \A u \in F : u \subseteq t => u = t
  <2>1. F \in SUBSET (SUBSET U) /\ F # {}
    BY <1>1
  <2> HIDE DEF F
  <2> QED
    BY <2>1, MinimalSet
<1>3. t \subseteq U /\ \A h : ~IsTotal(h, t, G)
  BY <1>2
<1>4. t # {}
  <2>1. IsTotal([s \in SUBSET {} |-> 0], {}, G)
    BY DEF IsTotal
  <2> QED
    BY <1>3, <2>1
<1>5. PICK x \in t : TRUE
  BY <1>4
<1>6. PICK g : IsTotal(g, t \ {x}, G)
  <2>1. t \ {x} \in SUBSET U /\ t \ {x} \subseteq t /\ t \ {x} # t
    BY <1>3, <1>5
  <2> QED
    BY <1>2, <2>1
<1> DEFINE h == [s \in SUBSET t |-> IF x \in s THEN g[s \ {x}] + G[x] ELSE g[s]]
<1>7. G[x] \in Nat /\ g \in [SUBSET (t \ {x}) -> Nat]
  BY <1>3, <1>5, <1>6 DEF IsTotal
<1>8. \A s \in SUBSET t : IF x \in s THEN h[s] = g[s \ {x}] + G[x] /\ g[s \ {x}] \in Nat
                                     ELSE h[s] = g[s] /\ g[s] \in Nat
  BY <1>7
<1>9. h \in [SUBSET t -> Nat]
  BY <1>7, <1>8
<1>10. h[{}] = 0
  BY <1>6 DEF IsTotal
<1>11. ASSUME NEW s \in SUBSET t, NEW y \in s PROVE h[s] = h[s \ {y}] + G[y]
  <2>1. s \ {y} \in SUBSET t /\ y \in U /\ G[y] \in Nat
    BY <1>3
  <2>2. CASE y = x
    <3>1. h[s] = g[s \ {x}] + G[x] /\ h[s \ {x}] = g[s \ {x}]
      BY <1>8, <2>1, <2>2
    <3> QED
      BY <2>2, <3>1
  <2>3. CASE y # x /\ x \in s
    <3> DEFINE r == s \ {x}
    <3>1. r \in SUBSET (t \ {x}) /\ y \in r
      BY <2>3
    <3>2. g[r] = g[r \ {y}] + G[y]
      BY <1>6, <3>1 DEF IsTotal
    <3>3. h[s] = g[r] + G[x]
      BY <1>8, <2>3
    <3>4. x \in s \ {y} /\ (s \ {y}) \ {x} = r \ {y}
      BY <2>3
    <3>5. h[s \ {y}] = g[r \ {y}] + G[x] /\ g[r \ {y}] \in Nat
      BY <1>8, <2>1, <3>4
    <3> HIDE DEF r, h
    <3> QED
      BY <1>7, <2>1, <3>2, <3>3, <3>5
  <2>4. CASE x \notin s
    <3>1. s \in SUBSET (t \ {x})
      BY <2>4
    <3>2. g[s] = g[s \ {y}] + G[y]
      BY <1>6, <3>1 DEF IsTotal
    <3>3. h[s] = g[s] /\ h[s \ {y}] = g[s \ {y}]
      BY <1>8, <2>1, <2>4
    <3> QED
      BY <3>2, <3>3
  <2> QED
    BY <2>2, <2>3, <2>4
<1>12. IsTotal(h, t, G)
  <2> HIDE DEF h
  <2> QED
    BY <1>9, <1>10, <1>11 DEF IsTotal
<1> QED
  BY <1>3, <1>12

\* What the elements of S contribute, S being a part of U.
Total(U, S, G) == (CHOOSE h : IsTotal(h, U, G))[S]

\* The total of nothing is 0, and an element more adds its contribution.
LEMMA TotalFacts ==
  ASSUME NEW U, IsFiniteSet(U), NEW G \in [U -> Nat]
  PROVE  /\ Total(U, {}, G) = 0
         /\ \A S \in SUBSET U : Total(U, S, G) \in Nat
         /\ \A S \in SUBSET U : \A x \in S : Total(U, S, G) = Total(U, S \ {x}, G) + G[x]
<1>1. PICK h : h = CHOOSE g : IsTotal(g, U, G)
  OBVIOUS
<1>2. IsTotal(h, U, G)
  BY <1>1, TotalsExist
<1>3. \A S : Total(U, S, G) = h[S]
  BY <1>1 DEF Total
<1> QED
  BY <1>2, <1>3 DEF IsTotal

\* The same, said of one set and one of its elements.
LEMMA OneMore ==
  ASSUME NEW U, IsFiniteSet(U), NEW G \in [U -> Nat], NEW S \in SUBSET U, NEW x \in S
  PROVE  /\ Total(U, S, G) \in Nat /\ Total(U, S \ {x}, G) \in Nat
         /\ Total(U, S, G) = Total(U, S \ {x}, G) + G[x]
<1>1. S \ {x} \in SUBSET U
  OBVIOUS
<1> QED
  BY <1>1, TotalFacts

\* A function that adds up in some order finds the total.
AddsUp(g, S, G) ==
  /\ g[{}] = 0
  /\ \A s \in SUBSET S :
       s # {} => \E x \in s : g[s \ {x}] \in Nat => g[s] = g[s \ {x}] + G[x]

\* Whoever adds up the same contributions in some order finds the same total.
LEMMA TotalIsUnique ==
  ASSUME NEW U, IsFiniteSet(U), NEW G \in [U -> Nat], NEW S \in SUBSET U, NEW g,
         AddsUp(g, S, G)
  PROVE  g[S] = Total(U, S, G)
<1> DEFINE F == {s \in SUBSET S : g[s] # Total(U, s, G)}
<1>1. SUFFICES ASSUME F # {} PROVE FALSE
  <2>1. S \in SUBSET S
    OBVIOUS
  <2> QED
    BY <2>1
<1>2. PICK t \in F : \A u \in F : u \subseteq t => u = t
  <2>1. F \in SUBSET (SUBSET S) /\ IsFiniteSet(S)
    BY FS_Subset
  <2> HIDE DEF F
  <2> QED
    BY <1>1, <2>1, MinimalSet
<1>3. t \in SUBSET S /\ g[t] # Total(U, t, G)
  BY <1>2
<1>4. t # {}
  BY <1>3, TotalFacts DEF AddsUp
<1>5. PICK x \in t : g[t \ {x}] \in Nat => g[t] = g[t \ {x}] + G[x]
  BY <1>3, <1>4 DEF AddsUp
<1>6. g[t \ {x}] = Total(U, t \ {x}, G)
  <2>1. t \ {x} \in SUBSET S /\ t \ {x} \subseteq t /\ t \ {x} # t
    BY <1>3
  <2> QED
    BY <1>2, <2>1
<1>7. t \in SUBSET U /\ t \ {x} \in SUBSET U
  BY <1>3
<1> QED
  BY <1>3, <1>5, <1>6, <1>7, TotalFacts

\* What adds nothing has the total 0.
LEMMA NothingGained ==
  ASSUME NEW U, IsFiniteSet(U), NEW G \in [U -> Nat], NEW S \in SUBSET U, \A x \in S : G[x] = 0
  PROVE  Total(U, S, G) = 0
<1> DEFINE g == [s \in SUBSET S |-> 0]
<1>1. AddsUp(g, S, G)
  <2>1. g[{}] = 0
    OBVIOUS
  <2>2. ASSUME NEW s \in SUBSET S, s # {}
        PROVE  \E x \in s : g[s \ {x}] \in Nat => g[s] = g[s \ {x}] + G[x]
    <3>1. PICK x \in s : TRUE
      BY <2>2
    <3>2. g[s \ {x}] = 0 /\ g[s] = 0 /\ G[x] = 0
      BY <3>1
    <3> QED
      BY <3>2
  <2> HIDE DEF g
  <2> QED
    BY <2>1, <2>2 DEF AddsUp
<1>2. g[S] = 0
  OBVIOUS
<1> HIDE DEF g
<1> QED
  BY <1>1, <1>2, TotalIsUnique

\* One feature more.
LEMMA OneGainMore ==
  ASSUME NEW U, IsFiniteSet(U), NEW G \in [U -> Nat], NEW S \in SUBSET U, NEW x \in U, x \notin S
  PROVE  Total(U, S \cup {x}, G) = Total(U, S, G) + G[x] /\ Total(U, S, G) \in Nat
<1>1. S \cup {x} \in SUBSET U /\ x \in S \cup {x} /\ (S \cup {x}) \ {x} = S
  OBVIOUS
<1>2. PICK T : T = S \cup {x}
  OBVIOUS
<1>3. T \in SUBSET U /\ x \in T /\ T \ {x} = S
  BY <1>1, <1>2
<1>4. Total(U, T, G) = Total(U, T \ {x}, G) + G[x] /\ Total(U, T \ {x}, G) \in Nat
  BY <1>3, OneMore
<1> QED
  BY <1>2, <1>3, <1>4

\* What adds nothing may be left out.
LEMMA TotalOfParts ==
  ASSUME NEW U, IsFiniteSet(U), NEW G \in [U -> Nat], NEW S \in SUBSET U,
         \A x \in U \ S : G[x] = 0
  PROVE  Total(U, U, G) = Total(U, S, G)
<1> DEFINE g == [s \in SUBSET U |-> Total(U, s \cap S, G)]
<1>1. g[{}] = 0
  <2>1. {} \cap S = {}
    OBVIOUS
  <2> QED
    BY <2>1, TotalFacts
<1>2. ASSUME NEW s \in SUBSET U, s # {}
      PROVE  \E x \in s : g[s \ {x}] \in Nat => g[s] = g[s \ {x}] + G[x]
  <2>1. PICK x \in s : TRUE
    BY <1>2
  <2>2. /\ g[s] = Total(U, s \cap S, G) /\ g[s \ {x}] = Total(U, (s \ {x}) \cap S, G)
        /\ s \cap S \in SUBSET U /\ (s \ {x}) \cap S \in SUBSET U
    OBVIOUS
  <2> HIDE DEF g
  <2>3. CASE x \in S
    <3> DEFINE t == s \cap S
    <3>1. t \in SUBSET U /\ x \in t /\ (s \ {x}) \cap S = t \ {x}
      BY <2>1, <2>3
    <3> HIDE DEF t
    <3>2. Total(U, t, G) = Total(U, t \ {x}, G) + G[x]
      BY <3>1, OneMore
    <3> QED
      BY <2>1, <2>2, <3>1, <3>2 DEF t
  <2>4. CASE x \notin S
    <3>1. (s \ {x}) \cap S = s \cap S /\ G[x] = 0
      BY <2>1, <2>4
    <3>2. g[s] = g[s \ {x}]
      BY <2>2, <3>1
    <3>3. g[s \ {x}] \in Nat => g[s] = g[s \ {x}] + G[x]
      BY <3>1, <3>2
    <3> QED
      BY <2>1, <3>3
  <2> QED
    BY <2>3, <2>4
<1>3. AddsUp(g, U, G)
  <2> HIDE DEF g
  <2> QED
    BY <1>1, <1>2 DEF AddsUp
<1>4. g[U] = Total(U, S, G)
  <2>1. U \cap S = S /\ U \in SUBSET U
    OBVIOUS
  <2> QED
    BY <2>1
<1>5. U \in SUBSET U
  OBVIOUS
<1> HIDE DEF g
<1> QED
  BY <1>3, <1>4, <1>5, TotalIsUnique

\* What an element adds is in the total.
LEMMA TotalPositive ==
  ASSUME NEW U, IsFiniteSet(U), NEW G \in [U -> Nat], NEW S \in SUBSET U,
         NEW x \in S, G[x] > 0
  PROVE  Total(U, S, G) > 0
<1>1. Total(U, S, G) = Total(U, S \ {x}, G) + G[x] /\ Total(U, S \ {x}, G) \in Nat
  BY OneMore
<1>2. G[x] \in Nat
  OBVIOUS
<1> QED
  BY <1>1, <1>2

\* Two functions take the elements of a set one by one, as c chooses, in the same way.
FoldAlike(g, t, c, S) ==
  /\ \A s \in SUBSET S : s # {} => c[s] \in s
  /\ g[{}] = t[{}]
  /\ \A s \in SUBSET S : s # {} /\ g[s \ {c[s]}] = t[s \ {c[s]}] => g[s] = t[s]

\* They come to the same.
LEMMA SameFold ==
  ASSUME NEW S, IsFiniteSet(S), NEW c, NEW g, NEW t, FoldAlike(g, t, c, S)
  PROVE  g[S] = t[S]
<1> DEFINE F == {s \in SUBSET S : g[s] # t[s]}
<1>1. SUFFICES ASSUME F # {} PROVE FALSE
  <2>1. S \in SUBSET S
    OBVIOUS
  <2> QED
    BY <2>1
<1>2. PICK s \in F : \A u \in F : u \subseteq s => u = s
  <2>1. F \in SUBSET (SUBSET S)
    OBVIOUS
  <2> HIDE DEF F
  <2> QED
    BY <1>1, <2>1, MinimalSet
<1>3. s \in SUBSET S /\ g[s] # t[s] /\ s # {}
  BY <1>2 DEF FoldAlike
<1>4. PICK x \in s : x = c[s]
  BY <1>3 DEF FoldAlike
<1>5. s \ {x} \in SUBSET S /\ s \ {x} \subseteq s /\ s \ {x} # s
  BY <1>3
<1>6. s \ {x} \notin F
  <2> HIDE DEF F
  <2> QED
    BY <1>2, <1>5
<1>7. g[s \ {x}] = t[s \ {x}]
  BY <1>5, <1>6
<1> QED
  BY <1>3, <1>4, <1>7 DEF FoldAlike

\* Contributions of other elements do not matter for a total.
LEMMA TotalWithin ==
  ASSUME NEW U, IsFiniteSet(U), NEW G \in [U -> Nat],
         NEW V, IsFiniteSet(V), NEW H \in [V -> Nat],
         NEW S, S \subseteq U, S \subseteq V, \A x \in S : G[x] = H[x]
  PROVE  Total(U, S, G) = Total(V, S, H)
<1> DEFINE g == [s \in SUBSET S |-> Total(U, s, G)]
<1>1. g[{}] = 0
  BY TotalFacts
<1>2. ASSUME NEW s \in SUBSET S, s # {}
      PROVE  \E x \in s : g[s \ {x}] \in Nat => g[s] = g[s \ {x}] + H[x]
  <2>1. PICK x \in s : TRUE
    BY <1>2
  <2>2. s \in SUBSET U /\ s \ {x} \in SUBSET S /\ G[x] = H[x]
    OBVIOUS
  <2>3. Total(U, s, G) = Total(U, s \ {x}, G) + G[x]
    BY <2>2, OneMore
  <2>4. g[s] = Total(U, s, G) /\ g[s \ {x}] = Total(U, s \ {x}, G)
    BY <2>2
  <2> HIDE DEF g
  <2> QED
    BY <2>1, <2>2, <2>3, <2>4
<1>3. AddsUp(g, S, H)
  <2> HIDE DEF g
  <2> QED
    BY <1>1, <1>2 DEF AddsUp
<1>4. g[S] = Total(U, S, G)
  OBVIOUS
<1>5. S \in SUBSET V
  OBVIOUS
<1> HIDE DEF g
<1> QED
  BY <1>3, <1>4, <1>5, TotalIsUnique

\* A total may be taken over other things that contribute the same, one for each.
LEMMA TotalAlong ==
  ASSUME NEW U, IsFiniteSet(U), NEW G \in [U -> Nat],
         NEW V, IsFiniteSet(V), NEW H \in [V -> Nat],
         NEW b \in [U -> V],
         \A x, y \in U : b[x] = b[y] => x = y,
         \A x \in U : G[x] = H[b[x]]
  PROVE  Total(U, U, G) = Total(V, {b[x] : x \in U}, H)
<1> DEFINE im(s) == {b[x] : x \in s}
           g == [s \in SUBSET U |-> Total(V, im(s), H)]
<1>1. g[{}] = 0
  <2>1. im({}) = {}
    OBVIOUS
  <2>2. g[{}] = Total(V, im({}), H)
    OBVIOUS
  <2> HIDE DEF g, im
  <2> QED
    BY <2>1, <2>2, TotalFacts
<1>2. ASSUME NEW s \in SUBSET U, s # {}
      PROVE  \E x \in s : g[s \ {x}] \in Nat => g[s] = g[s \ {x}] + G[x]
  <2>1. PICK x \in s : TRUE
    BY <1>2
  <2>2. s \ {x} \in SUBSET U /\ im(s) \in SUBSET V /\ b[x] \in im(s) /\ G[x] = H[b[x]]
    OBVIOUS
  <2>3. im(s \ {x}) = im(s) \ {b[x]}
    OBVIOUS
  <2>4. g[s] = Total(V, im(s), H) /\ g[s \ {x}] = Total(V, im(s \ {x}), H)
    BY <2>2
  <2> HIDE DEF g, im
  <2>5. Total(V, im(s), H) = Total(V, im(s) \ {b[x]}, H) + H[b[x]]
    BY <2>2, OneMore
  <2> QED
    BY <2>1, <2>2, <2>3, <2>4, <2>5
<1>3. AddsUp(g, U, G)
  <2> HIDE DEF g
  <2> QED
    BY <1>1, <1>2 DEF AddsUp
<1>4. g[U] = Total(V, im(U), H)
  OBVIOUS
<1>5. U \in SUBSET U
  OBVIOUS
<1> HIDE DEF g
<1> QED
  BY <1>3, <1>4, <1>5, TotalIsUnique
-----------------------------------------------------------------------------
(* Places in an order *)

\* How many elements of S come before x in the order R.
PlaceOf(S, R, x) == Cardinality({y \in S : <<y, x>> \in R})

StrictOrder(S, R) ==
  /\ \A x \in S : <<x, x>> \notin R
  /\ \A x, y \in S : x # y => <<x, y>> \in R \/ <<y, x>> \in R
  /\ \A x, y, z \in S : <<x, y>> \in R /\ <<y, z>> \in R => <<x, z>> \in R

\* In an order every element has a place of its own, and no place is empty.
LEMMA PlacesAreTaken ==
  ASSUME NEW S, IsFiniteSet(S), NEW R, StrictOrder(S, R)
  PROVE  /\ \A x, y \in S : PlaceOf(S, R, x) = PlaceOf(S, R, y) => x = y
         /\ \A k \in 1 .. Cardinality(S) : \E x \in S : PlaceOf(S, R, x) = k - 1
<1> DEFINE n == Cardinality(S)
           P(x) == {y \in S : <<y, x>> \in R}
           rank == [x \in S |-> PlaceOf(S, R, x)]
<1>1. n \in Nat
  BY FS_CardinalityType
<1>2. ASSUME NEW x \in S
      PROVE  IsFiniteSet(P(x)) /\ Cardinality(P(x)) \in Nat /\ Cardinality(P(x)) < n
  <2>1. P(x) \in SUBSET S /\ P(x) # S
    BY DEF StrictOrder
  <2>2. IsFiniteSet(P(x)) /\ Cardinality(P(x)) <= n /\ (n = Cardinality(P(x)) => S = P(x))
    <3> HIDE DEF P
    <3> QED
      BY <2>1, FS_Subset
  <2>3. Cardinality(P(x)) \in Nat
    BY <2>2, FS_CardinalityType
  <2> HIDE DEF P, n
  <2> QED
    BY <1>1, <2>1, <2>2, <2>3
<1>3. ASSUME NEW x \in S, NEW y \in S, <<x, y>> \in R
      PROVE  Cardinality(P(x)) < Cardinality(P(y))
  <2>1. P(x) \in SUBSET P(y) /\ P(x) # P(y)
    BY <1>3 DEF StrictOrder
  <2>2. IsFiniteSet(P(y)) /\ Cardinality(P(y)) \in Nat /\ Cardinality(P(x)) \in Nat
    BY <1>2
  <2>3. Cardinality(P(x)) <= Cardinality(P(y))
           /\ (Cardinality(P(y)) = Cardinality(P(x)) => P(y) = P(x))
    <3> HIDE DEF P
    <3> QED
      BY <2>1, <2>2, FS_Subset
  <2> HIDE DEF P
  <2> QED
    BY <2>1, <2>2, <2>3
<1>4. \A x, y \in S : Cardinality(P(x)) = Cardinality(P(y)) => x = y
  <2> SUFFICES ASSUME NEW x \in S, NEW y \in S, Cardinality(P(x)) = Cardinality(P(y)), x # y
               PROVE  FALSE
    OBVIOUS
  <2>1. Cardinality(P(x)) \in Nat /\ Cardinality(P(y)) \in Nat
    BY <1>2
  <2>2. <<x, y>> \in R \/ <<y, x>> \in R
    BY DEF StrictOrder
  <2> HIDE DEF P
  <2> QED
    BY <1>3, <2>1, <2>2
<1>5. \A x \in S : rank[x] = Cardinality(P(x))
  BY DEF PlaceOf
<1>6. rank \in Injection(S, 0 .. n - 1)
  <2>1. rank \in [S -> 0 .. n - 1]
    <3>1. \A x \in S : rank[x] \in 0 .. n - 1
      <4> HIDE DEF P, n, rank
      <4> QED
        BY <1>1, <1>2, <1>5
    <3> HIDE DEF n
    <3> QED
      BY <3>1
  <2>2. \A x, y \in S : rank[x] = rank[y] => x = y
    BY <1>4, <1>5
  <2> HIDE DEF n, rank
  <2> QED
    BY <2>1, <2>2 DEF Injection, IsInjective
<1>7. rank \in Surjection(S, 0 .. n - 1)
  <2>1. IsFiniteSet(0 .. n - 1) /\ Cardinality(0 .. n - 1) = n
    BY <1>1, FS_Interval, SMTT(30)
  <2> HIDE DEF rank
  <2> QED
    BY <1>6, <2>1, FS_Injection
<1>8. ASSUME NEW k \in 1 .. n PROVE \E x \in S : rank[x] = k - 1
  <2>1. k - 1 \in 0 .. n - 1
    BY <1>1
  <2> HIDE DEF rank
  <2> QED
    BY <1>7, <2>1 DEF Surjection
<1> QED
  BY <1>4, <1>5, <1>8 DEF PlaceOf

\* There is an element at every place.
LEMMA PlaceTaken ==
  ASSUME NEW S, IsFiniteSet(S), NEW R, StrictOrder(S, R), NEW k \in 1 .. Cardinality(S)
  PROVE  \E x \in S : PlaceOf(S, R, x) = k - 1
BY PlacesAreTaken

\* A sequence of all elements of S, each of them once.
Enumerates(q, S) ==
  /\ q \in Seq(S)
  /\ \A j, k \in 1 .. Len(q) : q[j] = q[k] => j = k
  /\ \A x \in S : \E k \in 1 .. Len(q) : q[k] = x

\* Whose elements are at their places is such a sequence.
LEMMA PlacedOnce ==
  ASSUME NEW S, IsFiniteSet(S), NEW R, StrictOrder(S, R),
         NEW q \in [1 .. Cardinality(S) -> S],
         \A k \in 1 .. Cardinality(S) : PlaceOf(S, R, q[k]) = k - 1
  PROVE  Enumerates(q, S)
<1>1. Cardinality(S) \in Nat
  BY FS_CardinalityType
<1>2. q \in Seq(S) /\ Len(q) = Cardinality(S)
  BY <1>1
<1>3. ASSUME NEW j \in 1 .. Len(q), NEW k \in 1 .. Len(q), q[j] = q[k] PROVE j = k
  <2>1. j - 1 = k - 1
    BY <1>2, <1>3
  <2> QED
    BY <1>1, <1>2, <2>1
<1>4. q \in Injection(1 .. Cardinality(S), S)
  BY <1>1, <1>2, <1>3 DEF Injection, IsInjective
<1>5. IsFiniteSet(1 .. Cardinality(S)) /\ Cardinality(1 .. Cardinality(S)) = Cardinality(S)
  BY <1>1, FS_Interval
<1>6. q \in Surjection(1 .. Cardinality(S), S)
  BY <1>4, <1>5, FS_Injection
<1> QED
  BY <1>2, <1>3, <1>6 DEF Surjection, Enumerates

\* q begins with the elements of K, a part of S.
BeginsWith(q, K, S) ==
  /\ Cardinality(K) \in Nat /\ Cardinality(K) <= Cardinality(S)
  /\ {q[j] : j \in 1 .. Cardinality(K)} = K

\* If what comes before an element of K is in K, the elements of K come first.
LEMMA FirstPlaces ==
  ASSUME NEW S, IsFiniteSet(S), NEW R, StrictOrder(S, R), NEW K \in SUBSET S,
         \A x \in K, y \in S : <<y, x>> \in R => y \in K,
         NEW q \in [1 .. Cardinality(S) -> S],
         \A k \in 1 .. Cardinality(S) : PlaceOf(S, R, q[k]) = k - 1
  PROVE  BeginsWith(q, K, S)
<1> DEFINE m == Cardinality(K)
           n == Cardinality(S)
<1>1. IsFiniteSet(K) /\ m \in Nat /\ n \in Nat /\ m <= n
  BY FS_Subset, FS_CardinalityType
<1>2. StrictOrder(K, R)
  BY DEF StrictOrder
<1>3. ASSUME NEW x \in K PROVE PlaceOf(K, R, x) = PlaceOf(S, R, x)
  <2>1. {y \in K : <<y, x>> \in R} = {y \in S : <<y, x>> \in R}
    OBVIOUS
  <2> QED
    BY <2>1 DEF PlaceOf
<1>4. \A x, y \in S : PlaceOf(S, R, x) = PlaceOf(S, R, y) => x = y
  BY PlacesAreTaken
<1> HIDE DEF m, n
<1>5. ASSUME NEW k \in 1 .. m PROVE q[k] \in K
  <2>1. PICK x \in K : PlaceOf(K, R, x) = k - 1
    BY <1>1, <1>2, PlaceTaken DEF m
  <2>2. k \in 1 .. n
    BY <1>1
  <2>3. q[k] \in S /\ PlaceOf(S, R, q[k]) = k - 1
    BY <2>2 DEF n
  <2> QED
    BY <1>3, <1>4, <2>1, <2>3
<1>6. ASSUME NEW x \in K PROVE \E k \in 1 .. m : q[k] = x
  <2>1. Enumerates(q, S)
    BY PlacedOnce
  <2>2. PICK k \in 1 .. Len(q) : q[k] = x
    BY <2>1 DEF Enumerates
  <2>3. k \in 1 .. n
    BY <1>1, <2>2 DEF n
  <2>4. PlaceOf(K, R, x) = k - 1
    BY <1>3, <2>2, <2>3 DEF n
  <2> DEFINE before == {y \in K : <<y, x>> \in R}
  <2>5. before \in SUBSET K /\ x \notin before
    BY DEF StrictOrder
  <2>6. Cardinality(before) <= m /\ Cardinality(before) # m /\ Cardinality(before) \in Nat
    <3> HIDE DEF before
    <3>1. IsFiniteSet(before) /\ Cardinality(before) <= Cardinality(K)
          /\ (Cardinality(K) = Cardinality(before) => K = before)
      BY <1>1, <2>5, FS_Subset
    <3>2. Cardinality(before) \in Nat
      BY <3>1, FS_CardinalityType
    <3> QED
      BY <2>5, <3>1, <3>2 DEF m
  <2>7. k - 1 < m
    BY <1>1, <2>4, <2>6 DEF PlaceOf
  <2>8. k \in 1 .. m
    BY <1>1, <2>3, <2>7
  <2> QED
    BY <2>2, <2>8
<1> QED
  BY <1>1, <1>5, <1>6 DEF m, n, BeginsWith
=============================================================================
