--------------------------- MODULE QueryTreesProofs ---------------------------
(***************************************************************************)
(* Theorems about QueryTrees: the locks, the accessors and the containers  *)
(* of query trees, for every set of threads, sessions, collections and     *)
(* plugins, and for every algorithm a client may send.                     *)
(***************************************************************************)
EXTENDS QueryTrees, SharedLemmas, FiniteSetTheorems

-----------------------------------------------------------------------------
(* Jobs *)

JobFields == {"on", "by", "session", "step", "given", "alg", "linked", "cloned",
              "todo", "entries", "nodes"}

\* What a job is, as far as every step needs it.
JobInv ==
  /\ job.on \in BOOLEAN
  /\ job.on => /\ DOMAIN job = JobFields
               /\ job.by \in Threads /\ job.session \in Sessions
               /\ job.step \in {"configure", "build"}

\* Steps that go on with a job change these fields of it only.
JobGoesOn ==
  /\ job.on /\ job'.on /\ DOMAIN job' = JobFields
  /\ job'.by = job.by /\ job'.session = job.session

LEMMA ConfigureElementJob ==
  ASSUME JobInv, NEW t \in Threads, ConfigureElement(t)
  PROVE  JobGoesOn /\ job'.step = "configure"
                   /\ job'.entries = job.entries /\ job'.nodes = job.nodes
BY DEF ConfigureElement, Working, ConfiguredAt, JobInv, JobGoesOn, JobFields

LEMMA StartBuildJob ==
  ASSUME JobInv, NEW t \in Threads, StartBuild(t)
  PROVE  JobGoesOn /\ job'.step = "build"
                   /\ job'.todo = <<[pos |-> <<>>, leave |-> FALSE]>>
                   /\ job'.alg = job.alg
                   /\ job'.entries = job.entries /\ job'.nodes = job.nodes
BY DEF StartBuild, Working, JobInv, JobGoesOn, JobFields

LEMMA EnterNodeJob ==
  ASSUME JobInv, NEW t \in Threads, EnterNode(t)
  PROVE  JobGoesOn /\ job'.step = "build"
                   /\ job'.todo = Visit(KidSeq(job.alg, Here),
                                        <<[pos |-> Here, leave |-> TRUE]>> \o Tail(job.todo))
                   /\ job'.alg = job.alg
                   /\ job'.entries = Entered(job.entries, Read(job.alg[Here], "id"), Here)
                   /\ job'.nodes = job.nodes
BY DEF EnterNode, Working, JobInv, JobGoesOn, JobFields

LEMMA NodeDoneJob ==
  ASSUME JobInv, NEW t \in Threads, Constructing(t), job' = NodeDone
  PROVE  JobGoesOn /\ job'.step = "build"
                   /\ job'.todo = Tail(job.todo)
                   /\ job'.alg = job.alg
                   /\ job'.entries = job.entries
                   /\ job'.nodes = Merged([p \in {Here} |-> NodeHere], job.nodes)
BY DEF NodeDone, Constructing, Working, JobInv, JobGoesOn, JobFields

\* No step makes something of a job that is none.
LEMMA JobsKeep == JobInv /\ [Next]_vars => JobInv'
<1> SUFFICES ASSUME JobInv, [Next]_vars PROVE JobInv'
  OBVIOUS
<1>1. CASE UNCHANGED job
  BY <1>1 DEF JobInv
<1>2. CASE job' = Nobody
  BY <1>2 DEF JobInv, Nobody
<1>3. ASSUME NEW t \in Threads, NEW s \in Sessions, NEW a \in Requests, SetAlgorithm(t, s, a)
      PROVE  JobInv'
  <2>1. CASE job' = Begun(t, s, a)
    <3>1. job'.on = TRUE /\ job'.by = t /\ job'.session = s /\ job'.step = "configure"
      BY <2>1 DEF Begun
    <3>2. DOMAIN job' = JobFields
      BY <2>1 DEF Begun, JobFields
    <3> QED
      BY <3>1, <3>2 DEF JobInv
  <2> QED
    BY <1>1, <1>3, <2>1 DEF SetAlgorithm
<1>4. ASSUME NEW t \in Threads, ConfigureElement(t) PROVE JobInv'
  BY <1>4, ConfigureElementJob DEF JobInv, JobGoesOn
<1>5. ASSUME NEW t \in Threads, StartBuild(t) PROVE JobInv'
  BY <1>5, StartBuildJob DEF JobInv, JobGoesOn
<1>6. ASSUME NEW t \in Threads, EnterNode(t) PROVE JobInv'
  BY <1>6, EnterNodeJob DEF JobInv, JobGoesOn
<1>7. ASSUME NEW t \in Threads, Constructing(t), job' = NodeDone PROVE JobInv'
  BY <1>7, NodeDoneJob DEF JobInv, JobGoesOn
<1> QED
  BY <1>1, <1>2, <1>3, <1>4, <1>5, <1>6, <1>7
  DEF Next, vars, Scan, DeleteSession, ConfigureCrashes, ReuseAccessor, MakeAccessor,
      AccessorThrows, HierarchyThrows, NullAccessor, Refuse, Finish, Throw

-----------------------------------------------------------------------------
(* The locks *)

Balanced(t) ==
  /\ Depth(gmutex, t) = kept[t]
  /\ Depth(manager, t) = thrown[t] + (IF job.on /\ job.by = t THEN 1 ELSE 0)

LockInv ==
  /\ manager \in MutexType /\ WellFormed(manager)
  /\ gmutex \in MutexType /\ WellFormed(gmutex)
  /\ thrown \in [Threads -> Nat] /\ kept \in [Threads -> Nat]
  /\ \A t \in Threads : Balanced(t)

LEMMA LocksKeep == JobInv /\ LockInv /\ [Next]_vars => LockInv'
<1> SUFFICES ASSUME JobInv, LockInv, [Next]_vars PROVE LockInv'
  OBVIOUS
<1>1. CASE UNCHANGED <<manager, gmutex, thrown, kept, job>>
  BY <1>1 DEF LockInv, Balanced
<1>2. CASE UNCHANGED <<manager, gmutex, thrown, kept>> /\ JobGoesOn
  BY <1>2 DEF LockInv, Balanced, JobGoesOn
<1>3. ASSUME NEW t \in Threads, NEW s \in Sessions, NEW a \in Requests, SetAlgorithm(t, s, a)
      PROVE  LockInv'
  <2>1. CASE UNCHANGED <<job, manager>>
    BY <1>1, <1>3, <2>1 DEF SetAlgorithm, lossVars
  <2>2. CASE job' = Begun(t, s, a) /\ manager' = Locked(manager, t, 1)
    <3>1. /\ job'.on /\ job'.by = t /\ ~job.on
          /\ CanLock(manager, t) /\ UNCHANGED <<gmutex, thrown, kept>>
      BY <1>3, <2>2 DEF SetAlgorithm, Begun, Free, lossVars
    <3>2. /\ manager' \in MutexType /\ WellFormed(manager')
          /\ Depth(manager', t) = Depth(manager, t) + 1
          /\ \A u \in Threads \ {t} : Depth(manager', u) = Depth(manager, u)
      BY <2>2, <3>1, LockLemma DEF LockInv
    <3> QED
      BY <3>1, <3>2 DEF LockInv, Balanced
  <2> QED
    BY <1>3, <2>1, <2>2 DEF SetAlgorithm
<1>4. ASSUME NEW t \in Threads, job' = NodeDone, Constructing(t),
             UNCHANGED <<manager, thrown>>,
             \/ UNCHANGED <<gmutex, kept>>
             \/ /\ gmutex' = Locked(gmutex, t, 1)
                /\ kept' = [kept EXCEPT ![t] = @ + 1]
      PROVE  LockInv'
  <2>1. JobGoesOn
    BY <1>4, NodeDoneJob
  <2>2. CASE UNCHANGED <<gmutex, kept>>
    BY <1>2, <1>4, <2>1, <2>2
  <2>3. CASE gmutex' = Locked(gmutex, t, 1) /\ kept' = [kept EXCEPT ![t] = @ + 1]
    <3>1. CanLock(gmutex, t)
      BY <1>4 DEF Constructing, Working, May
    <3>2. /\ gmutex' \in MutexType /\ WellFormed(gmutex')
          /\ Depth(gmutex', t) = Depth(gmutex, t) + 1
          /\ \A u \in Threads \ {t} : Depth(gmutex', u) = Depth(gmutex, u)
      BY <2>3, <3>1, LockLemma DEF LockInv
    <3> QED
      BY <1>4, <2>1, <2>3, <3>2 DEF LockInv, Balanced, JobGoesOn
  <2> QED
    BY <1>4, <2>2, <2>3
<1>5. ASSUME NEW t \in Threads, MakeAccessor(t) PROVE LockInv'
  <2>1. \/ UNCHANGED <<gmutex, kept>>
        \/ gmutex' = Locked(gmutex, t, 1) /\ kept' = [kept EXCEPT ![t] = @ + 1]
    <3>1. PICK lost \in {0, 1} :
            /\ gmutex' = IF lost = 0 THEN gmutex ELSE Locked(gmutex, t, lost)
            /\ kept' = [kept EXCEPT ![t] = @ + lost]
      BY <1>5 DEF MakeAccessor
    <3>2. lost = 0 => kept' = kept
      BY <3>1 DEF LockInv
    <3> QED
      BY <3>1, <3>2
  <2> QED
    BY <1>4, <1>5, <2>1 DEF MakeAccessor
<1>6. ASSUME NEW t \in Threads, Constructing(t), Throw(t), UNCHANGED manager,
             \/ UNCHANGED <<gmutex, kept>>
             \/ /\ gmutex' = Locked(gmutex, t, 1)
                /\ kept' = [kept EXCEPT ![t] = @ + 1]
      PROVE  LockInv'
  <2>1. /\ job.on /\ job.by = t /\ CanLock(gmutex, t)
        /\ ~job'.on /\ thrown' = [thrown EXCEPT ![t] = @ + 1]
    BY <1>6 DEF Constructing, Working, May, Throw, Nobody
  <2>2. /\ gmutex' \in MutexType /\ WellFormed(gmutex') /\ kept' \in [Threads -> Nat]
        /\ \A u \in Threads : Depth(gmutex', u) = kept'[u]
    BY <1>6, <2>1, LockLemma DEF LockInv, Balanced
  <2>3. /\ thrown' \in [Threads -> Nat]
        /\ \A u \in Threads : Depth(manager', u) = thrown'[u]
    BY <1>6, <2>1 DEF LockInv, Balanced
  <2> QED
    BY <1>6, <2>1, <2>2, <2>3 DEF LockInv, Balanced
<1>7. ASSUME NEW t \in Threads, Finish(t) PROVE LockInv'
  <2>1. /\ job.on /\ job.by = t /\ ~job'.on /\ manager' = Unlocked(manager, 1)
        /\ UNCHANGED <<gmutex, thrown, kept>>
    BY <1>7 DEF Finish, Working, Nobody, lossVars
  <2>2. Depth(manager, t) >= 1
    BY <2>1 DEF LockInv, Balanced
  <2>3. /\ manager' \in MutexType /\ WellFormed(manager')
        /\ Depth(manager', t) = Depth(manager, t) - 1
        /\ \A u \in Threads \ {t} : Depth(manager', u) = Depth(manager, u)
    BY <2>1, <2>2, UnlockLemma DEF LockInv
  <2> QED
    BY <2>1, <2>3 DEF LockInv, Balanced
<1>8. ASSUME NEW t \in Threads,
             ConfigureElement(t) \/ StartBuild(t) \/ EnterNode(t)
      PROVE  LockInv'
  <2>1. JobGoesOn
    BY <1>8, ConfigureElementJob, StartBuildJob, EnterNodeJob
  <2> QED
    BY <1>2, <1>8, <2>1 DEF ConfigureElement, StartBuild, EnterNode, lossVars
<1>9. ASSUME NEW t \in Threads, ReuseAccessor(t) \/ NullAccessor(t) PROVE LockInv'
  BY <1>1, <1>4, <1>6, <1>9 DEF ReuseAccessor, NullAccessor, lossVars
<1>10. ASSUME NEW t \in Threads, AccessorThrows(t) \/ Refuse(t) PROVE LockInv'
  BY <1>6, <1>10 DEF AccessorThrows, Refuse
<1>11. ASSUME NEW t \in Threads, HierarchyThrows(t) PROVE LockInv'
  BY <1>1, <1>6, <1>11 DEF HierarchyThrows, lossVars
<1> QED
  BY <1>1, <1>3, <1>5, <1>7, <1>8, <1>9, <1>10, <1>11
  DEF Next, vars, lossVars, Scan, DeleteSession, ConfigureCrashes

-----------------------------------------------------------------------------
(* The accessors *)

\* The nodes a session holds: its tree, or what the job under way has made of it.
Held(s) == IF job.on /\ job.session = s THEN job.nodes ELSE tree[s]

\* The nodes that use an accessor.
Uses(c, n) == UNION {{<<s, p>> : p \in Users(Held(s), c, n)} : s \in Sessions}

NodeFields == {"id", "coll", "weight", "accessor", "live"}

EntryType == {e \in [count : Nat, object : BOOLEAN] : e.object => e.count > 0}

\* The counter of an accessor may be too high, but is never too low.
Counted(c, n) ==
  /\ IsFiniteSet(Uses(c, n))
  /\ Cardinality(Uses(c, n)) <= admin[c][n].count
  /\ Uses(c, n) # {} => admin[c][n].object

UseInv ==
  /\ DOMAIN tree = Sessions
  /\ admin \in [Collections -> [AccessorNames -> EntryType]]
  /\ job.on => tree[job.session] = <<>>
  /\ job.on /\ job.step = "configure" => job.nodes = <<>>
  /\ \A s \in Sessions : \A p \in DOMAIN Held(s) :
       /\ DOMAIN Held(s)[p] = NodeFields
       /\ Held(s)[p].coll \in Collections /\ Held(s)[p].accessor \in AccessorNames
       /\ Held(s)[p].live
  /\ \A c \in Collections, n \in AccessorNames : Counted(c, n)

LEMMA UsesFacts ==
  ASSUME NEW c, NEW n
  PROVE  /\ \A s \in Sessions : \A p : <<s, p>> \in Uses(c, n) <=> p \in Users(Held(s), c, n)
         /\ \A u \in Uses(c, n) : \E s \in Sessions : \E p \in Users(Held(s), c, n) : u = <<s, p>>
BY DEF Uses

\* Fewer uses are counted as well.
LEMMA FewerUses ==
  ASSUME NEW c, NEW n, Counted(c, n), Uses(c, n)' \subseteq Uses(c, n),
         admin[c][n].count \in Nat, admin'[c][n].count \in Nat,
         admin'[c][n].count >= admin[c][n].count, admin[c][n].object => admin'[c][n].object
  PROVE  Counted(c, n)'
<1>1. /\ IsFiniteSet(Uses(c, n)') /\ Cardinality(Uses(c, n)') <= Cardinality(Uses(c, n))
      /\ Cardinality(Uses(c, n)') \in Nat /\ Cardinality(Uses(c, n)) \in Nat
  BY FS_Subset, FS_CardinalityType DEF Counted
<1> QED
  BY <1>1 DEF Counted

\* One use more, and the counter has risen.
LEMMA OneMoreUse ==
  ASSUME NEW c, NEW n, NEW u, Counted(c, n), Uses(c, n)' \subseteq Uses(c, n) \cup {u},
         admin[c][n].count \in Nat, admin'[c][n].count \in Nat,
         admin'[c][n].count > admin[c][n].count, admin'[c][n].object
  PROVE  Counted(c, n)'
<1>1. /\ IsFiniteSet(Uses(c, n) \cup {u}) /\ Cardinality(Uses(c, n)) \in Nat
      /\ Cardinality(Uses(c, n) \cup {u}) <= Cardinality(Uses(c, n)) + 1
  <2>1. IsFiniteSet(Uses(c, n)) /\ Cardinality(Uses(c, n)) \in Nat
    BY FS_CardinalityType DEF Counted
  <2>2. /\ IsFiniteSet(Uses(c, n) \cup {u})
        /\ Cardinality(Uses(c, n) \cup {u}) =
             IF u \in Uses(c, n) THEN Cardinality(Uses(c, n)) ELSE Cardinality(Uses(c, n)) + 1
    BY <2>1, FS_AddElement
  <2> QED
    BY <2>1, <2>2
<1>2. /\ IsFiniteSet(Uses(c, n)') /\ Cardinality(Uses(c, n)') \in Nat
      /\ Cardinality(Uses(c, n)') <= Cardinality(Uses(c, n) \cup {u})
  BY <1>1, FS_Subset, FS_CardinalityType
<1>3. Cardinality(Uses(c, n) \cup {u}) \in Nat
  BY <1>1, FS_CardinalityType
<1> QED
  BY <1>1, <1>2, <1>3 DEF Counted

\* There are as many uses by a session as users in its tree.
LEMMA UsersOf ==
  ASSUME NEW c, NEW n, NEW s \in Sessions, NEW K \in SUBSET Users(Held(s), c, n),
         IsFiniteSet(Uses(c, n))
  PROVE  /\ IsFiniteSet(K) /\ Cardinality(K) \in Nat
         /\ {<<s, p>> : p \in K} \subseteq Uses(c, n)
         /\ Cardinality({<<s, p>> : p \in K}) \in Nat
         /\ Cardinality(K) <= Cardinality({<<s, p>> : p \in K})
<1> DEFINE T == {<<s, p>> : p \in K}
           f == [p \in K |-> <<s, p>>]
<1>1. T \subseteq Uses(c, n)
  BY UsesFacts
<1>2. IsFiniteSet(T) /\ Cardinality(T) \in Nat
  BY <1>1, FS_Subset, FS_CardinalityType
<1>3. f \in Injection(K, T)
  BY DEF Injection, IsInjective
<1>4. IsFiniteSet(K) /\ Cardinality(K) <= Cardinality(T)
  BY <1>2, <1>3, FS_Injection
<1> QED
  BY <1>1, <1>2, <1>4, FS_CardinalityType

\* What happens to a node whose accessor may have gone.
LEMMA SetLive ==
  ASSUME NEW node, DOMAIN node = NodeFields, NEW b
  PROVE  LET new == [node EXCEPT !.live = @ /\ b] IN
         /\ DOMAIN new = NodeFields /\ new.live = (node.live /\ b)
         /\ new.id = node.id /\ new.coll = node.coll /\ new.accessor = node.accessor
BY DEF NodeFields

\* The destruction of a tree counts down by no more than the uses it takes away.
LEMMA Destruction ==
  ASSUME UseInv, NEW s \in Sessions, ~job.on, frees \in BOOLEAN, UNCHANGED frees,
         admin' = AfterDestruction(tree[s]), tree' = Disturbed(s, admin'),
         \A r \in Sessions : Held(r)' = tree'[r]
  PROVE  /\ DOMAIN tree' = Sessions /\ tree'[s] = <<>>
         /\ admin' \in [Collections -> [AccessorNames -> EntryType]]
         /\ \A r \in Sessions : \A p \in DOMAIN tree'[r] :
              /\ DOMAIN tree'[r][p] = NodeFields
              /\ tree'[r][p].coll \in Collections /\ tree'[r][p].accessor \in AccessorNames
              /\ tree'[r][p].live
         /\ \A c \in Collections, n \in AccessorNames : Counted(c, n)'
<1>0. ASSUME NEW r \in Sessions, r # s
      PROVE  /\ DOMAIN tree'[r] = DOMAIN tree[r]
             /\ \A p \in DOMAIN tree[r] :
                  /\ DOMAIN tree'[r][p] = NodeFields
                  /\ tree'[r][p].coll = tree[r][p].coll
                  /\ tree'[r][p].accessor = tree[r][p].accessor
                  /\ tree'[r][p].live =
                       (tree[r][p].live /\ admin'[tree[r][p].coll][tree[r][p].accessor].object)
  <2>1. tree'[r] = [p \in DOMAIN tree[r] |->
                      [tree[r][p] EXCEPT !.live =
                         @ /\ admin'[tree[r][p].coll][tree[r][p].accessor].object]]
    BY <1>0 DEF Disturbed
  <2>2. \A p \in DOMAIN tree[r] : DOMAIN tree[r][p] = NodeFields
    BY DEF UseInv, Held
  <2>3. DOMAIN tree'[r] = DOMAIN tree[r]
    BY <2>1
  <2>4. ASSUME NEW p \in DOMAIN tree[r]
        PROVE  /\ DOMAIN tree'[r][p] = NodeFields
               /\ tree'[r][p].coll = tree[r][p].coll
               /\ tree'[r][p].accessor = tree[r][p].accessor
               /\ tree'[r][p].live =
                    (tree[r][p].live /\ admin'[tree[r][p].coll][tree[r][p].accessor].object)
    <3>1. tree'[r][p] = [tree[r][p] EXCEPT !.live =
                           @ /\ admin'[tree[r][p].coll][tree[r][p].accessor].object]
      BY <2>1, <2>4, Zenon
    <3> DEFINE b == admin'[tree[r][p].coll][tree[r][p].accessor].object
    <3>2. DOMAIN tree[r][p] = NodeFields
      BY <2>2
    <3>3. /\ DOMAIN [tree[r][p] EXCEPT !.live = @ /\ b] = NodeFields
          /\ [tree[r][p] EXCEPT !.live = @ /\ b].live = (tree[r][p].live /\ b)
          /\ [tree[r][p] EXCEPT !.live = @ /\ b].coll = tree[r][p].coll
          /\ [tree[r][p] EXCEPT !.live = @ /\ b].accessor = tree[r][p].accessor
      <4> HIDE DEF b
      <4> QED
        BY <3>2, SetLive
    <3> QED
      BY <3>1, <3>3, Zenon
  <2> QED
    BY <2>3, <2>4, Zenon
<1>1. DOMAIN tree' = Sessions /\ tree'[s] = <<>>
  BY DEF Disturbed
<1>2. ASSUME NEW c \in Collections, NEW n \in AccessorNames
      PROVE  admin'[c][n] \in EntryType /\ Counted(c, n)'
  <2> DEFINE K == {p \in Users(tree[s], c, n) : Closes(tree[s][p])}
             T == {<<s, p>> : p \in K}
  <2>1. admin'[c][n] = Closed(admin[c][n], Cardinality(K))
    BY <1>2 DEF AfterDestruction
  <2>2. Counted(c, n) /\ admin[c][n] \in EntryType
    BY DEF UseInv
  <2>3. /\ IsFiniteSet(K) /\ Cardinality(K) \in Nat /\ Cardinality(T) \in Nat
        /\ T \subseteq Uses(c, n) /\ Cardinality(K) <= Cardinality(T)
    <3>1. K \in SUBSET Users(Held(s), c, n)
      BY DEF Held
    <3> QED
      BY <2>2, <3>1, UsersOf DEF Counted
  <2>4. \A r \in Sessions : \A p : <<r, p>> \in Uses(c, n)' => <<r, p>> \in Uses(c, n) /\ r # s
    <3>1. \A r \in Sessions : r # s =>
            /\ DOMAIN tree'[r] = DOMAIN tree[r]
            /\ \A p \in DOMAIN tree[r] : tree'[r][p].coll = tree[r][p].coll
                                      /\ tree'[r][p].accessor = tree[r][p].accessor
      BY <1>0
    <3> QED
      BY <1>1, <3>1 DEF Uses, Users, Held
  <2>5. Uses(c, n)' \subseteq Uses(c, n) \ T
    BY <2>4 DEF Uses
  <2>6. /\ IsFiniteSet(Uses(c, n)') /\ Cardinality(Uses(c, n)') \in Nat
        /\ Cardinality(Uses(c, n)') <= Cardinality(Uses(c, n)) - Cardinality(T)
        /\ Cardinality(Uses(c, n)) \in Nat
    <3>1. /\ IsFiniteSet(Uses(c, n) \ T)
          /\ Cardinality(Uses(c, n) \ T) = Cardinality(Uses(c, n)) - Cardinality(T)
      <4>1. Uses(c, n) \cap T = T
        BY <2>3
      <4>3. IsFiniteSet(Uses(c, n))
        BY <2>2 DEF Counted
      <4> QED
        BY ZenonT(30), <4>1, <4>3, FS_Difference
    <3> QED
      BY <2>2, <2>5, <3>1, FS_Subset, FS_CardinalityType DEF Counted
  <2>7. Uses(c, n)' # {} => Cardinality(Uses(c, n)') > 0 /\ Uses(c, n) # {}
    BY <2>5, <2>6, FS_EmptySet
  <2> QED
    BY <2>1, <2>2, <2>3, <2>6, <2>7 DEF Counted, Closed, EntryType, EmptyEntry
<1>3. admin' \in [Collections -> [AccessorNames -> EntryType]]
  BY <1>2 DEF AfterDestruction
<1>4. ASSUME NEW r \in Sessions, NEW p \in DOMAIN tree'[r]
      PROVE  /\ DOMAIN tree'[r][p] = NodeFields
             /\ tree'[r][p].coll \in Collections /\ tree'[r][p].accessor \in AccessorNames
             /\ tree'[r][p].live
  <2>1. r # s
    BY <1>1, <1>4
  <2>2. p \in DOMAIN tree[r] /\ Held(r) = tree[r]
    BY <1>0, <1>4, <2>1 DEF Held
  <2>3. /\ tree[r][p].coll \in Collections /\ tree[r][p].accessor \in AccessorNames
        /\ tree[r][p].live
    BY <2>2 DEF UseInv
  <2>4. admin'[tree[r][p].coll][tree[r][p].accessor].object
    <3> SUFFICES ASSUME NEW c \in Collections, NEW n \in AccessorNames,
                        c = tree[r][p].coll, n = tree[r][p].accessor
                 PROVE  admin'[c][n].object
      BY <2>3
    <3>1. p \in Users(tree'[r], c, n)
      BY <1>0, <2>1, <2>2 DEF Users
    <3>2. <<r, p>> \in Uses(c, n)'
      BY <1>1, <3>1 DEF Uses
    <3> QED
      BY <1>2, <3>2 DEF Counted
  <2> QED
    BY <1>0, <2>1, <2>2, <2>3, <2>4
<1> QED
  BY <1>1, <1>2, <1>3, <1>4

\* The node at hand, if it can be made.
LEMMA NodeFacts ==
  Constructible =>
    /\ DOMAIN NodeHere = NodeFields /\ NodeHere.live
    /\ NodeHere.id = Read(Attributes, "id")
    /\ NodeHere.coll = Read(Attributes, "coll") /\ NodeHere.coll \in Collections
    /\ NodeHere.accessor = AccessorOf(Attributes) /\ NodeHere.accessor \in AccessorNames
<1>1. AccessorOf(Attributes) \in AccessorNames
  BY DEF AccessorOf, AccessorNames
<1> QED
  BY <1>1 DEF NodeHere, Constructible, HasProxy, NodeFields

\* What a new entry means for the table.
LEMMA EntryFacts ==
  ASSUME UseInv, Constructible, NEW e \in EntryType, SetEntry(e)
  PROVE  /\ Entry = admin[NodeHere.coll][NodeHere.accessor] /\ Entry \in EntryType
         /\ admin' \in [Collections -> [AccessorNames -> EntryType]]
         /\ \A c \in Collections, n \in AccessorNames :
              admin'[c][n] = IF c = NodeHere.coll /\ n = NodeHere.accessor THEN e
                                                                          ELSE admin[c][n]
BY NodeFacts DEF UseInv, SetEntry, Entry

\* A node is added to the tree of the job, and its accessor counted.
LEMMA NodeIsCounted ==
  ASSUME JobInv, UseInv, NEW t \in Threads, Constructing(t), Constructible, job' = NodeDone,
         UNCHANGED tree, NEW e \in EntryType, SetEntry(e), e.object, e.count > Entry.count
  PROVE  UseInv'
<1> DEFINE h == Here
           z == job.session
<1>1. /\ JobGoesOn /\ job'.step = "build" /\ z \in Sessions /\ job.on
      /\ job'.nodes = Merged([p \in {h} |-> NodeHere], job.nodes)
  BY NodeDoneJob DEF JobGoesOn, JobInv
<1>2. /\ DOMAIN job'.nodes = {h} \cup DOMAIN job.nodes
      /\ \A p \in DOMAIN job'.nodes : job'.nodes[p] = IF p = h THEN NodeHere ELSE job.nodes[p]
  BY <1>1 DEF Merged
<1>3. \A s \in Sessions : Held(s)' = IF s = z THEN job'.nodes ELSE Held(s)
  BY <1>1 DEF Held, JobGoesOn
<1>4. Held(z) = job.nodes
  BY <1>1 DEF Held
<1>5. ASSUME NEW s \in Sessions, NEW p \in DOMAIN Held(s)'
      PROVE  /\ DOMAIN Held(s)'[p] = NodeFields
             /\ Held(s)'[p].coll \in Collections /\ Held(s)'[p].accessor \in AccessorNames
             /\ Held(s)'[p].live
  <2>1. CASE s # z
    BY <1>3, <1>5, <2>1 DEF UseInv
  <2>2. CASE s = z /\ p # h
    BY <1>2, <1>3, <1>4, <1>5, <2>2 DEF UseInv
  <2>3. CASE s = z /\ p = h
    BY <1>2, <1>3, <2>3, NodeFacts
  <2> QED
    BY <2>1, <2>2, <2>3
<1>6. ASSUME NEW c \in Collections, NEW n \in AccessorNames
      PROVE  Counted(c, n)'
  <2>1. \A s \in Sessions : \A p : <<s, p>> \in Uses(c, n)' =>
          \/ <<s, p>> \in Uses(c, n)
          \/ s = z /\ p = h /\ NodeHere.coll = c /\ NodeHere.accessor = n
    BY <1>2, <1>3, <1>4 DEF Uses, Users
  <2>2. Counted(c, n) /\ admin[c][n] \in EntryType /\ admin'[c][n] \in EntryType
    BY EntryFacts DEF UseInv
  <2>3. CASE NodeHere.coll = c /\ NodeHere.accessor = n
    <3>1. Uses(c, n)' \subseteq Uses(c, n) \cup {<<z, h>>}
      BY <2>1 DEF Uses
    <3>2. admin[c][n] = Entry /\ admin'[c][n] = e
      BY <2>3, EntryFacts
    <3> QED
      BY <2>2, <3>1, <3>2, OneMoreUse DEF EntryType
  <2>4. CASE ~(NodeHere.coll = c /\ NodeHere.accessor = n)
    <3>1. Uses(c, n)' \subseteq Uses(c, n)
      BY <2>1, <2>4 DEF Uses
    <3>2. admin'[c][n] = admin[c][n]
      BY <2>4, EntryFacts
    <3> QED
      BY <2>2, <3>1, <3>2, FewerUses DEF EntryType
  <2> QED
    BY <2>3, <2>4
<1> QED
  BY <1>1, <1>5, <1>6, EntryFacts DEF UseInv, JobGoesOn

\* A job that ends in an exception leaves its session without a tree.
LEMMA ThrownAway ==
  ASSUME JobInv, UseInv, NEW t \in Threads, job.on, Throw(t), UNCHANGED tree,
         admin' \in [Collections -> [AccessorNames -> EntryType]],
         \A c \in Collections, n \in AccessorNames :
           /\ admin'[c][n].count >= admin[c][n].count
           /\ admin[c][n].object => admin'[c][n].object
  PROVE  UseInv'
<1>1. ~job'.on /\ \A s \in Sessions : Held(s)' = tree[s]
  BY DEF Throw, Nobody, Held
<1>2. \A s \in Sessions : tree[s] = Held(s) \/ tree[s] = <<>>
  BY DEF UseInv, Held
<1>3. ASSUME NEW c \in Collections, NEW n \in AccessorNames
      PROVE  Counted(c, n)'
  <2>1. Uses(c, n)' \subseteq Uses(c, n)
    BY <1>1, <1>2 DEF Uses, Users
  <2> QED
    BY <2>1, FewerUses DEF UseInv, EntryType
<1> QED
  BY <1>1, <1>2, <1>3 DEF UseInv

\* The counters and what they count do not change.
LEMMA SameUses ==
  ASSUME UseInv, UNCHANGED <<tree, admin>>, \A s \in Sessions : Held(s)' = Held(s),
         job'.on => tree[job'.session] = <<>> /\ (job'.step = "configure" => job'.nodes = <<>>)
  PROVE  UseInv'
<1>1. \A c, n : Uses(c, n)' = Uses(c, n)
  BY DEF Uses
<1> QED
  BY <1>1 DEF UseInv, Counted

\* Opening and closing keep every accessor that a node uses.
LEMMA UsesKeep == JobInv /\ UseInv /\ frees \in BOOLEAN /\ [Next]_vars => UseInv'
<1> SUFFICES ASSUME JobInv, UseInv, frees \in BOOLEAN, [Next]_vars PROVE UseInv'
  OBVIOUS
<1>1. CASE UNCHANGED <<tree, admin, job>>
  BY <1>1, SameUses DEF Held, UseInv
<1>2. ASSUME NEW t \in Threads, NEW s \in Sessions, NEW a \in Requests, SetAlgorithm(t, s, a)
      PROVE  UseInv'
  <2>1. /\ ~job.on /\ UNCHANGED frees /\ admin' = AfterDestruction(tree[s])
        /\ tree' = Disturbed(s, admin')
    BY <1>2 DEF SetAlgorithm, Free
  <2>2. tree'[s] = <<>>
    BY <2>1 DEF Disturbed
  <2>3. \/ UNCHANGED job
        \/ job'.on /\ job'.session = s /\ job'.step = "configure" /\ job'.nodes = <<>>
    BY <1>2 DEF SetAlgorithm, Begun
  <2>4. \A r \in Sessions : Held(r)' = tree'[r]
    BY <2>1, <2>2, <2>3 DEF Held
  <2> QED
    BY <2>1, <2>2, <2>3, <2>4, Destruction DEF UseInv
<1>3. ASSUME NEW t \in Threads, NEW s \in Sessions, DeleteSession(t, s)
      PROVE  UseInv'
  <2>1. /\ ~job.on /\ UNCHANGED <<frees, job>> /\ admin' = AfterDestruction(tree[s])
        /\ tree' = Disturbed(s, admin')
    BY <1>3 DEF DeleteSession, Free
  <2>2. \A r \in Sessions : Held(r)' = tree'[r]
    BY <2>1 DEF Held
  <2> QED
    BY <2>1, <2>2, Destruction DEF UseInv
<1>4. ASSUME NEW t \in Threads, ConfigureElement(t) \/ StartBuild(t) \/ EnterNode(t)
      PROVE  UseInv'
  <2>1. JobGoesOn /\ job'.nodes = job.nodes /\ (job'.step = "configure" => job.step = "configure")
    BY <1>4, ConfigureElementJob, StartBuildJob, EnterNodeJob
    DEF ConfigureElement, StartBuild, EnterNode, Working
  <2>2. UNCHANGED <<tree, admin>>
    BY <1>4 DEF ConfigureElement, StartBuild, EnterNode, sessionVars
  <2> QED
    BY <2>1, <2>2, SameUses DEF JobGoesOn, Held, UseInv
<1>5. ASSUME NEW t \in Threads, Constructing(t), Constructible, NEW e \in EntryType, SetEntry(e),
             e.object => Entry.object, e.count >= Entry.count,
             UNCHANGED tree, ~Entry.object, Throw(t) \/ UNCHANGED job
      PROVE  UseInv'
  <2>1. job.on /\ \A c \in Collections, n \in AccessorNames :
           /\ admin'[c][n] \in EntryType /\ admin[c][n] \in EntryType
           /\ admin'[c][n].count >= admin[c][n].count
           /\ admin[c][n].object => admin'[c][n].object
    <3>1. job.on /\ (~Entry.object /\ ~e.object) /\ Entry \in EntryType
      BY <1>5, EntryFacts DEF Constructing, Working, EntryType
    <3>2. ASSUME NEW c \in Collections, NEW n \in AccessorNames
          PROVE  /\ admin'[c][n] \in EntryType /\ admin[c][n] \in EntryType
                 /\ admin'[c][n].count >= admin[c][n].count
                 /\ admin[c][n].object => admin'[c][n].object
      <4>1. admin[c][n] \in EntryType
        BY DEF UseInv
      <4>2. CASE c = NodeHere.coll /\ n = NodeHere.accessor
        BY <1>5, <3>1, <4>1, <4>2, EntryFacts
      <4>3. CASE ~(c = NodeHere.coll /\ n = NodeHere.accessor)
        <5>1. admin'[c][n] = admin[c][n]
          BY <1>5, <4>3, EntryFacts
        <5> QED
          BY <4>1, <5>1 DEF EntryType
      <4> QED
        BY <4>2, <4>3
    <3> QED
      BY <3>1, <3>2
  <2>2. admin' \in [Collections -> [AccessorNames -> EntryType]]
    BY <1>5, EntryFacts
  <2>3. CASE Throw(t)
    BY <1>5, <2>1, <2>2, <2>3, ThrownAway
  <2>4. CASE UNCHANGED job
    <3>1. \A s \in Sessions : Held(s)' = Held(s)
      BY <1>5, <2>4 DEF Held
    <3>2. \A c \in Collections, n \in AccessorNames : Counted(c, n)'
      <4>1. \A c, n : Uses(c, n)' = Uses(c, n)
        BY <3>1 DEF Uses
      <4> QED
        BY <2>1, <4>1, FewerUses DEF UseInv, EntryType
    <3> QED
      BY <1>5, <2>2, <2>4, <3>1, <3>2 DEF UseInv
  <2> QED
    BY <1>5, <2>3, <2>4
<1>6. ASSUME NEW t \in Threads, ReuseAccessor(t) PROVE UseInv'
  <2>1. Constructible => Entry \in EntryType
    BY NodeFacts DEF UseInv, Entry
  <2>2. Constructible => Reused(Entry) \in EntryType /\ Reused(Entry).count > Entry.count
                         /\ Reused(Entry).object = Entry.object
    BY <2>1 DEF Reused, EntryType
  <2> QED
    BY <1>6, <2>1, <2>2, NodeIsCounted DEF ReuseAccessor, sessionVars
<1>7. ASSUME NEW t \in Threads, MakeAccessor(t) PROVE UseInv'
  <2>1. Opened(TRUE) \in EntryType /\ Opened(TRUE).object /\ Opened(TRUE).count > 0
    BY DEF Opened, EntryType
  <2> QED
    BY <1>7, <2>1, NodeIsCounted DEF MakeAccessor, sessionVars
<1>8. ASSUME NEW t \in Threads, NullAccessor(t) PROVE UseInv'
  <2>1. /\ Constructing(t) /\ Constructible /\ UNCHANGED tree
        /\ \/ Entry.count = 0 /\ SetEntry(Opened(FALSE))
           \/ ~Entry.object /\ SetEntry(Reused(Entry))
        /\ Throw(t) \/ UNCHANGED job
    <3>1. AccessorOf(Attributes) \in AccessorNames
      BY DEF AccessorOf, AccessorNames
    <3> QED
      BY <1>8, <3>1 DEF NullAccessor, NullIsRefused, AccessorNames, sessionVars
  <2>2. Entry \in EntryType /\ (Entry.count = 0 => ~Entry.object)
    BY <2>1, NodeFacts DEF UseInv, Entry, EntryType
  <2>3. /\ Opened(FALSE) \in EntryType /\ ~Opened(FALSE).object /\ Opened(FALSE).count = 1
        /\ Reused(Entry) \in EntryType /\ Reused(Entry).object = Entry.object
        /\ Reused(Entry).count > Entry.count
    BY <2>2 DEF Opened, Reused, EntryType
  <2>4. CASE Entry.count = 0 /\ SetEntry(Opened(FALSE))
    <3>1. Entry.count = 0 /\ ~Entry.object
      BY <2>2, <2>4, Zenon
    <3>2. Opened(FALSE).count >= Entry.count
      BY <3>1 DEF Opened
    <3> QED
      BY <1>5, <2>1, <2>3, <2>4, <3>1, <3>2
  <2>5. CASE ~Entry.object /\ SetEntry(Reused(Entry))
    <3>1. Reused(Entry).count >= Entry.count
      BY <2>2, <2>3 DEF EntryType
    <3> QED
      BY <1>5, <2>1, <2>3, <2>5, <3>1
  <2> QED
    BY <2>1, <2>4, <2>5
<1>9. ASSUME NEW t \in Threads, AccessorThrows(t) \/ HierarchyThrows(t) \/ Refuse(t),
             ~UNCHANGED <<tree, admin, job>>
      PROVE  UseInv'
  <2>1. job.on /\ Throw(t) /\ UNCHANGED <<tree, admin>>
    BY <1>9 DEF AccessorThrows, HierarchyThrows, Refuse, Constructing, Working, sessionVars
  <2> QED
    BY <2>1, ThrownAway DEF UseInv, EntryType
<1>10. ASSUME NEW t \in Threads, Finish(t) PROVE UseInv'
  <2>1. /\ job.on /\ job.session \in Sessions /\ ~job'.on
        /\ tree' = [tree EXCEPT ![job.session] = job.nodes] /\ UNCHANGED admin
    BY <1>10 DEF Finish, Working, Nobody, JobInv
  <2>2. DOMAIN tree' = Sessions /\ \A s \in Sessions : Held(s)' = Held(s)
    BY <2>1 DEF Held, UseInv
  <2>3. \A c, n : Uses(c, n)' = Uses(c, n)
    BY <2>2 DEF Uses
  <2> QED
    BY <2>1, <2>2, <2>3 DEF UseInv, Counted
<1> QED
  BY <1>1, <1>2, <1>3, <1>4, <1>6, <1>7, <1>8, <1>9, <1>10
  DEF Next, vars, Scan, ConfigureCrashes, sessionVars

-----------------------------------------------------------------------------
(* Places in a tree *)

Position == Seq(Nat)

\* p's branch is to the left of q's.
LeftOf(p, q) ==
  \E k \in DOMAIN p \cap DOMAIN q :
    /\ p[k] < q[k]
    /\ \A j \in 1 .. k - 1 : p[j] = q[j]

LEMMA LeftIsBefore ==
  ASSUME NEW p, NEW q, LeftOf(p, q) PROVE Before(p, q)
BY DEF LeftOf, Before

\* The places of a child.
IsChild(c, p, k) ==
  /\ c \in Position /\ c # p
  /\ Len(p) \in Nat /\ DOMAIN p = 1 .. Len(p)
  /\ Len(c) = Len(p) + 1 /\ DOMAIN c = 1 .. Len(p) + 1
  /\ \A j \in 1 .. Len(p) : c[j] = p[j]
  /\ c[Len(p) + 1] = k

LEMMA AppendedPlace ==
  ASSUME NEW p \in Position, NEW k \in Nat
  PROVE  IsChild(Append(p, k), p, k)
<1>1. Len(Append(p, k)) = Len(p) + 1
  BY DEF Position
<1> QED
  BY <1>1 DEF Position, IsChild

\* A prefix, element by element.
LEMMA PrefixFacts ==
  ASSUME NEW p \in Position, NEW q \in Position
  PROVE  IsPrefix(p, q) <=> Len(p) <= Len(q) /\ \A j \in 1 .. Len(p) : p[j] = q[j]
<1>1. /\ Len(p) \in Nat /\ Len(q) \in Nat
      /\ p = [j \in 1 .. Len(p) |-> p[j]] /\ SubSeq(p, 1, Len(p)) = [j \in 1 .. Len(p) |-> p[j]]
  BY DEF Position
<1>2. Len(p) <= Len(q) => SubSeq(q, 1, Len(p)) = [j \in 1 .. Len(p) |-> q[j]]
  BY <1>1 DEF Position
<1> QED
  BY <1>1, <1>2 DEF IsPrefix

\* An element comes before its children, and they come in the order of their numbers.
LEMMA FatherFirst ==
  ASSUME NEW p \in Position, NEW k \in Nat, NEW c, IsChild(c, p, k) PROVE Before(p, c)
<1>1. Len(p) <= Len(c) /\ \A j \in 1 .. Len(p) : p[j] = c[j]
  BY DEF IsChild
<1>2. IsPrefix(p, c)
  BY <1>1, PrefixFacts DEF IsChild
<1> QED
  BY <1>2 DEF Before, IsStrictPrefix, IsChild

LEMMA Siblings ==
  ASSUME NEW p \in Position, NEW k \in Nat, NEW m \in Nat, k < m,
         NEW c, NEW d, IsChild(c, p, k), IsChild(d, p, m)
  PROVE  LeftOf(c, d)
<1> DEFINE e == Len(p) + 1
<1>1. e \in DOMAIN c /\ e \in DOMAIN d /\ c[e] = k /\ d[e] = m
  BY DEF IsChild
<1>2. \A j \in 1 .. e - 1 : c[j] = d[j]
  BY DEF IsChild
<1> QED
  BY <1>1, <1>2 DEF LeftOf

\* What is to the left of an element is to the left of its children, and vice versa.
LEMMA ChildrenStayLeft ==
  ASSUME NEW p \in Position, NEW q \in Position, NEW k \in Nat, NEW c, LeftOf(p, q)
  PROVE  /\ IsChild(c, q, k) => LeftOf(p, c)
         /\ IsChild(c, p, k) => LeftOf(c, q)
<1>1. PICK e \in DOMAIN p \cap DOMAIN q : p[e] < q[e] /\ \A j \in 1 .. e - 1 : p[j] = q[j]
  BY DEF LeftOf
<1> QED
  <2>1. IsChild(c, q, k) => LeftOf(p, c)
    <3> SUFFICES ASSUME IsChild(c, q, k) PROVE LeftOf(p, c)
      OBVIOUS
    <3>1. e \in 1 .. Len(q) /\ Len(q) \in Nat /\ e \in DOMAIN c /\ c[e] = q[e]
      BY <1>1 DEF IsChild
    <3>2. \A j \in 1 .. e - 1 : c[j] = q[j]
      BY <3>1 DEF IsChild
    <3> QED
      BY <1>1, <3>1, <3>2 DEF LeftOf
  <2>2. IsChild(c, p, k) => LeftOf(c, q)
    <3> SUFFICES ASSUME IsChild(c, p, k) PROVE LeftOf(c, q)
      OBVIOUS
    <3>1. e \in 1 .. Len(p) /\ Len(p) \in Nat /\ e \in DOMAIN c /\ c[e] = p[e]
      BY <1>1 DEF IsChild
    <3>2. \A j \in 1 .. e - 1 : c[j] = p[j]
      BY <3>1 DEF IsChild
    <3> QED
      BY <1>1, <3>1, <3>2 DEF LeftOf
  <2> QED
    BY <2>1, <2>2

\* What comes before an element comes before its children.
LEMMA BeforeChildren ==
  ASSUME NEW p \in Position, NEW q \in Position, NEW k \in Nat, NEW c, IsChild(c, q, k),
         Before(p, q)
  PROVE  Before(p, c)
<1>1. CASE LeftOf(p, q)
  BY <1>1, ChildrenStayLeft, LeftIsBefore
<1>2. CASE IsStrictPrefix(p, q)
  <2>1. Len(p) <= Len(q) /\ \A j \in 1 .. Len(p) : p[j] = q[j]
    BY <1>2, PrefixFacts DEF IsStrictPrefix
  <2>2. Len(p) \in Nat
    BY DEF Position
  <2>3. Len(p) <= Len(c) /\ Len(p) # Len(c) /\ \A j \in 1 .. Len(p) : p[j] = c[j]
    BY <2>1, <2>2 DEF IsChild
  <2>4. IsPrefix(p, c) /\ p # c
    BY <2>3, PrefixFacts DEF IsChild
  <2> QED
    BY <2>4 DEF Before, IsStrictPrefix
<1> QED
  BY <1>1, <1>2 DEF Before, LeftOf

-----------------------------------------------------------------------------
(* The containers *)

TodoType == [pos : Position, leave : BOOLEAN]

\* The algorithm under way has finitely many elements, and what is built of it is new.
JobDataInv ==
  job.on =>
    /\ IsFiniteSet(DOMAIN job.alg)
    /\ job.step = "configure" => job.entries = <<>> /\ job.nodes = <<>>

\* The places of which the container knows, complete or not.
EnteredPlaces ==
  DOMAIN job.nodes \cup {job.todo[i].pos : i \in {j \in DOMAIN job.todo : job.todo[j].leave}}

IdAt(p) == Read(job.alg[p], "id")

\* The container finds the place that was entered last of those with an ID.
EntriesInv ==
  /\ DOMAIN job.entries = {IdAt(p) : p \in EnteredPlaces}
  /\ \A i \in DOMAIN job.entries :
       /\ job.entries[i] \in EnteredPlaces /\ IdAt(job.entries[i]) = i
       /\ \A p \in EnteredPlaces :
            IdAt(p) = i => p = job.entries[i] \/ Before(p, job.entries[i])

\* The traversal goes from left to right and from top to bottom.
TraversalInv ==
  /\ job.todo \in Seq(TodoType)
  /\ EnteredPlaces \subseteq Position
  /\ \A i, j \in DOMAIN job.todo :
       i < j /\ ~job.todo[i].leave /\ ~job.todo[j].leave =>
         LeftOf(job.todo[i].pos, job.todo[j].pos)
  /\ \A p \in EnteredPlaces : \A i \in DOMAIN job.todo :
       ~job.todo[i].leave => Before(p, job.todo[i].pos)

BuildInv ==
  job.on /\ job.step = "build" =>
    /\ TraversalInv /\ EntriesInv
    /\ \A p \in DOMAIN job.nodes : job.nodes[p].id = IdAt(p)

\* What a container is to find in a tree.
Finds(entries, nodes) ==
  /\ DOMAIN entries = {nodes[p].id : p \in DOMAIN nodes}
  /\ \A i \in DOMAIN entries :
       /\ entries[i] \in DOMAIN nodes /\ nodes[entries[i]].id = i
       /\ \A p \in DOMAIN nodes :
            nodes[p].id = i => p = entries[i] \/ Before(p, entries[i])

FoundInv ==
  /\ DOMAIN tree = Sessions /\ DOMAIN container = Sessions
  /\ \A s \in Sessions : \A p \in DOMAIN tree[s] : DOMAIN tree[s][p] = NodeFields
  /\ \A s \in Sessions : tree[s] # <<>> => Finds(container[s], tree[s])

\* The children of an element are visited in the order of their numbers, before the rest.
LEMMA VisitFacts ==
  ASSUME NEW a, NEW h \in Position, NEW m \in Nat, m = Cardinality(Kids(a, h)),
         NEW rest \in Seq(TodoType), NEW v, v = Visit(KidSeq(a, h), rest)
  PROVE  /\ v \in Seq(TodoType) /\ Len(v) = m + Len(rest)
         /\ DOMAIN v = 1 .. m + Len(rest) /\ Len(rest) \in Nat
         /\ \A i \in 1 .. m : v[i].pos \in Position /\ IsChild(v[i].pos, h, i) /\ ~v[i].leave
         /\ \A i \in 1 .. Len(rest) : v[m + i] = rest[i]
<1>1. PICK front \in Seq(TodoType) :
        /\ v = front \o rest /\ Len(front) = m
        /\ \A j \in 1 .. m : front[j].pos = Append(h, j) /\ ~front[j].leave
  <2> DEFINE kids == [j \in 1 .. m |-> [pos |-> Append(h, j), leave |-> FALSE]]
  <2>1. \A j \in 1 .. m : Append(h, j) \in Position
    BY AppendedPlace DEF IsChild
  <2>2. kids \in Seq(TodoType) /\ Len(kids) = m
    <3>1. \A j \in 1 .. m : [pos |-> Append(h, j), leave |-> FALSE] \in TodoType
      BY <2>1 DEF TodoType
    <3> QED
      BY <3>1
  <2>3. DOMAIN KidSeq(a, h) = 1 .. m /\ \A j \in 1 .. m : KidSeq(a, h)[j] = Append(h, j)
    BY DEF KidSeq
  <2>4. [j \in DOMAIN KidSeq(a, h) |-> [pos |-> KidSeq(a, h)[j], leave |-> FALSE]] = kids
    BY <2>3
  <2>5. v = kids \o rest
    BY <2>4 DEF Visit
  <2>6. \A j \in 1 .. m : kids[j].pos = Append(h, j) /\ ~kids[j].leave
    OBVIOUS
  <2> QED
    BY <2>2, <2>5, <2>6
<1>2. \A i \in 1 .. m : IsChild(Append(h, i), h, i) /\ Append(h, i) \in Position
  BY AppendedPlace DEF IsChild
<1>3. /\ front \o rest \in Seq(TodoType) /\ Len(rest) \in Nat
      /\ Len(front \o rest) = Len(front) + Len(rest)
      /\ DOMAIN (front \o rest) = 1 .. Len(front) + Len(rest)
      /\ \A i \in 1 .. Len(front) : (front \o rest)[i] = front[i]
      /\ \A i \in 1 .. Len(rest) : (front \o rest)[Len(front) + i] = rest[i]
  <2>1. front \in Seq(TodoType) /\ rest \in Seq(TodoType)
    BY <1>1
  <2> QED
    BY <2>1
<1>4. /\ v \in Seq(TodoType) /\ Len(v) = m + Len(rest)
      /\ Len(rest) \in Nat /\ DOMAIN v = 1 .. m + Len(rest)
      /\ \A i \in 1 .. m : v[i] = front[i]
      /\ \A i \in 1 .. Len(rest) : v[m + i] = rest[i]
  BY <1>1, <1>3, Zenon
<1> QED
  BY <1>1, <1>2, <1>4

\* A default has finitely many elements to clone.
LEMMA ClonesFinite ==
  ASSUME NEW own, HasDefault(own), NEW p
  PROVE  IsFiniteSet(DOMAIN Clones(Defaults[own["type"]], p))
<1> DEFINE d == Defaults[own["type"]]
           R == DOMAIN d \ {<<>>}
           C == {p \o r : r \in R}
           f == [r \in R |-> p \o r]
<1>1. IsFiniteSet(DOMAIN d)
  BY QueryTreesAssumption DEF HasDefault
<1>2. IsFiniteSet(R)
  BY <1>1, FS_Subset
<1>3. f \in Surjection(R, C)
  BY DEF Surjection
<1>4. IsFiniteSet(C)
  BY <1>2, <1>3, FS_Surjection
<1> QED
  BY <1>4 DEF Clones

LEMMA JobDataKeeps == JobInv /\ JobDataInv /\ [Next]_vars => JobDataInv'
<1> SUFFICES ASSUME JobInv, JobDataInv, [Next]_vars PROVE JobDataInv'
  OBVIOUS
<1>1. CASE UNCHANGED job
  BY <1>1 DEF JobDataInv
<1>2. CASE job' = Nobody
  BY <1>2 DEF JobDataInv, Nobody
<1>3. ASSUME NEW t \in Threads, NEW s \in Sessions, NEW a \in Requests, SetAlgorithm(t, s, a)
      PROVE  JobDataInv'
  <2>1. CASE job' = Begun(t, s, a)
    BY <2>1, QueryTreesAssumption DEF Begun, JobDataInv
  <2> QED
    BY <1>1, <1>3, <2>1 DEF SetAlgorithm
<1>4. ASSUME NEW t \in Threads, ConfigureElement(t) PROVE JobDataInv'
  <2> DEFINE own == job.alg[Here]
             has == HasDefault(own)
             clones == IF has /\ Kids(job.alg, Here) = {}
                       THEN Clones(Defaults[own["type"]], Here) ELSE <<>>
  <2>1. /\ job.on /\ job.step = "configure" /\ JobGoesOn
        /\ job'.entries = job.entries /\ job'.nodes = job.nodes
    BY <1>4, ConfigureElementJob DEF ConfigureElement, Working
  <2>2. IsFiniteSet(DOMAIN clones)
    <3>1. DOMAIN <<>> = {}
      OBVIOUS
    <3> QED
      BY <3>1, ClonesFinite, FS_EmptySet
  <2>3. DOMAIN job'.alg = DOMAIN job.alg \cup DOMAIN clones
    <3>1. DOMAIN job = JobFields
      BY <2>1 DEF JobInv
    <3> QED
      BY <1>4, <3>1 DEF ConfigureElement, ConfiguredAt, Merged, JobFields
  <2>4. IsFiniteSet(DOMAIN job'.alg)
    BY ZenonT(30), <2>1, <2>2, <2>3, FS_Union DEF JobDataInv
  <2> QED
    BY <2>1, <2>4 DEF JobDataInv
<1>5. ASSUME NEW t \in Threads, StartBuild(t) PROVE JobDataInv'
  BY <1>5, StartBuildJob DEF JobDataInv, JobGoesOn
<1>6. ASSUME NEW t \in Threads, EnterNode(t) PROVE JobDataInv'
  BY <1>6, EnterNodeJob DEF JobDataInv, JobGoesOn
<1>7. ASSUME NEW t \in Threads, Constructing(t), job' = NodeDone PROVE JobDataInv'
  BY <1>7, NodeDoneJob DEF JobDataInv, JobGoesOn
<1> QED
  BY <1>1, <1>2, <1>3, <1>4, <1>5, <1>6, <1>7
  DEF Next, vars, Scan, DeleteSession, ConfigureCrashes, ReuseAccessor, MakeAccessor,
      AccessorThrows, HierarchyThrows, NullAccessor, Refuse, Finish, Throw

\* The build begins with the root.
LEMMA StartBuildKeeps ==
  ASSUME JobInv, JobDataInv, NEW t \in Threads, StartBuild(t) PROVE BuildInv'
<1>1. /\ job.on /\ job.step = "configure"
      /\ job'.todo = <<[pos |-> <<>>, leave |-> FALSE]>>
      /\ job'.entries = <<>> /\ job'.nodes = <<>>
  BY StartBuildJob DEF StartBuild, Working, JobDataInv
<1>2. /\ DOMAIN job'.entries = {} /\ DOMAIN job'.nodes = {}
      /\ DOMAIN job'.todo = {1} /\ job'.todo[1].leave = FALSE
  BY <1>1
<1>3. EnteredPlaces' = {}
  BY <1>2 DEF EnteredPlaces
<1>4. job'.todo \in Seq(TodoType)
  <2>1. [pos |-> <<>>, leave |-> FALSE] \in TodoType
    BY DEF TodoType, Position
  <2> QED
    BY <1>1, <2>1
<1>5. TraversalInv'
  BY <1>2, <1>3, <1>4 DEF TraversalInv
<1>6. EntriesInv'
  BY <1>2, <1>3 DEF EntriesInv
<1> QED
  BY <1>2, <1>5, <1>6 DEF BuildInv

\* An element is entered, and its children are next.
LEMMA EnterNodeKeeps ==
  ASSUME JobInv, JobDataInv, BuildInv, NEW t \in Threads, EnterNode(t) PROVE BuildInv'
<1> DEFINE h == Here
           m == Cardinality(Kids(job.alg, h))
           rest == <<[pos |-> h, leave |-> TRUE]>> \o Tail(job.todo)
<1>1. /\ job.on /\ job.step = "build" /\ job.todo # <<>> /\ ~Head(job.todo).leave
      /\ JobGoesOn /\ job'.step = "build"
      /\ job'.todo = Visit(KidSeq(job.alg, h), rest) /\ job'.alg = job.alg
      /\ job'.entries = Entered(job.entries, IdAt(h), h) /\ job'.nodes = job.nodes
  BY EnterNodeJob DEF EnterNode, Working, IdAt
<1>2. TraversalInv /\ EntriesInv /\ \A p \in DOMAIN job.nodes : job.nodes[p].id = IdAt(p)
  BY <1>1 DEF BuildInv
<1>3. /\ job.todo \in Seq(TodoType) /\ Len(job.todo) \in Nat /\ Len(job.todo) >= 1
      /\ DOMAIN job.todo = 1 .. Len(job.todo)
      /\ job.todo[1].pos = h /\ ~job.todo[1].leave /\ h \in Position
      /\ \A i \in DOMAIN job.todo : job.todo[i].pos \in Position
  <2>1. job.todo \in Seq(TodoType) /\ job.todo # <<>>
    BY <1>1, <1>2 DEF TraversalInv
  <2>2. /\ Len(job.todo) \in Nat /\ Len(job.todo) >= 1 /\ DOMAIN job.todo = 1 .. Len(job.todo)
        /\ Head(job.todo) = job.todo[1] /\ \A i \in DOMAIN job.todo : job.todo[i] \in TodoType
    BY <2>1
  <2>3. \A i \in DOMAIN job.todo : job.todo[i].pos \in Position
    BY <2>2 DEF TodoType
  <2> QED
    BY <1>1, <2>1, <2>2, <2>3 DEF Here
<1>4. m \in Nat
  <2>1. IsFiniteSet(Kids(job.alg, h))
    BY <1>1, FS_Subset DEF JobDataInv, Kids
  <2> QED
    BY <2>1, FS_CardinalityType
<1>5. /\ rest \in Seq(TodoType) /\ Len(rest) = Len(job.todo)
      /\ rest[1].pos = h /\ rest[1].leave
      /\ \A i \in 2 .. Len(job.todo) : rest[i] = job.todo[i]
  <2>1. [pos |-> h, leave |-> TRUE] \in TodoType
    BY <1>3 DEF TodoType
  <2> QED
    BY <1>1, <1>3, <2>1
<1> HIDE DEF rest, m, h
<1>6. PICK v \in Seq(TodoType) :
        /\ v = job'.todo /\ DOMAIN v = 1 .. m + Len(job.todo)
        /\ \A i \in 1 .. m : v[i].pos \in Position /\ IsChild(v[i].pos, h, i) /\ ~v[i].leave
        /\ v[m + 1].pos = h /\ v[m + 1].leave
        /\ \A i \in 2 .. Len(job.todo) : v[m + i] = job.todo[i]
  <2>1. /\ job'.todo \in Seq(TodoType) /\ Len(job'.todo) = m + Len(rest)
        /\ DOMAIN job'.todo = 1 .. m + Len(rest) /\ Len(rest) \in Nat
        /\ \A i \in 1 .. m : job'.todo[i].pos \in Position /\ IsChild(job'.todo[i].pos, h, i)
                             /\ ~job'.todo[i].leave
        /\ \A i \in 1 .. Len(rest) : job'.todo[m + i] = rest[i]
    <3>1. m = Cardinality(Kids(job.alg, h))
      BY DEF m
    <3>2. /\ h \in Position /\ m \in Nat /\ rest \in Seq(TodoType)
          /\ job'.todo = Visit(KidSeq(job.alg, h), rest)
      BY <1>1, <1>3, <1>4, <1>5
    <3> QED
      BY SMTT(30), <3>1, <3>2, VisitFacts
  <2> QED
    BY <1>3, <1>5, <2>1
\* Every place of the list is that of a child, of the element itself, or an old one.
<1>7. \A i \in DOMAIN v :
        \/ i \in 1 .. m
        \/ i = m + 1
        \/ \E j \in 2 .. Len(job.todo) : i = m + j /\ v[i] = job.todo[j]
  <2> SUFFICES ASSUME NEW i \in DOMAIN v, ~(i \in 1 .. m), i # m + 1
               PROVE  \E j \in 2 .. Len(job.todo) : i = m + j /\ v[i] = job.todo[j]
    OBVIOUS
  <2>1. i - m \in 2 .. Len(job.todo) /\ i = m + (i - m)
    BY <1>3, <1>4, <1>6
  <2> QED
    BY <1>6, <2>1
<1>8. EnteredPlaces' = EnteredPlaces \cup {h}
  <2>1. EnteredPlaces' = DOMAIN job.nodes \cup {v[i].pos : i \in {j \in DOMAIN v : v[j].leave}}
    BY <1>1, <1>6 DEF EnteredPlaces
  <2>2. ASSUME NEW i \in DOMAIN v, v[i].leave
        PROVE  v[i].pos \in EnteredPlaces \cup {h}
    BY SMTT(30), <1>3, <1>6, <1>7, <2>2 DEF EnteredPlaces
  <2>3. ASSUME NEW j \in DOMAIN job.todo, job.todo[j].leave
        PROVE  \E i \in DOMAIN v : v[i].leave /\ v[i].pos = job.todo[j].pos
    <3>1. j \in 2 .. Len(job.todo)
      BY <1>3, <2>3
    <3>2. m + j \in DOMAIN v
      BY <1>3, <1>4, <1>6, <3>1
    <3> QED
      BY <1>6, <2>3, <3>1, <3>2
  <2>4. m + 1 \in DOMAIN v
    BY <1>3, <1>4, <1>6
  <2>5. EnteredPlaces' \subseteq EnteredPlaces \cup {h}
    BY <2>1, <2>2 DEF EnteredPlaces
  <2>6. EnteredPlaces \subseteq EnteredPlaces'
    BY <2>1, <2>3 DEF EnteredPlaces
  <2>7. h \in EnteredPlaces'
    BY <1>6, <2>1, <2>4
  <2> QED
    BY <2>5, <2>6, <2>7
<1>9. TraversalInv'
  <2>1. ASSUME NEW i \in DOMAIN v, NEW j \in DOMAIN v, i < j, ~v[i].leave, ~v[j].leave
        PROVE  LeftOf(v[i].pos, v[j].pos)
    <3>1. CASE i \in 1 .. m /\ j \in 1 .. m
      BY <1>3, <1>6, <2>1, <3>1, Siblings
    <3>2. ASSUME i \in 1 .. m, NEW k \in 2 .. Len(job.todo), v[j] = job.todo[k]
          PROVE  LeftOf(v[i].pos, v[j].pos)
      <4>1. LeftOf(h, job.todo[k].pos) /\ job.todo[k].pos \in Position
        <5>1. 1 \in DOMAIN job.todo /\ k \in DOMAIN job.todo /\ 1 < k /\ ~job.todo[k].leave
          BY <1>3, <2>1, <3>2
        <5> QED
          BY <1>2, <1>3, <5>1 DEF TraversalInv
      <4> QED
        BY <1>3, <1>6, <3>2, <4>1, ChildrenStayLeft
    <3>3. ASSUME NEW k \in 2 .. Len(job.todo), NEW l \in 2 .. Len(job.todo), k < l,
                 v[i] = job.todo[k], v[j] = job.todo[l]
          PROVE  LeftOf(v[i].pos, v[j].pos)
      BY SMTT(30), <1>2, <1>3, <2>1, <3>3 DEF TraversalInv
    <3>4. \/ i \in 1 .. m
          \/ \E k \in 2 .. Len(job.todo) : i = m + k /\ v[i] = job.todo[k]
      BY <1>6, <1>7, <2>1
    <3>5. \/ j \in 1 .. m
          \/ \E k \in 2 .. Len(job.todo) : j = m + k /\ v[j] = job.todo[k]
      BY <1>6, <1>7, <2>1
    <3>6. CASE i \in 1 .. m
      BY <3>1, <3>2, <3>5, <3>6
    <3>7. CASE \E k \in 2 .. Len(job.todo) : i = m + k /\ v[i] = job.todo[k]
      <4>1. PICK k \in 2 .. Len(job.todo) : i = m + k /\ v[i] = job.todo[k]
        BY <3>7
      <4>2. PICK l \in 2 .. Len(job.todo) : j = m + l /\ v[j] = job.todo[l]
        BY <1>4, <2>1, <3>5, <4>1
      <4>3. k < l
        BY <1>4, <2>1, <4>1, <4>2
      <4> QED
        BY <3>3, <4>1, <4>2, <4>3
    <3> QED
      BY <3>4, <3>6, <3>7
  <2>2. ASSUME NEW p \in EnteredPlaces \cup {h}, NEW i \in DOMAIN v, ~v[i].leave
        PROVE  Before(p, v[i].pos)
    <3>1. p \in Position /\ (p \in EnteredPlaces => Before(p, h))
      BY <1>2, <1>3 DEF TraversalInv
    <3>2. CASE i \in 1 .. m
      <4>1. IsChild(v[i].pos, h, i) /\ i \in Nat
        BY <1>6, <3>2
      <4>2. CASE p = h
        BY <1>3, <4>1, <4>2, FatherFirst
      <4>3. CASE p \in EnteredPlaces
        BY <1>3, <3>1, <4>1, <4>3, BeforeChildren
      <4> QED
        BY <4>2, <4>3
    <3>3. ASSUME NEW k \in 2 .. Len(job.todo), v[i] = job.todo[k]
          PROVE  Before(p, v[i].pos)
      <4>1. LeftOf(h, job.todo[k].pos)
        BY <1>2, <1>3, <2>2, <3>3 DEF TraversalInv
      <4>2. CASE p = h
        BY <3>3, <4>1, <4>2, LeftIsBefore
      <4>3. CASE p \in EnteredPlaces
        BY <1>2, <1>3, <2>2, <3>3, <4>3 DEF TraversalInv
      <4> QED
        BY <4>2, <4>3
    <3> QED
      BY <1>6, <1>7, <2>2, <3>2, <3>3
  <2>3. EnteredPlaces' \subseteq Position
    BY <1>2, <1>3, <1>8 DEF TraversalInv
  <2> QED
    BY <1>6, <1>8, <2>1, <2>2, <2>3 DEF TraversalInv
<1>10. EntriesInv'
  <2>1. \A p : IdAt(p)' = IdAt(p)
    BY <1>1 DEF IdAt
  <2>2. /\ DOMAIN job'.entries = DOMAIN job.entries \cup {IdAt(h)}
        /\ \A i \in DOMAIN job'.entries :
             job'.entries[i] = IF i = IdAt(h) THEN h ELSE job.entries[i]
    BY <1>1 DEF Entered, Merged
  <2>3. DOMAIN job'.entries = {IdAt(p)' : p \in EnteredPlaces'}
    BY <1>2, <1>8, <2>1, <2>2 DEF EntriesInv
  <2>4. \A p \in EnteredPlaces : Before(p, h)
    BY <1>2, <1>3 DEF TraversalInv
  <2>5. ASSUME NEW i \in DOMAIN job'.entries
        PROVE  /\ job'.entries[i] \in EnteredPlaces' /\ IdAt(job'.entries[i]) = i
               /\ \A p \in EnteredPlaces' :
                    IdAt(p) = i => p = job'.entries[i] \/ Before(p, job'.entries[i])
    <3>1. CASE i = IdAt(h)
      BY <1>8, <2>2, <2>4, <3>1
    <3>2. CASE i # IdAt(h)
      BY <1>2, <1>8, <2>2, <3>2 DEF EntriesInv
    <3> QED
      BY <3>1, <3>2
  <2> QED
    BY <2>1, <2>3, <2>5 DEF EntriesInv
<1> QED
  BY <1>1, <1>2, <1>9, <1>10 DEF BuildInv, IdAt

\* A node is made, and with it its place is complete.
LEMMA NodeDoneKeeps ==
  ASSUME JobInv, JobDataInv, BuildInv, NEW t \in Threads, Constructing(t), Constructible,
         job' = NodeDone
  PROVE  BuildInv'
<1> DEFINE h == Here
<1>1. /\ job.on /\ job.step = "build" /\ job.todo # <<>> /\ Head(job.todo).leave
      /\ job'.todo = Tail(job.todo) /\ job'.alg = job.alg /\ job'.entries = job.entries
      /\ job'.nodes = Merged([p \in {h} |-> NodeHere], job.nodes)
  BY NodeDoneJob DEF Constructing, Working
<1>2. TraversalInv /\ EntriesInv /\ \A p \in DOMAIN job.nodes : job.nodes[p].id = IdAt(p)
  BY <1>1 DEF BuildInv
<1>3. /\ job.todo \in Seq(TodoType) /\ Len(job.todo) \in Nat /\ Len(job.todo) >= 1
      /\ DOMAIN job.todo = 1 .. Len(job.todo) /\ Head(job.todo) = job.todo[1]
      /\ Tail(job.todo) \in Seq(TodoType)
      /\ DOMAIN Tail(job.todo) = 1 .. Len(job.todo) - 1
      /\ \A i \in 1 .. Len(job.todo) - 1 : Tail(job.todo)[i] = job.todo[i + 1]
  <2>1. job.todo \in Seq(TodoType) /\ job.todo # <<>>
    BY <1>1, <1>2 DEF TraversalInv
  <2> QED
    BY <2>1
<1>4. job.todo[1].leave /\ job.todo[1].pos = h
  BY <1>1, <1>3 DEF Here
<1>5. /\ DOMAIN job'.nodes = {h} \cup DOMAIN job.nodes
      /\ \A p \in DOMAIN job'.nodes : job'.nodes[p] = IF p = h THEN NodeHere ELSE job.nodes[p]
  BY <1>1 DEF Merged
<1> HIDE DEF h
<1>6. PICK v \in Seq(TodoType) :
        /\ v = job'.todo /\ DOMAIN v = 1 .. Len(job.todo) - 1
        /\ \A i \in DOMAIN v : i + 1 \in DOMAIN job.todo /\ v[i] = job.todo[i + 1]
  <2>1. \A i \in 1 .. Len(job.todo) - 1 : i + 1 \in DOMAIN job.todo
    BY <1>3
  <2> QED
    BY <1>1, <1>3, <2>1
<1>7. EnteredPlaces' = EnteredPlaces
  <2>1. EnteredPlaces' = {h} \cup DOMAIN job.nodes
                             \cup {v[i].pos : i \in {j \in DOMAIN v : v[j].leave}}
    BY <1>5, <1>6 DEF EnteredPlaces
  <2>2. h \in EnteredPlaces
    BY <1>3, <1>4 DEF EnteredPlaces
  <2>3. ASSUME NEW i \in DOMAIN v, v[i].leave PROVE v[i].pos \in EnteredPlaces
    BY <1>6, <2>3 DEF EnteredPlaces
  <2>4. ASSUME NEW j \in DOMAIN job.todo, job.todo[j].leave
        PROVE  job.todo[j].pos = h \/ \E i \in DOMAIN v : v[i].leave /\ v[i].pos = job.todo[j].pos
    <3>1. CASE j = 1
      BY <1>4, <3>1
    <3>2. CASE j # 1
      <4>1. j - 1 \in DOMAIN v /\ (j - 1) + 1 = j
        BY <1>3, <1>6, <3>2
      <4> QED
        BY <1>6, <2>4, <4>1
    <3> QED
      BY <3>1, <3>2
  <2>5. EnteredPlaces' \subseteq EnteredPlaces
    BY <2>1, <2>2, <2>3 DEF EnteredPlaces
  <2>6. EnteredPlaces \subseteq EnteredPlaces'
    BY <2>1, <2>4 DEF EnteredPlaces
  <2> QED
    BY <2>5, <2>6
<1>8. TraversalInv'
  <2>1. ASSUME NEW i \in DOMAIN v, NEW j \in DOMAIN v, i < j, ~v[i].leave, ~v[j].leave
        PROVE  LeftOf(v[i].pos, v[j].pos)
    <3>1. i + 1 < j + 1
      BY <1>3, <1>6, <2>1
    <3> QED
      BY <1>2, <1>6, <2>1, <3>1 DEF TraversalInv
  <2>2. ASSUME NEW p \in EnteredPlaces, NEW i \in DOMAIN v, ~v[i].leave
        PROVE  Before(p, v[i].pos)
    BY <1>2, <1>6, <2>2 DEF TraversalInv
  <2> QED
    BY <1>2, <1>6, <1>7, <2>1, <2>2 DEF TraversalInv
<1>9. \A p : IdAt(p)' = IdAt(p)
  BY <1>1 DEF IdAt
<1>10. EntriesInv'
  BY <1>1, <1>2, <1>7, <1>9 DEF EntriesInv
<1>11. NodeHere.id = IdAt(h)
  BY NodeFacts DEF Attributes, IdAt, h
<1>12. \A p \in DOMAIN job'.nodes : job'.nodes[p].id = IdAt(p)'
  BY <1>2, <1>5, <1>9, <1>11
<1> QED
  BY <1>8, <1>10, <1>12 DEF BuildInv

\* No step disturbs what has been built.
LEMMA BuildKeeps == JobInv /\ JobDataInv /\ BuildInv /\ [Next]_vars => BuildInv'
<1> SUFFICES ASSUME JobInv, JobDataInv, BuildInv, [Next]_vars PROVE BuildInv'
  OBVIOUS
<1>1. CASE UNCHANGED job
  BY <1>1 DEF BuildInv, TraversalInv, EntriesInv, EnteredPlaces, IdAt
<1>2. CASE job' = Nobody
  BY <1>2 DEF BuildInv, Nobody
<1>3. ASSUME NEW t \in Threads, NEW s \in Sessions, NEW a \in Requests, SetAlgorithm(t, s, a)
      PROVE  BuildInv'
  <2>1. CASE job' = Begun(t, s, a)
    <3>1. job'.step = "configure"
      BY <2>1 DEF Begun
    <3> QED
      BY <3>1 DEF BuildInv
  <2> QED
    BY <1>1, <1>3, <2>1 DEF SetAlgorithm
<1>4. ASSUME NEW t \in Threads, ConfigureElement(t) PROVE BuildInv'
  BY <1>4, ConfigureElementJob DEF BuildInv
<1>5. ASSUME NEW t \in Threads, StartBuild(t) PROVE BuildInv'
  BY <1>5, StartBuildKeeps
<1>6. ASSUME NEW t \in Threads, EnterNode(t) PROVE BuildInv'
  BY <1>6, EnterNodeKeeps
<1>7. ASSUME NEW t \in Threads, ReuseAccessor(t) \/ MakeAccessor(t) \/ NullAccessor(t)
      PROVE  BuildInv'
  <2>1. CASE job' = NodeDone
    <3>1. Constructing(t) /\ Constructible
      BY <1>7 DEF ReuseAccessor, MakeAccessor, NullAccessor
    <3> QED
      BY <2>1, <3>1, NodeDoneKeeps
  <2> QED
    BY <1>1, <1>2, <1>7, <2>1 DEF ReuseAccessor, MakeAccessor, NullAccessor, Throw
<1> QED
  BY <1>1, <1>2, <1>3, <1>4, <1>5, <1>6, <1>7
  DEF Next, vars, Scan, DeleteSession, ConfigureCrashes, AccessorThrows,
      HierarchyThrows, Refuse, Finish, Throw

\* What a container finds it finds whatever becomes of the nodes' accessors.
LEMMA DisturbedFinds ==
  ASSUME FoundInv, NEW s \in Sessions, NEW adm, tree' = Disturbed(s, adm),
         DOMAIN container' = Sessions, \A r \in Sessions \ {s} : container'[r] = container[r]
  PROVE  FoundInv'
<1>1. ASSUME NEW r \in Sessions, r # s
      PROVE  /\ DOMAIN tree'[r] = DOMAIN tree[r]
             /\ \A p \in DOMAIN tree[r] :
                  DOMAIN tree'[r][p] = NodeFields /\ tree'[r][p].id = tree[r][p].id
  <2>1. tree'[r] = [p \in DOMAIN tree[r] |->
                      LET n == tree[r][p] IN
                      [n EXCEPT !.live = @ /\ adm[n.coll][n.accessor].object]]
    BY <1>1 DEF Disturbed
  <2>2. ASSUME NEW p \in DOMAIN tree[r]
        PROVE  DOMAIN tree'[r][p] = NodeFields /\ tree'[r][p].id = tree[r][p].id
    <3> DEFINE n == tree[r][p]
    <3>1. DOMAIN n = NodeFields
      BY DEF FoundInv
    <3>2. tree'[r][p] = [n EXCEPT !.live = @ /\ adm[n.coll][n.accessor].object]
      BY <2>1
    <3> HIDE DEF n
    <3>3. DOMAIN tree'[r][p] = NodeFields /\ tree'[r][p].id = n.id
      BY <3>1, <3>2 DEF NodeFields
    <3> QED
      BY <3>3 DEF n
  <2> QED
    BY <2>1, <2>2
<1>2. tree'[s] = <<>> /\ DOMAIN tree' = Sessions
  BY DEF Disturbed
<1>3. ASSUME NEW r \in Sessions, tree'[r] # <<>>
      PROVE  Finds(container'[r], tree'[r])
  <2>1. r # s
    BY <1>2, <1>3
  <2>2. tree[r] # <<>>
    <3> DEFINE left(p) == LET n == tree[r][p] IN
                          [n EXCEPT !.live = @ /\ adm[n.coll][n.accessor].object]
    <3>1. tree'[r] = [p \in DOMAIN tree[r] |-> left(p)]
      BY <2>1 DEF Disturbed
    <3> HIDE DEF left
    <3>2. [p \in {} |-> left(p)] = <<>> /\ DOMAIN <<>> = {}
      OBVIOUS
    <3>3. tree[r] = <<>> => tree'[r] = [p \in {} |-> left(p)]
      BY <3>1, <3>2
    <3> QED
      BY <1>3, <3>2, <3>3
  <2>3. Finds(container[r], tree[r]) /\ container'[r] = container[r]
    BY <2>1, <2>2 DEF FoundInv
  <2> QED
    BY <1>1, <2>1, <2>3 DEF Finds
<1>4. \A r \in Sessions : \A p \in DOMAIN tree'[r] : DOMAIN tree'[r][p] = NodeFields
  BY <1>1, <1>2
<1> QED
  BY <1>2, <1>3, <1>4 DEF FoundInv

LEMMA FoundKeeps == JobInv /\ BuildInv /\ UseInv /\ FoundInv /\ [Next]_vars => FoundInv'
<1> SUFFICES ASSUME JobInv, BuildInv, UseInv, FoundInv, [Next]_vars PROVE FoundInv'
  OBVIOUS
<1>1. CASE UNCHANGED <<tree, container>>
  BY <1>1 DEF FoundInv, Finds
<1>2. ASSUME NEW t \in Threads, NEW s \in Sessions, NEW a \in Requests, SetAlgorithm(t, s, a)
      PROVE  FoundInv'
  <2>1. /\ tree' = Disturbed(s, admin') /\ DOMAIN container' = Sessions
        /\ \A r \in Sessions \ {s} : container'[r] = container[r]
    BY <1>2 DEF SetAlgorithm, FoundInv
  <2> QED
    BY <2>1, DisturbedFinds
<1>3. ASSUME NEW t \in Threads, NEW s \in Sessions, DeleteSession(t, s) PROVE FoundInv'
  <2>1. /\ tree' = Disturbed(s, admin') /\ DOMAIN container' = Sessions
        /\ \A r \in Sessions \ {s} : container'[r] = container[r]
    BY <1>3 DEF DeleteSession, FoundInv
  <2> QED
    BY <2>1, DisturbedFinds
<1>4. ASSUME NEW t \in Threads, Finish(t) PROVE FoundInv'
  <2>1. /\ job.on /\ job.step = "build" /\ job.todo = <<>> /\ job.session \in Sessions
        /\ tree' = [tree EXCEPT ![job.session] = job.nodes]
        /\ container' = [container EXCEPT ![job.session] = job.entries]
    BY <1>4 DEF Finish, Working, JobInv
  <2>2. EntriesInv /\ \A p \in DOMAIN job.nodes : job.nodes[p].id = IdAt(p)
    BY <2>1 DEF BuildInv
  <2>3. EnteredPlaces = DOMAIN job.nodes
    <3>1. DOMAIN job.todo = {}
      BY <2>1
    <3> QED
      BY <3>1 DEF EnteredPlaces
  <2>4. Finds(job.entries, job.nodes)
    <3>1. DOMAIN job.entries = {job.nodes[p].id : p \in DOMAIN job.nodes}
      BY <2>2, <2>3 DEF EntriesInv
    <3>2. \A i \in DOMAIN job.entries :
            /\ job.entries[i] \in DOMAIN job.nodes /\ job.nodes[job.entries[i]].id = i
            /\ \A p \in DOMAIN job.nodes :
                 job.nodes[p].id = i => p = job.entries[i] \/ Before(p, job.entries[i])
      BY <2>2, <2>3 DEF EntriesInv
    <3> QED
      BY <3>1, <3>2 DEF Finds
  <2>5. \A p \in DOMAIN job.nodes : DOMAIN job.nodes[p] = NodeFields
    BY <2>1 DEF UseInv, Held
  <2>6. \A s \in Sessions :
          /\ tree'[s] = IF s = job.session THEN job.nodes ELSE tree[s]
          /\ container'[s] = IF s = job.session THEN job.entries ELSE container[s]
    BY <2>1 DEF FoundInv
  <2>7. DOMAIN tree' = Sessions /\ DOMAIN container' = Sessions
    BY <2>1 DEF FoundInv
  <2>8. \A s \in Sessions : \A p \in DOMAIN tree'[s] : DOMAIN tree'[s][p] = NodeFields
    BY <2>5, <2>6 DEF FoundInv
  <2>9. \A s \in Sessions : tree'[s] # <<>> => Finds(container'[s], tree'[s])
    BY <2>4, <2>6 DEF FoundInv
  <2> QED
    BY <2>7, <2>8, <2>9 DEF FoundInv
<1> QED
  BY <1>1, <1>2, <1>3, <1>4
  DEF Next, vars, sessionVars, Scan, ConfigureElement, ConfigureCrashes, StartBuild, EnterNode,
      ReuseAccessor, MakeAccessor, AccessorThrows, HierarchyThrows, NullAccessor, Refuse

-----------------------------------------------------------------------------
(* The theorems *)

\* The inductive invariant: no part of it is kept by every step without the others.
IInv ==
  /\ frees \in BOOLEAN
  /\ JobInv /\ LockInv /\ UseInv
  /\ JobDataInv /\ BuildInv /\ FoundInv

LEMMA InitIInv == Init => IInv
<1> SUFFICES ASSUME Init PROVE IInv
  OBVIOUS
<1>1. frees \in BOOLEAN
  BY QueryTreesAssumption DEF Init
<1>2. ~job.on /\ job.on \in BOOLEAN
  BY DEF Init, Nobody
<1>3. JobInv /\ JobDataInv /\ BuildInv
  BY <1>2 DEF JobInv, JobDataInv, BuildInv
<1>4. LockInv
  <2>1. /\ manager = FreeMutex /\ gmutex = FreeMutex
        /\ thrown = [t \in Threads |-> 0] /\ kept = [t \in Threads |-> 0]
    BY DEF Init
  <2>2. FreeMutex \in MutexType /\ WellFormed(FreeMutex) /\ \A t \in Threads : Depth(FreeMutex, t) = 0
    BY FreeLemma
  <2> QED
    BY <1>2, <2>1, <2>2 DEF LockInv, Balanced
<1>5. \A s \in Sessions : tree[s] = <<>> /\ Held(s) = <<>> /\ DOMAIN Held(s) = {}
  BY <1>2 DEF Init, Held
<1>6. UseInv
  <2>1. admin \in [Collections -> [AccessorNames -> EntryType]]
    BY DEF Init, EmptyEntry, EntryType
  <2>2. ASSUME NEW c \in Collections, NEW n \in AccessorNames PROVE Counted(c, n)
    <3>1. Uses(c, n) = {}
      BY <1>5 DEF Uses, Users
    <3>2. admin[c][n].count = 0 /\ admin[c][n].object = FALSE
      BY DEF Init, EmptyEntry
    <3> QED
      BY <3>1, <3>2, FS_EmptySet DEF Counted
  <2> QED
    BY <1>2, <1>5, <2>1, <2>2 DEF UseInv, Init
<1>7. FoundInv
  <2>1. DOMAIN <<>> = {}
    OBVIOUS
  <2> QED
    BY <1>5, <2>1 DEF FoundInv, Init
<1> QED
  BY <1>1, <1>3, <1>4, <1>6, <1>7 DEF IInv

LEMMA NextKeeps == IInv /\ [Next]_vars => IInv'
<1> SUFFICES ASSUME IInv, [Next]_vars PROVE IInv'
  OBVIOUS
<1>1. frees' = frees
  BY DEF Next, vars, Scan, SetAlgorithm, DeleteSession, ConfigureElement, ConfigureCrashes,
         StartBuild, EnterNode, ReuseAccessor, MakeAccessor, AccessorThrows,
         HierarchyThrows, NullAccessor,
         Refuse, Finish
<1> QED
  BY <1>1, JobsKeep, LocksKeep, UsesKeep, JobDataKeeps, BuildKeeps, FoundKeeps DEF IInv

\* The invariant holds in every state the server comes to.
LEMMA SpecIInv == Spec => []IInv
BY InitIInv, NextKeeps, PTL DEF Spec

\* Every lock a thread has kept was lost to an exception, one each: gMutex where the
\* constructor of an accessor failed, the manager's where a configuration did.
THEOREM Balance == Spec => []LocksBalanced
<1>1. IInv => LocksBalanced
  BY DEF IInv, LockInv, Balanced, LocksBalanced
<1> QED
  BY <1>1, SpecIInv, PTL

\* However the counter of users goes wrong, it never counts fewer users than there are,
\* so that no accessor is deleted that a node of a tree uses.
THEOREM Usable == Spec => []AccessorsInUse
<1>1. IInv => AccessorsInUse
  <2> SUFFICES ASSUME IInv, NEW s \in Sessions, NEW p \in DOMAIN tree[s]
               PROVE  LET n == tree[s][p] IN n.live /\ admin[n.coll][n.accessor].object
    BY DEF AccessorsInUse
  <2>1. p \in DOMAIN Held(s) /\ Held(s)[p] = tree[s][p]
    <3>1. tree[s] # <<>>
      OBVIOUS
    <3> QED
      BY <3>1 DEF IInv, UseInv, Held
  <2>2. /\ tree[s][p].live
        /\ tree[s][p].coll \in Collections /\ tree[s][p].accessor \in AccessorNames
    BY <2>1 DEF IInv, UseInv
  <2>3. <<s, p>> \in Uses(tree[s][p].coll, tree[s][p].accessor)
    BY <2>1, <2>2 DEF Uses, Users
  <2>4. Counted(tree[s][p].coll, tree[s][p].accessor)
    BY <2>2 DEF IInv, UseInv
  <2> QED
    BY <2>2, <2>3, <2>4 DEF Counted
<1> QED
  BY <1>1, SpecIInv, PTL

\* Whatever algorithms are configured, and however often a configuration fails, the
\* container of a session that has a tree finds the nodes of that tree by their IDs.
THEOREM Found == Spec => []NodesAreFound
<1>1. IInv => NodesAreFound
  BY DEF IInv, FoundInv, Finds, NodesAreFound
<1> QED
  BY <1>1, SpecIInv, PTL
-----------------------------------------------------------------------------
(* Inheritance: for every algorithm a client may send and every set of     *)
(* defaults, the algorithm a tree is built from says of each attribute     *)
(* what the nearest element says of it.                                    *)

\* The children of an element are numbered from one.
Numbered(a, p) == \E m \in Nat : Kids(a, p) = {Append(p, k) : k \in 1 .. m}

\* An algorithm is a tree: with an element all above it are there.
Shape(D) ==
  /\ D \subseteq Position
  /\ \A p \in D : \A n \in 0 .. Len(p) : SubSeq(p, 1, n) \in D

\* An element the configuration has not come to yet.
Pending(p) == \E j \in DOMAIN job.todo : IsPrefix(job.todo[j].pos, p)

\* The element at q is the nearest that says something of the attribute to that at p.
NearestSaying(p, q, name) ==
  /\ q \in Visible(p) /\ Says(q, name)
  /\ \A r \in Visible(p) : Says(r, name) => Len(r) <= Len(q)

\* These attributes say what the nearest elements say to that at p.
Inherited(p, attributes) ==
  \A name \in Attribute :
    IF name \in DOMAIN attributes
    THEN \E q \in Visible(p) : NearestSaying(p, q, name) /\ attributes[name] = Said(q, name)
    ELSE \A q \in Visible(p) : ~Says(q, name)

Inherits(p) == Inherited(p, job.alg[p])

\* From left to right; what has not been visited is as it was sent or cloned.
ConfigureInv ==
  job.on =>
    /\ DOMAIN job.given = DOMAIN job.alg /\ IsFiniteSet(DOMAIN job.alg)
    /\ Shape(DOMAIN job.alg) /\ \A p \in DOMAIN job.alg : Numbered(job.alg, p)
    /\ job.step = "configure" =>
         /\ job.todo \in Seq(TodoType)
         /\ \A i \in DOMAIN job.todo : job.todo[i].pos \in DOMAIN job.alg
         /\ \A i, j \in DOMAIN job.todo : i < j => LeftOf(job.todo[i].pos, job.todo[j].pos)
         /\ <<>> \notin job.linked
    /\ \A p \in DOMAIN job.alg :
         IF job.step = "configure" /\ Pending(p) THEN job.alg[p] = job.given[p] ELSE Inherits(p)

-----------------------------------------------------------------------------
(* Places *)

LEMMA CountNumbered ==
  ASSUME NEW p \in Position, NEW m \in Nat
  PROVE  /\ IsFiniteSet({Append(p, k) : k \in 1 .. m})
         /\ Cardinality({Append(p, k) : k \in 1 .. m}) = m
<1> DEFINE K == {Append(p, k) : k \in 1 .. m}
           f == [k \in 1 .. m |-> Append(p, k)]
<1>1. \A k, l \in 1 .. m : Append(p, k) = Append(p, l) => k = l
  BY AppendedPlace DEF IsChild
<1>2. f \in Bijection(1 .. m, K)
  <2>1. f \in [1 .. m -> K] /\ \A k, l \in 1 .. m : f[k] = f[l] => k = l
    BY <1>1
  <2>2. \A c \in K : \E k \in 1 .. m : f[k] = c
    OBVIOUS
  <2> QED
    BY <2>1, <2>2 DEF Bijection, Injection, IsInjective, Surjection
<1>3. ExistsBijection(1 .. m, K)
  BY <1>2 DEF ExistsBijection
<1>4. Cardinality(1 .. m) = m /\ IsFiniteSet(1 .. m)
  BY FS_Interval
<1> QED
  BY <1>3, <1>4, FS_Bijection

LEMMA SamePlace ==
  ASSUME NEW p \in Position, NEW q \in Position, Len(p) = Len(q),
         \A j \in 1 .. Len(p) : p[j] = q[j]
  PROVE  p = q
<1>1. p = [j \in 1 .. Len(p) |-> p[j]] /\ q = [j \in 1 .. Len(q) |-> q[j]]
  BY DEF Position
<1> QED
  BY <1>1

LEMMA OnlyChild ==
  ASSUME NEW p \in Position, NEW k \in Nat, NEW c, IsChild(c, p, k)
  PROVE  c = Append(p, k)
<1>1. IsChild(Append(p, k), p, k)
  BY AppendedPlace
<1>2. /\ c \in Position /\ Append(p, k) \in Position /\ Len(p) \in Nat
      /\ Len(c) = Len(Append(p, k)) /\ Len(c) = Len(p) + 1
      /\ \A j \in 1 .. Len(p) : c[j] = Append(p, k)[j]
      /\ c[Len(p) + 1] = Append(p, k)[Len(p) + 1]
  BY <1>1 DEF IsChild
<1>3. \A j \in 1 .. Len(c) : c[j] = Append(p, k)[j]
  BY <1>2
<1> QED
  BY <1>2, <1>3, SamePlace

\* The father of an element.
LEMMA FrontFacts ==
  ASSUME NEW p \in Position, p # <<>>
  PROVE  /\ Front(p) \in Position /\ Len(p) \in Nat \ {0} /\ Len(Front(p)) = Len(p) - 1
         /\ \A j \in 1 .. Len(p) - 1 : Front(p)[j] = p[j]
         /\ p[Len(p)] \in Nat /\ p = Append(Front(p), p[Len(p)])
<1>1. Len(p) \in Nat \ {0} /\ \A j \in 1 .. Len(p) : p[j] \in Nat
  BY DEF Position
<1>2. /\ Front(p) \in Position /\ Len(Front(p)) = Len(p) - 1
      /\ \A j \in 1 .. Len(p) - 1 : Front(p)[j] = p[j]
  <2> DEFINE n == Len(p) - 1
  <2>1. n \in Nat /\ SubSeq(p, 1, n) = [j \in 1 .. n |-> p[j]]
    BY <1>1 DEF Position
  <2>2. [j \in 1 .. n |-> p[j]] \in Seq(Nat) /\ Len([j \in 1 .. n |-> p[j]]) = n
    BY <1>1, <2>1
  <2> QED
    BY <2>1, <2>2 DEF Position, Front
<1>3. p = Append(Front(p), p[Len(p)])
  <2>1. IsChild(Append(Front(p), p[Len(p)]), Front(p), p[Len(p)])
    BY <1>1, <1>2, AppendedPlace
  <2>2. /\ Append(Front(p), p[Len(p)]) \in Position /\ Len(Append(Front(p), p[Len(p)])) = Len(p)
        /\ \A j \in 1 .. Len(p) : Append(Front(p), p[Len(p)])[j] = p[j]
    BY <1>1, <1>2, <2>1 DEF IsChild
  <2> QED
    BY <2>2 DEF Position
<1> QED
  BY <1>1, <1>2, <1>3

LEMMA FrontOfChild ==
  ASSUME NEW p \in Position, NEW k \in Nat
  PROVE  Append(p, k) \in Position /\ Append(p, k) # <<>> /\ Front(Append(p, k)) = p
<1>1. IsChild(Append(p, k), p, k)
  BY AppendedPlace
<1>2. Append(p, k) \in Position /\ Len(Append(p, k)) = Len(p) + 1 /\ Len(p) \in Nat
  BY <1>1 DEF IsChild
<1>3. Append(p, k) # <<>>
  BY DEF Position
<1>4. /\ Front(Append(p, k)) \in Position /\ Len(Front(Append(p, k))) = Len(p)
      /\ \A j \in 1 .. Len(p) : Front(Append(p, k))[j] = p[j]
  <2>1. /\ Front(Append(p, k)) \in Position
        /\ Len(Front(Append(p, k))) = Len(Append(p, k)) - 1
        /\ \A j \in 1 .. Len(Append(p, k)) - 1 : Front(Append(p, k))[j] = Append(p, k)[j]
    BY <1>2, <1>3, FrontFacts
  <2>2. \A j \in 1 .. Len(p) : Append(p, k)[j] = p[j]
    BY <1>1 DEF IsChild
  <2> QED
    BY <1>2, <2>1, <2>2
<1> QED
  BY <1>2, <1>3, <1>4, SamePlace

\* What is above an element is the element or above its father.
LEMMA PrefixOfFront ==
  ASSUME NEW p \in Position, p # <<>>, NEW q \in Position
  PROVE  IsPrefix(q, p) <=> q = p \/ IsPrefix(q, Front(p))
<1>1. /\ Front(p) \in Position /\ Len(p) \in Nat \ {0} /\ Len(Front(p)) = Len(p) - 1
      /\ \A j \in 1 .. Len(p) - 1 : Front(p)[j] = p[j]
  BY FrontFacts
<1>2. Len(q) \in Nat
  BY DEF Position
<1>3. /\ IsPrefix(q, p) <=> Len(q) <= Len(p) /\ \A j \in 1 .. Len(q) : q[j] = p[j]
      /\ IsPrefix(q, Front(p)) <=>
           Len(q) <= Len(p) - 1 /\ \A j \in 1 .. Len(q) : q[j] = Front(p)[j]
  BY <1>1, PrefixFacts
<1>4. Len(q) = Len(p) /\ (\A j \in 1 .. Len(q) : q[j] = p[j]) => q = p
  BY SamePlace
<1>5. q = p => IsPrefix(q, p)
  BY <1>1, <1>3
<1> QED
  BY <1>1, <1>2, <1>3, <1>4, <1>5

\* Of the elements above another there is one at each depth.
LEMMA SamePrefix ==
  ASSUME NEW p \in Position, NEW q \in Position, NEW r \in Position,
         IsPrefix(q, p), IsPrefix(r, p), Len(q) = Len(r)
  PROVE  q = r
<1>1. \A j \in 1 .. Len(q) : q[j] = r[j]
  BY PrefixFacts
<1> QED
  BY <1>1, SamePlace

\* Prefixes of a prefix; an element left of another is not above it.
LEMMA PrefixOrder ==
  ASSUME NEW p \in Position, NEW q \in Position, NEW r \in Position
  PROVE  /\ IsPrefix(p, p)
         /\ IsPrefix(p, q) /\ IsPrefix(q, r) => IsPrefix(p, r)
         /\ IsPrefix(p, q) /\ IsPrefix(q, p) => p = q
         /\ LeftOf(p, q) => ~IsPrefix(p, q) /\ ~IsPrefix(q, p)
<1>1. Len(p) \in Nat /\ Len(q) \in Nat /\ Len(r) \in Nat
      /\ DOMAIN p = 1 .. Len(p) /\ DOMAIN q = 1 .. Len(q)
      /\ (\A j \in 1 .. Len(p) : p[j] \in Nat) /\ \A j \in 1 .. Len(q) : q[j] \in Nat
  BY DEF Position
<1>2. IsPrefix(p, p)
  BY <1>1, PrefixFacts
<1>3. IsPrefix(p, q) /\ IsPrefix(q, r) => IsPrefix(p, r)
  BY <1>1, PrefixFacts
<1>4. IsPrefix(p, q) /\ IsPrefix(q, p) => p = q
  BY <1>1, <1>2, SamePrefix, PrefixFacts
<1>5. LeftOf(p, q) => ~IsPrefix(p, q) /\ ~IsPrefix(q, p)
  BY <1>1, PrefixFacts DEF LeftOf
<1> QED
  BY <1>2, <1>3, <1>4, <1>5

\* Places below a place.
LEMMA Concatenated ==
  ASSUME NEW p \in Position, NEW r \in Position
  PROVE  /\ p \o r \in Position /\ Len(p) \in Nat /\ Len(r) \in Nat
         /\ Len(p \o r) = Len(p) + Len(r)
         /\ \A j \in 1 .. Len(p) : (p \o r)[j] = p[j]
         /\ \A j \in 1 .. Len(r) : (p \o r)[Len(p) + j] = r[j]
         /\ IsPrefix(p, p \o r)
         /\ r # <<>> => p \o r # <<>> /\ p \o r # p
<1>1. /\ p \o r \in Position /\ Len(p) \in Nat /\ Len(r) \in Nat
      /\ Len(p \o r) = Len(p) + Len(r)
      /\ \A j \in 1 .. Len(p) : (p \o r)[j] = p[j]
      /\ \A j \in 1 .. Len(r) : (p \o r)[Len(p) + j] = r[j]
  BY DEF Position
<1>2. IsPrefix(p, p \o r)
  <2>1. Len(p) <= Len(p \o r) /\ \A j \in 1 .. Len(p) : p[j] = (p \o r)[j]
    BY <1>1
  <2> QED
    BY <1>1, <2>1, PrefixFacts
<1>3. r # <<>> => Len(r) > 0
  BY DEF Position
<1>4. Len(<<>>) = 0
  OBVIOUS
<1>5. r # <<>> => p \o r # <<>> /\ p \o r # p
  BY <1>1, <1>3, <1>4
<1> QED
  BY <1>1, <1>2, <1>5

LEMMA CancelPrefix ==
  ASSUME NEW p \in Position, NEW r \in Position, NEW s \in Position, p \o r = p \o s
  PROVE  r = s
<1>1. /\ Len(p) \in Nat /\ Len(r) \in Nat /\ Len(s) \in Nat
      /\ Len(p \o r) = Len(p) + Len(r) /\ Len(p \o s) = Len(p) + Len(s)
      /\ \A j \in 1 .. Len(r) : (p \o r)[Len(p) + j] = r[j]
      /\ \A j \in 1 .. Len(s) : (p \o s)[Len(p) + j] = s[j]
  BY ZenonT(30), Concatenated
<1>2. Len(r) = Len(s)
  BY <1>1
<1>3. \A j \in 1 .. Len(r) : r[j] = s[j]
  BY <1>1, <1>2
<1> QED
  BY <1>2, <1>3, SamePlace

LEMMA GraftedChild ==
  ASSUME NEW p \in Position, NEW r \in Position, NEW k \in Nat
  PROVE  p \o Append(r, k) = Append(p \o r, k)
<1>1. /\ p \o r \in Position /\ Len(p) \in Nat /\ Len(r) \in Nat
      /\ Len(p \o r) = Len(p) + Len(r)
      /\ \A j \in 1 .. Len(p) : (p \o r)[j] = p[j]
      /\ \A j \in 1 .. Len(r) : (p \o r)[Len(p) + j] = r[j]
  BY Concatenated
<1>2. IsChild(Append(r, k), r, k) /\ IsChild(Append(p \o r, k), p \o r, k)
  BY <1>1, AppendedPlace
<1>3. /\ Append(r, k) \in Position /\ Append(p \o r, k) \in Position
      /\ Len(Append(r, k)) = Len(r) + 1 /\ Len(Append(p \o r, k)) = Len(p) + Len(r) + 1
      /\ \A j \in 1 .. Len(r) : Append(r, k)[j] = r[j]
      /\ Append(r, k)[Len(r) + 1] = k
      /\ \A j \in 1 .. Len(p) + Len(r) : Append(p \o r, k)[j] = (p \o r)[j]
      /\ Append(p \o r, k)[Len(p) + Len(r) + 1] = k
  BY <1>1, <1>2 DEF IsChild
<1>4. /\ p \o Append(r, k) \in Position
      /\ Len(p \o Append(r, k)) = Len(p) + Len(r) + 1
      /\ \A j \in 1 .. Len(p) : (p \o Append(r, k))[j] = p[j]
      /\ \A j \in 1 .. Len(r) + 1 : (p \o Append(r, k))[Len(p) + j] = Append(r, k)[j]
  <2> SUFFICES ASSUME NEW c \in Position, c = Append(r, k)
               PROVE  /\ p \o c \in Position /\ Len(p \o c) = Len(p) + Len(r) + 1
                      /\ \A j \in 1 .. Len(p) : (p \o c)[j] = p[j]
                      /\ \A j \in 1 .. Len(r) + 1 : (p \o c)[Len(p) + j] = c[j]
    BY <1>3
  <2>1. Len(c) = Len(r) + 1
    BY <1>3
  <2>2. /\ p \o c \in Position /\ Len(p \o c) = Len(p) + Len(c)
        /\ \A j \in 1 .. Len(p) : (p \o c)[j] = p[j]
        /\ \A j \in 1 .. Len(c) : (p \o c)[Len(p) + j] = c[j]
    BY Concatenated
  <2> QED
    BY <1>1, <2>1, <2>2
<1>5. ASSUME NEW j \in 1 .. Len(p) + Len(r) + 1
      PROVE  (p \o Append(r, k))[j] = Append(p \o r, k)[j]
  <2>1. CASE j <= Len(p)
    BY <1>1, <1>3, <1>4, <2>1
  <2>2. CASE j > Len(p)
    <3>1. PICK i \in 1 .. Len(r) + 1 : j = Len(p) + i
      <4>1. j - Len(p) \in 1 .. Len(r) + 1 /\ j = Len(p) + (j - Len(p))
        BY <1>1, <2>2
      <4> QED
        BY <4>1
    <3>2. (p \o Append(r, k))[j] = Append(r, k)[i]
      BY <1>4, <3>1
    <3>3. CASE i = Len(r) + 1
      BY <1>1, <1>3, <3>1, <3>2, <3>3
    <3>4. CASE i # Len(r) + 1
      <4>1. i \in 1 .. Len(r) /\ j \in 1 .. Len(p) + Len(r)
        BY <1>1, <3>1, <3>4
      <4> QED
        BY <1>1, <1>3, <3>1, <3>2, <4>1
    <3> QED
      BY <3>3, <3>4
  <2> QED
    BY <1>1, <2>1, <2>2
<1> QED
  BY <1>3, <1>4, <1>5, SamePlace

\* The place above a place at a depth.
LEMMA PlaceAbove ==
  ASSUME NEW p \in Position, NEW n \in 0 .. Len(p)
  PROVE  /\ n \in Nat /\ Len(p) \in Nat
         /\ SubSeq(p, 1, n) \in Position /\ Len(SubSeq(p, 1, n)) = n
         /\ \A j \in 1 .. n : SubSeq(p, 1, n)[j] = p[j]
         /\ IsPrefix(SubSeq(p, 1, n), p)
<1>1. /\ n \in Nat /\ Len(p) \in Nat
      /\ SubSeq(p, 1, n) \in Position /\ Len(SubSeq(p, 1, n)) = n
      /\ \A j \in 1 .. n : SubSeq(p, 1, n)[j] = p[j]
  BY DEF Position
<1>2. PICK c \in Position : c = SubSeq(p, 1, n)
  BY <1>1
<1>3. Len(c) <= Len(p) /\ \A j \in 1 .. Len(c) : c[j] = p[j]
  BY <1>1, <1>2
<1>4. IsPrefix(c, p)
  BY <1>3, PrefixFacts
<1> QED
  BY <1>1, <1>2, <1>4

-----------------------------------------------------------------------------
(* Algorithms are trees *)

\* All above an element of a tree is in the tree.
LEMMA ShapeFacts ==
  ASSUME NEW D, Shape(D), NEW p \in D
  PROVE  /\ p \in Position /\ Len(p) \in Nat
         /\ p # <<>> => Front(p) \in D
         /\ \A q \in Position : IsPrefix(q, p) => q \in D
<1>1. p \in Position /\ Len(p) \in Nat /\ \A n \in 0 .. Len(p) : SubSeq(p, 1, n) \in D
  BY DEF Shape, Position
<1>2. ASSUME p # <<>> PROVE Front(p) \in D
  <2>1. Len(p) \in Nat \ {0}
    BY <1>1, <1>2, FrontFacts
  <2>2. Len(p) - 1 \in 0 .. Len(p)
    BY <2>1
  <2> QED
    BY <1>1, <2>2 DEF Front
<1>3. ASSUME NEW q \in Position, IsPrefix(q, p) PROVE q \in D
  <2>1. Len(q) \in 0 .. Len(p) /\ SubSeq(q, 1, Len(q)) = SubSeq(p, 1, Len(q))
    BY <1>1, <1>3 DEF IsPrefix, Position
  <2>2. SubSeq(q, 1, Len(q)) = q
    BY DEF Position
  <2> QED
    BY <1>1, <2>1, <2>2
<1> QED
  BY <1>1, <1>2, <1>3

\* What is below an element is below a child of it.
LEMMA BelowChild ==
  ASSUME NEW a, Shape(DOMAIN a), NEW h \in Position, NEW p \in DOMAIN a,
         IsPrefix(h, p), h # p
  PROVE  \E c \in Kids(a, h) : IsPrefix(c, p)
<1> DEFINE n == Len(h) + 1
           c == SubSeq(p, 1, n)
<1>1. /\ p \in Position /\ Len(p) \in Nat /\ Len(h) \in Nat
      /\ Len(h) <= Len(p) /\ \A j \in 1 .. Len(h) : h[j] = p[j]
  BY ShapeFacts, PrefixFacts DEF Position
<1>2. Len(h) # Len(p)
  BY <1>1, SamePlace
<1>3. n \in 1 .. Len(p) /\ n \in Nat
  BY <1>1, <1>2
<1>4. c \in DOMAIN a
  BY <1>1, <1>3 DEF Shape
<1>5. c \in Position /\ Len(c) = n /\ (\A j \in 1 .. n : c[j] = p[j]) /\ IsPrefix(c, p)
  <2>1. n \in 0 .. Len(p)
    BY <1>3
  <2> QED
    BY <1>1, <2>1, PlaceAbove
<1> HIDE DEF c
<1>6. c # <<>>
  <2>1. Len(<<>>) = 0
    OBVIOUS
  <2> QED
    BY <1>1, <1>5, <2>1
<1>7. Front(c) = h
  <2>1. /\ Front(c) \in Position /\ Len(Front(c)) = Len(h)
        /\ \A j \in 1 .. Len(h) : Front(c)[j] = h[j]
    <3>1. /\ Front(c) \in Position /\ Len(Front(c)) = n - 1
          /\ \A j \in 1 .. n - 1 : Front(c)[j] = c[j]
      BY <1>5, <1>6, FrontFacts
    <3> QED
      BY <1>1, <1>5, <3>1
  <2> QED
    BY <2>1, SamePlace
<1> QED
  BY <1>4, <1>5, <1>6, <1>7 DEF Kids

IsTree(a) == Shape(DOMAIN a) /\ \A p \in DOMAIN a : Numbered(a, p)

\* The places below h of the elements below d's root.
Grafts(h, d) == {h \o r : r \in DOMAIN d \ {<<>>}}

\* A tree of which a leaf has got the children of another tree's root.
LEMMA Grafted ==
  ASSUME NEW a, IsTree(a), NEW d, IsTree(d), <<>> \in DOMAIN d,
         NEW h \in DOMAIN a, Kids(a, h) = {},
         NEW b, DOMAIN b = DOMAIN a \cup Grafts(h, d)
  PROVE  IsTree(b)
<1>0. /\ Shape(DOMAIN a) /\ \A p \in DOMAIN a : Numbered(a, p)
      /\ Shape(DOMAIN d) /\ \A r \in DOMAIN d : Numbered(d, r)
      /\ DOMAIN b = DOMAIN a \cup {h \o r : r \in DOMAIN d \ {<<>>}}
  BY DEF IsTree, Grafts
<1>1. h \in Position /\ DOMAIN a \subseteq Position /\ DOMAIN d \subseteq Position
  BY <1>0 DEF Shape
<1>2. ASSUME NEW r \in DOMAIN d PROVE h \o r \in DOMAIN b
  <2>1. CASE r = <<>>
    <3>1. h \o <<>> = h
      BY <1>0, <1>1 DEF Position
    <3> QED
      BY <2>1, <3>1
  <2> QED
    BY <1>0, <2>1
<1>3. \A p \in DOMAIN b : p \in DOMAIN a \/ \E r \in DOMAIN d \ {<<>>} : p = h \o r
  BY <1>0
<1>4. ASSUME NEW p \in DOMAIN b
      PROVE  p \in Position /\ \A n \in 0 .. Len(p) : SubSeq(p, 1, n) \in DOMAIN b
  <2>1. CASE p \in DOMAIN a
    BY <1>0, <2>1 DEF Shape
  <2>2. ASSUME NEW r \in DOMAIN d, p = h \o r
        PROVE  p \in Position /\ \A n \in 0 .. Len(p) : SubSeq(p, 1, n) \in DOMAIN b
    <3>1. /\ h \o r \in Position /\ Len(h) \in Nat /\ Len(r) \in Nat
          /\ Len(h \o r) = Len(h) + Len(r)
          /\ \A j \in 1 .. Len(h) : (h \o r)[j] = h[j]
          /\ \A j \in 1 .. Len(r) : (h \o r)[Len(h) + j] = r[j]
      <4>1. h \in Position /\ r \in Position
        BY <1>0, <1>1
      <4> QED
        BY <4>1, Concatenated
    <3>2. ASSUME NEW n \in 0 .. Len(h) + Len(r) PROVE SubSeq(h \o r, 1, n) \in DOMAIN b
      <4>1. /\ SubSeq(h \o r, 1, n) \in Position /\ Len(SubSeq(h \o r, 1, n)) = n
            /\ \A j \in 1 .. n : SubSeq(h \o r, 1, n)[j] = (h \o r)[j]
            /\ n \in Nat
        BY <3>1, PlaceAbove
      <4>2. CASE n <= Len(h)
        <5>1. \A j \in 1 .. n : SubSeq(h \o r, 1, n)[j] = h[j]
          BY <3>1, <4>1, <4>2
        <5>2. IsPrefix(SubSeq(h \o r, 1, n), h)
          BY <1>0, <1>1, <4>1, <4>2, <5>1, PrefixFacts
        <5> QED
          BY <1>0, <4>1, <5>2, ShapeFacts
      <4>3. CASE n > Len(h)
        <5> DEFINE m == n - Len(h)
                   s == SubSeq(r, 1, m)
        <5>1. m \in 0 .. Len(r) /\ n = Len(h) + m /\ m \in Nat
          BY <3>1, <4>3
        <5>2. s \in DOMAIN d
          BY <1>0, <5>1 DEF Shape
        <5>3. s \in Position /\ Len(s) = m /\ \A j \in 1 .. m : s[j] = r[j]
          BY <1>0, <1>1, <5>1, PlaceAbove
        <5> HIDE DEF m, s
        <5>4. /\ h \o s \in Position /\ Len(h \o s) = n
              /\ \A j \in 1 .. Len(h) : (h \o s)[j] = h[j]
              /\ \A j \in 1 .. m : (h \o s)[Len(h) + j] = r[j]
          <6>1. h \in Position /\ s \in Position
            BY <1>1, <5>3
          <6>2. /\ h \o s \in Position /\ Len(h \o s) = Len(h) + Len(s)
                /\ \A j \in 1 .. Len(h) : (h \o s)[j] = h[j]
                /\ \A j \in 1 .. Len(s) : (h \o s)[Len(h) + j] = s[j]
            BY <6>1, Concatenated
          <6> QED
            BY <5>1, <5>3, <6>2
        <5>5. ASSUME NEW j \in 1 .. n PROVE SubSeq(h \o r, 1, n)[j] = (h \o s)[j]
          <6>1. CASE j <= Len(h)
            BY <3>1, <4>1, <5>4, <6>1
          <6>2. CASE j > Len(h)
            <7>1. PICK i \in 1 .. m : j = Len(h) + i
              <8>1. j - Len(h) \in 1 .. m /\ j = Len(h) + (j - Len(h))
                BY <3>1, <5>1, <6>2
              <8> QED
                BY <8>1
            <7>2. i \in 1 .. Len(r)
              BY <3>1, <5>1
            <7> QED
              BY <3>1, <4>1, <5>4, <7>1, <7>2
          <6> QED
            <7>1. j <= Len(h) \/ j > Len(h)
              BY <3>1, <4>1
            <7> QED
              BY <6>1, <6>2, <7>1, Zenon
        <5>6. SubSeq(h \o r, 1, n) = h \o s
          BY <4>1, <5>4, <5>5, SamePlace
        <5> QED
          BY <1>2, <5>2, <5>6
      <4> QED
        BY <3>1, <4>2, <4>3
    <3> QED
      BY <2>2, <3>1, <3>2
  <2> QED
    BY <1>3, <2>1, <2>2
<1>5. Shape(DOMAIN b)
  BY <1>0, <1>4 DEF Shape
<1>6. ASSUME NEW r \in DOMAIN d PROVE Numbered(b, h \o r)
  <2>1. PICK m \in Nat : Kids(d, r) = {Append(r, k) : k \in 1 .. m}
    BY <1>0, <1>6 DEF Numbered
  <2>2. ASSUME NEW k \in 1 .. m PROVE Append(h \o r, k) \in Kids(b, h \o r)
    <3>1. Append(r, k) \in DOMAIN d
      BY <1>0, <2>1 DEF Kids
    <3>2. Append(h \o r, k) = h \o Append(r, k) /\ h \o r \in Position /\ k \in Nat
      <4>1. h \in Position /\ r \in Position /\ k \in Nat
        BY <1>0, <1>1
      <4> QED
        BY ZenonT(30), <4>1, GraftedChild, Concatenated
    <3>3. Append(h \o r, k) # <<>> /\ Front(Append(h \o r, k)) = h \o r
      BY <3>2, FrontOfChild
    <3> QED
      BY <1>0, <1>2, <3>1, <3>2, <3>3 DEF Kids
  <2>3. ASSUME NEW c \in Kids(b, h \o r) PROVE \E k \in 1 .. m : c = Append(h \o r, k)
    <3>1. c \in DOMAIN b /\ c # <<>> /\ Front(c) = h \o r /\ c \in Position
      BY <1>0, <1>5 DEF Kids, Shape
    <3>2. c \notin DOMAIN a
      <4>1. SUFFICES ASSUME c \in DOMAIN a PROVE FALSE
        OBVIOUS
      <4>2. h \o r \in DOMAIN a /\ IsPrefix(h, h \o r)
        BY ZenonT(30), <1>0, <1>1, <3>1, <4>1, ShapeFacts, Concatenated
      <4>3. h \o r = h
        BY <1>0, <1>1, <4>2, BelowChild
      <4> QED
        BY <1>0, <3>1, <4>1, <4>3 DEF Kids
    <3>3. PICK s \in DOMAIN d \ {<<>>} : c = h \o s
      BY <1>3, <3>1, <3>2
    <3>4. /\ Front(s) \in Position /\ s[Len(s)] \in Nat
          /\ s = Append(Front(s), s[Len(s)])
      BY <1>0, <1>1, FrontFacts
    <3>5. c = Append(h \o Front(s), s[Len(s)])
      <4>1. h \o Append(Front(s), s[Len(s)]) = Append(h \o Front(s), s[Len(s)])
        BY <1>0, <1>1, <3>4, GraftedChild
      <4> QED
        BY <3>3, <3>4, <4>1, Zenon
    <3>6. Front(c) = h \o Front(s)
      BY <1>0, <1>1, <3>4, <3>5, Concatenated, FrontOfChild
    <3>7. Front(s) = r
      BY <1>0, <1>1, <3>1, <3>4, <3>6, CancelPrefix
    <3>8. s \in Kids(d, r)
      BY <1>0, <3>7 DEF Kids
    <3>9. PICK k \in 1 .. m : s = Append(r, k)
      BY <2>1, <3>8
    <3>10. k \in Nat /\ r \in Position /\ h \in Position
      BY <1>0, <1>1
    <3>11. h \o Append(r, k) = Append(h \o r, k)
      BY <3>10, GraftedChild
    <3> QED
      BY <3>3, <3>9, <3>11, Zenon
  <2>4. Kids(b, h \o r) = {Append(h \o r, k) : k \in 1 .. m}
    BY <2>2, <2>3
  <2> QED
    BY <1>0, <2>4 DEF Numbered
<1>7. ASSUME NEW p \in DOMAIN a, p # h PROVE Numbered(b, p)
  <2>1. ASSUME NEW c \in Kids(b, p) PROVE c \in DOMAIN a
    <3>1. c \in DOMAIN b /\ c # <<>> /\ Front(c) = p /\ c \in Position
      BY <1>0, <1>5, <2>1 DEF Kids, Shape
    <3>2. SUFFICES ASSUME NEW s \in DOMAIN d \ {<<>>}, c = h \o s PROVE FALSE
      BY <1>3, <3>1
    <3>3. Front(s) \in Position /\ s[Len(s)] \in Nat /\ s = Append(Front(s), s[Len(s)])
      BY <1>0, <1>1, FrontFacts
    <3>4. c = Append(h \o Front(s), s[Len(s)])
      <4>1. h \o Append(Front(s), s[Len(s)]) = Append(h \o Front(s), s[Len(s)])
        BY <1>0, <1>1, <3>3, GraftedChild
      <4> QED
        BY <3>2, <3>3, <4>1, Zenon
    <3>5. p = h \o Front(s)
      BY <1>0, <1>1, <3>1, <3>3, <3>4, Concatenated, FrontOfChild
    <3>6. IsPrefix(h, p)
      BY <1>0, <1>1, <3>3, <3>5, Concatenated
    <3> QED
      BY <1>0, <1>1, <1>7, <3>6, BelowChild
  <2>2. Kids(b, p) = Kids(a, p)
    BY <1>0, <2>1 DEF Kids
  <2> QED
    BY <1>0, <2>2 DEF Numbered
<1>8. h \o <<>> = h
  BY <1>0, <1>1 DEF Position
<1>9. \A p \in DOMAIN b : Numbered(b, p)
  BY <1>3, <1>6, <1>7, <1>8
<1> QED
  BY <1>0, <1>5, <1>9 DEF IsTree

-----------------------------------------------------------------------------
(* The configuration of an element *)

\* The attributes an element has before it looks at its father, and its clones.
Own(p) ==
  IF HasDefault(job.alg[p]) THEN Merged(job.alg[p], Defaults[job.alg[p]["type"]][<<>>])
  ELSE job.alg[p]

ClonesAt(p) ==
  IF HasDefault(job.alg[p]) /\ Kids(job.alg, p) = {}
  THEN Clones(Defaults[job.alg[p]["type"]], p) ELSE <<>>

LEMMA ConfigureElementFields ==
  ASSUME JobInv, NEW t \in Threads, ConfigureElement(t), NEW h, h = Here
  PROVE  /\ job.on /\ job.step = "configure" /\ job.todo # <<>>
         /\ job'.on /\ job'.step = "configure"
         /\ job'.alg = Merged([job.alg EXCEPT ![h] = IF h \in job.linked
                                                     THEN Merged(Own(h), job.alg[Front(h)])
                                                     ELSE Own(h)], ClonesAt(h))
         /\ job'.given = Merged(job.given, ClonesAt(h))
         /\ job'.linked = job.linked \cup {q \in DOMAIN ClonesAt(h) : Front(q) = h}
         /\ job'.todo = Visit(KidSeq(job'.alg, h), Tail(job.todo))
<1>1. job.on /\ job.step = "configure" /\ job.todo # <<>> /\ job' = ConfiguredAt(h)
  BY DEF ConfigureElement, Working
<1>2. DOMAIN job = JobFields
  BY <1>1 DEF JobInv
<1> DEFINE withDefault == Own(h)
           clones == ClonesAt(h)
           all == IF h \in job.linked THEN Merged(withDefault, job.alg[Front(h)])
                                      ELSE withDefault
           alg == Merged([job.alg EXCEPT ![h] = all], clones)
           next == [job EXCEPT !.alg = alg,
                               !.given = Merged(@, clones),
                               !.linked = @ \cup {q \in DOMAIN clones : Front(q) = h},
                               !.cloned = @ \cup DOMAIN clones,
                               !.todo = Visit(KidSeq(alg, h), Tail(@))]
<1>3. job' = next
  BY <1>1 DEF ConfiguredAt, Own, ClonesAt
<1> HIDE DEF alg, clones
<1>4. /\ next.alg = alg /\ next.given = Merged(job.given, clones)
      /\ next.linked = job.linked \cup {q \in DOMAIN clones : Front(q) = h}
      /\ next.todo = Visit(KidSeq(alg, h), Tail(job.todo))
      /\ next.on = job.on /\ next.step = job.step
  BY <1>2 DEF JobFields
<1> HIDE DEF next
<1> QED
  BY <1>1, <1>3, <1>4 DEF alg, clones

\* The clones of a default are places below the element that has it.
LEMMA ClonesBelow ==
  ASSUME NEW h \in Position
  PROVE  \A q \in DOMAIN ClonesAt(h) : q \in Position /\ IsPrefix(h, q) /\ q # h /\ q # <<>>
<1>1. SUFFICES ASSUME HasDefault(job.alg[h]),
                      NEW q \in DOMAIN Clones(Defaults[job.alg[h]["type"]], h)
               PROVE  q \in Position /\ IsPrefix(h, q) /\ q # h /\ q # <<>>
  <2>1. DOMAIN <<>> = {}
    OBVIOUS
  <2> QED
    BY <2>1 DEF ClonesAt
<1> DEFINE d == Defaults[job.alg[h]["type"]]
<1>2. PICK r \in DOMAIN d \ {<<>>} : q = h \o r
  BY <1>1 DEF Clones
<1>3. r \in Position
  BY <1>1, QueryTreesAssumption DEF HasDefault, Position
<1> QED
  BY <1>2, <1>3, Concatenated

\* Requests and defaults are trees.
LEMMA RequestShape ==
  ASSUME NEW a \in Requests \cup {Defaults[y] : y \in DOMAIN Defaults}
  PROVE  /\ IsFiniteSet(DOMAIN a) /\ <<>> \in DOMAIN a
         /\ Shape(DOMAIN a) /\ \A p \in DOMAIN a : Numbered(a, p)
<1>1. IsFiniteSet(DOMAIN a) /\ <<>> \in DOMAIN a /\ Shape(DOMAIN a)
  BY QueryTreesAssumption DEF Shape, Position
<1>2. ASSUME NEW p \in DOMAIN a PROVE Numbered(a, p)
  <2>1. Kids(a, p) = {Append(p, k) : k \in 1 .. Cardinality(Kids(a, p))}
    BY QueryTreesAssumption
  <2>2. Cardinality(Kids(a, p)) \in Nat
    <3>1. Kids(a, p) \subseteq DOMAIN a
      BY DEF Kids
    <3> QED
      BY <1>1, <3>1, FS_Subset, FS_CardinalityType
  <2> QED
    BY <2>1, <2>2 DEF Numbered
<1> QED
  BY <1>1, <1>2

\* An algorithm remains a tree when it is configured.
LEMMA ShapeKept ==
  ASSUME NEW h \in DOMAIN job.alg, IsFiniteSet(DOMAIN job.alg), Shape(DOMAIN job.alg),
         \A p \in DOMAIN job.alg : Numbered(job.alg, p),
         NEW b, DOMAIN b = DOMAIN job.alg \cup DOMAIN ClonesAt(h)
  PROVE  /\ IsFiniteSet(DOMAIN b) /\ Shape(DOMAIN b)
         /\ \A p \in DOMAIN b : Numbered(b, p)
<1>1. CASE HasDefault(job.alg[h]) /\ Kids(job.alg, h) = {}
  <2> DEFINE d == Defaults[job.alg[h]["type"]]
  <2>1. d \in {Defaults[y] : y \in DOMAIN Defaults}
    BY <1>1 DEF HasDefault
  <2>2. IsTree(d) /\ <<>> \in DOMAIN d
    BY <2>1, RequestShape DEF IsTree
  <2>3. DOMAIN ClonesAt(h) = Grafts(h, d)
    BY <1>1 DEF ClonesAt, Clones, Grafts
  <2>4. IsFiniteSet(DOMAIN ClonesAt(h))
    BY <1>1, ClonesFinite DEF ClonesAt
  <2> HIDE DEF d
  <2>5. DOMAIN b = DOMAIN job.alg \cup Grafts(h, d)
    BY <2>3
  <2>6. IsTree(b)
    <3>1. IsTree(job.alg) /\ Kids(job.alg, h) = {}
      BY <1>1 DEF IsTree
    <3> QED
      BY <2>2, <2>5, <3>1, Grafted
  <2>7. IsFiniteSet(DOMAIN b)
    BY <2>4, FS_Union
  <2> QED
    BY <2>6, <2>7 DEF IsTree
<1>2. CASE ~(HasDefault(job.alg[h]) /\ Kids(job.alg, h) = {})
  <2>1. DOMAIN <<>> = {}
    OBVIOUS
  <2>2. DOMAIN b = DOMAIN job.alg
    BY <1>2, <2>1 DEF ClonesAt
  <2>3. \A p : Kids(b, p) = Kids(job.alg, p)
    BY <2>2 DEF Kids
  <2> QED
    BY <2>2, <2>3 DEF Numbered
<1> QED
  BY <1>1, <1>2

\* What an element sees is what it says itself and what its father sees.
LEMMA VisibleFacts ==
  ASSUME NEW p \in DOMAIN job.given, Shape(DOMAIN job.given), <<>> \notin job.linked
  PROVE  /\ p \in Visible(p)
         /\ \A q \in Visible(p) : q \in Position /\ IsPrefix(q, p) /\ Len(q) <= Len(p)
         /\ p \notin job.linked => Visible(p) = {p}
         /\ p \in job.linked => /\ p # <<>> /\ Front(p) \in DOMAIN job.given
                                /\ Visible(p) = {p} \cup Visible(Front(p))
<1>1. DOMAIN job.given \subseteq Position /\ p \in Position
  BY DEF Shape
<1>2. p \in Visible(p)
  <2>1. \A r \in DOMAIN job.given : ~(IsPrefix(r, p) /\ IsStrictPrefix(p, r))
    BY <1>1, PrefixOrder DEF IsStrictPrefix
  <2> QED
    BY <1>1, <2>1, PrefixOrder DEF Visible
<1>3. \A q \in Visible(p) : q \in Position /\ IsPrefix(q, p) /\ Len(q) <= Len(p)
  BY <1>1 DEF Visible, IsPrefix
<1>4. ASSUME p \notin job.linked PROVE Visible(p) = {p}
  <2>1. ASSUME NEW q \in Visible(p), q # p PROVE FALSE
    <3>1. IsPrefix(p, p) /\ IsStrictPrefix(q, p)
      BY <1>1, <2>1, PrefixOrder DEF Visible, IsStrictPrefix
    <3> QED
      BY <1>4, <2>1, <3>1 DEF Visible
  <2> QED
    BY <1>2, <2>1
<1>5. ASSUME p \in job.linked
      PROVE  /\ p # <<>> /\ Front(p) \in DOMAIN job.given
             /\ Visible(p) = {p} \cup Visible(Front(p))
  <2> DEFINE f == Front(p)
  <2>1. p # <<>> /\ f \in DOMAIN job.given
    BY <1>5, ShapeFacts
  <2>2. \A q \in DOMAIN job.given : IsPrefix(q, p) <=> q = p \/ IsPrefix(q, f)
    BY <1>1, <2>1, PrefixOfFront
  <2>3. ~IsPrefix(p, f)
    <3>1. Len(f) = Len(p) - 1 /\ Len(p) \in Nat
      BY <1>1, <2>1, FrontFacts
    <3> QED
      BY <3>1 DEF IsPrefix
  <2> HIDE DEF f
  <2>4. ASSUME NEW q \in Visible(f) PROVE q \in Visible(p)
    <3>1. ASSUME NEW r \in DOMAIN job.given, IsPrefix(r, p), IsStrictPrefix(q, r)
          PROVE  r \in job.linked
      BY <1>5, <2>2, <2>4, <3>1 DEF Visible
    <3> QED
      BY <2>2, <2>4, <3>1 DEF Visible
  <2>5. ASSUME NEW q \in Visible(p), q # p PROVE q \in Visible(f)
    BY <2>2, <2>5 DEF Visible
  <2> QED
    BY <1>2, <2>1, <2>4, <2>5 DEF f
<1> QED
  BY <1>2, <1>3, <1>4, <1>5

\* An element that has its default's values, and then its father's, is right if its
\* father was.
LEMMA FatherGives ==
  ASSUME NEW p \in DOMAIN job.given, Shape(DOMAIN job.given), <<>> \notin job.linked,
         job.alg[p] = job.given[p], p \in job.linked => Inherits(Front(p)),
         NEW x, x = IF p \in job.linked THEN Merged(Own(p), job.alg[Front(p)]) ELSE Own(p)
  PROVE  Inherited(p, x)
<1>1. \A name : /\ name \in DOMAIN Own(p) <=> Says(p, name)
                /\ name \in DOMAIN Own(p) => Own(p)[name] = Said(p, name)
  BY DEF Own, Says, Said, Merged
<1>2. /\ p \in Visible(p) /\ \A q \in Visible(p) : Len(q) <= Len(p)
      /\ p \notin job.linked => Visible(p) = {p}
      /\ p \in job.linked => Visible(p) = {p} \cup Visible(Front(p))
  BY VisibleFacts
<1> SUFFICES ASSUME NEW name \in Attribute
             PROVE  IF name \in DOMAIN x
                    THEN \E q \in Visible(p) : NearestSaying(p, q, name) /\ x[name] = Said(q, name)
                    ELSE \A q \in Visible(p) : ~Says(q, name)
  BY DEF Inherited
<1>3. CASE Says(p, name)
  <2>1. name \in DOMAIN x /\ x[name] = Own(p)[name]
    BY <1>1, <1>3 DEF Merged
  <2>2. NearestSaying(p, p, name)
    BY <1>2, <1>3 DEF NearestSaying
  <2> QED
    BY <1>1, <1>2, <1>3, <2>1, <2>2
<1>4. CASE ~Says(p, name) /\ p \notin job.linked
  BY <1>1, <1>2, <1>4
<1>5. CASE ~Says(p, name) /\ p \in job.linked
  <2> DEFINE f == Front(p)
  <2>1. /\ name \in DOMAIN x <=> name \in DOMAIN job.alg[f]
        /\ name \in DOMAIN x => x[name] = job.alg[f][name]
    BY <1>1, <1>5 DEF Merged
  <2>2. IF name \in DOMAIN job.alg[f]
        THEN \E q \in Visible(f) : NearestSaying(f, q, name) /\ job.alg[f][name] = Said(q, name)
        ELSE \A q \in Visible(f) : ~Says(q, name)
    BY <1>5 DEF Inherits, Inherited
  <2>3. CASE name \in DOMAIN job.alg[f]
    <3>1. PICK q \in Visible(f) : NearestSaying(f, q, name) /\ job.alg[f][name] = Said(q, name)
      BY <2>2, <2>3
    <3>2. NearestSaying(p, q, name)
      BY <1>2, <1>5, <3>1 DEF NearestSaying
    <3> QED
      BY <2>1, <2>3, <3>1, <3>2 DEF NearestSaying
  <2>4. CASE name \notin DOMAIN job.alg[f]
    BY <1>2, <1>5, <2>1, <2>2, <2>4
  <2> QED
    BY <2>3, <2>4
<1> QED
  BY <1>3, <1>4, <1>5

\* What an element above or beside h sees stays what it is.
LEMMA VisibleStays ==
  ASSUME NEW h \in Position, Shape(DOMAIN job.given), NEW C,
         \A q \in DOMAIN C : q \in Position /\ IsPrefix(h, q) /\ q # h,
         job'.given = Merged(job.given, C),
         job'.linked = job.linked \cup {q \in DOMAIN C : Front(q) = h},
         NEW p \in DOMAIN job.given, ~(IsPrefix(h, p) /\ p # h)
  PROVE  /\ Visible(p)' = Visible(p)
         /\ \A q \in Visible(p) : \A name : /\ Says(q, name)' <=> Says(q, name)
                                            /\ Said(q, name)' = Said(q, name)
<1>1. p \in Position
  BY DEF Shape
<1>2. /\ DOMAIN job'.given = DOMAIN job.given \cup DOMAIN C
      /\ \A q \in DOMAIN job.given : job'.given[q] = job.given[q]
  BY DEF Merged
<1>3. ASSUME NEW r \in DOMAIN C, IsPrefix(r, p) PROVE FALSE
  <2>1. IsPrefix(h, p)
    BY <1>1, <1>3, PrefixOrder
  <2>2. p = h
    BY <2>1
  <2> QED
    BY <1>3, <2>2, PrefixOrder
<1>4. \A r : IsPrefix(r, p) => /\ r \in DOMAIN job'.given <=> r \in DOMAIN job.given
                               /\ r \in job'.linked <=> r \in job.linked
  BY <1>2, <1>3
<1>5. Visible(p)' = Visible(p)
  BY <1>4 DEF Visible
<1>6. \A q \in Visible(p) : q \in DOMAIN job.given
  BY DEF Visible
<1> QED
  BY <1>2, <1>5, <1>6 DEF Says, Said, HasDefault

\* The visits v begin with the n children of h, and go on with the rest.
Continues(v, rest, h, n) ==
  /\ v \in Seq(TodoType) /\ DOMAIN v = 1 .. n + Len(rest)
  /\ \A i \in 1 .. n : IsChild(v[i].pos, h, i) /\ v[i].pos = Append(h, i)
  /\ \A i \in 1 .. Len(rest) : v[n + i] = rest[i]

LEMMA ChildrenFirst ==
  ASSUME NEW b, NEW h \in Position, NEW n \in Nat, n = Cardinality(Kids(b, h)),
         NEW rest \in Seq(TodoType), NEW v, v = Visit(KidSeq(b, h), rest)
  PROVE  Continues(v, rest, h, n)
<1>1. v \in Seq(TodoType) /\ DOMAIN v = 1 .. n + Len(rest)
  BY VisitFacts
<1>2. \A i \in 1 .. n : v[i].pos \in Position /\ IsChild(v[i].pos, h, i)
  BY VisitFacts
<1>3. \A i \in 1 .. Len(rest) : v[n + i] = rest[i]
  BY SMTT(30), VisitFacts
<1>4. \A i \in 1 .. n : v[i].pos = Append(h, i)
  BY <1>2, OnlyChild
<1> QED
  BY <1>1, <1>2, <1>3, <1>4 DEF Continues

\* An element is configured: it is right from now on, its children are next.
LEMMA ConfigureElementInherits ==
  ASSUME JobInv, ConfigureInv, NEW t \in Threads, ConfigureElement(t)
  PROVE  ConfigureInv'
<1> PICK h : h = Here
  OBVIOUS
<1> PICK x : x = IF h \in job.linked THEN Merged(Own(h), job.alg[Front(h)]) ELSE Own(h)
  OBVIOUS
<1> DEFINE C == ClonesAt(h)
           n == Cardinality(Kids(job'.alg, h))
<1>1. /\ job.on /\ job.step = "configure" /\ job.todo # <<>>
      /\ job'.on /\ job'.step = "configure"
      /\ job'.alg = Merged([job.alg EXCEPT ![h] = x], C)
      /\ job'.given = Merged(job.given, C)
      /\ job'.linked = job.linked \cup {q \in DOMAIN C : Front(q) = h}
      /\ job'.todo = Visit(KidSeq(job'.alg, h), Tail(job.todo))
  BY ConfigureElementFields
<1>2. /\ DOMAIN job.given = DOMAIN job.alg /\ IsFiniteSet(DOMAIN job.alg)
      /\ Shape(DOMAIN job.alg) /\ \A p \in DOMAIN job.alg : Numbered(job.alg, p)
      /\ job.todo \in Seq(TodoType)
      /\ \A i \in DOMAIN job.todo : job.todo[i].pos \in DOMAIN job.alg
      /\ \A i, j \in DOMAIN job.todo : i < j => LeftOf(job.todo[i].pos, job.todo[j].pos)
      /\ <<>> \notin job.linked
      /\ \A p \in DOMAIN job.alg : IF Pending(p) THEN job.alg[p] = job.given[p] ELSE Inherits(p)
  BY <1>1 DEF ConfigureInv
<1>3. /\ Len(job.todo) \in Nat \ {0} /\ DOMAIN job.todo = 1 .. Len(job.todo)
      /\ Tail(job.todo) \in Seq(TodoType) /\ Len(Tail(job.todo)) = Len(job.todo) - 1
      /\ \A i \in 1 .. Len(job.todo) - 1 : Tail(job.todo)[i] = job.todo[i + 1]
      /\ job.todo[1].pos = h
  <2>1. job.todo \in Seq(TodoType) /\ job.todo # <<>>
    BY <1>1, <1>2
  <2> QED
    BY <2>1 DEF Here
<1>4. h \in DOMAIN job.alg /\ h \in Position
  BY <1>2, <1>3 DEF Shape
<1>5. \A q \in DOMAIN C : q \in Position /\ IsPrefix(h, q) /\ q # h /\ q # <<>>
  BY <1>4, ClonesBelow
<1>6. /\ DOMAIN job'.alg = DOMAIN job.alg \cup DOMAIN C
      /\ DOMAIN job'.given = DOMAIN job'.alg
      /\ job'.alg[h] = x
      /\ \A p \in DOMAIN job.alg : /\ p # h => job'.alg[p] = job.alg[p]
                                   /\ job'.given[p] = job.given[p]
      /\ \A p \in DOMAIN job'.alg : p \notin DOMAIN job.alg => job'.alg[p] = job'.given[p]
  BY <1>1, <1>2, <1>4 DEF Merged
<1>7. /\ IsFiniteSet(DOMAIN job'.alg) /\ Shape(DOMAIN job'.alg)
      /\ \A p \in DOMAIN job'.alg : Numbered(job'.alg, p)
  <2> SUFFICES ASSUME NEW b, b = job'.alg
               PROVE  /\ IsFiniteSet(DOMAIN b) /\ Shape(DOMAIN b)
                      /\ \A p \in DOMAIN b : Numbered(b, p)
    OBVIOUS
  <2> QED
    BY <1>2, <1>4, <1>6, ShapeKept
<1>8. /\ n \in Nat /\ Kids(job'.alg, h) = {Append(h, k) : k \in 1 .. n}
  <2>1. PICK l \in Nat : Kids(job'.alg, h) = {Append(h, k) : k \in 1 .. l}
    <3>1. h \in DOMAIN job'.alg
      BY <1>4, <1>6
    <3>2. Numbered(job'.alg, h)
      BY <1>7, <3>1
    <3> QED
      BY <3>2, Zenon DEF Numbered
  <2> QED
    BY <1>4, <2>1, CountNumbered
<1> HIDE DEF C, n
<1>9. PICK v \in Seq(TodoType) :
        /\ v = job'.todo /\ DOMAIN v = 1 .. n + (Len(job.todo) - 1)
        /\ \A i \in 1 .. n : IsChild(v[i].pos, h, i) /\ v[i].pos = Append(h, i)
        /\ \A i \in 1 .. Len(job.todo) - 1 : v[n + i] = job.todo[i + 1]
  <2>1. n = Cardinality(Kids(job'.alg, h))
    BY DEF n
  <2>2. Continues(job'.todo, Tail(job.todo), h, n)
    BY <1>1, <1>3, <1>4, <1>8, <2>1, ChildrenFirst, ZenonT(30)
  <2> QED
    BY <1>3, <2>2 DEF Continues
<1>10. \A j \in DOMAIN v :
         \/ j \in 1 .. n
         \/ \E i \in 1 .. Len(job.todo) - 1 : j = n + i /\ i + 1 \in DOMAIN job.todo
  <2> SUFFICES ASSUME NEW j \in DOMAIN v, j \notin 1 .. n
               PROVE  \E i \in 1 .. Len(job.todo) - 1 : j = n + i /\ i + 1 \in DOMAIN job.todo
    OBVIOUS
  <2>1. /\ j - n \in 1 .. Len(job.todo) - 1 /\ j = n + (j - n)
        /\ (j - n) + 1 \in DOMAIN job.todo
    BY <1>3, <1>8, <1>9
  <2> QED
    BY <2>1
<1>11. ASSUME NEW j \in DOMAIN v PROVE v[j].pos \in DOMAIN job'.alg /\ v[j].pos \in Position
  <2>1. CASE j \in 1 .. n
    BY <1>7, <1>8, <1>9, <2>1 DEF Kids, Shape
  <2>2. ASSUME NEW i \in 1 .. Len(job.todo) - 1, j = n + i, i + 1 \in DOMAIN job.todo
        PROVE  v[j].pos \in DOMAIN job'.alg /\ v[j].pos \in Position
    BY <1>2, <1>6, <1>7, <1>9, <2>2 DEF Shape
  <2> QED
    BY <1>10, <2>1, <2>2
<1>12. ASSUME NEW i \in DOMAIN v, NEW j \in DOMAIN v, i < j
       PROVE  LeftOf(v[i].pos, v[j].pos)
  <2>0. i \in Nat /\ j \in Nat
    BY <1>3, <1>8, <1>9
  <2>1. CASE i \in 1 .. n /\ j \in 1 .. n
    BY <1>4, <1>9, <1>12, <2>0, <2>1, Siblings
  <2>2. ASSUME i \in 1 .. n,
               NEW k \in 1 .. Len(job.todo) - 1, j = n + k, k + 1 \in DOMAIN job.todo
        PROVE  LeftOf(v[i].pos, v[j].pos)
    <3>1. LeftOf(h, job.todo[k + 1].pos) /\ job.todo[k + 1].pos \in Position
      <4>1. 1 \in DOMAIN job.todo /\ 1 < k + 1
        BY <1>3, <2>2
      <4> QED
        BY <1>2, <1>3, <2>2, <4>1 DEF Shape
    <3>2. IsChild(v[i].pos, h, i) /\ v[j] = job.todo[k + 1]
      BY <1>9, <2>2
    <3> QED
      BY <1>4, <2>0, <3>1, <3>2, ChildrenStayLeft
  <2>3. ASSUME NEW l \in 1 .. Len(job.todo) - 1, i = n + l, l + 1 \in DOMAIN job.todo,
               NEW k \in 1 .. Len(job.todo) - 1, j = n + k, k + 1 \in DOMAIN job.todo
        PROVE  LeftOf(v[i].pos, v[j].pos)
    <3>1. l + 1 < k + 1
      BY <1>8, <1>12, <2>3
    <3> QED
      BY <1>2, <1>9, <2>3, <3>1
  <2>4. i \notin 1 .. n => j \notin 1 .. n
    BY <1>8, <1>12, <2>0
  <2> QED
    BY <1>10, <2>1, <2>2, <2>3, <2>4
<1>13. ASSUME NEW p \in DOMAIN job'.alg, IsPrefix(h, p), p # h
       PROVE  Pending(p)' /\ job'.alg[p] = job'.given[p]
  <2>1. \E c \in Kids(job'.alg, h) : IsPrefix(c, p)
    <3> SUFFICES ASSUME NEW b, b = job'.alg PROVE \E c \in Kids(b, h) : IsPrefix(c, p)
      OBVIOUS
    <3> QED
      BY <1>4, <1>7, <1>13, BelowChild
  <2>2. PICK i \in 1 .. n : IsPrefix(v[i].pos, p)
    BY <1>8, <1>9, <2>1
  <2>3. i \in DOMAIN v
    BY <1>3, <1>8, <1>9, <2>2
  <2>4. Pending(p)'
    BY <1>9, <2>2, <2>3 DEF Pending
  <2>5. CASE p \in DOMAIN job.alg
    <3>1. Pending(p)
      <4>1. 1 \in DOMAIN job.todo
        BY <1>3
      <4> QED
        BY <1>3, <1>13, <4>1 DEF Pending
    <3> QED
      BY <1>2, <1>6, <1>13, <2>4, <2>5, <3>1
  <2>6. CASE p \notin DOMAIN job.alg
    BY <1>6, <2>4, <2>6
  <2> QED
    BY <2>5, <2>6
<1>14. ASSUME NEW p \in DOMAIN job'.alg, ~(IsPrefix(h, p) /\ p # h)
       PROVE  /\ p \in DOMAIN job.alg /\ p \in Position
              /\ p # h => (Pending(p)' <=> Pending(p))
              /\ \A q \in Position : IsPrefix(q, h) => ~Pending(q)'
              /\ \A q \in Position : IsPrefix(q, h) /\ q # h => ~Pending(q)
  <2>1. p \in DOMAIN job.alg /\ p \in Position
    BY <1>5, <1>6, <1>7, <1>14 DEF Shape
  <2>2. ASSUME NEW j \in DOMAIN v, IsPrefix(v[j].pos, p)
        PROVE  \E i \in 1 .. Len(job.todo) - 1 : j = n + i /\ i + 1 \in DOMAIN job.todo
    <3>1. SUFFICES ASSUME j \in 1 .. n PROVE FALSE
      BY <1>10
    <3>2. v[j].pos \in Position /\ h # v[j].pos /\ Front(v[j].pos) = h /\ v[j].pos # <<>>
      <4>1. v[j].pos = Append(h, j) /\ v[j].pos # h
        BY <1>9, <3>1 DEF IsChild
      <4>2. v[j].pos \in Kids(job'.alg, h)
        BY <1>8, <3>1, <4>1, Zenon
      <4> QED
        BY <1>11, <2>2, <4>1, <4>2 DEF Kids
    <3>3. IsPrefix(h, v[j].pos)
      BY <1>4, <3>2, PrefixOfFront, PrefixOrder
    <3>4. IsPrefix(h, p)
      BY <1>4, <2>1, <2>2, <3>2, <3>3, PrefixOrder
    <3>5. p = h
      BY <1>14, <3>4
    <3> QED
      BY <1>4, <2>2, <3>2, <3>3, <3>5, PrefixOrder
  <2>3. Pending(p)' => Pending(p)
    <3> SUFFICES ASSUME NEW j \in DOMAIN v, IsPrefix(v[j].pos, p) PROVE Pending(p)
      BY <1>9 DEF Pending
    <3>1. PICK i \in 1 .. Len(job.todo) - 1 : j = n + i /\ i + 1 \in DOMAIN job.todo
      BY <2>2
    <3> QED
      BY <1>9, <3>1 DEF Pending
  <2>4. p # h /\ Pending(p) => Pending(p)'
    <3> SUFFICES ASSUME p # h, NEW j \in DOMAIN job.todo, IsPrefix(job.todo[j].pos, p)
                 PROVE  Pending(p)'
      BY DEF Pending
    <3>1. j # 1
      BY <1>3, <1>14
    <3>2. j - 1 \in 1 .. Len(job.todo) - 1 /\ (j - 1) + 1 = j /\ n + (j - 1) \in DOMAIN v
      <4>1. j \in 2 .. Len(job.todo) /\ Len(job.todo) \in Nat /\ n \in Nat
        BY <1>3, <1>8, <3>1
      <4>2. j - 1 \in 1 .. Len(job.todo) - 1 /\ (j - 1) + 1 = j
            /\ n + (j - 1) \in 1 .. n + (Len(job.todo) - 1)
        BY <4>1
      <4> QED
        BY <1>9, <4>2
    <3>3. v[n + (j - 1)] = job.todo[j]
      BY <1>9, <3>2
    <3> QED
      BY <1>9, <3>2, <3>3 DEF Pending
  <2>5. ASSUME NEW q \in Position, IsPrefix(q, h), NEW j \in 1 .. Len(job.todo) - 1,
               IsPrefix(job.todo[j + 1].pos, q), j + 1 \in DOMAIN job.todo
        PROVE  FALSE
    <3>1. 1 \in DOMAIN job.todo /\ 1 < j + 1
      BY <1>3
    <3>2. LeftOf(h, job.todo[j + 1].pos) /\ job.todo[j + 1].pos \in Position
      BY <1>2, <1>3, <2>5, <3>1 DEF Shape
    <3> QED
      BY <1>4, <2>5, <3>2, PrefixOrder
  <2>6. ASSUME NEW q \in Position, IsPrefix(q, h), Pending(q)' PROVE FALSE
    <3>1. PICK j \in DOMAIN v : IsPrefix(v[j].pos, q)
      BY <1>9, <2>6 DEF Pending
    <3>2. CASE j \in 1 .. n
      <4>1. v[j].pos \in Position /\ Len(v[j].pos) = Len(h) + 1 /\ Len(h) \in Nat
        BY <1>9, <3>2 DEF IsChild
      <4>2. IsPrefix(v[j].pos, h)
        BY <1>4, <2>6, <3>1, <4>1, PrefixOrder
      <4> QED
        BY <4>1, <4>2 DEF IsPrefix
    <3>3. ASSUME NEW i \in 1 .. Len(job.todo) - 1, j = n + i, i + 1 \in DOMAIN job.todo
          PROVE  FALSE
      BY <1>9, <2>5, <2>6, <3>1, <3>3
    <3> QED
      BY <1>10, <3>2, <3>3
  <2>7. ASSUME NEW q \in Position, IsPrefix(q, h), q # h, Pending(q) PROVE FALSE
    <3>1. PICK j \in DOMAIN job.todo : IsPrefix(job.todo[j].pos, q)
      BY <2>7 DEF Pending
    <3>2. CASE j = 1
      BY <1>3, <1>4, <2>7, <3>1, <3>2, PrefixOrder
    <3>3. CASE j # 1
      <4>1. j - 1 \in 1 .. Len(job.todo) - 1 /\ (j - 1) + 1 = j
        BY <1>3, <3>3
      <4> QED
        BY <2>5, <2>7, <3>1, <4>1
    <3> QED
      BY <3>2, <3>3
  <2> QED
    BY <2>1, <2>3, <2>4, <2>6, <2>7
<1>15. ASSUME NEW p \in DOMAIN job'.alg, ~(IsPrefix(h, p) /\ p # h)
       PROVE  \A y : Inherited(p, y)' <=> Inherited(p, y)
  <2>1. p \in DOMAIN job.given
    BY <1>2, <1>14, <1>15
  <2>2. /\ Visible(p)' = Visible(p)
        /\ \A q \in Visible(p) : \A name : /\ Says(q, name)' <=> Says(q, name)
                                           /\ Said(q, name)' = Said(q, name)
    BY <1>1, <1>2, <1>4, <1>5, <1>15, <2>1, VisibleStays
  <2> QED
    BY <2>2 DEF Inherited, NearestSaying
<1>16. Inherited(h, x)
  <2>1. Pending(h) /\ job.alg[h] = job.given[h]
    <3>1. 1 \in DOMAIN job.todo /\ IsPrefix(job.todo[1].pos, h)
      BY <1>3, <1>4, PrefixOrder
    <3>2. Pending(h)
      BY <3>1 DEF Pending
    <3> QED
      BY <1>2, <1>4, <3>2
  <2>2. ASSUME h \in job.linked PROVE Inherits(Front(h))
    <3>1. h # <<>> /\ Front(h) \in DOMAIN job.alg /\ Front(h) \in Position /\ Front(h) # h
      BY <1>2, <1>4, <2>2, VisibleFacts, FrontFacts
    <3>2. IsPrefix(Front(h), h)
      BY <1>4, <3>1, PrefixOfFront, PrefixOrder
    <3>3. ~Pending(Front(h))
      BY <1>4, <1>6, <1>14, <3>1, <3>2
    <3> QED
      BY <1>2, <3>1, <3>3
  <2> QED
    BY <1>2, <1>4, <2>1, <2>2, FatherGives
<1>17. ASSUME NEW p \in DOMAIN job'.alg
       PROVE  IF Pending(p)' THEN job'.alg[p] = job'.given[p] ELSE Inherits(p)'
  <2>1. CASE IsPrefix(h, p) /\ p # h
    BY <1>13, <2>1
  <2>2. CASE p = h
    <3>1. ~Pending(h)'
      BY <1>4, <1>14, <2>2, PrefixOrder
    <3>2. Inherited(h, x)'
      BY <1>15, <1>16, <2>2
    <3> QED
      BY <1>6, <2>2, <3>1, <3>2 DEF Inherits
  <2>3. CASE ~IsPrefix(h, p)
    <3>1. /\ p \in DOMAIN job.alg /\ p # h /\ (Pending(p)' <=> Pending(p))
          /\ job'.alg[p] = job.alg[p] /\ job'.given[p] = job.given[p]
      BY <1>4, <1>6, <1>14, <2>3, PrefixOrder
    <3>2. Inherits(p) => Inherits(p)'
      BY <1>15, <2>3, <3>1 DEF Inherits
    <3> QED
      BY <1>2, <3>1, <3>2
  <2> QED
    BY <2>1, <2>2, <2>3
<1>18. <<>> \notin job'.linked
  BY <1>1, <1>2, <1>5
<1> QED
  BY <1>1, <1>6, <1>7, <1>9, <1>11, <1>12, <1>17, <1>18 DEF ConfigureInv

-----------------------------------------------------------------------------
(* The theorem *)

\* Building does not change the algorithm.
LEMMA BuildingFields ==
  ASSUME JobInv, NEW t \in Threads,
         StartBuild(t) \/ EnterNode(t) \/ (Constructing(t) /\ job' = NodeDone)
  PROVE  /\ job.on /\ job'.on /\ job'.step = "build"
         /\ job'.alg = job.alg /\ job'.given = job.given /\ job'.linked = job.linked
<1>1. job.on /\ DOMAIN job = JobFields
  BY DEF JobInv, StartBuild, EnterNode, Constructing, Working
<1>2. CASE StartBuild(t)
  BY <1>1, <1>2, StartBuildJob DEF StartBuild, JobGoesOn, JobFields
<1>3. CASE EnterNode(t)
  BY <1>1, <1>3, EnterNodeJob DEF EnterNode, JobGoesOn, JobFields
<1>4. CASE Constructing(t) /\ job' = NodeDone
  BY <1>1, <1>4, NodeDoneJob DEF NodeDone, JobGoesOn, JobFields
<1> QED
  BY <1>2, <1>3, <1>4

LEMMA SameAlgorithm ==
  ASSUME job'.alg = job.alg, job'.given = job.given, job'.linked = job.linked, NEW p
  PROVE  Inherits(p)' <=> Inherits(p)
<1>1. Visible(p)' = Visible(p)
  BY DEF Visible
<1>2. \A q, name : (Says(q, name)' <=> Says(q, name)) /\ Said(q, name)' = Said(q, name)
  BY DEF Says, Said, HasDefault
<1> QED
  BY <1>1, <1>2 DEF Inherits, Inherited, NearestSaying

\* Nothing of a request has been visited when it arrives.
LEMMA BegunInherits ==
  ASSUME NEW t, NEW s, NEW a \in Requests, job' = Begun(t, s, a)
  PROVE  ConfigureInv'
<1>1. /\ job'.given = a /\ job'.alg = a /\ job'.linked = DOMAIN a \ {<<>>}
      /\ job'.todo = <<[pos |-> <<>>, leave |-> FALSE]>> /\ job'.step = "configure"
  BY DEF Begun
<1>2. /\ IsFiniteSet(DOMAIN a) /\ <<>> \in DOMAIN a
      /\ Shape(DOMAIN a) /\ \A p \in DOMAIN a : Numbered(a, p)
  BY RequestShape
<1>3. /\ job'.todo \in Seq(TodoType) /\ DOMAIN job'.todo = {1} /\ job'.todo[1].pos = <<>>
  <2>1. [pos |-> <<>>, leave |-> FALSE] \in TodoType
    BY DEF TodoType, Position
  <2> QED
    BY <1>1, <2>1
<1>4. ASSUME NEW p \in DOMAIN a PROVE Pending(p)'
  <2>1. p \in Position /\ <<>> \in Position /\ Len(<<>>) = 0 /\ Len(p) >= 0
    BY <1>2, <1>4 DEF Shape, Position
  <2>2. IsPrefix(<<>>, p)
    BY <2>1, PrefixFacts
  <2> QED
    BY <1>3, <2>2 DEF Pending
<1> QED
  BY <1>1, <1>2, <1>3, <1>4 DEF ConfigureInv

LEMMA ConfigureKeeps == JobInv /\ ConfigureInv /\ [Next]_vars => ConfigureInv'
<1> SUFFICES ASSUME JobInv, ConfigureInv, [Next]_vars PROVE ConfigureInv'
  OBVIOUS
<1>1. CASE UNCHANGED job
  <2>1. \A p : (Inherits(p)' <=> Inherits(p)) /\ (Pending(p)' <=> Pending(p))
    BY <1>1, SameAlgorithm DEF Pending
  <2> QED
    BY <1>1, <2>1 DEF ConfigureInv
<1>2. CASE job' = Nobody
  BY <1>2 DEF ConfigureInv, Nobody
<1>3. ASSUME NEW t \in Threads, NEW s \in Sessions, NEW a \in Requests, SetAlgorithm(t, s, a)
      PROVE  ConfigureInv'
  BY <1>1, <1>3, BegunInherits DEF SetAlgorithm
<1>4. ASSUME NEW t \in Threads, ConfigureElement(t) PROVE ConfigureInv'
  BY <1>4, ConfigureElementInherits
<1>5. ASSUME NEW t \in Threads,
             StartBuild(t) \/ EnterNode(t) \/ (Constructing(t) /\ job' = NodeDone)
      PROVE  ConfigureInv'
  <2>1. /\ job.on /\ job'.on /\ job'.step = "build"
        /\ job'.alg = job.alg /\ job'.given = job.given /\ job'.linked = job.linked
    BY <1>5, BuildingFields
  <2>2. ASSUME NEW p \in DOMAIN job.alg PROVE Inherits(p)
    <3>1. job.step = "configure" => ~Pending(p)
      <4>1. job.step = "configure" => job.todo = <<>>
        BY <1>5 DEF StartBuild, EnterNode, Constructing, Working
      <4> QED
        BY <4>1 DEF Pending
    <3> QED
      BY <2>1, <3>1 DEF ConfigureInv
  <2>3. \A p \in DOMAIN job'.alg : Inherits(p)'
    BY <2>1, <2>2, SameAlgorithm
  <2> QED
    BY <2>1, <2>3 DEF ConfigureInv
<1> QED
  BY <1>1, <1>2, <1>3, <1>4, <1>5
  DEF Next, vars, Scan, DeleteSession, ConfigureCrashes, ReuseAccessor, MakeAccessor,
      AccessorThrows, HierarchyThrows, NullAccessor, Refuse, Finish, Throw

\* Whatever algorithm is sent, and whatever defaults it is completed with, every attribute
\* has the value the nearest element gives it when the tree is built: no element is
\* configured before its father, none twice, and none is left out.
THEOREM Inheritance == Spec => []InheritsFromNearest
<1>1. Init => JobInv /\ ConfigureInv
  BY DEF Init, Nobody, JobInv, ConfigureInv
<1>2. JobInv /\ ConfigureInv /\ [Next]_vars => JobInv' /\ ConfigureInv'
  BY JobsKeep, ConfigureKeeps
<1>3. ConfigureInv => InheritsFromNearest
  <2> SUFFICES ASSUME ConfigureInv, job.on, job.step = "build",
                      NEW p \in DOMAIN job.alg, NEW name \in Attribute
               PROVE  LET from == {q \in Visible(p) : Says(q, name)} IN
                      IF from = {} THEN name \notin DOMAIN job.alg[p]
                      ELSE LET nearest == CHOOSE q \in from : \A r \in from : Len(r) <= Len(q) IN
                           /\ name \in DOMAIN job.alg[p]
                           /\ job.alg[p][name] = Said(nearest, name)
    BY DEF InheritsFromNearest
  <2> DEFINE from == {q \in Visible(p) : Says(q, name)}
             nearest == CHOOSE q \in from : \A r \in from : Len(r) <= Len(q)
  <2>1. /\ Shape(DOMAIN job.given) /\ p \in DOMAIN job.given /\ Inherits(p)
    BY DEF ConfigureInv
  <2>2. IF name \in DOMAIN job.alg[p]
        THEN \E q \in Visible(p) : NearestSaying(p, q, name) /\ job.alg[p][name] = Said(q, name)
        ELSE from = {}
    BY <2>1 DEF Inherits, Inherited
  <2>3. CASE from = {}
    BY <2>2, <2>3 DEF NearestSaying
  <2>4. CASE from # {}
    <3>1. PICK q \in Visible(p) : NearestSaying(p, q, name) /\ job.alg[p][name] = Said(q, name)
      BY <2>2, <2>4
    <3>2. q \in from /\ \A r \in from : Len(r) <= Len(q)
      BY <3>1 DEF NearestSaying
    <3>3. nearest \in from /\ \A r \in from : Len(r) <= Len(nearest)
      BY <3>2
    <3>4. Len(nearest) = Len(q)
      <4>1. \A r \in from : Len(r) \in Nat
        BY <2>1 DEF Visible, Shape, Position
      <4> QED
        BY <3>2, <3>3, <4>1
    <3>5. nearest = q
      BY <2>1, <3>2, <3>3, <3>4, SamePrefix DEF Visible, Shape
    <3> QED
      BY <2>2, <2>4, <3>1, <3>5
  <2> QED
    BY <2>3, <2>4
<1> QED
  BY <1>1, <1>2, <1>3, PTL DEF Spec
=============================================================================
