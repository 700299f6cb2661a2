------------------------ MODULE CollectionIndexingProofs ------------------------
(***************************************************************************)
(* Theorems about CollectionIndexing: what a run of gift-add-collection    *)
(* completes, and what it rescues, for every directory of images and any   *)
(* number of runs and kills.                                               *)
(***************************************************************************)
EXTENDS CollectionIndexing, TLAPS

-----------------------------------------------------------------------------
(* The inductive invariant *)

\* The phases of a run at work on one image, and those after the last image.
AtImage == phase \in {"copy", "describe", "describing", "tag"}
AfterImages == ~removing /\ phase \in {"generate", "rescue", "parse", "print", "done"}

\* Phases belong to one of the two kinds of runs, or to both.
PhaseInv ==
  /\ AtImage \/ phase \in {"image", "generate", "done"} => ~removing
  /\ AtImage => at <= Len(Images)
  /\ AfterImages => at = Len(Images) + 1

\* A feature file is cut while it is copied; otherwise something is torn.
FtsInv ==
  ~torn =>
    /\ \A i \in ToSet(Images) : fts[i] = "cut" => phase = "copy" /\ i = Images[at]
    /\ phase \in {"describe", "describing"} => fts[Images[at]] = "whole"
    /\ phase = "tag" /\ Images[at] \in Extractable => fts[Images[at]] = "whole"

\* Feature files come with descriptions, except just after the first copy of a run.
DescInv ==
  ~torn =>
    /\ phase = "describing" => ~count
    /\ count => desc = "whole"
    /\ \/ desc = "whole"
       \/ phase = "describing"
       \/ phase = "describe" /\ ~count
       \/ \A i \in ToSet(Images) : fts[i] \in {"none", "cut"}

\* url2fts.xml has the images that have been visited and can be read.
ListInv ==
  AtImage \/ phase = "image" \/ AfterImages =>
    /\ IsInjective(url2fts)
    /\ \A j \in DOMAIN url2fts : \E k \in 1 .. at - 1 : url2fts[j] = Images[k]
    /\ \A k \in 1 .. at - 1 :
         Images[k] \in Convertible => \E j \in DOMAIN url2fts : url2fts[j] = Images[k]
    /\ ~torn => \A j \in DOMAIN url2fts :
                  url2fts[j] \in Extractable => fts[url2fts[j]] = "whole"

\* The index is as old as the feature files.
IndexInv == AfterImages /\ phase # "generate" => index = fts

\* What is parsed has been copied.
RescueInv ==
  /\ phase = "parse" => old = config
  /\ phase = "print" => old = "whole"

IInv ==
  /\ TypeOK
  /\ PhaseInv /\ FtsInv /\ DescInv /\ ListInv /\ IndexInv /\ RescueInv
-----------------------------------------------------------------------------
(* Images and the list of them *)

\* The image at work is one of the collection, and is at one place only.
LEMMA ImageFacts ==
  /\ Len(Images) \in Nat
  /\ DOMAIN Images = 1 .. Len(Images)
  /\ \A k \in 1 .. Len(Images) : Images[k] \in ToSet(Images)
  /\ \A i \in ToSet(Images) : \E k \in 1 .. Len(Images) : i = Images[k]
  /\ \A j, k \in 1 .. Len(Images) : Images[j] = Images[k] => j = k
<1>1. Images \in Seq(ToSet(Images))
  BY CollectionAssumption
<1>2. Len(Images) \in Nat /\ DOMAIN Images = 1 .. Len(Images)
  BY <1>1
<1>3. \A j, k \in 1 .. Len(Images) : Images[j] = Images[k] => j = k
  BY <1>2, CollectionAssumption DEF IsInjective
<1> QED
  BY <1>2, <1>3 DEF ToSet

\* What Append adds to a list, and what it leaves.
LEMMA AppendFacts ==
  ASSUME NEW S, NEW s \in Seq(S), NEW e \in S
  PROVE  /\ Append(s, e) \in Seq(S)
         /\ DOMAIN s = 1 .. Len(s) /\ Len(s) \in Nat
         /\ DOMAIN Append(s, e) = 1 .. Len(s) + 1
         /\ \A j \in 1 .. Len(s) : Append(s, e)[j] = s[j]
         /\ Append(s, e)[Len(s) + 1] = e
OBVIOUS

-----------------------------------------------------------------------------
(* The invariant holds and is kept *)

\* A collection nobody has indexed, or an older script has.
LEMMA InitInv == Init => IInv
<1> SUFFICES ASSUME Init PROVE IInv
  OBVIOUS
<1> USE DEF Init
<1>1. TypeOK
  <2>1. phase \in Phases
    BY DEF Phases
  <2>2. at \in 1 .. Len(Images) + 1 /\ kills \in 0 .. MaxKills
    BY ImageFacts, CollectionAssumption
  <2>3. fts \in [ToSet(Images) -> FileState]
    BY DEF FileState
  <2>4. {desc, config, old} \subseteq FileState \ {"old"}
    BY DEF FileState
  <2>5. {removing, entered, torn} \subseteq BOOLEAN /\ count \in BOOLEAN
    OBVIOUS
  <2>6. url2fts \in Seq(ToSet(Images))
    OBVIOUS
  <2> QED
    BY <2>1, <2>2, <2>3, <2>4, <2>5, <2>6 DEF TypeOK
<1>2. PhaseInv /\ FtsInv /\ ListInv /\ IndexInv /\ RescueInv
  BY DEF PhaseInv, FtsInv, ListInv, IndexInv, RescueInv, AtImage, AfterImages
<1>3. DescInv
  BY DEF DescInv
<1> QED
  BY <1>1, <1>2, <1>3 DEF IInv

\* What the steps of the proof below see of the invariant.
LEMMA InvFacts ==
  IInv => /\ TypeOK /\ PhaseInv /\ FtsInv /\ DescInv /\ ListInv /\ IndexInv /\ RescueInv
          /\ DOMAIN url2fts = 1 .. Len(url2fts) /\ Len(url2fts) \in Nat
BY DEF IInv, TypeOK

\* No step of a run, and no kill, breaks the invariant.
LEMMA NextKeeps == IInv /\ [Next]_vars => IInv'
<1> SUFFICES ASSUME IInv, [Next]_vars PROVE IInv'
  OBVIOUS
<1> USE ImageFacts, InvFacts DEF Goto, AtImage, AfterImages
<1>1. CASE Start
  <2>1. url2fts' \in Seq(ToSet(Images))
    BY <1>1 DEF Start
  <2>2. /\ phase' = "image" /\ removing' = FALSE /\ at' = 1 /\ count' = FALSE
        /\ UNCHANGED <<fts, desc, index, config, entered, old, kills, torn>>
    BY <1>1 DEF Start
  <2>3. PhaseInv' /\ FtsInv' /\ DescInv'
    BY <1>1 DEF Start, Resting, TypeOK, PhaseInv, FtsInv, DescInv
  <2>4. ListInv' /\ IndexInv' /\ RescueInv'
    BY <1>1 DEF Start, ListInv, IndexInv, RescueInv, IsInjective
  <2>5. TypeOK'
    <3>1. phase' \in Phases /\ at' \in 1 .. Len(Images) + 1
      BY <2>2 DEF Phases
    <3>2. {removing', entered', torn'} \subseteq BOOLEAN /\ count' \in BOOLEAN
      BY <2>2 DEF TypeOK
    <3>3. {desc', config', old'} \subseteq FileState \ {"old"}
      BY <2>2 DEF TypeOK
    <3> QED
      BY <2>1, <2>2, <3>1, <3>2, <3>3 DEF TypeOK
  <2> QED
    BY <2>3, <2>4, <2>5 DEF IInv
<1>2. CASE Skip
  <2>1. TypeOK'
    BY <1>2 DEF Skip, fileVars, TypeOK
  <2>2. PhaseInv' /\ FtsInv' /\ DescInv'
    BY <1>2 DEF Skip, fileVars, TypeOK, PhaseInv, FtsInv, DescInv
  <2>3. ListInv'
    <3>1. at \in 1 .. Len(Images) /\ at' = at + 1 /\ UNCHANGED <<phase, url2fts, fts, torn>>
      BY <1>2 DEF Skip, fileVars, TypeOK
    <3>2. \A k \in 1 .. at' - 1 : k \in 1 .. at - 1 \/ k = at
      BY <3>1
    <3>3. 1 .. at - 1 \subseteq 1 .. at' - 1
      BY <3>1
    <3>4. Images[at] \notin Convertible
      BY <1>2 DEF Skip
    <3> QED
      BY <1>2, <3>1, <3>2, <3>3, <3>4 DEF Skip, ListInv
  <2>4. IndexInv' /\ RescueInv'
    BY <1>2 DEF Skip, fileVars, IndexInv, RescueInv
  <2> QED
    BY <2>1, <2>2, <2>3, <2>4 DEF IInv
<1>3. CASE Tag
  <2>1. /\ at \in 1 .. Len(Images) /\ at' = at + 1 /\ Images[at] \in ToSet(Images)
        /\ url2fts' = Append(url2fts, Images[at]) /\ UNCHANGED <<fts, torn>>
    BY <1>3 DEF Tag, TypeOK, PhaseInv
  <2>2. /\ url2fts' \in Seq(ToSet(Images))
        /\ DOMAIN url2fts' = 1 .. Len(url2fts) + 1
        /\ \A j \in DOMAIN url2fts : url2fts'[j] = url2fts[j]
        /\ url2fts'[Len(url2fts) + 1] = Images[at]
    BY <2>1, AppendFacts DEF TypeOK
  <2>3. TypeOK'
    BY <1>3, <2>1, <2>2 DEF Tag, TypeOK, Phases
  <2>4. PhaseInv' /\ FtsInv' /\ DescInv' /\ IndexInv' /\ RescueInv'
    BY <1>3 DEF Tag, TypeOK, PhaseInv, FtsInv, DescInv, IndexInv, RescueInv
  <2>5. ListInv'
    <3>1. phase = "tag" /\ ListInv
      BY <1>3 DEF Tag
    <3>2. \A j \in DOMAIN url2fts' : j \in DOMAIN url2fts \/ j = Len(url2fts) + 1
      BY <2>2
    <3>3. /\ \A k \in 1 .. at' - 1 : k \in 1 .. at - 1 \/ k = at
          /\ 1 .. at - 1 \subseteq 1 .. at' - 1 /\ at \in 1 .. at' - 1 /\ at \notin 1 .. at - 1
      BY <2>1
    <3>4. \A j \in DOMAIN url2fts : url2fts[j] # Images[at]
      BY <2>1, <3>1, <3>3 DEF ListInv
    <3>5. IsInjective(url2fts')
      BY <2>2, <3>1, <3>2, <3>4 DEF ListInv, IsInjective
    <3>6. \A j \in DOMAIN url2fts' : \E k \in 1 .. at' - 1 : url2fts'[j] = Images[k]
      BY <2>2, <3>1, <3>2, <3>3 DEF ListInv
    <3>7. \A k \in 1 .. at' - 1 :
            Images[k] \in Convertible => \E j \in DOMAIN url2fts' : url2fts'[j] = Images[k]
      <4> SUFFICES ASSUME NEW k \in 1 .. at' - 1, Images[k] \in Convertible
                   PROVE  \E j \in DOMAIN url2fts' : url2fts'[j] = Images[k]
        OBVIOUS
      <4>1. CASE k = at
        BY <2>2, <4>1
      <4>2. CASE k \in 1 .. at - 1
        <5>1. PICK j \in DOMAIN url2fts : url2fts[j] = Images[k]
          BY <3>1, <4>2 DEF ListInv
        <5> QED
          BY <2>2, <5>1
      <4> QED
        BY <3>3, <4>1, <4>2
    <3>8. torn' \/ \A j \in DOMAIN url2fts' :
                      url2fts'[j] \in Extractable => fts'[url2fts'[j]] = "whole"
      BY <2>1, <2>2, <3>1, <3>2 DEF ListInv, FtsInv
    <3> QED
      BY <3>5, <3>6, <3>7, <3>8 DEF ListInv
  <2> QED
    BY <2>3, <2>4, <2>5 DEF IInv
<1>4. CASE Kill
  <2>1. kills' \in 0 .. MaxKills /\ torn' \in BOOLEAN
    BY <1>4, CollectionAssumption DEF Kill, TypeOK
  <2>2. TypeOK'
    BY <1>4, <2>1 DEF Kill, TypeOK, FileState, Phases
  <2>3. PhaseInv' /\ FtsInv' /\ DescInv'
    BY <1>4 DEF Kill, Tearing, TypeOK, PhaseInv, FtsInv, DescInv
  <2>4. ListInv' /\ IndexInv' /\ RescueInv'
    BY <1>4 DEF Kill, ListInv, IndexInv, RescueInv
  <2> QED
    BY <2>2, <2>3, <2>4 DEF IInv
<1>5. CASE StartRemoval
  <2>1. TypeOK'
    BY <1>5 DEF StartRemoval, Resting, fileVars, TypeOK, FileState, Phases, NoIndex
  <2>2. PhaseInv' /\ FtsInv' /\ DescInv'
    BY <1>5 DEF StartRemoval, Resting, fileVars, TypeOK, PhaseInv, FtsInv, DescInv
  <2>3. ListInv' /\ IndexInv' /\ RescueInv'
    BY <1>5 DEF StartRemoval, Resting, fileVars, TypeOK, PhaseInv, FtsInv, ListInv, IndexInv, RescueInv
  <2> QED
    BY <2>1, <2>2, <2>3 DEF IInv
<1>6. CASE KeepFeatures
  <2>1. TypeOK'
    BY <1>6 DEF KeepFeatures, fileVars, UpToDate, TypeOK, FileState, Phases, NoIndex
  <2>2. PhaseInv' /\ FtsInv' /\ DescInv'
    BY <1>6 DEF KeepFeatures, fileVars, UpToDate, TypeOK, PhaseInv, FtsInv, DescInv
  <2>3. ListInv' /\ IndexInv' /\ RescueInv'
    BY <1>6 DEF KeepFeatures, fileVars, UpToDate, TypeOK, PhaseInv, FtsInv, ListInv, IndexInv, RescueInv
  <2> QED
    BY <2>1, <2>2, <2>3 DEF IInv
<1>7. CASE StartCopy
  <2>1. TypeOK'
    BY <1>7 DEF StartCopy, UpToDate, TypeOK, FileState, Phases, NoIndex
  <2>2. PhaseInv' /\ FtsInv' /\ DescInv'
    BY <1>7 DEF StartCopy, UpToDate, TypeOK, PhaseInv, FtsInv, DescInv
  <2>3. ListInv' /\ IndexInv' /\ RescueInv'
    BY <1>7 DEF StartCopy, UpToDate, TypeOK, PhaseInv, FtsInv, ListInv, IndexInv, RescueInv
  <2> QED
    BY <2>1, <2>2, <2>3 DEF IInv
<1>8. CASE EndCopy
  <2>1. TypeOK'
    BY <1>8 DEF EndCopy, TypeOK, FileState, Phases, NoIndex
  <2>2. PhaseInv' /\ FtsInv' /\ DescInv'
    BY <1>8 DEF EndCopy, TypeOK, PhaseInv, FtsInv, DescInv
  <2>3. ListInv' /\ IndexInv' /\ RescueInv'
    BY <1>8 DEF EndCopy, TypeOK, PhaseInv, FtsInv, ListInv, IndexInv, RescueInv
  <2> QED
    BY <2>1, <2>2, <2>3 DEF IInv
<1>9. CASE StartDescribe
  <2>1. TypeOK'
    BY <1>9 DEF StartDescribe, NeedsDescriptions, TypeOK, FileState, Phases, NoIndex
  <2>2. PhaseInv' /\ FtsInv' /\ DescInv'
    BY <1>9 DEF StartDescribe, NeedsDescriptions, TypeOK, PhaseInv, FtsInv, DescInv
  <2>3. ListInv' /\ IndexInv' /\ RescueInv'
    BY <1>9 DEF StartDescribe, NeedsDescriptions, TypeOK, PhaseInv, FtsInv, ListInv, IndexInv, RescueInv
  <2> QED
    BY <2>1, <2>2, <2>3 DEF IInv
<1>10. CASE EndDescribe
  <2>1. TypeOK'
    BY <1>10 DEF EndDescribe, TypeOK, FileState, Phases, NoIndex
  <2>2. PhaseInv' /\ FtsInv' /\ DescInv'
    BY <1>10 DEF EndDescribe, TypeOK, PhaseInv, FtsInv, DescInv
  <2>3. ListInv' /\ IndexInv' /\ RescueInv'
    BY <1>10 DEF EndDescribe, TypeOK, PhaseInv, FtsInv, ListInv, IndexInv, RescueInv
  <2> QED
    BY <2>1, <2>2, <2>3 DEF IInv
<1>11. CASE CloseUrl2fts
  <2>1. TypeOK'
    BY <1>11 DEF CloseUrl2fts, fileVars, TypeOK, FileState, Phases, NoIndex
  <2>2. PhaseInv' /\ FtsInv' /\ DescInv'
    BY <1>11 DEF CloseUrl2fts, fileVars, TypeOK, PhaseInv, FtsInv, DescInv
  <2>3. ListInv' /\ IndexInv' /\ RescueInv'
    BY <1>11 DEF CloseUrl2fts, fileVars, TypeOK, PhaseInv, FtsInv, ListInv, IndexInv, RescueInv
  <2> QED
    BY <2>1, <2>2, <2>3 DEF IInv
<1>12. CASE Generate
  <2>1. TypeOK'
    BY <1>12 DEF Generate, TypeOK, FileState, Phases, NoIndex
  <2>2. PhaseInv' /\ FtsInv' /\ DescInv'
    BY <1>12 DEF Generate, TypeOK, PhaseInv, FtsInv, DescInv
  <2>3. ListInv' /\ IndexInv' /\ RescueInv'
    BY <1>12 DEF Generate, TypeOK, PhaseInv, FtsInv, ListInv, IndexInv, RescueInv
  <2> QED
    BY <2>1, <2>2, <2>3 DEF IInv
<1>13. CASE Rescue
  <2>1. TypeOK'
    BY <1>13 DEF Rescue, TypeOK, FileState, Phases, NoIndex
  <2>2. PhaseInv' /\ FtsInv' /\ DescInv'
    BY <1>13 DEF Rescue, TypeOK, PhaseInv, FtsInv, DescInv
  <2>3. ListInv' /\ IndexInv' /\ RescueInv'
    BY <1>13 DEF Rescue, TypeOK, PhaseInv, FtsInv, ListInv, IndexInv, RescueInv
  <2> QED
    BY <2>1, <2>2, <2>3 DEF IInv
<1>14. CASE Parse
  <2>1. TypeOK'
    BY <1>14 DEF Parse, TypeOK, FileState, Phases, NoIndex
  <2>2. PhaseInv' /\ FtsInv' /\ DescInv'
    BY <1>14 DEF Parse, TypeOK, PhaseInv, FtsInv, DescInv
  <2>3. ListInv' /\ IndexInv' /\ RescueInv'
    BY <1>14 DEF Parse, TypeOK, PhaseInv, FtsInv, ListInv, IndexInv, RescueInv
  <2> QED
    BY <2>1, <2>2, <2>3 DEF IInv
<1>15. CASE RemoveCollection
  <2>1. TypeOK'
    BY <1>15 DEF RemoveCollection, TypeOK, FileState, Phases, NoIndex
  <2>2. PhaseInv' /\ FtsInv' /\ DescInv'
    BY <1>15 DEF RemoveCollection, TypeOK, PhaseInv, FtsInv, DescInv
  <2>3. ListInv' /\ IndexInv' /\ RescueInv'
    BY <1>15 DEF RemoveCollection, TypeOK, PhaseInv, FtsInv, ListInv, IndexInv, RescueInv
  <2> QED
    BY <2>1, <2>2, <2>3 DEF IInv
<1>16. CASE PrintToFile
  <2>1. TypeOK'
    BY <1>16 DEF PrintToFile, TypeOK, FileState, Phases, NoIndex
  <2>2. PhaseInv' /\ FtsInv' /\ DescInv'
    BY <1>16 DEF PrintToFile, TypeOK, PhaseInv, FtsInv, DescInv
  <2>3. ListInv' /\ IndexInv' /\ RescueInv'
    BY <1>16 DEF PrintToFile, TypeOK, PhaseInv, FtsInv, ListInv, IndexInv, RescueInv
  <2> QED
    BY <2>1, <2>2, <2>3 DEF IInv
<1>17. CASE FailCopy
  <2>1. TypeOK'
    BY <1>17 DEF FailCopy, fileVars, TypeOK, FileState, Phases, NoIndex
  <2>2. PhaseInv' /\ FtsInv' /\ DescInv'
    BY <1>17 DEF FailCopy, fileVars, TypeOK, PhaseInv, FtsInv, DescInv
  <2>3. ListInv' /\ IndexInv' /\ RescueInv'
    BY <1>17 DEF FailCopy, fileVars, TypeOK, PhaseInv, ListInv, IndexInv, RescueInv
  <2> QED
    BY <2>1, <2>2, <2>3 DEF IInv
<1>18. CASE UNCHANGED vars
  BY <1>18 DEF vars, fileVars, IInv, TypeOK, PhaseInv, FtsInv, DescInv, ListInv, IndexInv, RescueInv
<1> QED
  BY <1>1, <1>2, <1>3, <1>4, <1>5, <1>6, <1>7, <1>8, <1>9, <1>10, <1>11, <1>12, <1>13, <1>14, <1>15, <1>16, <1>17, <1>18 DEF Next, Run

-----------------------------------------------------------------------------
(* Theorems *)

\* The invariant holds of every run of the script.
LEMMA SpecInv == Spec => []IInv
<1>1. IInv /\ [Next]_vars => IInv'
  BY NextKeeps
<1> QED
  BY InitInv, <1>1, PTL DEF Spec

\* Every variable keeps its type.
THEOREM TypeSafe == Spec => []TypeOK
<1>1. IInv => TypeOK
  BY DEF IInv
<1> QED
  BY SpecInv, <1>1, PTL

\* gift-config.mrml is overwritten only when gift-config.mrml-old holds a whole
\* configuration: whenever the script is killed, one of the two can be used.
THEOREM Rescued == Spec => []RescuedBeforeOverwritten
<1>1. IInv => RescuedBeforeOverwritten
  BY DEF IInv, RescueInv, RescuedBeforeOverwritten
<1> QED
  BY SpecInv, <1>1, PTL

\* What the invariant says of a run that is done: the index is complete.
LEMMA DoneIsComplete == IInv => ResumedUnlessTorn
<1> SUFFICES ASSUME IInv, phase = "done", ~torn PROVE Complete
  BY DEF ResumedUnlessTorn
<1> USE ImageFacts, InvFacts DEF AtImage, AfterImages
<1>1. at = Len(Images) + 1 /\ 1 .. at - 1 = 1 .. Len(Images)
  BY DEF PhaseInv
<1>2. index = fts /\ IsInjective(url2fts)
  BY DEF PhaseInv, IndexInv, ListInv
<1>3. Convertible \subseteq ToSet(url2fts)
  <2> SUFFICES ASSUME NEW i \in Convertible PROVE i \in ToSet(url2fts)
    OBVIOUS
  <2>1. PICK k \in 1 .. Len(Images) : i = Images[k]
    BY CollectionAssumption
  <2>2. PICK j \in DOMAIN url2fts : url2fts[j] = i
    BY <1>1, <2>1 DEF PhaseInv, ListInv
  <2> QED
    BY <2>2 DEF ToSet
<1>4. \A i \in Wanted : fts[i] = "whole"
  BY DEF PhaseInv, ListInv, Wanted, ToSet
<1>5. Wanted # {} => desc = "whole"
  <2> SUFFICES ASSUME NEW i \in Wanted PROVE desc = "whole"
    OBVIOUS
  <2>1. i \in ToSet(Images) /\ fts[i] = "whole"
    BY <1>4, CollectionAssumption DEF Wanted
  <2> QED
    BY <2>1 DEF DescInv
<1> QED
  BY <1>2, <1>3, <1>4, <1>5 DEF Complete

\* However often the script was killed and started again: a run that ends has
\* entered every image that can be read, once, and the index is made of whole
\* feature files with their descriptions, if no copy failed and no kill hit a file
\* being written.
THEOREM Resumed == Spec => []ResumedUnlessTorn
<1>1. IInv => ResumedUnlessTorn
  BY DoneIsComplete
<1> QED
  BY SpecInv, <1>1, PTL
=============================================================================
