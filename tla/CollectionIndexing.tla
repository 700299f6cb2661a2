-------------------------- MODULE CollectionIndexing --------------------------
(***************************************************************************)
(* gift-add-collection.pl: how a directory of images becomes a collection  *)
(* of the server, over as many runs of the script as it takes.             *)
(*                                                                         *)
(* A run writes url2fts.xml anew.  For each image it extracts the features *)
(* to a temporary file and copies it, unless there is a feature file that  *)
(* is younger than the script; with the first features of a run it writes  *)
(* the feature descriptions.  Then it calls gift-generate-inverted-file    *)
(* and enters the collection into gift-config.mrml.  Run with the option   *)
(* --remove-collection it deletes the index and the entry instead.  A run  *)
(* may be killed anywhere; a file that was being written is cut.  A copy   *)
(* that fails is reported, and the run goes on.                            *)
(***************************************************************************)
EXTENDS Naturals, Sequences, SequencesExt

CONSTANTS
  Images,        \* the images, in the order in which find() visits them
  Convertible,   \* the images convert can read
  Extractable,   \* the images gift-extract-features finds features in
  MaxKills       \* bound: how often a run is killed

ASSUME CollectionAssumption ==
  /\ Images \in Seq(ToSet(Images)) /\ IsInjective(Images)
  /\ Convertible \subseteq ToSet(Images)
  /\ Extractable \subseteq Convertible
  /\ MaxKills \in Nat

VARIABLES
  phase,     \* where in the script the run is
  removing,  \* $gDoRemove: the run removes the collection
  at,        \* the image it works on
  fts,       \* the feature file of each image; "old" if older than the script
  desc,      \* InvertedFileFeatureDescription.db
  count,     \* lImageCount > 0: this run has extracted features
  url2fts,   \* the images in url2fts.xml
  index,     \* the feature files the inverted file has been made from
  config,    \* gift-config.mrml
  entered,   \* the collection is in the configuration
  old,       \* gift-config.mrml-old
  kills,     \* how often a run has been killed
  torn       \* history: a copy has failed, or a kill has hit a feature file
             \* or the descriptions

fileVars == <<fts, desc, url2fts, index, config, entered, old>>
vars == <<phase, removing, at, count, fileVars, kills, torn>>

FileState == {"none", "old", "cut", "whole"}

Phases == {"off", "image", "copy", "describe", "describing", "tag", "generate",
           "rescue", "parse", "remove", "print", "done", "removed", "failed"}

Resting == {"off", "done", "removed", "failed"}   \* no run is under way

NoIndex == <<>>

TypeOK ==
  /\ phase \in Phases
  /\ at \in 1 .. Len(Images) + 1
  /\ fts \in [ToSet(Images) -> FileState]
  /\ {desc, config, old} \subseteq FileState \ {"old"}
  /\ count \in BOOLEAN
  /\ url2fts \in Seq(ToSet(Images))
  /\ index = NoIndex \/ index \in [ToSet(Images) -> FileState]
  /\ kills \in 0 .. MaxKills
  /\ {removing, entered, torn} \subseteq BOOLEAN

\* A new collection, or one an older version of the script has indexed.
Init ==
  /\ phase = "off"
  /\ removing = FALSE
  /\ at = 1
  /\ fts \in [ToSet(Images) -> {"none", "old"}]
  /\ desc = IF \E i \in ToSet(Images) : fts[i] = "old" THEN "whole" ELSE "none"
  /\ count = FALSE
  /\ url2fts = <<>>
  /\ index = NoIndex
  /\ config = "whole"
  /\ entered = FALSE
  /\ old = "none"
  /\ kills = 0
  /\ torn = FALSE

Goto(p) == phase' = p
-----------------------------------------------------------------------------
(* The images *)

Start ==
  /\ phase \in Resting
  /\ Goto("image")
  /\ removing' = FALSE
  /\ at' = 1
  /\ count' = FALSE
  /\ url2fts' = <<>>
  /\ UNCHANGED <<fts, desc, index, config, entered, old, kills, torn>>

\* Faulty variant of UpToDate: a file of an older script passes as well.
Exists(i) == fts[i] # "none"

\* There is a feature file younger than the script, whatever is in it.
UpToDate(i) == fts[i] \in {"cut", "whole"}

\* Faulty variant of Skip: die ends the script, not only the eval block.
SkipDies ==
  /\ phase = "image" /\ at <= Len(Images)
  /\ ~UpToDate(Images[at]) /\ Images[at] \notin Convertible
  /\ Goto("failed")
  /\ UNCHANGED <<removing, at, count, fileVars, kills, torn>>

\* An image convert cannot read: die leaves the image out of url2fts.xml.
Skip ==
  /\ phase = "image" /\ at <= Len(Images)
  /\ ~UpToDate(Images[at]) /\ Images[at] \notin Convertible
  /\ at' = at + 1
  /\ UNCHANGED <<phase, removing, count, fileVars, kills, torn>>

\* Nothing to extract, or nothing that can be: the image is entered all the same.
KeepFeatures ==
  /\ phase = "image" /\ at <= Len(Images)
  /\ UpToDate(Images[at]) \/ Images[at] \in Convertible \ Extractable
  /\ Goto("tag")
  /\ UNCHANGED <<removing, at, count, fileVars, kills, torn>>

\* copy() from the temporary file begins ...
StartCopy ==
  /\ phase = "image" /\ at <= Len(Images)
  /\ ~UpToDate(Images[at]) /\ Images[at] \in Extractable
  /\ fts' = [fts EXCEPT ![Images[at]] = "cut"]
  /\ Goto("copy")
  /\ UNCHANGED <<removing, at, count, desc, url2fts, index, config, entered, old, kills, torn>>

\* ... and ends.
EndCopy ==
  /\ phase = "copy"
  /\ fts' = [fts EXCEPT ![Images[at]] = "whole"]
  /\ Goto("describe")
  /\ UNCHANGED <<removing, at, count, desc, url2fts, index, config, entered, old, kills, torn>>

\* copy() fails before it has opened the feature file, or with a part of it
\* written: that is printed, and the run goes on as if it had succeeded.
FailCopy ==
  /\ \/ phase = "copy"
     \/ /\ phase = "image" /\ at <= Len(Images)
        /\ ~UpToDate(Images[at]) /\ Images[at] \in Extractable
  /\ torn' = TRUE
  /\ Goto("describe")
  /\ UNCHANGED <<removing, at, count, fileVars, kills>>

\* The first features of the run: the descriptions are written.
NeedsDescriptions == ~count

StartDescribe ==
  /\ phase = "describe"
  /\ \/ /\ NeedsDescriptions
        /\ desc' = "cut"
        /\ Goto("describing")
        /\ UNCHANGED count
     \/ /\ ~NeedsDescriptions
        /\ Goto("tag")
        /\ count' = TRUE
        /\ UNCHANGED desc
  /\ UNCHANGED <<removing, at, fts, url2fts, index, config, entered, old, kills, torn>>

EndDescribe ==
  /\ phase = "describing"
  /\ desc' = "whole"
  /\ count' = TRUE
  /\ Goto("tag")
  /\ UNCHANGED <<removing, at, fts, url2fts, index, config, entered, old, kills, torn>>

\* The image element of url2fts.xml.
Tag ==
  /\ phase = "tag"
  /\ url2fts' = Append(url2fts, Images[at])
  /\ at' = at + 1
  /\ Goto("image")
  /\ UNCHANGED <<removing, count, fts, desc, index, config, entered, old, kills, torn>>
-----------------------------------------------------------------------------
(* The index and the configuration *)

CloseUrl2fts ==
  /\ phase = "image" /\ at > Len(Images)
  /\ Goto("generate")
  /\ UNCHANGED <<removing, at, count, fileVars, kills, torn>>

\* gift-generate-inverted-file; its result is not looked at.
Generate ==
  /\ phase = "generate"
  /\ index' = fts
  /\ Goto("rescue")
  /\ UNCHANGED <<removing, at, count, fts, desc, url2fts, config, entered, old, kills, torn>>

\* "rescue the old config": copied, whatever is in it.
Rescue ==
  /\ phase = "rescue"
  /\ old' = config
  /\ Goto("parse")
  /\ UNCHANGED <<removing, at, count, fts, desc, url2fts, index, config, entered, kills, torn>>

\* Faulty variant of Parse: the configuration is not read before it is written.
ParseNothing ==
  /\ phase = "parse"
  /\ Goto("print") /\ config' = "cut"
  /\ UNCHANGED <<removing, at, count, fts, desc, url2fts, index, entered, old, kills, torn>>

\* XML::DOM dies of a configuration that was cut; a whole one is opened for
\* writing.  A collection that is entered already and is added again is compared
\* attribute by attribute.  Either the comparison finds a conflict and the run
\* goes on to print the entry as it is, or XQL has returned attributes for it
\* (they have no getAttribute) and the run dies: the first and the third case.
Parse ==
  /\ phase = "parse"
  /\ \/ config = "whole" /\ (entered => ~removing) /\ Goto("print") /\ config' = "cut"
     \/ config = "whole" /\ entered /\ removing /\ Goto("remove") /\ UNCHANGED config
     \/ config = "whole" /\ entered /\ ~removing /\ Goto("failed") /\ UNCHANGED config
     \/ config # "whole" /\ Goto("failed") /\ UNCHANGED config
  /\ UNCHANGED <<removing, at, count, fts, desc, url2fts, index, entered, old, kills, torn>>

\* removeCollection deletes the index and url2fts.xml, takes the entry out of the
\* configuration in memory, and dies of reading the url2fts.xml it has deleted:
\* the entry and the feature files stay.
RemoveCollection ==
  /\ phase = "remove"
  /\ index' = NoIndex
  /\ url2fts' = <<>>
  /\ Goto("failed")
  /\ UNCHANGED <<removing, at, count, fts, desc, config, entered, old, kills, torn>>

PrintToFile ==
  /\ phase = "print"
  /\ config' = "whole"
  /\ entered' = (entered \/ ~removing)
  /\ Goto(IF removing THEN "removed" ELSE "done")
  /\ UNCHANGED <<removing, at, count, fts, desc, url2fts, index, old, kills, torn>>

\* The script with --remove-collection begins with the copy of the configuration.
StartRemoval ==
  /\ phase \in Resting
  /\ removing' = TRUE
  /\ Goto("rescue")
  /\ UNCHANGED <<at, count, fileVars, kills, torn>>

\* Places at which a kill leaves what the next run takes for complete: within
\* the copy, and until the descriptions are written after the first copy.
Tearing == phase \in {"copy", "describing"} \/ (phase = "describe" /\ ~count)

\* A kill while the configuration is copied cuts the copy.
Kill ==
  /\ kills < MaxKills
  /\ phase \notin Resting
  /\ Goto("off")
  /\ kills' = kills + 1
  /\ torn' = (torn \/ Tearing)
  /\ \/ UNCHANGED old
     \/ phase = "rescue" /\ old' = "cut"
  /\ UNCHANGED <<removing, at, count, fts, desc, url2fts, index, config, entered>>

Run ==
  \/ Skip \/ KeepFeatures \/ StartCopy \/ EndCopy \/ FailCopy
  \/ StartDescribe \/ EndDescribe
  \/ Tag \/ CloseUrl2fts \/ Generate \/ Rescue \/ Parse
  \/ RemoveCollection \/ PrintToFile

Next == Start \/ StartRemoval \/ Run \/ Kill

Spec == Init /\ [][Next]_vars

\* "you can resume by simply restarting the program": a run that is not killed
\* ends, and the collection is added again and again, whatever runs remove it.
FairSpec == Spec /\ WF_vars(Run) /\ SF_vars(Start)
-----------------------------------------------------------------------------
(* Properties *)

\* The images a collection should have features of.
Wanted == {i \in Extractable : i \in ToSet(url2fts)}

\* Every image that can be read is entered, once; the index is made of whole
\* feature files, and their descriptions are there.
Complete ==
  /\ IsInjective(url2fts)
  /\ Convertible \subseteq ToSet(url2fts)
  /\ \A i \in Wanted : fts[i] = "whole" /\ index[i] = "whole"
  /\ Wanted # {} => desc = "whole"

\* A run that is not killed completes what the runs before it have begun, if no
\* copy has failed and no kill came in the middle of a feature file or of the
\* descriptions.
ResumedUnlessTorn == phase = "done" /\ ~torn => Complete

\* While the configuration is written, the copy holds what was read: whenever the
\* run is killed, one of the two is whole.
RescuedBeforeOverwritten == phase = "print" => old = "whole"

\* Restarting the script gets a collection into the configuration, unless the
\* configuration stays cut for good, killed while it was printed: then every
\* further run dies of it.  That each run cuts it on its way to print is no excuse.
RestartsFinish == <>(phase = "done") \/ <>[](config = "cut")
=============================================================================
