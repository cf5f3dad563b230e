----------------------------- MODULE CommandRun -----------------------------
(***************************************************************************)
(* open_run: every command that works on a repository first refuses a root *)
(* inside Glossabet's own output, and reads the glossary it needs.         *)
(*                                                                         *)
(* Each ancestor whose name folds to the output directory's is looked into *)
(* for the artifacts that prove it is that; one spelled in another case    *)
(* must also be the very directory the exact name leads to.  Other         *)
(* programs may change what is there between any two lookups.              *)
(***************************************************************************)
EXTENDS Naturals, Absent

CONSTANTS
  Depth,             \* the root is ancestor 1, the next outer one 2, ...
  LastArtifact,      \* how many _OUTPUT_ARTIFACT_NAMES there are
  MaxInterferences   \* bound: changes by other programs

Outcomes == {"inside", "unconfirmed", "not a directory", "open", "bad glossary", "no glossary"}

ASSUME OpeningAssumption ==
  /\ Depth \in Nat /\ LastArtifact \in Nat /\ MaxInterferences \in Nat
  /\ None \notin Outcomes

Ancestors == 1..Depth
ArtifactNames == 1..LastArtifact

\* An ancestor's name: OUT_DIR, another case of it, or no such name.
Names == {"out", "cased", "other"}

\* What an artifact's name is: not there, a regular file, anything else.
ArtifactKinds == {"absent", "regular", "other"}

\* What the parent's OUT_DIR is for an ancestor of another case: the ancestor
\* itself, another directory, not a directory, not there; or one of these with
\* no identity the platform tells.
Siblings == {"same", "different", "not a directory", "missing", "unidentified"}

Policies == {"none", "optional", "required"}

VARIABLES
  place_names,   \* the ancestors' names
  artifacts,     \* what stands at each artifact's name of each ancestor
  siblings,      \* what each parent's OUT_DIR is
  ancestor, artifact,   \* where the inspection stands
  named,         \* whether the artifact's exact name was just confirmed
  uncertain,     \* of the inspection of the ancestor, and of all of them
  outcome,       \* how open_run ended, or None
  interferences, disturbed

place == <<place_names, artifacts, siblings>>
opening == <<place, ancestor, artifact, named, uncertain, outcome, interferences, disturbed>>

Sure == [here |-> FALSE, any |-> FALSE]
Outside == UNCHANGED <<place, interferences, disturbed>>

\* The next ancestor, whose artifacts are to be looked for from the first.
Outwards(doubt) ==
  /\ ancestor' = ancestor + 1 /\ artifact' = 1 /\ named' = FALSE
  /\ uncertain' = [here |-> FALSE, any |-> uncertain.any \/ doubt]
  /\ UNCHANGED outcome

Conclude(o) == outcome' = o /\ UNCHANGED <<ancestor, artifact, named, uncertain>>

Running == outcome = None
Inspecting == Running /\ ancestor \in Ancestors

\* The path does not lead to a directory.
RefuseRoot ==
  /\ Inspecting /\ ancestor = 1 /\ artifact = 1 /\ ~named /\ ~uncertain.any
  /\ Conclude("not a directory") /\ Outside

SkipAncestor ==
  /\ Inspecting /\ place_names[ancestor] = "other"
  /\ Outwards(FALSE) /\ Outside

(***************************************************************************)
(* _has_output_artifact.                                                   *)
(***************************************************************************)
Looking == Inspecting /\ place_names[ancestor] # "other" /\ artifact \in ArtifactNames

NextArtifact(doubt) ==
  /\ artifact' = artifact + 1 /\ named' = FALSE
  /\ uncertain' = [uncertain EXCEPT !.here = @ \/ doubt]
  /\ UNCHANGED <<ancestor, outcome>>

\* entry_named_exactly may always fail to confirm the name.
ConfirmArtifact ==
  /\ Looking /\ ~named /\ Outside
  /\ \/ NextArtifact(TRUE)
     \/ artifacts[ancestor][artifact] = "absent" /\ NextArtifact(FALSE)
     \/ /\ artifacts[ancestor][artifact] # "absent"
        /\ named' = TRUE /\ UNCHANGED <<ancestor, artifact, uncertain, outcome>>

\* A confirmed name that is gone, or cannot be inspected, proves nothing.
InspectArtifact ==
  /\ Looking /\ named /\ Outside
  /\ \/ NextArtifact(TRUE)
     \/ artifacts[ancestor][artifact] = "other" /\ NextArtifact(FALSE)
     \/ /\ artifacts[ancestor][artifact] = "regular"
        /\ artifact' = LastArtifact + 2 /\ named' = FALSE
        /\ UNCHANGED <<ancestor, uncertain, outcome>>

\* No artifact was found; doubt about one is doubt about the ancestor.
NoArtifact ==
  /\ Inspecting /\ artifact = LastArtifact + 1
  /\ Outwards(uncertain.here) /\ Outside

(***************************************************************************)
(* _inside_glossabet_output, for an ancestor with an artifact.             *)
(***************************************************************************)
Found == Inspecting /\ artifact = LastArtifact + 2

\* Variant: two identities the platform does not tell count as one.
CheckIdentity_Unknown ==
  /\ Found /\ Outside
  /\ \/ /\ place_names[ancestor] = "out" \/ siblings[ancestor] \in {"same", "unidentified"}
        /\ Conclude("inside")
     \/ place_names[ancestor] = "cased" /\ siblings[ancestor] \in {"missing", "not a directory", "different"}
          /\ Outwards(FALSE)
     \/ place_names[ancestor] = "cased" /\ Outwards(TRUE)

CheckIdentity ==
  /\ Found /\ Outside
  /\ \/ /\ place_names[ancestor] = "out" \/ siblings[ancestor] = "same"
        /\ Conclude("inside")
     \/ place_names[ancestor] = "cased" /\ siblings[ancestor] \in {"missing", "not a directory", "different"}
          /\ Outwards(FALSE)
     \/ place_names[ancestor] = "cased" /\ Outwards(TRUE)

\* No ancestor is proven output: the doubt decides, then what load_glossary
\* makes of the root's glossary.json and what the command needs of it.
ReadPolicy ==
  /\ Running /\ ancestor > Depth /\ Outside
  /\ \/ uncertain.any /\ Conclude("unconfirmed")
     \/ /\ ~uncertain.any
        /\ \E policy \in Policies, stored \in {"absent", "good", "bad"} :
             Conclude(CASE policy = "none" -> "open"
                        [] policy # "none" /\ stored = "bad" -> "bad glossary"
                        [] policy = "required" /\ stored = "absent" -> "no glossary"
                        [] OTHER -> "open")

(***************************************************************************)
(* Other programs: artifacts come and go, as a scan of the outer           *)
(* repository makes them.                                                  *)
(***************************************************************************)
Interfere ==
  /\ Running /\ interferences < MaxInterferences
  /\ \E d \in {x \in Ancestors : place_names[x] # "other"}, n \in ArtifactNames, k \in ArtifactKinds :
       /\ artifacts' = [artifacts EXCEPT ![d][n] = k]
       /\ disturbed' = disturbed \cup {<<d, n>>}
  /\ interferences' = interferences + 1
  /\ UNCHANGED <<place_names, siblings, ancestor, artifact, named, uncertain, outcome>>

OpeningInit ==
  /\ place_names \in [Ancestors -> Names]
  /\ artifacts \in [Ancestors -> [ArtifactNames -> ArtifactKinds]]
  /\ siblings \in [Ancestors -> Siblings]
  /\ \A d \in Ancestors : place_names[d] # "cased" => siblings[d] = "missing"
  /\ \A d \in Ancestors : place_names[d] = "other" => \A n \in ArtifactNames : artifacts[d][n] = "absent"
  /\ ancestor = 1 /\ artifact = 1 /\ named = FALSE /\ uncertain = Sure
  /\ outcome = None /\ interferences = 0 /\ disturbed = {}

Opening ==
  \/ RefuseRoot \/ SkipAncestor \/ ConfirmArtifact \/ InspectArtifact \/ NoArtifact
  \/ CheckIdentity \/ ReadPolicy

OpeningNext == Opening \/ Interfere

OpeningSpec == OpeningInit /\ [][OpeningNext]_opening

(***************************************************************************)
(* Properties.                                                             *)
(***************************************************************************)
OpeningTypeOK ==
  /\ artifacts \in [Ancestors -> [ArtifactNames -> ArtifactKinds]]
  /\ ancestor \in 1..(Depth + 1) /\ artifact \in 1..(LastArtifact + 2)
  /\ outcome \in Outcomes \cup {None}

Addressed(d) == place_names[d] = "out" \/ (place_names[d] = "cased" /\ siblings[d] = "same")

\* An ancestor with an artifact that stood there all the while.
Owned(d) ==
  Addressed(d) /\ \E n \in ArtifactNames : artifacts[d][n] = "regular" /\ <<d, n>> \notin disturbed

MayBeOwned(d) ==
  Addressed(d) /\ \E n \in ArtifactNames : artifacts[d][n] = "regular" \/ <<d, n>> \in disturbed

\* No command works on a root inside the output of a scan ("Proven Glossabet
\* output is never a repository: scanning it would write
\* glossabet-out/glossabet-out/..."), and none refuses a root as output that
\* was not: "The directory name alone cannot claim an arbitrary user path".
OutputRefused ==
  /\ outcome \in {"open", "bad glossary", "no glossary"} => \A d \in Ancestors : ~Owned(d)
  /\ outcome = "inside" => \E d \in Ancestors : MayBeOwned(d)
=============================================================================
