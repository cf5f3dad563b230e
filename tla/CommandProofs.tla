--------------------------- MODULE CommandProofs ---------------------------
(***************************************************************************)
(* What holds of the commands that look at paths others may change, for    *)
(* every number of names, files, commands and changes: none works inside   *)
(* the output of a scan, none replaces unasked what it could see, none     *)
(* takes for absent what was there, what is said of a repository's Git     *)
(* state was so, and the rules of a repository decide what a walk reads.   *)
(***************************************************************************)
EXTENDS CommandRun, PathRoles, SkillInstall, RepositoryGlossary, RepositoryStamp,
        FiniteSetTheorems, SequenceTheorems, TLAPS

(***************************************************************************)
(* Opening a run.                                                          *)
(***************************************************************************)
\* An artifact that stood there all the while.
Standing(d, n) == artifacts[d][n] = "regular" /\ <<d, n>> \notin disturbed

PlaceOK ==
  /\ place_names \in [Ancestors -> Names]
  /\ siblings \in [Ancestors -> Siblings]
  /\ \A d \in Ancestors : place_names[d] # "cased" => siblings[d] = "missing"

DoubtOK == uncertain \in [here: BOOLEAN, any: BOOLEAN]

\* Ancestors passed without a doubt are not owned.
PassedClear == uncertain.any \/ \A d \in Ancestors : d < ancestor => ~Owned(d)

\* Artifacts passed without a doubt do not stand.
LookedClear ==
  artifact <= LastArtifact + 1 =>
    uncertain.here \/ \A n \in ArtifactNames : n < artifact => ~Standing(ancestor, n)

\* What was found did stand, or others changed it.
FoundStood ==
  artifact = LastArtifact + 2 =>
    \E n \in ArtifactNames : artifacts[ancestor][n] = "regular" \/ <<ancestor, n>> \in disturbed

OpeningInvariant ==
  /\ OpeningTypeOK /\ PlaceOK /\ DoubtOK
  /\ PassedClear
  /\ outcome = None /\ ancestor \in Ancestors => LookedClear /\ FoundStood
  /\ OutputRefused

LEMMA OpeningStarts == OpeningInit => OpeningInvariant
<1> SUFFICES ASSUME OpeningInit PROVE OpeningInvariant
  OBVIOUS
<1>1. OpeningTypeOK /\ PlaceOK /\ DoubtOK
  BY OpeningAssumption DEF OpeningInit, OpeningTypeOK, PlaceOK, DoubtOK, Sure
<1>2. PassedClear
  BY OpeningAssumption DEF OpeningInit, PassedClear, Ancestors
<1>3. LookedClear /\ FoundStood
  BY OpeningAssumption DEF OpeningInit, LookedClear, FoundStood, ArtifactNames
<1>4. OutputRefused
  BY OpeningAssumption DEF OpeningInit, OutputRefused, Outcomes
<1> QED
  BY <1>1, <1>2, <1>3, <1>4 DEF OpeningInvariant

\* Turning to the next ancestor, when the one that is left is not owned or there
\* is doubt about it.
LEMMA OutwardsKeeps ==
  ASSUME NEW doubt \in BOOLEAN, OpeningInvariant, Inspecting, Outwards(doubt), Outside,
         doubt \/ ~Owned(ancestor)
  PROVE  OpeningInvariant'
<1>1. OpeningTypeOK' /\ PlaceOK' /\ DoubtOK'
  BY OpeningAssumption
  DEF OpeningInvariant, OpeningTypeOK, PlaceOK, DoubtOK, Inspecting, Running, Outwards, Outside, place, Ancestors
<1>2. PassedClear'
  <2>1. \A d \in Ancestors : Owned(d)' <=> Owned(d)
    BY DEF Outside, place, Owned, Addressed
  <2>2. ancestor' = ancestor + 1 /\ (uncertain.any)' = (uncertain.any \/ doubt)
    BY DEF Outwards
  <2>3. \A d \in Ancestors : d < ancestor + 1 => d < ancestor \/ d = ancestor
    BY OpeningAssumption DEF Inspecting, Ancestors
  <2> QED
    BY <2>1, <2>2, <2>3 DEF OpeningInvariant, PassedClear
<1>3. LookedClear' /\ FoundStood'
  BY OpeningAssumption DEF Outwards, LookedClear, FoundStood, ArtifactNames
<1>4. OutputRefused'
  BY OpeningAssumption DEF Outwards, Inspecting, Running, OutputRefused, Outcomes
<1> QED
  BY <1>1, <1>2, <1>3, <1>4 DEF OpeningInvariant

\* Turning to the next artifact, when the one that is left does not stand or
\* there is doubt about it.
LEMMA NextArtifactKeeps ==
  ASSUME NEW doubt \in BOOLEAN, OpeningInvariant, Looking, NextArtifact(doubt), Outside,
         doubt \/ ~Standing(ancestor, artifact)
  PROVE  OpeningInvariant'
<1>1. OpeningTypeOK' /\ PlaceOK' /\ DoubtOK'
  BY OpeningAssumption
  DEF OpeningInvariant, OpeningTypeOK, PlaceOK, DoubtOK, Looking, NextArtifact, Outside, place, ArtifactNames
<1>2. PassedClear'
  BY DEF OpeningInvariant, PassedClear, DoubtOK, NextArtifact, Outside, place, Owned, Addressed
<1>3. LookedClear'
  <2>1. \A n \in ArtifactNames : n < artifact + 1 => n < artifact \/ n = artifact
    BY OpeningAssumption DEF Looking, ArtifactNames
  <2>2. artifact <= LastArtifact + 1
    BY OpeningAssumption DEF Looking, ArtifactNames
  <2>3. uncertain.here \/ \A n \in ArtifactNames : n < artifact => ~Standing(ancestor, n)
    BY <2>2 DEF OpeningInvariant, LookedClear, Looking, Inspecting, Running
  <2>4. (uncertain.here)' = (uncertain.here \/ doubt) /\ artifact' = artifact + 1
    BY DEF NextArtifact, OpeningInvariant, DoubtOK
  <2>5. \A n \in ArtifactNames : Standing(ancestor, n)' <=> Standing(ancestor, n)
    BY DEF NextArtifact, Outside, place, Standing
  <2> QED
    BY <2>1, <2>3, <2>4, <2>5 DEF LookedClear
<1>4. FoundStood'
  BY OpeningAssumption DEF NextArtifact, Looking, FoundStood, ArtifactNames
<1>5. OutputRefused'
  BY OpeningAssumption DEF NextArtifact, Looking, Inspecting, Running, OutputRefused, Outcomes
<1> QED
  BY <1>1, <1>2, <1>3, <1>4, <1>5 DEF OpeningInvariant

\* Ending with an outcome that its verdict bears out.
LEMMA ConcludeKeeps ==
  ASSUME NEW o \in Outcomes, OpeningInvariant, Running, Conclude(o), Outside,
         o \in {"open", "bad glossary", "no glossary"} => \A d \in Ancestors : ~Owned(d),
         o = "inside" => \E d \in Ancestors : MayBeOwned(d)
  PROVE  OpeningInvariant'
<1>1. OpeningTypeOK' /\ PlaceOK' /\ DoubtOK'
  BY DEF OpeningInvariant, OpeningTypeOK, PlaceOK, DoubtOK, Conclude, Outside, place
<1>2. PassedClear'
  BY DEF OpeningInvariant, PassedClear, Conclude, Outside, place, Owned, Addressed
<1>3. outcome' # None
  BY OpeningAssumption DEF Conclude
<1>4. OutputRefused'
  BY DEF OutputRefused, Conclude, Outside, place, Owned, MayBeOwned, Addressed
<1> QED
  BY <1>1, <1>2, <1>3, <1>4 DEF OpeningInvariant

LEMMA OpeningHolds == OpeningInvariant /\ [OpeningNext]_opening => OpeningInvariant'
<1> SUFFICES ASSUME OpeningInvariant, [OpeningNext]_opening PROVE OpeningInvariant'
  OBVIOUS
<1>1. CASE RefuseRoot
  <2>1. Conclude("not a directory") /\ Outside /\ Running
    BY <1>1 DEF RefuseRoot, Inspecting
  <2> QED
    BY <2>1, ConcludeKeeps DEF Outcomes
<1>2. CASE SkipAncestor
  <2>1. ~Owned(ancestor)
    BY <1>2 DEF SkipAncestor, Owned, Addressed
  <2> QED
    BY <1>2, <2>1, OutwardsKeeps DEF SkipAncestor
<1>3. CASE ConfirmArtifact
  <2>1. CASE NextArtifact(TRUE)
    BY <1>3, <2>1, NextArtifactKeeps DEF ConfirmArtifact
  <2>2. CASE artifacts[ancestor][artifact] = "absent" /\ NextArtifact(FALSE)
    <3>1. ~Standing(ancestor, artifact)
      BY <2>2 DEF Standing
    <3> QED
      BY <1>3, <2>2, <3>1, NextArtifactKeeps DEF ConfirmArtifact
  <2>3. CASE named' = TRUE /\ UNCHANGED <<ancestor, artifact, uncertain, outcome>>
    BY <1>3, <2>3
    DEF ConfirmArtifact, Outside, place, OpeningInvariant, OpeningTypeOK, PlaceOK, DoubtOK, PassedClear,
        LookedClear, FoundStood, OutputRefused, Owned, MayBeOwned, Addressed, Standing
  <2> QED
    BY <1>3, <2>1, <2>2, <2>3 DEF ConfirmArtifact
<1>4. CASE InspectArtifact
  <2>1. CASE NextArtifact(TRUE)
    BY <1>4, <2>1, NextArtifactKeeps DEF InspectArtifact
  <2>2. CASE artifacts[ancestor][artifact] = "other" /\ NextArtifact(FALSE)
    <3>1. ~Standing(ancestor, artifact)
      BY <2>2 DEF Standing
    <3> QED
      BY <1>4, <2>2, <3>1, NextArtifactKeeps DEF InspectArtifact
  <2>3. CASE /\ artifacts[ancestor][artifact] = "regular"
             /\ artifact' = LastArtifact + 2 /\ named' = FALSE
             /\ UNCHANGED <<ancestor, uncertain, outcome>>
    <3>1. Looking /\ Outside
      BY <1>4 DEF InspectArtifact
    <3>2. OpeningTypeOK' /\ PlaceOK' /\ DoubtOK'
      BY <2>3, <3>1, OpeningAssumption
      DEF Outside, place, OpeningInvariant, OpeningTypeOK, PlaceOK, DoubtOK
    <3>3. PassedClear'
      BY <2>3, <3>1 DEF Outside, place, OpeningInvariant, PassedClear, Owned, Addressed
    <3>4. LookedClear'
      BY <2>3, OpeningAssumption DEF LookedClear
    <3>5. FoundStood'
      BY <2>3, <3>1 DEF FoundStood, Looking, Outside, place
    <3>6. OutputRefused'
      BY <2>3, <3>1 DEF Outside, place, OpeningInvariant, OutputRefused, Owned, MayBeOwned, Addressed
    <3> QED
      BY <3>2, <3>3, <3>4, <3>5, <3>6 DEF OpeningInvariant
  <2> QED
    BY <1>4, <2>1, <2>2, <2>3 DEF InspectArtifact
<1>5. CASE NoArtifact
  <2>1. uncertain.here \in BOOLEAN
    BY DEF OpeningInvariant, DoubtOK
  <2>2. uncertain.here \/ ~Owned(ancestor)
    <3>1. artifact = LastArtifact + 1 /\ outcome = None /\ ancestor \in Ancestors
      BY <1>5 DEF NoArtifact, Inspecting, Running
    <3>2. LookedClear
      BY <3>1 DEF OpeningInvariant
    <3>3. \A n \in ArtifactNames : n < artifact
      BY <3>1, OpeningAssumption DEF ArtifactNames
    <3>4. artifact <= LastArtifact + 1
      BY <3>1, OpeningAssumption
    <3> QED
      BY <3>2, <3>3, <3>4 DEF LookedClear, Owned, Standing
  <2> QED
    BY <1>5, <2>1, <2>2, OutwardsKeeps DEF NoArtifact
<1>6. CASE CheckIdentity
  <2>1. Inspecting /\ Running /\ Outside /\ ancestor \in Ancestors
    BY <1>6 DEF CheckIdentity, Found, Inspecting
  <2>2. CASE /\ place_names[ancestor] = "out" \/ siblings[ancestor] = "same"
             /\ Conclude("inside")
    <3>1. Addressed(ancestor)
      BY <2>1, <2>2 DEF OpeningInvariant, PlaceOK, Addressed
    <3>2. MayBeOwned(ancestor)
      BY <1>6, <2>1, <3>1 DEF CheckIdentity, Found, Running, OpeningInvariant, FoundStood, MayBeOwned
    <3> QED
      BY <2>1, <2>2, <3>2, ConcludeKeeps DEF Outcomes
  <2>3. CASE /\ place_names[ancestor] = "cased"
             /\ siblings[ancestor] \in {"missing", "not a directory", "different"}
             /\ Outwards(FALSE)
    <3>1. ~Owned(ancestor)
      BY <2>3 DEF Owned, Addressed
    <3> QED
      BY <2>1, <2>3, <3>1, OutwardsKeeps
  <2>4. CASE Outwards(TRUE)
    BY <2>1, <2>4, OutwardsKeeps
  <2> QED
    BY <1>6, <2>2, <2>3, <2>4 DEF CheckIdentity
<1>7. CASE ReadPolicy
  <2>1. CASE uncertain.any /\ Conclude("unconfirmed")
    BY <1>7, <2>1, ConcludeKeeps DEF ReadPolicy, Outcomes
  <2>2. CASE ~uncertain.any
    <3>1. \A d \in Ancestors : ~Owned(d)
      <4>1. ancestor \in 1..(Depth + 1) /\ ancestor > Depth
        BY <1>7 DEF ReadPolicy, OpeningInvariant, OpeningTypeOK
      <4>2. \A d \in Ancestors : d < ancestor
        BY <4>1, OpeningAssumption DEF Ancestors
      <4> QED
        BY <2>2, <4>2 DEF OpeningInvariant, PassedClear
    <3>2. PICK o \in {"open", "bad glossary", "no glossary"} : Conclude(o)
      BY <1>7, <2>2 DEF ReadPolicy, Policies
    <3> QED
      BY <1>7, <3>1, <3>2, ConcludeKeeps DEF ReadPolicy, Outcomes
  <2> QED
    BY <1>7, <2>1, <2>2 DEF ReadPolicy
<1>8. CASE Interfere
  <2>1. PICK d \in Ancestors, n \in ArtifactNames, k \in ArtifactKinds :
          /\ artifacts' = [artifacts EXCEPT ![d][n] = k]
          /\ disturbed' = disturbed \cup {<<d, n>>}
    BY <1>8 DEF Interfere
  <2>2. /\ UNCHANGED <<place_names, siblings, ancestor, artifact, named, uncertain, outcome>>
        /\ outcome = None
    BY <1>8 DEF Interfere, Running
  <2>3. /\ artifacts \in [Ancestors -> [ArtifactNames -> ArtifactKinds]]
        /\ artifacts' \in [Ancestors -> [ArtifactNames -> ArtifactKinds]]
    BY <2>1 DEF OpeningInvariant, OpeningTypeOK
  <2>4. \A a \in Ancestors, m \in ArtifactNames : Standing(a, m)' => Standing(a, m)
    BY <2>1, <2>3 DEF Standing
  <2>5. OpeningTypeOK' /\ PlaceOK' /\ DoubtOK'
    BY <2>2, <2>3 DEF OpeningInvariant, OpeningTypeOK, PlaceOK, DoubtOK
  <2>6. PassedClear'
    <3>1. \A a \in Ancestors : Owned(a)' => Owned(a)
      BY <2>2, <2>4 DEF Owned, Addressed, Standing
    <3> QED
      BY <2>2, <3>1 DEF OpeningInvariant, PassedClear
  <2>7. ancestor \in Ancestors => LookedClear' /\ FoundStood'
    <3> SUFFICES ASSUME ancestor \in Ancestors PROVE LookedClear' /\ FoundStood'
      OBVIOUS
    <3>1. LookedClear'
      BY <2>2, <2>4 DEF OpeningInvariant, LookedClear
    <3>2. \A m \in ArtifactNames :
            (artifacts[ancestor][m] = "regular" \/ <<ancestor, m>> \in disturbed)
              => (artifacts'[ancestor][m] = "regular" \/ <<ancestor, m>> \in disturbed')
      BY <2>1, <2>3
    <3> QED
      BY <2>2, <3>1, <3>2 DEF OpeningInvariant, FoundStood
  <2>8. OutputRefused'
    BY <2>2, OpeningAssumption DEF OutputRefused, Outcomes
  <2> QED
    BY <2>2, <2>5, <2>6, <2>7, <2>8 DEF OpeningInvariant
<1>9. CASE UNCHANGED opening
  BY <1>9
  DEF opening, place, OpeningInvariant, OpeningTypeOK, PlaceOK, DoubtOK, PassedClear, LookedClear,
      FoundStood, OutputRefused, Owned, MayBeOwned, Addressed, Standing
<1> QED
  BY <1>1, <1>2, <1>3, <1>4, <1>5, <1>6, <1>7, <1>8, <1>9 DEF OpeningNext, Opening

THEOREM OpeningAlways == OpeningSpec => []OpeningInvariant
  BY OpeningStarts, OpeningHolds, PTL DEF OpeningSpec

\* No command works on a root inside the output of a scan, or refuses one as
\* output that was not (open_run, _inside_glossabet_output).
THEOREM OutputAlwaysRefused == OpeningSpec => []OutputRefused
<1>1. OpeningInvariant => OutputRefused
  BY DEF OpeningInvariant
<1> QED
  BY <1>1, OpeningAlways, PTL

\* What the inspection has come to is one of the code's states.
THEOREM OpeningTyped == OpeningSpec => []OpeningTypeOK
<1>1. OpeningInvariant => OpeningTypeOK
  BY DEF OpeningInvariant
<1> QED
  BY <1>1, OpeningAlways, PTL

(***************************************************************************)
(* Installing.                                                             *)
(***************************************************************************)
Candidates == {Executables[n] : n \in DOMAIN Executables}

Things ==
  [kind: {"nothing", "directory", "other"} \cup InstalledFiles,
   by: Installs \cup {None}, names: Candidates \cup {None}]

\* The locations of _install_file.
Installing == {"reject", "look", "read", "make parent", "write", "authorize", "replace"}

InstallRecords ==
  [pc: Installing \cup {"resolve", "plugin", "ended"}, force: BOOLEAN, plugin: BOOLEAN,
   existed: BOOLEAN, outcome: {None, "installed", "replaced", "current"}, files: Seq(Things),
   outcomes: Seq(Things \X {None, "installed", "replaced", "current"}),
   executable: Candidates \cup {None}, candidate: Nat \ {0}, code: {None, 0, 1, 9}]

Skill(i) == Thing("skill", i, None)
Manifest(i) == Thing("manifest", i, None)
Hook(i, x) == Thing("hook", i, x)

\* The files still to be put in place, after those that are.
Ahead(i, r) ==
  /\ Len(r.outcomes) < 3
  /\ Len(r.outcomes) = 0 => r.files = <<Skill(i)>>
  /\ Len(r.outcomes) = 1 => r.files = <<Manifest(i), Hook(i, r.executable)>>
  /\ Len(r.outcomes) = 2 => r.files = <<Hook(i, r.executable)>>

\* What has been put in place, and what is left to be, at each point of a run.
Progress(i, r) ==
  /\ r \in InstallRecords
  /\ Len(r.outcomes) <= 3
  /\ Len(r.outcomes) >= 1 => r.outcomes[1][1] = Skill(i)
  /\ Len(r.outcomes) >= 2 => r.outcomes[2][1] = Manifest(i)
  /\ Len(r.outcomes) >= 3 => r.outcomes[3][1] = Hook(i, r.executable)
  /\ r.pc \in Installing => Ahead(i, r)
  /\ r.pc \in {"resolve", "plugin"} => Len(r.outcomes) = 1 /\ r.plugin
  /\ Len(r.outcomes) >= 1 /\ r.plugin /\ r.pc # "resolve" =>
       r.executable \in Candidates /\ answers[r.executable][i] = "fits"
  /\ Len(r.outcomes) >= 1 /\ ~r.plugin => r.pc = "ended" /\ Len(r.outcomes) = 1
  /\ r.code = 0 => Len(r.outcomes) = IF r.plugin THEN 3 ELSE 1

\* What has been put in place is there unless others changed it.
InPlace(r, there, since) ==
  \A n \in DOMAIN r.outcomes :
    LET p == r.outcomes[n][1] IN there[p.kind] = p \/ p.kind \in since

\* Without --force, a file found to exist goes no further than being read, and
\* before the rename nothing is there unless it came after the last look.
Permitted(r, there, since) ==
  ~r.force =>
    /\ r.existed => r.pc = "read"
    /\ r.pc = "replace" /\ Head(r.files).kind \notin since =>
         there[Head(r.files).kind] = Nothing

Sound(i, r, there, since) ==
  Progress(i, r) /\ InPlace(r, there, since) /\ Permitted(r, there, since)

InstallInvariant ==
  /\ target \in [InstalledFiles -> Things]
  /\ answers \in [Candidates -> [Installs -> Verdicts]]
  /\ changed \in [Installs -> SUBSET InstalledFiles]
  /\ DOMAIN runs = Installs
  /\ overwritten = {}
  /\ \A i \in Installs : Sound(i, runs[i], target, changed[i])

\* The file a run is at.
LEMMA AtFile ==
  ASSUME NEW i, NEW r, Progress(i, r), r.pc \in Installing
  PROVE  /\ Len(r.outcomes) \in {0, 1, 2}
         /\ Len(r.outcomes) = 0 => Head(r.files) = Skill(i) /\ Len(r.files) = 1 /\ Tail(r.files) = <<>>
         /\ Len(r.outcomes) = 1 =>
              Head(r.files) = Manifest(i) /\ Len(r.files) = 2 /\ Tail(r.files) = <<Hook(i, r.executable)>>
         /\ Len(r.outcomes) = 2 =>
              Head(r.files) = Hook(i, r.executable) /\ Len(r.files) = 1 /\ Tail(r.files) = <<>>
         /\ Head(r.files).kind \in InstalledFiles
  <1>1. Len(r.outcomes) \in {0, 1, 2}
    <2>1. r.outcomes \in Seq(Things \X {None, "installed", "replaced", "current"})
      BY DEF Progress, InstallRecords
    <2>2. Len(r.outcomes) \in Nat
      BY <2>1
    <2>3. Len(r.outcomes) < 3
      BY DEF Progress, Ahead
    <2>4. \A n \in Nat : n < 3 => n \in {0, 1, 2}
      OBVIOUS
    <2> QED
      BY <2>2, <2>3, <2>4, Zenon
  <1>2. CASE Len(r.outcomes) = 0
    <2>1. r.files = <<Skill(i)>>
      BY <1>2 DEF Progress, Ahead
    <2> QED
      BY <1>2, <2>1 DEF Skill, Thing, InstalledFiles
  <1>3. CASE Len(r.outcomes) = 1
    <2>1. r.files = <<Manifest(i), Hook(i, r.executable)>>
      BY <1>3 DEF Progress, Ahead
    <2> QED
      BY <1>3, <2>1 DEF Manifest, Thing, InstalledFiles
  <1>4. CASE Len(r.outcomes) = 2
    <2>1. r.files = <<Hook(i, r.executable)>>
      BY <1>4 DEF Progress, Ahead
    <2> QED
      BY <1>4, <2>1 DEF Hook, Thing, InstalledFiles
  <1> QED
    BY <1>1, <1>2, <1>3, <1>4

\* Of each run others are told what they change under it.
LEMMA OthersSound ==
  ASSUME NEW i \in Installs, NEW r, NEW there, NEW there2, NEW since, NEW since2,
         Sound(i, r, there, since), since \subseteq since2,
         \A f \in InstalledFiles : there2[f] # there[f] => f \in since2
  PROVE  Sound(i, r, there2, since2)
  <1>1. Progress(i, r) /\ InPlace(r, there, since) /\ Permitted(r, there, since)
    BY DEF Sound
  <1>2. \A n \in DOMAIN r.outcomes : r.outcomes[n][1].kind \in InstalledFiles
    <2> SUFFICES ASSUME NEW n \in DOMAIN r.outcomes PROVE r.outcomes[n][1].kind \in InstalledFiles
      OBVIOUS
    <2>1. n = 1 \/ n = 2 \/ n = 3
      BY <1>1 DEF Progress, InstallRecords
    <2> QED
      BY <1>1, <2>1 DEF Progress, InstallRecords, Skill, Manifest, Hook, Thing, InstalledFiles
  <1>3. InPlace(r, there2, since2)
    BY <1>1, <1>2 DEF InPlace
  <1>4. r.pc = "replace" => Head(r.files).kind \in InstalledFiles
    BY <1>1, AtFile DEF Installing
  <1>5. Permitted(r, there2, since2)
    BY <1>1, <1>4 DEF Permitted
  <1> QED
    BY <1>1, <1>3, <1>5 DEF Sound

\* A step of one run, by what it makes of that run and shows the others.
LEMMA InstallStep ==
  ASSUME InstallInvariant, NEW i \in Installs, NEW r, Set(i, r),
         target' \in [InstalledFiles -> Things],
         changed' \in [Installs -> SUBSET InstalledFiles],
         UNCHANGED answers, overwritten' = {},
         Sound(i, r, target', changed'[i]),
         \A j \in Installs \ {i} :
           /\ changed[j] \subseteq changed'[j]
           /\ \A f \in InstalledFiles : target'[f] # target[f] => f \in changed'[j]
  PROVE  InstallInvariant'
  <1>1. /\ DOMAIN runs' = Installs /\ runs'[i] = r
        /\ \A j \in Installs \ {i} : runs'[j] = runs[j]
    BY DEF Set, InstallInvariant
  <1>2. ASSUME NEW j \in Installs PROVE Sound(j, runs'[j], target', changed'[j])
    <2>1. CASE j = i
      BY <1>1, <2>1
    <2>2. CASE j # i
      BY <1>1, <2>2, OthersSound DEF InstallInvariant
    <2> QED
      BY <2>1, <2>2
  <1>3. ASSUME NEW j \in Installs PROVE Sound(j, runs[j], target, changed[j])'
    BY <1>2 DEF Sound, Progress, InPlace, Permitted
  <1> QED
    BY <1>1, <1>3 DEF InstallInvariant

\* A command that ends with an error, or is killed, claims nothing.
LEMMA StopSound ==
  ASSUME InstallInvariant, NEW i \in Installs, NEW code \in {1, 9}, NEW there, NEW since
  PROVE  Sound(i, [Stop(i) EXCEPT !.code = code], there, since)
  <1> DEFINE s == Started(i, runs[i].force, runs[i].plugin)
             r == [Stop(i) EXCEPT !.code = code]
  <1>1. /\ s.existed = FALSE /\ s.force = runs[i].force /\ s.outcomes = <<>> /\ s.plugin = runs[i].plugin
        /\ s \in InstallRecords
    <2>1. runs[i].force \in BOOLEAN /\ runs[i].plugin \in BOOLEAN
      BY DEF InstallInvariant, Sound, Progress, InstallRecords
    <2>2. Thing("skill", i, None) \in Things
      BY DEF Thing, Things, InstalledFiles
    <2>3. <<Thing("skill", i, None)>> \in Seq(Things)
      BY <2>2
    <2>4. s \in InstallRecords
      BY <2>1, <2>3 DEF InstallRecords, Started, Installing
    <2> QED
      BY <2>4 DEF Started
  <1>2. Stop(i) = [s EXCEPT !.pc = "ended", !.files = <<>>, !.code = 1]
    BY DEF Stop
  <1> HIDE DEF s
  <1>3. /\ r \in InstallRecords /\ r.pc = "ended" /\ r.outcomes = <<>> /\ r.existed = FALSE
        /\ r.code = code
    <2>1. [s EXCEPT !.pc = "ended"] \in InstallRecords
      BY <1>1 DEF InstallRecords
    <2>2. [s EXCEPT !.pc = "ended", !.files = <<>>] \in InstallRecords
      BY <1>1, <<>> \in Seq(Things) DEF InstallRecords
    <2>3. Stop(i) \in InstallRecords
      BY <1>1, <1>2, <<>> \in Seq(Things) DEF InstallRecords
    <2>4. r \in InstallRecords /\ r.code = code
      BY <2>3 DEF InstallRecords
    <2>5. r.pc = "ended" /\ r.outcomes = <<>> /\ r.existed = FALSE
      BY <1>1, <1>2, <2>3 DEF InstallRecords
    <2> QED
      BY <2>4, <2>5
  <1> HIDE DEF r
  <1>4. Progress(i, r)
    BY <1>3 DEF Progress, Installing
  <1>5. InPlace(r, there, since) /\ Permitted(r, there, since)
    BY <1>3 DEF InPlace, Permitted
  <1> QED
    BY <1>4, <1>5 DEF Sound, r

\* Going on to the next call on the same file.
LEMMA GoOnSound ==
  ASSUME InstallInvariant, NEW i \in Installs, runs[i].pc \in Installing,
         NEW r, NEW l \in Installing \ {"replace"}, NEW e \in BOOLEAN, NEW since,
         r = [runs[i] EXCEPT !.pc = l, !.existed = e],
         e => l = "read" \/ runs[i].force, since = changed[i]
  PROVE  Sound(i, r, target, since)
  <1>1. Progress(i, runs[i]) /\ InPlace(runs[i], target, since) /\ runs[i] \in InstallRecords
    BY DEF InstallInvariant, Sound, Progress
  <1>2. /\ r.pc = l /\ r.existed = e /\ r.force = runs[i].force /\ r.plugin = runs[i].plugin
        /\ r.outcome = runs[i].outcome /\ r.files = runs[i].files /\ r.outcomes = runs[i].outcomes
        /\ r.executable = runs[i].executable /\ r.code = runs[i].code /\ r \in InstallRecords
    BY <1>1 DEF InstallRecords, Installing
  <1>3. Progress(i, r)
    BY <1>1, <1>2, ZenonT(30) DEF Progress, Ahead, Installing
  <1>4. InPlace(r, target, since) /\ Permitted(r, target, since)
    BY <1>1, <1>2 DEF InPlace, Permitted
  <1> QED
    BY <1>3, <1>4 DEF Sound

\* A step that changes nothing but the run it is of.
LEMMA AloneKeeps ==
  ASSUME InstallInvariant, NEW i \in Installs, NEW r, Alone(i, r), Sound(i, r, target, changed[i])
  PROVE  InstallInvariant'
  <1>1. UNCHANGED <<target, answers, changed, overwritten>> /\ Set(i, r)
    BY DEF Alone, World
  <1>2. Sound(i, r, target', changed'[i])
    BY <1>1
  <1>3. target' \in [InstalledFiles -> Things] /\ changed' \in [Installs -> SUBSET InstalledFiles] /\ overwritten' = {}
    BY <1>1 DEF InstallInvariant
  <1>4. \A j \in Installs \ {i} :
          /\ changed[j] \subseteq changed'[j]
          /\ \A f \in InstalledFiles : target'[f] # target[f] => f \in changed'[j]
    BY <1>1
  <1> QED
    BY <1>1, <1>2, <1>3, <1>4, InstallStep

LEMMA StopKeeps ==
  ASSUME InstallInvariant, NEW i \in Installs, Alone(i, Stop(i))
  PROVE  InstallInvariant'
  <1>1. Stop(i) = [Stop(i) EXCEPT !.code = 1]
    BY DEF Stop, Started
  <1>2. Sound(i, Stop(i), target, changed[i])
    BY <1>1, StopSound
  <1> QED
    BY <1>2, AloneKeeps

LEMMA GoOnKeeps ==
  ASSUME InstallInvariant, NEW i \in Installs, runs[i].pc \in Installing,
         NEW l \in Installing \ {"replace"}, NEW e \in BOOLEAN,
         Alone(i, [runs[i] EXCEPT !.pc = l, !.existed = e]),
         e => l = "read" \/ runs[i].force
  PROVE  InstallInvariant'
  BY GoOnSound, AloneKeeps
LEMMA ToKeeps ==
  ASSUME InstallInvariant, NEW i \in Installs, runs[i].pc \in Installing,
         NEW l \in Installing \ {"replace"}, Alone(i, To(i, l)),
         runs[i].existed => runs[i].force
  PROVE  InstallInvariant'
  <1> DEFINE e == runs[i].existed
  <1>1. runs[i] \in InstallRecords
    BY DEF InstallInvariant, Sound, Progress
  <1>2. e \in BOOLEAN
    BY <1>1 DEF InstallRecords
  <1>3. To(i, l) = [runs[i] EXCEPT !.pc = l, !.existed = e]
    BY <1>1 DEF To, InstallRecords
  <1>4. e => l = "read" \/ runs[i].force
    OBVIOUS
  <1> HIDE DEF e
  <1>5. Alone(i, [runs[i] EXCEPT !.pc = l, !.existed = e])
    BY <1>3
  <1> QED
    BY <1>2, <1>4, <1>5, GoOnKeeps

\* What was put in place before is another file than the one a run is at.
LEMMA EarlierKinds ==
  ASSUME NEW i, NEW r, Progress(i, r), r.pc \in Installing
  PROVE  \A n \in DOMAIN r.outcomes : r.outcomes[n][1].kind # Head(r.files).kind
  <1>1. \A n \in DOMAIN r.outcomes : n = 1 \/ n = 2
    <2>1. r.outcomes \in Seq(Things \X {None, "installed", "replaced", "current"})
      BY DEF Progress, InstallRecords
    <2>2. Len(r.outcomes) < 3
      BY DEF Progress, Ahead
    <2> QED
      BY <2>1, <2>2
  <1>2. Len(r.outcomes) \in {0, 1, 2}
    BY AtFile
  <1>3. CASE Len(r.outcomes) = 0
    <2>1. r.outcomes \in Seq(Things \X {None, "installed", "replaced", "current"})
      BY DEF Progress, InstallRecords
    <2> QED
      BY <1>3, <2>1
  <1>4. CASE Len(r.outcomes) = 1
    <2>1. r.outcomes[1][1] = Skill(i) /\ Head(r.files) = Manifest(i)
      <3>1. r.outcomes[1][1] = Skill(i)
        BY <1>4 DEF Progress
      <3> QED
        BY <1>4, <3>1, AtFile
    <2>2. \A n \in DOMAIN r.outcomes : n = 1
      <3>1. r.outcomes \in Seq(Things \X {None, "installed", "replaced", "current"})
        BY DEF Progress, InstallRecords
      <3> QED
        BY <1>4, <3>1
    <2> QED
      BY <2>1, <2>2 DEF Skill, Manifest, Thing
  <1>5. CASE Len(r.outcomes) = 2
    <2>1. /\ r.outcomes[1][1] = Skill(i) /\ r.outcomes[2][1] = Manifest(i)
          /\ Head(r.files) = Hook(i, r.executable)
      <3>1. r.outcomes[1][1] = Skill(i) /\ r.outcomes[2][1] = Manifest(i)
        BY <1>5 DEF Progress
      <3> QED
        BY <1>5, <3>1, AtFile
    <2> QED
      BY <1>1, <2>1 DEF Skill, Manifest, Hook, Thing
  <1> QED
    BY <1>2, <1>3, <1>4, <1>5

\* The file is looked at again, and found as it may be replaced.
LEMMA AuthorizedSound ==
  ASSUME InstallInvariant, NEW i \in Installs, runs[i].pc = "authorize",
         NEW r, NEW o \in {"installed", "replaced"},
         r = [runs[i] EXCEPT !.pc = "replace", !.outcome = o],
         ~runs[i].force => runs[i].existed \/ target[Path(i)] = Nothing,
         NEW since, since = changed[i] \ {Path(i)}
  PROVE  Sound(i, r, target, since)
  <1>1. /\ Progress(i, runs[i]) /\ InPlace(runs[i], target, changed[i])
        /\ Permitted(runs[i], target, changed[i])
    BY DEF InstallInvariant, Sound
  <1>2. runs[i] \in InstallRecords
    BY <1>1 DEF Progress
  <1>3. /\ r.pc = "replace" /\ r.existed = runs[i].existed /\ r.force = runs[i].force
        /\ r.plugin = runs[i].plugin /\ r.files = runs[i].files /\ r.outcomes = runs[i].outcomes
        /\ r.executable = runs[i].executable /\ r.code = runs[i].code /\ r \in InstallRecords
    BY <1>2 DEF InstallRecords, Installing
  <1>4. Progress(i, r)
    BY <1>1, <1>3 DEF Progress, Ahead, Installing
  <1>5. InPlace(r, target, since)
    <2>1. \A n \in DOMAIN runs[i].outcomes : runs[i].outcomes[n][1].kind # Path(i)
      BY <1>1, EarlierKinds DEF Path, Wanted, Remaining, Installing
    <2> QED
      BY <1>1, <1>3, <2>1 DEF InPlace
  <1>6. Permitted(r, target, since)
    BY <1>1, <1>3 DEF Permitted, Path, Wanted, Remaining
  <1> QED
    BY <1>4, <1>5, <1>6 DEF Sound

\* The file is in place, and the run goes on to what is next.
LEMMA WrittenSound ==
  ASSUME InstallInvariant, NEW i \in Installs, runs[i].pc \in Installing,
         NEW o \in {None, "installed", "replaced", "current"},
         NEW there, there[Path(i)] = Wanted(i),
         \A f \in InstalledFiles : f # Path(i) => there[f] = target[f],
         NEW since, since = changed[i] \ {Path(i)}
  PROVE  Sound(i, Written(i, o), there, since)
  <1> DEFINE m == runs[i]
             k == Len(m.outcomes)
             done == Append(m.outcomes, <<Wanted(i), o>>)
             w == Written(i, o)
  <1>1. /\ Progress(i, m) /\ InPlace(m, target, changed[i]) /\ m \in InstallRecords
        /\ m.pc \in Installing
    BY DEF InstallInvariant, Sound, Progress
  <1>2. Wanted(i) = Head(m.files) /\ Path(i) = Head(m.files).kind /\ Path(i) \in InstalledFiles
    BY <1>1, AtFile DEF Wanted, Path, Remaining
  <1>3. k \in {0, 1, 2}
    BY <1>1, AtFile
  <1>4. Wanted(i) = IF k = 0 THEN Skill(i) ELSE IF k = 1 THEN Manifest(i) ELSE Hook(i, m.executable)
    BY <1>1, <1>2, <1>3, AtFile
  <1>5. k >= 1 => m.plugin /\ m.executable \in Candidates /\ answers[m.executable][i] = "fits"
    BY <1>1 DEF Progress, Installing, InstallRecords
  <1>6. Wanted(i) \in Things
    <2>1. m.executable \in Candidates \cup {None}
      BY <1>1 DEF InstallRecords
    <2> QED
      BY <1>3, <1>4, <2>1 DEF Skill, Manifest, Hook, Thing, Things, InstalledFiles
  <1>7. m.outcomes \in Seq(Things \X {None, "installed", "replaced", "current"})
    BY <1>1 DEF InstallRecords
  <1>8. /\ done \in Seq(Things \X {None, "installed", "replaced", "current"})
        /\ Len(done) = k + 1 /\ done[k + 1] = <<Wanted(i), o>>
        /\ \A n \in 1..k : done[n] = m.outcomes[n]
        /\ DOMAIN done = 1..(k + 1) /\ DOMAIN m.outcomes = 1..k
    <2>1. <<Wanted(i), o>> \in Things \X {None, "installed", "replaced", "current"}
      BY <1>6
    <2> HIDE DEF m
    <2> QED
      BY <1>7, <2>1
  <1>9. m.files \in Seq(Things) /\ Tail(m.files) \in Seq(Things)
    <2>1. m.files \in Seq(Things) /\ m.files # <<>>
      <3>1. m.files \in Seq(Things)
        BY <1>1 DEF InstallRecords
      <3>2. Len(m.files) # 0
        BY <1>1, <1>3, AtFile
      <3> QED
        BY <3>1, <3>2
    <2> HIDE DEF m
    <2> QED
      BY <2>1
  <1>10. /\ w.outcomes = done /\ w.existed = FALSE /\ w.force = m.force /\ w.plugin = m.plugin
         /\ w.executable = m.executable /\ w.files = Tail(m.files) /\ w \in InstallRecords
         /\ w.code = m.code \/ w.code = 0
         /\ Len(m.files) > 1 => w.pc = "reject" /\ w.code = m.code
         /\ ~(Len(m.files) > 1) /\ Path(i) = "skill" /\ m.plugin => w.pc = "resolve" /\ w.code = m.code
         /\ ~(Len(m.files) > 1) /\ ~(Path(i) = "skill" /\ m.plugin) => w.pc = "ended" /\ w.code = 0
    <2> DEFINE r == [m EXCEPT !.outcomes = done, !.files = Tail(m.files),
                              !.existed = FALSE, !.outcome = None]
    <2>1. /\ r.outcomes = done /\ r.existed = FALSE /\ r.force = m.force /\ r.plugin = m.plugin
          /\ r.executable = m.executable /\ r.files = Tail(m.files) /\ r \in InstallRecords
          /\ r.code = m.code
      <3> HIDE DEF m, done
      <3> QED
        BY <1>1, <1>8, <1>9 DEF InstallRecords
    <2>2. w = IF Len(m.files) > 1 THEN [r EXCEPT !.pc = "reject"]
              ELSE IF Path(i) = "skill" /\ m.plugin THEN [r EXCEPT !.pc = "resolve"]
              ELSE [r EXCEPT !.pc = "ended", !.code = 0]
      BY DEF Written, Remaining
    <2> HIDE DEF r, m, done, w
    <2>3. CASE Len(m.files) > 1
      BY <2>1, <2>2, <2>3 DEF InstallRecords, Installing
    <2>4. CASE ~(Len(m.files) > 1) /\ Path(i) = "skill" /\ m.plugin
      BY <2>1, <2>2, <2>4 DEF InstallRecords, Installing
    <2>5. CASE ~(Len(m.files) > 1) /\ ~(Path(i) = "skill" /\ m.plugin)
      BY <2>1, <2>2, <2>5 DEF InstallRecords, Installing
    <2> QED
      BY <2>3, <2>4, <2>5
  <1>11. m.code # 0
    <2>1. Progress(i, m) /\ m.pc \in Installing
      BY <1>1
    <2>2. m.code = 0 => k = IF m.plugin THEN 3 ELSE 1
      BY <2>1 DEF Progress
    <2>3. ~m.plugin => k = 0
      BY <1>3, <1>5
    <2>4. m.plugin \in BOOLEAN
      BY <1>1 DEF InstallRecords
    <2> HIDE DEF m, k
    <2> QED
      BY <1>3, <2>2, <2>3, <2>4
  <1>12. /\ k >= 1 => m.outcomes[1][1] = Skill(i)
         /\ k >= 2 => m.outcomes[2][1] = Manifest(i)
    BY <1>1 DEF Progress
  <1>13. /\ k = 0 => Len(m.files) = 1
         /\ k = 1 => Len(m.files) = 2 /\ Tail(m.files) = <<Hook(i, m.executable)>>
         /\ k = 2 => Len(m.files) = 1
    BY <1>1, AtFile
  <1>14. Path(i) = IF k = 0 THEN "skill" ELSE IF k = 1 THEN "manifest" ELSE "hook"
    BY <1>2, <1>4 DEF Skill, Manifest, Hook, Thing
  <1> HIDE DEF w, k, m, done
  <1>15. InPlace(w, there, since)
    <2> SUFFICES ASSUME NEW n \in DOMAIN done
                 PROVE  LET p == done[n][1] IN there[p.kind] = p \/ p.kind \in since
      BY <1>10 DEF InPlace
    <2>1. CASE n = k + 1
      <3>1. done[n][1] = Wanted(i)
        BY <1>8, <2>1
      <3> QED
        BY <3>1 DEF Path
    <2>2. CASE n \in 1..k
      <3>1. done[n] = m.outcomes[n] /\ n \in DOMAIN m.outcomes
        BY <1>8, <2>2
      <3>2. m.outcomes[n][1].kind # Path(i)
        BY <1>1, <1>2, <3>1, EarlierKinds
      <3>3. m.outcomes[n][1].kind \in InstalledFiles
        <4>1. n = 1 \/ n = 2
          BY <1>3, <2>2
        <4> QED
          BY <1>12, <2>2, <4>1 DEF Skill, Manifest, Thing, InstalledFiles
      <3>4. target[m.outcomes[n][1].kind] = m.outcomes[n][1] \/ m.outcomes[n][1].kind \in changed[i]
        BY <1>1, <3>1 DEF InPlace
      <3> QED
        BY <3>1, <3>2, <3>3, <3>4
    <2>3. n \in 1..(k + 1)
      BY <1>8
    <2> QED
      BY <1>3, <2>1, <2>2, <2>3
  <1>16. Permitted(w, there, since)
    BY <1>10 DEF Permitted
  <1>17. Progress(i, w)
    <2>1. CASE k = 0
      <3>1. Len(w.outcomes) = 1 /\ w.outcomes[1][1] = Skill(i)
        BY <1>4, <1>8, <1>10, <2>1
      <3>2. ~(Len(m.files) > 1) /\ Path(i) = "skill"
        <4>1. Len(m.files) = 1
          BY <1>13, <2>1
        <4>2. Path(i) = "skill"
          BY <1>14, <2>1
        <4>3. ~(Len(m.files) > 1)
          BY <4>1
        <4> QED
          BY <4>2, <4>3
      <3>3. CASE m.plugin
        <4>1. w.pc = "resolve" /\ w.code # 0 /\ w.plugin
          BY <1>10, <1>11, <3>2, <3>3
        <4>2. w.pc \notin Installing
          BY <4>1 DEF Installing
        <4> QED
          BY <1>10, <3>1, <4>1, <4>2 DEF Progress
      <3>4. CASE ~m.plugin
        <4>1. w.pc = "ended" /\ w.code = 0 /\ ~w.plugin
          BY <1>10, <3>2, <3>4
        <4>2. w.pc \notin Installing
          BY <4>1 DEF Installing
        <4> QED
          BY <1>10, <3>1, <4>1, <4>2 DEF Progress
      <3> QED
        BY <3>3, <3>4
    <2>2. CASE k = 1
      <3>1. Len(w.outcomes) = 2 /\ w.outcomes[1][1] = Skill(i) /\ w.outcomes[2][1] = Manifest(i)
        BY <1>4, <1>8, <1>10, <1>12, <2>2
      <3>2. w.pc = "reject" /\ w.code # 0 /\ w.files = <<Hook(i, w.executable)>>
        <4>1. Len(m.files) = 2 /\ Tail(m.files) = <<Hook(i, m.executable)>>
          BY <1>13, <2>2
        <4>2. Len(m.files) > 1
          BY <4>1
        <4> QED
          BY <1>10, <1>11, <4>1, <4>2
      <3>3. w.plugin /\ w.executable \in Candidates /\ answers[w.executable][i] = "fits"
        BY <1>5, <1>10, <2>2
      <3>4. Ahead(i, w)
        BY <3>1, <3>2 DEF Ahead
      <3> QED
        BY <1>10, <3>1, <3>2, <3>3, <3>4 DEF Progress
    <2>3. CASE k = 2
      <3>1. /\ Len(w.outcomes) = 3 /\ w.outcomes[1][1] = Skill(i) /\ w.outcomes[2][1] = Manifest(i)
            /\ w.outcomes[3][1] = Hook(i, w.executable)
        BY <1>4, <1>8, <1>10, <1>12, <2>3
      <3>2. w.pc = "ended" /\ w.code = 0
        <4>1. Len(m.files) = 1
          BY <1>13, <2>3
        <4>2. Path(i) # "skill"
          BY <1>14, <2>3
        <4>3. ~(Len(m.files) > 1)
          BY <4>1
        <4> QED
          BY <1>10, <4>2, <4>3
      <3>3. w.plugin /\ w.executable \in Candidates /\ answers[w.executable][i] = "fits"
        BY <1>5, <1>10, <2>3
      <3>4. w.pc \notin Installing
        BY <3>2 DEF Installing
      <3> QED
        BY <1>10, <3>1, <3>2, <3>3, <3>4 DEF Progress
    <2> QED
      BY <1>3, <2>1, <2>2, <2>3
  <1> QED
    BY <1>15, <1>16, <1>17 DEF Sound, w
\* A command that gives up, or is killed, leaves the files and the others alone.
LEMMA GivenUpKeeps ==
  ASSUME InstallInvariant, NEW i \in Installs, NEW code \in {1, 9},
         Set(i, [Stop(i) EXCEPT !.code = code]),
         UNCHANGED <<target, answers, overwritten, changed>>
  PROVE  InstallInvariant'
  <1>1. Sound(i, [Stop(i) EXCEPT !.code = code], target', changed'[i])
    BY StopSound
  <1>2. /\ target' \in [InstalledFiles -> Things] /\ overwritten' = {} /\ UNCHANGED answers
        /\ changed' \in [Installs -> SUBSET InstalledFiles]
    BY DEF InstallInvariant
  <1>3. \A j \in Installs \ {i} :
          /\ changed[j] \subseteq changed'[j]
          /\ \A f \in InstalledFiles : target'[f] # target[f] => f \in changed'[j]
    OBVIOUS
  <1> QED
    BY <1>1, <1>2, <1>3, InstallStep

LEMMA DiscardKeeps ==
  ASSUME InstallInvariant, NEW i \in Installs, Discard(i)
  PROVE  InstallInvariant'
  <1>1. Stop(i) = [Stop(i) EXCEPT !.code = 1]
    BY DEF Stop, Started
  <1> QED
    BY <1>1, GivenUpKeeps DEF Discard

\* A run that has just looked at its file knows of no change since.
LEMMA DecidedKeeps ==
  ASSUME InstallInvariant, NEW i \in Installs, NEW r, Decided(i, r),
         Sound(i, r, target, changed[i] \ {Path(i)})
  PROVE  InstallInvariant'
  <1>1. /\ Set(i, r) /\ UNCHANGED <<target, answers, overwritten>>
        /\ changed' = [changed EXCEPT ![i] = @ \ {Path(i)}]
    BY DEF Decided, World
  <1>2. /\ target' \in [InstalledFiles -> Things] /\ overwritten' = {}
        /\ changed' \in [Installs -> SUBSET InstalledFiles]
        /\ changed'[i] = changed[i] \ {Path(i)}
        /\ \A j \in Installs \ {i} : changed'[j] = changed[j]
    BY <1>1 DEF InstallInvariant
  <1>3. Sound(i, r, target', changed'[i])
    BY <1>1, <1>2
  <1>4. \A j \in Installs \ {i} :
          /\ changed[j] \subseteq changed'[j]
          /\ \A f \in InstalledFiles : target'[f] # target[f] => f \in changed'[j]
    BY <1>1, <1>2
  <1> QED
    BY <1>1, <1>2, <1>3, <1>4, InstallStep

\* The calls of _install_file that change no file.
LEMMA InspectKeeps ==
  ASSUME InstallInvariant, NEW i \in Installs,
         Reject(i) \/ Look(i) \/ ReadExisting(i) \/ MakeParent(i) \/ WriteTemporary(i)
  PROVE  InstallInvariant'
  <1> DEFINE m == runs[i]
  <1>1. m \in InstallRecords
    BY DEF InstallInvariant, Sound, Progress
  <1>2. m.pc # "read" => (m.existed => m.force)
    BY DEF InstallInvariant, Sound, Permitted
  <1>3. CASE Reject(i)
    <2>1. m.pc = "reject" /\ m.pc \in Installing /\ "look" \in Installing \ {"replace"}
      BY <1>3 DEF Reject, In, Installing
    <2>2. CASE Alone(i, Stop(i))
      BY <2>2, StopKeeps
    <2>3. CASE Alone(i, To(i, "look"))
      BY <1>2, <2>1, <2>3, ToKeeps
    <2> QED
      BY <1>3, <2>2, <2>3 DEF Reject
  <1>4. CASE Look(i)
    <2>1. /\ m.pc = "look" /\ m.pc \in Installing
          /\ {"make parent", "read"} \subseteq Installing \ {"replace"}
      BY <1>4 DEF Look, In, Installing
    <2>2. CASE Alone(i, Stop(i))
      BY <2>2, StopKeeps
    <2>3. CASE Alone(i, To(i, "make parent"))
      BY <1>2, <2>1, <2>3, ToKeeps
    <2>4. CASE Alone(i, [To(i, "read") EXCEPT !.existed = TRUE])
      <3>1. [To(i, "read") EXCEPT !.existed = TRUE] = [m EXCEPT !.pc = "read", !.existed = TRUE]
        BY <1>1 DEF To, InstallRecords
      <3> QED
        BY <2>1, <2>4, <3>1, GoOnKeeps
    <2> QED
      BY <1>4, <2>2, <2>3, <2>4 DEF Look, Nothing, Directory, Thing
  <1>5. CASE ReadExisting(i)
    <2>1. /\ m.pc = "read" /\ m.pc \in Installing /\ "make parent" \in Installing \ {"replace"}
      BY <1>5 DEF ReadExisting, In, Installing
    <2>2. CASE Alone(i, Stop(i))
      BY <2>2, StopKeeps
    <2>3. CASE target[Path(i)] = Wanted(i) /\ Decided(i, Written(i, "current"))
      <3>1. Sound(i, Written(i, "current"), target, changed[i] \ {Path(i)})
        BY <2>1, <2>3, WrittenSound
      <3> QED
        BY <2>3, <3>1, DecidedKeeps
    <2>4. CASE m.force /\ Alone(i, To(i, "make parent"))
      BY <1>2, <2>1, <2>4, ToKeeps
    <2> QED
      BY <1>5, <2>2, <2>3, <2>4 DEF ReadExisting
  <1>6. CASE MakeParent(i)
    <2>1. /\ m.pc = "make parent" /\ m.pc \in Installing /\ "write" \in Installing \ {"replace"}
      BY <1>6 DEF MakeParent, In, Installing
    <2>2. CASE Alone(i, Stop(i))
      BY <2>2, StopKeeps
    <2>3. CASE Alone(i, To(i, "write"))
      BY <1>2, <2>1, <2>3, ToKeeps
    <2> QED
      BY <1>6, <2>2, <2>3 DEF MakeParent
  <1>7. CASE WriteTemporary(i)
    <2>1. /\ m.pc = "write" /\ m.pc \in Installing /\ "authorize" \in Installing \ {"replace"}
      BY <1>7 DEF WriteTemporary, In, Installing
    <2>2. CASE Alone(i, Stop(i))
      BY <2>2, StopKeeps
    <2>3. CASE Alone(i, To(i, "authorize"))
      BY <1>2, <2>1, <2>3, ToKeeps
    <2>4. CASE Discard(i)
      BY <2>4, DiscardKeeps
    <2> QED
      BY <1>7, <2>2, <2>3, <2>4 DEF WriteTemporary
  <1> QED
    BY <1>3, <1>4, <1>5, <1>6, <1>7

\* The last look: without --force, what was not there before must not be now.
LEMMA AuthorizeKeeps ==
  ASSUME InstallInvariant, NEW i \in Installs, Authorize(i)
  PROVE  InstallInvariant'
  <1> DEFINE there == target[Path(i)] # Nothing
             o == IF there THEN "replaced" ELSE "installed"
  <1>1. runs[i].pc = "authorize" /\ runs[i] \in InstallRecords
    BY DEF Authorize, In, InstallInvariant, Sound, Progress
  <1>2. CASE Discard(i)
    BY <1>2, DiscardKeeps
  <1>3. CASE ~(there /\ ~runs[i].existed /\ ~runs[i].force)
             /\ Decided(i, [To(i, "replace") EXCEPT !.outcome = o])
    <2>1. [To(i, "replace") EXCEPT !.outcome = o] = [runs[i] EXCEPT !.pc = "replace", !.outcome = o]
      BY <1>1 DEF To, InstallRecords
    <2>2. o \in {"installed", "replaced"}
      OBVIOUS
    <2>3. ~runs[i].force => runs[i].existed \/ target[Path(i)] = Nothing
      BY <1>3
    <2> HIDE DEF o
    <2>4. Sound(i, [runs[i] EXCEPT !.pc = "replace", !.outcome = o], target, changed[i] \ {Path(i)})
      BY <1>1, <2>2, <2>3, AuthorizedSound
    <2> QED
      BY <1>3, <2>1, <2>4, DecidedKeeps
  <1> QED
    BY <1>2, <1>3 DEF Authorize
\* The executable of the hook is one that answered that it fits; the plugin's
\* files come after it.
LEMMA PluginKeeps ==
  ASSUME InstallInvariant, NEW i \in Installs, Resolve(i) \/ DescribePlugin(i)
  PROVE  InstallInvariant'
  <1> DEFINE m == runs[i]
             n == m.candidate
  <1>1. /\ Progress(i, m) /\ InPlace(m, target, changed[i]) /\ m \in InstallRecords
        /\ ~m.force => (m.existed => m.pc = "read")
    BY DEF InstallInvariant, Sound, Progress, Permitted
  <1>2. CASE Alone(i, Stop(i))
    BY <1>2, StopKeeps
  <1>3. m.pc \in {"resolve", "plugin"} => Len(m.outcomes) = 1 /\ m.plugin /\ m.code # 0
    <2> SUFFICES ASSUME m.pc \in {"resolve", "plugin"} PROVE Len(m.outcomes) = 1 /\ m.plugin /\ m.code # 0
      OBVIOUS
    <2>1. Len(m.outcomes) = 1 /\ m.plugin
      BY <1>1 DEF Progress
    <2>2. m.code = 0 => Len(m.outcomes) = 3
      BY <1>1, <2>1 DEF Progress
    <2> QED
      BY <2>1, <2>2
  <1>4. CASE Resolve(i) /\ Alone(i, [runs[i] EXCEPT !.candidate = n + 1])
    <2> DEFINE r == [runs[i] EXCEPT !.candidate = n + 1]
    <2>1. m.pc = "resolve"
      BY <1>4 DEF Resolve, In
    <2>2. /\ r.pc = m.pc /\ r.existed = m.existed /\ r.force = m.force /\ r.plugin = m.plugin
          /\ r.outcomes = m.outcomes /\ r.executable = m.executable /\ r.code = m.code
          /\ r \in InstallRecords
      <3>1. n \in Nat \ {0}
        BY <1>1 DEF InstallRecords
      <3> DEFINE next == n + 1
      <3>2. next \in Nat \ {0}
        BY <3>1
      <3>3. r = [m EXCEPT !.candidate = next]
        OBVIOUS
      <3> HIDE DEF next, n, r, m
      <3> QED
        BY <1>1, <3>2, <3>3 DEF InstallRecords
    <2> HIDE DEF r
    <2>3. Progress(i, r)
      BY <1>1, <1>3, <2>1, <2>2 DEF Progress, Installing
    <2>4. InPlace(r, target, changed[i]) /\ Permitted(r, target, changed[i])
      BY <1>1, <2>1, <2>2 DEF InPlace, Permitted
    <2>5. Alone(i, r)
      BY <1>4 DEF r
    <2> QED
      BY <2>3, <2>4, <2>5, AloneKeeps DEF Sound
  <1>5. CASE Resolve(i) /\ n <= Len(Executables) /\ answers[Executables[n]][i] # "refused"
             /\ Alone(i, [To(i, "plugin") EXCEPT !.executable = Executables[n]])
    <2> DEFINE x == Executables[n]
               r == [runs[i] EXCEPT !.pc = "plugin", !.executable = x]
    <2>1. m.pc = "resolve"
      BY <1>5 DEF Resolve, In
    <2>2. x \in Candidates
      <3>1. n \in Nat \ {0}
        BY <1>1 DEF InstallRecords
      <3>2. n \in DOMAIN Executables
        BY <1>5, <3>1, InstallAssumption
      <3> QED
        BY <3>2 DEF Candidates
    <2>3. answers[x][i] = "fits"
      BY <1>5, <2>2 DEF InstallInvariant, Verdicts
    <2>4. [To(i, "plugin") EXCEPT !.executable = x] = r
      BY <1>1 DEF To, InstallRecords
    <2> HIDE DEF x
    <2>5. /\ r.pc = "plugin" /\ r.existed = m.existed /\ r.force = m.force /\ r.plugin = m.plugin
          /\ r.outcomes = m.outcomes /\ r.executable = x /\ r.code = m.code
          /\ r \in InstallRecords
      BY <1>1, <2>2 DEF InstallRecords, Installing
    <2>6. Alone(i, r)
      BY <1>5, <2>4 DEF x
    <2> HIDE DEF r
    <2>7. Progress(i, r)
      BY <1>1, <1>3, <2>1, <2>2, <2>3, <2>5 DEF Progress, Installing
    <2>8. InPlace(r, target, changed[i]) /\ Permitted(r, target, changed[i])
      BY <1>1, <2>1, <2>5 DEF InPlace, Permitted
    <2> QED
      BY <2>6, <2>7, <2>8, AloneKeeps DEF Sound
  <1>6. CASE DescribePlugin(i) /\ Alone(i, [To(i, "reject") EXCEPT !.files = claude_plugin_files(i)])
    <2> DEFINE x == m.executable
               plugin == <<Manifest(i), Hook(i, x)>>
               r == [runs[i] EXCEPT !.pc = "reject", !.files = plugin]
    <2>1. m.pc = "plugin"
      BY <1>6 DEF DescribePlugin, In
    <2>2. x \in Candidates /\ answers[x][i] = "fits"
      BY <1>1, <1>3, <2>1 DEF Progress
    <2>3. plugin \in Seq(Things)
      <3>1. Manifest(i) \in Things /\ Hook(i, x) \in Things
        BY <2>2 DEF Manifest, Hook, Thing, Things, InstalledFiles
      <3> QED
        BY <3>1
    <2>4. [To(i, "reject") EXCEPT !.files = claude_plugin_files(i)] = r
      BY <1>1 DEF To, InstallRecords, claude_plugin_files, Manifest, Hook
    <2>5. plugin = <<Manifest(i), Hook(i, x)>>
      OBVIOUS
    <2> HIDE DEF x, plugin
    <2>6. /\ r.pc = "reject" /\ r.existed = m.existed /\ r.force = m.force /\ r.plugin = m.plugin
          /\ r.outcomes = m.outcomes /\ r.executable = m.executable /\ r.code = m.code
          /\ r.files = plugin /\ r \in InstallRecords
      BY <1>1, <2>3 DEF InstallRecords, Installing
    <2>7. Alone(i, r)
      BY <1>6, <2>4
    <2> HIDE DEF r
    <2>8. Ahead(i, r)
      <3>1. Len(r.outcomes) = 1
        BY <1>3, <2>1, <2>6
      <3>2. r.files = <<Manifest(i), Hook(i, r.executable)>>
        BY <2>5, <2>6 DEF x
      <3> HIDE DEF m
      <3> QED
        BY <3>1, <3>2 DEF Ahead
    <2>9. Progress(i, r)
      BY <1>1, <1>3, <2>1, <2>2, <2>6, <2>8 DEF Progress, x
    <2>10. InPlace(r, target, changed[i]) /\ Permitted(r, target, changed[i])
      BY <1>1, <2>1, <2>6 DEF InPlace, Permitted
    <2> QED
      BY <2>7, <2>9, <2>10, AloneKeeps DEF Sound
  <1>7. CASE Resolve(i)
    <2>1. /\ n > Len(Executables) => Alone(i, Stop(i))
          /\ ~(n > Len(Executables)) =>
               IF answers[Executables[n]][i] = "refused"
                 THEN Alone(i, [runs[i] EXCEPT !.candidate = n + 1])
                 ELSE Alone(i, [To(i, "plugin") EXCEPT !.executable = Executables[n]])
      BY <1>7 DEF Resolve
    <2>2. ~(n > Len(Executables)) => n <= Len(Executables)
      <3>1. n \in Nat /\ Len(Executables) \in Nat
        BY <1>1, InstallAssumption DEF InstallRecords
      <3> HIDE DEF n
      <3> QED
        BY <3>1
    <2> QED
      BY <1>2, <1>4, <1>5, <1>7, <2>1, <2>2, Zenon
  <1>8. CASE DescribePlugin(i)
    BY <1>2, <1>6, <1>8 DEF DescribePlugin
  <1> QED
    BY <1>7, <1>8

\* The rename: what it replaces came after the last look, was asked for, or is
\* nothing.
LEMMA ReplaceKeeps ==
  ASSUME InstallInvariant, NEW i \in Installs, Replace(i)
  PROVE  InstallInvariant'
  <1> DEFINE m == runs[i]
  <1>1. m.pc = "replace" /\ m.pc \in Installing
    BY DEF Replace, In, Installing
  <1>2. /\ Progress(i, m) /\ m \in InstallRecords
        /\ Permitted(m, target, changed[i]) /\ changed[i] \in SUBSET InstalledFiles
    BY DEF InstallInvariant, Sound, Progress
  <1>3. Path(i) = Head(m.files).kind /\ Wanted(i) = Head(m.files) /\ Path(i) \in InstalledFiles
    BY <1>1, <1>2, AtFile DEF Path, Wanted, Remaining
  <1>4. Wanted(i) \in Things
    <2>1. m.executable \in Candidates \cup {None} /\ Len(m.outcomes) \in {0, 1, 2}
      BY <1>1, <1>2, AtFile DEF InstallRecords
    <2>2. Wanted(i) \in {Skill(i), Manifest(i), Hook(i, m.executable)}
      BY <1>1, <1>2, <1>3, <2>1, AtFile
    <2> QED
      BY <2>1, <2>2 DEF Skill, Manifest, Hook, Thing, Things, InstalledFiles
  <1>5. CASE Discard(i)
    BY <1>5, DiscardKeeps
  <1>6. CASE ~Discard(i)
    <2>1. /\ target' = [target EXCEPT ![Path(i)] = Wanted(i)]
          /\ Set(i, Written(i, m.outcome))
          /\ changed' = [j \in Installs |-> IF j = i THEN changed[i] \ {Path(i)} ELSE changed[j] \cup {Path(i)}]
          /\ overwritten' =
               IF target[Path(i)] # Nothing /\ ~m.force /\ Path(i) \notin changed[i]
                 THEN overwritten \cup {<<i, Path(i)>>} ELSE overwritten
          /\ UNCHANGED answers
      BY <1>6 DEF Replace
    <2>2. overwritten' = {}
      BY <1>1, <1>2, <1>3, <2>1 DEF Permitted, InstallInvariant
    <2>3. /\ target' \in [InstalledFiles -> Things] /\ target'[Path(i)] = Wanted(i)
          /\ \A f \in InstalledFiles : f # Path(i) => target'[f] = target[f]
      BY <1>3, <1>4, <2>1 DEF InstallInvariant
    <2>4. /\ changed' \in [Installs -> SUBSET InstalledFiles] /\ changed'[i] = changed[i] \ {Path(i)}
          /\ \A j \in Installs \ {i} : changed'[j] = changed[j] \cup {Path(i)}
      BY <1>3, <2>1 DEF InstallInvariant
    <2>5. m.outcome \in {None, "installed", "replaced", "current"}
      BY <1>2 DEF InstallRecords
    <2>6. Sound(i, Written(i, m.outcome), target', changed'[i])
      <3> DEFINE there == target'
                 since == changed'[i]
      <3>1. there[Path(i)] = Wanted(i) /\ \A f \in InstalledFiles : f # Path(i) => there[f] = target[f]
        BY <2>3
      <3>2. since = changed[i] \ {Path(i)}
        BY <2>4
      <3> HIDE DEF there, since
      <3>3. Sound(i, Written(i, m.outcome), there, since)
        BY <1>1, <2>5, <3>1, <3>2, WrittenSound
      <3> QED
        BY <3>3 DEF there, since
    <2>7. \A j \in Installs \ {i} :
            /\ changed[j] \subseteq changed'[j]
            /\ \A f \in InstalledFiles : target'[f] # target[f] => f \in changed'[j]
      BY <2>3, <2>4
    <2> QED
      BY <2>1, <2>2, <2>3, <2>4, <2>6, <2>7, InstallStep
  <1> QED
    BY <1>5, <1>6

\* Others change the files; every run is told.
LEMMA MeddleKeeps ==
  ASSUME InstallInvariant, Meddle
  PROVE  InstallInvariant'
  <1>1. PICK f \in InstalledFiles :
          /\ \/ \E x \in {Nothing, Directory, Other} \ {target[f]} :
                  target' = [target EXCEPT ![f] = x] /\ UNCHANGED linked
             \/ linked' = [linked EXCEPT ![f] = ~@] /\ UNCHANGED target
          /\ changed' = [j \in Installs |-> changed[j] \cup {f}]
    BY DEF Meddle
  <1>2. UNCHANGED <<answers, runs, overwritten>>
    BY DEF Meddle
  <1>3. /\ target' \in [InstalledFiles -> Things]
        /\ \A g \in InstalledFiles : target'[g] # target[g] => g = f
    BY <1>1 DEF InstallInvariant, Nothing, Directory, Other, Thing, Things
  <1>4. /\ changed' \in [Installs -> SUBSET InstalledFiles]
        /\ \A j \in Installs : changed'[j] = changed[j] \cup {f}
    BY <1>1 DEF InstallInvariant
  <1>5. ASSUME NEW j \in Installs PROVE Sound(j, runs[j], target, changed[j])'
    <2>1. Sound(j, runs[j], target, changed[j])
      BY DEF InstallInvariant
    <2>2. changed[j] \subseteq changed'[j] /\ \A g \in InstalledFiles : target'[g] # target[g] => g \in changed'[j]
      BY <1>3, <1>4
    <2>3. Sound(j, runs[j], target', changed'[j])
      BY <2>1, <2>2, OthersSound
    <2> QED
      BY <1>2, <2>3 DEF Sound, Progress, InPlace, Permitted
  <1> QED
    BY <1>2, <1>3, <1>4, <1>5 DEF InstallInvariant

LEMMA InstallStarts == InstallInit => InstallInvariant
  <1> SUFFICES ASSUME InstallInit PROVE InstallInvariant
    OBVIOUS
  <1>1. /\ target \in [InstalledFiles -> Things] /\ overwritten = {}
        /\ answers \in [Candidates -> [Installs -> Verdicts]]
        /\ changed \in [Installs -> SUBSET InstalledFiles]
        /\ \A i \in Installs : changed[i] = {}
    BY DEF InstallInit, Nothing, Other, Thing, Things, Candidates
  <1>2. PICK force, plugin \in [Installs -> BOOLEAN] :
          runs = [i \in Installs |-> Started(i, force[i], plugin[i])]
    BY DEF InstallInit
  <1>3. ASSUME NEW i \in Installs PROVE Sound(i, runs[i], target, changed[i])
    <2> DEFINE r == runs[i]
    <2>1. r = Started(i, force[i], plugin[i]) /\ force[i] \in BOOLEAN /\ plugin[i] \in BOOLEAN
      BY <1>2
    <2>2. <<Skill(i)>> \in Seq(Things)
      <3>1. Skill(i) \in Things
        BY DEF Skill, Thing, Things, InstalledFiles
      <3> QED
        BY <3>1
    <2>3. /\ r.pc = "reject" /\ r.existed = FALSE /\ r.files = <<Skill(i)>> /\ r.outcomes = <<>>
          /\ r.code = None /\ r \in InstallRecords
      <3>1. /\ r.pc = "reject" /\ r.existed = FALSE /\ r.files = <<Skill(i)>> /\ r.outcomes = <<>>
            /\ r.code = None
        BY <2>1 DEF Started, Skill
      <3>2. r \in InstallRecords
        BY <2>1, <2>2 DEF Started, Skill, InstallRecords, Installing
      <3> QED
        BY <3>1, <3>2
    <2> HIDE DEF r
    <2>4. r.code # 0
      BY <2>3, InstallAssumption
    <2>5. Progress(i, r)
      BY <2>3, <2>4 DEF Progress, Ahead, Installing
    <2>6. InPlace(r, target, changed[i]) /\ Permitted(r, target, changed[i])
      BY <2>3 DEF InPlace, Permitted
    <2> QED
      BY <2>5, <2>6 DEF Sound, r
  <1>4. DOMAIN runs = Installs
    BY <1>2
  <1> QED
    BY <1>1, <1>3, <1>4 DEF InstallInvariant

LEMMA InstallKept == InstallInvariant /\ [InstallNext]_installing => InstallInvariant'
  <1> SUFFICES ASSUME InstallInvariant, [InstallNext]_installing PROVE InstallInvariant'
    OBVIOUS
  <1>1. CASE Meddle
    BY <1>1, MeddleKeeps
  <1>2. ASSUME NEW i \in Installs, Install(i) PROVE InstallInvariant'
    BY <1>2, InspectKeeps, AuthorizeKeeps, ReplaceKeeps, PluginKeeps DEF Install
  <1>3. ASSUME NEW i \in Installs, KillInstall(i) PROVE InstallInvariant'
    BY <1>3, GivenUpKeeps DEF KillInstall
  <1>4. CASE UNCHANGED installing
    BY <1>4 DEF installing, InstallInvariant, Sound, Progress, InPlace, Permitted
  <1> QED
    BY <1>1, <1>2, <1>3, <1>4 DEF InstallNext

\* No install replaces what it could see and was not asked to replace, and one
\* that exits with 0 has all its files in place, the hook's executable having
\* said that it is of that version.
THEOREM InstalledIsWanted == InstallSpec => []InstallTrue
  <1>1. InstallInvariant => InstallTrue
    <2> SUFFICES ASSUME InstallInvariant, NEW i \in Installs, runs[i].code = 0
                 PROVE  /\ Len(runs[i].outcomes) = IF runs[i].plugin THEN 3 ELSE 1
                        /\ \A n \in DOMAIN runs[i].outcomes :
                             LET p == runs[i].outcomes[n][1] IN
                             /\ target[p.kind] = p \/ p.kind \in changed[i]
                             /\ p.kind = "hook" => answers[p.names][i] = "fits"
      BY DEF InstallInvariant, InstallTrue
    <2> DEFINE m == runs[i]
    <2>1. Progress(i, m) /\ InPlace(m, target, changed[i])
      BY DEF InstallInvariant, Sound
    <2>2. Len(m.outcomes) = IF m.plugin THEN 3 ELSE 1
      BY <2>1 DEF Progress
    <2>3. ASSUME NEW n \in DOMAIN m.outcomes, m.outcomes[n][1].kind = "hook"
          PROVE  answers[m.outcomes[n][1].names][i] = "fits"
      <3>1. m.outcomes \in Seq(Things \X {None, "installed", "replaced", "current"})
        BY <2>1 DEF Progress, InstallRecords
      <3>2. n = 1 \/ n = 2 \/ n = 3
        BY <2>1, <3>1 DEF Progress
      <3>3. Len(m.outcomes) >= n
        BY <3>1
      <3>4. n = 1 => m.outcomes[n][1] = Skill(i)
        BY <2>1, <3>3 DEF Progress
      <3>5. n = 2 => m.outcomes[n][1] = Manifest(i)
        BY <2>1, <3>3 DEF Progress
      <3>6. n = 3
        BY <2>3, <3>2, <3>4, <3>5 DEF Skill, Manifest, Thing
      <3>7. m.outcomes[n][1] = Hook(i, m.executable)
        BY <2>1, <3>3, <3>6 DEF Progress
      <3>8. Len(m.outcomes) # 1
        BY <3>1, <3>6
      <3>9. answers[m.executable][i] = "fits"
        <4>1. m.plugin
          BY <2>2, <3>8
        <4>2. m.pc # "resolve"
          BY <2>1, <3>8 DEF Progress
        <4>3. Len(m.outcomes) >= 1
          BY <2>2, <4>1
        <4> QED
          BY <2>1, <4>1, <4>2, <4>3 DEF Progress
      <3> QED
        BY <3>7, <3>9 DEF Hook, Thing
    <2> QED
      BY <2>1, <2>2, <2>3 DEF InPlace
  <1> QED
    BY <1>1, InstallStarts, InstallKept, PTL DEF InstallSpec

(***************************************************************************)
(* The repository's own glossary.                                          *)
(***************************************************************************)
\* The link rule was applied, and allowed what stood at the name.
LinkJudged ==
  /\ judged_at \in Nat /\ judged_at <= replacements
  /\ judged_at = replacements /\ ByName # None => EntryKind[ByName].refusal = None

\* At each point, what has been seen: an exact name that is not there, or was
\* not listed, was gone at some time; what is read was judged.
DiscoverySees ==
  /\ exact = None => gone_once
  /\ first = "alternate" => gone_once
  /\ at \in {"confirm", "confirm again"} /\ ~listed.exact => gone_once
  /\ at \in {"kind", "read"} => LinkJudged
  /\ at = "compare" =>
       /\ judged_at \in Nat /\ judged_at <= replacements /\ taken \in Entries
       /\ judged_at = replacements => EntryKind[taken].refusal = None

\* What a comparison may have reported.
Compared ==
  section # None /\ section.divergence # None =>
    \/ /\ section.divergence.missing = {} /\ section.divergence.superseded = {}
       /\ ~section.divergence.complete
    \/ /\ glossary_in_use # None
       /\ section.divergence = Divergence(glossary_in_use, FoldedText[taken])

DiscoveryInvariant ==
  /\ exact \in Entries \cup {None} /\ alternate \in Entries \cup {None}
  /\ platform.sensitive \in BOOLEAN /\ replacements \in Nat /\ gone_once \in BOOLEAN
  /\ glossary_in_use \in Settled
  /\ section # None => at = "compared"
  /\ DiscoverySees /\ DiscoveryTrue /\ Compared

\* A section that says only that the file cannot be read, or that it is absent.
LEMMA DecideKeeps ==
  ASSUME DiscoveryInvariant, NEW s, Decide(s), UNCHANGED taken,
         s.divergence = None, s.readable = FALSE, ~s.present => gone_once
  PROVE  DiscoveryInvariant'
  <1>1. /\ UNCHANGED <<exact, alternate, platform, replacements, gone_once, first, glossary_in_use>>
        /\ at' = "compared" /\ section' = s
    BY DEF Decide, Rest, fs
  <1>2. DiscoverySees'
    BY <1>1 DEF DiscoveryInvariant, DiscoverySees
  <1>3. DiscoveryTrue' /\ Compared'
    BY <1>1 DEF DiscoveryTrue, Compared
  <1> QED
    BY <1>1, <1>2, <1>3 DEF DiscoveryInvariant

\* A step to the next look.
LEMMA GoToKeeps ==
  ASSUME DiscoveryInvariant, NEW p, GoTo(p), at # "compared", DiscoverySees'
  PROVE  DiscoveryInvariant'
  <1>1. /\ UNCHANGED <<exact, alternate, platform, replacements, gone_once, glossary_in_use, section>>
        /\ section = None
    BY DEF GoTo, Rest, fs, DiscoveryInvariant
  <1> QED
    BY <1>1 DEF DiscoveryInvariant, DiscoveryTrue, Compared

LEMMA UnconfirmedKeeps ==
  ASSUME DiscoveryInvariant, Unconfirmed
  PROVE  DiscoveryInvariant'
  BY DecideKeeps DEF Unconfirmed, _unreadable

\* entry_named_exactly.
LEMMA ConfirmKeeps ==
  ASSUME DiscoveryInvariant, Lookup \/ ListRoot \/ ConfirmName \/ FailToConfirm
  PROVE  DiscoveryInvariant'
  <1>1. CASE Lookup
    <2>1. CASE ByName # None
      <3>1. PICK p \in {"list", "list again"} : GoTo(p)
        BY <1>1, <2>1 DEF Lookup
      <3>2. UNCHANGED <<first, taken, judged_at, exact, gone_once>> /\ at' = p /\ at # "compared"
        BY <1>1, <2>1, <3>1 DEF Lookup, GoTo, Rest, fs
      <3>3. DiscoverySees'
        BY <3>2 DEF DiscoveryInvariant, DiscoverySees
      <3> QED
        BY <3>1, <3>2, <3>3, GoToKeeps
    <2>2. CASE ByName = None
      <3>1. gone_once
        BY <2>2 DEF ByName, DiscoveryInvariant, DiscoverySees
      <3>2. Decide(Absence) \/ Unconfirmed
        BY <1>1, <2>2 DEF Lookup, Unconfirmed
      <3>3. CASE Decide(Absence)
        <4>1. UNCHANGED taken
          BY <1>1 DEF Lookup
        <4> QED
          BY <3>1, <3>3, <4>1, DecideKeeps DEF Absence
      <3> QED
        BY <3>2, <3>3, UnconfirmedKeeps
    <2> QED
      BY <2>1, <2>2
  <1>2. CASE ListRoot
    <2>1. PICK p \in {"confirm", "confirm again"} : GoTo(p)
      BY <1>2 DEF ListRoot
    <2>2. /\ UNCHANGED <<first, taken, judged_at, exact, gone_once>> /\ at' = p /\ at # "compared"
          /\ listed' = [exact |-> exact # None, alternate |-> alternate # None]
      BY <1>2, <2>1 DEF ListRoot, GoTo, Rest, fs
    <2>3. DiscoverySees'
      BY <2>2 DEF DiscoveryInvariant, DiscoverySees
    <2> QED
      BY <2>1, <2>2, <2>3, GoToKeeps
  <1>3. CASE ConfirmName
    <2> DEFINE state == _listed_name_state
    <2>1. at \in {"confirm", "confirm again"} /\ (state = "alternate" => gone_once)
      BY <1>3 DEF ConfirmName, _listed_name_state, DiscoveryInvariant, DiscoverySees
    <2>2. CASE Unconfirmed
      BY <2>2, UnconfirmedKeeps
    <2>3. CASE at = "confirm" /\ first' = state /\ GoTo("lookup again")
               /\ UNCHANGED <<looked, listed, taken, judged_at>>
      <3>1. UNCHANGED <<taken, judged_at, exact, gone_once>> /\ at' = "lookup again"
        BY <2>3 DEF GoTo, Rest, fs
      <3>2. DiscoverySees'
        BY <2>1, <2>3, <3>1 DEF DiscoveryInvariant, DiscoverySees
      <3> QED
        BY <2>1, <2>3, <3>2, GoToKeeps
    <2>4. CASE state = first /\ first = "alternate" /\ Decide(Absence) /\ UNCHANGED taken
      BY <2>1, <2>4, DecideKeeps DEF Absence
    <2>5. CASE at = "confirm again" /\ GoTo("link") /\ UNCHANGED <<looked, listed, first, taken, judged_at>>
      <3>1. UNCHANGED <<taken, judged_at, exact, gone_once, first>> /\ at' = "link"
        BY <2>5 DEF GoTo, Rest, fs
      <3>2. DiscoverySees'
        BY <2>5, <3>1 DEF DiscoveryInvariant, DiscoverySees
      <3> QED
        BY <2>1, <2>5, <3>2, GoToKeeps
    <2> HIDE DEF state
    <2> QED
      BY <1>3, <2>2, <2>3, <2>4, <2>5 DEF ConfirmName, state
  <1>4. CASE FailToConfirm
    BY <1>4, UnconfirmedKeeps DEF FailToConfirm
  <1> QED
    BY <1>1, <1>2, <1>3, <1>4

\* _read_repository_glossary, up to the text.
LEMMA ReadKeeps ==
  ASSUME DiscoveryInvariant, CheckLink \/ CheckKind \/ ReadBounded
  PROVE  DiscoveryInvariant'
  <1>1. ASSUME NEW why, Decide(_unreadable(why)), UNCHANGED taken PROVE DiscoveryInvariant'
    BY <1>1, DecideKeeps DEF _unreadable
  <1>2. ByName \in Entries \cup {None}
    BY DEF ByName, DiscoveryInvariant
  <1>3. CASE CheckLink
    <2>1. CASE Decide(_unreadable(EntryKind[ByName].refusal))
      BY <1>1, <1>3, <2>1 DEF CheckLink
    <2>2. CASE /\ ByName # None => ~EntryKind[ByName].link \/ EntryKind[ByName].refusal = None
               /\ judged_at' = replacements
               /\ GoTo("kind") /\ UNCHANGED <<looked, listed, first>>
      <3>1. /\ UNCHANGED <<taken, exact, alternate, platform, gone_once, first, replacements>>
            /\ at' = "kind" /\ at = "link"
        BY <1>3, <2>2 DEF CheckLink, GoTo, Rest, fs
      <3>2. ByName # None => EntryKind[ByName].refusal = None
        BY <1>2, <2>2, EntryAssumption
      <3>3. ByName' = ByName
        BY <3>1 DEF ByName
      <3>4. LinkJudged'
        BY <2>2, <3>1, <3>2, <3>3 DEF LinkJudged, DiscoveryInvariant
      <3>5. DiscoverySees'
        BY <3>1, <3>4 DEF DiscoveryInvariant, DiscoverySees
      <3> QED
        BY <2>2, <3>1, <3>5, GoToKeeps
    <2> QED
      BY <1>3, <2>1, <2>2 DEF CheckLink
  <1>4. CASE CheckKind
    <2>1. CASE Decide(_unreadable("not-a-regular-file"))
      BY <1>1, <1>4, <2>1 DEF CheckKind
    <2>2. CASE GoTo("read") /\ UNCHANGED <<looked, listed, first, judged_at>>
      <3>1. /\ UNCHANGED <<taken, exact, alternate, platform, gone_once, first, replacements, judged_at>>
            /\ at' = "read" /\ at = "kind"
        BY <1>4, <2>2 DEF CheckKind, GoTo, Rest, fs
      <3>2. ByName' = ByName
        BY <3>1 DEF ByName
      <3>3. LinkJudged'
        BY <3>1, <3>2 DEF LinkJudged, DiscoveryInvariant, DiscoverySees
      <3>4. DiscoverySees'
        BY <3>1, <3>3 DEF DiscoveryInvariant, DiscoverySees
      <3> QED
        BY <2>2, <3>1, <3>4, GoToKeeps
    <2> QED
      BY <1>4, <2>1, <2>2 DEF CheckKind
  <1>5. CASE ReadBounded
    <2>1. CASE Decide(_unreadable("unreadable")) /\ UNCHANGED taken
      BY <1>1, <2>1
    <2>2. CASE Decide(_unreadable(EntryKind[ByName].kind)) /\ UNCHANGED taken
      BY <1>1, <2>2
    <2>3. CASE /\ ByName # None /\ taken' = ByName
               /\ GoTo("compare") /\ UNCHANGED <<looked, listed, first, judged_at>>
      <3>1. /\ UNCHANGED <<exact, gone_once, first, replacements, judged_at>>
            /\ at' = "compare" /\ at = "read"
        BY <1>5, <2>3 DEF ReadBounded, GoTo, Rest, fs
      <3>2. LinkJudged
        BY <3>1 DEF DiscoveryInvariant, DiscoverySees
      <3>3. DiscoverySees'
        BY <1>2, <2>3, <3>1, <3>2 DEF DiscoveryInvariant, DiscoverySees, LinkJudged
      <3> QED
        BY <2>3, <3>1, <3>3, GoToKeeps
    <2> QED
      BY <1>5, <2>1, <2>2, <2>3 DEF ReadBounded
  <1> QED
    BY <1>3, <1>4, <1>5

LEMMA CompareKeeps ==
  ASSUME DiscoveryInvariant, Compare
  PROVE  DiscoveryInvariant'
  <1> DEFINE d == IF glossary_in_use = None THEN None
                  ELSE IF EntryKind[taken].kind = "expanding"
                    THEN [NoDivergence EXCEPT !.skipped = Cardinality(Asked(glossary_in_use))]
                  ELSE Divergence(glossary_in_use, FoldedText[taken])
  <1>1. /\ UNCHANGED <<exact, alternate, platform, replacements, gone_once, first, glossary_in_use,
                      taken, judged_at>>
        /\ at = "compare" /\ at' = "compared"
        /\ section' = [present |-> TRUE, readable |-> TRUE, reason |-> None, divergence |-> d]
    BY DEF Compare, Decide, Rest, fs
  <1>2. \/ d = None
        \/ d.missing = {} /\ d.superseded = {} /\ ~d.complete
        \/ glossary_in_use # None /\ d = Divergence(glossary_in_use, FoldedText[taken])
    BY DEF NoDivergence
  <1> HIDE DEF d
  <1>3. section'.present /\ section'.divergence = d
    BY <1>1
  <1>4. DiscoverySees'
    BY <1>1 DEF DiscoveryInvariant, DiscoverySees
  <1>5. DiscoveryTrue'
    <2>1. EntryKind[taken].refusal = None \/ judged_at < replacements
      BY <1>1 DEF DiscoveryInvariant, DiscoverySees
    <2> QED
      BY <1>1, <1>3, <2>1 DEF DiscoveryTrue
  <1>6. Compared'
    BY <1>1, <1>2, <1>3 DEF Compared
  <1> QED
    BY <1>1, <1>4, <1>5, <1>6 DEF DiscoveryInvariant

\* Others change what stands at the name.
LEMMA AlterKeeps ==
  ASSUME DiscoveryInvariant, NEW x \in Entries \cup {None}, NEW y \in Entries \cup {None}, Alter(x, y)
  PROVE  DiscoveryInvariant'
  <1>1. /\ UNCHANGED <<platform, glossary_in_use, at, listed, first, section, taken, judged_at>>
        /\ exact' = x /\ alternate' = y /\ replacements' = replacements + 1
        /\ gone_once' = (gone_once \/ x = None) /\ section = None /\ at # "compared"
    BY DEF Alter, DiscoveryInvariant
  <1>2. ASSUME at \in {"kind", "read"} PROVE LinkJudged'
    <2>1. judged_at \in Nat /\ judged_at <= replacements /\ replacements \in Nat
      BY <1>2 DEF DiscoveryInvariant, DiscoverySees, LinkJudged
    <2>2. judged_at' \in Nat /\ judged_at' <= replacements' /\ judged_at' # replacements'
      BY <1>1, <2>1
    <2> QED
      BY <2>2 DEF LinkJudged
  <1>3. at = "compare" => judged_at <= replacements' /\ judged_at # replacements'
    BY <1>1 DEF DiscoveryInvariant, DiscoverySees
  <1>4. DiscoverySees'
    BY <1>1, <1>2, <1>3 DEF DiscoveryInvariant, DiscoverySees
  <1> QED
    BY <1>1, <1>4 DEF DiscoveryInvariant, DiscoveryTrue, Compared

LEMMA DiscoveryKept == DiscoveryInvariant /\ [DiscoveryNext]_discovered => DiscoveryInvariant'
  <1> SUFFICES ASSUME DiscoveryInvariant, [DiscoveryNext]_discovered PROVE DiscoveryInvariant'
    OBVIOUS
  <1>1. CASE Discover
    BY <1>1, ConfirmKeeps, ReadKeeps, CompareKeeps DEF Discover
  <1>2. CASE ReplaceEntry
    BY <1>2, AlterKeeps DEF ReplaceEntry, DiscoveryInvariant
  <1>3. CASE UNCHANGED discovered
    BY <1>3 DEF discovered, fs, DiscoveryInvariant, DiscoverySees, LinkJudged, ByName, DiscoveryTrue,
              Compared
  <1> QED
    BY <1>1, <1>2, <1>3 DEF DiscoveryNext

\* What a comparison reports is so; called complete, it is all there is.
LEMMA DivergenceSound ==
  ASSUME NEW concepts, NEW text
  PROVE  LET d == Divergence(concepts, text)
             lost == {i \in DOMAIN concepts : concepts[i].term \notin text}
         IN /\ d.missing \subseteq lost
            /\ \A q \in d.superseded : q[1] \in lost /\ Term(concepts[q[1]], q[2]) \in text
            /\ d.complete =>
                 /\ d.missing = lost
                 /\ \A i \in lost : \A j \in _superseded_aliases(concepts[i]) :
                      concepts[i].aliases[j].term \in text /\ j # 0 => <<i, j>> \in d.superseded
  <1> DEFINE asked == Asked(concepts)
             checked == {q \in asked : Cardinality({p \in asked : Before(p, q)}) < MAX_DIVERGENCE_TERMS}
             missing == {i \in DOMAIN concepts : <<i, 0>> \in checked /\ concepts[i].term \notin text}
             superseded == {q \in checked : q[2] # 0 /\ q[1] \in missing /\ Term(concepts[q[1]], q[2]) \in text}
             lost == {i \in DOMAIN concepts : concepts[i].term \notin text}
             d == Divergence(concepts, text)
  <1>1. d.missing = missing /\ d.superseded = superseded /\ (d.complete <=> asked \ checked = {})
    BY DEF Divergence
  <1>2. missing \subseteq lost /\ \A q \in superseded : q[1] \in lost /\ Term(concepts[q[1]], q[2]) \in text
    OBVIOUS
  <1>3. \A i \in DOMAIN concepts :
          <<i, 0>> \in asked /\ \A j \in _superseded_aliases(concepts[i]) : <<i, j>> \in asked
    BY DEF Asked
  <1> HIDE DEF asked, d
  <1>4. asked \ checked = {} =>
          /\ missing = lost
          /\ \A i \in lost : \A j \in _superseded_aliases(concepts[i]) :
               concepts[i].aliases[j].term \in text /\ j # 0 => <<i, j>> \in superseded
    <2> SUFFICES ASSUME asked \ checked = {}
                 PROVE  /\ missing = lost
                        /\ \A i \in lost : \A j \in _superseded_aliases(concepts[i]) :
                             concepts[i].aliases[j].term \in text /\ j # 0 => <<i, j>> \in superseded
      OBVIOUS
    <2>1. asked \subseteq checked
      OBVIOUS
    <2> HIDE DEF checked
    <2>2. missing = lost
      BY <1>3, <2>1
    <2>3. ASSUME NEW i \in lost, NEW j \in _superseded_aliases(concepts[i]), j # 0,
                 concepts[i].aliases[j].term \in text
          PROVE  <<i, j>> \in superseded
      BY <1>3, <2>1, <2>2, <2>3 DEF Term
    <2> QED
      BY <2>2, <2>3
  <1> HIDE DEF missing, superseded, checked
  <1> QED
    BY <1>1, <1>2, <1>4 DEF d

\* GLOSSARY.md is called absent only if it was at some time, what is called
\* readable is nothing the link rule refuses, and a term is called missing, or
\* none is, only of the text that was read.
THEOREM SectionOfTheFile == DiscoverySpec => []SectionTrue
  <1>1. DiscoveryInit => DiscoveryInvariant
    <2> SUFFICES ASSUME DiscoveryInit PROVE DiscoveryInvariant
      OBVIOUS
    <2>1. /\ exact \in Entries \cup {None} /\ alternate \in Entries \cup {None}
          /\ platform.sensitive \in BOOLEAN /\ replacements = 0 /\ gone_once \in BOOLEAN
          /\ glossary_in_use \in Settled /\ section = None /\ (gone_once <=> exact = None)
      BY DEF DiscoveryInit
    <2>2. at = "lookup" /\ first = "unknown"
      BY DEF DiscoveryInit
    <2>3. DiscoverySees
      BY <2>1, <2>2 DEF DiscoverySees
    <2> QED
      BY <2>1, <2>3 DEF DiscoveryInvariant, DiscoveryTrue, Compared
  <1>2. DiscoveryInvariant => SectionTrue
    <2> SUFFICES ASSUME DiscoveryInvariant PROVE SectionTrue
      OBVIOUS
    <2> DEFINE d == section.divergence
               lost == {c \in DOMAIN glossary_in_use : TrulyMissing(c)}
    <2>1. CASE section = None \/ d = None
      BY <2>1 DEF DiscoveryInvariant, SectionTrue, DivergenceTrue
    <2>2. CASE d.missing = {} /\ d.superseded = {} /\ ~d.complete
      BY <2>2 DEF DiscoveryInvariant, SectionTrue, DivergenceTrue
    <2>3. CASE glossary_in_use # None /\ d = Divergence(glossary_in_use, FoldedText[taken])
      <3>1. \A i \in DOMAIN glossary_in_use : 0 \notin _superseded_aliases(glossary_in_use[i])
        BY <2>3, EntryAssumption DEF DiscoveryInvariant, _superseded_aliases
      <3>2. lost = {i \in DOMAIN glossary_in_use : glossary_in_use[i].term \notin FoldedText[taken]}
        BY DEF TrulyMissing
      <3> HIDE DEF d, lost
      <3>3. /\ d.missing \subseteq lost
            /\ \A q \in d.superseded :
                 q[1] \in lost /\ Term(glossary_in_use[q[1]], q[2]) \in FoldedText[taken]
            /\ d.complete =>
                 /\ d.missing = lost
                 /\ \A i \in lost : \A j \in _superseded_aliases(glossary_in_use[i]) :
                      glossary_in_use[i].aliases[j].term \in FoldedText[taken] /\ j # 0 =>
                        <<i, j>> \in d.superseded
        BY <2>3, <3>2, DivergenceSound, Zenon
      <3> QED
        BY <3>1, <3>2, <3>3 DEF DiscoveryInvariant, SectionTrue, DivergenceTrue, d, lost
    <2> QED
      BY <2>1, <2>2, <2>3 DEF DiscoveryInvariant, Compared
  <1> QED
    BY <1>1, <1>2, DiscoveryKept, PTL DEF DiscoverySpec

(***************************************************************************)
(* The Git stamp.                                                          *)
(***************************************************************************)
Repositories ==
  [head: Commits \cup {None}, tree: Trees, glossary: GlossaryVersions \cup {None},
   ignored: BOOLEAN]

StampTypeOK ==
  /\ repository \in Repositories /\ report \in {"evidence", "brief"}
  /\ step \in {"rev-parse", "status", "path", "judge", "done"}
  /\ stamp \in [head: Commits \cup {None}, dirty: BOOLEAN \cup {None}]
  /\ glossary_state \in {None, "committed", "modified", "ignored", "untracked"}
  /\ built \in BuiltStamps /\ freshness \in {None, "unverified", "stale", "current"}
  /\ moments \in SUBSET Repositories /\ IsFiniteSet(moments) /\ repository \in moments
  /\ failed \in BOOLEAN /\ edits \in Nat

\* What a run of git that came to an answer left in the report, and what the
\* judgement of the graph was made from: the stamp does not change after it.
Answered ==
  /\ ~failed /\ step # "rev-parse" => stamp.head # None
  /\ ~failed /\ step \notin {"rev-parse", "status"} => stamp.dirty # None
  /\ glossary_state = "modified" =>
       \E m \in moments : m.head # None /\ m.head.glossary # m.glossary
  /\ freshness # None => step = "done"
  /\ freshness = "current" =>
       _same_commit(built, stamp.head) /\ stamp.head # None /\ stamp.dirty = FALSE
  /\ freshness = "stale" => built # None /\ stamp.head # None /\ ~_same_commit(built, stamp.head)

StampInvariant == StampTypeOK /\ PartsTrue /\ Answered

LEMMA StampStarts == StampInit => StampInvariant
  <1> SUFFICES ASSUME StampInit PROVE StampInvariant
    OBVIOUS
  <1> USE StampAssumption
  <1>1. IsFiniteSet(moments) /\ repository \in moments
    BY FS_Singleton DEF StampInit
  <1>2. StampTypeOK
    <2>1. built \in BuiltStamps
      BY DEF StampInit, BuiltStamps
    <2> QED
      BY <1>1, <2>1 DEF StampInit, StampTypeOK, Repositories, Unknown
  <1>3. PartsTrue
    BY DEF StampInit, PartsTrue, Unknown
  <1>4. Answered
    BY DEF StampInit, Answered, Unknown
  <1> QED
    BY <1>2, <1>3, <1>4 DEF StampInvariant

\* A step of the command looks at the repository as it is.
LEMMA GitKeeps ==
  ASSUME StampInvariant, GitFails \/ ReadHead \/ ReadStatus \/ ReadPathState \/ JudgeGraph
  PROVE  StampInvariant'
  <1> USE StampAssumption DEF StampInvariant
  <1>1. CASE GitFails
    <2>1. StampTypeOK'
      BY <1>1 DEF GitFails, StampTypeOK
    <2>2. PartsTrue'
      BY <1>1 DEF GitFails, PartsTrue
    <2>3. Answered'
      BY <1>1 DEF GitFails, Answered, StampTypeOK
    <2> QED
      BY <2>1, <2>2, <2>3
  <1>2. CASE ReadHead
    <2>1. stamp'.head = repository.head /\ stamp'.dirty = stamp.dirty /\ stamp' \in [head: Commits \cup {None}, dirty: BOOLEAN \cup {None}]
      BY <1>2 DEF ReadHead, StampTypeOK, Repositories
    <2>2. StampTypeOK'
      BY <1>2, <2>1 DEF ReadHead, StampTypeOK
    <2>3. PartsTrue'
      BY <1>2, <2>1 DEF ReadHead, PartsTrue, StampTypeOK
    <2>4. Answered'
      BY <1>2, <2>1 DEF ReadHead, Answered, StampTypeOK
    <2> QED
      BY <2>2, <2>3, <2>4
  <1>3. CASE ReadStatus
    <2>1. /\ stamp'.dirty = ~Clean(repository) /\ stamp'.head = stamp.head
          /\ stamp' \in [head: Commits \cup {None}, dirty: BOOLEAN \cup {None}]
      BY <1>3, Clean(repository) \in BOOLEAN DEF ReadStatus, StampTypeOK, Clean
    <2>2. StampTypeOK'
      BY <1>3, <2>1 DEF ReadStatus, StampTypeOK
    <2>3. PartsTrue'
      BY <1>3, <2>1 DEF ReadStatus, PartsTrue, StampTypeOK
    <2>4. Answered'
      BY <1>3, <2>1 DEF ReadStatus, Answered, StampTypeOK
    <2> QED
      BY <2>2, <2>3, <2>4
  <1>4. CASE ReadPathState
    <2>1. StampTypeOK'
      BY <1>4 DEF ReadPathState, StampTypeOK, path_git_state
    <2>2. PartsTrue'
      BY <1>4 DEF ReadPathState, PartsTrue, StampTypeOK, path_git_state
    <2>3. Answered'
      BY <1>4 DEF ReadPathState, Answered, StampTypeOK, path_git_state
    <2> QED
      BY <2>1, <2>2, <2>3
  <1>5. CASE JudgeGraph
    <2>1. PICK b \in BuiltStamps : built' = b /\ freshness' = _freshness(b, stamp)
      BY <1>5 DEF JudgeGraph
    <2>2. StampTypeOK'
      BY <1>5, <2>1 DEF JudgeGraph, StampTypeOK, _freshness
    <2>3. PartsTrue'
      BY <1>5 DEF JudgeGraph, PartsTrue
    <2>4. Answered'
      BY <1>5, <2>1 DEF JudgeGraph, Answered, StampTypeOK, _freshness
    <2> QED
      BY <2>2, <2>3, <2>4
  <1> QED
    BY <1>1, <1>2, <1>3, <1>4, <1>5

\* What was so at one moment of the run stays so of that moment.
LEMMA EditKeeps ==
  ASSUME StampInvariant, Edit
  PROVE  StampInvariant'
  <1> USE StampAssumption DEF StampInvariant
  <1>1. PICK r : Become(r) /\ r \in Repositories
    <2>1. \A t \in Trees : [repository EXCEPT !.tree = t] \in Repositories
      BY DEF StampTypeOK, Repositories
    <2>2. \A v \in GlossaryVersions \cup {None} : [repository EXCEPT !.glossary = v] \in Repositories
      BY DEF StampTypeOK, Repositories
    <2>3. \A c \in Commits :
            /\ [repository EXCEPT !.head = c] \in Repositories
            /\ [repository EXCEPT !.head = c, !.tree = c.tree] \in Repositories
            /\ [repository EXCEPT !.head = c, !.tree = c.tree, !.glossary = c.glossary] \in Repositories
      BY DEF StampTypeOK, Repositories
    <2> QED
      BY <2>1, <2>2, <2>3, Zenon DEF Edit
  <1>2. moments' = moments \cup {r} /\ repository' = r
    BY <1>1 DEF Become
  <1>3. IsFiniteSet(moments')
    BY <1>2, FS_AddElement DEF StampTypeOK
  <1>4. UNCHANGED <<report, step, stamp, glossary_state, built, freshness, failed>> /\ edits' = edits + 1
    BY DEF Edit
  <1>5. StampTypeOK'
    BY <1>1, <1>2, <1>3, <1>4 DEF StampTypeOK
  <1>6. PartsTrue' /\ Answered'
    BY <1>2, <1>4 DEF PartsTrue, Answered
  <1> QED
    BY <1>5, <1>6

LEMMA StampKept == StampInvariant /\ [StampNext]_stamping => StampInvariant'
  <1> SUFFICES ASSUME StampInvariant, [StampNext]_stamping PROVE StampInvariant'
    OBVIOUS
  <1>1. CASE StampNext
    BY <1>1, GitKeeps, EditKeeps DEF StampNext
  <1>2. CASE UNCHANGED stamping
    BY <1>2 DEF stamping, StampInvariant, StampTypeOK, PartsTrue, Answered
  <1> QED
    BY <1>1, <1>2

\* One moment is the repository as it is.
LEMMA StampExact == StampInvariant => StampTrue
  <1> SUFFICES ASSUME StampInvariant PROVE StampTrue
    OBVIOUS
  <1> USE DEF StampInvariant
  <1>1. ASSUME step = "done", Cardinality(moments) = 1
        PROVE  /\ stamp.dirty # None => stamp.dirty = ~Clean(repository)
               /\ ~failed => stamp.head = repository.head /\ stamp.dirty # None
               /\ freshness = "current" => built.commit = repository.head /\ repository.tree = built.commit.tree
               /\ freshness = "stale" => built.commit # repository.head \/ built.length < 7
               /\ glossary_state = "modified" => repository.glossary # repository.head.glossary
    <2>1. PICK m : moments = {m}
      BY <1>1, FS_Singleton DEF StampTypeOK
    <2>2. moments = {repository}
      BY <2>1 DEF StampTypeOK
    <2>3. stamp.dirty \in BOOLEAN \cup {None}
      BY DEF StampTypeOK
    <2>4. stamp.head # None => stamp.head = repository.head
      BY <2>2 DEF PartsTrue
    <2>5. stamp.dirty # None => stamp.dirty = ~Clean(repository)
      BY <2>2, <2>3 DEF PartsTrue, Clean
    <2>6. ~failed => stamp.head = repository.head /\ stamp.dirty # None
      BY <1>1, <2>4 DEF Answered
    <2>7. freshness = "current" => built.commit = repository.head /\ repository.tree = built.commit.tree
      BY <2>4, <2>5, StampAssumption DEF Answered, _same_commit, Clean
    <2>8. freshness = "stale" => built.commit # repository.head \/ built.length < 7
      <3> SUFFICES ASSUME freshness = "stale", built.commit = repository.head PROVE built.length < 7
        OBVIOUS
      <3>1. built.length \in Nat
        BY StampAssumption DEF Answered, StampTypeOK, BuiltStamps, FullLength
      <3> QED
        BY <2>4, <3>1 DEF Answered, _same_commit
    <2> QED
      BY <2>2, <2>5, <2>6, <2>7, <2>8 DEF Answered
  <1> QED
    BY <1>1 DEF StampTrue, StillTrue

\* The parts of the stamp were each so at one moment of the run, however often
\* people edited, committed and checked out between the runs of git; and of a
\* repository that stood still all of it is exact.
THEOREM StampExactOrMixed == StampSpec => []StampTrue
  <1>1. StampSpec => []StampInvariant
    BY StampStarts, StampKept, PTL DEF StampSpec
  <1> QED
    BY <1>1, StampExact, PTL

(***************************************************************************)
(* The rules of a repository and the walk.                                 *)
(***************************************************************************)
\* The first names of a path.
LEMMA Beginning ==
  ASSUME NEW p \in Seq(PathNames), NEW n \in 0..Len(p)
  PROVE  /\ SubSeq(p, 1, n) \in Seq(PathNames) /\ Len(SubSeq(p, 1, n)) = n
         /\ \A i \in 1..n : SubSeq(p, 1, n)[i] = p[i]
         /\ n > 0 => Last(SubSeq(p, 1, n)) = p[n]
  <1>1. \A i \in 1..n : p[i] \in PathNames
    OBVIOUS
  <1>2. 1 \in Int /\ n \in Int
    OBVIOUS
  <1>3. /\ SubSeq(p, 1, n) \in Seq(PathNames) /\ Len(SubSeq(p, 1, n)) = IF 1 <= n THEN n - 1 + 1 ELSE 0
        /\ \A i \in 1..(n - 1 + 1) : SubSeq(p, 1, n)[i] = p[1 + i - 1]
    BY <1>1, <1>2, SubSeqProperties
  <1>4. Len(SubSeq(p, 1, n)) = n /\ \A i \in 1..n : SubSeq(p, 1, n)[i] = p[i]
    BY <1>3
  <1> QED
    BY <1>3, <1>4 DEF Last

\* Paths are told apart by their names.
LEMMA SameNames ==
  ASSUME NEW p \in Seq(PathNames), NEW q \in Seq(PathNames), Len(p) = Len(q),
         \A i \in 1..Len(p) : p[i] = q[i]
  PROVE  p = q
  BY SMT

\* The beginning of a beginning.
LEMMA BeginningTwice ==
  ASSUME NEW p \in Seq(PathNames), NEW n \in 0..Len(p), NEW m \in 0..n
  PROVE  SubSeq(SubSeq(p, 1, n), 1, m) = SubSeq(p, 1, m)
  <1> DEFINE q == SubSeq(p, 1, n)
  <1>1. q \in Seq(PathNames) /\ Len(q) = n /\ \A i \in 1..n : q[i] = p[i]
    BY Beginning
  <1>2. m \in 0..Len(q) /\ m \in 0..Len(p)
    BY <1>1
  <1> HIDE DEF q
  <1>3. /\ SubSeq(q, 1, m) \in Seq(PathNames) /\ Len(SubSeq(q, 1, m)) = m
        /\ \A i \in 1..m : SubSeq(q, 1, m)[i] = q[i]
    BY <1>1, <1>2, Beginning
  <1>4. /\ SubSeq(p, 1, m) \in Seq(PathNames) /\ Len(SubSeq(p, 1, m)) = m
        /\ \A i \in 1..m : SubSeq(p, 1, m)[i] = p[i]
    BY <1>2, Beginning
  <1>5. SubSeq(q, 1, m) = SubSeq(p, 1, m)
    BY <1>1, <1>3, <1>4, SameNames
  <1> QED
    BY <1>5 DEF q

\* A prefix of a path is one of its beginnings.
LEMMA PrefixIsBeginning ==
  ASSUME NEW s \in Seq(PathNames), NEW p \in Seq(PathNames)
  PROVE  IsPrefix(s, p) <=> Len(s) <= Len(p) /\ s = SubSeq(p, 1, Len(s))
  <1>1. SubSeq(s, 1, Len(s)) = s
    BY SubSeqFull
  <1> QED
    BY <1>1 DEF IsPrefix

\* The directory of a path.
LEMMA FrontOf ==
  ASSUME NEW p \in Seq(PathNames), NEW n \in 1..Len(p)
  PROVE  Front(SubSeq(p, 1, n)) = SubSeq(p, 1, n - 1)
  <1>1. Len(SubSeq(p, 1, n)) = n
    BY Beginning
  <1>2. SubSeq(SubSeq(p, 1, n), 1, n - 1) = SubSeq(p, 1, n - 1)
    BY BeginningTwice
  <1> QED
    BY <1>1, <1>2 DEF Front

\* A bounded set of numbers has a greatest one.
LEMMA Greatest ==
  ASSUME NEW N \in Nat, NEW T \in SUBSET (0..N), T # {}
  PROVE  \E n \in T : \A m \in T : m <= n
  <1> DEFINE S == {k \in Nat : N - k \in T}
             R == OpToRel(<, Nat)
  <1>1. IsWellFoundedOn(R, Nat)
    BY NatLessThanWellFounded
  <1>2. S \subseteq Nat /\ S # {}
    <2>1. PICK m \in T : TRUE
      OBVIOUS
    <2>2. N - m \in Nat /\ N - (N - m) = m
      BY <2>1
    <2> QED
      BY <2>1, <2>2
  <1> HIDE DEF S, R
  <1>3. \E x \in S : \A y \in S : ~(<<y, x>> \in R)
    BY <1>1, <1>2, WFMin
  <1>4. PICK x \in S : \A y \in S : ~(<<y, x>> \in R)
    BY <1>3
  <1>5. \A y \in S : ~(y < x)
    BY <1>2, <1>4 DEF R, OpToRel
  <1>6. x \in Nat /\ N - x \in T
    BY DEF S
  <1>7. \A m \in T : N - m \in S
    BY DEF S
  <1>8. ASSUME NEW m \in T PROVE m <= N - x
    <2>1. ~(N - m < x)
      BY <1>5, <1>7
    <2> QED
      BY <1>6, <2>1
  <1> QED
    BY <1>6, <1>8
\* Rules as load_config takes them.
RulesTaken == config \in ConfigFiles /\ ~Conflicting(config)

LEMMA RulePaths ==
  ASSUME RulesTaken
  PROVE  /\ \A rule \in config.ignore_paths \cup Rules : rule \in Seq(PathNames) /\ Len(rule) >= 1
         /\ \A r, q \in PATH_ROLES : r # q => config.path_roles[r] \cap config.path_roles[q] = {}
  <1>1. config.ignore_paths \cup Rules \subseteq Seq(PathNames) \ {<<>>}
    BY RolesAssumption DEF RulesTaken, Rules
  <1>2. \A rule \in Seq(PathNames) \ {<<>>} : Len(rule) >= 1
    OBVIOUS
  <1> QED
    BY <1>1, <1>2 DEF RulesTaken, Conflicting

\* A path has one role, that of its nearest rule or of the conventions.
LEMMA RoleOfPath ==
  ASSUME RulesTaken, NEW p \in Seq(PathNames)
  PROVE  TrueRoles(p) = {role_for(p, FALSE)}
  <1> DEFINE matches == {rule \in Rules : _matches_prefix(p, rule)}
             Ruled(n) == {r \in PATH_ROLES : SubSeq(p, 1, n) \in config.path_roles[r]}
             ruled == {n \in 1..Len(p) : Ruled(n) # {}}
  <1>1. \A rule \in matches :
          /\ rule \in Seq(PathNames) /\ Len(rule) \in 1..Len(p) /\ rule = SubSeq(p, 1, Len(rule))
          /\ Len(rule) \in ruled
    <2> SUFFICES ASSUME NEW rule \in matches
                 PROVE  /\ rule \in Seq(PathNames) /\ Len(rule) \in 1..Len(p)
                        /\ rule = SubSeq(p, 1, Len(rule)) /\ Len(rule) \in ruled
      OBVIOUS
    <2>1. rule \in Seq(PathNames) /\ Len(rule) >= 1
      BY RulePaths
    <2>2. Len(rule) <= Len(p) /\ rule = SubSeq(p, 1, Len(rule))
      BY <2>1, PrefixIsBeginning DEF _matches_prefix
    <2>3. PICK r \in PATH_ROLES : rule \in config.path_roles[r]
      BY DEF Rules
    <2>4. Len(rule) \in 1..Len(p)
      BY <2>1, <2>2
    <2>5. Len(rule) \in ruled
      <3>1. SubSeq(p, 1, Len(rule)) \in config.path_roles[r]
        BY <2>2, <2>3, Zenon
      <3> QED
        BY <2>4, <3>1
    <2> QED
      BY <2>1, <2>2, <2>4, <2>5, Zenon
  <1>2. \A n \in ruled : SubSeq(p, 1, n) \in matches /\ Len(SubSeq(p, 1, n)) = n
    <2> SUFFICES ASSUME NEW n \in ruled PROVE SubSeq(p, 1, n) \in matches /\ Len(SubSeq(p, 1, n)) = n
      OBVIOUS
    <2>1. SubSeq(p, 1, n) \in Seq(PathNames) /\ Len(SubSeq(p, 1, n)) = n /\ n <= Len(p)
      BY Beginning
    <2>2. SubSeq(p, 1, n) \in Rules
      BY DEF Rules
    <2>3. IsPrefix(SubSeq(p, 1, n), p)
      BY <2>1, PrefixIsBeginning
    <2>4. SubSeq(p, 1, n) \in matches
      BY <2>2, <2>3, Zenon DEF _matches_prefix
    <2> QED
      BY <2>1, <2>4, Zenon
  <1>3. TrueRoles(p) = IF ruled = {} THEN {_default_role(p, FALSE)}
                       ELSE Ruled(CHOOSE n \in ruled : \A m \in ruled : m <= n)
    BY DEF TrueRoles
  <1>4. role_for(p, FALSE) =
          IF matches = {} THEN _default_role(p, FALSE)
          ELSE CHOOSE r \in PATH_ROLES : \E rule \in config.path_roles[r] :
                 rule \in matches /\ \A other \in matches : Len(other) <= Len(rule)
    BY DEF role_for
  <1>5. CASE matches = {}
    BY <1>2, <1>3, <1>4, <1>5
  <1>6. CASE matches # {}
    <2>1. ruled # {} /\ ruled \in SUBSET (0..Len(p)) /\ Len(p) \in Nat
      BY <1>1, <1>6
    <2>2. PICK N \in ruled : \A m \in ruled : m <= N
      <3> HIDE DEF ruled
      <3> QED
        BY <2>1, Greatest
    <2> DEFINE rule == SubSeq(p, 1, N)
    <2>3. \A n \in ruled : (\A m \in ruled : m <= n) => n = N
      BY <2>2
    <2>4. (CHOOSE n \in ruled : \A m \in ruled : m <= n) = N
      <3> HIDE DEF ruled
      <3> QED
        BY <2>2, <2>3
    <2>5. TrueRoles(p) = Ruled(N)
      BY <1>3, <2>1, <2>4
    <2>6. PICK r \in PATH_ROLES : rule \in config.path_roles[r]
      BY <2>2
    <2>7. \A q \in PATH_ROLES : rule \in config.path_roles[q] => q = r
      BY <2>6, RulePaths
    <2>8. Ruled(N) = {r}
      BY <2>6, <2>7
    <2>9. rule \in matches /\ \A other \in matches : Len(other) <= Len(rule)
      BY <1>1, <1>2, <2>2
    <2>10. \A other \in matches : (\A x \in matches : Len(x) <= Len(other)) => other = rule
      <3> SUFFICES ASSUME NEW other \in matches, \A x \in matches : Len(x) <= Len(other)
                   PROVE  other = rule
        OBVIOUS
      <3>1. Len(other) <= Len(rule) /\ Len(rule) <= Len(other) /\ Len(rule) = N /\ Len(other) \in Nat
        <4>1. Len(other) <= Len(rule) /\ Len(rule) <= Len(other)
          BY <2>9
        <4>2. Len(rule) = N
          BY <1>2
        <4>3. Len(other) \in Nat
          BY <1>1
        <4> QED
          BY <4>1, <4>2, <4>3
      <3>2. Len(other) = N
        BY <2>1, <2>2, <3>1
      <3> QED
        BY <1>1, <3>2
    <2> DEFINE Longest(q) == \E x \in config.path_roles[q] :
                               x \in matches /\ \A other \in matches : Len(other) <= Len(x)
    <2> HIDE DEF matches, rule
    <2>11. Longest(r) /\ \A q \in PATH_ROLES : Longest(q) => q = r
      BY <2>6, <2>7, <2>9, <2>10
    <2>12. role_for(p, FALSE) = CHOOSE q \in PATH_ROLES : Longest(q)
      BY <1>4, <1>6
    <2> HIDE DEF Longest
    <2>13. role_for(p, FALSE) = r
      BY <2>11, <2>12
    <2> QED
      BY <2>5, <2>8, <2>13
  <1> QED
    BY <1>5, <1>6

\* What an excluded directory without a rule below it holds is excluded too.
LEMMA ExcludedBelow ==
  ASSUME RulesTaken, NEW p \in Seq(PathNames), NEW n \in 1..(Len(p) - 1),
         ~has_explicit_descendant(SubSeq(p, 1, n)),
         role_for(SubSeq(p, 1, n), TRUE) \in EXCLUDED_CONTENT_ROLES
  PROVE  role_for(p, FALSE) \in EXCLUDED_CONTENT_ROLES
  <1> DEFINE d == SubSeq(p, 1, n)
             Matches(q) == {rule \in Rules : _matches_prefix(q, rule)}
  <1>1. n \in 0..Len(p) /\ n > 0 /\ Len(p) \in Nat
    OBVIOUS
  <1>2. d \in Seq(PathNames) /\ Len(d) = n /\ (\A i \in 1..n : d[i] = p[i]) /\ Last(d) = p[n]
    BY <1>1, Beginning
  <1>3. \A rule \in Rules : IsPrefix(rule, d) <=> IsPrefix(rule, p)
    <2> SUFFICES ASSUME NEW rule \in Rules PROVE IsPrefix(rule, d) <=> IsPrefix(rule, p)
      OBVIOUS
    <2>1. rule \in Seq(PathNames) /\ Len(rule) \in Nat
      BY RulePaths
    <2>2. /\ IsPrefix(rule, d) <=> Len(rule) <= n /\ rule = SubSeq(d, 1, Len(rule))
          /\ IsPrefix(rule, p) <=> Len(rule) <= Len(p) /\ rule = SubSeq(p, 1, Len(rule))
      BY <1>2, <2>1, PrefixIsBeginning
    <2>3. CASE Len(rule) <= n
      <3>1. SubSeq(d, 1, Len(rule)) = SubSeq(p, 1, Len(rule))
        BY <1>1, <2>1, <2>3, BeginningTwice
      <3> HIDE DEF d
      <3> QED
        BY <1>1, <2>1, <2>2, <2>3, <3>1
    <2>4. CASE Len(rule) > n
      <3>1. ~IsPrefix(rule, d)
        BY <1>1, <2>1, <2>2, <2>4
      <3>2. ASSUME IsPrefix(rule, p) PROVE FALSE
        <4>1. rule = SubSeq(p, 1, Len(rule)) /\ Len(rule) \in 0..Len(p) /\ n \in 0..Len(rule)
          BY <1>1, <2>1, <2>2, <2>4, <3>2
        <4>2. SubSeq(rule, 1, n) = d
          BY <4>1, BeginningTwice
        <4>3. IsPrefix(d, rule)
          <5>1. Len(d) <= Len(rule) /\ SubSeq(rule, 1, Len(d)) = d
            BY <1>1, <1>2, <2>1, <2>4, <4>2
          <5> HIDE DEF d
          <5> QED
            BY <1>2, <2>1, <5>1, PrefixIsBeginning
        <4>4. d # rule
          BY <1>2, <2>4
        <4> QED
          BY <4>3, <4>4 DEF has_explicit_descendant, IsStrictPrefix
      <3> QED
        BY <3>1, <3>2
    <2> QED
      BY <1>1, <2>1, <2>3, <2>4
  <1>4. Matches(d) = Matches(p)
    BY <1>3 DEF _matches_prefix
  <1>5. CASE Matches(p) # {}
    BY <1>4, <1>5 DEF role_for
  <1>6. CASE Matches(p) = {}
    <2>1. role_for(d, TRUE) = _default_role(d, TRUE) /\ role_for(p, FALSE) = _default_role(p, FALSE)
      BY <1>4, <1>6 DEF role_for
    <2>2. \A role : Conventional(d, TRUE, role) => Conventional(p, FALSE, role)
      <3> SUFFICES ASSUME NEW role, Conventional(d, TRUE, role) PROVE Conventional(p, FALSE, role)
        OBVIOUS
      <3>1. \E i \in 1..n : ClassOf[p[i]] = role
        <4>1. CASE \E i \in 1..(Len(d) - 1) : ClassOf[d[i]] = role
          BY <1>1, <1>2, <4>1
        <4>2. CASE ClassOf[Last(d)] = role
          BY <1>1, <1>2, <4>2
        <4> QED
          BY <4>1, <4>2 DEF Conventional
      <3> QED
        BY <1>1, <3>1 DEF Conventional
    <2>3. Conventional(d, TRUE, "vendored") \/ Conventional(d, TRUE, "generated")
      BY <2>1 DEF _default_role, EXCLUDED_CONTENT_ROLES
    <2> QED
      BY <2>1, <2>2, <2>3 DEF _default_role, EXCLUDED_CONTENT_ROLES
  <1> QED
    BY <1>5, <1>6

\* A rule to ignore covers a path at one of its beginnings.
LEMMA IgnoredBeginning ==
  ASSUME RulesTaken, NEW p \in Seq(PathNames)
  PROVE  is_ignored(p) <=> \E n \in 1..Len(p) : SubSeq(p, 1, n) \in config.ignore_paths
  <1>1. ASSUME is_ignored(p) PROVE \E n \in 1..Len(p) : SubSeq(p, 1, n) \in config.ignore_paths
    <2>1. PICK rule \in config.ignore_paths : IsPrefix(rule, p)
      BY <1>1 DEF is_ignored, _matches_prefix
    <2>2. rule \in Seq(PathNames) /\ Len(rule) >= 1
      BY RulePaths
    <2>3. Len(rule) \in 1..Len(p) /\ rule = SubSeq(p, 1, Len(rule))
      BY <2>1, <2>2, PrefixIsBeginning
    <2> QED
      BY <2>3
  <1>2. ASSUME NEW n \in 1..Len(p), SubSeq(p, 1, n) \in config.ignore_paths PROVE is_ignored(p)
    <2>1. SubSeq(p, 1, n) \in Seq(PathNames) /\ Len(SubSeq(p, 1, n)) = n /\ n <= Len(p)
      BY Beginning
    <2>2. IsPrefix(SubSeq(p, 1, n), p)
      BY <2>1, PrefixIsBeginning
    <2> QED
      BY <1>2, <2>2 DEF is_ignored, _matches_prefix
  <1> QED
    BY <1>1, <1>2
\* The walk gets to a path through directories it enters.
Entered(d) == \A n \in 1..Len(d) : _classify_directory(SubSeq(d, 1, n)) = "entered"
Reached(p) == \A n \in 1..(Len(p) - 1) : _classify_directory(SubSeq(p, 1, n)) = "entered"
FateOf(p) == IF p \in Sources THEN _classify_file(p) ELSE _classify_directory(p)
Noted(p) == FateOf(p) \notin {"passed over", "entered", "read"}

\* The classes of the names of a beginning are those of the path.
LEMMA ClassOfBeginning ==
  ASSUME NEW p \in Seq(PathNames), NEW n \in 1..Len(p), NEW class
  PROVE  Is(SubSeq(p, 1, n), class) <=> ClassOf[p[n]] = class
  <1>1. Last(SubSeq(p, 1, n)) = p[n]
    BY Beginning
  <1> QED
    BY <1>1 DEF Is

\* Every directory above content is entered: none is pruned that holds any.
LEMMA ContentEntered ==
  ASSUME RulesTaken, NEW p \in Seq(PathNames), Content(p), NEW n \in 1..(Len(p) - 1)
  PROVE  _classify_directory(SubSeq(p, 1, n)) = "entered"
  <1> DEFINE d == SubSeq(p, 1, n)
  <1>1. n \in 1..Len(p) /\ n \in 0..Len(p)
    OBVIOUS
  <1>2. d \in Seq(PathNames) /\ Len(d) = n
    BY <1>1, Beginning
  <1>3. ~Is(d, "own") /\ ~Is(d, "sensitive") /\ ~Is(d, "hidden")
    <2>1. ClassOf[p[n]] \notin {"own", "hidden", "sensitive"}
      BY <1>1 DEF Content, Unseen
    <2> QED
      BY <1>1, <2>1, ClassOfBeginning
  <1>4. ~is_ignored(d)
    <2> SUFFICES ASSUME is_ignored(d) PROVE FALSE
      OBVIOUS
    <2>1. PICK m \in 1..Len(d) : SubSeq(d, 1, m) \in config.ignore_paths
      BY <1>2, IgnoredBeginning
    <2>2. m \in 0..n /\ m \in 1..Len(p)
      BY <1>1, <1>2
    <2>3. SubSeq(d, 1, m) = SubSeq(p, 1, m)
      BY <1>1, <2>2, BeginningTwice
    <2>4. SubSeq(p, 1, m) \in config.ignore_paths
      BY <2>1, <2>3
    <2> QED
      BY <2>2, <2>4 DEF Content
  <1>5. role_for(d, TRUE) \in EXCLUDED_CONTENT_ROLES => has_explicit_descendant(d)
    <2>1. role_for(p, FALSE) \notin EXCLUDED_CONTENT_ROLES
      BY RoleOfPath DEF Content
    <2> QED
      BY <2>1, ExcludedBelow
  <1> QED
    BY <1>3, <1>4, <1>5 DEF _classify_directory

\* No name of a path is of a class that none of its beginnings has.
LEMMA Judged ==
  ASSUME RulesTaken, NEW p \in Seq(PathNames)
  PROVE  Content(p) <=>
           /\ \A i \in 1..Len(p) : ClassOf[p[i]] \notin Unseen \cup {"sensitive"}
           /\ ~is_ignored(p) /\ role_for(p, FALSE) \notin EXCLUDED_CONTENT_ROLES
  <1>1. TrueRoles(p) \cap EXCLUDED_CONTENT_ROLES = {} <=> role_for(p, FALSE) \notin EXCLUDED_CONTENT_ROLES
    BY RoleOfPath
  <1>2. DOMAIN p = 1..Len(p)
    OBVIOUS
  <1> QED
    BY <1>1, <1>2, IgnoredBeginning DEF Content

\* What a link leads to is judged by its whole path.
LEMMA LinkJudgedWhole ==
  ASSUME RulesTaken, leads \in Targets, NEW p \in DOMAIN leads
  PROVE  symlink_content_refusal(p) = "read" <=> leads[p] # None /\ Content(leads[p])
  <1>1. leads[p] # None => leads[p] \in Seq(PathNames)
    BY RolesAssumption
  <1>2. CASE leads[p] = None
    BY <1>2 DEF symlink_content_refusal
  <1>3. CASE leads[p] # None
    <2>1. DOMAIN leads[p] = 1..Len(leads[p])
      BY <1>1, <1>3
    <2>2. Content(leads[p]) <=>
           /\ \A i \in DOMAIN leads[p] : ClassOf[leads[p][i]] \notin Unseen \cup {"sensitive"}
           /\ ~is_ignored(leads[p]) /\ role_for(leads[p], FALSE) \notin EXCLUDED_CONTENT_ROLES
      BY <1>1, <1>3, <2>1, Judged
    <2> QED
      BY <1>3, <2>2 DEF symlink_content_refusal, Unseen
  <1> QED
    BY <1>2, <1>3

LEMMA SourcePaths ==
  /\ \A p \in Sources : p \in Seq(PathNames) /\ Len(p) >= 1 /\ Len(p) \in 1..Len(p) /\ SubSeq(p, 1, Len(p)) = p
  /\ \A d \in Folders : d \in Seq(PathNames) /\ d \notin Sources
  <1>1. ASSUME NEW p \in Sources
        PROVE  p \in Seq(PathNames) /\ Len(p) >= 1 /\ Len(p) \in 1..Len(p) /\ SubSeq(p, 1, Len(p)) = p
    <2>1. p \in Seq(PathNames) /\ p # <<>>
      BY RolesAssumption
    <2>2. SubSeq(p, 1, Len(p)) = p
      BY <2>1, SubSeqFull
    <2>3. Len(p) >= 1 /\ Len(p) \in 1..Len(p)
      BY <2>1
    <2> QED
      BY <2>1, <2>2, <2>3
  <1>2. ASSUME NEW d \in Folders PROVE d \in Seq(PathNames) /\ d \notin Sources
    <2>1. PICK p \in Sources : d \in Prefixes(p)
      BY DEF Folders
    <2>2. PICK n \in 0..Len(p) : d = SubSeq(p, 1, n)
      BY <2>1 DEF Prefixes
    <2>3. p \in Seq(PathNames)
      BY <1>1
    <2>4. d \in Seq(PathNames)
      BY <2>2, <2>3, Beginning
    <2>5. d \notin Sources
      BY DEF Folders
    <2> QED
      BY <2>4, <2>5
  <1> QED
    BY <1>1, <1>2

\* A file reached by the walk is read exactly if it is content, and what it
\* leads to is.
LEMMA ReadIsContent ==
  ASSUME RulesTaken, leads \in Targets, NEW p \in Sources, Reached(p)
  PROVE  _classify_file(p) = "read" <=> Content(p) /\ ContentOf(p) # None /\ Content(ContentOf(p))
  <1>1. p \in Seq(PathNames) /\ Len(p) >= 1 /\ Len(p) \in 1..Len(p) /\ SubSeq(p, 1, Len(p)) = p
    BY SourcePaths
  <1>2. \A class : Is(p, class) <=> ClassOf[p[Len(p)]] = class
    BY DEF Is, Last
  <1>3. ASSUME NEW i \in 1..(Len(p) - 1) PROVE ClassOf[p[i]] \notin Unseen \cup {"sensitive"}
    <2>1. _classify_directory(SubSeq(p, 1, i)) = "entered" /\ i \in 1..Len(p)
      BY <1>1 DEF Reached
    <2>2. /\ ~Is(SubSeq(p, 1, i), "own") /\ ~Is(SubSeq(p, 1, i), "sensitive")
          /\ ~Is(SubSeq(p, 1, i), "hidden")
      BY <2>1 DEF _classify_directory
    <2> QED
      BY <1>1, <2>1, <2>2, ClassOfBeginning DEF Unseen
  <1>4. Content(p) <=> /\ ~Is(p, "own") /\ ~Is(p, "hidden") /\ ~Is(p, "sensitive")
                       /\ ~is_ignored(p) /\ role_for(p, FALSE) \notin EXCLUDED_CONTENT_ROLES
    <2>1. (\A i \in 1..Len(p) : ClassOf[p[i]] \notin Unseen \cup {"sensitive"}) <=>
            ClassOf[p[Len(p)]] \notin {"own", "hidden", "sensitive"}
      <3>1. \A i \in 1..Len(p) : i \in 1..(Len(p) - 1) \/ i = Len(p)
        <4>1. Len(p) \in Nat
          BY <1>1
        <4> QED
          BY <4>1
      <3> QED
        BY <1>1, <1>3, <3>1 DEF Unseen
    <2> QED
      BY <1>1, <1>2, <2>1, Judged
  <1>5. _classify_file(p) = "read" <=>
          /\ ~Is(p, "own") /\ ~Is(p, "hidden") /\ ~Is(p, "sensitive")
          /\ ~is_ignored(p) /\ role_for(p, FALSE) \notin EXCLUDED_CONTENT_ROLES
          /\ p \in DOMAIN leads => symlink_content_refusal(p) = "read"
    BY DEF _classify_file, EXCLUDED_CONTENT_ROLES
  <1>6. CASE p \in DOMAIN leads
    BY <1>4, <1>5, <1>6, LinkJudgedWhole DEF ContentOf
  <1>7. CASE p \notin DOMAIN leads
    <2>1. ContentOf(p) = p
      BY <1>7 DEF ContentOf
    <2>2. p # None
      BY RolesAssumption
    <2> QED
      BY <1>4, <1>5, <1>7, <2>1, <2>2
  <1> QED
    BY <1>6, <1>7
(***************************************************************************)
(* The invariant: what is left to visit was entered, what was noted was    *)
(* reached, and each file is still to be met or accounted for.             *)
(***************************************************************************)
Pending(p) == \E d \in unvisited : \E n \in 0..(Len(p) - 1) : d = SubSeq(p, 1, n)
Reportedly(p) == \E n \in 1..Len(p) : SubSeq(p, 1, n) \in DOMAIN reported
Unseeable(p) == \E i \in DOMAIN p : ClassOf[p[i]] \in Unseen

VisitsEntered == \A d \in unvisited : d \in Seq(PathNames) /\ Entered(d)
ReportsReached ==
  \A q \in DOMAIN reported : q \in Sources \cup Folders /\ q # <<>> /\ Reached(q) /\ Noted(q)
RolesReached ==
  \A p \in DOMAIN roles : /\ p \in Sources /\ Reached(p) /\ _classify_file(p) = "read"
                          /\ roles[p] = role_for(ContentOf(p), FALSE)
SourcesMet ==
  \A p \in Sources : Pending(p) \/ p \in DOMAIN roles \/ Reportedly(p) \/ Unseeable(p)

RolesInvariant ==
  /\ config_file \in ConfigFiles /\ leads \in Targets
  /\ stage \in {"load", "walk", "done", "refused"}
  /\ stage = "load" => unvisited = {<<>>} /\ DOMAIN reported = {} /\ DOMAIN roles = {}
  /\ stage \in {"walk", "done"} =>
       /\ RulesTaken /\ config_file.state # "malformed"
       /\ VisitsEntered /\ ReportsReached /\ RolesReached /\ SourcesMet
  /\ stage = "done" => unvisited = {}

LEMMA LoadKeeps ==
  ASSUME RolesInvariant, LoadConfig
  PROVE  RolesInvariant'
  <1>1. /\ stage = "load" /\ UNCHANGED <<config_file, leads, unvisited, reported, roles>>
        /\ unvisited = {<<>>} /\ DOMAIN reported = {} /\ DOMAIN roles = {}
    BY DEF LoadConfig, RolesInvariant
  <1>2. CASE RefusedConfig(config_file)
    <2>1. stage' = "refused"
      BY <1>2 DEF LoadConfig
    <2> QED
      BY <1>1, <2>1 DEF RolesInvariant
  <1>3. CASE ~RefusedConfig(config_file)
    <2>1. stage' = "walk" /\ config' = config_file
      BY <1>3 DEF LoadConfig
    <2>2. RulesTaken' /\ config_file'.state # "malformed"
      BY <1>1, <1>3, <2>1 DEF RulesTaken, RefusedConfig, Conflicting, RolesInvariant
    <2>3. VisitsEntered'
      <3>1. <<>> \in Seq(PathNames) /\ Len(<<>>) = 0 /\ \A n \in 1..0 : FALSE
        OBVIOUS
      <3> QED
        BY <1>1, <3>1 DEF VisitsEntered, Entered
    <2>4. ReportsReached' /\ RolesReached'
      BY <1>1 DEF ReportsReached, RolesReached
    <2>5. SourcesMet'
      <3> SUFFICES ASSUME NEW p \in Sources PROVE Pending(p)'
        BY DEF SourcesMet
      <3>1. SubSeq(p, 1, 0) = <<>> /\ 0 \in 0..(Len(p) - 1)
        <4>1. p \in Seq(PathNames) /\ Len(p) >= 1 /\ Len(p) \in Nat
          BY SourcePaths
        <4>2. SubSeq(p, 1, 0) = <<>>
          BY SubSeqEmpty
        <4> QED
          BY <4>1, <4>2
      <3> QED
        BY <1>1, <3>1 DEF Pending
    <2> QED
      BY <1>1, <2>1, <2>2, <2>3, <2>4, <2>5 DEF RolesInvariant
  <1> QED
    BY <1>2, <1>3

\* What the rules say depends on nothing that the walk changes.
LEMMA RulesStand ==
  ASSUME UNCHANGED <<config, leads>>
  PROVE  \A p : /\ _classify_directory(p)' = _classify_directory(p)
                /\ _classify_file(p)' = _classify_file(p)
                /\ ContentOf(p)' = ContentOf(p)
                /\ \A b : role_for(p, b)' = role_for(p, b)
  <1>1. Rules' = Rules
    BY DEF Rules
  <1>2. \A p, b : role_for(p, b)' = role_for(p, b)
    BY <1>1 DEF role_for
  <1>3. \A p : /\ is_ignored(p)' = is_ignored(p)
               /\ has_explicit_descendant(p)' = has_explicit_descendant(p)
    BY <1>1 DEF is_ignored, has_explicit_descendant
  <1>4. \A p : _classify_directory(p)' = _classify_directory(p)
    BY <1>2, <1>3 DEF _classify_directory
  <1>5. \A p : symlink_content_refusal(p)' = symlink_content_refusal(p)
    BY <1>2, <1>3 DEF symlink_content_refusal
  <1>6. \A p : _classify_file(p)' = _classify_file(p)
    BY <1>2, <1>3, <1>5 DEF _classify_file
  <1>7. \A p : ContentOf(p)' = ContentOf(p)
    BY DEF ContentOf
  <1> QED
    BY <1>2, <1>4, <1>6, <1>7

\* A child of an entered directory is reached.
LEMMA ChildReached ==
  ASSUME NEW d \in Seq(PathNames), Entered(d), NEW c \in Seq(PathNames), Len(c) >= 1, Front(c) = d
  PROVE  Reached(c) /\ (_classify_directory(c) = "entered" => Entered(c))
  <1>1. Len(c) \in 1..Len(c) /\ Len(c) - 1 \in 0..Len(c) /\ SubSeq(c, 1, Len(c)) = c
    BY SubSeqFull
  <1>2. d = SubSeq(c, 1, Len(c) - 1) /\ Len(d) = Len(c) - 1
    BY <1>1, FrontOf, Beginning DEF Front
  <1>3. ASSUME NEW n \in 1..(Len(c) - 1) PROVE _classify_directory(SubSeq(c, 1, n)) = "entered"
    <2>1. SubSeq(d, 1, n) = SubSeq(c, 1, n)
      <3>1. n \in 0..(Len(c) - 1)
        OBVIOUS
      <3> QED
        BY <1>1, <1>2, <3>1, BeginningTwice
    <2>2. n \in 1..Len(d)
      BY <1>2
    <2> QED
      BY <2>1, <2>2 DEF Entered
  <1>4. ASSUME _classify_directory(c) = "entered", NEW n \in 1..Len(c)
        PROVE  _classify_directory(SubSeq(c, 1, n)) = "entered"
    <2>1. n \in 1..(Len(c) - 1) \/ n = Len(c)
      <3>1. Len(c) \in Nat
        OBVIOUS
      <3> QED
        BY <3>1
    <2> QED
      BY <1>1, <1>3, <1>4, <2>1
  <1> QED
    BY <1>3, <1>4 DEF Reached, Entered

LEMMA VisitKeeps ==
  ASSUME RolesInvariant, NEW d \in Folders, VisitFolder(d)
  PROVE  RolesInvariant'
  <1> DEFINE folders == {p \in Folders \ {<<>>} : Front(p) = d}
             files == {p \in Sources : Front(p) = d}
             told == {q \in folders \cup files : Noted(q)}
             read == {p \in files : FateOf(p) = "read"}
  <1>1. /\ stage = "walk" /\ d \in unvisited /\ UNCHANGED <<config_file, leads, config, stage>>
        /\ RulesTaken /\ config_file.state # "malformed"
        /\ VisitsEntered /\ ReportsReached /\ RolesReached /\ SourcesMet
        /\ d \in Seq(PathNames) /\ Entered(d)
    BY DEF VisitFolder, RolesInvariant, VisitsEntered
  <1>2. \A p \in folders \cup files : p \in Seq(PathNames) /\ Len(p) >= 1 /\ Front(p) = d
    <2>1. \A p \in Seq(PathNames) \ {<<>>} : Len(p) >= 1
      OBVIOUS
    <2> QED
      BY <2>1, SourcePaths
  <1>3. \A p \in folders \cup files :
          (IF p \in files THEN _classify_file(p) ELSE _classify_directory(p)) = FateOf(p)
    BY SourcePaths DEF FateOf
  <1>4. /\ unvisited' = (unvisited \ {d}) \cup {p \in folders : FateOf(p) = "entered"}
        /\ DOMAIN reported' = DOMAIN reported \cup told
        /\ DOMAIN roles' = DOMAIN roles \cup read
        /\ \A p \in DOMAIN roles' :
             roles'[p] = IF p \in read THEN role_for(ContentOf(p), FALSE) ELSE roles[p]
    <2> DEFINE Fate(p) == IF p \in files THEN _classify_file(p) ELSE _classify_directory(p)
               Silent == {"passed over", "entered", "read"}
    <2>1. /\ unvisited' = (unvisited \ {d}) \cup {p \in folders : Fate(p) = "entered"}
          /\ reported' = With(reported, [p \in {q \in folders \cup files : Fate(q) \notin Silent} |-> Fate(p)])
          /\ roles' = With(roles, [p \in {q \in files : Fate(q) = "read"} |-> role_for(ContentOf(p), FALSE)])
      BY DEF VisitFolder
    <2>2. \A p \in folders \cup files : Fate(p) = FateOf(p)
      BY <1>3
    <2>3. /\ {p \in folders : Fate(p) = "entered"} = {p \in folders : FateOf(p) = "entered"}
          /\ {q \in folders \cup files : Fate(q) \notin Silent} = told
          /\ {q \in files : Fate(q) = "read"} = read
      <3> HIDE DEF folders, files, Fate
      <3> QED
        BY <2>2 DEF Noted
    <2> HIDE DEF folders, files, Fate, told, read, Silent
    <2>4. DOMAIN reported' = DOMAIN reported \cup told
      BY <2>1, <2>3 DEF With
    <2>5. /\ DOMAIN roles' = DOMAIN roles \cup read
          /\ \A p \in DOMAIN roles' :
               roles'[p] = IF p \in read THEN role_for(ContentOf(p), FALSE) ELSE roles[p]
      BY <2>1, <2>3 DEF With
    <2> QED
      BY <2>1, <2>3, <2>4, <2>5
  <1>5. \A p \in folders \cup files : Reached(p) /\ (_classify_directory(p) = "entered" => Entered(p))
    BY <1>1, <1>2, ChildReached
  <1>6. folders \cap Sources = {} /\ files \subseteq Sources /\ folders \subseteq Folders /\ <<>> \notin folders
    BY SourcePaths
  <1> HIDE DEF folders, files
  <1>7. \A p \in folders : FateOf(p) = _classify_directory(p)
    BY <1>6 DEF FateOf
  <1>8. \A p \in files : FateOf(p) = _classify_file(p) /\ p # <<>>
    BY <1>6, RolesAssumption DEF FateOf
  <1>9. \A p : /\ _classify_directory(p)' = _classify_directory(p)
               /\ _classify_file(p)' = _classify_file(p)
               /\ ContentOf(p)' = ContentOf(p)
               /\ \A b : role_for(p, b)' = role_for(p, b)
    BY <1>1, RulesStand
  <1>10. \A p : (Reached(p) => Reached(p)') /\ (Entered(p) => Entered(p)') /\ FateOf(p)' = FateOf(p)
    BY <1>9 DEF Reached, Entered, FateOf
  <1>11. VisitsEntered'
    <2>1. \A c \in unvisited' : c \in Seq(PathNames) /\ Entered(c)
      BY <1>1, <1>2, <1>4, <1>5, <1>7 DEF VisitsEntered
    <2> QED
      BY <1>10, <2>1 DEF VisitsEntered
  <1>12. ReportsReached'
    <2>1. \A q \in DOMAIN reported' : q \in Sources \cup Folders /\ q # <<>> /\ Reached(q) /\ Noted(q)
      BY <1>1, <1>4, <1>5, <1>6, <1>8 DEF ReportsReached
    <2> QED
      BY <1>10, <2>1 DEF ReportsReached, Noted
  <1>13. RolesReached'
    <2>1. \A p \in DOMAIN roles' : /\ p \in Sources /\ Reached(p) /\ _classify_file(p) = "read"
                                   /\ roles'[p] = role_for(ContentOf(p), FALSE)
      BY <1>1, <1>4, <1>5, <1>6, <1>8 DEF RolesReached
    <2> QED
      BY <1>9, <1>10, <2>1 DEF RolesReached
  <1>14. SourcesMet'
    <2> SUFFICES ASSUME NEW p \in Sources
                 PROVE  Pending(p)' \/ p \in DOMAIN roles' \/ Reportedly(p)' \/ Unseeable(p)
      BY DEF SourcesMet, Unseeable
    <2>1. CASE p \in DOMAIN roles \/ Reportedly(p) \/ Unseeable(p)
      BY <1>4, <2>1 DEF Reportedly
    <2>2. CASE \E e \in unvisited \ {d} : \E n \in 0..(Len(p) - 1) : e = SubSeq(p, 1, n)
      BY <1>4, <2>2 DEF Pending
    <2>3. CASE \E n \in 0..(Len(p) - 1) : d = SubSeq(p, 1, n)
      <3>1. PICK n \in 0..(Len(p) - 1) : d = SubSeq(p, 1, n)
        BY <2>3
      <3>2. p \in Seq(PathNames) /\ Len(p) \in 1..Len(p) /\ SubSeq(p, 1, Len(p)) = p /\ Len(p) \in Nat
        BY SourcePaths
      <3> DEFINE c == SubSeq(p, 1, n + 1)
      <3>3. n + 1 \in 1..Len(p) /\ n + 1 \in 0..Len(p) /\ (n + 1) - 1 = n
        BY <3>2
      <3>4. Front(c) = d /\ c \in Seq(PathNames) /\ Len(c) = n + 1
        BY <3>1, <3>2, <3>3, FrontOf, Beginning
      <3>5. CASE c \in Sources
        <4>1. IsPrefix(c, p)
          <5>1. Len(c) <= Len(p) /\ c = SubSeq(p, 1, Len(c))
            BY <3>2, <3>3, <3>4
          <5> HIDE DEF c
          <5> QED
            BY <3>2, <3>4, <5>1, PrefixIsBeginning
        <4>2. c = p /\ p \in files
          BY <3>4, <3>5, <4>1, RolesAssumption DEF files
        <4>3. CASE FateOf(p) = "read"
          BY <1>4, <4>2, <4>3
        <4>4. CASE FateOf(p) = "passed over"
          <5>1. Is(p, "hidden")
            BY <1>8, <4>2, <4>4 DEF _classify_file, symlink_content_refusal, EXCLUDED_CONTENT_ROLES
          <5>2. ClassOf[p[Len(p)]] = "hidden" /\ Len(p) \in DOMAIN p
            BY <3>2, <5>1 DEF Is, Last
          <5> QED
            BY <5>2 DEF Unseeable, Unseen
        <4>5. CASE FateOf(p) = "entered"
          BY <1>8, <4>2, <4>5 DEF _classify_file, symlink_content_refusal, EXCLUDED_CONTENT_ROLES
        <4>6. CASE Noted(p)
          <5>1. SubSeq(p, 1, Len(p)) \in DOMAIN reported'
            BY <1>4, <3>2, <4>2, <4>6
          <5> QED
            BY <3>2, <5>1 DEF Reportedly
        <4> QED
          BY <4>3, <4>4, <4>5, <4>6 DEF Noted
      <3>6. CASE c \notin Sources
        <4>1. c \in folders
          <5>1. c \in Prefixes(p)
            BY <3>3 DEF Prefixes
          <5>2. c # <<>>
            BY <3>3, <3>4
          <5> QED
            BY <3>4, <3>6, <5>1, <5>2 DEF folders, Folders
        <4>2. FateOf(c) = _classify_directory(c)
          BY <1>7, <4>1
        <4>3. n + 1 \in 0..(Len(p) - 1)
          <5>1. n + 1 # Len(p)
            BY <3>2, <3>6
          <5>2. Len(p) \in Nat
            BY <3>2
          <5> QED
            BY <3>3, <5>1, <5>2
        <4>4. CASE FateOf(c) = "entered"
          BY <1>4, <4>1, <4>3, <4>4 DEF Pending
        <4>5. CASE FateOf(c) = "passed over"
          <5>1. Is(c, "own") \/ Is(c, "hidden")
            BY <4>2, <4>5 DEF _classify_directory, EXCLUDED_CONTENT_ROLES
          <5>2. ClassOf[p[n + 1]] \in Unseen
            BY <3>2, <3>3, <5>1, ClassOfBeginning DEF Unseen
          <5>3. n + 1 \in DOMAIN p
            BY <3>2, <3>3
          <5> QED
            BY <5>2, <5>3 DEF Unseeable
        <4>6. CASE FateOf(c) = "read"
          BY <4>2, <4>6 DEF _classify_directory, EXCLUDED_CONTENT_ROLES
        <4>7. CASE Noted(c)
          <5>1. c \in DOMAIN reported'
            BY <1>4, <4>1, <4>7
          <5> QED
            BY <3>3, <5>1 DEF Reportedly
        <4> QED
          BY <4>4, <4>5, <4>6, <4>7 DEF Noted
      <3> QED
        BY <3>5, <3>6
    <2> QED
      BY <1>1, <2>1, <2>2, <2>3 DEF SourcesMet, Pending
  <1>15. RulesTaken'
    BY <1>1 DEF RulesTaken, Conflicting
  <1> QED
    BY <1>1, <1>11, <1>12, <1>13, <1>14, <1>15 DEF RolesInvariant

LEMMA RolesKept == RolesInvariant /\ [RolesNext]_rolesVars => RolesInvariant'
  <1> SUFFICES ASSUME RolesInvariant, [RolesNext]_rolesVars PROVE RolesInvariant'
    OBVIOUS
  <1>1. CASE LoadConfig
    BY <1>1, LoadKeeps
  <1>2. ASSUME NEW d \in Folders, VisitFolder(d) PROVE RolesInvariant'
    BY <1>2, VisitKeeps
  <1>3. ASSUME UNCHANGED <<config_file, leads, config, unvisited, reported, roles>>,
               stage' = stage \/ (stage = "walk" /\ stage' = "done" /\ unvisited = {})
        PROVE  RolesInvariant'
    <2>1. \A p : /\ _classify_directory(p)' = _classify_directory(p)
                 /\ _classify_file(p)' = _classify_file(p)
                 /\ ContentOf(p)' = ContentOf(p)
                 /\ \A b : role_for(p, b)' = role_for(p, b)
      BY <1>3, RulesStand
    <2>2. \A p : (Reached(p) => Reached(p)') /\ (Entered(p) => Entered(p)') /\ FateOf(p)' = FateOf(p)
      BY <2>1 DEF Reached, Entered, FateOf
    <2>3. RulesTaken => RulesTaken'
      BY <1>3 DEF RulesTaken, Conflicting
    <2>4. VisitsEntered => VisitsEntered'
      BY <1>3, <2>2 DEF VisitsEntered
    <2>5. ReportsReached => ReportsReached'
      BY <1>3, <2>2 DEF ReportsReached, Noted
    <2>6. RolesReached => RolesReached'
      BY <1>3, <2>1, <2>2 DEF RolesReached
    <2>7. SourcesMet => SourcesMet'
      BY <1>3 DEF SourcesMet, Pending, Reportedly, Unseeable
    <2> QED
      BY <1>3, <2>3, <2>4, <2>5, <2>6, <2>7 DEF RolesInvariant
  <1>4. CASE EndVisits
    BY <1>3, <1>4 DEF EndVisits
  <1>5. CASE UNCHANGED rolesVars
    <2>1. UNCHANGED <<config_file, leads, config, unvisited, reported, roles>> /\ stage' = stage
      BY <1>5 DEF rolesVars
    <2> QED
      BY <1>3, <2>1
  <1> QED
    BY <1>1, <1>2, <1>4, <1>5 DEF RolesNext

\* Once nothing is left to visit, what was read and what was told is right.
LEMMA WalkedRight == RolesInvariant => RolesTrue
  <1> SUFFICES ASSUME RolesInvariant, stage = "done" PROVE RolesTrue
    BY DEF RolesTrue
  <1>1. /\ RulesTaken /\ leads \in Targets /\ unvisited = {} /\ config_file.state # "malformed"
        /\ ReportsReached /\ RolesReached /\ SourcesMet
    BY DEF RolesInvariant
  <1> DEFINE Kept(p) == Content(p) /\ ContentOf(p) # None /\ Content(ContentOf(p))
  <1>2. ASSUME NEW p \in DOMAIN roles PROVE p \in Sources /\ Kept(p)
    BY <1>1, <1>2, ReadIsContent DEF RolesReached
  \* Of a file, at most one path at or above it is told of, the last reached.
  <1>3. ASSUME NEW p \in Sources, NEW n \in 1..Len(p), SubSeq(p, 1, n) \in DOMAIN reported
        PROVE  /\ \A m \in 1..(n - 1) : _classify_directory(SubSeq(p, 1, m)) = "entered"
               /\ n < Len(p) => _classify_directory(SubSeq(p, 1, n)) # "entered"
               /\ n = Len(p) => Reached(p) /\ _classify_file(p) # "read"
    <2> DEFINE q == SubSeq(p, 1, n)
    <2>1. p \in Seq(PathNames) /\ Len(p) \in Nat /\ SubSeq(p, 1, Len(p)) = p
      BY SourcePaths
    <2>2. q \in Seq(PathNames) /\ Len(q) = n /\ n \in 0..Len(p)
      BY <2>1, Beginning
    <2>3. q \in Sources \cup Folders /\ Reached(q) /\ Noted(q)
      BY <1>1, <1>3 DEF ReportsReached
    <2>4. ASSUME NEW m \in 1..(n - 1) PROVE _classify_directory(SubSeq(p, 1, m)) = "entered"
      <3>1. SubSeq(q, 1, m) = SubSeq(p, 1, m)
        <4>1. m \in 0..n
          OBVIOUS
        <4> QED
          BY <2>1, <2>2, <4>1, BeginningTwice
      <3>2. _classify_directory(SubSeq(q, 1, m)) = "entered"
        BY <2>2, <2>3 DEF Reached
      <3> QED
        BY <3>1, <3>2
    <2>5. ASSUME n < Len(p) PROVE _classify_directory(q) # "entered"
      <3>1. q \notin Sources
        <4>1. IsPrefix(q, p)
          <5>1. Len(q) <= Len(p) /\ q = SubSeq(p, 1, Len(q))
            BY <2>1, <2>2
          <5> HIDE DEF q
          <5> QED
            BY <2>1, <2>2, <5>1, PrefixIsBeginning
        <4>2. q # p
          BY <2>2, <2>5
        <4> QED
          BY <4>1, <4>2, RolesAssumption
      <3> QED
        BY <2>3, <3>1 DEF Noted, FateOf
    <2>6. ASSUME n = Len(p) PROVE Reached(p) /\ _classify_file(p) # "read"
      <3>1. q = p
        BY <2>1, <2>6
      <3> QED
        BY <2>3, <3>1 DEF Noted, FateOf
    <2> QED
      BY <2>4, <2>5, <2>6
  <1>4. ASSUME NEW p \in Sources, Kept(p) PROVE p \in DOMAIN roles
    <2>1. p \in Seq(PathNames) /\ Len(p) \in Nat
      BY SourcePaths
    <2>2. ~Unseeable(p)
      BY <1>4 DEF Unseeable, Content
    <2>3. ~Pending(p)
      BY <1>1 DEF Pending
    <2>4. ~Reportedly(p)
      <3> SUFFICES ASSUME NEW n \in 1..Len(p), SubSeq(p, 1, n) \in DOMAIN reported PROVE FALSE
        BY DEF Reportedly
      <3>1. CASE n < Len(p)
        <4>1. n \in 1..(Len(p) - 1)
          BY <2>1, <3>1
        <4> QED
          BY <1>1, <1>3, <1>4, <2>1, <3>1, <4>1, ContentEntered
      <3>2. CASE n = Len(p)
        BY <1>1, <1>3, <1>4, <3>2, ReadIsContent
      <3> QED
        BY <2>1, <3>1, <3>2
    <2> QED
      BY <1>1, <2>2, <2>3, <2>4 DEF SourcesMet
  <1>5. DOMAIN roles = {p \in Sources : Kept(p)}
    BY <1>2, <1>4
  <1>6. ASSUME NEW p \in DOMAIN roles PROVE TrueRoles(ContentOf(p)) = {roles[p]}
    <2>1. roles[p] = role_for(ContentOf(p), FALSE)
      BY <1>1 DEF RolesReached
    <2>2. p \in Sources /\ ContentOf(p) # None
      BY <1>2
    <2>3. ContentOf(p) \in Sources
      BY <1>1, <2>2, RolesAssumption DEF ContentOf
    <2> QED
      BY <1>1, <2>1, <2>3, RoleOfPath, SourcePaths
  <1>7. ASSUME NEW p \in Sources \ DOMAIN roles
        PROVE  \/ \E i \in DOMAIN p : ClassOf[p[i]] \in Unseen
               \/ Cardinality({q \in DOMAIN reported : IsPrefix(q, p)}) = 1
    <2> DEFINE told == {q \in DOMAIN reported : IsPrefix(q, p)}
    <2>1. p \in Seq(PathNames) /\ Len(p) \in Nat
      BY SourcePaths
    <2>2. CASE Reportedly(p)
      <3>1. PICK n \in 1..Len(p) : SubSeq(p, 1, n) \in DOMAIN reported
        BY <2>2 DEF Reportedly
      <3>2. IsPrefix(SubSeq(p, 1, n), p)
        <4>1. SubSeq(p, 1, n) \in Seq(PathNames) /\ Len(SubSeq(p, 1, n)) = n /\ n <= Len(p)
          BY <2>1, Beginning
        <4> QED
          BY <2>1, <4>1, PrefixIsBeginning
      <3>3. ASSUME NEW q \in told PROVE q = SubSeq(p, 1, n)
        <4>1. q \in Seq(PathNames) /\ q # <<>>
          BY <1>1, SourcePaths DEF ReportsReached
        <4>2. Len(q) \in 1..Len(p) /\ q = SubSeq(p, 1, Len(q))
          <5>1. Len(q) >= 1 /\ Len(q) \in Nat
            BY <4>1
          <5>2. Len(q) <= Len(p) /\ q = SubSeq(p, 1, Len(q))
            BY <2>1, <4>1, PrefixIsBeginning
          <5> QED
            BY <2>1, <5>1, <5>2
        <4>3. SubSeq(p, 1, Len(q)) \in DOMAIN reported
          BY <4>2
        <4> DEFINE m == Len(q)
        <4>4. m \in 1..Len(p) /\ SubSeq(p, 1, m) \in DOMAIN reported
          BY <4>2, <4>3
        <4> HIDE DEF m
        <4>5. /\ m < Len(p) => _classify_directory(SubSeq(p, 1, m)) # "entered"
              /\ \A k \in 1..(m - 1) : _classify_directory(SubSeq(p, 1, k)) = "entered"
          BY <1>3, <4>4
        <4>6. /\ n < Len(p) => _classify_directory(SubSeq(p, 1, n)) # "entered"
              /\ \A k \in 1..(n - 1) : _classify_directory(SubSeq(p, 1, k)) = "entered"
          BY <1>3, <3>1
        <4>7. ~(m < n)
          <5> SUFFICES ASSUME m < n PROVE FALSE
            OBVIOUS
          <5>1. m \in 1..(n - 1) /\ m < Len(p)
            BY <2>1, <4>4
          <5> QED
            BY <4>5, <4>6, <5>1
        <4>8. ~(n < m)
          <5> SUFFICES ASSUME n < m PROVE FALSE
            OBVIOUS
          <5>1. n \in 1..(m - 1) /\ n < Len(p)
            BY <2>1, <4>4
          <5> QED
            BY <4>5, <4>6, <5>1
        <4>9. m = n
          BY <2>1, <4>4, <4>7, <4>8
        <4> QED
          BY <4>2, <4>9 DEF m
      <3>4. told = {SubSeq(p, 1, n)}
        BY <3>1, <3>2, <3>3
      <3>5. Cardinality(told) = 1
        BY <3>4, FS_Singleton
      <3> QED
        BY <3>5
    <2>3. CASE Unseeable(p)
      BY <2>3 DEF Unseeable
    <2> QED
      BY <1>1, <2>2, <2>3 DEF SourcesMet, Pending
  <1> QED
    BY <1>1, <1>5, <1>6, <1>7 DEF RolesTrue

\* However directories are pruned, exactly the files that are content by their
\* own path, and lead to content, are read, each with its one role; any other is
\* hidden, or below exactly one path that is reported.
THEOREM RolesOfContent == RolesSpec => []RolesTrue
  <1>1. RolesInit => RolesInvariant
    BY DEF RolesInit, RolesInvariant
  <1> QED
    BY <1>1, RolesKept, WalkedRight, PTL DEF RolesSpec
=============================================================================
