---------------------------- MODULE MCCorpusWalk ----------------------------
(***************************************************************************)
(* What commands do with paths that others may change: open a root and     *)
(* read its GLOSSARY.md, scan it, install the skill; and what its rules    *)
(* make of a repository.  A behaviour is one of these, as none reads the   *)
(* variables of another.                                                   *)
(***************************************************************************)
EXTENDS CorpusWalk, CommandRun, RepositoryGlossary, SkillInstall, PathRoles

VARIABLE command

(***************************************************************************)
(* A repository to scan: a root with two files, glossabet-out and a        *)
(* directory of one more file.                                             *)
(***************************************************************************)
CONSTANTS root, outdir, sub, f1, f2, f3

MCDirs == {root, outdir, sub}
MCFiles == {f1, f2, f3}
MCSubdirs == [d \in MCDirs |-> IF d = root THEN {outdir, sub} ELSE {}]
MCContained ==
  [d \in MCDirs |-> CASE d = root -> {f1, f2} [] d = sub -> {f3} [] OTHER -> {}]
MCAbove ==
  [p \in MCDirs \cup MCFiles |->
     CASE p = root -> {} [] p = f3 -> {root, sub} [] OTHER -> {root}]
MCPlace ==
  [p \in MCDirs \cup MCFiles |->
     CASE p = root -> 0 [] p = outdir -> 1 [] p = sub -> 2 [] p = f1 -> 3 [] p = f2 -> 4 [] OTHER -> 5]
MCProduction == {f1, f3}

On(state, sizes) == {[state |-> state, size |-> n] : n \in sizes}

\* Every path is a directory to enter or a source file.
PlainOnly == [p \in Paths |-> {"plain"}]

\* What names and configuration may say of each path.
AnyKind ==
  [p \in Paths |->
     CASE p = outdir  -> {"plain"}
       [] p = sub     -> {"plain", "vendored", "symlinked_directories"}
       [] p = f1      -> {"plain"}
       [] p = f2      -> {"plain", "hidden", "self_glossaries"}
       [] OTHER       -> {"plain", "generated"}]

\* Sizes below, at and above the ceilings; what is not there, not readable
\* or not to be followed.
AnyState ==
  On("text", {1, 2, 3}) \cup On("missing", {0}) \cup On("unreadable", {2})
    \cup On("symlinks_to_excluded_content", {1})

OneSize == On("text", {1})

\* At first the root can be listed, f1 holds text, and f3 a little or is not there.
MCScanInit ==
  /\ Init
  /\ disk[f1].state = "text" /\ disk[f3] \in OneSize \cup On("missing", {0})
  /\ root \notin unlistable

(***************************************************************************)
(* What may stand at the name GLOSSARY.md, and glossaries of two concepts  *)
(* whose terms it holds or lacks.                                          *)
(***************************************************************************)
CONSTANTS t1, t2, big, bin, dir, wide, env, kin, w1, w2

Ordinary(k) == [kind |-> k, refusal |-> None, link |-> FALSE]
Link(refusal) == [kind |-> "text", refusal |-> refusal, link |-> TRUE]

MCEntries == {t1, t2, big, bin, dir, wide, env, kin}

MCEntryKind ==
  [e \in MCEntries |->
     CASE e = big  -> Ordinary("oversized")
       [] e = bin  -> Ordinary("not-utf-8")
       [] e = dir  -> Ordinary("irregular")
       [] e = wide -> Ordinary("expanding")
       [] e = env  -> Link("sensitive")
       [] e = kin  -> Link(None)
       [] OTHER    -> Ordinary("text")]

MCFoldedText == [e \in MCEntries |-> CASE e = t1 -> {w1} [] e = kin -> {w1, w2} [] OTHER -> {w2}]

Alias(t, s) == [term |-> t, status |-> s]

MCSettled ==
  {None,
   <<[term |-> w1, aliases |-> <<Alias(w2, "discouraged")>>]>>,
   <<[term |-> w2, aliases |-> <<Alias(w1, "alias")>>],
     [term |-> w1, aliases |-> <<Alias(w2, "preferred"), Alias(w2, "deprecated")>>]>>}

(***************************************************************************)
(* Two installs, of the plugin, that find at most one other file in the    *)
(* way (bound), with one executable to ask that fits one of them (bound).  *)
(***************************************************************************)
CONSTANTS e1

MCExecutables == <<e1>>

MCInstallInit ==
  /\ InstallInit
  /\ \A i \in Installs : runs[i].plugin
  /\ \A f, g \in InstalledFiles : target[f] = Other /\ target[g] = Other => f = g
  /\ \E i \in Installs : answers[e1][i] = "fits"

(***************************************************************************)
(* Rules of every role on a path, alone, in pairs and three deep, for a    *)
(* repository of every class of name and two links (the paths and the      *)
(* rules are the bound).                                                   *)
(***************************************************************************)
MCClassOf ==
  [n \in {"src", "vendor", "lib", "tests", "a", "b", ".env", ".ci", "glossabet-out", "x_test", "link"} |->
     CASE n = "vendor" -> "vendored" [] n \in {"tests", "x_test"} -> "test" [] n = ".env" -> "sensitive"
       [] n = ".ci" -> "hidden" [] n = "glossabet-out" -> "own" [] OTHER -> "production"]

MCSources ==
  {<<"src", "a">>, <<"src", "vendor", "a">>, <<"src", "vendor", "lib", "b">>, <<"tests", "a">>,
   <<".ci", "a">>, <<"src", ".env">>, <<"glossabet-out", "a">>, <<"src", "link">>, <<"tests", "link">>}

MCTargets ==
  {(<<"src", "link">> :> x) @@ (<<"tests", "link">> :> y) :
     x \in {None} \cup {p \in MCSources : Last(p) \notin {"a", "link"}} \cup {<<"tests", "a">>, <<".ci", "a">>, <<"glossabet-out", "a">>},
     y \in {<<"src", "a">>}}

MCNested == {<<"src">>, <<"src", "vendor">>, <<"src", "vendor", "lib">>, <<"src", "vendor", "lib", "b">>}
MCOutside == {<<"tests">>, <<"tests", "a">>}
MCRulesOf(prefixes) == prefixes \X {"ignore", "production", "fixture", "generated"}

MCRuleSets ==
  {{}, {<<prefix, "fixture">> : prefix \in MCNested}}
    \cup {{x, y, z} : x, y, z \in MCRulesOf(MCNested)}
    \cup {{x, y} : x, y \in MCRulesOf(MCOutside)}

MCConfigFiles ==
  {NoRules, [NoRules EXCEPT !.state = "malformed"]}
    \cup {[state |-> "object",
           ignore_paths |-> {r[1] : r \in {x \in rules : x[2] = "ignore"}},
           path_roles |-> [role \in PATH_ROLES |-> {r[1] : r \in {x \in rules : x[2] = role}}]] :
            rules \in MCRuleSets}

(***************************************************************************)
(* One of the commands; the others stand still, at one of their beginnings. *)
(***************************************************************************)
NoScan ==
  /\ kind = [p \in Paths |-> CHOOSE k \in KindChoices[p] : TRUE]
  /\ disk = [f \in Files |-> CHOOSE d \in DiskChoices : TRUE]
  /\ unlistable = {}
  /\ Init

NoOpening ==
  /\ place_names = [d \in Ancestors |-> "other"]
  /\ artifacts = [d \in Ancestors |-> [n \in ArtifactNames |-> "absent"]]
  /\ siblings = [d \in Ancestors |-> "missing"]
  /\ OpeningInit

NoDiscovery ==
  /\ platform = [sensitive |-> TRUE, identified |-> TRUE]
  /\ exact = None /\ alternate = None /\ glossary_in_use = None
  /\ DiscoveryInit

NoInstall ==
  /\ target = [f \in InstalledFiles |-> Nothing]
  /\ answers = [e \in {e1} |-> [i \in Installs |-> "fits"]]
  /\ runs = [i \in Installs |-> Started(i, FALSE, FALSE)]
  /\ InstallInit

NoRoles ==
  /\ config_file = NoRules
  /\ leads = CHOOSE t \in Targets : TRUE
  /\ RolesInit

MCInit ==
  \/ command = "scan" /\ MCScanInit /\ NoOpening /\ NoDiscovery /\ NoInstall /\ NoRoles
  \/ command = "open" /\ OpeningInit /\ NoScan /\ NoDiscovery /\ NoInstall /\ NoRoles
  \/ command = "discover" /\ DiscoveryInit /\ NoScan /\ NoOpening /\ NoInstall /\ NoRoles
  \/ command = "install" /\ MCInstallInit /\ NoScan /\ NoOpening /\ NoDiscovery /\ NoRoles
  \/ command = "configure" /\ RolesInit /\ NoScan /\ NoOpening /\ NoDiscovery /\ NoInstall

MCNext ==
  /\ UNCHANGED command
  /\ \/ command = "scan" /\ Next /\ UNCHANGED <<opening, discovered, installing, rolesVars>>
     \/ command = "open" /\ OpeningNext /\ UNCHANGED <<vars, discovered, installing, rolesVars>>
     \/ command = "discover" /\ DiscoveryNext /\ UNCHANGED <<vars, opening, installing, rolesVars>>
     \/ command = "install" /\ InstallNext /\ UNCHANGED <<vars, opening, discovered, rolesVars>>
     \/ command = "configure" /\ RolesNext /\ UNCHANGED <<vars, opening, discovered, installing>>

MCvars == <<command, vars, opening, discovered, installing, rolesVars>>

MCSpec == MCInit /\ [][MCNext]_MCvars

\* Scans alone.
ScanSpec == command = "scan" /\ MCInit /\ [][MCNext]_MCvars
=============================================================================
