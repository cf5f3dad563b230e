------------------------------ MODULE PathRoles ------------------------------
(***************************************************************************)
(* The rules of glossabet.json and what a walk makes of them.  load_config *)
(* takes or refuses the file; walk_repository then prunes directories by   *)
(* what it knows of the directory alone, judges each file it meets, and a  *)
(* link by the path of its target.                                         *)
(*                                                                         *)
(* A path is the sequence of its names and a name is of a class: those of  *)
(* built-in conventions, hidden, sensitive, or Glossabet's own.  Left out: *)
(* the budget, extensions and linked directories (CorpusWalk), the         *)
(* characters a rule may hold, and the evidence of the configuration.      *)
(***************************************************************************)
EXTENDS Integers, SequencesExt, Absent

CONSTANTS
  Sources,            \* the paths of the source files
  ClassOf,            \* the class of each name
  Targets,            \* where a link may lead: [path of the link -> path or None]
  ConfigFiles,        \* what may stand at glossabet.json
  MaxPathRules

PATH_ROLES == {"production", "test", "fixture", "generated", "vendored"}
EXCLUDED_CONTENT_ROLES == {"generated", "vendored"}
Unseen == {"own", "hidden"}
Classes == PATH_ROLES \cup Unseen \cup {"sensitive"}

Folders == (UNION {Prefixes(p) : p \in Sources}) \ Sources

\* Absent: nothing has the name.  Malformed: anything else than an object of
\* the schema in a regular file.
NoRules == [state |-> "absent", ignore_paths |-> {}, path_roles |-> [r \in PATH_ROLES |-> {}]]

PathNames == DOMAIN ClassOf

\* Rules are paths too, and never empty (_validated_path).
ASSUME RolesAssumption ==
  /\ ClassOf \in [PathNames -> Classes]
  /\ Sources \subseteq Seq(PathNames) \ {<<>>} /\ None \notin Sources
  /\ \A p, q \in Sources : IsPrefix(p, q) => p = q
  /\ \A t \in Targets : DOMAIN t \subseteq Sources /\ \A l \in DOMAIN t : t[l] \in (Sources \ DOMAIN t) \cup {None}
  /\ \A file \in ConfigFiles :
       /\ file.state \in {"absent", "malformed", "object"}
       /\ file.ignore_paths \cup UNION {file.path_roles[r] : r \in PATH_ROLES} \subseteq Seq(PathNames) \ {<<>>}
       /\ file.state # "object" => file.ignore_paths = {} /\ \A r \in PATH_ROLES : file.path_roles[r] = {}
  /\ MaxPathRules \in Nat

VARIABLES
  config_file,        \* what stands at glossabet.json
  leads,              \* where the links lead
  config,             \* RepositoryConfig, or None
  stage,              \* "load", "walk", "done", "refused"
  unvisited,          \* directories to visit
  reported,           \* [excluded path -> the list that reports it]
  roles               \* [source file found -> its role]

rolesVars == <<config_file, leads, config, stage, unvisited, reported, roles>>

(***************************************************************************)
(* RepositoryConfig.                                                       *)
(***************************************************************************)
_matches_prefix(p, prefix) == IsPrefix(prefix, p)

is_ignored(p) == \E rule \in config.ignore_paths : _matches_prefix(p, rule)

\* A file's name counts as a convention of files, not of directories.
Conventional(p, is_dir, role) ==
  \/ \E i \in 1..(Len(p) - 1) : ClassOf[p[i]] = role
  \/ ClassOf[Last(p)] = role /\ (is_dir \/ role \in {"generated", "test"})

_default_role(p, is_dir) ==
  IF Conventional(p, is_dir, "vendored") THEN "vendored"
  ELSE IF Conventional(p, is_dir, "generated") THEN "generated"
  ELSE IF Conventional(p, is_dir, "fixture") THEN "fixture"
  ELSE IF Conventional(p, is_dir, "test") THEN "test"
  ELSE "production"

Rules == UNION {config.path_roles[r] : r \in PATH_ROLES}

role_for(p, is_dir) ==
  LET matches == {rule \in Rules : _matches_prefix(p, rule)} IN
  IF matches = {} THEN _default_role(p, is_dir)
  ELSE CHOOSE r \in PATH_ROLES : \E rule \in config.path_roles[r] :
         rule \in matches /\ \A other \in matches : Len(other) <= Len(rule)

\* Variant: only rules for the directory's own entries are looked for.
has_explicit_descendant_Child(p) == \E rule \in Rules : rule # <<>> /\ Front(rule) = p

has_explicit_descendant(p) == \E rule \in Rules : IsStrictPrefix(p, rule)

(***************************************************************************)
(* load_config: a malformed file is an error, never no configuration.      *)
(***************************************************************************)
Conflicting(file) ==
  \E r, q \in PATH_ROLES : r # q /\ file.path_roles[r] \cap file.path_roles[q] # {}

RuleCount(file) ==
  Cardinality(file.ignore_paths)
    + MapThenSumSet(LAMBDA r : Cardinality(file.path_roles[r]), PATH_ROLES)

RefusedConfig(file) ==
  file.state = "malformed" \/ RuleCount(file) > MaxPathRules \/ Conflicting(file)

LoadConfig ==
  /\ stage = "load"
  /\ IF RefusedConfig(config_file)
       THEN stage' = "refused" /\ UNCHANGED config
       ELSE stage' = "walk" /\ config' = config_file
  /\ UNCHANGED <<config_file, leads, unvisited, reported, roles>>

(***************************************************************************)
(* The walk.                                                               *)
(***************************************************************************)
Is(p, class) == ClassOf[Last(p)] = class

\* A directory is descended into, or not, silently or on a list.
_classify_directory(p) ==
  LET role == role_for(p, TRUE) IN
  IF Is(p, "own") THEN "passed over"
  ELSE IF Is(p, "sensitive") THEN "sensitive"
  ELSE IF is_ignored(p) THEN "configured"
  ELSE IF Is(p, "hidden") THEN "passed over"
  ELSE IF role \in EXCLUDED_CONTENT_ROLES /\ ~has_explicit_descendant(p) THEN role
  ELSE "entered"

\* symlink_content_refusal: the whole path of what is read.
symlink_content_refusal(p) ==
  LET target == leads[p]
      Passes(class) == \E i \in DOMAIN target : ClassOf[target[i]] = class
  IN IF target = None THEN "symlinks_escaping_repo"
     ELSE IF Passes("sensitive") THEN "sensitive"
     ELSE IF \/ Passes("own") \/ Passes("hidden") \/ is_ignored(target)
             \/ role_for(target, FALSE) \in EXCLUDED_CONTENT_ROLES
       THEN "symlinks_to_excluded_content"
     ELSE "read"

_classify_file(p) ==
  LET role == role_for(p, FALSE) IN
  IF Is(p, "own") THEN "self_glossaries"
  ELSE IF Is(p, "sensitive") THEN "sensitive"
  ELSE IF is_ignored(p) THEN "configured"
  ELSE IF Is(p, "hidden") THEN "passed over"
  ELSE IF role \in EXCLUDED_CONTENT_ROLES THEN role
  ELSE IF p \in DOMAIN leads THEN symlink_content_refusal(p)
  ELSE "read"

\* What is read at a path: a link's content is its target's.
ContentOf(p) == IF p \in DOMAIN leads THEN leads[p] ELSE p

With(f, g) == [x \in DOMAIN f \cup DOMAIN g |-> IF x \in DOMAIN g THEN g[x] ELSE f[x]]

\* One turn of the loop of walk_repository.
VisitFolder(d) ==
  /\ stage = "walk" /\ d \in unvisited
  /\ LET folders == {p \in Folders \ {<<>>} : Front(p) = d}
         files == {p \in Sources : Front(p) = d}
         Fate(p) == IF p \in files THEN _classify_file(p) ELSE _classify_directory(p)
         Silent == {"passed over", "entered", "read"}
         read == {p \in files : Fate(p) = "read"}
     IN /\ unvisited' = (unvisited \ {d}) \cup {p \in folders : Fate(p) = "entered"}
        /\ reported' = With(reported, [p \in {q \in folders \cup files : Fate(q) \notin Silent} |-> Fate(p)])
        /\ roles' = With(roles, [p \in read |-> role_for(ContentOf(p), FALSE)])
  /\ UNCHANGED <<config_file, leads, config, stage>>

EndVisits ==
  /\ stage = "walk" /\ unvisited = {}
  /\ stage' = "done"
  /\ UNCHANGED <<config_file, leads, config, unvisited, reported, roles>>

RolesInit ==
  /\ config_file \in ConfigFiles /\ leads \in Targets
  /\ config = None /\ stage = "load"
  /\ unvisited = {<<>>} /\ reported = <<>> /\ roles = <<>>

RolesNext == LoadConfig \/ (\E d \in Folders : VisitFolder(d)) \/ EndVisits

RolesSpec == RolesInit /\ [][RolesNext]_rolesVars

(***************************************************************************)
(* Properties.                                                             *)
(***************************************************************************)

\* The roles of a file: those of its nearest rule, of the path itself or of a
\* directory above it.
TrueRoles(p) ==
  LET Ruled(n) == {r \in PATH_ROLES : SubSeq(p, 1, n) \in config.path_roles[r]}
      ruled == {n \in 1..Len(p) : Ruled(n) # {}}
  IN IF ruled = {} THEN {_default_role(p, FALSE)} ELSE Ruled(CHOOSE n \in ruled : \A m \in ruled : m <= n)

\* Repository content: nothing above it or of itself is unseen, sensitive or
\* ignored, and its roles are not excluded.
Content(p) ==
  /\ \A i \in DOMAIN p : ClassOf[p[i]] \notin Unseen \cup {"sensitive"}
  /\ \A n \in 1..Len(p) : SubSeq(p, 1, n) \notin config.ignore_paths
  /\ TrueRoles(p) \cap EXCLUDED_CONTENT_ROLES = {}

\* However directories are pruned, exactly the files that are content by their
\* own path are read, and of links those whose target is content too, each with
\* the one role of what is read ("the most specific configured role wins").
\* Any other file is hidden, or is below exactly one path that is reported.  A
\* malformed file never reads as no rules.
RolesTrue ==
  stage = "done" =>
    /\ config_file.state # "malformed"
    /\ DOMAIN roles = {p \in Sources : Content(p) /\ ContentOf(p) # None /\ Content(ContentOf(p))}
    /\ \A p \in DOMAIN roles : TrueRoles(ContentOf(p)) = {roles[p]}
    /\ \A p \in Sources \ DOMAIN roles :
         \/ \E i \in DOMAIN p : ClassOf[p[i]] \in Unseen
         \/ Cardinality({q \in DOMAIN reported : IsPrefix(q, p)}) = 1
=============================================================================
