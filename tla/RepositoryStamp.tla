--------------------------- MODULE RepositoryStamp ---------------------------
(***************************************************************************)
(* The Git state a command reports: HEAD and a dirty flag, read by two     *)
(* runs of git, the state of glossary.json, read by a third, and what the  *)
(* first two say of a Graphify graph.  People edit, commit and check out   *)
(* between any two, and any run of git may fail.                           *)
(*                                                                         *)
(* A tree stands for all that git status sees outside glossabet-out and    *)
(* the root GLOSSABET.md.  Left out: the index, the configuration that is  *)
(* overridden and the environment that is not inherited.                   *)
(***************************************************************************)
EXTENDS Integers, FiniteSets, Absent

CONSTANTS
  Trees, GlossaryVersions,
  Commits,            \* records [tree, glossary: a version or None]
  AbbreviationLength, \* how much of a commit's name the shortest stamp holds
  MaxEdits            \* bound: what people do during a run

FullLength == 40

\* built_at_commit of a graph: absent, or the beginning of a commit's name.
BuiltStamps ==
  {None} \cup {[commit |-> c, length |-> n] : c \in Commits, n \in {AbbreviationLength, 7, FullLength}}

ASSUME StampAssumption ==
  /\ \A c \in Commits : c.tree \in Trees /\ c.glossary \in GlossaryVersions \cup {None}
  /\ AbbreviationLength \in 1..FullLength /\ MaxEdits \in Nat
  /\ None \notin Commits /\ None \notin BOOLEAN
  /\ None \notin {"committed", "modified", "ignored", "untracked", "unverified", "stale", "current"}

VARIABLES
  repository,         \* [head: a commit or None, tree, glossary,
                      \* ignored: whether .gitignore names glossary.json]
  report,             \* "evidence" or "brief"
  step,               \* which run of git comes next
  stamp,              \* GitStamp
  glossary_state,     \* path_git_state, or None
  built, freshness,   \* the graph's stamp and FreshnessRecord.status, or None
  moments,            \* what the repository has been since the run began
  failed, edits

stamping == <<repository, report, step, stamp, glossary_state, built, freshness, moments, failed, edits>>

Unknown == [head |-> None, dirty |-> None]

Clean(r) == r.head # None /\ r.tree = r.head.tree

(***************************************************************************)
(* repository_git_stamp and path_git_state.                                *)
(***************************************************************************)
\* git is absent, times out, or ends with an error.
GitFails ==
  /\ step \in {"rev-parse", "status", "path"}
  /\ step' = CASE step = "status" /\ report = "brief" -> "path"
               [] report = "evidence" -> "judge"
               [] OTHER -> "done"
  /\ failed' = TRUE
  /\ UNCHANGED <<repository, report, stamp, glossary_state, built, freshness, moments, edits>>

ReadHead ==
  /\ step = "rev-parse" /\ repository.head # None
  /\ stamp' = [stamp EXCEPT !.head = repository.head]
  /\ step' = "status"
  /\ UNCHANGED <<repository, report, glossary_state, built, freshness, moments, failed, edits>>

ReadStatus ==
  /\ step = "status" /\ repository.head # None
  /\ stamp' = [stamp EXCEPT !.dirty = ~Clean(repository)]
  /\ step' = IF report = "brief" THEN "path" ELSE "judge"
  /\ UNCHANGED <<repository, report, glossary_state, built, freshness, moments, failed, edits>>

\* No line of status reads as committed.
path_git_state(r) ==
  IF r.head.glossary = r.glossary THEN "committed"
  ELSE IF r.head.glossary # None THEN "modified"
  ELSE IF r.ignored THEN "ignored" ELSE "untracked"

ReadPathState ==
  /\ step = "path" /\ repository.head # None
  /\ glossary_state' = path_git_state(repository)
  /\ step' = "done"
  /\ UNCHANGED <<repository, report, stamp, built, freshness, moments, failed, edits>>

(***************************************************************************)
(* _freshness of the graph, which is loaded last.                          *)
(***************************************************************************)
_same_commit(b, current) == b.commit = current /\ b.length >= 7

\* Variant: what is not known to be dirty counts as clean.
_freshness_Hopeful(b, s) ==
  IF b = None \/ s.head = None THEN "unverified"
  ELSE IF ~_same_commit(b, s.head) THEN "stale"
  ELSE IF s.dirty = TRUE THEN "unverified"
  ELSE "current"

_freshness(b, s) ==
  IF b = None \/ s.head = None THEN "unverified"
  ELSE IF ~_same_commit(b, s.head) THEN "stale"
  ELSE IF s.dirty # FALSE THEN "unverified"
  ELSE "current"

JudgeGraph ==
  /\ step = "judge"
  /\ \E b \in BuiltStamps : built' = b /\ freshness' = _freshness(b, stamp)
  /\ step' = "done"
  /\ UNCHANGED <<repository, report, stamp, glossary_state, moments, failed, edits>>

(***************************************************************************)
(* People: edit, save a glossary or remove it, commit, check out.          *)
(***************************************************************************)
Become(r) == repository' = r /\ moments' = moments \cup {r}

Edit ==
  /\ step # "done" /\ edits < MaxEdits /\ edits' = edits + 1
  /\ \/ \E t \in Trees \ {repository.tree} : Become([repository EXCEPT !.tree = t])
     \/ \E v \in (GlossaryVersions \cup {None}) \ {repository.glossary} :
          Become([repository EXCEPT !.glossary = v])
     \/ \E c \in Commits \ {repository.head} :
          /\ c.tree = repository.tree
          /\ c.glossary \in {repository.glossary, IF repository.head = None THEN None ELSE repository.head.glossary}
          /\ Become([repository EXCEPT !.head = c])
     \/ \E c \in Commits \ {repository.head} :
          /\ Clean(repository)
          /\ \/ c.glossary = repository.head.glossary /\ Become([repository EXCEPT !.head = c, !.tree = c.tree])
             \/ /\ repository.glossary = repository.head.glossary
                /\ Become([repository EXCEPT !.head = c, !.tree = c.tree, !.glossary = c.glossary])
  /\ UNCHANGED <<report, step, stamp, glossary_state, built, freshness, failed>>

StampInit ==
  /\ repository \in [head: Commits \cup {None}, tree: Trees, glossary: GlossaryVersions \cup {None},
                    ignored: BOOLEAN]
  /\ report \in {"evidence", "brief"}
  /\ step = "rev-parse"
  /\ stamp = Unknown /\ glossary_state = None
  /\ built = None /\ freshness = None
  /\ moments = {repository} /\ failed = FALSE /\ edits = 0

StampNext == GitFails \/ ReadHead \/ ReadStatus \/ ReadPathState \/ JudgeGraph \/ Edit

StampSpec == StampInit /\ [][StampNext]_stamping

(***************************************************************************)
(* Properties.                                                             *)
(***************************************************************************)
\* The stamp may mix moments, but each part was so at one, and a run of git that
\* failed is never read as "clean" or as "current".
PartsTrue ==
  /\ stamp.head # None => \E m \in moments : m.head = stamp.head
  /\ stamp.dirty = FALSE => \E m \in moments : Clean(m)
  /\ stamp.dirty = TRUE => \E m \in moments : ~Clean(m)
  /\ glossary_state = "committed" => \E m \in moments : m.head # None /\ m.head.glossary = m.glossary
  /\ glossary_state \in {"untracked", "ignored"} =>
       \E m \in moments : m.head # None /\ m.head.glossary = None /\ m.glossary # None

\* Of a repository that stood still, the whole report is exact: what is called
\* current is the tree the graph was built from.
StillTrue ==
  (step = "done" /\ Cardinality(moments) = 1) =>
    /\ stamp.dirty # None => stamp.dirty = ~Clean(repository)
    /\ ~failed => stamp.head = repository.head /\ stamp.dirty # None
    /\ freshness = "current" => built.commit = repository.head /\ repository.tree = built.commit.tree
    /\ freshness = "stale" => built.commit # repository.head \/ built.length < 7
    /\ glossary_state = "modified" => repository.glossary # repository.head.glossary

\* "dirty=false" and "current" are never said of what nobody looked at ("the
\* stamp is then honestly unverified"), nor "committed" of a glossary.json that
\* differs from its commit.
StampTrue == PartsTrue /\ StillTrue
=============================================================================
