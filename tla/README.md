# Glossabet: TLA+ models and proofs

Glossabet extracts vocabulary evidence from a repository (`scan`), keeps a
human-settled glossary (`save`), compares the two (`drift`, `validate`) and
hands the result to coding agents (`inspect`, `brief`, `sync-context`).  It has
no server and no threads: its hard behaviours come from the file system, which
editors, version control, other runs of the same commands and kills change
between any two of its system calls, and from its bookkeeping of work limits,
where nothing that was left out may ever read as complete.

## Components

| Component | State it keeps | Operations | What makes it correct | Module |
| --- | --- | --- | --- | --- |
| Managed context (`agent/context_sync.py`, `agent/managed_context.py`, `runtime/artifacts.py`) | one marked block inside AGENTS.md or CLAUDE.md; a temporary beside it | read with identity checks, plan, write temporary, recheck, replace | nothing the run has not read is replaced; edits need `--force`; text around the block survives; temporaries do not pile up; a run is one step on the file | `SyncContext`, `ManagedBlock`, `ManagedFile` |
| Cache clearing (`corpus/cache.py`) | `<root>/<digest>/cache.json` per repository | classify, capture by rename, judge again, delete, restore | deletes only Glossabet's files and reports what it did | `CacheClear` |
| Extraction cache reuse (`corpus/cache.py`, `corpus/extraction.py`) | entries by path and content digest | load, reuse, extract, skip, save | a warm scan equals a cold one | `ExtractionCache` |
| Corpus walk and budget (`corpus/scanner.py`, `walk_budget.py`, `path_policy.py`) | pending directories, inventory, exclusion lists, a ledger of used and skipped work | bounded listing, classification, admission, reclassification after a failed read | used plus skipped is the inventory, ceilings hold, "complete" is never claimed wrongly | `CorpusWalk` |
| Glossary ownership (`glossary/schema.py`, `scope.py`) | per word, a trie of scopes | claim a term or alias, diagnose | no word has two accepted owners in overlapping scopes, and no conflict is invented | `ScopeOwners` |
| Evidence and matching (`analysis/vocabulary.py`, `evidence.py`, `evidence_facts.py`, `glossary/matching.py`) | counters, bounded tables, the index of compounds | fold, cap, match under a budget, occurrence queries | an exact count is the true one; a lower bound is one | `TermEvidence` |
| Drift (`glossary/drift.py`) | findings, suppressed counts | check watched and canonical terms | absence is claimed only from complete evidence, exact totals miss nothing | `VocabularyDrift` |
| Overloaded terms (`analysis/terminology.py`, `analysis/vocabulary.py`, `glossary/drift.py`) | contexts per token and module, nominations | collect contexts, measure dispersion, nominate, check canonical terms in their scopes | a sample is never taken for all of what it was cut from | `OverloadedTerms` |
| Graphify structure (`analysis/graphify_*.py`, `glossary/structural_validation.py`) | groups, match work, findings | normalise a foreign graph, match groups to concepts | partial input reads as partial | `StructuralMatching` |
| Configuration (`corpus/config.py`, the pruning of `corpus/scanner.py`) | rules: ignored prefixes and prefixes of roles | refuse conflicts, role of a path, prune a directory, judge a file and a link | the most specific prefix wins; pruning loses no file that would be kept | `PathRoles` |
| Bindings and reconciliation (`glossary/binding_validation.py`, `reconcile.py`) | findings | resolve bindings, judge orphans and fragmentation | what is called unresolved or orphaned is so in the whole repository | `Reconciliation` |
| Glossary store (`glossary/store.py`, `glossary_commands.py`, `runtime/artifacts.py`) | `glossabet-out/glossary.json` | validate, normalise, save, load | a reader meets one whole normalised document; a failed save leaves the old one | `GlossaryStore` |
| Repository glossary (`glossary/repository_glossary.py`, `corpus/path_policy.py`) | none (reads GLOSSARY.md) | confirm the exact name, read within a bound, compare with the settled terms | a file that is there is never reported absent; a term is called missing only from a text that was read | `RepositoryGlossary` |
| Agent context and brief (`agent/agent_context.py`, `brief.py`) | a ledger of losses | project, roll up, cut, serialise; render entries in a byte limit | every loss is told, once and with its amount; "complete" means whole | `AgentContext`, `Brief` |
| Installer and plugin (`install/`) | skill and plugin files in the user's agent directories | inspect, write a temporary, look again, replace, for each file | nothing that differs is replaced unasked; exit status 0 means all files are in place | `SkillInstall` |
| Opening a run (`command_run.py`) | none | judge each ancestor, read the glossary a command needs | no command works inside Glossabet's own output, none refuses another directory for its name | `CommandRun` |
| Git state (`runtime/git_state.py`, `analysis/graphify_input.py`) | none (asks git) | HEAD, dirty flag, state of glossary.json, freshness of a graph | what nobody looked at is unknown, not clean and not current | `RepositoryStamp` |
| Codex evaluation lane (`evaluation/codex/`) | an attempt history, raw results, the current result; the plugin in the user's Codex | identify, install, hold sessions, remove, record, promote, verify | nothing is left behind unsaid; a record claims no more than was judged (but see the observations); the history only grows while nobody else has read it | `CodexEvaluation`, `AttemptLedger` |
| Claude evaluation lane (`evaluation/claude/`) | a history, raw results, one scratch directory | make an owned scratch, call the host, remove it, record, verify | no directory but its own is deleted; records agree with raw results | `ClaudeEvaluation` |

What is not modelled is listed, with the reasons, near the end and in
PROJECT.json.

## How the parts interact

Every command first opens its run (`CommandRun`), which refuses a root inside
Glossabet's own output.  A scan reads the rules of glossabet.json and prunes by
them (`PathRoles`), walks the repository within its budget (`CorpusWalk`), stamps
the Git state (`RepositoryStamp`), extracts each admitted file or takes its entry
from the user's cache (`ExtractionCache`), folds the entries into bounded tables
(`TermEvidence`) and writes the evidence.  The user's agent settles a glossary,
whose ownership `save` checks (`ScopeOwners`) before it is normalised and put in
place (`GlossaryStore`).  `drift` compares it with the evidence
(`VocabularyDrift`) and with the contexts its words are used in
(`OverloadedTerms`), `validate` with its bindings (`Reconciliation`), with the
graph Graphify left (`StructuralMatching`) and with the repository's own
GLOSSARY.md (`RepositoryGlossary`).  `inspect` projects both for an agent
(`AgentContext`), `brief` prints the glossary (`Brief`) and `sync-context`
publishes the brief in a host file (`SyncContext`), whose block the next scan
strips again (`ExtractionCache`).  `cache --clear` removes the cache under running
scans (`CacheClear`).  `install` puts the skill and the plugin in place
(`SkillInstall`); the two evaluation lanes install and exercise them
(`CodexEvaluation`, `ClaudeEvaluation`).  All contact goes through files; no two
commands talk or lock.

Where one command computes from what another module computes in the same
process, the modules are composed by EXTENDS and run in one behaviour:
`Reconciliation` extends `VocabularyDrift`, which extends `TermEvidence`.  Where
commands meet only in files, each module gives those files to its environment.
An MC module then holds several components, one command per behaviour, with the
variables of the others constant: MCGlossary (save, report, validate, brief,
inspect), MCCorpusWalk (open, configure, discover, install, scan),
MCExtractionCache (scan, glossary, stamp), MCEvaluation (the two lanes, which
share the constants and variables of `EvaluationLane`).  The
components' states are not multiplied that way, and one instance of each
constant serves them.

## The modules and the code

**SyncContext.**  One run per process in `Procs`.  Every system call of
`read_regular_target` that looks at shared state is an action (`Lstat`,
`OpenTarget`, `LstatAgain`, `ReadBytes`, and the directory listing that confirms
a spelling, `NameConfirmed`/`NameUnconfirmed`); `Plan` is the decision,
`MakeTemporary`, `FillTemporary` and `Replace` are `replace_file_atomic`, and
`Recheck` starts the second read.  The environment rewrites, replaces, removes,
links, respells and chmods the target, saves glossaries, and a run may crash or
see any call fail.  Inodes are reused once free, so identity checks can be
fooled exactly as on a file system.  Contents are records: the hand-written text
and the shape of the block.  Between the last look and the rename a change is
not seen (`late`), as the code's documentation admits; the properties are stated
with that window, not around it.  The texts, what `analyze_managed_block` tells of them
and what is written in their place stand in `ManagedBlock`.

`ManagedFile` is what all this promises, in steps of a whole run: `Begin`, `LookAgain`, then
`Commit`, which puts the block into exactly the file that stands there and tells the
outcome, or `Leave`, which touches nothing; `Change` is everybody else, and may escape
only runs that are looking already.  `FileSpec` in `SyncContext` says that it is implemented
under the mapping beside it (`Standing`, `Stages`, `Escaped` ...).

**CacheClear.**  `clear_cache` call by call: list, stat, classify, rename the
root beside itself, check it is the one classified, then per child rename,
check, list again, unlink, rmdir, and put back what must stay.  Scans save by
path (mkdir, mkstemp, replace) in between and may be killed; other programs drop
and swap entries; calls may fail.  The items of an entry are known by name, so "foreign"
means foreign by name: a recognised name given to another file between the relist's stat and
`os.unlink` (`cache.py:464-466`) is outside the model.

**ExtractionCache.**  A scan: inventory (`Walk`), load (`Load`), one `Fold` or
`Skip` per file, `Save`.  A release is a cache format and a generator version;
`Class` lets two releases take one path for different things.  An entry is what
`Extract` yields from bytes; the SHA-256 of the code is the bytes themselves.
Failed loads and saves are nondeterministic misses; the entry's size and
statistics are left out.

**CorpusWalk.**  `walk_repository` directory by directory, with listing ceilings,
classification of directories and files into the exclusion kinds, admission by
stat, then the reads that move unreadable files from used to skipped
(`WalkBudget`'s ledger).  Files and directories change between listing, stat and
read.  A second scan runs afterwards, with `glossabet-out` in existence.

**ScopeOwners.**  `validate_glossary`'s walk over concepts, claiming each word in
its scope; `conflict` and `add` are the trie of `ScopeOwnerIndex`, kept as an
owner per node and a first owner below each node.  `claimed` is a history variable
of what was claimed, used by the properties only.

**TermEvidence, VocabularyDrift.**  `TokensOf` gives each spelling's tokens; the
fold, the caps on tables and location samples, the budgeted matching of
compounds at starting positions, and the occurrence queries follow the
code.  A counter's total is the size of its set of uses; `Rank` is the order of names
that breaks ties between counts.  Drift then settles or suppresses each term, in
any order.  The truth the properties
compare with (`CodeTruth`, `DocTruth`, ...) counts directly in the repository's
files, with no table in between.

**StructuralMatching.**  The bounded view of communities (`Grown`, `Visible`,
`retained_groups`, `member_tokens`), then one `MatchGroup` per group under the
shared budget, and the sections' exactness.  The order of groups, by label in
the code, is any order here.  Labels are the words in reach and the words
clipped away, so the truth is known where the code cannot see it.

**Reconciliation.**  After the drift report, `Validate` resolves each binding
(`_symbol_binding_status`, `_path_binding_status`), nominates orphans and fragmented
terms and says of each list whether its total is exact.  Paths are those of the
files, of their directories, of what the scan left aside on purpose (which exist
but are in no table) and of nothing.

**OverloadedTerms.**  `FoldUsage` keeps the contexts of each token and module up to
their cap, `SelectTokens` the most used tokens, `MeasureDispersion` computes one
token's dispersion or leaves it out, `NominateOverloads` shows samples of modules
and contexts, and `CheckOverloaded` is drift's check of the canonical ones.  A
repository is its true usage and what the scan read of it; the truth of
`OverloadsTrue` is computed from these, with no cap or sample.

**RepositoryGlossary.**  `Lookup`, `ListRoot` and `ConfirmName` are the calls of
`entry_named_exactly`, with a listing that may fold names and identities that may
be missing; then the link rule, the kind and the bounded read, each by name
again, and `Compare`, for which the terms to look for are pairs of a concept and a
place, 0 for the canonical term.  Others replace the entry between any two.

**CommandRun.**  `_inside_glossabet_output` ancestor by ancestor: skip, look for
each artifact (lstat, then the listing that confirms the spelling), compare
identities when the name is spelled in another case; then the glossary policy.
A failing lookup is an answer of the disk, and others change names, artifacts
and identities in between.

**SkillInstall.**  `_install_file` once for each file of a host: inspect,
reject links, read what is there, make the parent, write the temporary, look
again (`Authorize`), rename.  Two installs of different versions, with or without
`--force`, run at once; each call may fail and each run be killed.  Executables
answer the version probe, and the hook names the one chosen.

**PathRoles.**  `LoadConfig` refuses or takes the file; `VisitFolder` judges the
folder's directories and files as `_classify_directories` and `_classify_files` do,
with what each knows at that point; a link is judged by where it leads.  Names
are of classes: the built-in conventions, hidden, sensitive, Glossabet's own.

**GlossaryStore.**  `save` and the loading commands call by call: parse the
document, make the output directory, confine the name, temporary, rename; stat,
open, read within the bound, parse, validate.  A document is a sequence of
concepts with prefixes in one of two Unicode spellings, which is what the
normalisation changes; sizes are those of the compact and of the indented text.

**RepositoryStamp.**  Each run of git is an action that reads the repository as
it is then, or fails; commits, checkouts and edits come between.  What a tree
is stands for all that the status pathspec lets git see.

**AgentContext.**  The lean reductions (`RollUp`, `LocateNames`,
`SampleRegister`), then one `BoundedCopy` per value in the order of the recursion,
each loss recorded by its pattern of path and kind in `_record`, then the
serialised size against the ceiling.  A document is a function from paths to
sorts and sizes.

**Brief.**  One `RenderEntry` per concept while there is room; a footer is a size
that depends on the digits of its counts, and the worst one is reserved before
each entry is cut to what is left.

**CodexEvaluation.**  A run is a program counter through identification, the
marketplace, the plugin, three sessions, removal and scratch to the result and the
history; `Abort` and `attempt_from_error` are the carrier of the stage that failed.
A host command may take effect and still fail; the operator may interrupt and kill,
start another run, and edit the tree or undo an edit: the tree is one of `Trees`,
contents as its identity tells them apart, so it may return to what it was.
`history_errors` and `verify_results` are the verifier. What a session was judged to
be is chosen from `Possible`. `used` collects every content a run has read anything
from, from the start of its evaluator to the prompts and the skill of its last
session; `edited` and `contested` note what the exceptions of the properties name,
and no code reads the three. `AttemptLedger` is the abstract specification: attempts
are appended once each, and what is published is an attempt's raw result.
`LedgerSpec` says that the lane implements it, with the published result mapped to
the lane's mirror: one step of the lane that writes the history is one `Retain`,
promotion is `Publish`, all else stutters, except the steps of a run that another
one has `Overtaken`.

**ClaudeEvaluation.**  The owned scratch on the anchored path: parent, directory
and marker are compared before the recursive removal, while other programs move
the parent, the scratch or a copy of it.  Then raw result, history and verifier.
The fallback by path, on systems without directory descriptors, is left out.

## Runs

| Run | Asks | Instance |
| --- | --- | --- |
| `sync_one` | one run against every edit, kind, mode and failure | one process, three inodes (target, replacement, elsewhere), all block shapes; no `O_NOFOLLOW`, case-folding names: a superset of other platforms |
| `sync_two` | two runs and a ceaseless editor: whether each is one step on the file (`ManagedFile`); liveness | two processes, three inodes, two shapes |
| `clear` | clear against two scans of two repositories, another program and failing calls | four directory identities; two scans, or one scan with one foreign change and with faults |
| `clear_own_layout`, `clear_partly` | disagreements, see below | one scan, no foreign change |
| `walk` | what commands do with paths that others change | scan: three files, three directories, every kind, sizes 1 to 3 around ceilings 2 and 3 (one file starts with 1 or is missing), one change, scanned twice. open: two ancestors, two artifacts each, one interference. discover: eight kinds of entry, two replacements. install: two versions, one executable, one interference. configure: two levels, two links, up to three rules |
| `walk_again` | disagreement, see below | three files, no change |
| `glossary` | whether what is said of a glossary is true of the repository | save: three levels, three concepts, four claims. report: three code files and a document, tables of 2 tokens, 3 identifiers, 1 doc term, 1 location, 5 start positions, bindings to every kind of path. validate: three nodes, up to four entries, three concepts; caps of 2 words, 3 groups, budget 4, one shown pair. brief: up to three entries with sizes at each limit. inspect: documents of modules and concepts, at most five records. drift: three tokens over five modules; three contexts of four modules measured, two of three shown, of one of two tokens |
| `warm_scan` | files kept between runs, and Git | scan: two scans, two releases of one format, a code file one release takes for a doc, a host file, two events by others. glossary: two clients, four documents, one move by others. stamp: five commits over two trees and two glossaries, two edits |
| `evaluation` | what the evaluation lanes record and leave | two invocations, two output names, two contents of the tree, any number of edits; see the three lanes below |
| `evaluation_cleanup`, `evaluation_identity` | disagreements, see below | as above |

Why these sizes: every check in the code compares two looks, or one amount with one
limit. A stale look needs one change by another actor between two steps, and reuse
of an identity needs one more; two changes and one spare identity reach both;
`clear` has one identity more than a full cache has directories. For limits, each
instance has contents below, at and above each limit, and at least two items that
compete for it. `evaluation` is three lanes, of which a behaviour is one: `codex`,
one run after another with every failure of the host, the tree left alone;
`overlap`, any two runs at once while the tree is edited and restored, on a host
that works; `claude`, two overlapping runs of one output and one change of
directories by another program. Taken together they would only multiply failures
with overlaps; the theorems have no such split. Where theorems exist, the bounds no
longer matter. Not reached by `glossary`: compounds longer than
`MaxCompoundTermTokens` and terms without tokens.

Runs without deadlock checking end legitimately (a command finishes).

**Fairness.**  Only `RunsEnd` needs any: `FairSpec` asks weak fairness of each
process's `Step`, because the operating system keeps scheduling a started
process and its calls return.  Nothing is asked of editors, crashes or the start
of runs.  `RunsEnd` says each run ends although editors never stop, since it
rereads a bounded number of times.

## What the checks show

- `FileSpec`: the effect of a run on the file is one step, as `ManagedFile` states it.
- `NothingUnseenReplaced`: what a run replaces is what its second read saw, or
  changed within the last window between look and rename.  `EditsNeedForce`,
  `SurroundingsKept`: outside that window an edited block goes only under `--force`,
  and text around survives.  That an up-to-date file is not written is part of
  `FileSpec`, and `NothingRewritten` proves it by itself.
  `TemporariesAccounted`: a temporary that stays is a killed run's, or that of a
  run whose clean-up failed.
- `NeverDeletesForeign`, `DeletesOnlyClassified`, `TruthfulReport`: clearing
  deletes nothing it did not recognise, and says what is left.
- `LedgerTrue`, `CompleteMeansRead`, `EveryPathAccounted`, `LaterScanAgrees`: used
  plus skipped is the inventory under every ceiling, a scan is complete only if
  it read all, and the next scan of an unchanged tree agrees.
- `RolesTrue`: exactly the files that are content by the most specific rule are
  read, however directories were pruned, and any other is reported once or hidden.
- `OutputRefused`: no run opens inside Glossabet's output, none is refused for a
  name alone.  `SectionTrue`: GLOSSARY.md is called absent or a term missing only
  if it was so.  `InstallTrue`: without `--force` nothing that differs is
  replaced outside the last window, and status 0 means every file is in place.
- `AcceptedDisjoint`, `DiagnosticsTrue`: a glossary accepted without conflicts
  has disjoint owners; each reported conflict exists.
- `CountsTrue`: occurrence facts against the files.  `SectionsTrue`: what drift
  finds is so, and sections called exact miss nothing.  `ReconciliationTrue`: the
  same of bindings, orphans and fragmentation.  `TotalsTrue`: of groups.
  `OverloadsTrue`: of terms in disjoint contexts, in scopes too.
- `BriefTrue`, `ContextTrue`: the limits are kept and every loss is told.
- `WarmIsCold`, `NeverPoisoned`: reuse never changes a result, and no scan
  leaves a cache that could.  `StoreTrue`: a reader meets a whole document, and a
  save says truly what became of it.  `StampTrue`: each half of the stamp was so at
  some moment, and of a repository that stood still all of it is exact.
- `LifecycleClaimTrue`, `EveryRunRetained`, `ChecksTrue`, `CurrentMeansDelivered`,
  `RecordsVerify`, `ClaudeRecordsVerify`, `AcceptedIsClean`, `ScratchTrue`, `LedgerSpec`: what the lanes
  record is what happened, and their verifiers accept it.  Five of them hold of the
  Codex lane only with the exception written in them: `ChecksTrue` (an abort in the
  missing-CLI session), `RecordsVerify` (an output another run had named),
  `CurrentMeansDelivered` (an edit while the run read from the tree), `EveryRunRetained`
  and `LedgerSpec` (another run about to write back the history).  Without its exception TLC
  finds each of the five violated; the observations tell how.

The run `warm_scan` checks a type invariant with them; the other type invariants
that proofs rest on are parts of the inductive invariants below.  Every property is broken by a plausible error in the
code: the operators named
`..._<Word>` beside a definition are those variants, listed under "mutants".

### Disagreements between code and documents

- `clear_own_layout`: `clear_cache` documents its own temporaries as
  recognised, but they start with a dot (`.cache.json.<random>.tmp`), so after a
  scan killed before its rename every later clear refuses the cache.
- `clear_partly`: a foreign entry that appears after classification is kept, but
  repositories deleted before it was seen are gone, although the docstring says
  the cache "can never be partly cleared".
- `walk_again`: the directory ceiling counts `glossabet-out`, so a root exactly
  at the ceiling is inventoried by the first scan and skipped by the second,
  although a comment says they "remain identical".
- `evaluation_cleanup`: an error while the scratch directory is left replaces the
  record of a failed removal, and the attempt says the plugin was removed.
- `evaluation_identity`: the Claude lane identifies its inputs after its calls, so
  an edit meanwhile is bound to a result that never saw it.

### Observations

Met while modelling; no run is made of them, because the documents leave them
open or the properties above already state the exception.

- `save_glossary` does not compare the indented text with `MAX_JSON_BYTES`: a
  document near the ceiling is saved and never loads again (`StoreTrue` excepts it).
- `glossary_sha256` keeps the order of concepts, so two saves of one vocabulary
  agree only because `save_glossary` sorts it; one put in place by hand differs.
- HEAD and the dirty flag are of two moments; `path_git_state` says "committed" of a
  path that is neither in HEAD nor on disk.
- A Codex run aborted in its missing-CLI session is recorded with `plugin_scenarios`
  "passed" (`codex/history.py:325-329`), although its hook or plugin session may have been
  judged missed, blind or writing; `history_summary` counts it so, and the verifier demands it.
  EVALUATION.md (line 251) asks of a genuine record that it is "honest about failures"; this
  one says that the attempt failed, but passed what was not (`ChecksTrue` excepts it).
- The Codex lane identifies its inputs at `codex/runner.py:447`, so that the identity describes
  "the bytes this run consumes", but it reads the manifest before, copies the plugin after
  (`codex/host.py:237`) and installs the skill of the missing-CLI session last
  (`codex/runner.py:98`).  A tree edited before it is identified, or
  edited after and restored, passes `--current` with material the identity never described
  (`CurrentMeansDelivered` excepts a tree edited while the run read from it).  The record of
  an aborted run or of a probe is identified only when it is made.
- Two Codex runs at once may lose an attempt: `append_attempt` reads, then writes, with no
  lock, so that a run which had read the history before another one wrote it writes that
  record away.  evaluation/README.md (lines 19-21) calls the indexes append-only without
  condition; it holds outside that window (`EveryRunRetained`, `LedgerSpec`).
- Two Codex runs given one `--output` both pass the check that it does not exist
  (`codex/history.py:126`), made when they begin; the later overwrites the raw result of the
  earlier, whose record the verifier then refuses (`RecordsVerify` excepts it).
- A Codex run interrupted in its missing-CLI probe is not retained
  (`codex/runner.py`, `run_recorded_probe`), and a failed write after the lifecycle
  is recorded as a failed preflight.
- An overloaded region's `concept_count_exact` (`structural_validation.py:262`) is
  true whenever matching ended, also when the words of the group were clipped;
  ARCHITECTURE.md says both that no lower bound is serialised as an exact total
  and that count exactness names unfinished match work only.
- A scoped concept is checked for overload only if its word diverges in the whole
  repository: one that diverges within its scope alone is not found, in a total
  called exact (`OverloadsTrue` says both).
- A clear that is killed, or whose lstat fails after the rename, leaves the whole
  cache beside its path (`TruthfulReport` excepts it).

## What is proved

The `...Proofs` modules prove, for all values of the constants that satisfy the
named assumptions (`SyncAssumption`, `BlockAssumption`, `TreeAssumption` and the like: sets are
finite, names distinct, tables have the right type, directories and the trie are
trees).  The proofs about finite sets and sequences cite `FiniteSetTheorems` and
`SequenceTheorems`.

**SyncContextProofs.**  `TypeCorrect`, `NothingUnseen`, `NoTemporaryForgotten`
from the invariant `IInv == TypeOK /\ Holds /\ Looked`.  `NothingUnseenReplaced`
speaks of the moment of the rename only and is not inductive: `Holds` says which
inodes a run's temporary and descriptor keep alive, so none is reused under it;
`Looked` says, for each stage of the second read, what the run already knows of
the target unless a change came late.  `EditsForced`, `NothingRewritten` and
`TextKept` are action properties: they add `Planned`, that what a run is about
to write is still what its plan decided from its first read.  `KeepsPromise` is the
refinement of `ManagedFile`: a step of a run is seen as nothing (`Hidden`), as leaving
the file alone (`Leaves`), or, at the rename alone, as the one step on it
(`ReplaceCommits`, from `Looked` and `Planned`); a change from outside is never seen to
escape a run before it looks again (`EnvironmentChanges`).

**GlossaryProofs.**  Five components, each with its own invariant.

- *Ownership*: `Typed`, `NoTwoOwners`, `NoFalseConflict` from
  `IInv == TypeOK /\ Exact /\ AcceptedDisjoint /\ DiagnosticsTrue`, where `Exact`
  says that the trie holds exactly the claims: an owner kept at a node or below it
  made a claim there, and every place a claim covers keeps an owner.  The lemmas
  `ConflictSound` and `ConflictComplete` are the correctness of the trie query
  against pairwise overlap; `AddExact` keeps `Exact`.
- *The brief*: `BriefHolds`, for any entries and ceilings.  `BriefInvariant` says that
  the counters are true of the body written so far, and that there is always room
  for a footer (`FooterReserved`): each footer is at most the worst one, because a
  smaller count has no more digits (`DigitsGrow`).
- *Structure*: `TotalsHold`, for any graph, glossary, cap and budget.
  `StructureInvariant` says that a group is what the entries met so far make of it,
  and that the findings are those of the groups matched so far.  That a group with
  all its pairs counted has n(n - 1) / 2 of them is `PairsCounted`, by a bijection
  between the ordered pairs and twice the unordered ones.
- *Overloads*: `OverloadsHold`, for any repository, caps and thresholds.
  `OverloadInvariant` says which contexts were cut, which tokens were measured and of
  what, and where the candidates come from.  A token in two modules is used twice
  (`WideEligible`), a cap that fits all leaves none out (`AllChosen`), and a complete
  sample is the whole (`WholeInScope`): those three make an exact section exact.
- *The context*: `ContextHolds`, for any document, limits and number of records.
  `ContextInvariant` says that what can be reached is copied or lies ahead, exactly
  once (`CopyOf`), and that the ledger holds one record for each kind of loss met so
  far, of the amount cut so far (`LedgerKept`).  Amounts are sizes of sets of what was
  cut, so that adding a loss is adding a disjoint set (`MoreLoss`).  A refusal means
  that the kinds are more than the records (`NoRoom`); where nothing was cut
  everything is reached (`AllReached`).

**StoredFileProofs.**  Two files that several processes replace.

- *The extraction cache*: `TypeCorrect`, `CacheFaithful`, `ColdOrWarm` from
  `IInv == TypeOK /\ NeverPoisoned /\ LoadedFaithful /\ FoldedFaithful`: not only
  the file, also what each running scan loaded and folded must be faithful to the
  release it belongs to, or a save would publish it.
- *The glossary*: `WholeGlossaries`, for any clients, inputs and edits.
  `StoreInvariant` says that what stands is another program's, or whole and of a
  client's input (`Known`), and what each client holds of it at each call
  (`Serving`).  That two saves of one vocabulary write one text is `SavedAlike`: a
  sequence sorted by a field that no two elements share is determined by the set of
  its elements (`SortedIs`, `SortedAlike`), each element standing at its rank.

**CommandProofs.**  Five components, each with its own invariant.

- *Opening a run*: `OpeningTyped` and `OutputAlwaysRefused`, for any depth of the
  root, any number of artifacts and of interferences, from `OpeningInvariant`.
  Besides the types it says that, unless something could not be told, no ancestor
  already passed is output (`PassedClear`) and none of the artifacts already
  looked at in the current one stood there all the while (`LookedClear`), and that
  an artifact that was found did stand or was disturbed (`FoundStood`).
- *Installing*: `InstalledIsWanted`, for any number of overlapping installs.
  `InstallTrue` speaks of the end of a run; `Progress` says what is in place and
  what is still ahead at each point of it, `InPlace` that what was put in place is
  there unless others changed it, `Permitted` that before the rename nothing is at
  the name unless it came after the last look.
- *The repository's glossary*: `SectionOfTheFile`.  `DiscoverySees` says of each
  point between the two lookups, the two listings, the link rule and the read what
  must have been so of the entry once; `Compared` that a reported comparison is the
  function `Divergence` of the bytes read, and the lemma `DivergenceSound` is the
  correctness of that function, cap included.
- *The stamp*: `StampExactOrMixed`.  `PartsTrue` is inductive once `Answered`
  says what each run of git that came to an answer left behind.
- *Path roles*: `RolesOfContent`, for trees of any depth and any rules.  The lemmas
  `RoleOfPath` (the role of a path is that of its longest rule, else of convention),
  `ExcludedBelow` (a directory that is excluded and has no rule below it holds no
  content) and `ContentEntered` (all directories above content are entered) are
  why pruning is safe.  The invariant says that each directory to be visited was
  entered by right, that each report and each file read is at a path the walk
  reaches, and (`SourcesMet`) that each file is still to come below a directory to
  be visited, or is read, reported or hidden.

**CacheClearProofs.**  `OnlyClassified`, `ReportsTruth` and the action property
`ForeignKept`, under kills, failing calls, scans and other programs, from
`IInv == TypeOK /\ Placed /\ CapturesNoticed /\ Judged /\ TruthfulReport`: what
stands beside the root and in its capture name at each location, that a capture
name left by an earlier clear is always noticed, and that what is about to be
deleted is the directory that was classified, with only recognised items in what
was last listed.  That listing may be stale, so `ForeignKept` needs more than
`OnlyClassified`: unlinking takes the name it was recognised by, and removing
a directory needs it empty.

**CorpusWalkProofs.**  `LedgerHolds`, `CompleteRead`, `EveryPath` and `LaterAgrees`, for
every tree, content, change and ceiling.  `Balanced` says of the ledger that the files admitted
are those read or unread, with the bytes charged for each: the total of bytes is
the size of a set (`AdmittedBytes`), so that no induction over a sum is needed.
`Apart` says that no directory ahead is beneath another, `MetOnce` that nothing met
is to come again and each path has one place, `SourceAccounted` and
`PathsAccounted` that what the walk is bound to meet is still to come, or told of.
`TreeAssumption` and `OrderAssumption` hold of every file system: directories
without links are a tree, and a walk by sorted names has an order.

`LaterAgrees` compares two whole scans.  Its invariant does not: `Undisturbed` says what
one scan decides as a function of the repository alone, and the evidence of the scan
before (`Told`) is one such.  Which list a path is put into depends on the path
(`ListOf`); which files are taken depends on those taken before, so `Determined` only says
that the files taken are *a* choice in which a file is taken exactly when the earlier ones
leave it room (`Chosen`), and `OneChoice` that there is one: two choices would differ at an
earliest file, and before it they agree.  `Ordered` says that what is behind comes before
what is ahead, so that a file is judged with all earlier ones behind and no later one.
TLC checked `Undisturbed` on the instance of `walk` before it was proved.

**EvidenceProofs.**  `CountsHold`, `SectionsHold`, `ReconciliationHolds`: the three
modules from the files to the report, for any repository, glossary, files missed,
caps, samples, budgets and thresholds, under `EvidenceAssumption`, `DriftAssumption`
and `ReconciliationAssumption`.

- *Sums without induction*: a counter's total is the size of its set of uses, so one
  total is at most another because the uses are a part (`TotalAtMost`), and a table
  summed by rows and by columns gives the same because the two families of sets
  are in bijection (`FamilySize`, `Exchange`).  A cap that is not reached keeps all
  that was seen (`TopKeeps`, `TableIs`); one entry's answer under a scope is
  `EntryAnswers`.
- *The tables*: `EvidenceInvariant` says that a file is folded as it is, or nothing
  of it is (`CodeFolded`, `CodeLeft`), so that what the tables hold is the truth
  restricted to the files folded, and all of it once the corpus is complete.
- *The matching*: the positions looked at are some set of `processed_starts`
  places, and a compound that begins at one of them was found there (`TriedAt`).
  When as many were tried as there are, that set is all of them (`AllTried`): this
  is why `compound_complete` may compare two numbers.
- *The reports*: `DriftInvariant` judges each finding and each term already checked
  by what is true of the repository, which no step changes (`TruthStays`);
  `ValidationSound` is the same of `Validate`, which is one step.

**EvaluationProofs.**  The two lanes, each with its own invariant.

- *Codex*: `LifecycleClaimHolds`, `ChecksHold`, `CodexRecordsAccepted`, `RunsRetained`,
  `CurrentWasDelivered` and `ImplementsLedger`, the refinement of `AttemptLedger`, all
  from `CodexIInv`, for any number of overlapping runs, raw results and edits.  For
  each run it says what the host may hold and which claims of removal are warranted
  (`Owns`), which sessions were judged (`Watched`), that a run whose tree stood still has
  used the one content it identified (`Dated`), and what stands on disk of it
  (`CodexEvident`).  Of each record it says that its claims are warranted and, unless its
  output was contested, that its raw result stands and nobody may write it any more
  (`CodexKept`, `Fixed`).  That must be so of every record in the history *and* in what a run
  has read and may write back (`Ledgers`): a history that was overtaken comes back with
  its records.  A step of one run keeps it all if it leaves of that run what was said of
  it before (`Follows`) and adds on disk only what is in order (`CodexStepKeeps`).  A record
  is in all the ledgers from its append on, because nobody else had read the history
  (`Holds`): without that, `RunsRetained` excepts it.
- *Claude*: `ScratchHolds`, `ClaudeRecordsAccepted` and `AcceptedClean`, for any number
  of overlapping runs and of changes by other programs.  `Standing`: under a run's
  name is its own directory or another program's; `Compared`: what each comparison
  before the removal established, unless a change came after it; `ClaudeEvident` and
  `Retained`: what a run that was not aborted has behind it, and what is so of a
  record in every history a run has read, also one that is no longer on disk.

Only model-checked: `RunsEnd` (liveness, out of the prover's reach).

## Abstractions to know about

Contents, words and identities are model values; nothing is proved about
regular expressions, JSON, Unicode folding or hashing.  Failures of reading
calls are one "failed" outcome each.  `MaxForeign`, `MaxEvents`, `MaxChanges`,
`MaxInterferences`, `MaxReplacements`, `MaxMeddlings`, `MaxMoves`, `MaxEdits` (of Git),
`MaxSwaps`, `Losses`, `MaxConcepts` and `MaxClaims` bound what others do or how much
there is; no property depends on them.

## Not modelled

- Tokenising and imports: regular expressions over source text, without state.
- Importance, the register, layers and synonyms of the terminology, and the
  evidence report: rankings computed at
  once from counts that `TermEvidence` covers.
- The deterministic evaluation and its scores, the reviewer lane, benchmarks,
  release scripts: sequential computations over recorded data, run by
  maintainers.
- Parsing of arguments, display text, type declarations, the skill's text.
- Of the parts marked "partly" in PROJECT.json, what their notes name: the schema's
  field checks, groups from node attributes, parallel terms of drift, the resolution of git and its environment, traces of sessions.

## Plan

Every safety property the runs check is proved.  What would come next:

1. The parts marked "partly", in the order of what they could get wrong: the
   structural adapters' groups from node attributes, parallel terms of drift, and the
   schema's field checks.
2. The other uses of `replace_file_atomic` as implementations of one promise like
   `ManagedFile`: the stored documents (`StoreTrue` and `StampTrue` state it piecewise)
   and the installed skill.
3. Where a sum or a sorted sequence is in the way: induction over the naturals by a least
   counterexample (`WFMin` with `NatLessThanWellFounded`), as the lemmas `Greatest` of
   `CommandProofs` and `OneChoice` of `CorpusWalkProofs` do.
