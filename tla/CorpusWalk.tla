----------------------------- MODULE CorpusWalk -----------------------------
(***************************************************************************)
(* A scan's inventory: walk_repository lists directories, classifies what  *)
(* it finds and admits source files by their stat alone; SourceExtractor   *)
(* reads the admitted files afterwards and moves those it cannot read from *)
(* the used to the skipped side of the corpus budget.  Files change, come  *)
(* and go between the listing, the stat and the read.                      *)
(*                                                                         *)
(* Left out: file contents, the bounded samples of skipped paths, and the  *)
(* monorepo hints the walk collects on its way.                            *)
(***************************************************************************)
EXTENDS Integers, FiniteSets, Absent

CONSTANTS
  Dirs, Files,        \* the directories and files a scan may meet
  Root,               \* the scanned directory
  OutDir,             \* glossabet-out in the root, which every scan creates
  Subdirs,            \* the directories inside each directory
  Contained,          \* the files inside each directory
  Above,              \* the directories above each path
  Place,              \* where each path comes in the order of a walk
  Production,         \* the files whose content has role "production"
  KindChoices,        \* the kinds each path may have
  DiskChoices,        \* what a file may be on disk: pairs of state and size
  MaxFileBytes, MaxSourceFiles, MaxSourceBytes,
  MaxWalkEntries, MaxDirectoryEntries,
  MaxChanges,         \* bound: changes others make while scans run
  Rescans             \* TRUE iff the repository is scanned a second time

Paths == Files \cup (Dirs \ {Root})

\* EXCLUSION_KINDS: the lists that collect excluded paths.
Lists ==
  {"sensitive", "oversized", "symlinks_escaping_repo",
   "symlinks_to_excluded_content", "symlinked_directories", "unreadable",
   "configured", "generated", "vendored", "self_glossaries", "self_reports"}

\* What the name and the configuration say of a path, in the order of the
\* tests; a path excluded by them carries the name of its list.  "plain" is a
\* directory to descend into or a file with a source extension, "other" a
\* file without one.
ExcludedByName == {"sensitive", "configured", "generated", "vendored"}
SelfFile == {"self_glossaries", "self_reports"}
Redirecting == {"symlinks_escaping_repo", "symlinked_directories"}
DirKinds == ExcludedByName \cup Redirecting \cup {"hidden", "plain"}
FileKinds == ExcludedByName \cup SelfFile \cup {"hidden", "other", "plain"}

\* What stat and open find: decodable text, other bytes, nothing (a dangling
\* link too), something they may not or cannot read, or a link the content
\* rule refuses, named by its list.
RefusedLink == {"symlinks_escaping_repo", "sensitive", "symlinks_to_excluded_content"}
States == {"text", "binary", "missing", "unreadable"} \cup RefusedLink

Disk == [state: States, size: Nat]

\* Why the budget refuses a source.
Refusals == {"file-size-limit", "source-file-limit", "source-byte-limit"}

ASSUME WalkAssumption ==
  /\ Root \in Dirs /\ OutDir \in Dirs \ {Root}
  /\ Dirs \cap Files = {} /\ IsFiniteSet(Dirs \cup Files)
  /\ None \notin Nat \cup Lists \cup Refusals
  /\ Production \subseteq Files
  /\ KindChoices \in [Paths -> SUBSET (DirKinds \cup FileKinds)]
  /\ DiskChoices \subseteq Disk
  /\ {MaxFileBytes, MaxSourceFiles, MaxSourceBytes, MaxWalkEntries,
      MaxDirectoryEntries, MaxChanges} \subseteq Nat
  /\ Rescans \in BOOLEAN

\* Directories and files are a tree: links to directories are not entered.
ASSUME TreeAssumption ==
  /\ Subdirs \in [Dirs -> SUBSET (Dirs \ {Root})]
  /\ Contained \in [Dirs -> SUBSET Files]
  /\ Above \in [Dirs \cup Files -> SUBSET Dirs]
  /\ \A d \in Dirs :
       /\ d \notin Above[d]
       /\ \A p \in Subdirs[d] \cup Contained[d] : Above[p] = Above[d] \cup {d}
  /\ \A p \in Paths :
       /\ Root \in Above[p]
       /\ \A d \in Above[p] :
            /\ Above[d] \subseteq Above[p]
            /\ p \in Subdirs[d] \cup Contained[d] \/ \E s \in Subdirs[d] : s \in Above[p]

\* Siblings come in the order of their names, and what is beneath a directory
\* comes after it and before its next sibling.
ASSUME OrderAssumption ==
  /\ Place \in [Dirs \cup Files -> Nat]
  /\ \A p, q \in Dirs : Place[p] = Place[q] => p = q
  /\ \A p, q \in Files : Place[p] = Place[q] => p = q
  /\ \A p \in Dirs : \A d \in Above[p] :
       /\ Place[d] < Place[p]
       /\ \A s, t \in Subdirs[d] :
            (s = p \/ s \in Above[p]) /\ Place[s] < Place[t] => Place[p] < Place[t]

VARIABLES
  kind, disk, unlistable,          \* the repository
  out,                             \* TRUE iff glossabet-out exists
  pc,                              \* "list", "dirs", "files", "read", "done"
  pending, here, dirs, files, kept, \* locals of walk_repository
  skipped, inventory,              \* WalkResult: lists, code_files + doc_files
  budget,                          \* CorpusBudget
  skips,                           \* the paths skip_source was called for
  unread, read,                    \* inventory left to read; entries extracted
  last,                            \* evidence of the previous scan, or None
  touched, changes                 \* paths changed since this scan began

repository == <<kind, disk, unlistable, out>>
walk == <<pending, here, dirs, files, kept>>
result == <<skipped, inventory>>
extraction == <<unread, read>>
others == <<touched, changes>>
vars == <<repository, pc, walk, result, budget, skips, extraction, last, others>>

(***************************************************************************)
(* CorpusBudget.                                                           *)
(***************************************************************************)
NoBudget ==
  [walk_entries |-> 0, source_files |-> 0, source_bytes |-> 0,
   skipped_files |-> 0, skipped_bytes |-> 0, skipped_production |-> 0,
   truncated |-> FALSE, omitted |-> 0, admitted |-> [f \in Files |-> None]]

include_source(b, f, size) ==
  [b EXCEPT !.source_files = @ + 1, !.source_bytes = @ + size, !.admitted[f] = size]

skip_source(b, f, size) ==
  [b EXCEPT !.skipped_files = @ + 1, !.skipped_bytes = @ + size,
            !.skipped_production = IF f \in Production THEN @ + 1 ELSE @]

\* Variant: the skip is not charged.
reclassify_unread_Uncharged(b, f) ==
  [b EXCEPT !.source_files = @ - 1, !.source_bytes = @ - b.admitted[f],
            !.admitted[f] = None]

\* Exactly the bytes the walk charged move to the skipped side.
reclassify_unread(b, f) ==
  skip_source([b EXCEPT !.source_files = @ - 1, !.source_bytes = @ - b.admitted[f],
                        !.admitted[f] = None],
              f, b.admitted[f])

truncate_walk(b, minimum_omitted) ==
  [b EXCEPT !.truncated = TRUE, !.omitted = @ + minimum_omitted]

walk_entries_exhausted(b) == b.walk_entries >= MaxWalkEntries

Charged(b) == [b EXCEPT !.walk_entries = @ + 1]

source_refusal(b, size) ==
  IF size > MaxFileBytes THEN "file-size-limit"
  ELSE IF b.source_files >= MaxSourceFiles THEN "source-file-limit"
  ELSE IF b.source_bytes + size > MaxSourceBytes THEN "source-byte-limit"
  ELSE None

Complete(b) == ~b.truncated /\ b.skipped_files = 0
ProductionComplete(b) == ~b.truncated /\ b.skipped_production = 0

(***************************************************************************)
(* The walk.                                                               *)
(***************************************************************************)
PresentDirs(d) == {s \in Subdirs[d] : s # OutDir \/ out}
PresentFiles(d) == {f \in Contained[d] : disk[f].state # "missing"}

Overfull(d) ==
  Cardinality(PresentDirs(d)) + Cardinality(PresentFiles(d)) > MaxDirectoryEntries

\* Snapshots are sorted by name, and the pending directories are a stack onto
\* which the kept ones are put in reverse: each is taken in the order of the tree.
Foremost(p, S) == p \in S /\ \A q \in S : Place[p] <= Place[q]

\* Variant: a directory that cannot be listed reads as empty.
ListDirectory_ReadsAsEmpty ==
  /\ pc = "list"
  /\ \E d \in pending :
     /\ Foremost(d, pending)
     /\ pending' = pending \ {d}
     /\ IF d \in unlistable \/ Overfull(d)
          THEN /\ budget' = IF d \in unlistable THEN budget
                            ELSE truncate_walk(budget, MaxDirectoryEntries + 1)
               /\ UNCHANGED <<pc, here, dirs, files, kept>>
          ELSE /\ here' = d /\ dirs' = PresentDirs(d) /\ files' = PresentFiles(d)
               /\ kept' = {} /\ pc' = "dirs"
               /\ UNCHANGED budget
  /\ UNCHANGED <<repository, result, skips, extraction, last, others>>

\* _bounded_directory_entries and _partition_entries for the next directory:
\* its whole snapshot is taken or none of it.
ListDirectory ==
  /\ pc = "list"
  /\ \E d \in pending :
     /\ Foremost(d, pending)
     /\ pending' = pending \ {d}
     /\ IF d \in unlistable \/ Overfull(d)
          THEN /\ budget' = truncate_walk(budget,
                    IF d \in unlistable THEN 0 ELSE MaxDirectoryEntries + 1)
               /\ UNCHANGED <<pc, here, dirs, files, kept>>
          ELSE /\ here' = d /\ dirs' = PresentDirs(d) /\ files' = PresentFiles(d)
               /\ kept' = {} /\ pc' = "dirs"
               /\ UNCHANGED budget
  /\ UNCHANGED <<repository, result, skips, extraction, last, others>>

Listed(list, p) == skipped' = [skipped EXCEPT ![list] = @ \cup {p}]

\* The walk-entry ceiling stops the walk, the pending directories included.
Exhaust ==
  /\ budget' = truncate_walk(budget, Cardinality(dirs) + Cardinality(files))
  /\ pc' = "read"
  /\ UNCHANGED <<walk, result>>

\* Variant: Glossabet's own directories are charged like any other.
ClassifyDirectory_ChargesOwn ==
  /\ pc = "dirs"
  /\ \E d \in dirs :
     /\ Foremost(d, dirs)
     /\ IF walk_entries_exhausted(budget) THEN Exhaust
        ELSE /\ dirs' = dirs \ {d}
             /\ budget' = Charged(budget)
             /\ IF d # OutDir /\ kind[d] \in Lists THEN Listed(kind[d], d) ELSE UNCHANGED skipped
             /\ kept' = IF d # OutDir /\ kind[d] = "plain" THEN kept \cup {d} ELSE kept
             /\ UNCHANGED <<pc, inventory, pending, here, files>>
  /\ UNCHANGED <<repository, skips, extraction, last, others>>

\* One turn of the loop of _classify_directories.
ClassifyDirectory ==
  /\ pc = "dirs"
  /\ \E d \in dirs :
     /\ Foremost(d, dirs)
     /\ IF d # OutDir /\ walk_entries_exhausted(budget) THEN Exhaust
        ELSE /\ dirs' = dirs \ {d}
             /\ budget' = IF d = OutDir THEN budget ELSE Charged(budget)
             /\ IF d # OutDir /\ kind[d] \in Lists THEN Listed(kind[d], d) ELSE UNCHANGED skipped
             /\ kept' = IF d # OutDir /\ kind[d] = "plain" THEN kept \cup {d} ELSE kept
             /\ UNCHANGED <<pc, inventory, pending, here, files>>
  /\ UNCHANGED <<repository, skips, extraction, last, others>>

EndDirectories ==
  /\ pc = "dirs" /\ dirs = {}
  /\ pc' = "files"
  /\ UNCHANGED <<repository, walk, result, budget, skips, extraction, last, others>>

\* What becomes of file f with the charged budget b: its list, the budget
\* after it, and whether it joins the inventory.
Verdict(list, b, joins) == [list |-> list, budget |-> b, joins |-> joins]

\* Variant: an oversized file is listed and the test for the other ceilings
\* goes on.
Judged_OversizedJoins(b, f) ==
  LET state == disk[f].state size == disk[f].size IN
  IF kind[f] \in Lists THEN Verdict(kind[f], b, FALSE)
  ELSE IF kind[f] # "plain" THEN Verdict(None, b, FALSE)
  ELSE IF state = "missing" THEN Verdict("unreadable", b, FALSE)
  ELSE IF state = "unreadable" THEN Verdict("unreadable", skip_source(b, f, 0), FALSE)
  ELSE IF state \in Lists THEN Verdict(state, b, FALSE)
  ELSE IF size > MaxFileBytes THEN Verdict("oversized", include_source(b, f, size), TRUE)
  ELSE IF source_refusal(b, size) # None THEN Verdict(None, skip_source(b, f, size), FALSE)
  ELSE Verdict(None, include_source(b, f, size), TRUE)

Judged(b, f) ==
  LET state == disk[f].state size == disk[f].size IN
  IF kind[f] \in Lists THEN Verdict(kind[f], b, FALSE)
  ELSE IF kind[f] # "plain" THEN Verdict(None, b, FALSE)
  ELSE IF state = "missing" THEN Verdict("unreadable", b, FALSE)
  ELSE IF state = "unreadable" THEN Verdict("unreadable", skip_source(b, f, 0), FALSE)
  ELSE IF state \in Lists THEN Verdict(state, b, FALSE)
  ELSE IF size > MaxFileBytes THEN Verdict("oversized", skip_source(b, f, size), FALSE)
  ELSE IF source_refusal(b, size) # None THEN Verdict(None, skip_source(b, f, size), FALSE)
  ELSE Verdict(None, include_source(b, f, size), TRUE)

\* One turn of the loop of _classify_files.
ClassifyFile ==
  /\ pc = "files"
  /\ \E f \in files :
     LET free == kind[f] \in SelfFile
         v == Judged(IF free THEN budget ELSE Charged(budget), f)
     IN /\ Foremost(f, files)
        /\ IF ~free /\ walk_entries_exhausted(budget)
             THEN Exhaust /\ UNCHANGED <<skips, unread>>
             ELSE /\ files' = files \ {f}
                  /\ budget' = v.budget
                  /\ IF v.list = None THEN UNCHANGED skipped ELSE Listed(v.list, f)
                  /\ inventory' = IF v.joins THEN inventory \cup {f} ELSE inventory
                  /\ unread' = IF v.joins THEN unread \cup {f} ELSE unread
                  /\ skips' = IF v.budget.skipped_files > budget.skipped_files
                                THEN skips \cup {f} ELSE skips
                  /\ UNCHANGED <<pc, pending, here, dirs, kept>>
  /\ UNCHANGED <<repository, read, last, others>>

\* The kept subdirectories are visited next.
EndFiles ==
  /\ pc = "files" /\ files = {}
  /\ pending' = pending \cup kept
  /\ kept' = {}
  /\ pc' = "list"
  /\ UNCHANGED <<repository, here, dirs, files, result, budget, skips, extraction,
                 last, others>>

EndWalk ==
  /\ pc = "list" /\ pending = {}
  /\ pc' = "read"
  /\ UNCHANGED <<repository, walk, result, budget, skips, extraction, last, others>>

(***************************************************************************)
(* Reading what was admitted.                                              *)
(***************************************************************************)
\* read_source: a link is followed wherever it now leads.
Readable(f) == disk[f].state = "text" \/ disk[f].state \in RefusedLink

\* SourceExtractor._read for one inventoried file.  The code reads code files
\* before documentation; here the order is free.
ReadSource(f) ==
  /\ pc = "read" /\ f \in unread
  /\ unread' = unread \ {f}
  /\ IF Readable(f)
       THEN read' = read \cup {f} /\ UNCHANGED <<budget, skips>>
       ELSE /\ budget' = reclassify_unread(budget, f)
            /\ skips' = skips \cup {f}
            /\ UNCHANGED read
  /\ UNCHANGED <<repository, pc, walk, result, last, others>>

\* as_evidence, skipped_as_evidence and the file lists of build_evidence.
Evidence ==
  [complete |-> Complete(budget), production_complete |-> ProductionComplete(budget),
   budget |-> budget, skipped |-> skipped, inventory |-> inventory, read |-> read]

\* write_evidence creates glossabet-out.
WriteEvidence ==
  /\ pc = "read" /\ unread = {}
  /\ pc' = "done"
  /\ out' = TRUE
  /\ UNCHANGED <<kind, disk, unlistable, walk, result, budget, skips, extraction,
                 last, others>>

(***************************************************************************)
(* The specification.                                                      *)
(***************************************************************************)
NewScan ==
  /\ pending' = {Root} /\ here' = Root
  /\ dirs' = {} /\ files' = {} /\ kept' = {}
  /\ skipped' = [l \in Lists |-> {}] /\ inventory' = {}
  /\ budget' = NoBudget /\ skips' = {}
  /\ unread' = {} /\ read' = {}
  /\ pc' = "list"

\* The same repository is scanned again.
ScanAgain ==
  /\ pc = "done" /\ last = None /\ Rescans
  /\ NewScan
  /\ last' = Evidence
  /\ touched' = {}
  /\ UNCHANGED <<repository, changes>>

\* A file appears, vanishes, grows, shrinks, or becomes something else.
ChangeFile(f) ==
  /\ changes < MaxChanges
  /\ \E d \in DiskChoices : d # disk[f] /\ disk' = [disk EXCEPT ![f] = d]
  /\ touched' = touched \cup {f}
  /\ changes' = changes + 1
  /\ UNCHANGED <<kind, unlistable, out, pc, walk, result, budget, skips, extraction, last>>

\* A directory becomes, or stops being, unlistable.
ChangeDirectory(d) ==
  /\ changes < MaxChanges
  /\ unlistable' = (unlistable \ {d}) \cup ({d} \ unlistable)
  /\ touched' = touched \cup {d}
  /\ changes' = changes + 1
  /\ UNCHANGED <<kind, disk, out, pc, walk, result, budget, skips, extraction, last>>

Init ==
  /\ kind \in {k \in [Paths -> DirKinds \cup FileKinds] : \A p \in Paths : k[p] \in KindChoices[p]}
  /\ disk \in [Files -> DiskChoices]
  /\ unlistable \in SUBSET (Dirs \ {OutDir})
  /\ out = FALSE
  /\ pc = "list"
  /\ pending = {Root} /\ here = Root
  /\ dirs = {} /\ files = {} /\ kept = {}
  /\ skipped = [l \in Lists |-> {}] /\ inventory = {}
  /\ budget = NoBudget /\ skips = {}
  /\ unread = {} /\ read = {}
  /\ last = None
  /\ touched = {} /\ changes = 0

Next ==
  \/ ListDirectory \/ ClassifyDirectory \/ EndDirectories
  \/ ClassifyFile \/ EndFiles \/ EndWalk
  \/ \E f \in Files : ReadSource(f) \/ ChangeFile(f)
  \/ WriteEvidence \/ ScanAgain
  \/ \E d \in Dirs : ChangeDirectory(d)

Spec == Init /\ [][Next]_vars

(***************************************************************************)
(* Properties.                                                             *)
(***************************************************************************)

Admitted == {f \in Files : budget.admitted[f] # None}

\* One element for each byte the walk charged.
AdmittedBytes == UNION {{f} \X (1 .. budget.admitted[f]) : f \in Admitted}

\* Every inventoried file is on exactly one side of the ledger, with the
\* bytes the walk charged for it, however often files changed since
\* (reclassify_unread: "Keeping it on both sides would make used + skipped
\* exceed the inventory").  Once the scan is over the used side is what was
\* really read, and the skipped side counts the paths it skipped.  No ceiling
\* is ever passed, the one on aggregate bytes included.
LedgerTrue ==
  /\ Admitted = read \cup unread /\ read \cap unread = {}
  /\ Admitted \subseteq inventory
  /\ inventory \ Admitted \subseteq skips /\ skips \cap Admitted = {}
  /\ budget.source_files = Cardinality(Admitted)
  /\ budget.source_bytes = Cardinality(AdmittedBytes)
  /\ budget.skipped_files = Cardinality(skips)
  /\ budget.skipped_production = Cardinality(skips \cap Production)
  /\ budget.walk_entries <= MaxWalkEntries
  /\ budget.source_files <= MaxSourceFiles
  /\ budget.source_bytes <= MaxSourceBytes
  /\ \A f \in Admitted : budget.admitted[f] <= MaxFileBytes

\* A path the walk is bound to meet, and that nobody changed during the scan.
Met(p) ==
  /\ \A d \in Above[p] \ {Root} : d # OutDir /\ kind[d] = "plain"
  /\ ({p} \cup Above[p]) \cap touched = {}

\* "complete" is never claimed of a scan that did not read every source file
\* it was bound to meet, nor "production_complete" of one that missed a
\* production file (walk_budget.py: "capped or filtered output never reads as
\* complete").
CompleteMeansRead ==
  pc = "done" =>
    \A f \in Files :
      Met(f) /\ kind[f] = "plain" /\ disk[f].state = "text" /\ f \notin read =>
        /\ ~Complete(budget)
        /\ f \in Production => ~ProductionComplete(budget)

Places(p) ==
  LET lists == {l \in Lists : p \in skipped[l]} IN
  lists \cup (IF p \in read THEN {"read"} ELSE {})
        \cup (IF p \in skips /\ lists = {} THEN {"skipped source"} ELSE {})

\* A walk that was not truncated says of every path it was bound to meet, and
\* that is not hidden or of no interest, exactly one thing: that it was read,
\* that the budget skipped it, or which exclusion it fell under
\* (ExclusionKind: "Every exclusion is reported").
EveryPathAccounted ==
  pc = "done" /\ ~budget.truncated =>
    \A p \in Paths \ {OutDir} :
      Met(p) /\ kind[p] \notin {"hidden", "other"}
             /\ (p \in Files => disk[p].state # "missing")
             /\ (p \in Dirs => kind[p] # "plain") =>
        Cardinality(Places(p)) = 1

\* A later scan of an unchanged repository yields the evidence of the first,
\* although glossabet-out exists by then, as long as no ceiling truncated
\* either walk.
LaterScanAgrees ==
  pc = "done" /\ last # None /\ changes = 0
    /\ ~budget.truncated /\ ~last.budget.truncated => Evidence = last

\* _classify_directories (scanner.py): own directories are pruned "so the
\* first scan and later scans remain identical after Glossabet creates its
\* own output directory".
FirstAndLaterScansIdentical ==
  pc = "done" /\ last # None /\ changes = 0 => Evidence = last
=============================================================================
