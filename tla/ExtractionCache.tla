-------------------------- MODULE ExtractionCache --------------------------
(***************************************************************************)
(* What scans keep from one another: the per-file extraction cache of one  *)
(* repository, in the user's cache directory.                              *)
(*                                                                         *)
(* A scan inventories the repository, loads the cache file once, reads     *)
(* every inventoried file, takes the cached entry of the bytes it just     *)
(* read or extracts a new one, and replaces the cache file by the entries  *)
(* it used.  Scans of several releases of the program overlap on the one   *)
(* file, sources change between any two reads, and the cache may be        *)
(* cleared or damaged at any time.                                         *)
(***************************************************************************)
EXTENDS Naturals, Absent

CONSTANTS
  Procs,        \* concurrent scans
  Versions,     \* releases: [cache_version, generator_version]
  Rels,         \* repository-relative paths of code and doc files
  Hosts,        \* those named AGENTS.md or CLAUDE.md in any case
  Classes,      \* "doc" and the names of languages
  Class,        \* what each release takes a path for: one of Classes
  Texts,        \* hand-written text
  Blocks,       \* shapes of a managed block that occur, a subset of AllBlocks
  MaxEvents     \* bound: changes of sources and of the cache by others

\* How many managed blocks the text contains: none, exactly one start and one
\* end marker, anything else.
AllBlocks == {"none", "one", "ambiguous"}

\* Bytes that hold a NUL early on, or are not UTF-8, differ in nothing else,
\* and a managed block means something in a host file only.
Bytes ==
  {b \in [utf8: BOOLEAN, text: Texts, block: Blocks] :
     ~b.utf8 => b.block = "none" /\ b.text = CHOOSE x \in Texts : TRUE}

Readable == {b \in Bytes : b.utf8}
MayHold(r) == {b \in Bytes : r \notin Hosts => b.block = "none"}

ASSUME CacheAssumption ==
  /\ Versions \subseteq [cache_version: Nat, generator_version: Nat]
  /\ Hosts \subseteq Rels
  /\ "doc" \in Classes
  /\ Class \in [Versions -> [Rels -> Classes]]
  /\ "none" \in Blocks /\ Blocks \subseteq AllBlocks
  /\ MaxEvents \in Nat
  /\ Versions # {} /\ Texts # {}
  /\ None \notin Bytes

VARIABLES
  disk,     \* the bytes of each path, or None
  cache,    \* the cache file, or None
  scan,     \* the local variables of each scan
  events    \* changes others have made so far

vars == <<disk, cache, scan, events>>

(***************************************************************************)
(* Extraction.                                                             *)
(***************************************************************************)
\* strip_managed_context_for_evidence: an exactly bounded block is removed.
Stripped(r, b) ==
  IF r \in Hosts /\ b.block = "one" THEN [b EXCEPT !.block = "none"] ELSE b

Kind(v, r) == IF Class[v][r] = "doc" THEN "doc" ELSE "code"

\* extract_code_entry and extract_doc_entry of release v.  The identifiers,
\* imports or words are a function of the release, the class of the path and
\* the text that remains, so the entry names those.
Extract(v, r, b) ==
  [kind |-> Kind(v, r), content_sha256 |-> b, shape |-> "valid",
   by |-> v, language |-> Class[v][r],
   of |-> IF Kind(v, r) = "doc" THEN Stripped(r, b) ELSE b]

Damaged(e) == [e EXCEPT !.shape = "invalid"]

\* Entries hold text that decodes and nothing else.
Entries ==
  [kind: {"code", "doc"}, content_sha256: Readable, shape: {"valid", "invalid"},
   by: Versions, language: Classes, of: Readable]

Files == [Rels -> Entries \cup {None}]

\* sound: unlinked, within the size bound, JSON of the expected outer shape.
Payload ==
  [sound: BOOLEAN, cache_version: Nat, generator_version: Nat, files: Files]

(***************************************************************************)
(* The cache file.                                                         *)
(***************************************************************************)
\* load_cache: an absent or unsound file and another release's are a miss.
load_cache(c, v) ==
  IF /\ c # None /\ c.sound
     /\ c.cache_version = v.cache_version
     /\ c.generator_version = v.generator_version
  THEN c ELSE None

\* Variants of the lookup: content, or the shape of the entry, goes unchecked.
cached_entry_AnyContent(c, v, r, b) ==
  IF c # None /\ c.files[r] # None /\ c.files[r].kind = Kind(v, r)
     /\ c.files[r].shape = "valid"
  THEN c.files[r] ELSE None

\* cached_code_entry and cached_doc_entry: the entry of that path, of the kind
\* asked for, of exactly these bytes, and of a valid shape.
cached_entry(c, v, r, b) ==
  IF c # None /\ c.files[r] # None /\ c.files[r].kind = Kind(v, r)
     /\ c.files[r].content_sha256 = b /\ c.files[r].shape = "valid"
  THEN c.files[r] ELSE None

\* Variant: entries of the file being replaced are carried along.
Saved_Merges(v, files) ==
  [sound |-> TRUE,
   cache_version |-> v.cache_version, generator_version |-> v.generator_version,
   files |-> [r \in Rels |->
     IF files[r] = None /\ cache # None THEN cache.files[r] ELSE files[r]]]

\* The payload save_cache writes: the entries this scan used and no others.
Saved(v, files) ==
  [sound |-> TRUE,
   cache_version |-> v.cache_version, generator_version |-> v.generator_version,
   files |-> files]

(***************************************************************************)
(* A scan: build_evidence with the cache.                                  *)
(***************************************************************************)
NoFiles == [r \in Rels |-> None]

Begun(v) ==
  [pc |-> "load", version |-> v, cached |-> None,
   todo |-> {}, files |-> NoFiles]

Idle == [Begun(CHOOSE v \in Versions : TRUE) EXCEPT !.pc = "idle"]

others == <<disk, events>>
Update(p, s) == scan' = [scan EXCEPT ![p] = s]

\* walk_repository has inventoried the repository.
Walk(p, v) ==
  /\ scan[p].pc = "idle"
  /\ Update(p, [Begun(v) EXCEPT !.todo = {r \in Rels : disk[r] # None}])
  /\ UNCHANGED <<cache, others>>

\* Also a miss: the read fails, or the cache directory is in the repository.
Load(p) ==
  /\ scan[p].pc = "load"
  /\ \E cached \in {load_cache(cache, scan[p].version), None} :
       Update(p, [scan[p] EXCEPT !.pc = "extract", !.cached = cached])
  /\ UNCHANGED <<cache, others>>

\* The next file of the fold: code files first, then docs.
Next_in_fold(p, r) ==
  LET s == scan[p] IN
  /\ s.pc = "extract" /\ r \in s.todo
  /\ Kind(s.version, r) = "doc" =>
       \A q \in s.todo : Kind(s.version, q) = "doc"

\* Variant: undecodable bytes are decoded with replacements.
Fold_Guesses(p, r) ==
  /\ Next_in_fold(p, r)
  /\ disk[r] # None
  /\ LET s == scan[p]
         reused == cached_entry(s.cached, s.version, r, disk[r])
     IN Update(p, [s EXCEPT !.todo = @ \ {r},
          !.files[r] = IF reused # None THEN reused
                       ELSE Extract(s.version, r, disk[r])])
  /\ UNCHANGED <<cache, others>>

\* SourceExtractor.code_entry or doc_entry for a file that could be read: the
\* bytes are read once, and both lookup and extraction use what was read.
Fold(p, r) ==
  /\ Next_in_fold(p, r)
  /\ disk[r] # None /\ disk[r].utf8
  /\ LET s == scan[p]
         reused == cached_entry(s.cached, s.version, r, disk[r])
     IN Update(p, [s EXCEPT !.todo = @ \ {r},
          !.files[r] = IF reused # None THEN reused
                       ELSE Extract(s.version, r, disk[r])])
  /\ UNCHANGED <<cache, others>>

\* read_source answers with a skip reason: the file is gone, cannot be read, or
\* is not UTF-8 text.  reclassify_unread tells the budget; no entry is kept.
Skip(p, r) ==
  /\ Next_in_fold(p, r)
  /\ Update(p, [scan[p] EXCEPT !.todo = @ \ {r}])
  /\ UNCHANGED <<cache, others>>

\* save_cache after the last file.  write_json_atomic replaces the file whole;
\* a cache directory inside the repository and an OSError leave it alone.
Save(p) ==
  /\ scan[p].pc = "extract" /\ scan[p].todo = {}
  /\ cache' \in {cache, Saved(scan[p].version, scan[p].files)}
  /\ Update(p, Idle)
  /\ UNCHANGED others

\* The process is killed; a temporary it leaves is never read as a cache.
Kill(p) ==
  /\ scan[p].pc # "idle"
  /\ Update(p, Idle)
  /\ UNCHANGED <<cache, others>>

Scan(p) ==
  \/ \E v \in Versions : Walk(p, v)
  \/ Load(p) \/ Save(p) \/ Kill(p)
  \/ \E r \in Rels : Fold(p, r) \/ Skip(p, r)

(***************************************************************************)
(* Everybody else.                                                         *)
(***************************************************************************)
Event == events < MaxEvents /\ events' = events + 1 /\ UNCHANGED scan

\* A source file is written, becomes undecodable, or is removed.
EditSource(r, b) ==
  /\ Event /\ UNCHANGED cache
  /\ disk' = [disk EXCEPT ![r] = b]

\* The cache is cleared, or its file is linked away, truncated or overwritten.
LoseCache ==
  /\ Event /\ UNCHANGED disk
  /\ cache' \in {None} \cup (IF cache = None THEN {} ELSE {[cache EXCEPT !.sound = FALSE]})

\* An entry of the cache file loses its shape.
SpoilEntry(r) ==
  /\ Event /\ UNCHANGED disk
  /\ cache # None /\ cache.files[r] # None
  /\ cache' = [cache EXCEPT !.files[r] = Damaged(@)]

Environment ==
  \/ \E r \in Rels : \E b \in MayHold(r) \cup {None} : EditSource(r, b)
  \/ LoseCache
  \/ \E r \in Rels : SpoilEntry(r)

(***************************************************************************)
(* The specification.                                                      *)
(***************************************************************************)
Init ==
  /\ disk \in {d \in [Rels -> Readable] : \A r \in Rels : d[r] \in MayHold(r)}
  /\ cache = None
  /\ scan = [p \in Procs |-> Idle]
  /\ events = 0

Next == Environment \/ \E p \in Procs : Scan(p)

Spec == Init /\ [][Next]_vars

(***************************************************************************)
(* Properties.                                                             *)
(***************************************************************************)
Scans ==
  [pc: {"idle", "load", "extract"}, version: Versions,
   cached: Payload \cup {None}, todo: SUBSET Rels, files: Files]

TypeOK ==
  /\ disk \in [Rels -> Bytes \cup {None}]
  /\ cache \in Payload \cup {None}
  /\ scan \in [Procs -> Scans]
  /\ events \in 0..MaxEvents

\* Cold and warm scans are one: whatever entry a scan folds for a file is the
\* one its own release extracts from the bytes the file has at that moment
\* (build_evidence: "a cached run is byte-identical to a fresh one").
WarmIsCold ==
  [][\A p \in Procs, r \in Rels :
       scan'[p].files[r] # scan[p].files[r] /\ scan'[p].files[r] # None =>
         scan'[p].files[r] = Extract(scan[p].version, r, disk[r])]_vars

\* However scans of several releases overlap, what the cache file offers a
\* release is what that release would have extracted (cache.py: "a stale entry
\* is reused silently otherwise").
NeverPoisoned ==
  \A v \in Versions, r \in Rels :
    /\ cache # None /\ cache.sound
    /\ cache.cache_version = v.cache_version
    /\ cache.generator_version = v.generator_version
    => LET e == cache.files[r] IN
       e # None /\ e.shape = "valid" => e = Extract(v, r, e.content_sha256)
=============================================================================
