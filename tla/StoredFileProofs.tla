--------------------------- MODULE StoredFileProofs ---------------------------
(***************************************************************************)
(* Proofs about the files Glossabet keeps between runs: the extraction     *)
(* cache, for every number of scans, releases, paths and texts, and the    *)
(* glossary, for every number of clients and documents.                    *)
(***************************************************************************)
EXTENDS ExtractionCache, GlossaryStore, FiniteSetTheorems, TLAPS

\* An entry that passes the shape test is what release v extracts.
Faithful(e, v, r) ==
  e # None /\ e.shape = "valid" => e = Extract(v, r, e.content_sha256)

\* What a scan loaded is of its own release and faithful to it.
LoadedFaithful(p) ==
  scan[p].cached # None =>
    \A r \in Rels : Faithful(scan[p].cached.files[r], scan[p].version, r)

\* What a scan has folded is faithful, and of a valid shape.
FoldedFaithful(p) ==
  \A r \in Rels :
    LET e == scan[p].files[r] IN
    e # None => e = Extract(scan[p].version, r, e.content_sha256)

\* The inductive invariant.
IInv ==
  /\ TypeOK
  /\ NeverPoisoned
  /\ \A p \in Procs : LoadedFaithful(p) /\ FoldedFaithful(p)

(***************************************************************************)
(* Types.                                                                  *)
(***************************************************************************)
\* Extraction of readable bytes makes an entry.
LEMMA ExtractType ==
  ASSUME NEW v \in Versions, NEW r \in Rels, NEW b \in Readable
  PROVE  Extract(v, r, b) \in Entries
  <1>1. Stripped(r, b) \in Readable
    BY CacheAssumption DEF Stripped, Readable, Bytes
  <1>2. Class[v][r] \in Classes
    BY CacheAssumption
  <1>3. (IF Kind(v, r) = "doc" THEN Stripped(r, b) ELSE b) \in Readable
    BY <1>1
  <1>4. Kind(v, r) \in {"code", "doc"}
    BY DEF Kind
  <1> QED
    BY <1>2, <1>3, <1>4 DEF Extract, Entries

\* A scan that has not begun is well-typed.
LEMMA BegunType ==
  ASSUME NEW v \in Versions
  PROVE  /\ Begun(v) \in Scans /\ Begun(v).files = NoFiles
         /\ Begun(v).cached = None /\ Begun(v).version = v
  BY DEF Begun, Scans, NoFiles, Files

LEMMA IdleType ==
  Idle \in Scans /\ Idle.files = NoFiles /\ Idle.cached = None
  <1>1. (CHOOSE v \in Versions : TRUE) \in Versions
    BY CacheAssumption
  <1>2. Begun(CHOOSE v \in Versions : TRUE) \in Scans
    BY <1>1, BegunType
  <1> QED
    BY <1>1, <1>2, BegunType DEF Idle, Scans

\* The payload a scan saves is a payload.
LEMMA SavedType ==
  ASSUME NEW v \in Versions, NEW files \in Files
  PROVE  Saved(v, files) \in Payload
  BY CacheAssumption DEF Saved, Payload

\* The inductive invariant holds initially.
LEMMA InitIInv == Init => IInv
  <1> SUFFICES ASSUME Init PROVE IInv
    OBVIOUS
  <1>1. TypeOK
    BY IdleType, CacheAssumption DEF Init, TypeOK, Readable
  <1>2. NeverPoisoned
    BY DEF Init, NeverPoisoned
  <1>3. \A p \in Procs : LoadedFaithful(p) /\ FoldedFaithful(p)
    BY IdleType DEF Init, LoadedFaithful, FoldedFaithful, NoFiles
  <1> QED
    BY <1>1, <1>2, <1>3 DEF IInv

(***************************************************************************)
(* One step of a scan replaces its own locals by s.                        *)
(***************************************************************************)
\* It is enough to look at the new locals.
LEMMA Updated ==
  ASSUME IInv, NEW p \in Procs, NEW s \in Scans, Update(p, s),
         s.cached # None => \A r \in Rels : Faithful(s.cached.files[r], s.version, r),
         \A r \in Rels : s.files[r] # None =>
           s.files[r] = Extract(s.version, r, s.files[r].content_sha256)
  PROVE  /\ scan' \in [Procs -> Scans]
         /\ \A q \in Procs : LoadedFaithful(q)' /\ FoldedFaithful(q)'
  <1>1. scan' = [scan EXCEPT ![p] = s] /\ scan \in [Procs -> Scans]
    BY DEF Update, IInv, TypeOK
  <1>2. LoadedFaithful(p)' /\ FoldedFaithful(p)'
    BY <1>1 DEF LoadedFaithful, FoldedFaithful
  <1>3. \A q \in Procs : q # p => LoadedFaithful(q)' /\ FoldedFaithful(q)'
    BY <1>1 DEF LoadedFaithful, FoldedFaithful, IInv
  <1> QED
    BY <1>1, <1>2, <1>3

\* The same when the cache and the sources stay as they are.
LEMMA UpdatedOnly ==
  ASSUME IInv, NEW p \in Procs, NEW s \in Scans, Update(p, s),
         UNCHANGED <<cache, disk, events>>,
         s.cached # None => \A r \in Rels : Faithful(s.cached.files[r], s.version, r),
         \A r \in Rels : s.files[r] # None =>
           s.files[r] = Extract(s.version, r, s.files[r].content_sha256)
  PROVE  IInv'
  <1>1. /\ scan' \in [Procs -> Scans]
        /\ \A q \in Procs : LoadedFaithful(q)' /\ FoldedFaithful(q)'
    BY Updated
  <1> QED
    BY <1>1 DEF IInv, TypeOK, NeverPoisoned

\* What load_cache hands to a release is faithful to it.
LEMMA LoadFaithful ==
  ASSUME IInv, NEW v \in Versions, load_cache(cache, v) # None
  PROVE  /\ load_cache(cache, v) \in Payload
         /\ \A r \in Rels : Faithful(load_cache(cache, v).files[r], v, r)
  BY DEF IInv, TypeOK, NeverPoisoned, load_cache, Faithful

\* The entry a fold takes is the cold one, and an entry.
LEMMA FoldCold ==
  ASSUME IInv, NEW p \in Procs, NEW r \in Rels, Fold(p, r)
  PROVE  \E e \in Entries :
           /\ e = Extract(scan[p].version, r, disk[r])
           /\ e.content_sha256 = disk[r]
           /\ Update(p, [scan[p] EXCEPT !.todo = @ \ {r}, !.files[r] = e])
  <1> DEFINE s == scan[p]
             reused == cached_entry(s.cached, s.version, r, disk[r])
  <1>1. s \in Scans /\ s.version \in Versions
    BY DEF IInv, TypeOK, Scans
  <1>2. disk[r] \in Readable
    BY DEF Fold, IInv, TypeOK, Readable
  <1>3. Extract(s.version, r, disk[r]) \in Entries
    BY <1>1, <1>2, ExtractType
  <1>4. Extract(s.version, r, disk[r]).content_sha256 = disk[r]
    BY DEF Extract
  <1>5. reused # None => reused = Extract(s.version, r, disk[r])
    BY DEF IInv, LoadedFaithful, Faithful, cached_entry
  <1>6. Update(p, [s EXCEPT !.todo = @ \ {r},
          !.files[r] = IF reused # None THEN reused ELSE Extract(s.version, r, disk[r])])
    BY DEF Fold
  <1> QED
    BY <1>3, <1>4, <1>5, <1>6

(***************************************************************************)
(* Every step.                                                             *)
(***************************************************************************)
\* Scans keep the invariant.
LEMMA ScanIInv == ASSUME IInv, NEW p \in Procs, Scan(p) PROVE IInv'
  <1> DEFINE s == scan[p]
  <1>1. s \in Scans /\ s.version \in Versions /\ LoadedFaithful(p) /\ FoldedFaithful(p)
    BY DEF IInv, TypeOK, Scans
  <1>2. ASSUME NEW v \in Versions, Walk(p, v) PROVE IInv'
    <2> DEFINE found == {r \in Rels : disk[r] # None}
               t == [Begun(v) EXCEPT !.todo = found]
    <2>1. t \in Scans /\ t.cached = None /\ t.files = NoFiles
      <3>1. Begun(v) \in Scans /\ Begun(v).cached = None /\ Begun(v).files = NoFiles
        BY BegunType
      <3>2. found \in SUBSET Rels
        OBVIOUS
      <3> HIDE DEF found
      <3> QED
        BY <3>1, <3>2 DEF Scans
    <2> QED
      BY <1>2, <2>1, UpdatedOnly DEF Walk, others, NoFiles
  <1>3. ASSUME Load(p) PROVE IInv'
    <2> PICK cached \in {load_cache(cache, s.version), None} :
               Update(p, [s EXCEPT !.pc = "extract", !.cached = cached])
      BY <1>3 DEF Load
    <2> DEFINE t == [s EXCEPT !.pc = "extract", !.cached = cached]
    <2>1. cached # None => /\ cached \in Payload
                           /\ \A r \in Rels : Faithful(cached.files[r], s.version, r)
      BY <1>1, LoadFaithful
    <2>2. t \in Scans /\ t.cached = cached /\ t.files = s.files /\ t.version = s.version
      BY <1>1, <2>1 DEF Scans
    <2>3. \A r \in Rels : t.files[r] # None =>
            t.files[r] = Extract(t.version, r, t.files[r].content_sha256)
      BY <1>1, <2>2 DEF FoldedFaithful
    <2> QED
      BY <1>3, <2>1, <2>2, <2>3, UpdatedOnly DEF Load, others
  <1>4. ASSUME NEW r \in Rels, Fold(p, r) PROVE IInv'
    <2> PICK e \in Entries :
               /\ e = Extract(s.version, r, disk[r]) /\ e.content_sha256 = disk[r]
               /\ Update(p, [s EXCEPT !.todo = @ \ {r}, !.files[r] = e])
      BY <1>4, FoldCold
    <2> DEFINE t == [s EXCEPT !.todo = @ \ {r}, !.files[r] = e]
    <2>1. /\ t \in Scans /\ t.cached = s.cached /\ t.version = s.version
          /\ t.files = [s.files EXCEPT ![r] = e]
      BY <1>1 DEF Scans, Files
    <2>2. \A q \in Rels : t.files[q] # None =>
            t.files[q] = Extract(t.version, q, t.files[q].content_sha256)
      BY <1>1, <2>1 DEF FoldedFaithful, Scans, Files
    <2>3. t.cached # None => \A q \in Rels : Faithful(t.cached.files[q], t.version, q)
      BY <1>1, <2>1 DEF LoadedFaithful
    <2>4. UNCHANGED <<cache, disk, events>>
      BY <1>4 DEF Fold, others
    <2> QED
      BY <2>1, <2>2, <2>3, <2>4, UpdatedOnly
  <1>5. ASSUME NEW r \in Rels, Skip(p, r) PROVE IInv'
    <2> DEFINE t == [s EXCEPT !.todo = @ \ {r}]
    <2>1. /\ t \in Scans /\ t.cached = s.cached /\ t.files = s.files
          /\ t.version = s.version
      BY <1>1 DEF Scans
    <2> QED
      BY <1>1, <1>5, <2>1, UpdatedOnly DEF Skip, others, LoadedFaithful, FoldedFaithful
  <1>6. ASSUME Save(p) PROVE IInv'
    <2>1. s.files \in Files
      BY <1>1 DEF Scans
    <2>2. /\ scan' \in [Procs -> Scans]
          /\ \A q \in Procs : LoadedFaithful(q)' /\ FoldedFaithful(q)'
      BY <1>6, IdleType, Updated DEF Save, NoFiles
    <2>3. CASE cache' = cache
      BY <1>6, <2>2, <2>3 DEF Save, others, IInv, TypeOK, NeverPoisoned
    <2>4. CASE cache' = Saved(s.version, s.files)
      <3>1. cache' \in Payload
        BY <1>1, <2>1, <2>4, SavedType
      <3>2. \A v \in Versions :
              v.cache_version = s.version.cache_version
                /\ v.generator_version = s.version.generator_version => v = s.version
        BY <1>1, CacheAssumption
      <3>3. NeverPoisoned'
        BY <1>1, <2>4, <3>2 DEF NeverPoisoned, Saved, FoldedFaithful
      <3> QED
        BY <1>6, <2>2, <3>1, <3>3 DEF Save, others, IInv, TypeOK
    <2> QED
      BY <1>6, <2>3, <2>4 DEF Save
  <1>7. ASSUME Kill(p) PROVE IInv'
    BY <1>7, IdleType, UpdatedOnly DEF Kill, others, NoFiles
  <1> QED
    BY <1>2, <1>3, <1>4, <1>5, <1>6, <1>7 DEF Scan

\* Editors, clearing and damage keep the invariant.
LEMMA EnvironmentIInv == ASSUME IInv, Environment PROVE IInv'
  <1> USE DEF IInv
  <1>1. /\ scan' = scan /\ events' \in 0..MaxEvents
        /\ \A p \in Procs : LoadedFaithful(p)' /\ FoldedFaithful(p)'
    BY CacheAssumption DEF Environment, EditSource, LoseCache, SpoilEntry, Event,
       TypeOK, LoadedFaithful, FoldedFaithful
  <1>2. ASSUME NEW r \in Rels, NEW b \in MayHold(r) \cup {None}, EditSource(r, b)
        PROVE  IInv'
    BY <1>1, <1>2 DEF EditSource, MayHold, TypeOK, NeverPoisoned
  <1>3. ASSUME LoseCache PROVE IInv'
    <2>1. cache' \in Payload \cup {None} /\ (cache' # None => ~cache'.sound)
      BY <1>3 DEF LoseCache, TypeOK, Payload
    <2>2. disk' = disk
      BY <1>3 DEF LoseCache
    <2> QED
      BY <1>1, <2>1, <2>2 DEF TypeOK, NeverPoisoned
  <1>4. ASSUME NEW r \in Rels, SpoilEntry(r) PROVE IInv'
    <2>1. cache # None /\ cache \in Payload /\ cache.files[r] \in Entries
      BY <1>4 DEF SpoilEntry, TypeOK, Payload, Files
    <2>2. Damaged(cache.files[r]) \in Entries
            /\ Damaged(cache.files[r]).shape = "invalid"
      BY <2>1 DEF Damaged, Entries
    <2>3. cache' = [cache EXCEPT !.files[r] = Damaged(cache.files[r])] /\ disk' = disk
      BY <1>4 DEF SpoilEntry
    <2>4. /\ cache' \in Payload /\ cache'.sound = cache.sound
          /\ cache'.cache_version = cache.cache_version
          /\ cache'.generator_version = cache.generator_version
          /\ cache'.files = [cache.files EXCEPT ![r] = Damaged(cache.files[r])]
      BY <2>1, <2>2, <2>3 DEF Payload, Files
    <2>5. NeverPoisoned'
      BY <2>1, <2>2, <2>4 DEF NeverPoisoned, Payload, Files
    <2> QED
      BY <1>1, <2>3, <2>4, <2>5 DEF TypeOK
  <1> QED
    BY <1>2, <1>3, <1>4 DEF Environment

\* The inductive invariant is inductive.
LEMMA NextIInv == IInv /\ [Next]_vars => IInv'
  <1> SUFFICES ASSUME IInv, [Next]_vars PROVE IInv'
    OBVIOUS
  <1>1. CASE UNCHANGED vars
    BY <1>1 DEF vars, IInv, TypeOK, NeverPoisoned, LoadedFaithful, FoldedFaithful
  <1> QED
    BY <1>1, ScanIInv, EnvironmentIInv DEF Next

(***************************************************************************)
(* The theorems.                                                           *)
(***************************************************************************)
\* Entries, in scans and in the cache, hold decodable text only.
THEOREM TypeCorrect == Spec => []TypeOK
  <1>1. IInv => TypeOK
    BY DEF IInv
  <1> QED
    BY <1>1, InitIInv, NextIInv, PTL DEF Spec

\* No interleaving of scans of different releases, of edits and of damage makes
\* the cache file offer a release something it would not have extracted.
THEOREM CacheFaithful == Spec => []NeverPoisoned
  <1>1. IInv => NeverPoisoned
    BY DEF IInv
  <1> QED
    BY <1>1, InitIInv, NextIInv, PTL DEF Spec

\* A scan folds the same entries with a cache as without one.
THEOREM ColdOrWarm == Spec => WarmIsCold
  <1>1. ASSUME IInv, [Next]_vars
        PROVE  [\A p \in Procs, r \in Rels :
                  scan'[p].files[r] # scan[p].files[r] /\ scan'[p].files[r] # None =>
                    scan'[p].files[r] = Extract(scan[p].version, r, disk[r])]_vars
    <2> SUFFICES ASSUME Next, NEW p \in Procs, NEW r \in Rels,
                        scan'[p].files[r] # scan[p].files[r], scan'[p].files[r] # None
                 PROVE  scan'[p].files[r] = Extract(scan[p].version, r, disk[r])
      BY <1>1
    <2>1. PICK q \in Procs : Scan(q)
      BY DEF Next, Environment, EditSource, LoseCache, SpoilEntry, Event
    <2>2. scan \in [Procs -> Scans]
      BY <1>1 DEF IInv, TypeOK
    <2>3. q = p
      BY <2>1, <2>2 DEF Scan, Walk, Load, Fold, Skip, Save, Kill, Update
    <2>4. ASSUME NEW v \in Versions, Walk(p, v) PROVE FALSE
      <3>1. scan'[p].files = NoFiles
        BY <2>2, <2>4, BegunType DEF Walk, Update, Scans
      <3> QED
        BY <3>1 DEF NoFiles
    <2>5. ASSUME Load(p) \/ \E x \in Rels : Skip(p, x) PROVE FALSE
      <3>1. scan'[p].files = scan[p].files
        BY <2>2, <2>5 DEF Load, Skip, Update, Scans
      <3> QED
        BY <3>1
    <2>6. ASSUME Save(p) \/ Kill(p) PROVE FALSE
      BY <2>2, <2>6, IdleType DEF Save, Kill, Update, NoFiles
    <2>7. PICK x \in Rels : Fold(p, x)
      BY <2>1, <2>3, <2>4, <2>5, <2>6 DEF Scan
    <2>8. PICK e \in Entries :
            /\ e = Extract(scan[p].version, x, disk[x])
            /\ Update(p, [scan[p] EXCEPT !.todo = @ \ {x}, !.files[x] = e])
      BY <1>1, <2>7, FoldCold
    <2>9. scan'[p].files = [scan[p].files EXCEPT ![x] = e]
      BY <2>2, <2>8 DEF Update, Scans
    <2>10. scan[p].files \in [Rels -> Entries \cup {None}]
      BY <2>2 DEF Scans, Files
    <2> QED
      BY <2>8, <2>9, <2>10
  <1> QED
    BY <1>1, InitIInv, NextIInv, PTL DEF Spec, WarmIsCold

(***************************************************************************)
(* The glossary: sorting.                                                  *)
(***************************************************************************)
Below(S, k, x) == {y \in S : k[y] < k[x]}

\* The elements of a finite set with keys of their own take all ranks.
LEMMA Ranked ==
  ASSUME NEW S, IsFiniteSet(S), NEW k \in [S -> Nat], \A x, y \in S : k[x] = k[y] => x = y
  PROVE  /\ \A n \in 1..Cardinality(S) : \E x \in S : Cardinality(Below(S, k, x)) = n - 1
         /\ \A x, y \in S : Cardinality(Below(S, k, x)) = Cardinality(Below(S, k, y)) => x = y
  <1> DEFINE N == Cardinality(S)
             T == 0..(N - 1)
             rank == [x \in S |-> Cardinality(Below(S, k, x))]
  <1>1. N \in Nat
    BY FS_CardinalityType
  <1>2. IsFiniteSet(T) /\ Cardinality(T) = N
    BY <1>1, FS_Interval
  <1>3. ASSUME NEW x \in S PROVE IsFiniteSet(Below(S, k, x)) /\ rank[x] \in T
    <2>1. Below(S, k, x) \in SUBSET S /\ Below(S, k, x) # S
      BY DEF Below
    <2>2. IsFiniteSet(Below(S, k, x)) /\ Cardinality(Below(S, k, x)) <= N
      BY <2>1, FS_Subset
    <2>3. Cardinality(Below(S, k, x)) # N
      BY <2>1, FS_Subset
    <2>4. Cardinality(Below(S, k, x)) \in Nat
      BY <2>2, FS_CardinalityType
    <2> QED
      BY <1>1, <2>2, <2>3, <2>4
  <1>4. ASSUME NEW x \in S, NEW y \in S, k[x] < k[y] PROVE rank[x] < rank[y]
    <2>1. Below(S, k, x) \in SUBSET Below(S, k, y)
      BY <1>4 DEF Below
    <2>2. x \in Below(S, k, y) /\ x \notin Below(S, k, x)
      BY <1>4 DEF Below
    <2>3. rank[x] <= rank[y] /\ rank[x] # rank[y]
      BY <1>3, <2>1, <2>2, FS_Subset
    <2>4. rank[x] \in Int /\ rank[y] \in Int
      BY <1>1, <1>3
    <2> QED
      BY <2>3, <2>4
  <1>5. ASSUME NEW x \in S, NEW y \in S, rank[x] = rank[y] PROVE x = y
    <2>1. rank[x] \in Int
      BY <1>1, <1>3
    <2>2. ~(k[x] < k[y]) /\ ~(k[y] < k[x])
      BY <1>4, <1>5, <2>1
    <2> QED
      BY <2>2
  <1>6. rank \in Injection(S, T)
    BY <1>3, <1>5 DEF Injection, IsInjective
  <1>7. rank \in Surjection(S, T)
    BY <1>2, <1>6, FS_Injection
  <1>8. ASSUME NEW n \in 1..N PROVE \E x \in S : Cardinality(Below(S, k, x)) = n - 1
    <2>1. n - 1 \in T
      BY <1>1
    <2>2. PICK x \in S : rank[x] = n - 1
      BY <1>7, <2>1 DEF Surjection
    <2> QED
      BY <2>2
  <1> QED
    BY <1>5, <1>8

\* A sequence takes no value twice just if none of its elements is another's.
LEMMA Distinct ==
  ASSUME NEW X, NEW seq \in Seq(X)
  PROVE  /\ IsFiniteSet(ToSet(seq))
         /\ NoneTwice(seq) <=> \A i, j \in DOMAIN seq : seq[i] = seq[j] => i = j
  <1> DEFINE N == Len(seq)
  <1>1. N \in Nat /\ DOMAIN seq = 1..N
    OBVIOUS
  <1>2. IsFiniteSet(1..N) /\ Cardinality(1..N) = N
    BY <1>1, FS_Interval
  <1>3. seq \in Surjection(1..N, ToSet(seq))
    BY <1>1 DEF Surjection, ToSet
  <1>4. /\ IsFiniteSet(ToSet(seq))
        /\ Cardinality(ToSet(seq)) = Cardinality(1..N) <=> seq \in Injection(1..N, ToSet(seq))
    BY <1>2, <1>3, FS_Surjection
  <1>5. seq \in Injection(1..N, ToSet(seq)) <=> \A i, j \in 1..N : seq[i] = seq[j] => i = j
    BY <1>3 DEF Injection, IsInjective, Surjection
  <1> QED
    BY <1>1, <1>2, <1>4, <1>5 DEF NoneTwice
Keyed(field, seq) ==
  /\ \A i \in DOMAIN seq : seq[i][field] \in Nat
  /\ \A i, j \in DOMAIN seq : seq[i][field] = seq[j][field] => i = j

\* Sorting by a field no two elements share rearranges the sequence.
LEMMA SortedIs ==
  ASSUME NEW X, NEW seq \in Seq(X), NEW field, Keyed(field, seq)
  PROVE  /\ SortedBy(field, seq) \in Seq(X)
         /\ DOMAIN SortedBy(field, seq) = DOMAIN seq
         /\ DOMAIN seq = 1..Cardinality(ToSet(seq))
         /\ ToSet(SortedBy(field, seq)) = ToSet(seq)
         /\ Keyed(field, SortedBy(field, seq))
  <1> DEFINE S == ToSet(seq)
             k == [x \in S |-> x[field]]
             Preceding(x) == {y \in S : y[field] < x[field]}
             At(n) == CHOOSE x \in S : Cardinality(Preceding(x)) = n - 1
             q == SortedBy(field, seq)
  <1>1. \A i \in DOMAIN seq : seq[i] \in S
    BY DEF ToSet
  <1>2. \A x \in S : \E i \in DOMAIN seq : x = seq[i]
    BY DEF ToSet
  <1>3. k \in [S -> Nat] /\ \A x, y \in S : k[x] = k[y] => x = y
    BY <1>2 DEF Keyed
  <1>4. \A x \in S : Below(S, k, x) = Preceding(x)
    BY DEF Below
  <1>5. IsFiniteSet(S) /\ Len(seq) = Cardinality(S)
    BY Distinct DEF Keyed, NoneTwice
  <1>6. DOMAIN seq = 1..Cardinality(S) /\ Cardinality(S) \in Nat
    BY <1>5
  <1>7. q = [n \in DOMAIN seq |-> At(n)]
    BY DEF SortedBy
  <1> HIDE DEF S, k, Preceding, q
  <1>8. \A n \in 1..Cardinality(S) : \E x \in S : Cardinality(Preceding(x)) = n - 1
    <2>1. \A n \in 1..Cardinality(S) : \E x \in S : Cardinality(Below(S, k, x)) = n - 1
      BY <1>3, <1>5, Ranked
    <2> QED
      BY <1>4, <2>1
  <1>9. \A x, y \in S : Cardinality(Preceding(x)) = Cardinality(Preceding(y)) => x = y
    <2>1. \A x, y \in S : Cardinality(Below(S, k, x)) = Cardinality(Below(S, k, y)) => x = y
      BY <1>3, <1>5, Ranked
    <2> QED
      BY <1>4, <2>1
  <1>10. \A n \in DOMAIN seq : q[n] \in S /\ Cardinality(Preceding(q[n])) = n - 1
    BY <1>6, <1>7, <1>8
  <1>11. S \subseteq X
    BY <1>2
  <1>12. q \in Seq(X) /\ DOMAIN q = DOMAIN seq
    <2>1. q = [n \in 1..Cardinality(S) |-> At(n)]
      BY <1>6, <1>7
    <2>2. q \in [1..Cardinality(S) -> X]
      BY <1>6, <1>10, <1>11, <2>1
    <2>3. q \in Seq(X)
      BY <1>6, <2>2
    <2> QED
      BY <1>7, <2>3
  <1>13. \A i, j \in DOMAIN q : q[i] = q[j] => i = j
    <2> SUFFICES ASSUME NEW i \in DOMAIN q, NEW j \in DOMAIN q, q[i] = q[j] PROVE i = j
      OBVIOUS
    <2>1. i - 1 = j - 1
      BY <1>10, <1>12
    <2>2. i \in Nat /\ j \in Nat
      BY <1>6, <1>12
    <2> QED
      BY <2>1, <2>2
  <1>14. Keyed(field, q)
    <2>1. \A i \in DOMAIN q : q[i] \in S /\ k[q[i]] = q[i][field]
      BY <1>10, <1>12 DEF k
    <2> QED
      BY <1>3, <1>13, <2>1 DEF Keyed
  <1>15. ToSet(q) = S
    <2>1. q \in Seq(S)
      <3>1. q \in [1..Cardinality(S) -> S]
        BY <1>6, <1>7, <1>10, <1>12
      <3> QED
        BY <1>6, <3>1
    <2>2. IsFiniteSet(ToSet(q)) /\ Cardinality(ToSet(q)) = Len(q)
      BY <1>13, <2>1, Distinct DEF NoneTwice
    <2>3. Len(q) = Cardinality(S)
      BY <1>6, <1>12
    <2>4. ToSet(q) \in SUBSET S
      BY <2>1 DEF ToSet
    <2> QED
      BY <1>5, <2>2, <2>3, <2>4, FS_Subset
  <1> QED
    BY <1>6, <1>12, <1>14, <1>15 DEF q, S

\* Sequences of the same elements are sorted alike.
LEMMA SortedAlike ==
  ASSUME NEW X, NEW seq \in Seq(X), NEW other \in Seq(X), NEW field,
         Keyed(field, seq), Keyed(field, other), ToSet(seq) = ToSet(other)
  PROVE  SortedBy(field, seq) = SortedBy(field, other)
  <1>1. DOMAIN seq = DOMAIN other
    BY SortedIs
  <1> QED
    BY <1>1 DEF SortedBy
(***************************************************************************)
(* Documents.                                                              *)
(***************************************************************************)
Scopes == [path: Nat, spelling: Spellings]
Spelled(prefixes) == [j \in DOMAIN prefixes |-> canonical_scope_path(prefixes[j])]
Paths(concept) == {pre.path : pre \in ToSet(concept.prefixes)}
Valid(d) == d \in Seq(Concepts) /\ validate_glossary(d)
Wellformed(c) == c \in Concepts /\ NoneTwice(Spelled(c.prefixes))

LEMMA SpelledIs ==
  ASSUME NEW prefixes \in Seq(Scopes)
  PROVE  /\ Spelled(prefixes) \in Seq(Scopes)
         /\ Len(Spelled(prefixes)) = Len(prefixes) /\ DOMAIN Spelled(prefixes) = DOMAIN prefixes
         /\ \A j \in DOMAIN prefixes :
              Spelled(prefixes)[j] = [path |-> prefixes[j].path, spelling |-> "NFC"]
         /\ NoneTwice(Spelled(prefixes)) => Keyed("path", Spelled(prefixes))
  <1>1. \A j \in DOMAIN prefixes : prefixes[j] \in Scopes
    OBVIOUS
  <1>2. \A pre \in Scopes : canonical_scope_path(pre) = [path |-> pre.path, spelling |-> "NFC"]
    BY DEF canonical_scope_path, Scopes
  <1>3. \A pre \in Scopes : canonical_scope_path(pre) \in Scopes
    BY DEF canonical_scope_path, Scopes, Spellings
  <1>4. \A j \in DOMAIN prefixes :
          Spelled(prefixes)[j] = [path |-> prefixes[j].path, spelling |-> "NFC"]
    BY <1>1, <1>2 DEF Spelled
  <1>5. Spelled(prefixes) \in Seq(Scopes) /\ Len(Spelled(prefixes)) = Len(prefixes)
    BY <1>1, <1>3 DEF Spelled
  <1>6. DOMAIN Spelled(prefixes) = DOMAIN prefixes
    BY DEF Spelled
  <1>7. ASSUME NoneTwice(Spelled(prefixes)) PROVE Keyed("path", Spelled(prefixes))
    <2>1. \A i, j \in DOMAIN prefixes : Spelled(prefixes)[i] = Spelled(prefixes)[j] => i = j
      BY <1>5, <1>6, <1>7, Distinct
    <2>2. \A i \in DOMAIN prefixes : Spelled(prefixes)[i].path = prefixes[i].path /\ prefixes[i].path \in Nat
      <3>1. \A i \in DOMAIN prefixes : Spelled(prefixes)[i].path = prefixes[i].path
        <4> SUFFICES ASSUME NEW i \in DOMAIN prefixes PROVE Spelled(prefixes)[i].path = prefixes[i].path
          OBVIOUS
        <4>1. Spelled(prefixes)[i] = [path |-> prefixes[i].path, spelling |-> "NFC"]
          BY <1>4
        <4> QED
          BY <4>1
      <3>2. \A i \in DOMAIN prefixes : prefixes[i].path \in Nat
        BY <1>1 DEF Scopes
      <3> QED
        BY <3>1, <3>2
    <2>3. \A i, j \in DOMAIN prefixes :
            prefixes[i].path = prefixes[j].path => Spelled(prefixes)[i] = Spelled(prefixes)[j]
      BY <1>4
    <2> QED
      BY <1>6, <2>1, <2>2, <2>3 DEF Keyed
  <1> QED
    BY <1>4, <1>5, <1>6, <1>7

\* What the NFC form of a concept is, which two spellings of it share.
LEMMA NFCIs ==
  ASSUME NEW c, Wellformed(c)
  PROVE  /\ Wellformed(InNFC(c)) /\ InNFC(c).id = c.id /\ Paths(InNFC(c)) = Paths(c)
         /\ \A pre \in ToSet(InNFC(c).prefixes) : pre.spelling = "NFC"
         /\ InNFC(InNFC(c)) = InNFC(c)
         /\ InNFC(c).prefixes = SortedBy("path", Spelled(c.prefixes))
         /\ ToSet(Spelled(c.prefixes)) = {[path |-> p, spelling |-> "NFC"] : p \in Paths(c)}
         /\ Keyed("path", Spelled(c.prefixes)) /\ Spelled(c.prefixes) \in Seq(Scopes)
  <1> DEFINE s == Spelled(c.prefixes)
             q == SortedBy("path", s)
             n == InNFC(c)
  <1>1. c = [id |-> c.id, prefixes |-> c.prefixes] /\ c.id \in Nat /\ c.prefixes \in Seq(Scopes)
    BY DEF Wellformed, Concepts, Scopes
  <1>2. n = [id |-> c.id, prefixes |-> q]
    BY <1>1 DEF InNFC, Spelled
  <1>3. s \in Seq(Scopes) /\ Keyed("path", s) /\ DOMAIN s = DOMAIN c.prefixes
    BY <1>1, SpelledIs DEF Wellformed
  <1>4. \A j \in DOMAIN s : s[j] = [path |-> c.prefixes[j].path, spelling |-> "NFC"]
    BY <1>1, <1>3, SpelledIs
  <1>5. ToSet(s) = {[path |-> p, spelling |-> "NFC"] : p \in Paths(c)}
    BY <1>3, <1>4 DEF ToSet, Paths
  <1> HIDE DEF s
  <1>6. q \in Seq(Scopes) /\ Keyed("path", q) /\ ToSet(q) = ToSet(s)
    BY <1>3, SortedIs
  <1> HIDE DEF q
  <1>7. Spelled(q) = q
    <2>1. DOMAIN Spelled(q) = DOMAIN q
      BY DEF Spelled
    <2>2. ASSUME NEW j \in DOMAIN q PROVE Spelled(q)[j] = q[j]
      <3>1. Spelled(q)[j] = [path |-> q[j].path, spelling |-> "NFC"]
        BY <1>6, SpelledIs
      <3>2. q[j] \in ToSet(s)
        BY <1>6 DEF ToSet
      <3>3. PICK p : q[j] = [path |-> p, spelling |-> "NFC"]
        BY <1>5, <3>2
      <3> QED
        BY <3>1, <3>3
    <2>3. Spelled(q) = [j \in DOMAIN q |-> Spelled(q)[j]]
      BY DEF Spelled
    <2>4. q = [j \in DOMAIN q |-> q[j]]
      BY <1>6
    <2> QED
      BY <2>2, <2>3, <2>4
  <1>8. NoneTwice(q)
    BY <1>6, Distinct DEF Keyed
  <1>9. n \in Concepts
    BY <1>1, <1>2, <1>6 DEF Concepts, Scopes
  <1>10. Wellformed(n)
    BY <1>2, <1>7, <1>8, <1>9 DEF Wellformed
  <1>11. Paths(n) = Paths(c)
    <2>1. Paths(n) = {pre.path : pre \in ToSet(q)}
      BY <1>2 DEF Paths
    <2>2. ToSet(q) = {[path |-> p, spelling |-> "NFC"] : p \in Paths(c)}
      BY <1>5, <1>6
    <2>3. {pre.path : pre \in {[path |-> p, spelling |-> "NFC"] : p \in Paths(c)}} = Paths(c)
      <3>1. \A p : [path |-> p, spelling |-> "NFC"].path = p
        OBVIOUS
      <3> QED
        BY <3>1
    <2> QED
      BY <2>1, <2>2, <2>3
  <1>12. \A pre \in ToSet(n.prefixes) : pre.spelling = "NFC"
    BY <1>2, <1>5, <1>6
  <1>13. InNFC(n) = n
    <2>1. InNFC(n) = [id |-> c.id, prefixes |-> SortedBy("path", q)]
      <3>1. n.prefixes = q /\ n.id = c.id
        BY <1>2
      <3>2. InNFC(n) = [n EXCEPT !.prefixes = SortedBy("path", Spelled(n.prefixes))]
        BY DEF InNFC, Spelled
      <3>3. InNFC(n) = [n EXCEPT !.prefixes = SortedBy("path", q)]
        BY <1>7, <3>1, <3>2
      <3> QED
        BY <1>2, <3>3
    <2>2. SortedBy("path", q) = q
      BY <1>3, <1>6, SortedAlike DEF q
    <2> QED
      BY <1>2, <2>1, <2>2
  <1> QED
    BY <1>2, <1>3, <1>5, <1>10, <1>11, <1>12, <1>13 DEF q, s

LEMMA NFCAlike ==
  ASSUME NEW b, NEW c, Wellformed(b), Wellformed(c), b.id = c.id, Paths(b) = Paths(c)
  PROVE  InNFC(b) = InNFC(c)
  <1>1. SortedBy("path", Spelled(b.prefixes)) = SortedBy("path", Spelled(c.prefixes))
    <2>1. /\ Spelled(b.prefixes) \in Seq(Scopes) /\ Keyed("path", Spelled(b.prefixes))
          /\ ToSet(Spelled(b.prefixes)) = {[path |-> p, spelling |-> "NFC"] : p \in Paths(b)}
      BY NFCIs
    <2>2. /\ Spelled(c.prefixes) \in Seq(Scopes) /\ Keyed("path", Spelled(c.prefixes))
          /\ ToSet(Spelled(c.prefixes)) = {[path |-> p, spelling |-> "NFC"] : p \in Paths(c)}
      BY NFCIs
    <2> QED
      BY <2>1, <2>2, SortedAlike
  <1>2. /\ InNFC(b) \in Concepts /\ InNFC(b).id = b.id
        /\ InNFC(b).prefixes = SortedBy("path", Spelled(b.prefixes))
    BY NFCIs DEF Wellformed
  <1>3. /\ InNFC(c) \in Concepts /\ InNFC(c).id = c.id
        /\ InNFC(c).prefixes = SortedBy("path", Spelled(c.prefixes))
    BY NFCIs DEF Wellformed
  <1> QED
    BY <1>1, <1>2, <1>3 DEF Concepts
Canonical(d) == _canonicalize_scope_paths(d, TRUE)

LEMMA ValidIs ==
  ASSUME NEW d, Valid(d)
  PROVE  /\ \A i \in DOMAIN d : Wellformed(d[i])
         /\ Keyed("id", d)
  <1>1. \A i \in DOMAIN d : d[i] \in Concepts /\ NoneTwice(Spelled(d[i].prefixes))
    BY DEF Valid, validate_glossary, Spelled
  <1>2. d \in Seq(Concepts) /\ NoneTwice([i \in DOMAIN d |-> d[i].id])
    BY DEF Valid, validate_glossary
  <1> DEFINE ids == [i \in DOMAIN d |-> d[i].id]
  <1>3. \A i \in DOMAIN d : d[i].id \in Nat
    BY <1>1 DEF Concepts
  <1>4. ids \in Seq(Nat)
    BY <1>2, <1>3
  <1>5. \A i, j \in DOMAIN ids : ids[i] = ids[j] => i = j
    BY <1>2, <1>4, Distinct
  <1>6. Keyed("id", d)
    BY <1>3, <1>5 DEF Keyed
  <1> QED
    BY <1>1, <1>6 DEF Wellformed

LEMMA KeyedValid ==
  ASSUME NEW d \in Seq(Concepts), Keyed("id", d), \A i \in DOMAIN d : Wellformed(d[i])
  PROVE  Valid(d)
  <1> DEFINE ids == [i \in DOMAIN d |-> d[i].id]
  <1>1. ids \in Seq(Nat)
    BY DEF Keyed
  <1>2. \A i, j \in DOMAIN ids : ids[i] = ids[j] => i = j
    BY DEF Keyed
  <1>3. NoneTwice(ids)
    BY <1>1, <1>2, Distinct
  <1> QED
    BY <1>3 DEF Valid, validate_glossary, Wellformed, Spelled

\* Loading keeps what a document says and the places of its concepts.
LEMMA LoadedIs ==
  ASSUME NEW d, Valid(d)
  PROVE  LET m == _canonicalize_scope_paths(d, FALSE) IN
         /\ Valid(m) /\ Keyed("id", m) /\ Meaning(m) = Meaning(d)
         /\ DOMAIN m = DOMAIN d /\ \A i \in DOMAIN d : m[i] = InNFC(d[i]) /\ m[i].id = d[i].id
         /\ \A i \in DOMAIN m : \A pre \in ToSet(m[i].prefixes) : pre.spelling = "NFC"
  <1> DEFINE m == _canonicalize_scope_paths(d, FALSE)
  <1>1. m = [i \in DOMAIN d |-> InNFC(d[i])]
    BY DEF _canonicalize_scope_paths
  <1> HIDE DEF m
  <1>2. d \in Seq(Concepts) /\ Keyed("id", d) /\ \A i \in DOMAIN d : Wellformed(d[i])
    BY ValidIs DEF Valid
  <1>3. ASSUME NEW i \in DOMAIN d
        PROVE  /\ m[i] = InNFC(d[i]) /\ m[i].id = d[i].id /\ Wellformed(m[i])
               /\ Paths(m[i]) = Paths(d[i])
               /\ \A pre \in ToSet(m[i].prefixes) : pre.spelling = "NFC"
    <2>1. Wellformed(d[i]) /\ m[i] = InNFC(d[i])
      BY <1>1, <1>2
    <2> QED
      BY <2>1, NFCIs
  <1>4. DOMAIN m = DOMAIN d
    BY <1>1
  <1>5. m \in Seq(Concepts)
    <2>1. \A i \in DOMAIN d : InNFC(d[i]) \in Concepts
      BY <1>3 DEF Wellformed
    <2> QED
      BY <1>1, <1>2, <2>1
  <1>6. Keyed("id", m)
    BY <1>2, <1>3, <1>4 DEF Keyed
  <1>7. Valid(m)
    BY <1>3, <1>4, <1>5, <1>6, KeyedValid
  <1>8. Meaning(m) = Meaning(d)
    <2>1. Meaning(m) = {<<m[i].id, Paths(m[i])>> : i \in DOMAIN m}
      BY DEF Meaning, Paths
    <2>2. Meaning(d) = {<<d[i].id, Paths(d[i])>> : i \in DOMAIN d}
      BY DEF Meaning, Paths
    <2> QED
      BY <1>3, <1>4, <2>1, <2>2
  <1> QED
    BY <1>3, <1>4, <1>6, <1>7, <1>8 DEF m

\* What is said by the elements of a sequence is said in any order.
LEMMA MeaningOfSet ==
  ASSUME NEW d
  PROVE  Meaning(d) = {<<c.id, Paths(c)>> : c \in ToSet(d)}
  <1>1. Meaning(d) = {<<d[i].id, Paths(d[i])>> : i \in DOMAIN d}
    BY DEF Meaning, Paths
  <1> QED
    BY <1>1 DEF ToSet

\* What save writes is a valid document that says what it was given and is in
\* the form it would be loaded in.
LEMMA CanonicalIs ==
  ASSUME NEW d, Valid(d)
  PROVE  /\ Valid(Canonical(d)) /\ Meaning(Canonical(d)) = Meaning(d)
         /\ _canonicalize_scope_paths(Canonical(d), FALSE) = Canonical(d)
  <1> DEFINE m == _canonicalize_scope_paths(d, FALSE)
             n == Canonical(d)
  <1>1. n = SortedBy("id", m)
    BY DEF Canonical, _canonicalize_scope_paths
  <1>2. /\ Valid(m) /\ Keyed("id", m) /\ Meaning(m) = Meaning(d) /\ DOMAIN m = DOMAIN d
        /\ \A i \in DOMAIN d : m[i] = InNFC(d[i])
    BY LoadedIs
  <1> HIDE DEF m, n
  <1>3. m \in Seq(Concepts) /\ \A i \in DOMAIN m : Wellformed(m[i])
    BY <1>2, ValidIs DEF Valid
  <1>4. n \in Seq(Concepts) /\ ToSet(n) = ToSet(m) /\ Keyed("id", n)
    BY <1>1, <1>2, <1>3, SortedIs
  <1>5. \A i \in DOMAIN n : \E j \in DOMAIN d : n[i] = InNFC(d[j])
    <2>1. \A i \in DOMAIN n : n[i] \in ToSet(m)
      BY <1>4 DEF ToSet
    <2>2. \A x \in ToSet(m) : \E j \in DOMAIN d : x = m[j]
      BY <1>2 DEF ToSet
    <2> QED
      BY <1>2, <2>1, <2>2
  <1>6. \A i \in DOMAIN n : Wellformed(n[i]) /\ InNFC(n[i]) = n[i]
    BY <1>5, NFCIs, ValidIs
  <1>7. Valid(n)
    BY <1>4, <1>6, KeyedValid
  <1>8. Meaning(n) = Meaning(d)
    BY <1>2, <1>4, MeaningOfSet
  <1>9. _canonicalize_scope_paths(n, FALSE) = n
    <2>1. _canonicalize_scope_paths(n, FALSE) = [i \in DOMAIN n |-> InNFC(n[i])]
      BY DEF _canonicalize_scope_paths
    <2>2. n = [i \in DOMAIN n |-> n[i]]
      BY <1>4
    <2> QED
      BY <1>6, <2>1, <2>2
  <1> QED
    BY <1>7, <1>8, <1>9 DEF n

\* Documents that say the same are saved alike.
LEMMA SavedAlike ==
  ASSUME NEW d, NEW e, Valid(d), Valid(e), Meaning(d) = Meaning(e)
  PROVE  Canonical(d) = Canonical(e)
  <1> DEFINE L(x) == _canonicalize_scope_paths(x, FALSE)
  <1>1. Canonical(d) = SortedBy("id", L(d)) /\ Canonical(e) = SortedBy("id", L(e))
    BY DEF Canonical, _canonicalize_scope_paths
  <1>2. ASSUME NEW x, NEW y, Valid(x), Valid(y), Meaning(x) = Meaning(y)
        PROVE  ToSet(L(x)) \subseteq ToSet(L(y))
    <2>1. ASSUME NEW i \in DOMAIN x PROVE \E j \in DOMAIN y : InNFC(x[i]) = InNFC(y[j])
      <3>1. <<x[i].id, Paths(x[i])>> \in Meaning(y)
        BY <1>2 DEF Meaning, Paths
      <3>2. PICK j \in DOMAIN y : x[i].id = y[j].id /\ Paths(x[i]) = Paths(y[j])
        BY <3>1 DEF Meaning, Paths
      <3>3. Wellformed(x[i]) /\ Wellformed(y[j])
        BY <1>2, ValidIs
      <3> QED
        BY <3>2, <3>3, NFCAlike
    <2>2. /\ DOMAIN L(x) = DOMAIN x /\ \A i \in DOMAIN x : L(x)[i] = InNFC(x[i])
          /\ DOMAIN L(y) = DOMAIN y /\ \A i \in DOMAIN y : L(y)[i] = InNFC(y[i])
      BY <1>2, LoadedIs
    <2> HIDE DEF L
    <2> QED
      BY <2>1, <2>2 DEF ToSet
  <1>3. /\ L(d) \in Seq(Concepts) /\ Keyed("id", L(d))
        /\ L(e) \in Seq(Concepts) /\ Keyed("id", L(e))
    BY LoadedIs DEF Valid
  <1> HIDE DEF L
  <1>4. ToSet(L(d)) = ToSet(L(e))
    <2>1. ToSet(L(d)) \subseteq ToSet(L(e))
      BY <1>2
    <2>2. ToSet(L(e)) \subseteq ToSet(L(d))
      BY <1>2
    <2> QED
      BY <2>1, <2>2
  <1> QED
    BY <1>1, <1>3, <1>4, SortedAlike
(***************************************************************************)
(* The invariant.                                                          *)
(***************************************************************************)
Saving == {"check output", "make output", "check name", "mkstemp", "write", "replace"}
Loading == {"check path", "isfile", "open"}

ClientRecords ==
  [state: {"idle", "read input", "ended"} \cup Saving \cup Loading, input: Inputs,
   outcome: {None, "refused", "saved", "killed", "error", "absent", "loaded"},
   loaded: Seq(Concepts)]

Running(m) == m.state \notin {"idle", "ended"}
Given(m) == m.input.channel = "document" /\ Valid(m.input.concepts)
Output(m) == File("save", "stored", Canonical(m.input.concepts))

\* What stands at the path is another's, or whole and of a client's input.
Known(clients, e) ==
  \/ e \in Foreign \cup {NotAFile("link")}
  \/ \E p \in Clients : clients[p].state # "idle" /\ Given(clients[p]) /\ e = Output(clients[p])

\* What is so of a client with the local variables m, its temporary t, what
\* stood since it began, and what stands.
Serving(m, t, since, here) ==
  /\ m \in ClientRecords
  /\ Running(m) => here \in since
  /\ m.state \in Saving => Given(m)
  /\ m.state # "ended" => m.outcome = None
  /\ t # None => m.state \in {"write", "replace"} \/ m.outcome = "killed"
  /\ m.state = "replace" => t \in {None, Output(m)}
  /\ m.outcome = "saved" => Given(m) /\ Output(m) \in since \ {None}
  /\ m.outcome = "loaded" =>
       \E e \in since : /\ e # None /\ e.kind = "document" /\ Valid(e.concepts)
                        /\ m.loaded = _canonicalize_scope_paths(e.concepts, FALSE)
  /\ m.outcome = "absent" =>
       \E e \in since : e = None \/ (e # None /\ e.kind = "directory")

StoreInvariant ==
  /\ DOMAIN client = Clients /\ client = [p \in Clients |-> client[p]]
  /\ DOMAIN stood = Clients /\ stood = [p \in Clients |-> stood[p]]
  /\ DOMAIN temporary = Clients /\ temporary = [p \in Clients |-> temporary[p]]
  /\ Known(client, standing)
  /\ \A p \in Clients :
       /\ Serving(client[p], temporary[p], stood[p], standing)
       /\ \A e \in stood[p] : Known(client, e)

\* A client keeps its input once it has begun.
Goes(m, n) == m.state # "idle" => n.state # "idle" /\ n.input = m.input

LEMMA KnownStays ==
  ASSUME NEW before, NEW after, NEW e, Known(before, e), \A p \in Clients : Goes(before[p], after[p])
  PROVE  Known(after, e)
  <1>1. CASE e \in Foreign \cup {NotAFile("link")}
    BY <1>1 DEF Known
  <1>2. ASSUME NEW p \in Clients, before[p].state # "idle", Given(before[p]), e = Output(before[p])
        PROVE  Known(after, e)
    <2>1. after[p].state # "idle" /\ Given(after[p]) /\ Output(after[p]) = Output(before[p])
      BY <1>2 DEF Goes, Given, Output
    <2> QED
      BY <1>2, <2>1 DEF Known
  <1> QED
    BY <1>1, <1>2 DEF Known

\* What others put in place takes nothing from what is so of a client.
LEMMA ServingStays ==
  ASSUME NEW m, NEW t, NEW since, NEW here, Serving(m, t, since, here),
         NEW u, u \in {t, None}, NEW later, since \subseteq later,
         NEW there, Running(m) => there \in later
  PROVE  Serving(m, u, later, there)
  <1>1. m.outcome = "loaded" =>
          \E e \in later : /\ e # None /\ e.kind = "document" /\ Valid(e.concepts)
                           /\ m.loaded = _canonicalize_scope_paths(e.concepts, FALSE)
    BY DEF Serving
  <1>2. m.outcome = "absent" => \E e \in later : e = None \/ (e # None /\ e.kind = "directory")
    BY DEF Serving
  <1>3. m.outcome = "saved" => Given(m) /\ Output(m) \in later \ {None}
    BY DEF Serving
  <1>4. /\ u # None => m.state \in {"write", "replace"} \/ m.outcome = "killed"
        /\ m.state = "replace" => u \in {None, Output(m)}
    BY DEF Serving
  <1> QED
    BY <1>1, <1>2, <1>3, <1>4 DEF Serving

\* A step of client p that leaves what stands.
LEMMA ClientKeeps ==
  ASSUME StoreInvariant, NEW p \in Clients, NEW m, NEW t,
         client' = [client EXCEPT ![p] = m], temporary' = [temporary EXCEPT ![p] = t],
         UNCHANGED <<standing, stood>>, Goes(client[p], m),
         Serving(m, t, stood[p], standing)
  PROVE  StoreInvariant'
  <1>1. \A q \in Clients : client'[q] = IF q = p THEN m ELSE client[q]
    BY DEF StoreInvariant
  <1>2. \A q \in Clients : temporary'[q] = IF q = p THEN t ELSE temporary[q]
    BY DEF StoreInvariant
  <1>3. /\ DOMAIN client' = Clients /\ client' = [q \in Clients |-> client'[q]]
        /\ DOMAIN temporary' = Clients /\ temporary' = [q \in Clients |-> temporary'[q]]
    BY DEF StoreInvariant
  <1>4. \A q \in Clients : Goes(client[q], client'[q])
    BY <1>1 DEF Goes
  <1>5. \A q \in Clients : \A e \in stood[q] \cup {standing} : Known(client', e)
    BY <1>4, KnownStays DEF StoreInvariant
  <1>6. \A q \in Clients : Serving(client'[q], temporary'[q], stood[q], standing)
    BY <1>1, <1>2 DEF StoreInvariant
  <1>7. Known(client', standing)
    BY <1>5
  <1> QED
    BY <1>3, <1>5, <1>6, <1>7 DEF StoreInvariant

\* What is put in place, by client p or another program.
LEMMA PlaceKeeps ==
  ASSUME StoreInvariant, NEW entry, Place(entry), NEW clients, client' = clients,
         DOMAIN clients = Clients, clients = [p \in Clients |-> clients[p]],
         NEW temporaries, temporary' = temporaries,
         DOMAIN temporaries = Clients, temporaries = [p \in Clients |-> temporaries[p]],
         \A p \in Clients : Goes(client[p], clients[p]), Known(clients, entry),
         \A p \in Clients : LET since == IF Running(client[p]) THEN stood[p] \cup {entry} ELSE stood[p]
                            IN Serving(clients[p], temporaries[p], since, entry)
  PROVE  StoreInvariant'
  <1>1. standing' = entry /\ DOMAIN stood' = Clients /\ stood' = [p \in Clients |-> stood'[p]]
    BY DEF Place
  <1>2. \A p \in Clients : stood'[p] = IF Running(client[p]) THEN stood[p] \cup {entry} ELSE stood[p]
    BY DEF Place, Running
  <1>3. ASSUME NEW p \in Clients, NEW e \in stood'[p] PROVE Known(clients, e)
    <2>1. e = entry \/ e \in stood[p]
      BY <1>2, <1>3
    <2>2. e \in stood[p] => Known(client, e)
      BY DEF StoreInvariant
    <2> QED
      BY <2>1, <2>2, KnownStays
  <1>4. \A p \in Clients : Serving(clients[p], temporaries[p], stood'[p], entry)
    BY <1>2
  <1> QED
    BY <1>1, <1>3, <1>4 DEF StoreInvariant
(***************************************************************************)
(* Each step.                                                              *)
(***************************************************************************)
LEMMA Fields ==
  ASSUME StoreInvariant, NEW p \in Clients
  PROVE  /\ client[p] \in ClientRecords
         /\ Serving(client[p], temporary[p], stood[p], standing)
         /\ Running(client[p]) => client[p].outcome = None
         /\ temporary = [temporary EXCEPT ![p] = temporary[p]]
         /\ Running(client[p]) /\ client[p].state \notin {"write", "replace"} => temporary[p] = None
  <1>1. Serving(client[p], temporary[p], stood[p], standing)
    BY DEF StoreInvariant
  <1>2. Running(client[p]) => client[p].outcome = None
    BY <1>1 DEF Serving, Running
  <1>3. None # "killed"
    BY StoreAssumption
  <1>4. Running(client[p]) /\ client[p].state \notin {"write", "replace"} => temporary[p] = None
    BY <1>1, <1>2, <1>3 DEF Serving
  <1>5. temporary = [temporary EXCEPT ![p] = temporary[p]]
    BY DEF StoreInvariant
  <1> QED
    BY <1>1, <1>2, <1>4, <1>5 DEF Serving

LEMMA GoKeeps ==
  ASSUME StoreInvariant, NEW p \in Clients, Running(client[p]), NEW state \in Saving \cup Loading,
         Go(p, state), Untouched, NEW t, temporary' = [temporary EXCEPT ![p] = t],
         t # None => state \in {"write", "replace"}, state \in Saving => Given(client[p]),
         state = "replace" => t \in {None, Output(client[p])}
  PROVE  StoreInvariant'
  <1> DEFINE m == [client[p] EXCEPT !.state = state]
  <1>1. client' = [client EXCEPT ![p] = m]
    BY DEF Go
  <1>2. /\ client[p] \in ClientRecords /\ client[p].outcome = None
        /\ Serving(client[p], temporary[p], stood[p], standing)
    BY Fields
  <1>3. /\ m \in ClientRecords /\ m.state = state /\ m.input = client[p].input
        /\ m.outcome = None /\ state \notin {"idle", "ended"}
    BY <1>2 DEF ClientRecords, Saving, Loading
  <1> HIDE DEF m
  <1>4. Given(m) = Given(client[p]) /\ Output(m) = Output(client[p])
    BY <1>3 DEF Given, Output
  <1>5. standing \in stood[p]
    BY <1>2 DEF Serving
  <1>6. None \notin {"saved", "loaded", "absent"}
    BY StoreAssumption
  <1>7. Serving(m, t, stood[p], standing)
    BY <1>3, <1>4, <1>5, <1>6 DEF Serving
  <1>8. Goes(client[p], m)
    BY <1>3 DEF Goes
  <1> QED
    BY <1>1, <1>7, <1>8, ClientKeeps DEF Untouched

LEMMA FinishKeeps ==
  ASSUME StoreInvariant, NEW p \in Clients, Running(client[p]),
         NEW outcome \in {"refused", "killed", "error", "absent"},
         Finish(p, outcome), Untouched, NEW t, temporary' = [temporary EXCEPT ![p] = t],
         t = None \/ outcome = "killed",
         outcome = "absent" => standing = None \/ (standing # None /\ standing.kind = "directory")
  PROVE  StoreInvariant'
  <1> DEFINE m == [client[p] EXCEPT !.state = "ended", !.outcome = outcome]
  <1>1. client' = [client EXCEPT ![p] = m]
    BY DEF Finish
  <1>2. /\ client[p] \in ClientRecords
        /\ Serving(client[p], temporary[p], stood[p], standing)
    BY Fields
  <1>3. m \in ClientRecords /\ m.state = "ended" /\ m.input = client[p].input /\ m.outcome = outcome
    BY <1>2 DEF ClientRecords
  <1> HIDE DEF m
  <1>4. standing \in stood[p]
    BY <1>2 DEF Serving
  <1>5. "ended" \notin Saving
    BY DEF Saving
  <1>6. Serving(m, t, stood[p], standing)
    BY <1>3, <1>4, <1>5 DEF Serving, Running
  <1>7. Goes(client[p], m)
    BY <1>3 DEF Goes
  <1> QED
    BY <1>1, <1>6, <1>7, ClientKeeps DEF Untouched

LEMMA BeginKeeps ==
  ASSUME StoreInvariant, NEW p \in Clients, Begin(p)
  PROVE  StoreInvariant'
  <1>1. client[p] \in ClientRecords /\ Serving(client[p], temporary[p], stood[p], standing)
    BY Fields
  <1>2. PICK m \in ClientRecords : /\ client' = [client EXCEPT ![p] = m]
                                   /\ m.state \in {"check path", "read input"}
                                   /\ m.outcome = client[p].outcome
    <2>1. ASSUME Go(p, "check path") PROVE  \E m \in ClientRecords : /\ client' = [client EXCEPT ![p] = m]
                                          /\ m.state \in {"check path", "read input"}
                                          /\ m.outcome = client[p].outcome
      <3> DEFINE m == [client[p] EXCEPT !.state = "check path"]
      <3>1. m \in ClientRecords
        BY <1>1 DEF ClientRecords, Loading
      <3> QED
        BY <1>1, <2>1, <3>1 DEF Go, ClientRecords
    <2>2. ASSUME NEW input \in Inputs,
                 client' = [client EXCEPT ![p].state = "read input", ![p].input = input]
          PROVE  \E m \in ClientRecords : /\ client' = [client EXCEPT ![p] = m]
                                          /\ m.state \in {"check path", "read input"}
                                          /\ m.outcome = client[p].outcome
      <3> DEFINE m == [client[p] EXCEPT !.state = "read input", !.input = input]
      <3>1. m \in ClientRecords
        BY <1>1 DEF ClientRecords
      <3> QED
        <4>1. client' = [client EXCEPT ![p] = m]
          BY <2>2
        <4>2. m.state = "read input" /\ m.outcome = client[p].outcome
          BY <1>1 DEF ClientRecords
        <4> HIDE DEF m
        <4> QED
          BY <3>1, <4>1, <4>2
    <2> QED
      BY <2>1, <2>2 DEF Begin
  <1>3. /\ client[p].state = "idle" /\ client[p].outcome = None
        /\ UNCHANGED <<standing, temporary>> /\ stood' = [stood EXCEPT ![p] = {standing}]
    BY <1>1 DEF Begin, Serving
  <1>4. None \notin {"saved", "loaded", "absent", "killed"}
    BY StoreAssumption
  <1>5. temporary[p] = None
    BY <1>1, <1>3, <1>4 DEF Serving
  <1>6. m.state \notin Saving \cup {"ended", "replace"}
    BY <1>2 DEF Saving
  <1>7. Serving(m, None, {standing}, standing)
    BY <1>2, <1>3, <1>4, <1>6 DEF Serving
  <1>8. \A q \in Clients : client'[q] = IF q = p THEN m ELSE client[q]
    BY <1>2 DEF StoreInvariant
  <1>9. \A q \in Clients : stood'[q] = IF q = p THEN {standing} ELSE stood[q]
    BY <1>3 DEF StoreInvariant
  <1>10. /\ DOMAIN client' = Clients /\ client' = [q \in Clients |-> client'[q]]
         /\ DOMAIN stood' = Clients /\ stood' = [q \in Clients |-> stood'[q]]
    BY <1>2, <1>3 DEF StoreInvariant
  <1>11. \A q \in Clients : Goes(client[q], client'[q])
    BY <1>3, <1>8 DEF Goes
  <1>12. ASSUME NEW q \in Clients, NEW e \in stood'[q] \cup {standing} PROVE Known(client', e)
    <2>1. e \in stood[q] \cup {standing}
      BY <1>9, <1>12
    <2>2. Known(client, e)
      BY <2>1 DEF StoreInvariant
    <2> QED
      BY <1>11, <2>2, KnownStays
  <1>13. \A q \in Clients : Serving(client'[q], temporary[q], stood'[q], standing)
    BY <1>5, <1>7, <1>8, <1>9 DEF StoreInvariant
  <1>14. Known(client', standing)
    BY <1>12
  <1> QED
    BY <1>3, <1>10, <1>12, <1>13, <1>14 DEF StoreInvariant
LEMMA GivenInput ==
  ASSUME StoreInvariant, NEW p \in Clients, client[p].input.channel = "document",
         Parsed("compact", client[p].input.concepts)
  PROVE  Given(client[p])
  <1>1. client[p].input \in Inputs
    BY Fields DEF ClientRecords
  <1>2. client[p].input.concepts \in Documents
    BY <1>1 DEF Inputs, Unusable
  <1> QED
    BY <1>2, StoreAssumption DEF Given, Valid, Parsed

LEMMA SaveKeeps ==
  ASSUME StoreInvariant, NEW p \in Clients,
         _read_glossary_from_stdin(p) \/ CheckOutput(p) \/ MakeOutput(p) \/ CheckName(p)
           \/ MakeTemporary(p) \/ WriteTemporary(p)
  PROVE  StoreInvariant'
  <1>1. /\ Serving(client[p], temporary[p], stood[p], standing)
        /\ temporary = [temporary EXCEPT ![p] = temporary[p]]
        /\ Running(client[p]) /\ client[p].state \notin {"write", "replace"} => temporary[p] = None
    BY Fields
  <1>2. client[p].state \in Saving => Given(client[p])
    BY <1>1 DEF Serving
  <1>3. /\ {"check output", "make output", "check name", "mkstemp", "write", "replace"} \subseteq Saving
        /\ {"idle", "ended"} \cap Saving = {}
    BY DEF Saving
  <1>4. CASE _read_glossary_from_stdin(p)
    <2>1. /\ Running(client[p]) /\ temporary[p] = None /\ Untouched
          /\ temporary' = [temporary EXCEPT ![p] = None]
      BY <1>1, <1>4 DEF _read_glossary_from_stdin, Running
    <2>2. CASE client[p].input.channel = "document" /\ Parsed("compact", client[p].input.concepts)
      <3>1. Go(p, "check output") /\ Given(client[p])
        BY <1>4, <2>2, GivenInput DEF _read_glossary_from_stdin
      <3> QED
        BY <1>3, <2>1, <3>1, GoKeeps
    <2>3. CASE ~(client[p].input.channel = "document" /\ Parsed("compact", client[p].input.concepts))
      <3>1. Finish(p, "refused")
        BY <1>4, <2>3 DEF _read_glossary_from_stdin
      <3> QED
        BY <2>1, <3>1, FinishKeeps
    <2> QED
      BY <2>2, <2>3
  <1>5. CASE CheckOutput(p) \/ MakeOutput(p) \/ CheckName(p)
    <2>1. /\ client[p].state \in Saving /\ Running(client[p]) /\ temporary[p] = None /\ Untouched
          /\ temporary' = [temporary EXCEPT ![p] = None]
      BY <1>1, <1>3, <1>5 DEF CheckOutput, MakeOutput, CheckName, Running
    <2>2. Finish(p, "refused") \/ \E state \in {"make output", "check name", "mkstemp"} : Go(p, state)
      BY <1>5 DEF CheckOutput, MakeOutput, CheckName
    <2>3. CASE Finish(p, "refused")
      BY <2>1, <2>3, FinishKeeps
    <2>4. ASSUME NEW state \in {"make output", "check name", "mkstemp"}, Go(p, state)
          PROVE  StoreInvariant'
      BY <1>2, <1>3, <2>1, <2>4, GoKeeps
    <2> QED
      BY <2>2, <2>3, <2>4
  <1>6. CASE MakeTemporary(p)
    <2>1. client[p].state = "mkstemp" /\ Running(client[p]) /\ temporary[p] = None /\ Untouched
      BY <1>1, <1>6 DEF MakeTemporary, Running
    <2>2. CASE out = "file"
      <3>1. Finish(p, "refused") /\ temporary' = [temporary EXCEPT ![p] = None]
        BY <1>1, <1>6, <2>1, <2>2 DEF MakeTemporary
      <3> QED
        BY <2>1, <3>1, FinishKeeps
    <2>3. CASE out # "file"
      <3>1. Go(p, "write") /\ temporary' = [temporary EXCEPT ![p] = Malformed("save")]
        BY <1>6, <2>3 DEF MakeTemporary
      <3> QED
        BY <1>2, <1>3, <2>1, <3>1, GoKeeps
    <2> QED
      BY <2>2, <2>3
  <1>7. CASE WriteTemporary(p)
    <2>1. client[p].state = "write" /\ Running(client[p]) /\ Untouched
      BY <1>7 DEF WriteTemporary, Running
    <2>2. CASE GiveUp(p)
      BY <2>1, <2>2, FinishKeeps DEF GiveUp
    <2>3. CASE Go(p, "replace")
               /\ temporary' = [temporary EXCEPT ![p] = IF @ = None THEN None ELSE Normalized(p)]
      <3> DEFINE t == IF temporary[p] = None THEN None ELSE Normalized(p)
      <3>1. temporary' = [temporary EXCEPT ![p] = t]
        BY <2>3
      <3>2. t \in {None, Output(client[p])}
        BY DEF Normalized, Output, Canonical
      <3> HIDE DEF t
      <3> QED
        BY <1>2, <1>3, <2>1, <2>3, <3>1, <3>2, GoKeeps
    <2> QED
      BY <1>7, <2>2, <2>3 DEF WriteTemporary
  <1> QED
    BY <1>4, <1>5, <1>6, <1>7

LEMMA LoadKeepsStore ==
  ASSUME StoreInvariant, NEW p \in Clients, CheckPath(p) \/ IsFile(p) \/ Killed(p)
  PROVE  StoreInvariant'
  <1>1. /\ temporary = [temporary EXCEPT ![p] = temporary[p]]
        /\ Running(client[p]) /\ client[p].state \notin {"write", "replace"} => temporary[p] = None
    BY Fields
  <1>2. Running(client[p]) /\ Untouched /\ temporary' = [temporary EXCEPT ![p] = temporary[p]]
    BY <1>1 DEF CheckPath, IsFile, Killed, Running
  <1>3. CASE Killed(p)
    BY <1>2, <1>3, FinishKeeps DEF Killed
  <1>4. CASE CheckPath(p) \/ IsFile(p)
    <2>1. temporary[p] = None
      BY <1>1, <1>2, <1>4 DEF CheckPath, IsFile
    <2>2. \/ Finish(p, "error")
          \/ Finish(p, "absent") /\ (standing = None \/ (standing # None /\ standing.kind = "directory"))
          \/ Go(p, "isfile") \/ Go(p, "open")
      BY <1>4 DEF CheckPath, IsFile
    <2>3. CASE Finish(p, "error")
      BY <1>2, <2>1, <2>3, FinishKeeps
    <2>4. CASE Finish(p, "absent") /\ (standing = None \/ (standing # None /\ standing.kind = "directory"))
      BY <1>2, <2>1, <2>4, FinishKeeps
    <2>5. ASSUME NEW state \in {"isfile", "open"}, Go(p, state) PROVE StoreInvariant'
      <3>1. state \in Loading /\ state \notin Saving
        BY DEF Loading, Saving
      <3> QED
        BY <1>2, <2>1, <2>5, <3>1, GoKeeps
    <2> QED
      BY <2>2, <2>3, <2>4, <2>5
  <1> QED
    BY <1>3, <1>4

\* A document that can be parsed and loaded is valid, whoever put it there.
LEMMA StandingValid ==
  ASSUME StoreInvariant, standing # None, standing.kind = "document",
         Parsed(standing.layout, standing.concepts)
  PROVE  Valid(standing.concepts)
  <1>1. CASE standing \in Foreign \cup {NotAFile("link")}
    <2>1. PICK d \in Documents : standing = File("others", "compact", d)
      BY <1>1 DEF Foreign, NotAFile, Malformed
    <2> QED
      BY <2>1, StoreAssumption DEF File, Valid, Parsed
  <1>2. ASSUME NEW p \in Clients, Given(client[p]), standing = Output(client[p])
        PROVE  Valid(standing.concepts)
    <2> DEFINE d == client[p].input.concepts
    <2>1. standing.concepts = Canonical(d)
      BY <1>2 DEF Output, File
    <2>2. Valid(d)
      BY <1>2 DEF Given
    <2> QED
      BY <2>1, <2>2, CanonicalIs
  <1> QED
    BY <1>1, <1>2 DEF StoreInvariant, Known

LEMMA OpenKeeps == ASSUME StoreInvariant, NEW p \in Clients, Open(p) PROVE StoreInvariant'
  <1>1. /\ client[p] \in ClientRecords /\ Serving(client[p], temporary[p], stood[p], standing)
        /\ client[p].state = "open" /\ Running(client[p]) /\ Untouched
        /\ temporary' = [temporary EXCEPT ![p] = None]
    <2>1. client[p].state = "open" /\ Running(client[p]) /\ Untouched /\ temporary' = temporary
      BY DEF Open, Running
    <2> QED
      BY <2>1, Fields
  <1>2. CASE Finish(p, "error")
    BY <1>1, <1>2, FinishKeeps
  <1>3. CASE ~Finish(p, "error")
    <2> DEFINE l == _canonicalize_scope_paths(standing.concepts, FALSE)
               m == [client[p] EXCEPT !.state = "ended", !.outcome = "loaded", !.loaded = l]
    <2>1. /\ standing # None /\ standing.kind = "document" /\ Parsed(standing.layout, standing.concepts)
          /\ client' = [client EXCEPT ![p].state = "ended", ![p].outcome = "loaded", ![p].loaded = l]
      BY <1>3 DEF Open
    <2>2. client' = [client EXCEPT ![p] = m]
      BY <2>1
    <2>3. Valid(standing.concepts)
      BY <2>1, StandingValid
    <2>4. l \in Seq(Concepts)
      BY <2>3, LoadedIs DEF Valid
    <2> HIDE DEF l
    <2>5. /\ m \in ClientRecords /\ m.state = "ended" /\ m.outcome = "loaded" /\ m.loaded = l
          /\ m.input = client[p].input
      BY <1>1, <2>4 DEF ClientRecords
    <2> HIDE DEF m
    <2>6. standing \in stood[p]
      BY <1>1 DEF Serving
    <2>7. \E e \in stood[p] : /\ e # None /\ e.kind = "document" /\ Valid(e.concepts)
                              /\ m.loaded = _canonicalize_scope_paths(e.concepts, FALSE)
      BY <2>1, <2>3, <2>5, <2>6 DEF l
    <2>8. "ended" \notin Saving
      BY DEF Saving
    <2>9. Serving(m, None, stood[p], standing)
      BY <2>5, <2>7, <2>8 DEF Serving, Running
    <2>10. Goes(client[p], m)
      BY <2>5 DEF Goes
    <2> QED
      BY <1>1, <2>2, <2>9, <2>10, ClientKeeps DEF Untouched
  <1> QED
    BY <1>2, <1>3
LEMMA ReplaceKeepsStore == ASSUME StoreInvariant, NEW p \in Clients, Replace(p) PROVE StoreInvariant'
  <1>1. /\ client[p] \in ClientRecords /\ Serving(client[p], temporary[p], stood[p], standing)
        /\ client[p].state = "replace" /\ Running(client[p])
    BY Fields DEF Replace, Running
  <1>2. CASE GiveUp(p) /\ Untouched
    BY <1>1, <1>2, FinishKeeps DEF GiveUp
  <1>3. CASE ~(GiveUp(p) /\ Untouched)
    <2> DEFINE entry == Output(client[p])
               m == [client[p] EXCEPT !.state = "ended", !.outcome = "saved"]
               clients == [client EXCEPT ![p] = m]
               temporaries == [temporary EXCEPT ![p] = None]
               Since(q) == IF Running(client[q]) THEN stood[q] \cup {entry} ELSE stood[q]
    <2>1. /\ temporary[p] # None /\ Place(temporary[p]) /\ Finish(p, "saved")
          /\ temporary' = temporaries
      BY <1>3 DEF Replace
    <2>2. Place(entry) /\ entry # None
      BY <1>1, <2>1 DEF Serving
    <2>3. client' = clients
      BY <2>1 DEF Finish
    <2>4. Given(client[p])
      BY <1>1 DEF Serving, Saving
    <2>5. /\ m \in ClientRecords /\ m.state = "ended" /\ m.outcome = "saved" /\ m.input = client[p].input
      BY <1>1 DEF ClientRecords
    <2> HIDE DEF m
    <2>6. Given(m) /\ Output(m) = entry
      BY <2>4, <2>5 DEF Given, Output
    <2>7. \A q \in Clients : /\ clients[q] = IF q = p THEN m ELSE client[q]
                             /\ temporaries[q] = IF q = p THEN None ELSE temporary[q]
      BY DEF StoreInvariant
    <2>8. /\ DOMAIN clients = Clients /\ clients = [q \in Clients |-> clients[q]]
          /\ DOMAIN temporaries = Clients /\ temporaries = [q \in Clients |-> temporaries[q]]
      BY DEF StoreInvariant
    <2> HIDE DEF clients, temporaries, entry
    <2>9. \A q \in Clients : Goes(client[q], clients[q])
      BY <2>5, <2>7 DEF Goes
    <2>10. Known(clients, entry)
      BY <2>5, <2>6, <2>7 DEF Known
    <2>11. "ended" \notin Saving /\ None \notin {"saved", "loaded", "absent", "killed"}
      BY StoreAssumption DEF Saving
    <2>12. entry \in Since(p)
      BY <1>1
    <2>13. Serving(m, None, Since(p), entry)
      BY <2>2, <2>5, <2>6, <2>11, <2>12 DEF Serving, Running
    <2>14. ASSUME NEW q \in Clients, q # p PROVE Serving(client[q], temporary[q], Since(q), entry)
      <3>1. Serving(client[q], temporary[q], stood[q], standing)
        BY DEF StoreInvariant
      <3>2. stood[q] \subseteq Since(q) /\ (Running(client[q]) => entry \in Since(q))
        OBVIOUS
      <3> HIDE DEF Since
      <3> QED
        BY <3>1, <3>2, ServingStays
    <2>15. \A q \in Clients : Serving(clients[q], temporaries[q], Since(q), entry)
      BY <2>7, <2>13, <2>14
    <2> QED
      BY <2>1, <2>2, <2>3, <2>8, <2>9, <2>10, <2>15, PlaceKeeps
  <1> QED
    BY <1>2, <1>3

LEMMA MeddleKeepsStore == ASSUME StoreInvariant, Meddle PROVE StoreInvariant'
  <1>1. PICK entry \in Foreign : Place(entry) /\ (temporary' = temporary \/ temporary' = [p \in Clients |-> None])
    BY DEF Meddle, Foreign
  <1>2. client' = client
    BY DEF Meddle
  <1> DEFINE temporaries == temporary'
             Since(q) == IF Running(client[q]) THEN stood[q] \cup {entry} ELSE stood[q]
  <1>3. /\ DOMAIN temporaries = Clients /\ temporaries = [q \in Clients |-> temporaries[q]]
        /\ \A q \in Clients : temporaries[q] \in {temporary[q], None}
    BY <1>1 DEF StoreInvariant
  <1>4. Known(client, entry) /\ \A q \in Clients : Goes(client[q], client[q])
    BY DEF Known, Goes
  <1>5. ASSUME NEW q \in Clients PROVE Serving(client[q], temporaries[q], Since(q), entry)
    <2>1. Serving(client[q], temporary[q], stood[q], standing)
      BY DEF StoreInvariant
    <2>2. stood[q] \subseteq Since(q) /\ (Running(client[q]) => entry \in Since(q))
      OBVIOUS
    <2> HIDE DEF Since
    <2> QED
      BY <1>3, <2>1, <2>2, ServingStays
  <1>6. DOMAIN client = Clients /\ client = [p \in Clients |-> client[p]]
    BY DEF StoreInvariant
  <1> QED
    BY <1>1, <1>2, <1>3, <1>4, <1>5, <1>6, PlaceKeeps

LEMMA StoreStarts == StoreInit => StoreInvariant
  <1> SUFFICES ASSUME StoreInit PROVE StoreInvariant
    OBVIOUS
  <1>1. Known(client, standing)
    BY DEF StoreInit, Known, Foreign
  <1>2. \A p \in Clients :
          client[p] = [state |-> "idle", input |-> Unusable, outcome |-> None, loaded |-> <<>>]
            /\ temporary[p] = None /\ stood[p] = {}
    BY DEF StoreInit
  <1>3. None \notin {"saved", "loaded", "absent"} /\ "idle" \notin Saving
    BY StoreAssumption DEF Saving
  <1>4. [state |-> "idle", input |-> Unusable, outcome |-> None, loaded |-> <<>>] \in ClientRecords
    BY DEF ClientRecords, Inputs
  <1>5. ASSUME NEW p \in Clients PROVE Serving(client[p], temporary[p], stood[p], standing)
    <2>1. client[p].state = "idle" /\ client[p].outcome = None /\ client[p] \in ClientRecords
      BY <1>2, <1>4
    <2>2. temporary[p] = None
      BY <1>2
    <2> QED
      BY <1>3, <2>1, <2>2 DEF Serving, Running
  <1> QED
    BY <1>1, <1>2, <1>5 DEF StoreInit, StoreInvariant

LEMMA StoreKept == StoreInvariant /\ [StoreNext]_store => StoreInvariant'
  <1> SUFFICES ASSUME StoreInvariant, [StoreNext]_store PROVE StoreInvariant'
    OBVIOUS
  <1>1. CASE UNCHANGED store
    BY <1>1 DEF store, StoreInvariant
  <1>2. CASE Meddle
    BY <1>2, MeddleKeepsStore
  <1>3. ASSUME NEW p \in Clients, StoreStep(p) PROVE StoreInvariant'
    BY <1>3, BeginKeeps, SaveKeeps, LoadKeepsStore, OpenKeeps, ReplaceKeepsStore DEF StoreStep
  <1> QED
    BY <1>1, <1>2, <1>3 DEF StoreNext

(***************************************************************************)
(* What follows from it.                                                   *)
(***************************************************************************)
LEMMA SavedIs ==
  ASSUME StoreInvariant, NEW e, Known(client, e), e # None, e.by = "save"
  PROVE  \E p \in Clients : /\ client[p].state # "idle" /\ client[p].input.channel = "document"
                            /\ Valid(client[p].input.concepts) /\ e = Output(client[p])
  <1>1. e \notin Foreign \cup {NotAFile("link")}
    BY DEF Foreign, NotAFile, Malformed, File
  <1> QED
    BY <1>1 DEF Known, Given

LEMMA OutputSays ==
  ASSUME NEW m, Valid(m.input.concepts)
  PROVE  /\ Output(m).kind = "document" /\ Output(m).by = "save" /\ Output(m) # NotAFile("link")
         /\ Output(m).concepts = Canonical(m.input.concepts)
         /\ Meaning(Output(m).concepts) = Meaning(m.input.concepts)
  <1>1. Output(m).concepts = Canonical(m.input.concepts)
    BY DEF Output, File
  <1>2. Meaning(Canonical(m.input.concepts)) = Meaning(m.input.concepts)
    BY CanonicalIs
  <1> QED
    BY <1>1, <1>2 DEF Output, File, NotAFile
\* What save puts in place is whole, and equal glossaries are equal files.
LEMMA SavedIsWhole == StoreInvariant => SavedWhole
  <1> SUFFICES ASSUME StoreInvariant, standing # None, standing.by = "save"
               PROVE  /\ standing.kind = "document"
                      /\ validate_glossary(standing.concepts)
                      /\ _canonicalize_scope_paths(standing.concepts, FALSE) = standing.concepts
                      /\ \E p \in Clients :
                           /\ client[p].state # "idle" /\ client[p].input.channel = "document"
                           /\ Meaning(client[p].input.concepts) = Meaning(standing.concepts)
                      /\ \A p \in Clients : \A e \in stood[p] :
                           e # None /\ e.by = "save" /\ Meaning(e.concepts) = Meaning(standing.concepts)
                             => e = standing
    BY DEF SavedWhole
  <1>1. Known(client, standing)
    BY DEF StoreInvariant
  <1>2. PICK p \in Clients : /\ client[p].state # "idle" /\ client[p].input.channel = "document"
                             /\ Valid(client[p].input.concepts) /\ standing = Output(client[p])
    BY <1>1, SavedIs
  <1> DEFINE d == client[p].input.concepts
  <1>3. /\ standing.kind = "document" /\ standing.concepts = Canonical(d)
        /\ Meaning(standing.concepts) = Meaning(d)
    BY <1>2, OutputSays
  <1>4. Valid(Canonical(d)) /\ _canonicalize_scope_paths(Canonical(d), FALSE) = Canonical(d)
    BY <1>2, CanonicalIs
  <1>5. ASSUME NEW q \in Clients, NEW e \in stood[q], e # None, e.by = "save",
               Meaning(e.concepts) = Meaning(standing.concepts)
        PROVE  e = standing
    <2>1. Known(client, e)
      BY DEF StoreInvariant
    <2>2. PICK r \in Clients : Valid(client[r].input.concepts) /\ e = Output(client[r])
      BY <1>5, <2>1, SavedIs
    <2>3. Meaning(e.concepts) = Meaning(client[r].input.concepts)
      BY <2>2, OutputSays
    <2>4. Canonical(client[r].input.concepts) = Canonical(d)
      BY <1>2, <1>3, <1>5, <2>2, <2>3, SavedAlike
    <2> QED
      BY <1>2, <2>2, <2>4 DEF Output
  <1> QED
    BY <1>2, <1>3, <1>4, <1>5 DEF Valid

LEMMA SavesAreAccounted == StoreInvariant => SavesAccounted
  <1> SUFFICES ASSUME StoreInvariant, NEW p \in Clients
               PROVE  /\ Outcome(p) = "saved" =>
                           \E e \in stood[p] :
                             e # None /\ e.by = "save" /\ Meaning(e.concepts) = Meaning(client[p].input.concepts)
                      /\ temporary[p] # None => Outcome(p) \in {None, "killed"}
    BY DEF SavesAccounted
  <1>1. Serving(client[p], temporary[p], stood[p], standing)
    BY DEF StoreInvariant
  <1>2. temporary[p] # None => Outcome(p) \in {None, "killed"}
    <2>1. client[p].state \in {"write", "replace"} => client[p].outcome = None
      BY <1>1 DEF Serving
    <2> QED
      BY <1>1, <2>1 DEF Serving, Outcome
  <1>3. ASSUME Outcome(p) = "saved"
        PROVE  \E e \in stood[p] :
                 e # None /\ e.by = "save" /\ Meaning(e.concepts) = Meaning(client[p].input.concepts)
    <2> DEFINE e == Output(client[p])
    <2>1. Valid(client[p].input.concepts) /\ e \in stood[p] /\ e # None
      BY <1>1, <1>3 DEF Serving, Given, Outcome
    <2>2. e.by = "save" /\ Meaning(e.concepts) = Meaning(client[p].input.concepts)
      BY <2>1, OutputSays
    <2> HIDE DEF e
    <2> QED
      BY <2>1, <2>2
  <1> QED
    BY <1>2, <1>3

LEMMA LoadsAreTrue == StoreInvariant => LoadsTrue
  <1> SUFFICES ASSUME StoreInvariant, NEW p \in Clients
               PROVE  /\ Outcome(p) = "loaded" =>
                           \E e \in stood[p] :
                             /\ e # None /\ e.kind = "document"
                             /\ Meaning(e.concepts) = Meaning(client[p].loaded)
                             /\ \A i \in DOMAIN client[p].loaded :
                                  /\ client[p].loaded[i].id = e.concepts[i].id
                                  /\ \A pre \in ToSet(client[p].loaded[i].prefixes) : pre.spelling = "NFC"
                      /\ Outcome(p) = "absent" =>
                           \E e \in stood[p] : e = None \/ (e # None /\ e.kind = "directory")
    BY DEF LoadsTrue
  <1>1. Serving(client[p], temporary[p], stood[p], standing)
    BY DEF StoreInvariant
  <1>2. Outcome(p) = "absent" => \E e \in stood[p] : e = None \/ (e # None /\ e.kind = "directory")
    BY <1>1 DEF Serving, Outcome
  <1>3. ASSUME Outcome(p) = "loaded"
        PROVE  \E e \in stood[p] :
                 /\ e # None /\ e.kind = "document"
                 /\ Meaning(e.concepts) = Meaning(client[p].loaded)
                 /\ \A i \in DOMAIN client[p].loaded :
                      /\ client[p].loaded[i].id = e.concepts[i].id
                      /\ \A pre \in ToSet(client[p].loaded[i].prefixes) : pre.spelling = "NFC"
    <2>1. PICK e \in stood[p] : /\ e # None /\ e.kind = "document" /\ Valid(e.concepts)
                                /\ client[p].loaded = _canonicalize_scope_paths(e.concepts, FALSE)
      BY <1>1, <1>3 DEF Serving, Outcome
    <2> DEFINE m == _canonicalize_scope_paths(e.concepts, FALSE)
    <2>2. /\ Meaning(m) = Meaning(e.concepts) /\ DOMAIN m = DOMAIN e.concepts
          /\ \A i \in DOMAIN e.concepts : m[i].id = e.concepts[i].id
          /\ \A i \in DOMAIN m : \A pre \in ToSet(m[i].prefixes) : pre.spelling = "NFC"
      BY <2>1, LoadedIs
    <2>3. client[p].loaded = m
      BY <2>1
    <2> HIDE DEF m
    <2> QED
      BY <2>1, <2>2, <2>3
  <1> QED
    BY <1>2, <1>3

\* With any number of saves, loads and other programs at once and kills between
\* any two of their calls, a reader never meets half a glossary, what is loaded
\* stood at the path, a save says truly what became of it, and what it wrote
\* depends on nothing but the meaning of the glossary.
THEOREM WholeGlossaries == StoreSpec => []StoreTrue
  <1>1. StoreInvariant => StoreTrue
    BY SavedIsWhole, SavesAreAccounted, LoadsAreTrue DEF StoreTrue
  <1> QED
    BY <1>1, StoreStarts, StoreKept, PTL DEF StoreSpec
=============================================================================
