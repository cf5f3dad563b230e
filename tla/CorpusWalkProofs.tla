--------------------------- MODULE CorpusWalkProofs ---------------------------
(***************************************************************************)
(* Proofs about a scan's inventory, for every tree of directories and      *)
(* files, every content and change of it, and every value of the ceilings. *)
(***************************************************************************)
EXTENDS CorpusWalk, FiniteSetTheorems, NaturalsInduction, WellFoundedInduction, TLAPS

Budgets ==
  [walk_entries: Nat, source_files: Nat, source_bytes: Nat, skipped_files: Nat,
   skipped_bytes: Nat, skipped_production: Nat, truncated: BOOLEAN, omitted: Nat,
   admitted: [Files -> Nat \cup {None}]]

RepositoryOK ==
  /\ kind \in [Paths -> DirKinds \cup FileKinds]
  /\ disk \in [Files -> Disk]
  /\ out \in BOOLEAN

WalkOK ==
  /\ pc \in {"list", "dirs", "files", "read", "done"}
  /\ pending \subseteq Dirs /\ here \in Dirs
  /\ dirs \subseteq Dirs \ {Root} /\ files \subseteq Files /\ kept \subseteq Dirs
  /\ skipped \in [Lists -> SUBSET Paths]
  /\ inventory \subseteq Files /\ skips \subseteq Files
  /\ unread \subseteq Files /\ read \subseteq Files

TypeOK == RepositoryOK /\ WalkOK /\ budget \in Budgets

(***************************************************************************)
(* The invariant.                                                          *)
(***************************************************************************)
\* The directories a walk has still to list or classify.
Ahead == pending \cup dirs \cup kept

\* The paths it may still meet.
ToCome(p) == p \in dirs \cup files \/ \E d \in Ahead : d \in Above[p]

\* No directory ahead is beneath another or above the one being classified, so
\* that no path is met twice.
Apart ==
  /\ pending \cap (dirs \cup kept) = {} /\ dirs \cap kept = {}
  /\ \A d, e \in Ahead : d \notin Above[e]
  /\ pc \in {"dirs", "files"} =>
       /\ dirs \subseteq Subdirs[here] /\ files \subseteq Contained[here]
       /\ \A d \in Ahead : d # here /\ d \notin Above[here]
  /\ pc = "list" => dirs = {} /\ files = {} /\ kept = {}
  /\ pc = "files" => dirs = {}
  /\ pc \in {"read", "done"} /\ ~budget.truncated =>
       pending = {} /\ dirs = {} /\ files = {} /\ kept = {}
  /\ pc = "done" => unread = {}

\* What was met is not to come again, and was put in one place.
MetOnce ==
  /\ \A p \in inventory \cup skips : ~ToCome(p)
  /\ \A l \in Lists : \A p \in skipped[l] :
       /\ ~ToCome(p) /\ p \notin inventory
       /\ \A m \in Lists : p \in skipped[m] => l = m

\* A path of interest that the walk is bound to meet, and has a place to go.
Interesting(p) ==
  /\ Met(p) /\ p # OutDir /\ kind[p] \notin {"hidden", "other"}
  /\ p \in Files => disk[p].state # "missing"
  /\ p \in Dirs => kind[p] # "plain"

Accounted(p) ==
  budget.truncated \/ ToCome(p) \/ p \in unread \cup read \cup skips

SourceAccounted ==
  \A f \in Files :
    Met(f) /\ kind[f] = "plain" /\ disk[f].state = "text" => Accounted(f)

PathsAccounted ==
  \A p \in Paths :
    Interesting(p) => Accounted(p) \/ \E l \in Lists : p \in skipped[l]

IInv ==
  /\ TypeOK /\ LedgerTrue /\ IsFiniteSet(AdmittedBytes)
  /\ Apart /\ MetOnce /\ SourceAccounted /\ PathsAccounted
(***************************************************************************)
(* The ledger, as the operations of the budget leave it.                   *)
(***************************************************************************)
AdmittedIn(b) == {f \in Files : b.admitted[f] # None}
BytesIn(b) == UNION {{f} \X (1 .. b.admitted[f]) : f \in AdmittedIn(b)}

Balanced(b, rd, un, inv, sk) ==
  /\ AdmittedIn(b) = rd \cup un /\ rd \cap un = {}
  /\ AdmittedIn(b) \subseteq inv
  /\ inv \ AdmittedIn(b) \subseteq sk /\ sk \cap AdmittedIn(b) = {}
  /\ b.source_files = Cardinality(AdmittedIn(b))
  /\ b.source_bytes = Cardinality(BytesIn(b))
  /\ b.skipped_files = Cardinality(sk)
  /\ b.skipped_production = Cardinality(sk \cap Production)
  /\ b.walk_entries <= MaxWalkEntries
  /\ b.source_files <= MaxSourceFiles
  /\ b.source_bytes <= MaxSourceBytes
  /\ \A f \in AdmittedIn(b) : b.admitted[f] <= MaxFileBytes
  /\ IsFiniteSet(BytesIn(b))

LEMMA LedgerIsBalance ==
  LedgerTrue /\ IsFiniteSet(AdmittedBytes) <=> Balanced(budget, read, unread, inventory, skips)
  BY DEF LedgerTrue, AdmittedBytes, Admitted, Balanced, AdmittedIn, BytesIn

LEMMA Limits ==
  /\ MaxFileBytes \in Nat /\ MaxSourceFiles \in Nat /\ MaxSourceBytes \in Nat
  /\ MaxWalkEntries \in Nat /\ MaxDirectoryEntries \in Nat /\ None \notin Nat
  BY WalkAssumption DEF WalkAssumption

LEMMA FinitelyMany ==
  /\ IsFiniteSet(Files)
  /\ \A S \in SUBSET Files : IsFiniteSet(S) /\ Cardinality(S) \in Nat
  /\ \A S \in SUBSET Dirs : IsFiniteSet(S) /\ Cardinality(S) \in Nat
  <1>1. IsFiniteSet(Dirs \cup Files)
    BY WalkAssumption DEF WalkAssumption
  <1>2. ASSUME NEW S \in SUBSET (Dirs \cup Files) PROVE IsFiniteSet(S) /\ Cardinality(S) \in Nat
    BY <1>1, FS_Subset, FS_CardinalityType
  <1> QED
    BY <1>2

\* The bytes of a file that is admitted join those of the others.
LEMMA BytesJoin ==
  ASSUME NEW b, NEW c, NEW f \in Files, NEW n \in Nat,
         b.admitted \in [Files -> Nat \cup {None}], b.admitted[f] = None,
         c.admitted = [b.admitted EXCEPT ![f] = n], IsFiniteSet(BytesIn(b))
  PROVE  /\ AdmittedIn(c) = AdmittedIn(b) \cup {f}
         /\ IsFiniteSet(BytesIn(c))
         /\ Cardinality(BytesIn(c)) = Cardinality(BytesIn(b)) + n
  <1> DEFINE own == {f} \X (1 .. n)
  <1>1. AdmittedIn(c) = AdmittedIn(b) \cup {f} /\ f \notin AdmittedIn(b)
    BY Limits DEF AdmittedIn
  <1>2. BytesIn(c) = BytesIn(b) \cup own
    <2>1. \A g \in AdmittedIn(b) : c.admitted[g] = b.admitted[g]
      BY <1>1 DEF AdmittedIn
    <2>2. c.admitted[f] = n
      OBVIOUS
    <2>3. \A x : x \in BytesIn(c) <=> \E g \in AdmittedIn(b) \cup {f} : x \in {g} \X (1 .. c.admitted[g])
      BY <1>1 DEF BytesIn
    <2>4. \A x : x \in BytesIn(b) <=> \E g \in AdmittedIn(b) : x \in {g} \X (1 .. b.admitted[g])
      BY DEF BytesIn
    <2>5. \A x : x \in BytesIn(c) <=> x \in BytesIn(b) \/ x \in own
      BY <2>1, <2>2, <2>3, <2>4
    <2> QED
      BY <2>5
  <1>3. BytesIn(b) \cap own = {}
    <2> SUFFICES ASSUME NEW x \in BytesIn(b), x \in own PROVE FALSE
      OBVIOUS
    <2>1. PICK g \in AdmittedIn(b) : x \in {g} \X (1 .. b.admitted[g])
      BY DEF BytesIn
    <2>2. x[1] = g /\ x[1] = f
      BY <2>1
    <2> QED
      BY <1>1, <2>2
  <1>4. IsFiniteSet(own) /\ Cardinality(own) = n
    <2>1. IsFiniteSet(1 .. n) /\ Cardinality(1 .. n) = n
      BY FS_Interval
    <2>2. IsFiniteSet({f}) /\ Cardinality({f}) = 1
      BY FS_Singleton
    <2>3. /\ IsFiniteSet({f} \X (1 .. n))
          /\ Cardinality({f} \X (1 .. n)) = Cardinality({f}) * Cardinality(1 .. n)
      BY <2>1, <2>2, FS_Product, Zenon
    <2>4. Cardinality({f}) * Cardinality(1 .. n) = n
      BY <2>1, <2>2
    <2> QED
      BY <2>3, <2>4
  <1> HIDE DEF own
  <1>5. /\ IsFiniteSet(BytesIn(b) \cup own)
        /\ Cardinality(BytesIn(b) \cup own)
             = Cardinality(BytesIn(b)) + Cardinality(own) - Cardinality(BytesIn(b) \cap own)
    BY <1>4, FS_Union
  <1>6. Cardinality(BytesIn(b) \cap own) = 0 /\ Cardinality(BytesIn(b)) \in Nat
    BY <1>3, FS_EmptySet, FS_CardinalityType
  <1> QED
    BY <1>1, <1>2, <1>4, <1>5, <1>6

LEMMA BalanceStarts ==
  NoBudget \in Budgets /\ Balanced(NoBudget, {}, {}, {}, {})
  <1>1. NoBudget \in Budgets
    BY DEF NoBudget, Budgets
  <1>2. AdmittedIn(NoBudget) = {}
    BY DEF AdmittedIn, NoBudget
  <1>3. BytesIn(NoBudget) = {}
    BY <1>2 DEF BytesIn
  <1>4. Cardinality({}) = 0 /\ IsFiniteSet({}) /\ {} \cap Production = {}
    BY FS_EmptySet
  <1>5. /\ NoBudget.source_files = 0 /\ NoBudget.source_bytes = 0
        /\ NoBudget.skipped_files = 0 /\ NoBudget.skipped_production = 0
        /\ NoBudget.walk_entries = 0
    BY DEF NoBudget
  <1> QED
    BY <1>1, <1>2, <1>3, <1>4, <1>5, Limits DEF Balanced

\* Charging an entry and truncating the walk leave the ledger as it is.
LEMMA BalanceCharged ==
  ASSUME NEW b \in Budgets, NEW rd, NEW un, NEW inv, NEW sk, Balanced(b, rd, un, inv, sk),
         ~walk_entries_exhausted(b)
  PROVE  Charged(b) \in Budgets /\ Balanced(Charged(b), rd, un, inv, sk)
  <1>1. Charged(b) \in Budgets
    BY DEF Charged, Budgets
  <1>2. /\ Charged(b).walk_entries = b.walk_entries + 1
        /\ Charged(b).source_files = b.source_files /\ Charged(b).source_bytes = b.source_bytes
        /\ Charged(b).skipped_files = b.skipped_files
        /\ Charged(b).skipped_production = b.skipped_production
        /\ Charged(b).admitted = b.admitted
    BY DEF Charged, Budgets
  <1>3. b.walk_entries + 1 <= MaxWalkEntries
    BY Limits DEF walk_entries_exhausted, Budgets
  <1> QED
    BY <1>1, <1>2, <1>3 DEF Balanced, AdmittedIn, BytesIn

LEMMA BalanceTruncated ==
  ASSUME NEW b \in Budgets, NEW rd, NEW un, NEW inv, NEW sk, Balanced(b, rd, un, inv, sk),
         NEW n \in Nat
  PROVE  /\ truncate_walk(b, n) \in Budgets /\ Balanced(truncate_walk(b, n), rd, un, inv, sk)
         /\ truncate_walk(b, n).truncated
  <1> DEFINE t == truncate_walk(b, n)
  <1>1. t \in Budgets
    <2> DEFINE u == [b EXCEPT !.truncated = TRUE]
    <2>1. u \in Budgets /\ u.omitted = b.omitted /\ b.omitted \in Nat
      BY DEF Budgets
    <2>2. \A m \in Nat : [u EXCEPT !.omitted = m] \in Budgets
      BY <2>1 DEF Budgets
    <2>3. t = [u EXCEPT !.omitted = b.omitted + n]
      BY <2>1 DEF truncate_walk
    <2> HIDE DEF u
    <2> QED
      BY <2>1, <2>2, <2>3
  <1>2. /\ t.walk_entries = b.walk_entries /\ t.truncated
        /\ t.source_files = b.source_files /\ t.source_bytes = b.source_bytes
        /\ t.skipped_files = b.skipped_files
        /\ t.skipped_production = b.skipped_production /\ t.admitted = b.admitted
    BY DEF truncate_walk, Budgets
  <1> QED
    BY <1>1, <1>2 DEF Balanced, AdmittedIn, BytesIn
LEMMA BudgetFields ==
  ASSUME NEW b \in Budgets
  PROVE  /\ \A n \in Nat : [b EXCEPT !.source_files = n] \in Budgets
         /\ \A n \in Nat : [b EXCEPT !.source_bytes = n] \in Budgets
         /\ \A n \in Nat : [b EXCEPT !.skipped_files = n] \in Budgets
         /\ \A n \in Nat : [b EXCEPT !.skipped_bytes = n] \in Budgets
         /\ \A n \in Nat : [b EXCEPT !.skipped_production = n] \in Budgets
         /\ \A f \in Files : \A n \in Nat \cup {None} : [b EXCEPT !.admitted[f] = n] \in Budgets
  <1>1. \A n \in Nat : [b EXCEPT !.source_files = n] \in Budgets
    BY DEF Budgets
  <1>2. \A n \in Nat : [b EXCEPT !.source_bytes = n] \in Budgets
    BY DEF Budgets
  <1>3. \A n \in Nat : [b EXCEPT !.skipped_files = n] \in Budgets
    BY DEF Budgets
  <1>4. \A n \in Nat : [b EXCEPT !.skipped_bytes = n] \in Budgets
    BY DEF Budgets
  <1>5. \A n \in Nat : [b EXCEPT !.skipped_production = n] \in Budgets
    BY DEF Budgets
  <1>6. ASSUME NEW f \in Files, NEW n \in Nat \cup {None}
        PROVE  [b EXCEPT !.admitted[f] = n] \in Budgets
    <2>1. [b.admitted EXCEPT ![f] = n] \in [Files -> Nat \cup {None}]
      BY DEF Budgets
    <2> QED
      BY <2>1 DEF Budgets
  <1> QED
    BY <1>1, <1>2, <1>3, <1>4, <1>5, <1>6

LEMMA Skipping ==
  ASSUME NEW b \in Budgets, NEW f \in Files, NEW n \in Nat
  PROVE  /\ skip_source(b, f, n) \in Budgets
         /\ skip_source(b, f, n).walk_entries = b.walk_entries
         /\ skip_source(b, f, n).truncated = b.truncated
         /\ skip_source(b, f, n).source_files = b.source_files
         /\ skip_source(b, f, n).source_bytes = b.source_bytes
         /\ skip_source(b, f, n).admitted = b.admitted
         /\ skip_source(b, f, n).skipped_files = b.skipped_files + 1
         /\ skip_source(b, f, n).skipped_production
              = IF f \in Production THEN b.skipped_production + 1 ELSE b.skipped_production
  <1> DEFINE u == [b EXCEPT !.skipped_files = b.skipped_files + 1]
             v == [u EXCEPT !.skipped_bytes = b.skipped_bytes + n]
             p == IF f \in Production THEN b.skipped_production + 1 ELSE b.skipped_production
  <1>1. b.skipped_files + 1 \in Nat /\ b.skipped_bytes + n \in Nat /\ p \in Nat
    BY DEF Budgets
  <1>2. u \in Budgets
    BY <1>1, BudgetFields
  <1>3. v \in Budgets
    <2> HIDE DEF u
    <2> QED
      BY <1>1, <1>2, BudgetFields
  <1>4. skip_source(b, f, n) = [v EXCEPT !.skipped_production = p]
    BY DEF skip_source, Budgets
  <1>5. skip_source(b, f, n) \in Budgets
    <2> HIDE DEF v, p
    <2> QED
      BY <1>1, <1>3, <1>4, BudgetFields
  <1> QED
    BY <1>5 DEF skip_source, Budgets

LEMMA BalanceSkipped ==
  ASSUME NEW b \in Budgets, NEW rd, NEW un, NEW inv, NEW sk \in SUBSET Files,
         Balanced(b, rd, un, inv, sk),
         NEW f \in Files, f \notin sk, f \notin AdmittedIn(b), NEW n \in Nat
  PROVE  Balanced(skip_source(b, f, n), rd, un, inv, sk \cup {f})
  <1> DEFINE s == skip_source(b, f, n)
  <1>2. Cardinality(sk \cup {f}) = Cardinality(sk) + 1
    BY FinitelyMany, FS_AddElement
  <1>3. Cardinality((sk \cup {f}) \cap Production)
          = IF f \in Production THEN Cardinality(sk \cap Production) + 1
                                ELSE Cardinality(sk \cap Production)
    <2>1. IsFiniteSet(sk \cap Production) /\ f \notin sk \cap Production
      BY FinitelyMany
    <2>2. CASE f \in Production
      <3>1. (sk \cup {f}) \cap Production = (sk \cap Production) \cup {f}
        BY <2>2
      <3> QED
        BY <2>1, <2>2, <3>1, FS_AddElement
    <2>3. CASE f \notin Production
      <3>1. (sk \cup {f}) \cap Production = sk \cap Production
        BY <2>3
      <3> QED
        BY <2>3, <3>1
    <2> QED
      BY <2>2, <2>3
  <1>4. /\ s.walk_entries = b.walk_entries /\ s.source_files = b.source_files
        /\ s.source_bytes = b.source_bytes /\ s.admitted = b.admitted
        /\ s.skipped_files = b.skipped_files + 1
        /\ s.skipped_production
             = IF f \in Production THEN b.skipped_production + 1 ELSE b.skipped_production
    BY Skipping
  <1> HIDE DEF s
  <1>1. AdmittedIn(s) = AdmittedIn(b)
    BY <1>4 DEF AdmittedIn
  <1>5. BytesIn(s) = BytesIn(b)
    BY <1>1, <1>4 DEF BytesIn
  <1>6. s.skipped_files = Cardinality(sk \cup {f})
    BY <1>2, <1>4 DEF Balanced
  <1>7. s.skipped_production = Cardinality((sk \cup {f}) \cap Production)
    BY <1>3, <1>4 DEF Balanced
  <1>8. Balanced(s, rd, un, inv, sk \cup {f})
    BY <1>1, <1>4, <1>5, <1>6, <1>7 DEF Balanced
  <1> QED
    BY <1>8 DEF s

LEMMA Including ==
  ASSUME NEW b \in Budgets, NEW f \in Files, NEW n \in Nat
  PROVE  /\ include_source(b, f, n) \in Budgets
         /\ include_source(b, f, n).walk_entries = b.walk_entries
         /\ include_source(b, f, n).truncated = b.truncated
         /\ include_source(b, f, n).source_files = b.source_files + 1
         /\ include_source(b, f, n).source_bytes = b.source_bytes + n
         /\ include_source(b, f, n).skipped_files = b.skipped_files
         /\ include_source(b, f, n).skipped_production = b.skipped_production
         /\ include_source(b, f, n).admitted = [b.admitted EXCEPT ![f] = n]
  <1> DEFINE u == [b EXCEPT !.source_files = b.source_files + 1]
             v == [u EXCEPT !.source_bytes = b.source_bytes + n]
  <1>1. b.source_files + 1 \in Nat /\ b.source_bytes + n \in Nat
    BY DEF Budgets
  <1>2. u \in Budgets
    BY <1>1, BudgetFields
  <1>3. v \in Budgets
    <2> HIDE DEF u
    <2> QED
      BY <1>1, <1>2, BudgetFields
  <1>4. include_source(b, f, n) = [v EXCEPT !.admitted[f] = n]
    BY DEF include_source, Budgets
  <1>5. include_source(b, f, n) \in Budgets
    <2> HIDE DEF v
    <2> QED
      BY <1>3, <1>4, BudgetFields
  <1> QED
    BY <1>5 DEF include_source, Budgets

\* The room the budget asks for before it admits n bytes.
Fits(b, n) ==
  n <= MaxFileBytes /\ b.source_files < MaxSourceFiles /\ b.source_bytes + n <= MaxSourceBytes

LEMMA BalanceAdmitted ==
  ASSUME NEW b \in Budgets, NEW rd, NEW un, NEW inv, NEW sk, Balanced(b, rd, un, inv, sk),
         NEW f \in Files, f \notin inv, f \notin sk, NEW n \in Nat, Fits(b, n)
  PROVE  Balanced(include_source(b, f, n), rd, un \cup {f}, inv \cup {f}, sk)
  <1> DEFINE s == include_source(b, f, n)
  <1>1. /\ n <= MaxFileBytes /\ b.source_files + 1 <= MaxSourceFiles
        /\ b.source_bytes + n <= MaxSourceBytes
        /\ b.admitted \in [Files -> Nat \cup {None}]
    BY Limits DEF Fits, Budgets
  <1>2. /\ s.walk_entries = b.walk_entries
        /\ s.source_files = b.source_files + 1 /\ s.source_bytes = b.source_bytes + n
        /\ s.skipped_files = b.skipped_files /\ s.skipped_production = b.skipped_production
        /\ s.admitted = [b.admitted EXCEPT ![f] = n]
    BY Including
  <1>3. b.admitted[f] = None /\ f \notin AdmittedIn(b) /\ IsFiniteSet(BytesIn(b))
    BY DEF Balanced, AdmittedIn
  <1> HIDE DEF s
  <1>4. /\ AdmittedIn(s) = AdmittedIn(b) \cup {f} /\ IsFiniteSet(BytesIn(s))
        /\ Cardinality(BytesIn(s)) = Cardinality(BytesIn(b)) + n
    BY <1>1, <1>2, <1>3, BytesJoin
  <1>5. Cardinality(AdmittedIn(b) \cup {f}) = Cardinality(AdmittedIn(b)) + 1
    <2>1. IsFiniteSet(AdmittedIn(b))
      BY FinitelyMany DEF AdmittedIn
    <2> QED
      BY <1>3, <2>1, FS_AddElement
  <1>6. \A g \in AdmittedIn(s) : s.admitted[g] <= MaxFileBytes
    <2> SUFFICES ASSUME NEW g \in AdmittedIn(s) PROVE s.admitted[g] <= MaxFileBytes
      OBVIOUS
    <2>1. CASE g = f
      BY <1>1, <1>2, <2>1
    <2>2. CASE g # f
      <3>1. g \in AdmittedIn(b) /\ s.admitted[g] = b.admitted[g]
        BY <1>1, <1>2, <1>4, <2>2 DEF AdmittedIn
      <3> QED
        BY <3>1 DEF Balanced
    <2> QED
      BY <2>1, <2>2
  <1>7. Balanced(s, rd, un \cup {f}, inv \cup {f}, sk)
    BY <1>1, <1>2, <1>3, <1>4, <1>5, <1>6 DEF Balanced
  <1> QED
    BY <1>7 DEF s

LEMMA BalanceRead ==
  ASSUME NEW b, NEW rd, NEW un, NEW inv, NEW sk, Balanced(b, rd, un, inv, sk), NEW f \in un
  PROVE  Balanced(b, rd \cup {f}, un \ {f}, inv, sk)
  BY DEF Balanced

\* A file that could not be read takes from the used side just what it brought.
LEMMA BalanceUnread ==
  ASSUME NEW b \in Budgets, NEW rd, NEW un, NEW inv, NEW sk \in SUBSET Files,
         Balanced(b, rd, un, inv, sk), NEW f \in un
  PROVE  /\ reclassify_unread(b, f) \in Budgets
         /\ reclassify_unread(b, f).truncated = b.truncated
         /\ Balanced(reclassify_unread(b, f), rd, un \ {f}, inv, sk \cup {f})
  <1> DEFINE n == b.admitted[f]
             u == [b EXCEPT !.source_files = b.source_files - 1]
             v == [u EXCEPT !.source_bytes = b.source_bytes - n]
             s == [v EXCEPT !.admitted[f] = None]
  <1>1. f \in AdmittedIn(b) /\ f \notin sk /\ f \notin rd
    BY DEF Balanced
  <1>2. f \in Files /\ n \in Nat /\ b.admitted \in [Files -> Nat \cup {None}]
    BY <1>1 DEF AdmittedIn, Budgets
  <1>3. s.admitted = [b.admitted EXCEPT ![f] = None]
    BY DEF Budgets
  <1>4. /\ s.walk_entries = b.walk_entries /\ s.truncated = b.truncated
        /\ s.source_files = b.source_files - 1 /\ s.source_bytes = b.source_bytes - n
        /\ s.skipped_files = b.skipped_files /\ s.skipped_production = b.skipped_production
    BY DEF Budgets
  <1>5. reclassify_unread(b, f) = skip_source(s, f, n)
    BY DEF reclassify_unread, Budgets
  <1>6. \A x \in BytesIn(s) : x \in BytesIn(b)
    <2> SUFFICES ASSUME NEW x \in BytesIn(s) PROVE x \in BytesIn(b)
      OBVIOUS
    <2> HIDE DEF s
    <2>1. PICK g \in AdmittedIn(s) : x \in {g} \X (1 .. s.admitted[g])
      BY DEF BytesIn
    <2>2. g \in AdmittedIn(b) /\ s.admitted[g] = b.admitted[g]
      BY <1>2, <1>3, <2>1 DEF AdmittedIn
    <2> QED
      BY <2>1, <2>2 DEF BytesIn
  <1> HIDE DEF s
  <1>7. IsFiniteSet(BytesIn(s)) /\ Cardinality(BytesIn(s)) \in Nat
    BY <1>6, FS_Subset, FS_CardinalityType DEF Balanced
  <1>8. /\ AdmittedIn(b) = AdmittedIn(s) \cup {f} /\ f \notin AdmittedIn(s)
        /\ Cardinality(BytesIn(b)) = Cardinality(BytesIn(s)) + n
    <2>1. /\ s.admitted \in [Files -> Nat \cup {None}] /\ s.admitted[f] = None
          /\ b.admitted = [s.admitted EXCEPT ![f] = n]
      BY <1>2, <1>3
    <2>2. f \notin AdmittedIn(s)
      BY <2>1 DEF AdmittedIn
    <2> HIDE DEF n
    <2> QED
      BY <1>2, <1>7, <2>1, <2>2, BytesJoin
  <1>9. Cardinality(AdmittedIn(b)) = Cardinality(AdmittedIn(s)) + 1
        /\ Cardinality(AdmittedIn(s)) \in Nat
    <2>1. IsFiniteSet(AdmittedIn(s)) /\ Cardinality(AdmittedIn(s)) \in Nat
      BY FinitelyMany DEF AdmittedIn
    <2> QED
      BY <1>8, <2>1, FS_AddElement
  <1>10. s \in Budgets
    <2>1. b.source_files - 1 \in Nat /\ b.source_bytes - n \in Nat
      BY <1>7, <1>8, <1>9, <1>2 DEF Balanced
    <2>2. u \in Budgets
      BY <2>1, BudgetFields
    <2>3. v \in Budgets
      <3> HIDE DEF u
      <3> QED
        BY <2>1, <2>2, BudgetFields
    <2> HIDE DEF v
    <2> QED
      BY <1>2, <2>3, BudgetFields DEF s
  <1>11. Balanced(s, rd, un \ {f}, inv \ {f}, sk)
    <2>1. \A g \in AdmittedIn(s) : s.admitted[g] <= MaxFileBytes
      <3> SUFFICES ASSUME NEW g \in AdmittedIn(s) PROVE s.admitted[g] <= MaxFileBytes
        OBVIOUS
      <3>1. g \in AdmittedIn(b) /\ s.admitted[g] = b.admitted[g]
        BY <1>2, <1>3, <1>8 DEF AdmittedIn
      <3> QED
        BY <3>1 DEF Balanced
    <2>2. /\ AdmittedIn(s) = rd \cup (un \ {f}) /\ rd \cap (un \ {f}) = {}
          /\ AdmittedIn(s) \subseteq inv \ {f}
          /\ (inv \ {f}) \ AdmittedIn(s) \subseteq sk /\ sk \cap AdmittedIn(s) = {}
      BY <1>1, <1>8 DEF Balanced
    <2>3. s.source_files <= MaxSourceFiles /\ s.source_bytes <= MaxSourceBytes
      BY <1>2, <1>4, Limits DEF Balanced, Budgets
    <2>4. s.source_files = Cardinality(AdmittedIn(s)) /\ s.source_bytes = Cardinality(BytesIn(s))
      BY <1>2, <1>4, <1>7, <1>8, <1>9 DEF Balanced
    <2> HIDE DEF n
    <2> QED
      BY <1>4, <1>7, <2>1, <2>2, <2>3, <2>4 DEF Balanced
  <1>12. Balanced(skip_source(s, f, n), rd, un \ {f}, inv \ {f}, sk \cup {f})
    BY <1>1, <1>2, <1>8, <1>10, <1>11, BalanceSkipped
  <1>13. Balanced(skip_source(s, f, n), rd, un \ {f}, inv, sk \cup {f})
    <2>1. AdmittedIn(skip_source(s, f, n)) \subseteq inv
      BY <1>12 DEF Balanced
    <2> QED
      BY <1>12, <2>1 DEF Balanced
  <1>14. skip_source(s, f, n) \in Budgets /\ skip_source(s, f, n).truncated = b.truncated
    BY <1>2, <1>4, <1>10, Skipping
  <1> QED
    BY <1>5, <1>13, <1>14
(***************************************************************************)
(* The tree, and what steps leave of the account of paths.                 *)
(***************************************************************************)
LEMMA Tree ==
  /\ Root \in Dirs /\ OutDir \in Dirs /\ Dirs \cap Files = {}
  /\ \A d \in Dirs :
       /\ Subdirs[d] \subseteq Dirs \ {Root} /\ Contained[d] \subseteq Files
       /\ d \notin Above[d]
       /\ \A p \in Subdirs[d] \cup Contained[d] : Above[p] = Above[d] \cup {d}
  /\ \A p \in Paths :
       /\ Root \in Above[p]
       /\ \A d \in Above[p] :
            /\ d \in Dirs /\ Above[d] \subseteq Above[p]
            /\ p \in Subdirs[d] \cup Contained[d] \/ \E s \in Subdirs[d] : s \in Above[p]
  BY WalkAssumption, TreeAssumption DEF WalkAssumption, TreeAssumption, Paths

LEMMA Assembled ==
  ASSUME TypeOK', Balanced(budget', read', unread', inventory', skips'),
         Apart', MetOnce', SourceAccounted', PathsAccounted'
  PROVE  IInv'
  <1>1. LedgerTrue' /\ IsFiniteSet(AdmittedBytes)'
    BY DEF LedgerTrue, AdmittedBytes, Admitted, Balanced, AdmittedIn, BytesIn
  <1> QED
    BY <1>1 DEF IInv

LEMMA Parts ==
  ASSUME IInv
  PROVE  /\ TypeOK /\ RepositoryOK /\ WalkOK /\ budget \in Budgets
         /\ Balanced(budget, read, unread, inventory, skips)
         /\ Apart /\ MetOnce /\ SourceAccounted /\ PathsAccounted
  BY LedgerIsBalance DEF IInv, TypeOK

\* Nothing is lost from the account if what was to come still is, or went
\* somewhere.
LEMMA AccountKept ==
  ASSUME IInv, UNCHANGED <<kind, disk, touched>>,
         budget.truncated => budget'.truncated,
         unread \cup read \cup skips \subseteq unread' \cup read' \cup skips',
         \A l \in Lists : skipped[l] \subseteq skipped'[l],
         \A f \in Files : Met(f) /\ kind[f] = "plain" /\ disk[f].state = "text" /\ ToCome(f)
                            => Accounted(f)',
         \A p \in Paths : Interesting(p) /\ ToCome(p)
                            => Accounted(p)' \/ \E l \in Lists : p \in skipped'[l]
  PROVE  SourceAccounted' /\ PathsAccounted'
  <1>1. SourceAccounted /\ PathsAccounted
    BY Parts
  <1>2. \A p : Met(p)' = Met(p)
    BY DEF Met
  <1>3. \A p : Interesting(p)' = Interesting(p)
    BY <1>2 DEF Interesting
  <1>4. \A p : Accounted(p) => ToCome(p) \/ Accounted(p)'
    BY DEF Accounted
  <1>5. SourceAccounted'
    <2> SUFFICES ASSUME NEW f \in Files, Met(f), kind[f] = "plain", disk[f].state = "text"
                 PROVE  Accounted(f)'
      BY <1>2 DEF SourceAccounted
    <2>1. Accounted(f)
      BY <1>1 DEF SourceAccounted
    <2> QED
      BY <1>4, <2>1
  <1>6. PathsAccounted'
    <2> SUFFICES ASSUME NEW p \in Paths, Interesting(p)
                 PROVE  Accounted(p)' \/ \E l \in Lists : p \in skipped'[l]
      BY <1>3 DEF PathsAccounted
    <2>1. Accounted(p) \/ \E l \in Lists : p \in skipped[l]
      BY <1>1 DEF PathsAccounted
    <2> QED
      BY <1>4, <2>1
  <1> QED
    BY <1>5, <1>6

\* Nothing that was met comes to be ahead again if nothing new is ahead.
LEMMA MetStays ==
  ASSUME IInv, UNCHANGED result, UNCHANGED skips, \A p \in Paths : ToCome(p)' => ToCome(p)
  PROVE  MetOnce'
  <1>1. MetOnce /\ inventory \cup skips \subseteq Paths /\ \A l \in Lists : skipped[l] \subseteq Paths
    BY Parts DEF WalkOK, Paths
  <1>2. UNCHANGED <<inventory, skipped, skips>>
    BY DEF result
  <1> QED
    BY <1>1, <1>2 DEF MetOnce

(***************************************************************************)
(* The steps of a walk.                                                    *)
(***************************************************************************)
LEMMA ListDirectoryKeeps == ASSUME IInv, ListDirectory PROVE IInv'
  <1>1. /\ WalkOK /\ RepositoryOK /\ budget \in Budgets /\ Apart
        /\ Balanced(budget, read, unread, inventory, skips)
    BY Parts
  <1>2. /\ pc = "list" /\ dirs = {} /\ files = {} /\ kept = {} /\ Ahead = pending
    BY <1>1 DEF ListDirectory, Apart, Ahead
  <1>3. UNCHANGED <<kind, disk, unlistable, out, skipped, inventory, skips, unread, read,
                    last, touched, changes>>
    BY DEF ListDirectory, repository, result, extraction, others
  <1>4. PICK d \in pending :
          /\ pending' = pending \ {d}
          /\ IF d \in unlistable \/ Overfull(d)
               THEN /\ budget' = truncate_walk(budget,
                         IF d \in unlistable THEN 0 ELSE MaxDirectoryEntries + 1)
                    /\ UNCHANGED <<pc, here, dirs, files, kept>>
               ELSE /\ here' = d /\ dirs' = PresentDirs(d) /\ files' = PresentFiles(d)
                    /\ kept' = {} /\ pc' = "dirs"
                    /\ UNCHANGED budget
    BY DEF ListDirectory
  <1>5. d \in Dirs
    BY <1>1 DEF WalkOK
  <1>6. CASE d \in unlistable \/ Overfull(d)
    <2>1. UNCHANGED <<pc, here, dirs, files, kept>>
      BY <1>4, <1>6
    <2>2. /\ budget' \in Budgets /\ budget'.truncated
          /\ Balanced(budget', read', unread', inventory', skips')
      <3>1. PICK n \in Nat : budget' = truncate_walk(budget, n)
        BY <1>4, <1>6, Limits
      <3> QED
        BY <1>1, <1>3, <3>1, BalanceTruncated
    <2>3. TypeOK'
      BY <1>1, <1>3, <1>4, <2>1, <2>2 DEF TypeOK, WalkOK, RepositoryOK
    <2>4. Ahead' \subseteq Ahead
      BY <1>4, <2>1 DEF Ahead
    <2>5. Apart'
      BY <1>1, <1>2, <1>3, <1>4, <2>1, <2>4 DEF Apart
    <2>6. \A p \in Paths : ToCome(p)' => ToCome(p)
      BY <2>1, <2>4 DEF ToCome
    <2>7. MetOnce'
      BY <1>3, <2>6, MetStays DEF result
    <2>8. \A p : Accounted(p)'
      BY <2>2 DEF Accounted
    <2>9. SourceAccounted' /\ PathsAccounted'
      BY <2>8 DEF SourceAccounted, PathsAccounted
    <2> QED
      BY <2>2, <2>3, <2>5, <2>7, <2>9, Assembled
  <1>7. CASE ~(d \in unlistable \/ Overfull(d))
    <2>1. /\ here' = d /\ dirs' = PresentDirs(d) /\ files' = PresentFiles(d)
          /\ kept' = {} /\ pc' = "dirs" /\ budget' = budget
      BY <1>4, <1>7
    <2>2. /\ dirs' \subseteq Subdirs[d] /\ files' \subseteq Contained[d]
          /\ Subdirs[d] \subseteq Dirs \ {Root} /\ Contained[d] \subseteq Files
      BY <1>5, <2>1, Tree DEF PresentDirs, PresentFiles
    <2>3. TypeOK'
      BY <1>1, <1>3, <1>4, <1>5, <2>1, <2>2 DEF TypeOK, WalkOK, RepositoryOK
    <2>4. /\ Ahead' = (pending \ {d}) \cup dirs'
          /\ \A a \in pending : \A b \in pending : a \notin Above[b]
          /\ pending \subseteq Dirs
      BY <1>1, <1>2, <1>4, <2>1 DEF Ahead, Apart, WalkOK
    <2>5. \A s \in dirs' : /\ Above[s] = Above[d] \cup {d} /\ s \in Paths /\ s \in Dirs
                           /\ s # d /\ s \notin Above[d] /\ s \notin Above[s]
      BY <1>5, <2>2, Tree DEF Paths
    <2>6. \A a \in pending \ {d} : /\ a \notin Above[d] /\ a # d /\ a \notin dirs'
                                   /\ \A s \in dirs' : s \notin Above[a]
      <3> SUFFICES ASSUME NEW a \in pending, a # d
                   PROVE  /\ a \notin Above[d] /\ a \notin dirs'
                          /\ \A s \in dirs' : s \notin Above[a]
        OBVIOUS
      <3>1. a \notin Above[d] /\ d \notin Above[a]
        BY <2>4
      <3>2. a \in Paths
        <4>1. CASE a = Root
          <5>1. d \in Paths
            BY <1>5, <4>1 DEF Paths
          <5> QED
            BY <3>1, <4>1, <5>1, Tree
        <4> QED
          BY <2>4, <4>1 DEF Paths
      <3>3. \A s \in dirs' : s \in Above[a] => Above[s] \subseteq Above[a]
        BY <3>2, Tree
      <3> QED
        BY <2>5, <3>1, <3>3
    <2>7. \A a, b \in Ahead' : a \notin Above[b]
      <3> SUFFICES ASSUME NEW a \in Ahead', NEW b \in Ahead' PROVE a \notin Above[b]
        OBVIOUS
      <3>1. CASE a \in pending \ {d} /\ b \in pending \ {d}
        BY <2>4, <3>1
      <3>2. CASE a \in pending \ {d} /\ b \in dirs'
        BY <2>5, <2>6, <3>2
      <3>3. CASE a \in dirs' /\ b \in pending \ {d}
        BY <2>6, <3>3
      <3>4. CASE a \in dirs' /\ b \in dirs'
        BY <2>5, <3>4
      <3> QED
        BY <2>4, <3>1, <3>2, <3>3, <3>4
    <2>8. \A a \in Ahead' : a # d /\ a \notin Above[d]
      BY <2>4, <2>5, <2>6
    <2>9. Apart'
      BY <1>4, <2>1, <2>2, <2>6, <2>7, <2>8 DEF Apart
    <2>10. \A p \in Paths : ToCome(p)' => ToCome(p)
      <3> SUFFICES ASSUME NEW p \in Paths, ToCome(p)' PROVE ToCome(p)
        OBVIOUS
      <3>1. CASE p \in dirs' \cup files'
        <4>1. d \in Above[p]
          BY <1>5, <2>2, <3>1, Tree
        <4> QED
          BY <1>2, <4>1 DEF ToCome
      <3>2. CASE \E a \in Ahead' : a \in Above[p]
        <4>1. PICK a \in Ahead' : a \in Above[p]
          BY <3>2
        <4>2. CASE a \in pending
          BY <1>2, <4>1, <4>2 DEF ToCome
        <4>3. CASE a \in dirs'
          <5>1. d \in Above[a] /\ Above[a] \subseteq Above[p]
            BY <2>5, <4>1, <4>3, Tree
          <5> QED
            BY <1>2, <5>1 DEF ToCome
        <4> QED
          BY <2>4, <4>1, <4>2, <4>3
      <3> QED
        BY <3>1, <3>2 DEF ToCome
    <2>11. MetOnce'
      BY <1>3, <2>10, MetStays DEF result
    <2>12. ASSUME NEW p \in Paths, Met(p), p # OutDir, p \in Files => disk[p].state # "missing",
                  ToCome(p)
           PROVE  ToCome(p)'
      <3>1. PICK e \in pending : e \in Above[p]
        BY <1>2, <2>12 DEF ToCome
      <3>2. CASE e # d
        BY <2>4, <3>1, <3>2 DEF ToCome
      <3>3. CASE e = d
        <4>1. CASE p \in Subdirs[d]
          BY <2>1, <2>12, <4>1 DEF ToCome, PresentDirs
        <4>2. CASE p \in Contained[d]
          BY <2>1, <2>2, <2>12, <4>2 DEF ToCome, PresentFiles
        <4>3. ASSUME NEW s \in Subdirs[d], s \in Above[p] PROVE ToCome(p)'
          <5>1. s # OutDir
            BY <2>2, <2>12, <4>3 DEF Met
          <5>2. s \in dirs'
            BY <2>1, <5>1 DEF PresentDirs
          <5> QED
            BY <2>4, <4>3, <5>2 DEF ToCome
        <4> QED
          BY <3>1, <3>3, <4>1, <4>2, <4>3, Tree
      <3> QED
        BY <3>2, <3>3
    <2>13. OutDir \notin Files /\ Files \subseteq Paths
      BY Tree DEF Paths
    <2>14. SourceAccounted' /\ PathsAccounted'
      <3>1. ASSUME NEW f \in Files, Met(f), kind[f] = "plain", disk[f].state = "text", ToCome(f)
            PROVE  Accounted(f)'
        BY <2>12, <2>13, <3>1 DEF Accounted
      <3>2. ASSUME NEW p \in Paths, Interesting(p), ToCome(p) PROVE Accounted(p)'
        BY <2>12, <3>2 DEF Accounted, Interesting
      <3> QED
        BY <1>3, <2>1, <3>1, <3>2, AccountKept
    <2> QED
      BY <1>1, <1>3, <2>1, <2>3, <2>9, <2>11, <2>14, Assembled
  <1> QED
    BY <1>6, <1>7
\* A walk that stops at the ceiling accounts for nothing more.
LEMMA ExhaustKeeps ==
  ASSUME IInv, pc \in {"dirs", "files"}, Exhaust,
         UNCHANGED <<repository, skips, unread, read, others>>
  PROVE  IInv'
  <1>1. /\ WalkOK /\ RepositoryOK /\ budget \in Budgets /\ Apart
        /\ Balanced(budget, read, unread, inventory, skips)
    BY Parts
  <1>2. UNCHANGED <<kind, disk, out, pending, here, dirs, files, kept, skipped, inventory,
                    skips, unread, read, touched>>
    BY DEF Exhaust, repository, walk, result, others
  <1>3. /\ budget' \in Budgets /\ budget'.truncated
        /\ Balanced(budget', read', unread', inventory', skips')
    <2>1. Cardinality(dirs) + Cardinality(files) \in Nat
      BY <1>1, FinitelyMany DEF WalkOK
    <2> QED
      BY <1>1, <1>2, <2>1, BalanceTruncated DEF Exhaust
  <1>4. pc' = "read"
    BY DEF Exhaust
  <1>5. TypeOK'
    BY <1>1, <1>2, <1>3, <1>4 DEF TypeOK, WalkOK, RepositoryOK
  <1>6. Ahead' = Ahead
    BY <1>2 DEF Ahead
  <1>7. Apart'
    BY <1>1, <1>2, <1>3, <1>4, <1>6 DEF Apart
  <1>8. MetOnce'
    <2>1. \A p \in Paths : ToCome(p)' => ToCome(p)
      BY <1>2, <1>6 DEF ToCome
    <2> QED
      BY <1>2, <2>1, MetStays DEF result
  <1>9. SourceAccounted' /\ PathsAccounted'
    BY <1>3 DEF Accounted, SourceAccounted, PathsAccounted
  <1> QED
    BY <1>3, <1>5, <1>7, <1>8, <1>9, Assembled

\* What the names of a directory or file come to.
LEMMA KindsListed ==
  /\ \A k \in DirKinds \cup FileKinds :
       k \notin {"plain", "hidden", "other"} => k \in Lists
  /\ "plain" \notin Lists /\ "hidden" \notin Lists /\ "other" \notin Lists
  /\ \A k \in SelfFile : k \in Lists
  BY DEF DirKinds, FileKinds, ExcludedByName, Redirecting, SelfFile, Lists

LEMMA ClassifyDirectoryKeeps == ASSUME IInv, ClassifyDirectory PROVE IInv'
  <1>1. /\ WalkOK /\ RepositoryOK /\ budget \in Budgets /\ Apart /\ MetOnce
        /\ Balanced(budget, read, unread, inventory, skips) /\ pc = "dirs"
    BY Parts DEF ClassifyDirectory
  <1>2. UNCHANGED <<repository, skips, unread, read, others>>
    BY DEF ClassifyDirectory, extraction
  <1>3. PICK d \in dirs :
          \/ d # OutDir /\ walk_entries_exhausted(budget) /\ Exhaust
          \/ /\ d = OutDir \/ ~walk_entries_exhausted(budget)
             /\ dirs' = dirs \ {d}
             /\ budget' = IF d = OutDir THEN budget ELSE Charged(budget)
             /\ IF d # OutDir /\ kind[d] \in Lists THEN Listed(kind[d], d) ELSE UNCHANGED skipped
             /\ kept' = IF d # OutDir /\ kind[d] = "plain" THEN kept \cup {d} ELSE kept
             /\ UNCHANGED <<pc, inventory, pending, here, files>>
    BY DEF ClassifyDirectory
  <1>4. CASE Exhaust
    BY <1>1, <1>2, <1>4, ExhaustKeeps
  <1>5. CASE /\ d = OutDir \/ ~walk_entries_exhausted(budget)
             /\ dirs' = dirs \ {d}
             /\ budget' = IF d = OutDir THEN budget ELSE Charged(budget)
             /\ IF d # OutDir /\ kind[d] \in Lists THEN Listed(kind[d], d) ELSE UNCHANGED skipped
             /\ kept' = IF d # OutDir /\ kind[d] = "plain" THEN kept \cup {d} ELSE kept
             /\ UNCHANGED <<pc, inventory, pending, here, files>>
    <2>1. UNCHANGED <<kind, disk, out, pc, inventory, pending, here, files, skips, unread,
                      read, touched>>
      BY <1>2, <1>5 DEF repository, others
    <2>2. d \in Dirs /\ d # Root /\ d \in Paths /\ d \notin Files /\ kind[d] \in DirKinds \cup FileKinds
      BY <1>1, Tree DEF WalkOK, RepositoryOK, Paths
    <2>3. /\ budget' \in Budgets /\ budget'.truncated = budget.truncated
          /\ Balanced(budget', read', unread', inventory', skips')
      <3>1. CASE d = OutDir
        BY <1>1, <1>5, <2>1, <3>1
      <3>2. CASE d # OutDir
        <4>1. budget' = Charged(budget) /\ ~walk_entries_exhausted(budget)
          BY <1>5, <3>2
        <4>2. Charged(budget).truncated = budget.truncated
          BY <1>1 DEF Charged, Budgets
        <4> QED
          BY <1>1, <2>1, <4>1, <4>2, BalanceCharged
      <3> QED
        BY <3>1, <3>2
    <2>4. kept' \in {kept, kept \cup {d}}
      BY <1>5
    <2>5. /\ skipped' \in [Lists -> SUBSET Paths]
          /\ \A l \in Lists : \/ skipped'[l] = skipped[l]
                              \/ skipped'[l] = skipped[l] \cup {d} /\ l = kind[d]
      BY <1>1, <1>5, <2>2 DEF Listed, WalkOK
    <2>6. TypeOK'
      BY <1>1, <1>5, <2>1, <2>2, <2>3, <2>4, <2>5 DEF TypeOK, WalkOK, RepositoryOK
    <2>7. Ahead' \subseteq Ahead /\ d \in Ahead
      BY <1>5, <2>1, <2>4 DEF Ahead
    <2>8. Apart'
      BY <1>1, <1>5, <2>1, <2>3, <2>4, <2>7 DEF Apart
    <2>9. \A p \in Paths : ToCome(p)' => ToCome(p)
      BY <1>5, <2>1, <2>7 DEF ToCome
    <2>10. ToCome(d) /\ ~ToCome(d)'
      <3>1. \A a \in Ahead' : a \notin Above[d]
        BY <1>1, <2>7 DEF Apart
      <3>2. d \notin dirs' \cup files'
        BY <1>1, <1>5, <2>1, <2>2 DEF WalkOK
      <3> QED
        BY <3>1, <3>2 DEF ToCome
    <2>11. MetOnce'
      <3>1. inventory \cup skips \subseteq Paths /\ \A l \in Lists : skipped[l] \subseteq Paths
        BY <1>1 DEF WalkOK, Paths
      <3>2. \A p \in inventory' \cup skips' : ~ToCome(p)'
        BY <1>1, <2>1, <2>9, <3>1 DEF MetOnce
      <3>3. ASSUME NEW l \in Lists, NEW p \in skipped'[l]
            PROVE  /\ ~ToCome(p)' /\ p \notin inventory'
                   /\ \A m \in Lists : p \in skipped'[m] => l = m
        <4>1. CASE p = d
          <5>1. \A m \in Lists : d \notin skipped[m]
            BY <1>1, <2>10 DEF MetOnce
          <5>2. \A m \in Lists : d \in skipped'[m] => m = kind[d]
            BY <2>5, <5>1
          <5>3. d \notin inventory'
            BY <1>1, <2>1, <2>2 DEF WalkOK
          <5> QED
            BY <2>10, <3>3, <4>1, <5>2, <5>3
        <4>2. CASE p # d
          <5>1. \A m \in Lists : p \in skipped'[m] => p \in skipped[m]
            BY <2>5, <4>2
          <5>2. p \in skipped[l]
            BY <3>3, <5>1
          <5> QED
            BY <1>1, <2>1, <2>9, <3>1, <5>1, <5>2 DEF MetOnce
        <4> QED
          BY <4>1, <4>2
      <3> QED
        BY <3>2, <3>3 DEF MetOnce
    <2>12. ASSUME NEW p \in Paths, Met(p), p # d, ToCome(p) PROVE ToCome(p)'
      <3>1. CASE p \in dirs \cup files
        BY <1>5, <2>1, <2>12, <3>1 DEF ToCome
      <3>2. ASSUME NEW a \in Ahead, a \in Above[p] PROVE ToCome(p)'
        <4>1. CASE a # d
          <5>1. a \in Ahead'
            BY <1>5, <2>1, <2>4, <4>1 DEF Ahead
          <5> QED
            BY <3>2, <5>1 DEF ToCome
        <4>2. CASE a = d
          <5>1. d # OutDir /\ kind[d] = "plain"
            BY <2>2, <2>12, <3>2, <4>2 DEF Met
          <5>2. d \in Ahead'
            BY <1>5, <5>1 DEF Ahead
          <5> QED
            BY <3>2, <4>2, <5>2 DEF ToCome
        <4> QED
          BY <4>1, <4>2
      <3> QED
        BY <2>12, <3>1, <3>2 DEF ToCome
    <2>13. SourceAccounted' /\ PathsAccounted'
      <3>1. ASSUME NEW f \in Files, Met(f), kind[f] = "plain", disk[f].state = "text", ToCome(f)
            PROVE  Accounted(f)'
        <4>1. f \in Paths /\ f # d
          BY <2>2 DEF Paths
        <4> QED
          BY <2>12, <3>1, <4>1 DEF Accounted
      <3>2. ASSUME NEW p \in Paths, Interesting(p), ToCome(p)
            PROVE  Accounted(p)' \/ \E l \in Lists : p \in skipped'[l]
        <4>1. CASE p = d
          <5>1. d # OutDir /\ kind[d] \in Lists
            BY <2>2, <3>2, <4>1, KindsListed DEF Interesting
          <5>2. d \in skipped'[kind[d]]
            BY <1>1, <1>5, <5>1 DEF Listed, WalkOK
          <5> QED
            BY <4>1, <5>1, <5>2
        <4>2. CASE p # d
          BY <2>12, <3>2, <4>2 DEF Accounted, Interesting
        <4> QED
          BY <4>1, <4>2
      <3>3. \A l \in Lists : skipped[l] \subseteq skipped'[l]
        BY <2>5
      <3> QED
        BY <2>1, <2>3, <3>1, <3>2, <3>3, AccountKept
    <2> QED
      BY <2>3, <2>6, <2>8, <2>11, <2>13, Assembled
  <1> QED
    BY <1>3, <1>4, <1>5

\* What a file is judged to be.
LEMMA JudgedCases ==
  ASSUME NEW b \in Budgets, NEW f \in Files, kind[f] \in DirKinds \cup FileKinds,
         disk[f] \in Disk, NEW v, v = Judged(b, f)
  PROVE  \/ /\ v.list \in Lists /\ v.budget = b /\ ~v.joins
            /\ kind[f] = "plain" => disk[f].state # "text"
         \/ /\ v.list = None /\ v.budget = b /\ ~v.joins /\ kind[f] \in {"hidden", "other"}
         \/ /\ v.list \in Lists \cup {None} /\ ~v.joins /\ kind[f] = "plain"
            /\ \E n \in Nat : v.budget = skip_source(b, f, n)
         \/ /\ v.list = None /\ v.joins /\ kind[f] = "plain"
            /\ \E n \in Nat : v.budget = include_source(b, f, n) /\ Fits(b, n)
  <1> DEFINE state == disk[f].state
             size == disk[f].size
  <1>1. size \in Nat /\ state \in States
    BY DEF Disk
  <1>2. \A l, c, j : v = Verdict(l, c, j) => v.list = l /\ v.budget = c /\ v.joins = j
    BY DEF Verdict
  <1>3. "unreadable" \in Lists /\ "oversized" \in Lists /\ "text" \notin Lists
    BY DEF Lists
  <1>4. CASE kind[f] \in Lists
    <2>1. v = Verdict(kind[f], b, FALSE)
      BY <1>4 DEF Judged
    <2> QED
      BY <1>2, <1>4, <2>1, KindsListed
  <1>5. CASE kind[f] \notin Lists /\ kind[f] # "plain"
    <2>1. v = Verdict(None, b, FALSE)
      BY <1>5 DEF Judged
    <2> QED
      BY <1>2, <1>5, <2>1, KindsListed
  <1>6. CASE kind[f] = "plain" /\ state = "missing"
    <2>1. v = Verdict("unreadable", b, FALSE)
      BY <1>6, KindsListed DEF Judged
    <2> QED
      BY <1>2, <1>3, <1>6, <2>1
  <1>7. CASE kind[f] = "plain" /\ state = "unreadable"
    <2>1. v = Verdict("unreadable", skip_source(b, f, 0), FALSE)
      BY <1>7, KindsListed DEF Judged
    <2> QED
      BY <1>2, <1>3, <1>7, <2>1
  <1>8. CASE kind[f] = "plain" /\ state \notin {"missing", "unreadable"} /\ state \in Lists
    <2>1. v = Verdict(state, b, FALSE)
      BY <1>8, KindsListed DEF Judged
    <2> QED
      BY <1>2, <1>3, <1>8, <2>1
  <1>9. CASE /\ kind[f] = "plain" /\ state \notin {"missing", "unreadable"} /\ state \notin Lists
             /\ size > MaxFileBytes
    <2>1. v = Verdict("oversized", skip_source(b, f, size), FALSE)
      BY <1>9, KindsListed DEF Judged
    <2> QED
      BY <1>1, <1>2, <1>3, <1>9, <2>1
  <1>10. CASE /\ kind[f] = "plain" /\ state \notin {"missing", "unreadable"} /\ state \notin Lists
              /\ ~(size > MaxFileBytes)
    <2>1. v = IF source_refusal(b, size) # None THEN Verdict(None, skip_source(b, f, size), FALSE)
                                               ELSE Verdict(None, include_source(b, f, size), TRUE)
      BY <1>10, KindsListed DEF Judged
    <2>2. CASE source_refusal(b, size) # None
      BY <1>1, <1>2, <1>10, <2>1, <2>2
    <2>3. CASE source_refusal(b, size) = None
      <3>1. Fits(b, size)
        BY <1>1, <1>10, <2>3, Limits, WalkAssumption
           DEF Fits, source_refusal, Refusals, WalkAssumption, Budgets
      <3> QED
        BY <1>1, <1>2, <1>10, <2>1, <2>3, <3>1
    <2> QED
      BY <2>2, <2>3
  <1> QED
    BY <1>4, <1>5, <1>6, <1>7, <1>8, <1>9, <1>10
LEMMA ClassifyFileKeeps == ASSUME IInv, ClassifyFile PROVE IInv'
  <1>1. /\ WalkOK /\ RepositoryOK /\ budget \in Budgets /\ Apart /\ MetOnce
        /\ Balanced(budget, read, unread, inventory, skips) /\ pc = "files"
    BY Parts DEF ClassifyFile
  <1>2. UNCHANGED <<repository, read, others>>
    BY DEF ClassifyFile
  <1>3. PICK f \in files :
          LET free == kind[f] \in SelfFile
              v == Judged(IF free THEN budget ELSE Charged(budget), f)
          IN IF ~free /\ walk_entries_exhausted(budget)
               THEN Exhaust /\ UNCHANGED <<skips, unread>>
               ELSE /\ files' = files \ {f}
                    /\ budget' = v.budget
                    /\ IF v.list = None THEN UNCHANGED skipped ELSE Listed(v.list, f)
                    /\ inventory' = IF v.joins THEN inventory \cup {f} ELSE inventory
                    /\ unread' = IF v.joins THEN unread \cup {f} ELSE unread
                    /\ skips' = IF v.budget.skipped_files > budget.skipped_files
                                  THEN skips \cup {f} ELSE skips
                    /\ UNCHANGED <<pc, pending, here, dirs, kept>>
    BY DEF ClassifyFile
  <1>4. CASE kind[f] \notin SelfFile /\ walk_entries_exhausted(budget)
    <2>1. Exhaust /\ UNCHANGED <<skips, unread>>
      BY <1>3, <1>4
    <2> QED
      BY <1>1, <1>2, <2>1, ExhaustKeeps
  <1>5. CASE kind[f] \in SelfFile \/ ~walk_entries_exhausted(budget)
    <2> SUFFICES ASSUME NEW b, b = IF kind[f] \in SelfFile THEN budget ELSE Charged(budget),
                        NEW v, v = Judged(b, f)
                 PROVE  IInv'
      OBVIOUS
    <2>1. /\ files' = files \ {f}
          /\ budget' = v.budget
          /\ IF v.list = None THEN UNCHANGED skipped ELSE Listed(v.list, f)
          /\ inventory' = IF v.joins THEN inventory \cup {f} ELSE inventory
          /\ unread' = IF v.joins THEN unread \cup {f} ELSE unread
          /\ skips' = IF v.budget.skipped_files > budget.skipped_files
                        THEN skips \cup {f} ELSE skips
          /\ UNCHANGED <<pc, pending, here, dirs, kept>>
      BY <1>3, <1>5
    <2>2. UNCHANGED <<kind, disk, out, read, touched>>
      BY <1>2 DEF repository, others
    <2>3. /\ f \in Files /\ f \in Paths /\ f \notin Dirs /\ dirs = {}
          /\ kind[f] \in DirKinds \cup FileKinds /\ disk[f] \in Disk
      BY <1>1, Tree DEF WalkOK, RepositoryOK, Paths, Apart
    <2>4. /\ b \in Budgets /\ Balanced(b, read, unread, inventory, skips)
          /\ b.truncated = budget.truncated /\ b.skipped_files = budget.skipped_files
          /\ b.skipped_files \in Nat
      <3>1. CASE kind[f] \in SelfFile
        BY <1>1, <3>1 DEF Budgets
      <3>2. CASE kind[f] \notin SelfFile
        <4>1. Charged(budget).truncated = budget.truncated
              /\ Charged(budget).skipped_files = budget.skipped_files
          BY <1>1 DEF Charged, Budgets
        <4>2. Charged(budget) \in Budgets /\ Balanced(Charged(budget), read, unread, inventory, skips)
          BY <1>1, <1>5, <3>2, BalanceCharged
        <4>3. b = Charged(budget)
          BY <3>2
        <4>4. budget.skipped_files \in Nat
          BY <1>1 DEF Budgets
        <4> QED
          BY <4>1, <4>2, <4>3, <4>4
      <3> QED
        BY <3>1, <3>2
    <2>5. ToCome(f) /\ ~ToCome(f)'
      <3>1. Ahead' = Ahead
        BY <2>1 DEF Ahead
      <3>2. Above[f] = Above[here] \cup {here}
        BY <1>1, Tree DEF WalkOK, Apart
      <3>3. \A a \in Ahead' : a \notin Above[f]
        BY <1>1, <3>1, <3>2 DEF Apart
      <3>4. f \notin dirs' \cup files'
        BY <2>1, <2>3
      <3> QED
        BY <3>3, <3>4 DEF ToCome
    <2>6. f \notin inventory /\ f \notin skips /\ \A l \in Lists : f \notin skipped[l]
      BY <1>1, <2>5 DEF MetOnce
    <2>7. f \notin AdmittedIn(b)
      BY <2>4, <2>6 DEF Balanced
    <2>8. /\ v.list \in Lists \cup {None}
          /\ budget' \in Budgets /\ budget'.truncated = budget.truncated
          /\ Balanced(budget', read', unread', inventory', skips')
          /\ inventory' \in {inventory, inventory \cup {f}}
          /\ unread' \in {unread, unread \cup {f}}
          /\ skips' \in {skips, skips \cup {f}}
          /\ v.list # None => inventory' = inventory
          /\ \/ f \in unread' \cup skips'
             \/ /\ kind[f] = "plain" => disk[f].state # "text"
                /\ v.list # None \/ kind[f] \in {"hidden", "other"}
      <3>1. CASE v.budget = b /\ ~v.joins
        <4>1. /\ budget' = b /\ inventory' = inventory /\ unread' = unread /\ skips' = skips
          BY <2>1, <2>4, <3>1
        <4>2. /\ v.list \in Lists \cup {None}
              /\ v.list # None \/ kind[f] \in {"hidden", "other"}
              /\ kind[f] = "plain" => disk[f].state # "text"
          <5>1. \A n \in Nat : b # skip_source(b, f, n)
            <6> SUFFICES ASSUME NEW n \in Nat, b = skip_source(b, f, n) PROVE FALSE
              OBVIOUS
            <6>1. skip_source(b, f, n).skipped_files = b.skipped_files + 1
              BY <2>3, <2>4, Skipping
            <6> QED
              BY <2>4, <6>1
          <5>2. \/ /\ v.list \in Lists
                   /\ kind[f] = "plain" => disk[f].state # "text"
                \/ v.list = None /\ kind[f] \in {"hidden", "other"}
                \/ \E n \in Nat : v.budget = skip_source(b, f, n)
                \/ v.joins
            BY <2>3, <2>4, JudgedCases, Zenon
          <5> QED
            BY <3>1, <5>1, <5>2, WalkAssumption DEF WalkAssumption
        <4> QED
          BY <2>2, <2>4, <4>1, <4>2
      <3>2. ASSUME v.list \in Lists \cup {None}, ~v.joins, NEW n \in Nat,
                   v.budget = skip_source(b, f, n)
            PROVE  /\ v.list \in Lists \cup {None}
                   /\ budget' \in Budgets /\ budget'.truncated = budget.truncated
                   /\ Balanced(budget', read', unread', inventory', skips')
                   /\ inventory' = inventory /\ unread' = unread /\ skips' = skips \cup {f}
        <4>1. /\ skip_source(b, f, n) \in Budgets
              /\ skip_source(b, f, n).truncated = b.truncated
              /\ skip_source(b, f, n).skipped_files = b.skipped_files + 1
          BY <2>3, <2>4, Skipping
        <4>2. /\ budget' = skip_source(b, f, n) /\ inventory' = inventory /\ unread' = unread
              /\ skips' = skips \cup {f}
          BY <2>1, <2>4, <3>2, <4>1
        <4>3. skips \in SUBSET Files
          BY <1>1 DEF WalkOK
        <4>4. Balanced(skip_source(b, f, n), read, unread, inventory, skips \cup {f})
          BY <2>3, <2>4, <2>6, <2>7, <4>3, BalanceSkipped
        <4> QED
          BY <2>2, <2>4, <3>2, <4>1, <4>2, <4>4
      <3>3. ASSUME v.list = None, v.joins, NEW n \in Nat, v.budget = include_source(b, f, n),
                   Fits(b, n)
            PROVE  /\ budget' \in Budgets /\ budget'.truncated = budget.truncated
                   /\ Balanced(budget', read', unread', inventory', skips')
                   /\ inventory' = inventory \cup {f} /\ unread' = unread \cup {f}
                   /\ skips' = skips
        <4>1. /\ include_source(b, f, n) \in Budgets
              /\ include_source(b, f, n).truncated = b.truncated
              /\ include_source(b, f, n).skipped_files = b.skipped_files
              /\ Balanced(include_source(b, f, n), read, unread \cup {f}, inventory \cup {f}, skips)
          <5>1. Balanced(include_source(b, f, n), read, unread \cup {f}, inventory \cup {f}, skips)
            BY <2>3, <2>4, <2>6, <3>3, BalanceAdmitted
          <5> QED
            BY <2>3, <2>4, <3>3, <5>1, Including
        <4>2. /\ budget' = include_source(b, f, n) /\ inventory' = inventory \cup {f}
              /\ unread' = unread \cup {f} /\ skips' = skips
          BY <2>1, <2>4, <3>3, <4>1
        <4> QED
          BY <2>2, <2>4, <4>1, <4>2
      <3> QED
        BY <2>3, <2>4, <3>1, <3>2, <3>3, JudgedCases
    <2>9. /\ skipped' \in [Lists -> SUBSET Paths]
          /\ \A l \in Lists : \/ skipped'[l] = skipped[l]
                              \/ skipped'[l] = skipped[l] \cup {f} /\ l = v.list
          /\ v.list # None => f \in skipped'[v.list]
      BY <1>1, <2>1, <2>3, <2>8 DEF Listed, WalkOK
    <2>10. TypeOK'
      BY <1>1, <2>1, <2>2, <2>3, <2>8, <2>9 DEF TypeOK, WalkOK, RepositoryOK
    <2>11. Ahead' = Ahead
      BY <2>1 DEF Ahead
    <2>12. Apart'
      BY <1>1, <2>1, <2>11 DEF Apart
    <2>13. \A p \in Paths : ToCome(p)' => ToCome(p)
      BY <2>1, <2>11 DEF ToCome
    <2>14. \A p \in Paths : ToCome(p) /\ p # f => ToCome(p)'
      BY <2>1, <2>11 DEF ToCome
    <2>15. MetOnce'
      <3>1. inventory \cup skips \subseteq Paths /\ \A l \in Lists : skipped[l] \subseteq Paths
        BY <1>1 DEF WalkOK, Paths
      <3>2. ASSUME NEW p \in inventory' \cup skips' PROVE ~ToCome(p)'
        <4>1. p = f \/ p \in inventory \cup skips
          BY <2>8
        <4> QED
          BY <1>1, <2>5, <2>13, <3>1, <4>1 DEF MetOnce
      <3>3. ASSUME NEW l \in Lists, NEW p \in skipped'[l]
            PROVE  /\ ~ToCome(p)' /\ p \notin inventory'
                   /\ \A m \in Lists : p \in skipped'[m] => l = m
        <4>1. CASE p = f
          <5>1. \A m \in Lists : f \in skipped'[m] => m = v.list
            BY <2>6, <2>9
          <5>2. v.list # None
            BY <3>3, <4>1, <5>1, WalkAssumption DEF WalkAssumption
          <5> QED
            BY <2>5, <2>6, <2>8, <3>3, <4>1, <5>1, <5>2
        <4>2. CASE p # f
          <5>1. \A m \in Lists : p \in skipped'[m] => p \in skipped[m]
            BY <2>9, <4>2
          <5>2. p \in skipped[l] /\ p \in Paths
            BY <3>1, <3>3, <5>1
          <5>3. ~ToCome(p) /\ p \notin inventory /\ \A m \in Lists : p \in skipped[m] => l = m
            BY <1>1, <5>2 DEF MetOnce
          <5> QED
            BY <2>8, <2>13, <4>2, <5>1, <5>2, <5>3
        <4> QED
          BY <4>1, <4>2
      <3> QED
        BY <3>2, <3>3 DEF MetOnce
    <2>16. SourceAccounted' /\ PathsAccounted'
      <3>1. ASSUME NEW g \in Files, Met(g), kind[g] = "plain", disk[g].state = "text", ToCome(g)
            PROVE  Accounted(g)'
        <4>1. CASE g = f
          BY <2>8, <3>1, <4>1 DEF Accounted
        <4>2. CASE g # f
          <5>1. g \in Paths
            BY DEF Paths
          <5> QED
            BY <2>14, <3>1, <4>2, <5>1 DEF Accounted
        <4> QED
          BY <4>1, <4>2
      <3>2. ASSUME NEW p \in Paths, Interesting(p), ToCome(p)
            PROVE  Accounted(p)' \/ \E l \in Lists : p \in skipped'[l]
        <4>1. CASE p = f
          <5>1. kind[f] \notin {"hidden", "other"}
            BY <3>2, <4>1 DEF Interesting
          <5> QED
            BY <2>8, <2>9, <4>1, <5>1 DEF Accounted
        <4>2. CASE p # f
          BY <2>14, <3>2, <4>2 DEF Accounted
        <4> QED
          BY <4>1, <4>2
      <3>3. \A l \in Lists : skipped[l] \subseteq skipped'[l]
        BY <2>9
      <3>4. unread \cup read \cup skips \subseteq unread' \cup read' \cup skips'
        BY <2>2, <2>8
      <3> QED
        BY <2>2, <2>8, <3>1, <3>2, <3>3, <3>4, AccountKept
    <2> QED
      BY <2>8, <2>10, <2>12, <2>15, <2>16, Assembled
  <1> QED
    BY <1>4, <1>5
\* Steps that leave the repository, what was met and the ledger alone.
LEMMA EndDirectoriesKeeps == ASSUME IInv, EndDirectories PROVE IInv'
  <1>1. /\ WalkOK /\ RepositoryOK /\ budget \in Budgets /\ Apart
        /\ Balanced(budget, read, unread, inventory, skips)
    BY Parts
  <1>2. /\ UNCHANGED <<kind, disk, out, pending, here, dirs, files, kept, skipped, inventory,
                       budget, skips, unread, read, touched>>
        /\ pc = "dirs" /\ pc' = "files" /\ dirs = {}
    BY DEF EndDirectories, repository, walk, result, extraction, others
  <1>3. TypeOK'
    BY <1>1, <1>2 DEF TypeOK, WalkOK, RepositoryOK
  <1>4. Ahead' = Ahead
    BY <1>2 DEF Ahead
  <1>5. Apart'
    BY <1>1, <1>2, <1>4 DEF Apart
  <1>6. \A p : ToCome(p)' = ToCome(p)
    BY <1>2, <1>4 DEF ToCome
  <1>7. MetOnce'
    BY <1>2, <1>6, MetStays DEF result
  <1>8. SourceAccounted' /\ PathsAccounted'
    BY <1>2, <1>6, AccountKept DEF Accounted
  <1> QED
    BY <1>1, <1>2, <1>3, <1>5, <1>7, <1>8, Assembled

LEMMA EndFilesKeeps == ASSUME IInv, EndFiles PROVE IInv'
  <1>1. /\ WalkOK /\ RepositoryOK /\ budget \in Budgets /\ Apart
        /\ Balanced(budget, read, unread, inventory, skips)
    BY Parts
  <1>2. /\ UNCHANGED <<kind, disk, out, here, dirs, files, skipped, inventory, budget, skips,
                       unread, read, touched>>
        /\ pending' = pending \cup kept /\ kept' = {}
        /\ pc = "files" /\ pc' = "list" /\ files = {} /\ dirs = {}
    BY <1>1 DEF EndFiles, Apart, repository, result, extraction, others
  <1>3. TypeOK'
    BY <1>1, <1>2 DEF TypeOK, WalkOK, RepositoryOK
  <1>4. Ahead' = Ahead
    BY <1>2 DEF Ahead
  <1>5. Apart'
    BY <1>1, <1>2, <1>4 DEF Apart
  <1>6. \A p : ToCome(p)' = ToCome(p)
    BY <1>2, <1>4 DEF ToCome
  <1>7. MetOnce'
    BY <1>2, <1>6, MetStays DEF result
  <1>8. SourceAccounted' /\ PathsAccounted'
    BY <1>2, <1>6, AccountKept DEF Accounted
  <1> QED
    BY <1>1, <1>2, <1>3, <1>5, <1>7, <1>8, Assembled

LEMMA EndWalkKeeps == ASSUME IInv, EndWalk PROVE IInv'
  <1>1. /\ WalkOK /\ RepositoryOK /\ budget \in Budgets /\ Apart
        /\ Balanced(budget, read, unread, inventory, skips)
    BY Parts
  <1>2. /\ UNCHANGED <<kind, disk, out, pending, here, dirs, files, kept, skipped, inventory,
                       budget, skips, unread, read, touched>>
        /\ pc = "list" /\ pc' = "read" /\ pending = {}
    BY DEF EndWalk, repository, walk, result, extraction, others
  <1>3. TypeOK'
    BY <1>1, <1>2 DEF TypeOK, WalkOK, RepositoryOK
  <1>4. Ahead' = Ahead
    BY <1>2 DEF Ahead
  <1>5. Apart'
    BY <1>1, <1>2, <1>4 DEF Apart
  <1>6. \A p : ToCome(p)' = ToCome(p)
    BY <1>2, <1>4 DEF ToCome
  <1>7. MetOnce'
    BY <1>2, <1>6, MetStays DEF result
  <1>8. SourceAccounted' /\ PathsAccounted'
    BY <1>2, <1>6, AccountKept DEF Accounted
  <1> QED
    BY <1>1, <1>2, <1>3, <1>5, <1>7, <1>8, Assembled

LEMMA WriteEvidenceKeeps == ASSUME IInv, WriteEvidence PROVE IInv'
  <1>1. /\ WalkOK /\ RepositoryOK /\ budget \in Budgets /\ Apart
        /\ Balanced(budget, read, unread, inventory, skips)
    BY Parts
  <1>2. /\ UNCHANGED <<kind, disk, pending, here, dirs, files, kept, skipped, inventory,
                       budget, skips, unread, read, touched>>
        /\ pc = "read" /\ pc' = "done" /\ unread = {} /\ out' = TRUE
    BY DEF WriteEvidence, walk, result, extraction, others
  <1>3. TypeOK'
    BY <1>1, <1>2 DEF TypeOK, WalkOK, RepositoryOK
  <1>4. Ahead' = Ahead
    BY <1>2 DEF Ahead
  <1>5. Apart'
    BY <1>1, <1>2, <1>4 DEF Apart
  <1>6. \A p : ToCome(p)' = ToCome(p)
    BY <1>2, <1>4 DEF ToCome
  <1>7. MetOnce'
    BY <1>2, <1>6, MetStays DEF result
  <1>8. SourceAccounted' /\ PathsAccounted'
    BY <1>2, <1>6, AccountKept DEF Accounted
  <1> QED
    BY <1>1, <1>2, <1>3, <1>5, <1>7, <1>8, Assembled

(***************************************************************************)
(* Reading, and what others do meanwhile.                                  *)
(***************************************************************************)
LEMMA ReadSourceKeeps == ASSUME IInv, NEW f \in Files, ReadSource(f) PROVE IInv'
  <1>1. /\ WalkOK /\ RepositoryOK /\ budget \in Budgets /\ Apart /\ MetOnce
        /\ Balanced(budget, read, unread, inventory, skips)
    BY Parts
  <1>2. /\ UNCHANGED <<kind, disk, out, pc, pending, here, dirs, files, kept, skipped,
                       inventory, touched>>
        /\ pc = "read" /\ f \in unread /\ unread' = unread \ {f}
        /\ \/ read' = read \cup {f} /\ UNCHANGED <<budget, skips>>
           \/ budget' = reclassify_unread(budget, f) /\ skips' = skips \cup {f} /\ read' = read
    BY DEF ReadSource, repository, walk, result, others
  <1>3. /\ budget' \in Budgets /\ budget'.truncated = budget.truncated
        /\ Balanced(budget', read', unread', inventory', skips')
    <2>1. CASE read' = read \cup {f} /\ UNCHANGED <<budget, skips>>
      <3>1. Balanced(budget, read \cup {f}, unread \ {f}, inventory, skips)
        BY <1>1, <1>2, BalanceRead
      <3> QED
        BY <1>1, <1>2, <2>1, <3>1
    <2>2. CASE budget' = reclassify_unread(budget, f) /\ skips' = skips \cup {f} /\ read' = read
      <3>1. skips \in SUBSET Files /\ f \in unread
        BY <1>1, <1>2 DEF WalkOK
      <3>2. /\ reclassify_unread(budget, f) \in Budgets
            /\ reclassify_unread(budget, f).truncated = budget.truncated
            /\ Balanced(reclassify_unread(budget, f), read, unread \ {f}, inventory,
                        skips \cup {f})
        BY <1>1, <3>1, BalanceUnread
      <3> QED
        BY <1>2, <2>2, <3>2
    <2> QED
      BY <1>2, <2>1, <2>2
  <1>4. TypeOK'
    BY <1>1, <1>2, <1>3 DEF TypeOK, WalkOK, RepositoryOK
  <1>5. Ahead' = Ahead
    BY <1>2 DEF Ahead
  <1>6. Apart'
    BY <1>1, <1>2, <1>3, <1>5 DEF Apart
  <1>7. \A p : ToCome(p)' = ToCome(p)
    BY <1>2, <1>5 DEF ToCome
  <1>8. MetOnce'
    <2>1. f \in inventory /\ skips' \subseteq skips \cup {f}
      BY <1>1, <1>2 DEF Balanced
    <2> QED
      BY <1>1, <1>2, <1>7, <2>1 DEF MetOnce
  <1>9. SourceAccounted' /\ PathsAccounted'
    BY <1>2, <1>3, <1>7, AccountKept DEF Accounted
  <1> QED
    BY <1>3, <1>4, <1>6, <1>8, <1>9, Assembled

\* A changed path is not one the walk is bound to meet.
LEMMA ChangeKeeps ==
  ASSUME IInv, NEW p \in Dirs \cup Files, (ChangeFile(p) /\ p \in Files) \/ ChangeDirectory(p)
  PROVE  IInv'
  <1>1. /\ WalkOK /\ RepositoryOK /\ budget \in Budgets /\ Apart /\ MetOnce
        /\ SourceAccounted /\ PathsAccounted
        /\ Balanced(budget, read, unread, inventory, skips)
    BY Parts
  <1>2. /\ UNCHANGED <<kind, out, pc, pending, here, dirs, files, kept, skipped,
                       inventory, budget, skips, unread, read>>
        /\ touched' = touched \cup {p}
    BY DEF ChangeFile, ChangeDirectory, walk, result, extraction
  <1>3. disk' \in [Files -> Disk] /\ \A q \in Files : q # p => disk'[q] = disk[q]
    <2>1. CASE ChangeFile(p) /\ p \in Files
      BY <1>1, <2>1, WalkAssumption DEF ChangeFile, RepositoryOK, WalkAssumption
    <2>2. CASE ChangeDirectory(p)
      BY <1>1, <2>2 DEF ChangeDirectory, RepositoryOK
    <2> QED
      BY <2>1, <2>2
  <1>4. TypeOK'
    BY <1>1, <1>2, <1>3 DEF TypeOK, WalkOK, RepositoryOK
  <1>5. Ahead' = Ahead
    BY <1>2 DEF Ahead
  <1>6. Apart'
    BY <1>1, <1>2, <1>5 DEF Apart
  <1>7. \A q : ToCome(q)' = ToCome(q)
    BY <1>2, <1>5 DEF ToCome
  <1>8. MetOnce'
    BY <1>1, <1>2, <1>7 DEF MetOnce
  <1>9. \A q : Met(q)' => Met(q) /\ q # p
    BY <1>2 DEF Met
  <1>10. \A q : Accounted(q)' = Accounted(q)
    BY <1>2, <1>7 DEF Accounted
  <1>11. SourceAccounted'
    <2> SUFFICES ASSUME NEW f \in Files, Met(f)', kind'[f] = "plain", disk'[f].state = "text"
                 PROVE  Accounted(f)'
      BY DEF SourceAccounted
    <2> QED
      BY <1>1, <1>2, <1>3, <1>9, <1>10 DEF SourceAccounted
  <1>12. PathsAccounted'
    <2> SUFFICES ASSUME NEW q \in Paths, Interesting(q)'
                 PROVE  Accounted(q)' \/ \E l \in Lists : q \in skipped'[l]
      BY DEF PathsAccounted
    <2>1. Met(q) /\ q # p
      BY <1>9 DEF Interesting
    <2>2. Interesting(q)
      BY <1>2, <1>3, <2>1 DEF Interesting
    <2> QED
      BY <1>1, <1>2, <1>10, <2>2 DEF PathsAccounted
  <1> QED
    BY <1>1, <1>2, <1>4, <1>6, <1>8, <1>11, <1>12, Assembled

(***************************************************************************)
(* A new scan, and the invariant.                                          *)
(***************************************************************************)
LEMMA ScanAgainKeeps == ASSUME IInv, ScanAgain PROVE IInv'
  <1>1. RepositoryOK
    BY Parts
  <1>2. /\ UNCHANGED <<kind, disk, out>>
        /\ pending' = {Root} /\ here' = Root /\ dirs' = {} /\ files' = {} /\ kept' = {}
        /\ skipped' = [l \in Lists |-> {}] /\ inventory' = {} /\ budget' = NoBudget
        /\ skips' = {} /\ unread' = {} /\ read' = {} /\ pc' = "list"
    BY DEF ScanAgain, NewScan, repository
  <1>3. budget' \in Budgets /\ Balanced(budget', read', unread', inventory', skips')
    BY <1>2, BalanceStarts
  <1>4. TypeOK'
    BY <1>1, <1>2, <1>3, Tree DEF TypeOK, WalkOK, RepositoryOK
  <1>5. Ahead' = {Root}
    BY <1>2 DEF Ahead
  <1>6. Apart'
    BY <1>2, <1>5, Tree DEF Apart
  <1>7. MetOnce'
    BY <1>2 DEF MetOnce
  <1>8. \A p \in Paths : Accounted(p)'
    BY <1>5, Tree DEF Accounted, ToCome
  <1>9. SourceAccounted' /\ PathsAccounted'
    BY <1>8 DEF SourceAccounted, PathsAccounted, Paths
  <1> QED
    BY <1>3, <1>4, <1>6, <1>7, <1>9, Assembled

LEMMA Initially == ASSUME Init PROVE IInv
  <1>1. RepositoryOK
    <2>1. kind \in [Paths -> DirKinds \cup FileKinds]
      BY DEF Init
    <2>2. disk \in [Files -> Disk] /\ out \in BOOLEAN
      BY WalkAssumption DEF Init, WalkAssumption
    <2> QED
      BY <2>1, <2>2 DEF RepositoryOK
  <1>2. /\ pending = {Root} /\ here = Root /\ dirs = {} /\ files = {} /\ kept = {}
        /\ skipped = [l \in Lists |-> {}] /\ inventory = {} /\ budget = NoBudget
        /\ skips = {} /\ unread = {} /\ read = {} /\ pc = "list"
    BY DEF Init
  <1>3. budget \in Budgets /\ Balanced(budget, read, unread, inventory, skips)
    BY <1>2, BalanceStarts
  <1>4. TypeOK
    BY <1>1, <1>2, <1>3, Tree DEF TypeOK, WalkOK
  <1>5. Ahead = {Root}
    BY <1>2 DEF Ahead
  <1>6. Apart
    BY <1>2, <1>5, Tree DEF Apart
  <1>7. MetOnce
    BY <1>2 DEF MetOnce
  <1>8. \A p \in Paths : Accounted(p)
    BY <1>5, Tree DEF Accounted, ToCome
  <1>9. SourceAccounted /\ PathsAccounted
    BY <1>8 DEF SourceAccounted, PathsAccounted, Paths
  <1> QED
    BY <1>3, <1>4, <1>6, <1>7, <1>9, LedgerIsBalance DEF IInv

LEMMA Steadily == ASSUME IInv, [Next]_vars PROVE IInv'
  <1>1. CASE Next
    <2>1. CASE ListDirectory
      BY <2>1, ListDirectoryKeeps
    <2>2. CASE ClassifyDirectory
      BY <2>2, ClassifyDirectoryKeeps
    <2>3. CASE EndDirectories
      BY <2>3, EndDirectoriesKeeps
    <2>4. CASE ClassifyFile
      BY <2>4, ClassifyFileKeeps
    <2>5. CASE EndFiles
      BY <2>5, EndFilesKeeps
    <2>6. CASE EndWalk
      BY <2>6, EndWalkKeeps
    <2>7. ASSUME NEW f \in Files, ReadSource(f) PROVE IInv'
      BY <2>7, ReadSourceKeeps
    <2>8. ASSUME NEW f \in Files, ChangeFile(f) PROVE IInv'
      BY <2>8, ChangeKeeps
    <2>9. CASE WriteEvidence
      BY <2>9, WriteEvidenceKeeps
    <2>10. CASE ScanAgain
      BY <2>10, ScanAgainKeeps
    <2>11. ASSUME NEW d \in Dirs, ChangeDirectory(d) PROVE IInv'
      BY <2>11, ChangeKeeps
    <2> QED
      BY <1>1, <2>1, <2>2, <2>3, <2>4, <2>5, <2>6, <2>7, <2>8, <2>9, <2>10, <2>11 DEF Next
  <1>2. CASE UNCHANGED vars
    <2>1. UNCHANGED <<kind, disk, out, pc, pending, here, dirs, files, kept, skipped,
                      inventory, budget, skips, unread, read, touched>>
      BY <1>2 DEF vars, repository, walk, result, extraction, others
    <2>2. /\ WalkOK /\ RepositoryOK /\ budget \in Budgets /\ Apart
          /\ Balanced(budget, read, unread, inventory, skips)
      BY Parts
    <2>3. TypeOK'
      BY <2>1, <2>2 DEF TypeOK, WalkOK, RepositoryOK
    <2>4. Ahead' = Ahead
      BY <2>1 DEF Ahead
    <2>5. Apart'
      BY <2>1, <2>2, <2>4 DEF Apart
    <2>6. \A p : ToCome(p)' = ToCome(p)
      BY <2>1, <2>4 DEF ToCome
    <2>7. MetOnce'
      BY <2>1, <2>6, MetStays DEF result
    <2>8. SourceAccounted' /\ PathsAccounted'
      BY <2>1, <2>6, AccountKept DEF Accounted
    <2> QED
      BY <2>1, <2>2, <2>3, <2>5, <2>7, <2>8, Assembled
  <1> QED
    BY <1>1, <1>2
(***************************************************************************)
(* The results.                                                            *)
(***************************************************************************)
\* The invariant holds in every state of every scan.
THEOREM Invariant == Spec => []IInv
  <1>1. Init => IInv
    BY Initially
  <1>2. IInv /\ [Next]_vars => IInv'
    BY Steadily
  <1> QED
    BY <1>1, <1>2, PTL DEF Spec

\* Every inventoried file is on one side of the ledger, with the bytes the
\* walk charged for it, and no ceiling is passed.
THEOREM LedgerHolds == Spec => []LedgerTrue
  <1>1. IInv => LedgerTrue
    BY DEF IInv
  <1> QED
    BY <1>1, Invariant, PTL

\* What a finished walk that was not truncated says nothing more of is not to
\* come.
LEMMA NothingToCome ==
  ASSUME IInv, pc = "done", ~budget.truncated
  PROVE  unread = {} /\ \A p : ~ToCome(p)
  BY Parts DEF Apart, ToCome, Ahead

\* No scan that missed a source file it was bound to meet claims to be
\* complete, nor "production_complete" if that file is production.
THEOREM CompleteRead == Spec => []CompleteMeansRead
  <1>1. ASSUME IInv PROVE CompleteMeansRead
    <2> SUFFICES ASSUME pc = "done", NEW f \in Files, Met(f), kind[f] = "plain",
                        disk[f].state = "text", f \notin read
                 PROVE  /\ ~Complete(budget)
                        /\ f \in Production => ~ProductionComplete(budget)
      BY DEF CompleteMeansRead
    <2>1. CASE budget.truncated
      BY <2>1 DEF Complete, ProductionComplete
    <2>2. CASE ~budget.truncated
      <3>1. f \in skips
        BY <1>1, <2>2, NothingToCome, Parts DEF SourceAccounted, Accounted
      <3>2. /\ budget.skipped_files = Cardinality(skips) /\ skips \subseteq Files
            /\ budget.skipped_production = Cardinality(skips \cap Production)
        BY <1>1, Parts DEF Balanced, WalkOK
      <3>3. Cardinality(skips) # 0
        BY <3>1, <3>2, FinitelyMany, FS_EmptySet
      <3>4. f \in Production => Cardinality(skips \cap Production) # 0
        BY <3>1, <3>2, FinitelyMany, FS_EmptySet
      <3> QED
        BY <3>2, <3>3, <3>4 DEF Complete, ProductionComplete
    <2> QED
      BY <2>1, <2>2
  <1> QED
    BY <1>1, Invariant, PTL

\* A walk that was not truncated says exactly one thing of every path of
\* interest it was bound to meet.
THEOREM EveryPath == Spec => []EveryPathAccounted
  <1>1. ASSUME IInv PROVE EveryPathAccounted
    <2> SUFFICES ASSUME pc = "done", ~budget.truncated, NEW p \in Paths, Interesting(p)
                 PROVE  Cardinality(Places(p)) = 1
      BY DEF EveryPathAccounted, Interesting
    <2>1. /\ MetOnce /\ Balanced(budget, read, unread, inventory, skips)
          /\ unread = {} /\ ~ToCome(p)
      BY <1>1, Parts, NothingToCome
    <2>2. p \in read \cup skips \/ \E l \in Lists : p \in skipped[l]
      BY <1>1, <2>1, Parts DEF PathsAccounted, Accounted
    <2>3. read \subseteq inventory /\ skips \cap read = {}
      BY <2>1 DEF Balanced
    <2>4. \A x : x \in Places(p) <=>
                   \/ x \in Lists /\ p \in skipped[x]
                   \/ x = "read" /\ p \in read
                   \/ x = "skipped source" /\ p \in skips /\ ~\E l \in Lists : p \in skipped[l]
      BY Zenon DEF Places
    <2>5. ASSUME NEW l \in Lists, p \in skipped[l] PROVE Cardinality(Places(p)) = 1
      <3>1. p \notin read /\ \A m \in Lists : p \in skipped[m] => l = m
        BY <2>1, <2>3, <2>5 DEF MetOnce
      <3>2. \A y : y \in Places(p) <=> y = l
        BY <2>4, <2>5, <3>1, Zenon
      <3>3. Places(p) = {l}
        BY <3>2, Zenon
      <3> QED
        BY <3>3, FS_Singleton, Zenon
    <2>6. CASE (~\E l \in Lists : p \in skipped[l]) /\ p \in read
      <3>1. p \notin skips
        BY <2>3, <2>6
      <3>2. \A y : y \in Places(p) <=> y = "read"
        BY <2>4, <2>6, <3>1, Zenon
      <3>3. Places(p) = {"read"}
        BY <3>2, Zenon
      <3> QED
        BY <3>3, FS_Singleton, Zenon
    <2>7. CASE (~\E l \in Lists : p \in skipped[l]) /\ p \notin read
      <3>1. p \in skips
        BY <2>2, <2>7
      <3>2. \A y : y \in Places(p) <=> y = "skipped source"
        BY <2>4, <2>7, <3>1, Zenon
      <3>3. Places(p) = {"skipped source"}
        BY <3>2, Zenon
      <3> QED
        BY <3>3, FS_Singleton, Zenon
    <2> QED
      BY <2>5, <2>6, <2>7
  <1> QED
    BY <1>1, Invariant, PTL

(***************************************************************************)
(* What an undisturbed scan decides, of a repository where k is the kind   *)
(* of each path and s what each file is on disk.                           *)
(***************************************************************************)
Kinds == [Paths -> DirKinds \cup FileKinds]
Disks == [Files -> Disk]

\* The paths an undisturbed walk meets.
Reach(k, s) ==
  {p \in Paths \ {OutDir} :
     /\ \A d \in Above[p] \ {Root} : d # OutDir /\ k[d] = "plain"
     /\ p \in Files => s[p].state # "missing"}

\* The list a path is put into, or None.
ListOf(k, s, p) ==
  IF k[p] \in Lists THEN k[p]
  ELSE IF p \notin Files \/ k[p] # "plain" THEN None
  ELSE IF s[p].state \in Lists THEN s[p].state
  ELSE IF s[p].size > MaxFileBytes THEN "oversized" ELSE None

\* A source file that only the ceilings on all sources may refuse.
Fitting(k, s, f) ==
  /\ f \in Files /\ k[f] = "plain"
  /\ s[f].state \in {"text", "binary"} /\ s[f].size <= MaxFileBytes

\* What a file weighs in the budget, and what a set of files does.
Size(s, f) == IF s[f].state = "unreadable" THEN 0 ELSE s[f].size
Held(s, S) == [admitted |-> [f \in Files |-> IF f \in S THEN Size(s, f) ELSE None]]
Weight(s, S) == Cardinality(BytesIn(Held(s, S)))

\* A walk takes the directories in their order, and the files of each.
Earlier(g, f) ==
  \E d \in Dirs : \E e \in Dirs :
    /\ g \in Contained[d] /\ f \in Contained[e]
    /\ Place[d] < Place[e] \/ (d = e /\ Place[g] < Place[f])

\* The files S leave room for f.
Room(s, f, S) ==
  Cardinality(S) < MaxSourceFiles /\ Weight(s, S) + Size(s, f) <= MaxSourceBytes

\* Of the files in P, J has those for which the earlier ones leave room.
Chosen(k, s, J, P) ==
  /\ J \subseteq {f \in P : Fitting(k, s, f)}
  /\ \A f \in P : Fitting(k, s, f) => (f \in J <=> Room(s, f, {g \in J : Earlier(g, f)}))

\* What is listed, read, skipped and charged of the paths P, when the files J
\* were taken of them and U are still to be read.
ListsOf(k, s, P) == [l \in Lists |-> {p \in P : ListOf(k, s, p) = l}]
With(lists, l, p) == [lists EXCEPT ![l] = @ \cup {p}]
ReadOf(s, J, U) == {f \in J \ U : s[f].state = "text"}
SkipsOf(k, s, P, J, U) ==
  {f \in P : /\ f \in Files /\ k[f] = "plain"
             /\ \/ s[f].state = "unreadable"
                \/ s[f].state \in {"text", "binary"} /\ f \notin J
                \/ s[f].state = "binary" /\ f \notin U}
ChargedOf(k, P) == {p \in P : p \in Dirs \/ k[p] \notin SelfFile}

\* The evidence of a scan that met everything and took the files J.
BudgetOf(k, s, J) ==
  LET fetched == ReadOf(s, J, {}) left == SkipsOf(k, s, Reach(k, s), J, {}) IN
  [walk_entries |-> Cardinality(ChargedOf(k, Reach(k, s))),
   source_files |-> Cardinality(fetched), source_bytes |-> Weight(s, fetched),
   skipped_files |-> Cardinality(left), skipped_bytes |-> Weight(s, left),
   skipped_production |-> Cardinality(left \cap Production),
   truncated |-> FALSE, omitted |-> 0, admitted |-> Held(s, fetched).admitted]

EvidenceOf(k, s, J) ==
  [complete |-> Complete(BudgetOf(k, s, J)),
   production_complete |-> ProductionComplete(BudgetOf(k, s, J)),
   budget |-> BudgetOf(k, s, J), skipped |-> ListsOf(k, s, Reach(k, s)),
   inventory |-> J, read |-> ReadOf(s, J, {})]

(***************************************************************************)
(* The invariant of an undisturbed scan.                                   *)
(***************************************************************************)
\* What a walk has dealt with.
Behind == {p \in Reach(kind, disk) : ~ToCome(p)}

\* A directory to enter.
Entered(d) == d = Root \/ (d \in Reach(kind, disk) /\ kind[d] = "plain")

AheadReached ==
  /\ files \subseteq Reach(kind, disk) /\ dirs \ {OutDir} \subseteq Reach(kind, disk)
  /\ \A d \in pending \cup kept : Entered(d)
  /\ pc \in {"dirs", "files"} => Entered(here)

\* What is behind comes before what is ahead.
Ordered ==
  /\ pc \in {"dirs", "files"} => \A e \in Ahead : Place[here] < Place[e]
  /\ \A f \in Behind : f \in Files =>
       \E d \in Dirs : /\ f \in Contained[d] /\ \A e \in Ahead : Place[d] < Place[e]
                       /\ \A h \in files : Earlier(f, h)

Determined ==
  /\ skipped = ListsOf(kind, disk, Behind)
  /\ Chosen(kind, disk, inventory, Behind)
  /\ unread \subseteq inventory /\ (pc \in {"list", "dirs", "files"} => unread = inventory)
  /\ read = ReadOf(disk, inventory, unread)
  /\ skips = SkipsOf(kind, disk, Behind, inventory, unread)
  /\ budget.walk_entries = Cardinality(ChargedOf(kind, Behind))
  /\ budget.skipped_bytes = Weight(disk, skips) /\ budget.omitted = 0
  /\ budget.admitted = Held(disk, read \cup unread).admitted

\* A scan that nothing disturbed told what there is to tell of the repository.
Told ==
  \E J \in SUBSET Files : Chosen(kind, disk, J, Reach(kind, disk)) /\ last = EvidenceOf(kind, disk, J)

Undisturbed ==
  /\ changes \in Nat
  /\ changes = 0 /\ ~budget.truncated => AheadReached /\ Ordered /\ Determined
  /\ changes = 0 /\ last # None => last.budget.truncated \/ Told

(***************************************************************************)
(* Lemmas: weights, order and choice.                                      *)
(***************************************************************************)
\* A file weighs a number of bytes.
LEMMA SizeType == \A s \in Disks, f \in Files : Size(s, f) \in Nat
  BY DEF Disks, Disk, Size

\* The weight of a set of files, and of one file more.
LEMMA WeightIs ==
  ASSUME NEW s \in Disks, NEW S \in SUBSET Files
  PROVE  /\ Held(s, S).admitted \in [Files -> Nat \cup {None}]
         /\ AdmittedIn(Held(s, S)) = S
         /\ IsFiniteSet(BytesIn(Held(s, S))) /\ Weight(s, S) \in Nat
  <1> DEFINE h == Held(s, S)
  <1>1. h.admitted = [f \in Files |-> IF f \in S THEN Size(s, f) ELSE None]
    BY DEF Held
  <1>2. h.admitted \in [Files -> Nat \cup {None}]
    BY <1>1, SizeType
  <1> HIDE DEF h
  <1>3. AdmittedIn(h) = S
    BY <1>1, SizeType, Limits DEF AdmittedIn
  <1>4. IsFiniteSet(BytesIn(h))
    <2> DEFINE own(f) == {f} \X (1 .. h.admitted[f])
               every == {own(f) : f \in S}
    <2>1. IsFiniteSet(every)
      <3>1. IsFiniteSet(S)
        BY FinitelyMany
      <3>2. [f \in S |-> own(f)] \in Surjection(S, every)
        BY DEF Surjection
      <3> HIDE DEF every
      <3> QED BY <3>1, <3>2, FS_Surjection DEF ExistsSurjection
    <2>2. ASSUME NEW f \in S PROVE IsFiniteSet(own(f))
      <3>1. h.admitted[f] \in Nat
        BY <1>1, SizeType
      <3>2. IsFiniteSet(1 .. h.admitted[f])
        <4> DEFINE n == h.admitted[f]
        <4> HIDE DEF n
        <4>1. 1 \in Int /\ n \in Int
          BY <3>1 DEF n
        <4>2. IsFiniteSet(1 .. n)
          BY <4>1, FS_Interval
        <4> QED BY <4>2 DEF n
      <3> QED BY <3>2, FS_Singleton, FS_Product
    <2>3. \A T \in every : IsFiniteSet(T)
      BY <2>2
    <2>4. BytesIn(h) = UNION every
      BY <1>3 DEF BytesIn
    <2> HIDE DEF every
    <2> QED BY <2>1, <2>3, <2>4, FS_UNION
  <1>5. Weight(s, S) \in Nat
    BY <1>4, FS_CardinalityType DEF Weight, h
  <1> QED BY <1>2, <1>3, <1>4, <1>5 DEF h

\* One file more adds its size to the weight.
LEMMA WeightMore ==
  ASSUME NEW s \in Disks, NEW S \in SUBSET Files, NEW f \in Files \ S
  PROVE  /\ Held(s, S \cup {f}).admitted = [Held(s, S).admitted EXCEPT ![f] = Size(s, f)]
         /\ Weight(s, S \cup {f}) = Weight(s, S) + Size(s, f)
  <1> DEFINE b == Held(s, S)
             c == Held(s, S \cup {f})
  <1>1. c.admitted = [b.admitted EXCEPT ![f] = Size(s, f)]
    BY DEF Held
  <1>2. b.admitted[f] = None
    BY DEF Held
  <1>3. b.admitted \in [Files -> Nat \cup {None}] /\ IsFiniteSet(BytesIn(b))
    BY WeightIs
  <1>4. Size(s, f) \in Nat
    BY SizeType
  <1> HIDE DEF b, c
  <1>5. Cardinality(BytesIn(c)) = Cardinality(BytesIn(b)) + Size(s, f)
    BY <1>1, <1>2, <1>3, <1>4, BytesJoin
  <1> QED BY <1>1, <1>5 DEF Weight, b, c

\* No file weighs nothing.
LEMMA WeightNone ==
  ASSUME NEW s \in Disks
  PROVE  Held(s, {}).admitted = [f \in Files |-> None] /\ Weight(s, {}) = 0
  <1>1. Held(s, {}).admitted = [f \in Files |-> None]
    BY DEF Held
  <1>2. AdmittedIn(Held(s, {})) = {}
    BY WeightIs
  <1>3. BytesIn(Held(s, {})) = {}
    BY <1>2 DEF BytesIn
  <1> QED BY <1>1, <1>3, FS_EmptySet DEF Weight

\* The order of a walk.
LEMMA Ranked ==
  /\ \A p \in Dirs \cup Files : Place[p] \in Nat
  /\ \A p \in Dirs, q \in Dirs : Place[p] = Place[q] => p = q
  /\ \A p \in Files, q \in Files : Place[p] = Place[q] => p = q
  /\ \A p \in Dirs, d \in Dirs : d \in Above[p] => Place[d] < Place[p]
  BY OrderAssumption DEF OrderAssumption

\* A file stands in one directory.
LEMMA OneParent ==
  ASSUME NEW f \in Files, NEW d \in Dirs, NEW e \in Dirs, f \in Contained[d], f \in Contained[e]
  PROVE  d = e
  <1>1. Above[f] = Above[d] \cup {d} /\ Above[f] = Above[e] \cup {e}
    BY Tree
  <1>2. ASSUME d # e PROVE FALSE
    <2>1. d \in Above[e] /\ e \in Above[d]
      BY <1>1, <1>2
    <2>2. Place[d] < Place[e] /\ Place[e] < Place[d] /\ Place[d] \in Nat /\ Place[e] \in Nat
      BY <2>1, Ranked
    <2> QED BY <2>2
  <1> QED BY <1>2

\* No two files come each before the other.
LEMMA EarlierOnce ==
  ASSUME NEW f \in Files, NEW g \in Files, Earlier(f, g)
  PROVE  ~Earlier(g, f)
  <1> SUFFICES ASSUME Earlier(g, f) PROVE FALSE
    OBVIOUS
  <1>1. PICK d \in Dirs : \E e \in Dirs :
          /\ f \in Contained[d] /\ g \in Contained[e]
          /\ Place[d] < Place[e] \/ (d = e /\ Place[f] < Place[g])
    BY DEF Earlier
  <1>2. PICK e \in Dirs : /\ f \in Contained[d] /\ g \in Contained[e]
                          /\ Place[d] < Place[e] \/ (d = e /\ Place[f] < Place[g])
    BY <1>1
  <1>3. PICK a \in Dirs : \E b \in Dirs :
          /\ g \in Contained[a] /\ f \in Contained[b]
          /\ Place[a] < Place[b] \/ (a = b /\ Place[g] < Place[f])
    BY DEF Earlier
  <1>4. PICK b \in Dirs : /\ g \in Contained[a] /\ f \in Contained[b]
                          /\ Place[a] < Place[b] \/ (a = b /\ Place[g] < Place[f])
    BY <1>3
  <1>5. a = e /\ b = d
    BY <1>2, <1>4, OneParent
  <1>6. Place[d] \in Nat /\ Place[e] \in Nat /\ Place[f] \in Nat /\ Place[g] \in Nat
    BY Ranked
  <1> QED BY <1>2, <1>4, <1>5, <1>6

\* A set of numbers that is not empty has a least one.
LEMMA Least ==
  ASSUME NEW S \in SUBSET Nat, S # {}
  PROVE  \E n \in S : \A m \in S : n <= m
  <1>1. PICK n \in S : \A m \in S : ~(<<m, n>> \in OpToRel(<, Nat))
    BY NatLessThanWellFounded, WFMin
  <1>2. \A m \in S : m \in Nat /\ n \in Nat /\ ~(m < n)
    BY <1>1 DEF OpToRel
  <1>3. \A m \in S : n <= m
    BY <1>2
  <1> QED BY <1>3

\* Some of any files come before all the others.
LEMMA NothingEarlier ==
  ASSUME NEW D \in SUBSET Files, D # {}
  PROVE  \E f \in D : \A g \in D : ~Earlier(g, f)
  <1> DEFINE homes == {d \in Dirs : \E f \in D : f \in Contained[d]}
  <1>1. CASE homes = {}
    BY <1>1 DEF Earlier
  <1>2. CASE homes # {}
    <2> DEFINE N == {Place[d] : d \in homes}
    <2>1. N \in SUBSET Nat /\ N # {}
      BY <1>2, Ranked
    <2>2. PICK n \in N : \A m \in N : n <= m
      <3> HIDE DEF N
      <3> QED BY <2>1, Least
    <2>3. PICK d \in homes : Place[d] = n
      BY <2>2
    <2> DEFINE M == {Place[f] : f \in D \cap Contained[d]}
    <2>4. M \in SUBSET Nat /\ M # {}
      BY <2>3, Ranked
    <2>5. PICK m \in M : \A l \in M : m <= l
      <3> HIDE DEF M
      <3> QED BY <2>4, Least
    <2>6. PICK f \in D \cap Contained[d] : Place[f] = m
      BY <2>5
    <2>7. ASSUME NEW g \in D, Earlier(g, f) PROVE FALSE
      <3>1. PICK a \in Dirs : \E e \in Dirs :
              /\ g \in Contained[a] /\ f \in Contained[e]
              /\ Place[a] < Place[e] \/ (a = e /\ Place[g] < Place[f])
        BY <2>7 DEF Earlier
      <3>2. PICK e \in Dirs : /\ g \in Contained[a] /\ f \in Contained[e]
                              /\ Place[a] < Place[e] \/ (a = e /\ Place[g] < Place[f])
        BY <3>1
      <3>3. e = d
        BY <2>3, <2>6, <3>2, OneParent
      <3>4. n <= Place[a]
        BY <2>2, <3>2
      <3>5. a = d => m <= Place[g]
        BY <2>5, <3>2
      <3>6. Place[a] \in Nat /\ Place[d] \in Nat /\ Place[g] \in Nat /\ Place[f] \in Nat
        BY <2>3, <3>2, Ranked
      <3> QED BY <2>3, <2>6, <3>2, <3>3, <3>4, <3>5, <3>6
    <2> QED BY <2>6, <2>7
  <1> QED BY <1>1, <1>2

\* The ceilings choose one set of files.
LEMMA OneChoice ==
  ASSUME NEW k, NEW s, NEW P, NEW J, NEW L, Chosen(k, s, J, P), Chosen(k, s, L, P)
  PROVE  J = L
  <1> DEFINE D == (J \ L) \cup (L \ J)
  <1>1. J \subseteq P /\ L \subseteq P /\ D \in SUBSET Files /\ \A f \in J \cup L : Fitting(k, s, f)
    BY DEF Chosen, Fitting
  <1>2. ASSUME D # {} PROVE FALSE
    <2>1. PICK f \in D : \A g \in D : ~Earlier(g, f)
      <3> HIDE DEF D
      <3> QED BY <1>1, <1>2, NothingEarlier
    <2>2. {g \in J : Earlier(g, f)} = {g \in L : Earlier(g, f)}
      BY <2>1
    <2>3. f \in P /\ Fitting(k, s, f)
      BY <1>1
    <2>4. (f \in J <=> Room(s, f, {g \in J : Earlier(g, f)})) /\ (f \in L <=> Room(s, f, {g \in L : Earlier(g, f)}))
      BY <2>3 DEF Chosen
    <2> QED BY <2>2, <2>4
  <1> QED BY <1>2

\* A file is judged by its list, its fit, and the room the budget leaves.
LEMMA JudgedIs ==
  ASSUME NEW b \in Budgets, NEW f \in Files, kind \in Kinds, disk \in Disks,
         disk[f].state # "missing", NEW v, v = Judged(b, f)
  PROVE  /\ v.list = ListOf(kind, disk, f)
         /\ v.joins <=> /\ Fitting(kind, disk, f)
                        /\ b.source_files < MaxSourceFiles
                        /\ b.source_bytes + Size(disk, f) <= MaxSourceBytes
         /\ v.budget = IF v.joins THEN include_source(b, f, Size(disk, f))
                       ELSE IF kind[f] = "plain" /\ disk[f].state \in {"text", "binary", "unreadable"}
                         THEN skip_source(b, f, Size(disk, f)) ELSE b
         /\ v.joins \in BOOLEAN
  <1> DEFINE state == disk[f].state
             size == disk[f].size
  <1>1. size \in Nat /\ state \in States
    BY DEF Disks, Disk
  <1>2. \A l, c, j : v = Verdict(l, c, j) => v.list = l /\ v.budget = c /\ v.joins = j
    BY DEF Verdict
  <1>3. /\ "unreadable" \in Lists /\ "text" \notin Lists /\ "binary" \notin Lists
        /\ RefusedLink \subseteq Lists /\ "text" \notin RefusedLink /\ "binary" \notin RefusedLink
        /\ "unreadable" \notin RefusedLink /\ "plain" \notin Lists
        /\ state \in RefusedLink \cup {"text", "binary", "unreadable"}
    BY <1>1 DEF Lists, RefusedLink, States
  <1>4. CASE kind[f] \in Lists
    <2>1. v = Verdict(kind[f], b, FALSE)
      BY <1>4 DEF Judged
    <2>2. kind[f] # "plain"
      BY <1>3, <1>4
    <2> QED
      BY <1>2, <1>4, <2>1, <2>2 DEF ListOf, Fitting
  <1>5. CASE kind[f] \notin Lists /\ kind[f] # "plain"
    <2>1. v = Verdict(None, b, FALSE)
      BY <1>5 DEF Judged
    <2> QED
      BY <1>2, <1>5, <2>1 DEF ListOf, Fitting
  <1>6. CASE kind[f] = "plain" /\ state = "unreadable"
    <2>1. v = Verdict("unreadable", skip_source(b, f, 0), FALSE)
      BY <1>3, <1>6 DEF Judged
    <2>2. v.list = "unreadable" /\ v.budget = skip_source(b, f, 0) /\ v.joins = FALSE
      BY <1>2, <2>1
    <2>3. ListOf(kind, disk, f) = "unreadable" /\ Size(disk, f) = 0 /\ ~Fitting(kind, disk, f)
      BY <1>3, <1>6 DEF ListOf, Size, Fitting
    <2> QED
      BY <1>6, <2>2, <2>3
  <1>7. CASE kind[f] = "plain" /\ state \in RefusedLink
    <2>1. v = Verdict(state, b, FALSE)
      BY <1>3, <1>7 DEF Judged
    <2>2. v.list = state /\ v.budget = b /\ v.joins = FALSE
      BY <1>2, <2>1
    <2>3. ListOf(kind, disk, f) = state /\ ~Fitting(kind, disk, f)
      BY <1>3, <1>7 DEF ListOf, Fitting
    <2> QED
      BY <1>3, <1>7, <2>2, <2>3
  <1>8. CASE kind[f] = "plain" /\ state \in {"text", "binary"}
    <2>1. Size(disk, f) = size /\ state \notin Lists
      BY <1>3, <1>8 DEF Size
    <2>2. CASE size > MaxFileBytes
      <3>1. v = Verdict("oversized", skip_source(b, f, size), FALSE)
        BY <1>3, <1>8, <2>1, <2>2 DEF Judged
      <3>2. v.list = "oversized" /\ v.budget = skip_source(b, f, size) /\ v.joins = FALSE
        BY <1>2, <3>1
      <3>3. ListOf(kind, disk, f) = "oversized" /\ ~Fitting(kind, disk, f)
        BY <1>1, <1>3, <1>8, <2>1, <2>2, Limits DEF ListOf, Fitting
      <3> QED
        BY <1>8, <2>1, <3>2, <3>3
    <2>3. CASE ~(size > MaxFileBytes)
      <3>1. v = IF source_refusal(b, size) # None THEN Verdict(None, skip_source(b, f, size), FALSE)
                                                 ELSE Verdict(None, include_source(b, f, size), TRUE)
        BY <1>3, <1>8, <2>1, <2>3 DEF Judged
      <3>2. ListOf(kind, disk, f) = None /\ Fitting(kind, disk, f)
        BY <1>1, <1>3, <1>8, <2>1, <2>3, Limits DEF ListOf, Fitting
      <3>3. source_refusal(b, size) = None
              <=> b.source_files < MaxSourceFiles /\ b.source_bytes + size <= MaxSourceBytes
        BY <1>1, <2>3, Limits, WalkAssumption DEF source_refusal, Refusals, WalkAssumption, Budgets
      <3>4. CASE source_refusal(b, size) = None
        <4>1. v.list = None /\ v.budget = include_source(b, f, size) /\ v.joins = TRUE
          BY <1>2, <3>1, <3>4
        <4> QED
          BY <2>1, <3>2, <3>3, <3>4, <4>1
      <3>5. CASE source_refusal(b, size) # None
        <4>1. v.list = None /\ v.budget = skip_source(b, f, size) /\ v.joins = FALSE
          BY <1>2, <3>1, <3>5
        <4> QED
          BY <1>8, <2>1, <3>2, <3>3, <3>5, <4>1
      <3> QED BY <3>4, <3>5
    <2> QED BY <2>2, <2>3
  <1> QED
    BY <1>3, <1>4, <1>5, <1>6, <1>7, <1>8

(***************************************************************************)
(* Lemmas: what is reached and what lies behind.                           *)
(***************************************************************************)
\* Nothing is above the root.
LEMMA AboveRoot == Above[Root] = {}
  <1>1. ASSUME NEW d \in Above[Root] PROVE FALSE
    <2>1. d \in Dirs /\ Root \in Dirs
      BY TreeAssumption, Tree DEF TreeAssumption
    <2>2. d # Root
      BY <2>1, Tree
    <2>3. Root \in Above[d]
      BY <2>1, <2>2, Tree DEF Paths
    <2>4. Place[d] < Place[Root] /\ Place[Root] < Place[d]
      BY <2>1, <2>3, Ranked
    <2>5. Place[d] \in Nat /\ Place[Root] \in Nat
      BY <2>1, Ranked
    <2> QED BY <2>4, <2>5
  <1> QED BY <1>1

\* What stands in a directory to enter is reached.
LEMMA ChildrenReached ==
  ASSUME NEW d \in Dirs, Entered(d)
  PROVE  PresentFiles(d) \subseteq Reach(kind, disk) /\ Subdirs[d] \ {OutDir} \subseteq Reach(kind, disk)
  <1>1. ASSUME NEW p \in Subdirs[d] \cup Contained[d], NEW a \in Above[p] \ {Root}
        PROVE  a # OutDir /\ kind[a] = "plain"
    <2>1. Above[p] = Above[d] \cup {d}
      BY Tree
    <2>2. CASE d = Root
      BY <2>1, <2>2, AboveRoot
    <2>3. CASE d # Root
      <3>1. d \in Reach(kind, disk) /\ kind[d] = "plain"
        BY <2>3 DEF Entered
      <3>2. d # OutDir /\ \A c \in Above[d] \ {Root} : c # OutDir /\ kind[c] = "plain"
        BY <3>1 DEF Reach
      <3> QED BY <2>1, <3>1, <3>2
    <2> QED BY <2>2, <2>3
  <1>2. /\ Contained[d] \subseteq Files /\ Subdirs[d] \subseteq Dirs \ {Root}
        /\ OutDir \notin Files /\ Dirs \cap Files = {}
    BY Tree, WalkAssumption DEF WalkAssumption
  <1>3. ASSUME NEW f \in PresentFiles(d) PROVE f \in Reach(kind, disk)
    <2>1. f \in Contained[d] /\ disk[f].state # "missing"
      BY <1>3 DEF PresentFiles
    <2> QED BY <1>1, <1>2, <2>1 DEF Reach, Paths
  <1>4. ASSUME NEW e \in Subdirs[d] \ {OutDir} PROVE e \in Reach(kind, disk)
    BY <1>1, <1>2 DEF Reach, Paths
  <1> QED BY <1>3, <1>4

\* What it is to be reached.
LEMMA ReachIs ==
  /\ Reach(kind, disk) \subseteq Paths /\ OutDir \notin Reach(kind, disk)
  /\ \A p \in Reach(kind, disk) :
       /\ \A d \in Above[p] : d # Root => d # OutDir /\ kind[d] = "plain"
       /\ p \in Files => disk[p].state # "missing"
  BY DEF Reach

\* What a step leaves behind, when S is what is no longer to come.
LEMMA BehindIs ==
  ASSUME UNCHANGED <<kind, disk>>, NEW S,
         \A p \in Reach(kind, disk) : ~ToCome(p)' <=> (~ToCome(p) \/ p \in S)
  PROVE  Behind' = Behind \cup (S \cap Reach(kind, disk))
  BY DEF Behind

\* What a walk has dealt with is finite.
LEMMA BehindFinite ==
  /\ Behind \subseteq Reach(kind, disk) /\ Behind \subseteq Paths
  /\ IsFiniteSet(Behind) /\ IsFiniteSet(ChargedOf(kind, Behind))
  <1>1. Behind \subseteq Reach(kind, disk) /\ Behind \subseteq Paths
    BY ReachIs DEF Behind
  <1>2. IsFiniteSet(Dirs \cup Files) /\ Paths \subseteq Dirs \cup Files
    BY WalkAssumption DEF WalkAssumption, Paths
  <1>3. ChargedOf(kind, Behind) \subseteq Behind
    BY DEF ChargedOf
  <1> QED BY <1>1, <1>2, <1>3, FS_Subset

\* One path more.
\* One path more joins the list it is put into, if any.
LEMMA ListsMore ==
  ASSUME NEW k, NEW s, NEW P, NEW p
  PROVE  ListsOf(k, s, P \cup {p}) =
           [l \in Lists |-> ListsOf(k, s, P)[l] \cup IF l = ListOf(k, s, p) THEN {p} ELSE {}]
  <1>1. \A l \in Lists : {q \in P \cup {p} : ListOf(k, s, q) = l}
                           = {q \in P : ListOf(k, s, q) = l} \cup IF l = ListOf(k, s, p) THEN {p} ELSE {}
    OBVIOUS
  <1> QED BY <1>1 DEF ListsOf

\* The same, as the walk lists a path.
LEMMA ListedMore ==
  ASSUME NEW k, NEW s, NEW P, NEW p, NEW l, l = ListOf(k, s, p), NEW old, old = ListsOf(k, s, P)
  PROVE  /\ l = None => ListsOf(k, s, P \cup {p}) = old
         /\ l \in Lists => ListsOf(k, s, P \cup {p}) = With(old, l, p)
  <1>1. ListsOf(k, s, P \cup {p}) = [m \in Lists |-> old[m] \cup IF m = l THEN {p} ELSE {}]
    BY ListsMore
  <1>2. None \notin Lists
    BY WalkAssumption DEF WalkAssumption
  <1>3. old = [m \in Lists |-> old[m]]
    BY DEF ListsOf
  <1> HIDE DEF ListsOf
  <1>4. CASE l = None
    <2>1. \A m \in Lists : old[m] \cup (IF m = l THEN {p} ELSE {}) = old[m]
      BY <1>2, <1>4
    <2> QED BY <1>1, <1>2, <1>3, <1>4, <2>1
  <1>5. CASE l \in Lists
    BY <1>1, <1>2, <1>3, <1>5 DEF With
  <1> QED BY <1>2, <1>4, <1>5

\* One path more is one entry more, unless it is a self file.
LEMMA ChargedMore ==
  ASSUME NEW k, NEW P, IsFiniteSet(ChargedOf(k, P)), NEW p, p \notin P
  PROVE  Cardinality(ChargedOf(k, P \cup {p}))
           = IF p \in Dirs \/ k[p] \notin SelfFile THEN Cardinality(ChargedOf(k, P)) + 1
                                                   ELSE Cardinality(ChargedOf(k, P))
  <1>1. CASE p \in Dirs \/ k[p] \notin SelfFile
    <2>1. ChargedOf(k, P \cup {p}) = ChargedOf(k, P) \cup {p} /\ p \notin ChargedOf(k, P)
      BY <1>1 DEF ChargedOf
    <2> QED BY <1>1, <2>1, FS_AddElement
  <1>2. CASE ~(p \in Dirs \/ k[p] \notin SelfFile)
    <2>1. ChargedOf(k, P \cup {p}) = ChargedOf(k, P)
      BY <1>2 DEF ChargedOf
    <2> QED BY <1>2, <2>1
  <1> QED BY <1>1, <1>2

(***************************************************************************)
(* Every step of an undisturbed scan.                                      *)
(***************************************************************************)
Steady == AheadReached /\ Ordered /\ Determined

\* Steps that leave the results and what is behind alone.
LEMMA FrameKeeps ==
  ASSUME Determined, UNCHANGED <<kind, disk, skipped, inventory, budget, skips, unread, read>>,
         Behind' = Behind, pc' \in {"list", "dirs", "files"} => pc \in {"list", "dirs", "files"}
  PROVE  Determined'
  BY DEF Determined

\* A walk that stops at a ceiling is truncated.
LEMMA ExhaustTruncates ==
  ASSUME WalkOK, budget \in Budgets, Exhaust PROVE budget'.truncated
  <1>1. Cardinality(dirs) + Cardinality(files) \in Nat
    BY FinitelyMany DEF WalkOK
  <1> QED BY <1>1 DEF Exhaust, truncate_walk, Budgets

\* A listing puts what stands in the directory ahead.
LEMMA ListDirectorySteady ==
  ASSUME IInv, ListDirectory, ~budget'.truncated
  PROVE  ~budget.truncated /\ (Steady => Steady')
  <1>1. /\ WalkOK /\ RepositoryOK /\ budget \in Budgets /\ Apart
        /\ Balanced(budget, read, unread, inventory, skips) /\ pc = "list"
    BY Parts DEF ListDirectory
  <1>2. /\ UNCHANGED <<kind, disk, out, skipped, inventory, skips, unread, read>>
    BY DEF ListDirectory, repository, result, extraction
  <1>3. PICK d \in pending :
          /\ Foremost(d, pending) /\ pending' = pending \ {d}
          /\ IF d \in unlistable \/ Overfull(d)
               THEN budget' = truncate_walk(budget, IF d \in unlistable THEN 0 ELSE MaxDirectoryEntries + 1)
               ELSE /\ here' = d /\ dirs' = PresentDirs(d) /\ files' = PresentFiles(d)
                    /\ kept' = {} /\ pc' = "dirs" /\ budget' = budget
    BY DEF ListDirectory
  <1>4. ~(d \in unlistable \/ Overfull(d))
    <2>1. (IF d \in unlistable THEN 0 ELSE MaxDirectoryEntries + 1) \in Nat
      BY Limits
    <2>2. truncate_walk(budget, IF d \in unlistable THEN 0 ELSE MaxDirectoryEntries + 1).truncated
      BY <1>1, <2>1, BalanceTruncated
    <2> QED BY <1>3, <2>2
  <1>5. /\ here' = d /\ dirs' = PresentDirs(d) /\ files' = PresentFiles(d)
        /\ kept' = {} /\ pc' = "dirs" /\ budget' = budget
    BY <1>3, <1>4
  <1> SUFFICES ASSUME Steady PROVE Steady'
    BY <1>5
  <1>6. /\ d \in Dirs /\ dirs = {} /\ files = {} /\ kept = {} /\ Ahead = pending /\ Entered(d)
    BY <1>1, <1>3 DEF WalkOK, Apart, Ahead, Steady, AheadReached
  <1>7. /\ PresentDirs(d) \subseteq Subdirs[d] /\ PresentFiles(d) \subseteq Contained[d]
        /\ Ahead' = (pending \ {d}) \cup PresentDirs(d)
        /\ \A s \in Subdirs[d] : s # OutDir => s \in PresentDirs(d)
    BY <1>3, <1>5 DEF PresentDirs, PresentFiles, Ahead
  <1>8. Behind' = Behind
    <2>1. ASSUME NEW p \in Reach(kind, disk), ToCome(p) PROVE ToCome(p)'
      <3>1. PICK e \in pending : e \in Above[p]
        BY <1>6, <2>1 DEF ToCome
      <3>2. CASE e # d
        BY <1>7, <3>1, <3>2 DEF ToCome
      <3>3. CASE e = d
        <4>1. p \in Paths /\ p # OutDir /\ (p \in Files => disk[p].state # "missing")
          BY ReachIs
        <4>2. CASE p \in Subdirs[d]
          BY <1>5, <1>7, <4>1, <4>2 DEF ToCome
        <4>3. CASE p \in Contained[d]
          <5>1. p \in PresentFiles(d)
            BY <4>1, <4>3, Tree, <1>6 DEF PresentFiles
          <5> QED BY <1>5, <5>1 DEF ToCome
        <4>4. ASSUME NEW s \in Subdirs[d], s \in Above[p] PROVE ToCome(p)'
          <5>1. s # OutDir
            BY <1>6, <4>4, ReachIs, Tree
          <5> QED BY <1>7, <4>4, <5>1 DEF ToCome
        <4> QED BY <3>1, <3>3, <4>1, <4>2, <4>3, <4>4, Tree
      <3> QED BY <3>2, <3>3
    <2>2. ASSUME NEW p \in Reach(kind, disk), ToCome(p)' PROVE ToCome(p)
      <3>1. CASE p \in dirs' \cup files'
        <4>1. d \in Above[p]
          BY <1>5, <1>6, <1>7, <3>1, Tree
        <4> QED BY <1>6, <4>1 DEF ToCome
      <3>2. CASE \E a \in Ahead' : a \in Above[p]
        <4>1. PICK a \in Ahead' : a \in Above[p]
          BY <3>2
        <4>2. CASE a \in pending
          BY <1>6, <4>1, <4>2 DEF ToCome
        <4>3. CASE a \in PresentDirs(d)
          <5>1. d \in Above[a] /\ p \in Paths
            BY <1>6, <1>7, <4>3, Tree, ReachIs
          <5>2. d \in Above[p]
            BY <4>1, <5>1, Tree
          <5> QED BY <1>6, <5>2 DEF ToCome
        <4> QED BY <1>7, <4>1, <4>2, <4>3
      <3> QED BY <2>2, <3>1, <3>2 DEF ToCome
    <2> QED BY <1>2, <2>1, <2>2 DEF Behind
  <1>9. Determined'
    BY <1>1, <1>2, <1>5, <1>8, FrameKeeps DEF Steady
  <1>10. AheadReached'
    <2>1. files' \subseteq Reach(kind, disk) /\ dirs' \ {OutDir} \subseteq Reach(kind, disk)
      BY <1>5, <1>6, <1>7, ChildrenReached
    <2>2. \A e \in pending : Entered(e)
      BY DEF Steady, AheadReached
    <2>3. \A e : Entered(e)' <=> Entered(e)
      BY <1>2 DEF Entered
    <2> QED BY <1>2, <1>3, <1>5, <1>6, <2>1, <2>2, <2>3 DEF AheadReached, Entered
  <1>11. Ordered'
    <2>1. ASSUME NEW e \in Ahead' PROVE Place[d] < Place[e] /\ Place[e] \in Nat /\ Place[d] \in Nat
      <3>1. CASE e \in pending \ {d}
        <4>1. e \in Dirs /\ Place[d] <= Place[e]
          BY <1>1, <1>3, <3>1 DEF WalkOK, Foremost
        <4> QED BY <1>6, <3>1, <4>1, Ranked
      <3>2. CASE e \in PresentDirs(d)
        <4>1. e \in Dirs /\ d \in Above[e]
          BY <1>6, <1>7, <3>2, Tree
        <4> QED BY <1>6, <4>1, Ranked
      <3> QED BY <1>7, <3>1, <3>2
    <2>2. ASSUME NEW f \in Behind, f \in Files
          PROVE  \E c \in Dirs : /\ f \in Contained[c] /\ \A e \in Ahead' : Place[c] < Place[e]
                                 /\ \A h \in files' : Earlier(f, h)
      <3>1. PICK c \in Dirs : f \in Contained[c] /\ \A e \in Ahead : Place[c] < Place[e]
        BY <2>2 DEF Steady, Ordered
      <3>2. Place[c] < Place[d] /\ Place[c] \in Nat
        BY <1>6, <3>1, Ranked
      <3>3. \A e \in Ahead' : Place[c] < Place[e]
        BY <2>1, <3>2
      <3>4. \A h \in files' : Earlier(f, h)
        BY <1>5, <1>6, <1>7, <3>1, <3>2 DEF Earlier
      <3> QED BY <3>1, <3>3, <3>4
    <2> QED BY <1>5, <1>8, <2>1, <2>2 DEF Ordered
  <1> QED BY <1>9, <1>10, <1>11 DEF Steady

\* A directory that is classified is behind, or kept to be entered.
LEMMA ClassifyDirectorySteady ==
  ASSUME IInv, ClassifyDirectory, ~budget'.truncated
  PROVE  ~budget.truncated /\ (Steady => Steady')
  <1>1. /\ WalkOK /\ RepositoryOK /\ budget \in Budgets /\ Apart
        /\ Balanced(budget, read, unread, inventory, skips) /\ pc = "dirs"
    BY Parts DEF ClassifyDirectory
  <1>2. UNCHANGED <<kind, disk, skips, unread, read>>
    BY DEF ClassifyDirectory, extraction, repository
  <1>3. PICK d \in dirs :
          \/ d # OutDir /\ walk_entries_exhausted(budget) /\ Exhaust
          \/ /\ d = OutDir \/ ~walk_entries_exhausted(budget)
             /\ dirs' = dirs \ {d}
             /\ budget' = IF d = OutDir THEN budget ELSE Charged(budget)
             /\ IF d # OutDir /\ kind[d] \in Lists THEN Listed(kind[d], d) ELSE UNCHANGED skipped
             /\ kept' = IF d # OutDir /\ kind[d] = "plain" THEN kept \cup {d} ELSE kept
             /\ UNCHANGED <<pc, inventory, pending, here, files>>
    BY DEF ClassifyDirectory
  <1>4. ~Exhaust
    BY <1>1, ExhaustTruncates
  <1>5. /\ dirs' = dirs \ {d}
        /\ budget' = IF d = OutDir THEN budget ELSE Charged(budget)
        /\ IF d # OutDir /\ kind[d] \in Lists THEN Listed(kind[d], d) ELSE UNCHANGED skipped
        /\ kept' = IF d # OutDir /\ kind[d] = "plain" THEN kept \cup {d} ELSE kept
        /\ UNCHANGED <<pc, inventory, pending, here, files>>
    BY <1>3, <1>4
  <1>6. ~budget.truncated /\ /\ budget'.omitted = budget.omitted /\ budget'.admitted = budget.admitted
                             /\ budget'.skipped_bytes = budget.skipped_bytes
                             /\ budget'.walk_entries = IF d = OutDir THEN budget.walk_entries
                                                                     ELSE budget.walk_entries + 1
    BY <1>1, <1>5 DEF Charged, Budgets
  <1> SUFFICES ASSUME Steady PROVE Steady'
    BY <1>6
  <1>7. d \in Dirs /\ d # Root /\ d \notin Files /\ d \in Ahead /\ (d # OutDir => d \in Reach(kind, disk))
    BY <1>1, Tree DEF WalkOK, Ahead, Steady, AheadReached
  <1>8. Ahead' \subseteq Ahead /\ \A a \in Ahead : a = d \/ a \in Ahead'
    BY <1>5, <1>7 DEF Ahead
  <1>9. ToCome(d) /\ ~ToCome(d)'
    <2>1. \A a \in Ahead' : a \notin Above[d]
      BY <1>1, <1>7, <1>8 DEF Apart
    <2>2. d \notin dirs' \cup files'
      BY <1>1, <1>5, <1>7 DEF WalkOK
    <2> QED BY <1>3, <2>1, <2>2 DEF ToCome
  <1>10. ASSUME NEW p \in Reach(kind, disk), p # d PROVE ToCome(p)' <=> ToCome(p)
    <2>1. ToCome(p)' => ToCome(p)
      BY <1>5, <1>8 DEF ToCome
    <2>2. CASE p \in dirs \cup files
      BY <1>5, <1>10, <2>2 DEF ToCome
    <2>3. ASSUME NEW a \in Ahead, a \in Above[p] PROVE ToCome(p)'
      <3>1. CASE a # d
        BY <1>8, <2>3, <3>1 DEF ToCome
      <3>2. CASE a = d
        <4>1. d # OutDir /\ kind[d] = "plain"
          BY <1>7, <1>10, <2>3, <3>2, ReachIs
        <4>2. d \in Ahead'
          BY <1>5, <4>1 DEF Ahead
        <4> QED BY <2>3, <3>2, <4>2 DEF ToCome
      <3> QED BY <3>1, <3>2
    <2> QED BY <2>1, <2>2, <2>3 DEF ToCome
  <1>11. /\ \A e : Entered(e)' <=> Entered(e)
         /\ \A e \in pending \cup kept : Entered(e)
    BY <1>2 DEF Entered, Steady, AheadReached
  <1>12. AheadReached'
    <2>1. d # OutDir /\ kind[d] = "plain" => Entered(d)
      BY <1>7 DEF Entered
    <2>2. \A e \in pending' \cup kept' : Entered(e)
      BY <1>5, <1>11, <2>1
    <2>3. pc \in {"dirs", "files"} => Entered(here)
      BY DEF Steady, AheadReached
    <2>4. files' \subseteq Reach(kind, disk) /\ dirs' \ {OutDir} \subseteq Reach(kind, disk)
      BY <1>5 DEF Steady, AheadReached
    <2> QED BY <1>2, <1>5, <2>2, <2>3, <2>4 DEF AheadReached, Entered
  <1>13. Behind' = Behind \cup ({d} \cap Reach(kind, disk))
    BY <1>2, <1>9, <1>10, BehindIs
  <1>14. Ordered'
    <2>1. pc \in {"dirs", "files"} => \A e \in Ahead' : Place[here] < Place[e]
      BY <1>8 DEF Steady, Ordered
    <2>2. ASSUME NEW f \in Behind', f \in Files
          PROVE  \E c \in Dirs : /\ f \in Contained[c] /\ \A e \in Ahead' : Place[c] < Place[e]
                                 /\ \A h \in files' : Earlier(f, h)
      <3>1. f \in Behind
        BY <1>7, <1>13, <2>2
      <3> QED BY <1>5, <1>8, <2>2, <3>1 DEF Steady, Ordered
    <2> QED BY <1>5, <2>1, <2>2 DEF Ordered
  <1>15. Determined'
    <2>1. CASE d = OutDir
      <3>1. Behind' = Behind /\ budget' = budget /\ skipped' = skipped
        BY <1>5, <1>13, <2>1, ReachIs
      <3> QED BY <1>1, <1>2, <1>5, <3>1, FrameKeeps DEF Steady
    <2>2. CASE d # OutDir
      <3>1. Behind' = Behind \cup {d} /\ d \notin Behind
        BY <1>7, <1>9, <1>13, <2>2 DEF Behind
      <3>2. skipped' = ListsOf(kind, disk, Behind')
        <4> DEFINE l == ListOf(kind, disk, d)
        <4>1. l = IF kind[d] \in Lists THEN kind[d] ELSE None
          BY <1>7 DEF ListOf
        <4>2. skipped' = IF kind[d] \in Lists THEN [skipped EXCEPT ![kind[d]] = @ \cup {d}] ELSE skipped
          BY <1>5, <2>2 DEF Listed
        <4>3. skipped = ListsOf(kind, disk, Behind)
          BY DEF Steady, Determined
        <4>4. /\ l = None => ListsOf(kind, disk, Behind \cup {d}) = ListsOf(kind, disk, Behind)
              /\ l \in Lists => ListsOf(kind, disk, Behind \cup {d})
                                  = With(ListsOf(kind, disk, Behind), l, d)
          <5>1. l = ListOf(kind, disk, d)
            OBVIOUS
          <5> HIDE DEF l
          <5> QED BY <5>1, ListedMore
        <4> HIDE DEF l
        <4> QED BY <3>1, <4>1, <4>2, <4>3, <4>4 DEF With
      <3>3. Chosen(kind, disk, inventory, Behind')
        <4>1. Chosen(kind, disk, inventory, Behind) /\ ~Fitting(kind, disk, d)
          BY <1>7 DEF Steady, Determined, Fitting
        <4> QED BY <3>1, <4>1 DEF Chosen
      <3>4. skips = SkipsOf(kind, disk, Behind', inventory, unread)
        <4>1. skips = SkipsOf(kind, disk, Behind, inventory, unread)
          BY DEF Steady, Determined
        <4> QED BY <1>7, <3>1, <4>1 DEF SkipsOf
      <3>5. budget'.walk_entries = Cardinality(ChargedOf(kind, Behind'))
        <4>1. budget.walk_entries = Cardinality(ChargedOf(kind, Behind))
          BY DEF Steady, Determined
        <4> QED BY <1>6, <1>7, <2>2, <3>1, <4>1, BehindFinite, ChargedMore
      <3>6. unread' \subseteq inventory' /\ (pc' \in {"list", "dirs", "files"} => unread' = inventory')
        BY <1>2, <1>5 DEF Steady, Determined
      <3> QED BY <1>2, <1>5, <1>6, <3>2, <3>3, <3>4, <3>5, <3>6 DEF Steady, Determined
    <2> QED BY <2>1, <2>2
  <1> QED BY <1>12, <1>14, <1>15 DEF Steady

\* The files of a directory follow its directories.
LEMMA EndDirectoriesSteady ==
  ASSUME EndDirectories PROVE budget' = budget /\ (Steady => Steady')
  <1>1. /\ UNCHANGED <<kind, disk, pending, here, dirs, files, kept, skipped, inventory, budget, skips,
                       unread, read>>
        /\ pc = "dirs" /\ pc' = "files"
    BY DEF EndDirectories, repository, walk, result, extraction
  <1>2. Ahead' = Ahead /\ \A p : ToCome(p)' <=> ToCome(p)
    BY <1>1 DEF Ahead, ToCome
  <1>3. Behind' = Behind
    BY <1>1, <1>2 DEF Behind
  <1> SUFFICES ASSUME Steady PROVE Steady'
    BY <1>1
  <1>4. Determined'
    BY <1>1, <1>3, FrameKeeps DEF Steady
  <1>5. AheadReached'
    BY <1>1 DEF Steady, AheadReached, Entered
  <1>6. Ordered'
    BY <1>1, <1>2, <1>3 DEF Steady, Ordered
  <1> QED BY <1>4, <1>5, <1>6 DEF Steady

\* A directory that is done leaves its own directories to be entered.
LEMMA EndFilesSteady ==
  ASSUME EndFiles PROVE budget' = budget /\ (Steady => Steady')
  <1>1. /\ UNCHANGED <<kind, disk, here, dirs, files, skipped, inventory, budget, skips, unread, read>>
        /\ pc = "files" /\ pc' = "list" /\ files = {} /\ pending' = pending \cup kept /\ kept' = {}
    BY DEF EndFiles, repository, walk, result, extraction
  <1>2. Ahead' = Ahead /\ \A p : ToCome(p)' <=> ToCome(p)
    BY <1>1 DEF Ahead, ToCome
  <1>3. Behind' = Behind
    BY <1>1, <1>2 DEF Behind
  <1> SUFFICES ASSUME Steady PROVE Steady'
    BY <1>1
  <1>4. Determined'
    BY <1>1, <1>3, FrameKeeps DEF Steady
  <1>5. AheadReached'
    BY <1>1 DEF Steady, AheadReached, Entered
  <1>6. Ordered'
    BY <1>1, <1>2, <1>3 DEF Steady, Ordered
  <1> QED BY <1>4, <1>5, <1>6 DEF Steady

\* The end of the walk and of the reading leaves what was decided.
LEMMA EndsSteady ==
  ASSUME EndWalk \/ WriteEvidence PROVE budget' = budget /\ (Steady => Steady')
  <1>1. /\ UNCHANGED <<kind, disk, pending, here, dirs, files, kept, skipped, inventory, budget, skips,
                       unread, read>>
        /\ pc' \in {"read", "done"}
    BY DEF EndWalk, WriteEvidence, repository, walk, result, extraction
  <1>2. Ahead' = Ahead /\ \A p : ToCome(p)' <=> ToCome(p)
    BY <1>1 DEF Ahead, ToCome
  <1>3. Behind' = Behind
    BY <1>1, <1>2 DEF Behind
  <1> SUFFICES ASSUME Steady PROVE Steady'
    BY <1>1
  <1>4. Determined'
    BY <1>1, <1>3, FrameKeeps DEF Steady
  <1>5. AheadReached'
    BY <1>1 DEF Steady, AheadReached, Entered
  <1>6. Ordered'
    BY <1>1, <1>2, <1>3 DEF Steady, Ordered
  <1> QED BY <1>4, <1>5, <1>6 DEF Steady

\* What the operations of the budget leave alone.
LEMMA BudgetMoves ==
  ASSUME NEW b \in Budgets, NEW f \in Files, NEW n \in Nat
  PROVE  /\ Charged(b) \in Budgets /\ Charged(b).walk_entries = b.walk_entries + 1
         /\ Charged(b).source_files = b.source_files /\ Charged(b).source_bytes = b.source_bytes
         /\ Charged(b).admitted = b.admitted /\ Charged(b).omitted = b.omitted
         /\ Charged(b).skipped_bytes = b.skipped_bytes /\ Charged(b).truncated = b.truncated
         /\ Charged(b).skipped_files = b.skipped_files
         /\ include_source(b, f, n).skipped_bytes = b.skipped_bytes
         /\ include_source(b, f, n).omitted = b.omitted
         /\ skip_source(b, f, n).skipped_bytes = b.skipped_bytes + n
         /\ skip_source(b, f, n).omitted = b.omitted
  BY DEF Charged, include_source, skip_source, Budgets

\* One file more, with the files J taken before it.
LEMMA ChosenMore ==
  ASSUME NEW k, NEW s, NEW P, NEW J \in SUBSET Files, NEW f \in Files \ P, Chosen(k, s, J, P),
         \A h \in P : h \in Files => Earlier(h, f),
         NEW L, L \in {J, J \cup {f}}, f \in L <=> Fitting(k, s, f) /\ Room(s, f, J)
  PROVE  Chosen(k, s, L, P \cup {f})
  <1>1. /\ J \subseteq {h \in P : Fitting(k, s, h)} /\ f \notin J
        /\ \A h \in P : Fitting(k, s, h) => (h \in J <=> Room(s, h, {g \in J : Earlier(g, h)}))
    BY DEF Chosen
  <1>2. L \subseteq {h \in P \cup {f} : Fitting(k, s, h)}
    BY <1>1
  <1>3. ~Earlier(f, f) /\ \A h \in P : h \in Files => ~Earlier(f, h)
    BY EarlierOnce
  <1>4. ASSUME NEW h \in P, Fitting(k, s, h)
        PROVE  h \in L <=> Room(s, h, {g \in L : Earlier(g, h)})
    <2>1. {g \in L : Earlier(g, h)} = {g \in J : Earlier(g, h)}
      BY <1>3, <1>4 DEF Fitting
    <2> QED BY <1>1, <1>4, <2>1
  <1>5. {g \in L : Earlier(g, f)} = J
    BY <1>1, <1>3
  <1> QED BY <1>2, <1>4, <1>5 DEF Chosen

\* A file is taken exactly when the earlier ones leave it room.
LEMMA ClassifyFileSteady ==
  ASSUME IInv, ClassifyFile, ~budget'.truncated
  PROVE  ~budget.truncated /\ (Steady => Steady')
  <1>1. /\ WalkOK /\ RepositoryOK /\ budget \in Budgets /\ Apart
        /\ Balanced(budget, read, unread, inventory, skips) /\ pc = "files"
        /\ kind \in Kinds /\ disk \in Disks
    BY Parts DEF ClassifyFile, RepositoryOK, Kinds, Disks
  <1>2. UNCHANGED <<kind, disk, read>>
    BY DEF ClassifyFile, repository
  <1> DEFINE b(f) == IF kind[f] \in SelfFile THEN budget ELSE Charged(budget)
  <1>3. PICK f \in files :
          LET v == Judged(b(f), f) IN
          /\ Foremost(f, files)
          /\ \/ Exhaust
             \/ /\ files' = files \ {f}
                /\ budget' = v.budget
                /\ IF v.list = None THEN UNCHANGED skipped ELSE Listed(v.list, f)
                /\ inventory' = IF v.joins THEN inventory \cup {f} ELSE inventory
                /\ unread' = IF v.joins THEN unread \cup {f} ELSE unread
                /\ skips' = IF v.budget.skipped_files > budget.skipped_files
                              THEN skips \cup {f} ELSE skips
                /\ UNCHANGED <<pc, pending, here, dirs, kept>>
    BY DEF ClassifyFile
  <1>4. ~Exhaust
    BY <1>1, ExhaustTruncates
  <1> DEFINE c == b(f) v == Judged(c, f)
  <1>5. /\ files' = files \ {f}
        /\ budget' = v.budget
        /\ IF v.list = None THEN UNCHANGED skipped ELSE Listed(v.list, f)
        /\ inventory' = IF v.joins THEN inventory \cup {f} ELSE inventory
        /\ unread' = IF v.joins THEN unread \cup {f} ELSE unread
        /\ skips' = IF v.budget.skipped_files > budget.skipped_files
                      THEN skips \cup {f} ELSE skips
        /\ UNCHANGED <<pc, pending, here, dirs, kept>>
    BY <1>3, <1>4
  <1>6. f \in Files /\ f \in Paths /\ f \notin Dirs /\ kind[f] \in DirKinds \cup FileKinds /\ disk[f] \in Disk
    BY <1>1, <1>3, Tree DEF WalkOK, RepositoryOK, Paths
  <1>7. /\ c \in Budgets /\ c.source_files = budget.source_files /\ c.source_bytes = budget.source_bytes
        /\ c.admitted = budget.admitted /\ c.omitted = budget.omitted
        /\ c.skipped_bytes = budget.skipped_bytes /\ c.truncated = budget.truncated
        /\ c.skipped_files = budget.skipped_files
        /\ c.walk_entries = IF kind[f] \in SelfFile THEN budget.walk_entries ELSE budget.walk_entries + 1
    BY <1>1, <1>6, BudgetMoves
  <1> HIDE DEF b, c, v
  <1>8. Size(disk, f) \in Nat
    BY <1>1, <1>6, SizeType
  <1>9. ~budget.truncated
    <2>1. \/ v.budget = c
          \/ \E n \in Nat : v.budget = skip_source(c, f, n)
          \/ \E n \in Nat : v.budget = include_source(c, f, n)
      BY <1>6, <1>7, JudgedCases DEF v
    <2>2. v.budget.truncated = c.truncated
      <3>1. ASSUME NEW n \in Nat, v.budget = skip_source(c, f, n) PROVE v.budget.truncated = c.truncated
        BY <1>6, <1>7, <3>1, Skipping
      <3>2. ASSUME NEW n \in Nat, v.budget = include_source(c, f, n) PROVE v.budget.truncated = c.truncated
        BY <1>7, <3>2 DEF include_source, Budgets
      <3> QED BY <2>1, <3>1, <3>2
    <2> QED BY <1>5, <1>7, <2>2
  <1> SUFFICES ASSUME Steady PROVE Steady'
    BY <1>9
  <1>10. f \in Reach(kind, disk) /\ disk[f].state # "missing"
    BY <1>3, <1>6, ReachIs DEF Steady, AheadReached
  <1> DEFINE joins == v.joins
             skipping == ~joins /\ kind[f] = "plain" /\ disk[f].state \in {"text", "binary", "unreadable"}
             J == inventory'
  <1>11. /\ v.list = ListOf(kind, disk, f)
         /\ joins <=> /\ Fitting(kind, disk, f)
                      /\ c.source_files < MaxSourceFiles
                      /\ c.source_bytes + Size(disk, f) <= MaxSourceBytes
         /\ v.budget = IF joins THEN include_source(c, f, Size(disk, f))
                       ELSE IF kind[f] = "plain" /\ disk[f].state \in {"text", "binary", "unreadable"}
                         THEN skip_source(c, f, Size(disk, f)) ELSE c
         /\ joins \in BOOLEAN
    <2>1. joins = v.joins
      OBVIOUS
    <2> HIDE DEF joins
    <2> QED BY <1>1, <1>6, <1>7, <1>10, <2>1, JudgedIs DEF v
  <1>12. /\ budget'.walk_entries = c.walk_entries /\ budget'.omitted = budget.omitted
         /\ budget'.admitted = IF joins THEN [budget.admitted EXCEPT ![f] = Size(disk, f)]
                               ELSE budget.admitted
         /\ budget'.skipped_bytes = IF skipping THEN budget.skipped_bytes + Size(disk, f)
                                    ELSE budget.skipped_bytes
         /\ skips' = IF skipping THEN skips \cup {f} ELSE skips
    <2> HIDE DEF joins
    <2>1. CASE joins
      <3>1. budget' = include_source(c, f, Size(disk, f))
        BY <1>5, <1>11, <2>1
      <3>2. v.budget.skipped_files = budget.skipped_files /\ budget.skipped_files \in Nat
        <4>1. include_source(c, f, Size(disk, f)).skipped_files = c.skipped_files
          BY <1>6, <1>7, <1>8, Including
        <4>2. budget.skipped_files \in Nat
          BY <1>1 DEF Budgets
        <4> QED BY <1>5, <1>7, <3>1, <4>1, <4>2
      <3>3. skips' = skips
        BY <1>5, <3>2
      <3> QED BY <1>6, <1>7, <1>8, <2>1, <3>1, <3>3, Including, BudgetMoves
    <2>2. CASE skipping
      <3>1. budget' = skip_source(c, f, Size(disk, f))
        BY <1>5, <1>11, <2>2
      <3>2. v.budget.skipped_files = budget.skipped_files + 1 /\ budget.skipped_files \in Nat
        BY <1>1, <1>5, <1>6, <1>7, <1>8, <3>1, Skipping DEF Budgets
      <3>3. skips' = skips \cup {f}
        BY <1>5, <3>2
      <3> QED BY <1>6, <1>7, <1>8, <2>2, <3>1, <3>3, Skipping, BudgetMoves
    <2>3. CASE ~joins /\ ~skipping
      <3>1. budget' = c
        BY <1>5, <1>11, <2>3
      <3>2. v.budget.skipped_files = budget.skipped_files /\ budget.skipped_files \in Nat
        BY <1>1, <1>5, <1>7, <3>1 DEF Budgets
      <3>3. skips' = skips
        BY <1>5, <3>2
      <3> QED BY <1>7, <2>3, <3>1, <3>3
    <2> QED BY <2>1, <2>2, <2>3
  <1>13. ToCome(f) /\ ~ToCome(f)' /\ Ahead' = Ahead
    <2>1. f \in Contained[here] /\ here \in Dirs
      BY <1>1, <1>3 DEF Apart, WalkOK
    <2>2. Ahead' = Ahead
      BY <1>5 DEF Ahead
    <2>3. \A a \in Ahead : a \notin Above[f]
      BY <1>1, <2>1, Tree DEF Apart
    <2>4. f \notin dirs
      BY <1>1, <1>6 DEF WalkOK
    <2> QED BY <1>3, <1>5, <2>2, <2>3, <2>4 DEF ToCome
  <1>14. ASSUME NEW p \in Reach(kind, disk), p # f PROVE ToCome(p)' <=> ToCome(p)
    BY <1>5, <1>13, <1>14 DEF ToCome
  <1>15. Behind' = Behind \cup {f} /\ f \notin Behind
    BY <1>2, <1>10, <1>13, <1>14, BehindIs DEF Behind
  <1>16. /\ \A h \in Behind : h \in Files => Earlier(h, f)
         /\ inventory \subseteq Behind /\ f \notin inventory
    BY <1>3, <1>15 DEF Steady, Ordered, Determined, Chosen
  <1>17. unread = inventory /\ read = {} /\ unread' = inventory'
    <2>1. unread = inventory /\ read = ReadOf(disk, inventory, unread)
      BY <1>1 DEF Steady, Determined
    <2> QED BY <1>5, <2>1 DEF ReadOf
  <1>18. budget.source_files = Cardinality(inventory) /\ budget.source_bytes = Weight(disk, inventory)
         /\ budget.admitted = Held(disk, inventory).admitted
    <2>1. budget.admitted = Held(disk, inventory).admitted
      BY <1>17 DEF Steady, Determined
    <2>2. AdmittedIn(budget) = inventory
      BY <1>1, <1>17 DEF Balanced
    <2>3. BytesIn(budget) = BytesIn(Held(disk, inventory))
      BY <2>1 DEF BytesIn, AdmittedIn
    <2> QED BY <1>1, <2>1, <2>2, <2>3 DEF Balanced, Weight
  <1>19. f \in J <=> Fitting(kind, disk, f) /\ Room(disk, f, inventory)
    <2>1. f \in J <=> joins
      BY <1>5, <1>16
    <2> HIDE DEF joins, J
    <2> QED BY <1>7, <1>11, <1>18, <2>1 DEF Room
  <1>20. Chosen(kind, disk, J, Behind')
    <2>1. J \in {inventory, inventory \cup {f}} /\ inventory \in SUBSET Files
      BY <1>1, <1>5 DEF WalkOK
    <2>2. Chosen(kind, disk, inventory, Behind)
      BY DEF Steady, Determined
    <2> HIDE DEF J
    <2> QED BY <1>6, <1>15, <1>16, <1>19, <2>1, <2>2, ChosenMore
  <1>21. skips' = SkipsOf(kind, disk, Behind', J, J)
    <2>1. skips = SkipsOf(kind, disk, Behind, inventory, inventory)
      BY <1>17 DEF Steady, Determined
    <2>2. J = IF joins THEN inventory \cup {f} ELSE inventory
      BY <1>5
    <2>3. joins => Fitting(kind, disk, f)
      BY <1>11
    <2> HIDE DEF J, joins
    <2>4. f \in SkipsOf(kind, disk, Behind', J, J) <=> skipping
      BY <1>6, <1>15, <1>16, <2>2, <2>3 DEF SkipsOf, Fitting
    <2>5. \A h : h # f => (h \in SkipsOf(kind, disk, Behind', J, J)
                             <=> h \in SkipsOf(kind, disk, Behind, inventory, inventory))
      BY <1>15, <2>2 DEF SkipsOf
    <2>6. f \notin SkipsOf(kind, disk, Behind, inventory, inventory)
      BY <1>15 DEF SkipsOf
    <2> HIDE DEF skipping
    <2>7. \A h : h \in skips' <=> h \in SkipsOf(kind, disk, Behind', J, J)
      BY <1>12, <2>1, <2>4, <2>5, <2>6
    <2>8. SkipsOf(kind, disk, Behind', J, J) = {h \in SkipsOf(kind, disk, Behind', J, J) : TRUE}
      OBVIOUS
    <2> QED BY <1>12, <2>1, <2>7
  <1>22. budget'.skipped_bytes = Weight(disk, skips')
    <2>1. budget.skipped_bytes = Weight(disk, skips) /\ skips \in SUBSET Files
      BY <1>1 DEF Steady, Determined, WalkOK
    <2>2. f \notin skips
      <3>1. skips = SkipsOf(kind, disk, Behind, inventory, inventory)
        BY <1>17 DEF Steady, Determined
      <3> QED BY <1>15, <3>1 DEF SkipsOf
    <2>3. Weight(disk, skips \cup {f}) = Weight(disk, skips) + Size(disk, f)
      BY <1>1, <1>6, <2>1, <2>2, WeightMore
    <2> HIDE DEF skipping
    <2> QED BY <1>12, <2>1, <2>3
  <1>23. budget'.admitted = Held(disk, J).admitted
    <2>1. J = IF joins THEN inventory \cup {f} ELSE inventory
      BY <1>5
    <2>2. inventory \in SUBSET Files
      BY <1>1 DEF WalkOK
    <2>3. Held(disk, inventory \cup {f}).admitted
            = [Held(disk, inventory).admitted EXCEPT ![f] = Size(disk, f)]
      BY <1>1, <1>6, <1>16, <2>2, WeightMore
    <2> HIDE DEF joins, J
    <2> QED BY <1>12, <1>18, <2>1, <2>3
  <1>24. budget'.walk_entries = Cardinality(ChargedOf(kind, Behind'))
    <2>1. budget.walk_entries = Cardinality(ChargedOf(kind, Behind))
      BY DEF Steady, Determined
    <2> QED BY <1>6, <1>7, <1>12, <1>15, <2>1, BehindFinite, ChargedMore
  <1>25. skipped' = ListsOf(kind, disk, Behind')
    <2> DEFINE l == ListOf(kind, disk, f)
    <2>1. skipped = ListsOf(kind, disk, Behind)
      BY DEF Steady, Determined
    <2>2. /\ l = None => ListsOf(kind, disk, Behind \cup {f}) = ListsOf(kind, disk, Behind)
          /\ l \in Lists => ListsOf(kind, disk, Behind \cup {f})
                              = With(ListsOf(kind, disk, Behind), l, f)
      <3>1. l = ListOf(kind, disk, f)
        OBVIOUS
      <3> HIDE DEF l
      <3> QED BY <3>1, ListedMore
    <2>3. l \in Lists \cup {None}
      BY <1>1, <1>6 DEF ListOf, Lists
    <2>4. IF l = None THEN skipped' = skipped ELSE skipped' = [skipped EXCEPT ![l] = @ \cup {f}]
      BY <1>5, <1>11 DEF Listed
    <2> HIDE DEF l
    <2> QED BY <1>15, <2>1, <2>2, <2>3, <2>4 DEF With
  <1>26. Determined'
    <2>1. read' = ReadOf(disk, J, J) /\ read' \cup unread' = J
      BY <1>2, <1>17 DEF ReadOf
    <2>2. J = inventory' /\ unread' = J
      BY <1>17
    <2>3. budget'.omitted = 0
      BY <1>12 DEF Steady, Determined
    <2> HIDE DEF J
    <2> QED BY <1>2, <1>20, <1>21, <1>22, <1>23, <1>24, <1>25, <2>1, <2>2, <2>3 DEF Determined
  <1>27. AheadReached'
    <2>1. files' \subseteq Reach(kind, disk) /\ dirs \ {OutDir} \subseteq Reach(kind, disk)
      BY <1>5 DEF Steady, AheadReached
    <2>2. \A e : Entered(e)' <=> Entered(e)
      BY <1>2 DEF Entered
    <2> QED BY <1>2, <1>5, <2>1, <2>2 DEF Steady, AheadReached, Entered
  <1>28. Ordered'
    <2>1. here \in Dirs /\ f \in Contained[here] /\ \A h \in files : h \in Contained[here] /\ h \in Files
      BY <1>1, <1>3 DEF Apart, WalkOK
    <2>2. \A e \in Ahead : Place[here] < Place[e]
      BY <1>1 DEF Steady, Ordered
    <2>3. ASSUME NEW h \in files' PROVE Earlier(f, h)
      <3>1. Place[f] <= Place[h] /\ f # h /\ h \in files
        BY <1>3, <1>5, <2>3 DEF Foremost
      <3>2. Place[f] < Place[h]
        BY <1>6, <2>1, <3>1, Ranked
      <3> QED BY <2>1, <3>1, <3>2 DEF Earlier
    <2>4. ASSUME NEW g \in Behind', g \in Files
          PROVE  \E d \in Dirs : /\ g \in Contained[d] /\ \A e \in Ahead' : Place[d] < Place[e]
                                 /\ \A h \in files' : Earlier(g, h)
      <3>1. CASE g = f
        BY <1>13, <2>1, <2>2, <2>3, <3>1
      <3>2. CASE g \in Behind
        BY <1>5, <1>13, <2>4, <3>2 DEF Steady, Ordered
      <3> QED BY <1>15, <2>4, <3>1, <3>2
    <2> QED BY <1>5, <1>13, <2>2, <2>4 DEF Ordered
  <1> QED BY <1>26, <1>27, <1>28 DEF Steady

\* A file that was taken is read, or skipped.
LEMMA ReadSourceSteady ==
  ASSUME IInv, NEW f \in Files, ReadSource(f), ~budget'.truncated
  PROVE  ~budget.truncated /\ (Steady => Steady')
  <1>1. /\ WalkOK /\ RepositoryOK /\ budget \in Budgets
        /\ Balanced(budget, read, unread, inventory, skips) /\ pc = "read" /\ f \in unread
        /\ kind \in Kinds /\ disk \in Disks
    BY Parts DEF ReadSource, RepositoryOK, Kinds, Disks
  <1>2. /\ UNCHANGED <<kind, disk, pc, pending, here, dirs, files, kept, skipped, inventory>>
        /\ unread' = unread \ {f}
        /\ \/ Readable(f) /\ read' = read \cup {f} /\ UNCHANGED <<budget, skips>>
           \/ /\ ~Readable(f) /\ read' = read
              /\ budget' = reclassify_unread(budget, f) /\ skips' = skips \cup {f}
    BY DEF ReadSource, repository, walk, result
  <1>3. ~budget.truncated
    BY <1>1, <1>2, BalanceUnread DEF WalkOK
  <1> SUFFICES ASSUME Steady PROVE Steady'
    BY <1>3
  <1>4. Ahead' = Ahead /\ \A p : ToCome(p)' <=> ToCome(p)
    BY <1>2 DEF Ahead, ToCome
  <1>5. Behind' = Behind
    BY <1>2, <1>4 DEF Behind
  <1>6. AheadReached'
    BY <1>2 DEF Steady, AheadReached, Entered
  <1>7. Ordered'
    BY <1>2, <1>4, <1>5 DEF Steady, Ordered
  <1>8. /\ skipped = ListsOf(kind, disk, Behind)
        /\ Chosen(kind, disk, inventory, Behind)
        /\ unread \subseteq inventory
        /\ read = ReadOf(disk, inventory, unread)
        /\ skips = SkipsOf(kind, disk, Behind, inventory, unread)
        /\ budget.walk_entries = Cardinality(ChargedOf(kind, Behind))
        /\ budget.skipped_bytes = Weight(disk, skips) /\ budget.omitted = 0
        /\ budget.admitted = Held(disk, read \cup unread).admitted
    BY DEF Steady, Determined
  <1>9. /\ f \in inventory /\ f \in Behind /\ kind[f] = "plain" /\ disk[f].state \in {"text", "binary"}
        /\ f \notin read /\ Size(disk, f) \in Nat /\ Size(disk, f) = disk[f].size
    BY <1>1, <1>8, SizeType DEF Chosen, Fitting, ReadOf, Size
  <1>10. Readable(f) <=> disk[f].state = "text"
    BY <1>9 DEF Readable, RefusedLink
  <1>11. unread' \subseteq inventory /\ f \notin skips
    BY <1>1, <1>2, <1>8 DEF Balanced
  <1>12. read' = ReadOf(disk, inventory, unread')
    BY <1>2, <1>8, <1>9, <1>10 DEF ReadOf
  <1>13. skips' = SkipsOf(kind, disk, Behind, inventory, unread')
    <2>1. \A h : h # f => (h \in SkipsOf(kind, disk, Behind, inventory, unread')
                             <=> h \in SkipsOf(kind, disk, Behind, inventory, unread))
      BY <1>2 DEF SkipsOf
    <2>2. f \in SkipsOf(kind, disk, Behind, inventory, unread') <=> ~Readable(f)
      BY <1>2, <1>9, <1>10 DEF SkipsOf
    <2>3. skips' = IF Readable(f) THEN skips ELSE skips \cup {f}
      BY <1>2
    <2>4. \A h : h \in skips' <=> h \in SkipsOf(kind, disk, Behind, inventory, unread')
      BY <1>8, <1>11, <2>1, <2>2, <2>3
    <2> QED BY <2>3, <2>4, <1>8 DEF SkipsOf
  <1>14. /\ budget'.walk_entries = budget.walk_entries /\ budget'.omitted = budget.omitted
         /\ budget'.skipped_bytes = Weight(disk, skips')
         /\ budget'.admitted = Held(disk, read' \cup unread').admitted
    <2>1. CASE Readable(f)
      <3>1. read' \cup unread' = read \cup unread
        BY <1>1, <1>2, <2>1
      <3> QED BY <1>2, <1>8, <2>1, <3>1
    <2>2. CASE ~Readable(f)
      <3>1. budget.admitted[f] = Size(disk, f)
        BY <1>1, <1>8 DEF Held
      <3> DEFINE b == [budget EXCEPT !.source_files = @ - 1, !.source_bytes = @ - budget.admitted[f],
                                     !.admitted[f] = None]
                 n == Size(disk, f)
      <3>2. /\ b.admitted = [budget.admitted EXCEPT ![f] = None] /\ b.walk_entries = budget.walk_entries
            /\ b.omitted = budget.omitted /\ b.skipped_bytes = budget.skipped_bytes
            /\ b = [b EXCEPT !.omitted = @]
        BY <1>1 DEF Budgets
      <3>3. budget' = skip_source(b, f, n)
        BY <1>2, <2>2, <3>1 DEF reclassify_unread
      <3>4. b \in [walk_entries: Nat, source_files: Int, source_bytes: Int, skipped_files: Nat,
                   skipped_bytes: Nat, skipped_production: Nat, truncated: BOOLEAN, omitted: Nat,
                   admitted: [Files -> Nat \cup {None}]]
        <4>1. budget.source_files - 1 \in Int /\ budget.source_bytes - budget.admitted[f] \in Int
          BY <1>1, <1>9, <3>1 DEF Budgets
        <4>2. [budget.admitted EXCEPT ![f] = None] \in [Files -> Nat \cup {None}]
          BY <1>1 DEF Budgets
        <4> QED BY <1>1, <4>1, <4>2 DEF Budgets
      <3>5. /\ budget'.walk_entries = budget.walk_entries /\ budget'.omitted = budget.omitted
            /\ budget'.skipped_bytes = budget.skipped_bytes + n
            /\ budget'.admitted = [budget.admitted EXCEPT ![f] = None]
        <4> HIDE DEF b, n
        <4> QED BY <3>2, <3>3, <3>4 DEF skip_source
      <3>6. Weight(disk, skips \cup {f}) = Weight(disk, skips) + n
        BY <1>1, <1>11, WeightMore DEF WalkOK
      <3>7. [budget.admitted EXCEPT ![f] = None] = Held(disk, read' \cup unread').admitted
        <4>1. f \notin read' \cup unread' /\ \A h : h # f => (h \in read' \cup unread' <=> h \in read \cup unread)
          BY <1>2, <1>9, <2>2
        <4> QED BY <1>8, <4>1 DEF Held
      <3> QED BY <1>2, <1>8, <2>2, <3>5, <3>6, <3>7
    <2> QED BY <2>1, <2>2
  <1>15. Determined'
    BY <1>1, <1>2, <1>5, <1>8, <1>11, <1>12, <1>13, <1>14 DEF Determined
  <1> QED BY <1>6, <1>7, <1>15 DEF Steady

\* A scan that begins has decided nothing.
Fresh ==
  /\ disk \in Disks
  /\ pending = {Root} /\ dirs = {} /\ files = {} /\ kept = {} /\ here = Root /\ pc = "list"
  /\ skipped = [l \in Lists |-> {}] /\ inventory = {} /\ budget = NoBudget /\ skips = {}
  /\ unread = {} /\ read = {}

\* It has everything ahead of it.
LEMMA FreshSteady == Fresh => Steady
  <1> SUFFICES ASSUME Fresh PROVE Steady
    OBVIOUS
  <1>1. Behind = {}
    <2>1. ASSUME NEW p \in Reach(kind, disk) PROVE ToCome(p)
      <3>1. Root \in Above[p]
        BY ReachIs, Tree
      <3> QED BY <3>1 DEF ToCome, Ahead, Fresh
    <2> QED BY <2>1 DEF Behind
  <1>2. AheadReached
    BY DEF Fresh, AheadReached, Entered
  <1>3. Ordered
    BY <1>1 DEF Fresh, Ordered
  <1>4. Weight(disk, {}) = 0 /\ Held(disk, {}).admitted = [f \in Files |-> None]
    BY WeightNone DEF Fresh
  <1>5. /\ NoBudget.walk_entries = 0 /\ NoBudget.skipped_bytes = 0 /\ NoBudget.omitted = 0
        /\ NoBudget.admitted = [f \in Files |-> None]
    BY DEF NoBudget
  <1>6. ChargedOf(kind, {}) = {} /\ Cardinality({}) = 0
    BY FS_EmptySet DEF ChargedOf
  <1>7. /\ ListsOf(kind, disk, {}) = [l \in Lists |-> {}] /\ Chosen(kind, disk, {}, {})
        /\ ReadOf(disk, {}, {}) = {} /\ SkipsOf(kind, disk, {}, {}, {}) = {}
    BY DEF ListsOf, Chosen, ReadOf, SkipsOf
  <1>8. Determined
    BY <1>1, <1>4, <1>5, <1>6, <1>7 DEF Fresh, Determined
  <1> QED BY <1>2, <1>3, <1>8 DEF Steady

\* What an undisturbed scan tells in the end follows from the repository.
LEMMA EvidenceTold ==
  ASSUME IInv, pc = "done", ~budget.truncated, Steady
  PROVE  /\ inventory \in SUBSET Files /\ Chosen(kind, disk, inventory, Reach(kind, disk))
         /\ Evidence = EvidenceOf(kind, disk, inventory)
  <1>1. /\ WalkOK /\ budget \in Budgets /\ Balanced(budget, read, unread, inventory, skips)
        /\ unread = {} /\ \A p : ~ToCome(p)
    BY Parts, NothingToCome
  <1>2. Behind = Reach(kind, disk)
    BY <1>1 DEF Behind
  <1>3. /\ skipped = ListsOf(kind, disk, Reach(kind, disk))
        /\ Chosen(kind, disk, inventory, Reach(kind, disk))
        /\ read = ReadOf(disk, inventory, {})
        /\ skips = SkipsOf(kind, disk, Reach(kind, disk), inventory, {})
        /\ budget.walk_entries = Cardinality(ChargedOf(kind, Reach(kind, disk)))
        /\ budget.skipped_bytes = Weight(disk, skips) /\ budget.omitted = 0
        /\ budget.admitted = Held(disk, read).admitted
    BY <1>1, <1>2 DEF Steady, Determined
  <1>4. /\ budget.source_files = Cardinality(read) /\ budget.source_bytes = Weight(disk, read)
        /\ budget.skipped_files = Cardinality(skips)
        /\ budget.skipped_production = Cardinality(skips \cap Production)
    <2>1. AdmittedIn(budget) = read
      BY <1>1 DEF Balanced
    <2>2. BytesIn(budget) = BytesIn(Held(disk, read))
      BY <1>3 DEF BytesIn, AdmittedIn
    <2> QED BY <1>1, <2>1, <2>2 DEF Balanced, Weight
  <1>5. budget = BudgetOf(kind, disk, inventory)
    <2>1. budget = [walk_entries |-> budget.walk_entries, source_files |-> budget.source_files,
                    source_bytes |-> budget.source_bytes, skipped_files |-> budget.skipped_files,
                    skipped_bytes |-> budget.skipped_bytes,
                    skipped_production |-> budget.skipped_production,
                    truncated |-> budget.truncated, omitted |-> budget.omitted,
                    admitted |-> budget.admitted]
      BY <1>1 DEF Budgets
    <2>2. budget.truncated = FALSE
      BY <1>1 DEF Budgets
    <2> QED BY <1>3, <1>4, <2>1, <2>2 DEF BudgetOf
  <1> QED BY <1>1, <1>3, <1>5 DEF WalkOK, Evidence, EvidenceOf

(***************************************************************************)
(* A later scan of an unchanged repository.                                *)
(***************************************************************************)
\* The first scan begins undisturbed.
LEMMA UndisturbedStarts == Init => Undisturbed
  <1> SUFFICES ASSUME Init PROVE Undisturbed
    OBVIOUS
  <1>1. TypeOK
    BY Initially, Parts
  <1>2. Fresh
    BY <1>1 DEF Init, Fresh, TypeOK, RepositoryOK, Disks
  <1>3. AheadReached /\ Ordered /\ Determined
    BY <1>2, FreshSteady DEF Steady
  <1>4. changes = 0 /\ last = None
    BY DEF Init
  <1> QED BY <1>3, <1>4 DEF Undisturbed

\* Every step keeps what an undisturbed scan decides; a change of the
\* repository ends the claim.
LEMMA UndisturbedKeeps == IInv /\ Undisturbed /\ [Next]_vars => Undisturbed'
  <1> SUFFICES ASSUME IInv, Undisturbed, [Next]_vars PROVE Undisturbed'
    OBVIOUS
  \* A step of the scan itself.
  <1>1. ASSUME UNCHANGED <<kind, disk, last, changes>>,
               ~budget'.truncated => ~budget.truncated /\ (Steady => Steady')
        PROVE  Undisturbed'
    <2>1. Told' <=> Told
      BY <1>1 DEF Told
    <2> QED BY <1>1, <2>1 DEF Undisturbed, Steady
  <1>2. ASSUME changes' = changes + 1 PROVE Undisturbed'
    BY <1>2 DEF Undisturbed
  <1>3. CASE ListDirectory
    BY <1>1, <1>3, ListDirectorySteady DEF ListDirectory, repository, others
  <1>4. CASE ClassifyDirectory
    BY <1>1, <1>4, ClassifyDirectorySteady DEF ClassifyDirectory, repository, others
  <1>5. CASE EndDirectories
    BY <1>1, <1>5, EndDirectoriesSteady DEF EndDirectories, repository, others
  <1>6. CASE ClassifyFile
    BY <1>1, <1>6, ClassifyFileSteady DEF ClassifyFile, repository, others
  <1>7. CASE EndFiles
    BY <1>1, <1>7, EndFilesSteady DEF EndFiles, repository, others
  <1>8. CASE EndWalk
    BY <1>1, <1>8, EndsSteady DEF EndWalk, repository, others
  <1>9. CASE WriteEvidence
    BY <1>1, <1>9, EndsSteady DEF WriteEvidence, others
  <1>10. ASSUME NEW f \in Files, ReadSource(f) PROVE Undisturbed'
    BY <1>1, <1>10, ReadSourceSteady DEF ReadSource, repository, others
  <1>11. ASSUME NEW f \in Files, ChangeFile(f) PROVE Undisturbed'
    BY <1>2, <1>11 DEF ChangeFile
  <1>12. ASSUME NEW d \in Dirs, ChangeDirectory(d) PROVE Undisturbed'
    BY <1>2, <1>12 DEF ChangeDirectory
  <1>13. CASE ScanAgain
    <2>1. /\ UNCHANGED <<kind, disk, changes>> /\ pc = "done" /\ last' = Evidence /\ NewScan
      BY <1>13 DEF ScanAgain, repository
    <2>2. Fresh'
      <3>1. disk \in Disks
        BY Parts DEF RepositoryOK, Disks
      <3> QED BY <2>1, <3>1 DEF NewScan, Fresh
    <2>3. Steady'
      <3>1. Fresh' => Steady'
        BY FreshSteady, PTL
      <3> QED BY <2>2, <3>1
    <2>4. ASSUME changes = 0 PROVE last'.budget.truncated \/ Told'
      <3>1. last'.budget = budget
        BY <2>1 DEF Evidence
      <3>2. ASSUME ~budget.truncated PROVE Told'
        <4>1. Steady
          BY <2>4, <3>2 DEF Undisturbed, Steady
        <4>2. /\ inventory \in SUBSET Files /\ Chosen(kind, disk, inventory, Reach(kind, disk))
              /\ Evidence = EvidenceOf(kind, disk, inventory)
          BY <2>1, <3>2, <4>1, EvidenceTold
        <4> QED BY <2>1, <4>2 DEF Told
      <3> QED BY <3>1, <3>2
    <2> QED BY <2>1, <2>3, <2>4 DEF Undisturbed, Steady
  <1>14. CASE UNCHANGED vars
    <2>1. /\ UNCHANGED <<kind, disk, pc, pending, here, dirs, files, kept, skipped, inventory, budget, skips,
                         unread, read, last, changes>>
      BY <1>14 DEF vars, repository, walk, result, extraction, others
    <2>2. Ahead' = Ahead /\ \A p : ToCome(p)' <=> ToCome(p)
      BY <2>1 DEF Ahead, ToCome
    <2>3. Behind' = Behind
      BY <2>1, <2>2 DEF Behind
    <2>4. Steady => Steady'
      <3> SUFFICES ASSUME Steady PROVE Steady'
        OBVIOUS
      <3>1. Determined'
        BY <2>1, <2>3, FrameKeeps DEF Steady
      <3>2. AheadReached'
        BY <2>1 DEF Steady, AheadReached, Entered
      <3>3. Ordered'
        BY <2>1, <2>2, <2>3 DEF Steady, Ordered
      <3> QED BY <3>1, <3>2, <3>3 DEF Steady
    <2> QED BY <1>1, <2>1, <2>4
  <1> QED
    BY <1>3, <1>4, <1>5, <1>6, <1>7, <1>8, <1>9, <1>10, <1>11, <1>12, <1>13, <1>14 DEF Next

\* A second scan of an unchanged repository yields the evidence of the first,
\* although glossabet-out is there by then, unless a ceiling truncated one of
\* the two (scan_sources, SourceBudget and the scanner's sorted walk).
THEOREM LaterAgrees == Spec => []LaterScanAgrees
  <1>1. IInv /\ Undisturbed => LaterScanAgrees
    <2> SUFFICES ASSUME IInv, Undisturbed, pc = "done", last # None, changes = 0,
                        ~budget.truncated, ~last.budget.truncated
                 PROVE  Evidence = last
      BY DEF LaterScanAgrees
    <2>1. Steady /\ Told
      BY DEF Undisturbed, Steady
    <2>2. PICK J \in SUBSET Files :
            Chosen(kind, disk, J, Reach(kind, disk)) /\ last = EvidenceOf(kind, disk, J)
      BY <2>1 DEF Told
    <2>3. Chosen(kind, disk, inventory, Reach(kind, disk)) /\ Evidence = EvidenceOf(kind, disk, inventory)
      BY <2>1, EvidenceTold
    <2>4. J = inventory
      BY <2>2, <2>3, OneChoice
    <2> QED BY <2>2, <2>3, <2>4
  <1>2. Spec => []Undisturbed
    BY UndisturbedStarts, UndisturbedKeeps, Invariant, PTL DEF Spec
  <1> QED BY <1>1, <1>2, Invariant, PTL
=============================================================================
