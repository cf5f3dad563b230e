---------------------------- MODULE Reconciliation ----------------------------
(***************************************************************************)
(* From the glossary to the code.  build_binding_findings resolves the     *)
(* bindings of each canonical concept against the evidence of a scan and   *)
(* nominates concepts nothing in the code answers to, bindings that no     *)
(* longer resolve and terms spread over many modules; build_validation     *)
(* says of each list whether its total is exact.                           *)
(*                                                                         *)
(* The directions from structure and from drift are StructuralMatching and *)
(* VocabularyDrift.  Left out: the display of findings, their order and    *)
(* the cap on how many are shown.                                          *)
(***************************************************************************)
EXTENDS VocabularyDrift

CONSTANTS
  Modules, ModuleOf,      \* the directories of the code files
  ModulesIn,              \* those inside each scope
  Unread,                 \* paths the scan left aside on purpose, or knows nothing of, that exist
  Nowhere,                \* paths that name nothing
  BindingsOf,             \* what each glossary binds its terms to
  orphaned_max_count, fragmentation_min_modules

Paths == AllFiles \cup Modules \cup Unread \cup Nowhere
Refs == [kind: {"symbol"}, of: Spellings] \cup [kind: {"file", "module"}, of: Paths]

ASSUME ReconciliationAssumption ==
  /\ ModuleOf \in [Code -> Modules] /\ ModulesIn \in [Scopes -> SUBSET Modules]
  /\ ModulesIn[AllFiles] = Modules
  /\ (Unread \cup Nowhere) \cap (AllFiles \cup Modules) = {} /\ Unread \cap Nowhere = {}
  /\ BindingsOf \in [Glossaries -> [Terms -> SUBSET Refs]]
  /\ orphaned_max_count \in Nat /\ fragmentation_min_modules \in Nat \ {0}

VARIABLE validation     \* what was concluded, or None

ConceptTerms == {t \in Terms : glossary[t].status = "canonical" /\ ~glossary[t].alias}
Bindings(t) == BindingsOf[glossary][t]

\* A file the walk listed but nobody could read is known as a file; its module
\* is known by another file, or not.
Known(listed) ==
  LET read == AllFiles \ missed IN
  [file |-> read \cup listed, module |-> {ModuleOf[f] : f \in read \cap Code}]

(***************************************************************************)
(* Bindings.                                                               *)
(***************************************************************************)
_symbol_binding_status(name, scope) ==
  LET scoped == code_identifier_occurrence(name, scope)
      everywhere == code_identifier_occurrence(name, AllFiles)
  IN IF scoped.count > 0 THEN "resolved"
     ELSE IF is_unproven_zero(scoped) THEN "uncertain"
     ELSE IF everywhere.count > 0 THEN "out-of-scope"
     ELSE IF is_unproven_zero(everywhere) THEN "uncertain"
     ELSE "unresolved"

path_in_scope(ref, scope) == ref.of \in IF ref.kind = "file" THEN scope ELSE ModulesIn[scope]

\* A path the scan did not list is missing only when the inventory is complete
\* and nothing stands at it.
_path_binding_status(ref, scope, known) ==
  IF ref.of \in known[ref.kind]
    THEN IF path_in_scope(ref, scope) THEN "resolved" ELSE "out-of-scope"
    ELSE IF ~repository_complete \/ ref.of \notin Nowhere THEN "uncertain" ELSE "unresolved"

_binding_status(ref, scope, known) ==
  IF ref.kind = "symbol" THEN _symbol_binding_status(ref.of, scope)
  ELSE _path_binding_status(ref, scope, known)

_resolve_bindings(t, known) ==
  [r \in Bindings(t) |-> _binding_status(r, glossary[t].scope, known)]

(***************************************************************************)
(* Concepts.                                                               *)
(***************************************************************************)
\* Variant: a binding that could not be judged is no binding.
_orphan_finding_Unsure(t, occurrence, statuses) ==
  IF "resolved" \in statuses THEN "no"
  ELSE IF Len(TermTokens[t]) = 0 THEN "suppressed"
  ELSE IF occurrence.count > orphaned_max_count THEN "no"
  ELSE IF ~occurrence.count_exact THEN "suppressed"
  ELSE "orphaned"

\* From a term's use and what its bindings came to.
_orphan_finding(t, occurrence, statuses) ==
  IF "resolved" \in statuses THEN "no"
  ELSE IF Len(TermTokens[t]) = 0 THEN "suppressed"
  ELSE IF occurrence.count > orphaned_max_count THEN "no"
  ELSE IF ~occurrence.count_exact \/ "uncertain" \in statuses THEN "suppressed"
  ELSE "orphaned"

spread(files) == Cardinality({ModuleOf[f] : f \in files})
is_fragmented(occurrence) == spread(occurrence.files) >= fragmentation_min_modules

VocabularyKept == ~tokens.truncated /\ ~identifier_table.truncated
MatchingComplete == compound_complete /\ Supported = Compounds

\* build_binding_findings, and the reasons build_validation adds to its own.
build_binding_findings(known) ==
  LET use == [t \in ConceptTerms |-> CodeUse(t)]
      bindings == [t \in ConceptTerms |-> _resolve_bindings(t, known)]
      statuses(t) == {bindings[t][r] : r \in Bindings(t)}
      orphan == [t \in ConceptTerms |-> _orphan_finding(t, use[t], statuses(t))]
  IN [orphaned |-> {t \in ConceptTerms : orphan[t] = "orphaned"},
      orphaned_exact |->
        /\ production_complete /\ VocabularyKept /\ MatchingComplete
        /\ \A t \in ConceptTerms : orphan[t] # "suppressed",
      unresolved |->
        UNION {{[term |-> t, ref |-> r, status |-> bindings[t][r]] :
                  r \in {q \in Bindings(t) : bindings[t][q] \in {"unresolved", "out-of-scope"}}} :
                 t \in ConceptTerms},
      unresolved_exact |->
        /\ repository_complete /\ ~identifier_table.truncated
        /\ \A t \in ConceptTerms : "uncertain" \notin statuses(t),
      fragmented |->
        {[term |-> t, spread |-> spread(use[t].files), spread_exact |-> use[t].spread_exact] :
           t \in {u \in ConceptTerms : is_fragmented(use[u])}},
      fragmented_exact |->
        /\ production_complete /\ VocabularyKept /\ MatchingComplete
        /\ \A t \in ConceptTerms : is_fragmented(use[t]) \/ use[t].spread_exact]

\* The evidence does not change any more: one step.
Validate ==
  /\ pc = "done"
  /\ pc' = "validated"
  /\ \E listed \in SUBSET missed : validation' = build_binding_findings(Known(listed))
  /\ UNCHANGED <<repository, unread, missed, vocabulary, matching, glossary, drift>>

ReconciliationInit == Init /\ validation = None

ReconciliationNext == Validate \/ (Next /\ UNCHANGED validation)

ReconciliationSpec == ReconciliationInit /\ [][ReconciliationNext]_<<vars, validation>>

(***************************************************************************)
(* Properties.                                                             *)
(***************************************************************************)
\* What a binding names: in the scope, and anywhere in the repository.
TrulyIn(ref, scope) ==
  CASE ref.kind = "symbol" -> IdentifierTruth(ref.of, scope).count > 0
    [] ref.kind = "file"   -> ref.of \in AllFiles \cap scope
    [] OTHER               -> ref.of \in {ModuleOf[f] : f \in Code} \cap ModulesIn[scope]

TrueStatus(ref, scope) ==
  IF TrulyIn(ref, scope) THEN "resolved"
  ELSE IF TrulyIn(ref, AllFiles) THEN "out-of-scope"
  ELSE IF ref.kind # "symbol" /\ ref.of \in Unread THEN "not judged"
  ELSE "unresolved"

StatusOf(t, ref) == TrueStatus(ref, glossary[t].scope)
TrulyOrphaned(t) ==
  /\ CodeCount(t) <= orphaned_max_count
  /\ \A r \in Bindings(t) : StatusOf(t, r) \notin {"resolved", "not judged"}
TrueSpread(t) == spread(CodeTruth(t, glossary[t].scope).files)

\* Nothing is said to be missing that the scan merely did not see, or left
\* aside: an orphaned concept is hardly used in the whole repository and no
\* binding of it leads anywhere, an unresolved binding names nothing at all,
\* and no spread is larger than it is ("existence is not in question, only
\* the engine's ability to judge it").  A list called exact leaves none out.
ReconciliationTrue ==
  validation # None =>
    LET v == validation IN
    /\ \A t \in v.orphaned : TrulyOrphaned(t)
    /\ \A x \in v.unresolved : x.status = StatusOf(x.term, x.ref)
    /\ \A x \in v.fragmented :
         IF x.spread_exact THEN x.spread = TrueSpread(x.term) ELSE x.spread <= TrueSpread(x.term)
    /\ v.orphaned_exact => \A t \in ConceptTerms : TrulyOrphaned(t) => t \in v.orphaned
    /\ v.unresolved_exact =>
         \A t \in ConceptTerms : \A r \in Bindings(t) :
           StatusOf(t, r) \in {"unresolved", "out-of-scope"} =>
             [term |-> t, ref |-> r, status |-> StatusOf(t, r)] \in v.unresolved
    /\ v.fragmented_exact =>
         \A t \in ConceptTerms :
           TrueSpread(t) >= fragmentation_min_modules => \E x \in v.fragmented : x.term = t
=============================================================================
