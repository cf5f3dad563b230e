--------------------------- MODULE VocabularyDrift ---------------------------
(***************************************************************************)
(* Drift of a glossary against the evidence of TermEvidence: watched terms *)
(* still in use, and canonical terms that fade from the code.  Each check  *)
(* either settles a term or is suppressed because the evidence cannot      *)
(* prove the answer; a section whose findings may be missing something     *)
(* says so.                                                                *)
(*                                                                         *)
(* The glossary's words are exactly Terms, each owned once, by a concept's *)
(* term or by an alias.  Left out: parallel terms and overloaded terms,    *)
(* which nominate from similarity of contexts, the order of the findings   *)
(* and the cap on how many are shown.                                      *)
(***************************************************************************)
EXTENDS TermEvidence

CONSTANTS
  Glossaries,         \* the glossaries compared: status, scope and kind of each term
  fading_max_count

Statuses == {"canonical", "proposed", "alias", "discouraged", "deprecated", "unknown"}
_WATCHED_STATUSES == {"discouraged", "deprecated"}

ASSUME DriftAssumption ==
  /\ Glossaries \subseteq [Terms -> [status: Statuses, scope: Scopes, alias: BOOLEAN]]
  /\ fading_max_count \in Nat \ {0}

VARIABLES
  glossary,
  unchecked,                           \* terms the current check has not come to
  watched_in_use, watched_suppressed,  \* findings; how many were suppressed
  fading, fading_suppressed

drift == <<unchecked, watched_in_use, watched_suppressed, fading, fading_suppressed>>
vars == <<evidenceVars, glossary, drift>>

(***************************************************************************)
(* The checks.                                                             *)
(***************************************************************************)
Watched == {t \in Terms : glossary[t].status \in _WATCHED_STATUSES}
Canonical == {t \in Terms : glossary[t].status = "canonical" /\ ~glossary[t].alias}

CodeUse(t) == code_term_occurrence(t, glossary[t].scope)
DocUse(t) == doc_term_occurrence(t, glossary[t].scope)

_index_glossary ==
  /\ pc = "done"
  /\ pc' = "watched"
  /\ unchecked' = Watched
  /\ UNCHANGED <<repository, unread, missed, vocabulary, matching, glossary,
                 watched_in_use, watched_suppressed, fading, fading_suppressed>>

Unproven(o) == is_unproven_zero(o)

\* One turn of the loop of _watched_in_use.
_watched_in_use(t) ==
  /\ pc = "watched" /\ t \in unchecked
  /\ IF CodeUse(t).count > 0
       THEN watched_in_use' = watched_in_use \cup {t} /\ UNCHANGED watched_suppressed
       ELSE /\ UNCHANGED watched_in_use
            /\ watched_suppressed' = watched_suppressed + IF Unproven(CodeUse(t)) THEN 1 ELSE 0
  /\ unchecked' = unchecked \ {t}
  /\ UNCHANGED <<evidenceVars, glossary, fading, fading_suppressed>>

EndWatched ==
  /\ pc = "watched" /\ unchecked = {}
  /\ pc' = "fading"
  /\ unchecked' = Canonical
  /\ UNCHANGED <<repository, unread, missed, vocabulary, matching, glossary,
                 watched_in_use, watched_suppressed, fading, fading_suppressed>>

\* What _canonical_fading concludes about a term: "absent", "fading", "used",
\* or that it cannot tell, "suppressed".
fading_state(count, doc_mentions, doc_exact) ==
  CASE count = 0 -> "absent"
    [] count \in 1..fading_max_count /\ doc_mentions = 0 /\ doc_exact -> "fading"
    [] OTHER -> "used"

\* Variant: an inexact low count is taken for the count.
Conclusion_TrustsCount(t) ==
  LET code == CodeUse(t) doc == DocUse(t)
      mentions == IF Len(TermTokens[t]) = 1 THEN doc.count ELSE None
  IN IF \/ is_unproven_zero(code)
        \/ code.count \in 1..fading_max_count /\ is_unproven_zero(doc)
       THEN "suppressed" ELSE fading_state(code.count, mentions, doc.count_exact)

Conclusion(t) ==
  LET code == CodeUse(t) doc == DocUse(t)
      mentions == IF Len(TermTokens[t]) = 1 THEN doc.count ELSE None
  IN IF is_unproven_zero(code) THEN "suppressed"
     ELSE IF ~code.count_exact
       THEN IF mentions = 0 /\ code.count <= fading_max_count THEN "suppressed" ELSE "used"
     ELSE IF code.count \in 1..fading_max_count /\ is_unproven_zero(doc) THEN "suppressed"
     ELSE fading_state(code.count, mentions, doc.count_exact)

\* One turn of the loop of _canonical_fading.
_canonical_fading(t) ==
  /\ pc = "fading" /\ t \in unchecked
  /\ fading' = IF Conclusion(t) \in {"absent", "fading"}
                 THEN fading \cup {[term |-> t, state |-> Conclusion(t)]} ELSE fading
  /\ fading_suppressed' = fading_suppressed + IF Conclusion(t) = "suppressed" THEN 1 ELSE 0
  /\ unchecked' = unchecked \ {t}
  /\ UNCHANGED <<evidenceVars, glossary, watched_in_use, watched_suppressed>>

EndDrift ==
  /\ pc = "fading" /\ unchecked = {}
  /\ pc' = "reported"
  /\ UNCHANGED <<repository, unread, missed, vocabulary, matching, glossary, drift>>

\* The reasons every section of build_drift starts from: the production
\* corpus, the three vocabulary tables, and the matching work.
NoEvidenceOmitted ==
  /\ production_complete
  /\ ~tokens.truncated /\ ~identifier_table.truncated /\ ~doc_terms.truncated
  /\ compound_complete /\ Supported = Compounds

WatchedExact == NoEvidenceOmitted /\ watched_suppressed = 0
FadingExact == NoEvidenceOmitted /\ fading_suppressed = 0

Init ==
  /\ EvidenceInit
  /\ glossary \in Glossaries
  /\ unchecked = {}
  /\ watched_in_use = {} /\ watched_suppressed = 0
  /\ fading = {} /\ fading_suppressed = 0

Next ==
  \/ EvidenceNext /\ UNCHANGED <<glossary, drift>>
  \/ _index_glossary \/ EndWatched \/ EndDrift
  \/ \E t \in Terms : _watched_in_use(t) \/ _canonical_fading(t)

Spec == Init /\ [][Next]_vars

(***************************************************************************)
(* Properties.                                                             *)
(***************************************************************************)
CodeCount(t) == CodeTruth(t, glossary[t].scope).count
DocCount(t) == DocTruth(t, glossary[t].scope).count

\* No canonical term is reported absent, or fading, unless that is true of
\* the whole repository (_print_report: "absence and low-use findings were
\* suppressed where the evidence cannot prove them"), and every watched term
\* reported in use is in use.  A section that calls its total exact has missed
\* none: no watched term in use, no canonical term absent from the code, and
\* none hardly used and never documented.
SectionsTrue ==
  LET used == {t \in Watched : CodeCount(t) > 0} IN
  /\ \A x \in fading :
       IF x.state = "absent" THEN CodeCount(x.term) = 0
       ELSE CodeCount(x.term) \in 1..fading_max_count /\ DocCount(x.term) = 0
  /\ watched_in_use \subseteq used
  /\ pc = "reported" /\ WatchedExact => watched_in_use = used
  /\ pc = "reported" /\ FadingExact =>
       \A t \in Canonical :
         /\ CodeCount(t) = 0 => [term |-> t, state |-> "absent"] \in fading
         /\ CodeCount(t) \in 1..fading_max_count /\ Len(TermTokens[t]) = 1 /\ DocCount(t) = 0 =>
              [term |-> t, state |-> "fading"] \in fading
=============================================================================
