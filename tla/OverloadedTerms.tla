--------------------------- MODULE OverloadedTerms ---------------------------
(***************************************************************************)
(* Canonical terms used in contexts disjoint enough to collide.  A scan    *)
(* keeps, of each token and module, the tokens it shares identifiers with; *)
(* build_terminology nominates the tokens whose contexts differ from one   *)
(* module to another; drift checks the canonical ones among them, a scoped *)
(* concept by the modules and contexts the nomination still shows.         *)
(*                                                                         *)
(* Paths and tokens are numbers in their sorting order, a dispersion is in *)
(* thousandths.  Left out: the register, the layers and the synonyms, the  *)
(* order of the findings and the cap on how many are shown.  A concept of  *)
(* several words is checked by none of this.                               *)
(***************************************************************************)
EXTENDS Integers, SequencesExt, Absent

CONSTANTS
  TermNames, ModulePaths, ContextNames,
  Repositories,        \* [truth, read, corpus_complete, oversized]: what is used and what a scan read of it
  CanonicalSets,       \* glossaries: sets of [token, scope], a scope a set of modules or None
  MODULE_CONTEXT_ANALYSIS_CAP,
  pair_top_n, overload_module_analysis_cap, overload_min_modules, overload_min_dispersion,
  module_context_sample, overload_module_display_cap, overload_report_cap

\* Of each token: whether it is only a word of the language, how often it is used,
\* how often by each module, and with which others.
Usage ==
  [TermNames -> [language: BOOLEAN, total: Nat,
                 count: [ModulePaths -> Nat], contexts: [ModulePaths -> SUBSET ContextNames]]]

\* A scan that lost nothing read the truth; a context is a use, and what two
\* modules use is part of the total.
ASSUME OverloadAssumption ==
  /\ TermNames \cup ModulePaths \cup ContextNames \subseteq Nat
  /\ IsFiniteSet(TermNames) /\ IsFiniteSet(ModulePaths) /\ IsFiniteSet(ContextNames)
  /\ Repositories \subseteq [truth: Usage, read: Usage, corpus_complete: BOOLEAN, oversized: BOOLEAN]
  /\ \A r \in Repositories :
       /\ r.corpus_complete /\ ~r.oversized => r.read = r.truth
       /\ \A u \in {r.truth, r.read}, t \in TermNames, m \in ModulePaths :
            /\ u[t].contexts[m] # {} => u[t].count[m] > 0
            /\ \A n \in ModulePaths \ {m} : u[t].count[m] + u[t].count[n] <= u[t].total
  /\ \A g \in CanonicalSets : g \subseteq [token: TermNames, scope: {None} \cup SUBSET ModulePaths]
  /\ MODULE_CONTEXT_ANALYSIS_CAP \in 1..5 /\ overload_min_modules \in Nat \ {0, 1}
  /\ {pair_top_n, overload_module_analysis_cap, module_context_sample,
      overload_module_display_cap, overload_report_cap} \subseteq Nat

VARIABLES
  usage, concept_set,        \* the repository and the glossary
  turn,                      \* "fold", "select", "measure", "check", "reported"
  module_neighbor_sets, module_neighbor_truncated,
  top_tokens,                \* those to be measured
  profiles, unmeasured,      \* the wide ones measured, and those left out
  overload_candidates,       \* [items, complete]
  overloads, omitted         \* findings; concepts whose scoped check was left out

overloadVars == <<usage, concept_set, turn, module_neighbor_sets, module_neighbor_truncated, top_tokens,
                  profiles, unmeasured, overload_candidates, overloads, omitted>>

\* The first n of S in an order.
FirstOf(S, n, Before(_, _)) == {x \in S : Cardinality({y \in S : Before(y, x)}) < n}

(***************************************************************************)
(* One minus the mean similarity of two modules' contexts, rounded; each   *)
(* is nonempty.  Every size of a union of two capped sets divides Unit.    *)
(***************************************************************************)
Unit == 2520

context_dispersion(contexts) ==
  LET pairs == kSubset(2, DOMAIN contexts)
      Similarity(pair) ==
        LET sets == {contexts[m] : m \in pair}
        IN (Unit * Cardinality({x \in UNION sets : \A s \in sets : x \in s})) \div Cardinality(UNION sets)
      all == Unit * Cardinality(pairs)
  IN (2000 * (all - MapThenSumSet(Similarity, pairs)) + all) \div (2 * all)

wide_enough(contexts) == Cardinality(DOMAIN contexts) >= overload_min_modules
is_divergent(dispersion) == dispersion >= overload_min_dispersion

\* The nonempty contexts among those of each module, in the modules of a scope.
ContextsIn(contexts, scope) ==
  [m \in {n \in ModulePaths : contexts[n] # {} /\ (scope = None \/ n \in scope)} |-> contexts[m]]

(***************************************************************************)
(* Which contexts stay under the cap is up to the order of identifiers.    *)
(***************************************************************************)
FoldUsage ==
  /\ turn = "fold" /\ turn' = "select"
  /\ LET of(tm) == usage.read[tm[1]].contexts[tm[2]]
         over == {tm \in TermNames \X ModulePaths : Cardinality(of(tm)) > MODULE_CONTEXT_ANALYSIS_CAP}
     IN /\ module_neighbor_truncated' = over
        /\ \E cut \in [over -> kSubset(MODULE_CONTEXT_ANALYSIS_CAP, ContextNames)] :
             /\ \A tm \in over : cut[tm] \subseteq of(tm)
             /\ module_neighbor_sets' =
                  [t \in TermNames |-> [m \in ModulePaths |->
                     IF <<t, m>> \in over THEN cut[<<t, m>>] ELSE of(<<t, m>>)]]
  /\ UNCHANGED <<usage, concept_set, top_tokens, profiles, unmeasured, overload_candidates, overloads, omitted>>

(***************************************************************************)
(* build_terminology.  The most used tokens of the domain are measured.    *)
(***************************************************************************)
token_count(t) == usage.read[t].total

eligible_tokens ==
  {t \in TermNames : token_count(t) >= 2 /\ ~usage.read[t].language}

\* A word of the language is left out, and said to be.
tokens_complete ==
  /\ ~usage.oversized
  /\ \A t \in TermNames : usage.read[t].language => token_count(t) = 0
  /\ Cardinality(eligible_tokens) <= pair_top_n

MoreUsed(t, s) == token_count(t) > token_count(s) \/ (token_count(t) = token_count(s) /\ t < s)

SelectTokens ==
  /\ turn = "select" /\ turn' = "measure"
  /\ top_tokens' = FirstOf(eligible_tokens, pair_top_n, MoreUsed)
  /\ UNCHANGED <<usage, concept_set, module_neighbor_sets, module_neighbor_truncated, profiles, unmeasured,
                 overload_candidates, overloads, omitted>>

\* A dispersion is that of whole contexts in every module, or none.
MeasureDispersion(t) ==
  LET contexts == ContextsIn(module_neighbor_sets[t], None)
      measurable ==
        /\ \A m \in DOMAIN contexts : <<t, m>> \notin module_neighbor_truncated
        /\ Cardinality(DOMAIN contexts) <= overload_module_analysis_cap
  IN /\ turn = "measure" /\ t \in top_tokens
     /\ top_tokens' = top_tokens \ {t}
     /\ profiles' = IF wide_enough(contexts) /\ measurable
                      THEN profiles \cup {[term |-> t, dispersion |-> context_dispersion(contexts), contexts |-> contexts]}
                      ELSE profiles
     /\ unmeasured' = IF wide_enough(contexts) /\ ~measurable THEN unmeasured \cup {t} ELSE unmeasured
     /\ UNCHANGED <<usage, concept_set, turn, module_neighbor_sets, module_neighbor_truncated,
                    overload_candidates, overloads, omitted>>

(***************************************************************************)
(* _overload_candidates: what is shown of a divergent token.               *)
(***************************************************************************)
Candidate(p) ==
  LET uses(m) == usage.read[p.term].count[m]
      Busier(m, n) == uses(m) > uses(n) \/ (uses(m) = uses(n) /\ m < n)
      modules == FirstOf(DOMAIN p.contexts, overload_module_display_cap, Busier)
      shown == [m \in modules |-> FirstOf(p.contexts[m], module_context_sample, <)]
  IN [term |-> p.term, dispersion |-> p.dispersion,
      contexts |-> shown, contexts_complete |-> {m \in modules : shown[m] = p.contexts[m]},
      modules |-> Cardinality(DOMAIN p.contexts)]

NominateOverloads ==
  /\ turn = "measure" /\ top_tokens = {} /\ turn' = "check"
  /\ LET candidates == {Candidate(p) : p \in {q \in profiles : is_divergent(q.dispersion)}}
         MoreDispersed(i, j) == i.dispersion > j.dispersion \/ (i.dispersion = j.dispersion /\ i.term < j.term)
         kept == FirstOf(candidates, overload_report_cap, MoreDispersed)
     IN overload_candidates' = [items |-> kept, complete |-> tokens_complete /\ unmeasured = {} /\ kept = candidates]
  /\ UNCHANGED <<usage, concept_set, module_neighbor_sets, module_neighbor_truncated, top_tokens, profiles,
                 unmeasured, overloads, omitted>>

(***************************************************************************)
(* drift: a scoped concept is checked by the details shown, if whole.      *)
(***************************************************************************)
\* Variant: the contexts left out are not looked at.
_overload_details_complete_ModulesOnly(item) ==
  Cardinality(DOMAIN item.contexts) = item.modules

_overload_details_complete(item) ==
  Cardinality(item.contexts_complete) = item.modules

Overload(c, dispersion, modules) == [concept |-> c, dispersion |-> dispersion, modules |-> modules]

_canonical_overloaded ==
  LET named == {ci \in concept_set \X overload_candidates.items : ci[1].token = ci[2].term}
      in_scope(ci) == ContextsIn([m \in ModulePaths |-> IF m \in DOMAIN ci[2].contexts THEN ci[2].contexts[m] ELSE {}],
                                 ci[1].scope)
      scoped == {ci \in named : /\ ci[1].scope # None /\ _overload_details_complete(ci[2])
                                /\ wide_enough(in_scope(ci)) /\ is_divergent(context_dispersion(in_scope(ci)))}
  IN {Overload(ci[1], ci[2].dispersion, ci[2].modules) : ci \in {x \in named : x[1].scope = None}}
     \cup {Overload(ci[1], context_dispersion(in_scope(ci)), Cardinality(DOMAIN in_scope(ci))) : ci \in scoped}

_scoped_overload_reasons ==
  {c \in concept_set : c.scope # None /\ \E i \in overload_candidates.items :
                          i.term = c.token /\ ~_overload_details_complete(i)}

CheckOverloaded ==
  /\ turn = "check" /\ turn' = "reported"
  /\ overloads' = _canonical_overloaded
  /\ omitted' = _scoped_overload_reasons
  /\ UNCHANGED <<usage, concept_set, module_neighbor_sets, module_neighbor_truncated, top_tokens, profiles,
                 unmeasured, overload_candidates>>

OverloadStart ==
  /\ turn = "fold"
  /\ module_neighbor_sets = <<>> /\ module_neighbor_truncated = {}
  /\ top_tokens = {} /\ profiles = {} /\ unmeasured = {}
  /\ overload_candidates = [items |-> {}, complete |-> FALSE]
  /\ overloads = {} /\ omitted = {}

OverloadInit == usage \in Repositories /\ concept_set \in CanonicalSets /\ OverloadStart

OverloadNext ==
  \/ FoldUsage \/ SelectTokens \/ NominateOverloads \/ CheckOverloaded
  \/ \E t \in TermNames : MeasureDispersion(t)

OverloadSpec == OverloadInit /\ [][OverloadNext]_overloadVars

(***************************************************************************)
(* Properties.                                                             *)
(***************************************************************************)
\* canonical_overloaded is exact: nothing before it was cut or left out.
OverloadsExact == usage.corpus_complete /\ overload_candidates.complete /\ omitted = {}

Diverges(contexts) == wide_enough(contexts) /\ is_divergent(context_dispersion(contexts))

\* A concept is reported with the dispersion, and the number of modules, of all
\* the scan read in its scope, never of the sample shown ("a capped display cannot
\* be reinterpreted as an exhaustive scoped sample"); and a section said to be exact
\* reports exactly the concepts whose token diverges in the repository, and in
\* their scope too where they have one.
OverloadsTrue ==
  turn = "reported" =>
    /\ \A f \in overloads :
         LET contexts == ContextsIn(usage.read[f.concept.token].contexts, f.concept.scope)
         IN Diverges(contexts) /\ f.dispersion = context_dispersion(contexts) /\ f.modules = Cardinality(DOMAIN contexts)
    /\ OverloadsExact =>
         {f.concept : f \in overloads} =
           {c \in concept_set : \A scope \in {None, c.scope} : Diverges(ContextsIn(usage.truth[c.token].contexts, scope))}
=============================================================================
