---------------------------- MODULE TermEvidence ----------------------------
(***************************************************************************)
(* From files to claims about a term.  build_evidence folds the readable   *)
(* production files into counters and cuts them to bounded tables;         *)
(* EvidenceIndex matches the glossary's compound terms against the         *)
(* identifier table under a work budget; its occurrence queries answer how *)
(* often a term is used, and whether that number is exact or only a lower  *)
(* bound.  Spellings are split into tokens by the constant TokensOf.       *)
(* A counter holds uses, and its total is how many: a table says of each   *)
(* key how many of them each file has.                                     *)
(*                                                                         *)
(* Left out: origins, neighbours and patterns of tokens, the displayed     *)
(* samples of locations, and the reasons' wording.                         *)
(***************************************************************************)
EXTENDS Integers, FiniteSets, SequencesExt, Absent

CONSTANTS
  Tokens,
  Spellings,            \* raw identifiers
  TokensOf,             \* every token of each spelling, in order
  Words,                \* words of documentation
  CodeFiles, DocFiles,  \* sequences: the repository's files in walk order
  Production,           \* the files whose role is production
  Terms, TermTokens,    \* the glossary's terms and their tokens
  DocKey,               \* the one word documentation would hold of a term, or None
  Scopes,               \* scopes as the files inside them; AllFiles: repository-wide
  Rank,                 \* where each key and path comes in the order of names
  CodeChoices,          \* what a code file may hold: counts of spellings
  DocChoices,           \* what a documentation file may hold: counts of words
  MaxIdentifierTokens,
  TokensLimit, IdentifiersLimit, DocTermsLimit, LocationsPerTerm,
  CompoundStartBudget, MaxCompoundTermTokens

Code == ToSet(CodeFiles)
Docs == ToSet(DocFiles)
AllFiles == Code \cup Docs

ASSUME EvidenceAssumption ==
  /\ IsFiniteSet(Tokens) /\ IsFiniteSet(Spellings) /\ IsFiniteSet(Words)
  /\ IsFiniteSet(AllFiles) /\ CodeFiles \in Seq(Code) /\ DocFiles \in Seq(Docs)
  /\ Code \cap Docs = {} /\ Production \subseteq AllFiles
  /\ Rank \in [Spellings \cup Tokens \cup Words \cup AllFiles -> Nat]
  /\ TokensOf \in [Spellings -> Seq(Tokens)] /\ TermTokens \in [Terms -> Seq(Tokens)]
  /\ DocKey \in [Terms -> Words \cup {None}] /\ None \notin Words
  /\ \A t \in Terms : DocKey[t] # None => Len(TermTokens[t]) = 1
  /\ AllFiles \in Scopes /\ Scopes \subseteq SUBSET AllFiles
  /\ CodeChoices \subseteq [Spellings -> Nat] /\ DocChoices \subseteq [Words -> Nat]
  /\ {MaxIdentifierTokens, TokensLimit, IdentifiersLimit, DocTermsLimit,
      LocationsPerTerm, CompoundStartBudget, MaxCompoundTermTokens} \subseteq Nat

VARIABLES
  identifiers, words,            \* the repository: what its files hold
  unread,                        \* files not come to yet
  missed,                        \* files the scan left out or could not read
  token_files, identifier_files, term_files,   \* counts by file
  oversized_spellings,
  pc,                            \* "fold", "match", "done"
  units,                         \* the identifiers left to match
  processed_starts,
  matches                        \* the spellings each compound was found in

repository == <<identifiers, words>>
vocabulary == <<token_files, identifier_files, term_files, oversized_spellings>>
matching == <<units, processed_starts, matches>>
evidenceVars == <<repository, unread, missed, vocabulary, pc, matching>>

\* Of the corpus budget.
production_complete == missed \cap Production = {}
repository_complete == missed = {}

(***************************************************************************)
(* Counters.                                                               *)
(***************************************************************************)
Uses(counter) == UNION {{k} \X (1..counter[k]) : k \in DOMAIN counter}
Total(counter) == Cardinality(Uses(counter))
Seen(counter) == {k \in DOMAIN counter : counter[k] > 0}

Times(x, s) == Cardinality({i \in 1..Len(s) : s[i] = x})
Begins(t, s, i) == i + Len(t) - 1 <= Len(s) /\ \A j \in 1..Len(t) : s[i + j - 1] = t[j]
Within(t, s) == \E i \in 1..Len(s) : Begins(t, s, i)

\* tokenize_identifier_bounded: the retained prefix.
identifier_tokens(name) ==
  IF Len(TokensOf[name]) <= MaxIdentifierTokens THEN TokensOf[name]
  ELSE SubSeq(TokensOf[name], 1, MaxIdentifierTokens)

\* The keys a bounded table keeps: the first by count, then by name.
Ahead(counter, d, k) == counter[d] > counter[k] \/ (counter[d] = counter[k] /\ Rank[d] < Rank[k])

Top(counter, cap) ==
  LET seen == Seen(counter)
  IN {k \in seen : Cardinality({d \in seen : Ahead(counter, d, k)}) < cap}

ByKey(files) == [k \in DOMAIN files |-> Total(files[k])]

Table(files, cap) ==
  [items |-> Top(ByKey(files), cap), truncated |-> Cardinality(Seen(ByKey(files))) > cap]

tokens == Table(token_files, TokensLimit)
identifier_table == Table(identifier_files, IdentifiersLimit)
doc_terms == Table(term_files, DocTermsLimit)

location_sample(per_file) ==
  [paths |-> Top(per_file, LocationsPerTerm),
   truncated |-> Cardinality(Seen(per_file)) > LocationsPerTerm]

(***************************************************************************)
(* Folding the files.                                                      *)
(***************************************************************************)
Folded(f) == f \in Production

\* A file the walk left out or that could not be read: the corpus budget
\* skipped it.
MissFile ==
  /\ pc = "fold" /\ unread # <<>>
  /\ unread' = Tail(unread)
  /\ missed' = missed \cup {Head(unread)}
  /\ UNCHANGED <<repository, vocabulary, pc, matching>>

\* _fold_code_files and ProductionVocabulary.fold for the next code file.
FoldCode ==
  /\ pc = "fold" /\ unread # <<>> /\ Head(unread) \in Code
  /\ unread' = Tail(unread)
  /\ LET f == Head(unread)
         held == IF Folded(f) THEN Seen(identifiers[f]) ELSE {}
         uses(t) == Total([n \in held |-> identifiers[f][n] * Times(t, identifier_tokens(n))])
     IN /\ identifier_files' = [n \in Spellings |->
             [identifier_files[n] EXCEPT ![f] = IF n \in held THEN identifiers[f][n] ELSE 0]]
        /\ token_files' = [t \in Tokens |-> [token_files[t] EXCEPT ![f] = uses(t)]]
        /\ oversized_spellings' =
             oversized_spellings \cup {n \in held : Len(TokensOf[n]) > MaxIdentifierTokens}
  /\ UNCHANGED <<repository, missed, term_files, pc, matching>>

\* _fold_doc_files and DocumentationVocabulary.fold for the next document.
FoldDoc ==
  /\ pc = "fold" /\ unread # <<>> /\ Head(unread) \in Docs
  /\ unread' = Tail(unread)
  /\ LET f == Head(unread) IN
     term_files' = [w \in Words |->
       [term_files[w] EXCEPT ![f] = IF Folded(f) THEN words[f][w] ELSE 0]]
  /\ UNCHANGED <<repository, missed, token_files, identifier_files,
                 oversized_spellings, pc, matching>>

(***************************************************************************)
(* EvidenceIndex: matching compound terms.                                 *)
(***************************************************************************)
Compounds == {t \in Terms : Len(TermTokens[t]) > 1}
Supported == {t \in Compounds : Len(TermTokens[t]) <= MaxCompoundTermTokens}

StartsOf(names) == Total([n \in names |-> Len(identifier_tokens(n))])
total_starts == IF Supported = {} THEN 0 ELSE StartsOf(identifier_table.items)

\* The tables are complete and the index is built over them.
BuildIndex ==
  /\ pc = "fold" /\ unread = <<>>
  /\ pc' = "match"
  /\ units' = IF Supported = {} THEN {} ELSE identifier_table.items
  /\ UNCHANGED <<repository, unread, missed, vocabulary,
                 processed_starts, matches>>

\* The compounds that begin at one of the first `reach` tokens of a spelling.
FoundFrom(name, reach) ==
  {t \in Supported : \E i \in 1..reach : Begins(TermTokens[t], identifier_tokens(name), i)}

\* How many positions of the identifier the budget lets be tried.
Reach(name) == Min({Len(identifier_tokens(name)), CompoundStartBudget - processed_starts})

\* One identifier of _match_compounds; the budget may end the pass inside it.
MatchUnit(name) ==
  /\ pc = "match" /\ name \in units
  /\ LET count == ByKey(identifier_files) IN \A n \in units \ {name} : Ahead(count, name, n)
  /\ LET reach == Reach(name)
     IN /\ processed_starts' = processed_starts + reach
        /\ matches' = [t \in Compounds |->
             IF t \in FoundFrom(name, reach) THEN matches[t] \cup {name} ELSE matches[t]]
        /\ units' = IF reach < Len(identifier_tokens(name)) THEN {} ELSE units \ {name}
  /\ UNCHANGED <<repository, unread, missed, vocabulary, pc>>

EndMatching ==
  /\ pc = "match" /\ units = {}
  /\ pc' = "done"
  /\ UNCHANGED <<repository, unread, missed, vocabulary, matching>>

(***************************************************************************)
(* Occurrence queries.                                                     *)
(***************************************************************************)
identifier_tokens_complete == oversized_spellings = {}
compound_complete == processed_starts >= total_starts /\ identifier_tokens_complete
corpus_complete == production_complete /\ identifier_tokens_complete

Facts(count, exact, files, spread_exact) ==
  [count |-> count, count_exact |-> exact, files |-> files, spread_exact |-> spread_exact]

Absent(exact) == Facts(0, exact, {}, exact)

\* Only the sampled locations of an entry can be told apart by path.
_scoped_entry_occurrence(per_file, scope, complete) ==
  LET sample == location_sample(per_file)
      inside == sample.paths \cap scope
      exact == ~sample.truncated /\ complete
  IN Facts(Total(Restrict(per_file, inside)), exact, inside, exact)

_unscoped_entry_occurrence(per_file, complete) ==
  Facts(Total(per_file), complete, Seen(per_file), complete)

Entry(per_file, scope, complete) ==
  IF scope = AllFiles THEN _unscoped_entry_occurrence(per_file, complete)
  ELSE _scoped_entry_occurrence(per_file, scope, complete)

_single_token_occurrence(token, scope) ==
  IF token \notin tokens.items THEN Absent(~tokens.truncated /\ corpus_complete)
  ELSE Entry(token_files[token], scope, corpus_complete)

\* Variant: one entry decides for all of them.
Clipped_OneEntry(t) ==
  matches[t] # {} /\ location_sample(identifier_files[CHOOSE n \in matches[t] : TRUE]).truncated

\* Whether the locations of an entry the compound was found in are a sample.
Clipped(t) == \E n \in matches[t] : location_sample(identifier_files[n]).truncated

_compound_occurrence(t, scope) ==
  LET entries == matches[t]
      inside(n) == location_sample(identifier_files[n]).paths \cap scope
      indexed == /\ ~identifier_table.truncated /\ corpus_complete
                 /\ t \in Supported /\ compound_complete
      amount(n) == IF scope = AllFiles THEN Total(identifier_files[n])
                   ELSE Total(Restrict(identifier_files[n], inside(n)))
  IN Facts(Total([n \in entries |-> amount(n)]), indexed /\ (scope = AllFiles \/ ~Clipped(t)),
           UNION {inside(n) : n \in entries}, indexed /\ ~Clipped(t))

code_term_occurrence(t, scope) ==
  CASE Len(TermTokens[t]) = 0 -> Absent(FALSE)
    [] Len(TermTokens[t]) = 1 -> _single_token_occurrence(TermTokens[t][1], scope)
    [] OTHER                  -> _compound_occurrence(t, scope)

\* A spelling does not depend on its tokens, so their omission does not matter.
code_identifier_occurrence(name, scope) ==
  IF name \notin identifier_table.items
    THEN Absent(~identifier_table.truncated /\ production_complete)
    ELSE Entry(identifier_files[name], scope, production_complete)

doc_term_occurrence(t, scope) ==
  IF DocKey[t] = None THEN Absent(FALSE)
  ELSE IF DocKey[t] \notin doc_terms.items
    THEN Absent(~doc_terms.truncated /\ production_complete)
    ELSE Entry(term_files[DocKey[t]], scope, production_complete)

is_unproven_zero(o) == o.count = 0 /\ ~o.count_exact

(***************************************************************************)
(* The specification.                                                      *)
(***************************************************************************)
EvidenceInit ==
  /\ identifiers \in [Code -> CodeChoices] /\ words \in [Docs -> DocChoices]
  /\ unread = CodeFiles \o DocFiles
  /\ missed = {}
  /\ token_files = [t \in Tokens |-> [f \in Code |-> 0]]
  /\ identifier_files = [n \in Spellings |-> [f \in Code |-> 0]]
  /\ term_files = [w \in Words |-> [f \in Docs |-> 0]]
  /\ oversized_spellings = {}
  /\ pc = "fold"
  /\ units = {} /\ processed_starts = 0
  /\ matches = [t \in Compounds |-> {}]

EvidenceNext == MissFile \/ FoldCode \/ FoldDoc \/ BuildIndex \/ EndMatching \/ \E n \in Spellings : MatchUnit(n)

EvidenceSpec == EvidenceInit /\ [][EvidenceNext]_evidenceVars

(***************************************************************************)
(* What is true of the repository.                                         *)
(***************************************************************************)
\* Uses of a term in one code file: of a token, once for each time a spelling
\* holds it; of a compound, once for each spelling that holds it.
TrueUses(t, f) ==
  LET wanted == TermTokens[t]
      uses(n) == CASE Len(wanted) = 0 -> 0
                   [] Len(wanted) = 1 -> Times(wanted[1], TokensOf[n])
                   [] OTHER -> IF Within(wanted, TokensOf[n]) THEN 1 ELSE 0
  IN Total([n \in Spellings |-> identifiers[f][n] * uses(n)])

CodeTruth(t, scope) ==
  LET inside == Production \cap Code \cap scope IN
  [count |-> Total([f \in inside |-> TrueUses(t, f)]),
   files |-> {f \in inside : TrueUses(t, f) > 0}]

IdentifierTruth(n, scope) ==
  LET inside == Production \cap Code \cap scope IN
  [count |-> Total([f \in inside |-> identifiers[f][n]]),
   files |-> {f \in inside : identifiers[f][n] > 0}]

DocTruth(t, scope) ==
  LET inside == Production \cap Docs \cap scope IN
  IF DocKey[t] = None THEN [count |-> 0, files |-> {}]
  ELSE [count |-> Total([f \in inside |-> words[f][DocKey[t]]]),
        files |-> {f \in inside : words[f][DocKey[t]] > 0}]

(***************************************************************************)
(* Properties.                                                             *)
(***************************************************************************)
\* An occurrence never counts what no production file holds, and is right
\* where it says so.
Answers(o, truth) ==
  /\ o.count <= truth.count /\ o.files \subseteq truth.files
  /\ o.count_exact => o.count = truth.count

\* A count called exact is the number of uses in all production files the
\* repository holds, those the scan never saw included, whatever was capped,
\* clipped, cut off or left unmatched on the way (is_unproven_zero: "count_exact
\* already combines corpus, table, scope-location, matching work, and
\* term-representability limits"); files called exact are all that use the
\* term; and any other count is a lower bound.
CountsTrue ==
  pc = "done" =>
    \A s \in Scopes :
      /\ \A t \in Terms :
           LET o == code_term_occurrence(t, s) IN
           /\ Answers(o, CodeTruth(t, s))
           /\ o.spread_exact => o.files = CodeTruth(t, s).files
           /\ Answers(doc_term_occurrence(t, s), DocTruth(t, s))
      /\ \A n \in Spellings : Answers(code_identifier_occurrence(n, s), IdentifierTruth(n, s))
=============================================================================
