---------------------------- MODULE ScopeOwners ----------------------------
(***************************************************************************)
(* Who owns a word of the glossary where.  validate_glossary walks the     *)
(* concepts once; the term and every alias of a concept claim their word   *)
(* for the concept's scope, the whole repository or a set of path          *)
(* prefixes.  For each word a ScopeOwnerIndex, a trie over path components *)
(* with an owner at a node and the first owner anywhere below it, answers  *)
(* whether an earlier claim overlaps, without comparing claims pairwise.   *)
(* A claim is added even when it conflicts, and the walk goes on.          *)
(***************************************************************************)
EXTENDS Naturals, Sequences, Absent

CONSTANTS
  PathPrefixes,   \* paths a scope may name, closed under their ancestors
  TrieRoot,       \* the root of the trie
  AtOrAbove,      \* the trie nodes from TrieRoot down to each prefix, it included
  UsableScopes,   \* the usable path scopes: nonempty sets of prefixes
  Repository,     \* the scope of a concept that names no paths
  FoldedWords,    \* folded spellings of terms and aliases
  MaxConcepts,    \* bound: concepts of a glossary
  MaxClaims       \* bound: claims of one word

Nodes == PathPrefixes \cup {TrieRoot}
AnyScope == UsableScopes \cup {Repository}

ASSUME TreeAssumption ==
  /\ TrieRoot \notin PathPrefixes
  /\ AtOrAbove \in [PathPrefixes -> SUBSET Nodes]
  /\ \A p \in PathPrefixes : p \in AtOrAbove[p] /\ TrieRoot \in AtOrAbove[p]
  /\ \A p \in PathPrefixes : \A q \in AtOrAbove[p] \ {TrieRoot} : AtOrAbove[q] \subseteq AtOrAbove[p]
  /\ \A p \in PathPrefixes : \A q, r \in AtOrAbove[p] \ {TrieRoot} :
       q \in AtOrAbove[r] \/ r \in AtOrAbove[q]

ASSUME ScopeAssumption ==
  /\ UsableScopes \subseteq SUBSET PathPrefixes /\ {} \notin UsableScopes
  /\ Repository \notin UsableScopes

Owner == [concept: Nat, part: {"term", "alias"}]

ASSUME BoundAssumption ==
  /\ MaxConcepts \in Nat /\ MaxClaims \in Nat
  /\ None \notin Owner

VARIABLES
  index,          \* vocabulary_owners: the index of each word
  claimed,        \* every claim made so far of each word, in order
  concept, scope, \* the concept being validated and its scope
  part,           \* what it claims next: "term", then "alias"
  errors,         \* TRUE iff a diagnostic was added
  named           \* the pairs of owners and the word diagnostics named

ownersVars == <<index, claimed, concept, scope, part, errors, named>>

(***************************************************************************)
(* UsableScopes.                                                                 *)
(***************************************************************************)
Related(p, q) == p \in AtOrAbove[q] \/ q \in AtOrAbove[p]

scopes_overlap(s, t) ==
  \/ s = Repository \/ t = Repository
  \/ \E p \in s, q \in t : Related(p, q)

(***************************************************************************)
(* ScopeOwnerIndex.  nodes: the trie nodes that exist; here: owner_here;   *)
(* below: subtree_owner.                                                   *)
(***************************************************************************)
Index ==
  [global: Owner \cup {None}, nodes: SUBSET Nodes,
   here: [Nodes -> Owner \cup {None}], below: [Nodes -> Owner \cup {None}]]

EmptyIndex ==
  [global |-> None, nodes |-> {},
   here |-> [n \in Nodes |-> None], below |-> [n \in Nodes |-> None]]

\* Owners met on the way from TrieRoot to p, p excluded.
OwnersAbove(x, p) ==
  {x.here[n] : n \in {m \in (AtOrAbove[p] \ {p}) \cap x.nodes : x.here[m] # None}}

OwnersFrom(x, p) ==
  IF p \notin x.nodes THEN {}
  ELSE IF x.here[p] # None THEN {x.here[p]} ELSE {x.below[p]} \ {None}

\* Variant: an ancestor's subtree counts as well as the ancestor itself.
OwnersMet_AnywhereNear(x, p) ==
  UNION {{x.here[n], x.below[n]} : n \in AtOrAbove[p] \cap x.nodes} \ {None}

OwnersMet(x, p) ==
  IF OwnersAbove(x, p) # {} THEN OwnersAbove(x, p) ELSE OwnersFrom(x, p)

\* The owners conflict may return: it answers with the first it meets, in
\* the order of the prefixes and from the top down; here with any of them.
conflict(x, s) ==
  IF x.global # None THEN {x.global}
  ELSE IF s = Repository THEN {x.below[TrieRoot]} \ {None}
  ELSE UNION {OwnersMet(x, p) : p \in s}

FirstOwner(old, o) == IF old = None THEN o ELSE old

\* Variant: only the claimed node itself learns of its owner.
add_AtNodeOnly(x, s, o) ==
  IF s = Repository THEN [x EXCEPT !.global = FirstOwner(@, o)]
  ELSE LET path == UNION {AtOrAbove[p] : p \in s} IN
       [global |-> x.global,
        nodes |-> x.nodes \cup path,
        here |-> [n \in Nodes |-> IF n \in s THEN FirstOwner(x.here[n], o) ELSE x.here[n]],
        below |-> [n \in Nodes |-> IF n \in s THEN FirstOwner(x.below[n], o) ELSE x.below[n]]]

add(x, s, o) ==
  IF s = Repository THEN [x EXCEPT !.global = FirstOwner(@, o)]
  ELSE LET path == UNION {AtOrAbove[p] : p \in s} IN
       [global |-> x.global,
        nodes |-> x.nodes \cup path,
        here |-> [n \in Nodes |-> IF n \in s THEN FirstOwner(x.here[n], o) ELSE x.here[n]],
        below |-> [n \in Nodes |-> IF n \in path THEN FirstOwner(x.below[n], o) ELSE x.below[n]]]

(***************************************************************************)
(* validate_glossary.                                                      *)
(***************************************************************************)
\* The next concept and its scope.  A scope with a defect is an error; what
\* is left of it may still be usable, or the concept claims nothing.
NextConcept(s, sound, usable) ==
  /\ concept < MaxConcepts
  /\ sound => usable
  /\ concept' = concept + 1
  /\ scope' = s
  /\ part' = IF usable THEN "term" ELSE "none"
  /\ errors' = (errors \/ ~sound)
  /\ UNCHANGED <<index, claimed, named>>

\* A term that is missing or not a usable string.
SkipTerm ==
  /\ part = "term"
  /\ part' = "alias"
  /\ errors' = TRUE
  /\ UNCHANGED <<index, claimed, concept, scope, named>>

ThisOwner == [concept |-> concept, part |-> part]

\* claim_vocabulary for the concept's term or its next alias.
ClaimVocabulary(w) ==
  /\ part \in {"term", "alias"} /\ Len(claimed[w]) < MaxClaims
  /\ index' = [index EXCEPT ![w] = add(index[w], scope, ThisOwner)]
  /\ claimed' = [claimed EXCEPT ![w] = Append(@, [owner |-> ThisOwner, scope |-> scope])]
  /\ \/ /\ conflict(index[w], scope) = {}
        /\ UNCHANGED <<errors, named>>
     \/ \E previous \in conflict(index[w], scope) :
          /\ errors' = TRUE
          /\ named' = named \cup {[word |-> w, previous |-> previous,
                                   owner |-> ThisOwner, scope |-> scope]}
  /\ part' = "alias"
  /\ UNCHANGED <<concept, scope>>

OwnersInit ==
  /\ index = [w \in FoldedWords |-> EmptyIndex]
  /\ claimed = [w \in FoldedWords |-> <<>>]
  /\ concept = 0 /\ scope = Repository /\ part = "none"
  /\ errors = FALSE
  /\ named = {}

OwnersNext ==
  \/ \E s \in AnyScope, sound, usable \in BOOLEAN : NextConcept(s, sound, usable)
  \/ SkipTerm
  \/ \E w \in FoldedWords : ClaimVocabulary(w)

OwnersSpec == OwnersInit /\ [][OwnersNext]_ownersVars

(***************************************************************************)
(* Properties.                                                             *)
(***************************************************************************)
Claim == [owner: Owner, scope: AnyScope]

OwnersTypeOK ==
  /\ index \in [FoldedWords -> Index]
  /\ claimed \in [FoldedWords -> Seq(Claim)]
  /\ concept \in 0..MaxConcepts
  /\ scope \in AnyScope
  /\ part \in {"none", "term", "alias"}
  /\ errors \in BOOLEAN
  /\ named \subseteq [word: FoldedWords, previous: Owner, owner: Owner, scope: AnyScope]

\* A glossary without diagnostics gives no word two owners in overlapping
\* scopes, whether two concepts or one concept twice claimed it
\* (checked_glossary: "every ... ownership rule").
AcceptedDisjoint ==
  ~errors =>
    \A w \in FoldedWords : \A i, j \in 1..Len(claimed[w]) :
      i # j => ~scopes_overlap(claimed[w][i].scope, claimed[w][j].scope)

\* A diagnostic about two owners names a real earlier claim of that word
\* whose scope overlaps: no glossary is refused for claims that are disjoint.
DiagnosticsTrue ==
  \A d \in named :
    \E i, j \in 1..Len(claimed[d.word]) :
      /\ i < j
      /\ claimed[d.word][i].owner = d.previous
      /\ claimed[d.word][j] = [owner |-> d.owner, scope |-> d.scope]
      /\ scopes_overlap(claimed[d.word][i].scope, d.scope)
=============================================================================
