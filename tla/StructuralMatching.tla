-------------------------- MODULE StructuralMatching --------------------------
(***************************************************************************)
(* Validation from structure to glossary.  Graphify's communities become   *)
(* bounded groups of labelled nodes; each group is matched, under one      *)
(* budget for all of them, against the canonical concepts; groups without  *)
(* a concept, concepts that share a group and groups with too many         *)
(* concepts are reported, with totals that are exact or lower bounds.      *)
(*                                                                         *)
(* Left out: the fallback to community attributes of nodes, cohesion,      *)
(* degrees and god nodes, displayed members, freshness, wording; which     *)
(* group comes next and which pairs are shown, fixed in the code by their  *)
(* names, is any choice here.                                              *)
(***************************************************************************)
EXTENDS Integers, FiniteSets, FiniteSetsExt, Sequences, Absent

CONSTANTS
  LabelTokens,           \* words, as numbers in their sorting order
  NodeIds, GroupIds,     \* of nodes, and of communities in their sorting order
  Concepts,         \* ids of canonical concepts, in their sorting order
  Labels,           \* labels that occur, a subset of AllLabels
  Graphs,           \* [nodes, communities] of the graphs considered
  ConceptChoices,       \* the canonical concepts of the glossaries considered
  MEMBER_TOKEN_CAP, GROUP_CAP, STRUCTURAL_MATCH_BUDGET, FINDINGS_CAP,
  overloaded_min_concepts

\* A label: its tokens within the limit on characters, those of the words that
\* the limit clips, and whether it clips any.
AllLabels ==
  {l \in [known: SUBSET LabelTokens, lost: SUBSET LabelTokens, truncated: BOOLEAN] :
     ~l.truncated => l.lost = {}}

NodeRecords == [label: Labels, prov: {"code", "doc", "glossary"}]

\* An entry of the communities list: None is one that is not usable.
Communities == [id: GroupIds, label: Labels, members: SUBSET NodeIds] \cup {None}

\* What is known of a concept; a path-scoped one cannot be matched.
ConceptWords == [term: SUBSET LabelTokens, binding: SUBSET LabelTokens, scoped: BOOLEAN]

ASSUME StructuralAssumption ==
  /\ LabelTokens \subseteq Nat /\ GroupIds \subseteq Nat /\ Concepts \subseteq Nat
  /\ IsFiniteSet(LabelTokens) /\ IsFiniteSet(GroupIds) /\ IsFiniteSet(Concepts) /\ IsFiniteSet(NodeIds)
  /\ Labels \subseteq AllLabels
  /\ Graphs \subseteq [nodes: [NodeIds -> NodeRecords \cup {None}], communities: Seq(Communities)]
  /\ ConceptChoices \subseteq [Concepts -> ConceptWords]
  /\ {MEMBER_TOKEN_CAP, GROUP_CAP, STRUCTURAL_MATCH_BUDGET, FINDINGS_CAP,
      overloaded_min_concepts} \subseteq Nat
  /\ None \notin NodeRecords
  /\ None \notin [id: GroupIds, label: Labels, members: SUBSET NodeIds]
  /\ None \notin [label: Labels, members: SUBSET NodeIds]

VARIABLES
  graph,                 \* graphify-out/graph.json, as loaded
  canonical,             \* the glossary's canonical concepts
  stage,                    \* "load", "group", "match", "done", "reported"
  next,                  \* the entry of the communities list to come
  groups,                \* by id: label and members, or None
  pending,               \* retained groups not matched yet
  processed_match_work,
  partial_group_matches,
  unnamed,               \* ids of groups without a concept
  boundary,              \* pairs of concepts shown, with their group
  boundary_total,
  overloaded             \* [group, concepts, concept_count_exact]

inputs == <<graph, canonical>>
found == <<unnamed, boundary, boundary_total, overloaded>>
work == <<processed_match_work, partial_group_matches>>
structureVars == <<inputs, stage, next, groups, pending, work, found>>

(***************************************************************************)
(* Groups.                                                                 *)
(***************************************************************************)
\* Glossabet's own vocabulary, echoed by a node, is never structure.
Visible(members) ==
  {n \in members : graph.nodes[n] # None /\ graph.nodes[n].prov # "glossary"}

group_items == {g \in GroupIds : groups[g] # None /\ Visible(groups[g].members) # {}}

size(g) == Cardinality(Visible(groups[g].members))

\* The largest groups, ties by id.
retained_groups ==
  {g \in group_items :
     Cardinality({h \in group_items : size(h) > size(g) \/ (size(h) = size(g) /\ h < g)})
       < GROUP_CAP}

groups_dropped == Cardinality(group_items) - Cardinality(retained_groups)
usable == group_items # {}

all_member_tokens(g) == UNION {graph.nodes[n].label.known : n \in Visible(groups[g].members)}

\* Up to the cap, in sorting order.
member_tokens(g) ==
  LET all == all_member_tokens(g) IN
  {t \in all : Cardinality({u \in all : u < t}) < MEMBER_TOKEN_CAP}

member_tokens_complete(g) ==
  /\ \A n \in Visible(groups[g].members) : ~graph.nodes[n].label.truncated
  /\ Cardinality(all_member_tokens(g)) <= MEMBER_TOKEN_CAP

(***************************************************************************)
(* Matching.                                                               *)
(***************************************************************************)
MATCH_NONE == 0
MATCH_WEAK == 1
MATCH_STRONG == 2
MATCH_LABEL == 3

structural_match_strength(label, all, words) ==
  IF words.term # {} /\ words.term \subseteq label THEN MATCH_LABEL
  ELSE IF words.term # {} /\ words.term \subseteq all THEN MATCH_STRONG
  ELSE IF (words.term \cup words.binding) \cap all # {} THEN MATCH_WEAK
  ELSE MATCH_NONE

global_canonical == {c \in Concepts : ~canonical[c].scoped}
scoped_canonical == Concepts \ global_canonical

label_tokens(g) == groups[g].label.known
combined(g) == label_tokens(g) \cup member_tokens(g)

group_evidence_complete(g) == member_tokens_complete(g) /\ ~groups[g].label.truncated

\* Reached through the inverted index of tokens.
candidate_ids(g) ==
  {c \in global_canonical : (canonical[c].term \cup canonical[c].binding) \cap combined(g) # {}}

\* What the budget still lets be looked at, in sorting order.
evaluated_ids(g) ==
  LET ids == candidate_ids(g) IN
  {c \in ids : Cardinality({d \in ids : d < c})
                 < STRUCTURAL_MATCH_BUDGET - processed_match_work}

strength(g, c) == structural_match_strength(label_tokens(g), combined(g), canonical[c])
strong(g) == {c \in evaluated_ids(g) : strength(g, c) >= MATCH_STRONG}

PairsOf(cs) == {p \in cs \X cs : p[1] < p[2]}
\* n * (n - 1) // 2
PairCount(cs) == (Cardinality(cs) * (Cardinality(cs) - 1)) \div 2

group_match_complete(g) == evaluated_ids(g) = candidate_ids(g)

\* Variant: a group whose candidates went unread is taken for unnamed.
Unnamed_Unread(g) ==
  group_evidence_complete(g) /\ \A c \in evaluated_ids(g) : strength(g, c) = MATCH_NONE

Unnamed(g) ==
  /\ group_evidence_complete(g) /\ group_match_complete(g)
  /\ \A c \in evaluated_ids(g) : strength(g, c) = MATCH_NONE

is_overloaded_region(n) == n >= overloaded_min_concepts

detail_slots == Max({0, FINDINGS_CAP - Cardinality(boundary)})

(***************************************************************************)
(* The steps of build_structural_groups and _structure_findings.           *)
(***************************************************************************)
\* The graph is absent, oversized, malformed or over the adapter's budgets.
RefuseGraph ==
  /\ stage = "load"
  /\ stage' = "reported"
  /\ UNCHANGED <<inputs, next, groups, pending, work, found>>

LoadGraph ==
  /\ stage = "load"
  /\ stage' = "group"
  /\ UNCHANGED <<inputs, next, groups, pending, work, found>>

\* Two entries that claim one id are one community written twice.
Grown(old, entry) ==
  LET members == {n \in entry.members : graph.nodes[n] # None} IN
  IF old = None THEN [label |-> entry.label, members |-> members]
  ELSE [old EXCEPT !.members = @ \cup members]

\* One entry of _groups_from_communities.
AddCommunity ==
  /\ stage = "group" /\ next <= Len(graph.communities)
  /\ next' = next + 1
  /\ LET entry == graph.communities[next] IN
     groups' = IF entry = None THEN groups
               ELSE [groups EXCEPT ![entry.id] = Grown(@, entry)]
  /\ UNCHANGED <<inputs, stage, pending, work, found>>

\* _group_items, the cap on groups, and the contexts of the retained ones; an
\* unusable graph skips the structural checks.
EndGroups ==
  /\ stage = "group" /\ next > Len(graph.communities)
  /\ IF usable THEN stage' = "match" /\ pending' = retained_groups
     ELSE stage' = "reported" /\ UNCHANGED pending
  /\ UNCHANGED <<inputs, next, groups, work, found>>

\* One turn of the loop of _structure_findings.
MatchGroup(g) ==
  /\ stage = "match" /\ g \in pending
  /\ pending' = pending \ {g}
  /\ processed_match_work' = processed_match_work + Cardinality(evaluated_ids(g))
  /\ partial_group_matches' = (partial_group_matches \/ ~group_match_complete(g))
  /\ unnamed' = IF Unnamed(g) THEN unnamed \cup {g} ELSE unnamed
  /\ boundary_total' = boundary_total + PairCount(strong(g))
  /\ \E shown \in SUBSET PairsOf(strong(g)) :
       /\ Cardinality(shown) = Min({detail_slots, PairCount(strong(g))})
       /\ boundary' = boundary \cup {[group |-> g, concepts |-> p] : p \in shown}
  /\ overloaded' =
       IF is_overloaded_region(Cardinality(strong(g)))
         THEN overloaded \cup {[group |-> g, concepts |-> strong(g),
                                concept_count_exact |-> group_match_complete(g)]}
         ELSE overloaded
  /\ UNCHANGED <<inputs, stage, next, groups>>

EndGroupMatching ==
  /\ stage = "match" /\ pending = {}
  /\ stage' = "done"
  /\ UNCHANGED <<inputs, next, groups, pending, work, found>>

\* build_structural_validation: with a path-scoped concept no group can be
\* called unnamed, and the check is skipped.
Report ==
  /\ stage = "done"
  /\ stage' = "reported"
  /\ unnamed' = IF scoped_canonical = {} THEN unnamed ELSE {}
  /\ UNCHANGED <<inputs, next, groups, pending, work, boundary, boundary_total, overloaded>>

\* Whether the totals of the sections that were not skipped are exact: no
\* group was dropped or clipped, no match left undone, no concept left out.
total_items_exact ==
  /\ groups_dropped = 0
  /\ \A g \in retained_groups : group_evidence_complete(g)
  /\ ~partial_group_matches
  /\ scoped_canonical = {}

StructureInit ==
  /\ graph \in Graphs /\ canonical \in ConceptChoices
  /\ stage = "load" /\ next = 1
  /\ groups = [g \in GroupIds |-> None]
  /\ pending = {}
  /\ processed_match_work = 0 /\ partial_group_matches = FALSE
  /\ unnamed = {} /\ boundary = {} /\ boundary_total = 0 /\ overloaded = {}

StructureNext ==
  \/ RefuseGraph \/ LoadGraph \/ AddCommunity \/ EndGroups
  \/ \E g \in GroupIds : MatchGroup(g)
  \/ EndGroupMatching \/ Report

StructureSpec == StructureInit /\ [][StructureNext]_structureVars

(***************************************************************************)
(* What is true of the graph.                                              *)
(***************************************************************************)
Entries(g) ==
  {i \in DOMAIN graph.communities :
     graph.communities[i] # None /\ graph.communities[i].id = g}

TrueMembers(g) ==
  {n \in UNION {graph.communities[i].members : i \in Entries(g)} :
     graph.nodes[n] # None /\ graph.nodes[n].prov \in {"code", "doc"}}

TrueGroups == {g \in GroupIds : TrueMembers(g) # {}}

Whole(label) == label.known \cup label.lost

\* A community's label is that of the first entry that claims its id.
TrueTokens(g) ==
  Whole(graph.communities[CHOOSE i \in Entries(g) : \A j \in Entries(g) : i <= j].label)
    \cup UNION {Whole(graph.nodes[n].label) : n \in TrueMembers(g)}

Named(g, c) == (canonical[c].term \cup canonical[c].binding) \cap TrueTokens(g) # {}

TrulyStrong(g) == {c \in Concepts : canonical[c].term # {} /\ canonical[c].term \subseteq TrueTokens(g)}

\* A group with each pair of concepts that share it.
TruePairs == UNION {{g} \X PairsOf(TrulyStrong(g)) : g \in TrueGroups}

(***************************************************************************)
(* Properties.                                                             *)
(***************************************************************************)
\* A group reported without a concept has none: no canonical concept, in
\* whatever scope, shares a word with any of its labels, clipped or capped
\* ones included (_group_items: reconciliation "reads this collection's ledger
\* before making a negative conclusion").  Positive findings are true of the
\* whole graph, however little of it was kept: every pair shown and every
\* concept counted strongly matches, and no total is more than there is.
\* Totals called exact are those of every community of the graph, and as many
\* pairs are shown as the cap allows (ARCHITECTURE.md: "A lower bound is never
\* serialized as an exact total").
TotalsTrue ==
  /\ stage = "reported" => \A g \in unnamed : g \in TrueGroups /\ \A c \in Concepts : ~Named(g, c)
  /\ \A b \in boundary : {b.concepts[1], b.concepts[2]} \subseteq TrulyStrong(b.group)
  /\ \A o \in overloaded : o.concepts \subseteq TrulyStrong(o.group)
  /\ boundary_total <= Cardinality(TruePairs)
  /\ stage = "reported" /\ usable /\ total_items_exact =>
       /\ unnamed = {g \in TrueGroups : \A c \in Concepts : ~Named(g, c)}
       /\ boundary_total = Cardinality(TruePairs)
       /\ Cardinality(boundary) = Min({FINDINGS_CAP, boundary_total})
       /\ {<<o.group, o.concepts>> : o \in overloaded} =
            {<<g, TrulyStrong(g)>> :
               g \in {h \in TrueGroups : is_overloaded_region(Cardinality(TrulyStrong(h)))}}
=============================================================================
