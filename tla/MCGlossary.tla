----------------------------- MODULE MCGlossary -----------------------------
(***************************************************************************)
(* What Glossabet does with a glossary, on small instances: validate whose *)
(* words they are, compare them with the evidence of a scan and with the   *)
(* graph Graphify left, render them in a brief, and project all of it into *)
(* an agent's context.  A behaviour is one of these, as none reads the     *)
(* variables of another.                                                   *)
(***************************************************************************)
EXTENDS Reconciliation, OverloadedTerms, StructuralMatching, ScopeOwners, Brief, AgentContext, TLC

VARIABLE command

(***************************************************************************)
(* Ownership: prefixes src, src/a, src/b, src/a/x, guide, with scopes of one *)
(* prefix and of two unrelated ones.                                       *)
(***************************************************************************)
CONSTANTS src, srca, srcb, srcax, guide, top

MCPrefixes == {src, srca, srcb, srcax, guide}

MCAtOrAbove ==
  (src :> {top, src}) @@ (srca :> {top, src, srca}) @@ (srcb :> {top, src, srcb})
    @@ (srcax :> {top, src, srca, srcax}) @@ (guide :> {top, guide})

MCScopes ==
  {{p} : p \in MCPrefixes} \cup {{srca, srcb}, {srcax, guide}, {srcb, srcax}}

(***************************************************************************)
(* Drift: a word and a compound over two production files, a test file and *)
(* a document.  The compound has two spellings and a third longer than the *)
(* limit on tokens.                                                        *)
(***************************************************************************)
CONSTANTS a, b, c, B, AB, AB2, BCAAB, C, c1, t1, c2, d1, tb, tab

MCTokensOf ==
  [n \in {B, AB, AB2, BCAAB, C} |->
     CASE n = B -> <<b>> [] n = C -> <<c>> [] n = BCAAB -> <<b, c, a, a, b>> [] OTHER -> <<a, b>>]
MCCodeFiles == <<c1, t1, c2>>
MCDocFiles == <<d1>>
MCTermTokens == [t \in {tb, tab} |-> IF t = tb THEN <<b>> ELSE <<a, b>>]
MCDocKey == [t \in {tb, tab} |-> IF t = tb THEN b ELSE None]
MCFileScopes == {{c1, t1, c2, d1}, {c1, d1}}
MCSorted == <<a, b, c, C, B, AB, AB2, BCAAB, c1, t1, c2, d1>>
MCRank == [x \in Range(MCSorted) |-> CHOOSE i \in DOMAIN MCSorted : MCSorted[i] = x]

Holding(x, y, z, v, w) ==
  [n \in {B, AB, AB2, BCAAB, C} |->
     CASE n = B -> x [] n = AB -> y [] n = AB2 -> z [] n = BCAAB -> v [] OTHER -> w]
MCCodeChoices ==
  {Holding(0, 0, 0, 0, 2), Holding(1, 0, 0, 0, 0), Holding(0, 0, 1, 0, 0),
   Holding(2, 1, 2, 0, 0), Holding(0, 0, 0, 2, 0)}
MCDocChoices == {[w \in {a, b} |-> 0], [w \in {a, b} |-> IF w = b THEN 1 ELSE 0]}

Owned(status, alias) == [status: status, scope: MCFileScopes, alias: {alias}]
MCGlossaries ==
  {[t \in {tb, tab} |-> IF t = tb THEN word ELSE compound] :
     word \in Owned({"canonical", "deprecated"}, FALSE),
     compound \in Owned({"canonical"}, FALSE) \cup Owned({"discouraged"}, TRUE)}

(***************************************************************************)
(* Validation: a directory for each code file, a path the scan left aside  *)
(* and one that names nothing, bound to the terms by their scopes.         *)
(***************************************************************************)
CONSTANTS m1, m2, mt, aside, gone

MCModuleOf == (c1 :> m1) @@ (c2 :> m2) @@ (t1 :> mt)
MCModulesIn == [s \in MCFileScopes |-> IF s = {c1, d1} THEN {m1} ELSE {m1, m2, mt}]

Ref(sort, of) == [kind |-> sort, of |-> of]
MCBindingsOf ==
  [g \in MCGlossaries |-> [t \in {tb, tab} |->
     CASE t = tb /\ g[t].scope = {c1, d1}  -> {Ref("symbol", B), Ref("module", m2)}
       [] t = tb                           -> {Ref("symbol", C), Ref("file", aside)}
       [] t = tab /\ g[t].scope = {c1, d1} -> {Ref("file", gone)}
       [] OTHER                            -> {Ref("file", c2), Ref("module", gone)}]]

(***************************************************************************)
(* Structure: three nodes in up to four communities, written in up to four *)
(* entries of which two may claim one id, against three concepts.          *)
(***************************************************************************)
CONSTANTS n1, n2, n3

Label(known, lost) == [known |-> known, lost |-> lost, truncated |-> lost # {}]
Empty == Label({}, {})

MCLabels == {Empty, Label({1}, {}), Label({2}, {}), Label({1, 2}, {}), Label({1}, {2}), Label({3}, {})}

Node(label) == [label |-> label, prov |-> "code"]
Echo(label) == [label |-> label, prov |-> "glossary"]

MCNodes ==
  {f \in [{n1, n2, n3} -> {None} \cup {Node(l) : l \in MCLabels \ {Empty}} \cup {Echo(Label({2}, {}))}] :
     /\ f[n1] \in {Node(Label({1}, {})), Node(Label({3}, {}))}
     /\ f[n3] # Node(Label({1}, {2}))}

Claiming(id, label, members) == [id |-> id, label |-> label, members |-> members]

MCCommunities ==
  {<<Claiming(1, l, {n1}), Claiming(1, Label({3}, {}), {n2}), Claiming(2, Empty, {n3})>> : l \in {Empty, Label({1}, {2})}}
  \cup {<<Claiming(1, Empty, {n1, n2}), None, Claiming(2, l, {n2, n3})>> : l \in {Empty, Label({1, 2}, {})}}
  \cup {<<Claiming(1, Empty, {n1}), Claiming(2, Empty, {n2}), Claiming(3, Empty, {n3}),
            Claiming(4, Label({2}, {}), {n1, n3})>>, <<>>}

MCGraphs == [nodes: MCNodes, communities: MCCommunities]

Canonically(term, binding) == [term |-> term, binding |-> binding, scoped |-> FALSE]

MCConcepts ==
  [{1, 2, 3} -> {Canonically({1}, {}), Canonically({2}, {}), Canonically({1, 2}, {3}), Canonically({}, {})}]
    \cup {[n \in {1, 2, 3} |-> IF n = 2 THEN [Canonically({2}, {}) EXCEPT !.scoped = TRUE]
                                        ELSE Canonically({1}, {})]}

(***************************************************************************)
(* Briefs of up to eleven concepts, of which the last is of any size: all  *)
(* fit, some are cut or left out, and the counts reach two digits.         *)
(***************************************************************************)
MCBriefs ==
  [header: {20, 36, 120},
   entries: {[i \in 1..n |-> IF i = n THEN last ELSE 7] : n \in {0, 1, 2, 5, 10, 11}, last \in 1..30}
     \cup {<<25, 4>>, <<7, 25, 25>>, <<25, 25, 25, 25, 25>>}]

(***************************************************************************)
(* Documents of modules and of a glossary whose concepts have a definition *)
(* and aliases; concepts, aliases and texts may be too many or too long.   *)
(***************************************************************************)
At(sort, n) == [sort |-> sort, size |-> n]

MCIndices == <<"1", "2", "3">>
Below(n) == {MCIndices[i] : i \in 1..n}

DocumentOf(modules, concepts) ==
  (<<>> :> At("object", 2)) @@ (<<"modules">> :> At("list", modules))
    @@ (<<"concepts">> :> At("list", Len(concepts)))
    @@ [p \in {<<"modules", x>> : x \in Below(modules)} |-> At("scalar", 1)]
    @@ FoldFunction(@@, <<>>, [i \in DOMAIN concepts |->
         (<<"concepts", MCIndices[i]>> :> At("object", 2))
           @@ (<<"concepts", MCIndices[i], "definition">> :> At("string", concepts[i].definition))
           @@ (<<"concepts", MCIndices[i], "aliases">> :> At("list", concepts[i].aliases))
           @@ [p \in {<<"concepts", MCIndices[i], "aliases", x>> : x \in Below(concepts[i].aliases)} |-> At("string", 1)]])

MCDocuments ==
  {DocumentOf(modules, concepts) :
     modules \in {0, 3},
     concepts \in UNION {[1..n -> [definition: {1, 4}, aliases: {0, 2}]] : n \in {0, 3}}}

MCListLimits == (<<"modules">> :> 2) @@ (<<"concepts">> :> 2)
MCTables == {<<"tokens", "items", "*", "locations">>, <<"doc_terms", "items", "*", "locations">>}
MCExemplarsAt == <<"register", "exemplars">>
MCNamingLocations == <<"terms", "*", "locations">>

(***************************************************************************)
(* Two domain tokens over five modules, in contexts alike, apart, at the   *)
(* threshold, and of too many modules or too many contexts to measure or   *)
(* to show; a third token that is rare, or a word of the language.  A scan *)
(* may miss a module, or the tails of the identifiers of another.          *)
(***************************************************************************)
MCContexts ==
  {<<{4}, {5}, {}, {}, {}>>, <<{4, 5}, {4, 6}, {}, {}, {}>>, <<{6}, {4, 5, 6}, {}, {}, {}>>, <<{4, 5, 6, 7}, {4}, {}, {}, {}>>,
   <<{4, 5}, {4, 5}, {6}, {}, {}>>, <<{4}, {4, 5}, {6}, {}, {}>>, <<{4}, {5}, {6}, {7}, {}>>, <<{4}, {4}, {5}, {5}, {6}>>,
   <<{4}, {5}, {4}, {4}, {}>>, <<{4}, {}, {}, {}, {}>>}

TokenUse(contexts, often, language) ==
  [language |-> language, contexts |-> contexts,
   count |-> [m \in 1..5 |-> IF contexts[m] = {} THEN 0 ELSE often[m]],
   total |-> MapThenSumSet(LAMBDA m : IF contexts[m] = {} THEN 0 ELSE often[m], 1..5)]

MCThird ==
  {TokenUse(<<{4}, {5}, {}, {}, {}>>, <<2, 2, 0, 0, 0>>, language) : language \in BOOLEAN}
    \cup {TokenUse(<<{4}, {}, {}, {}, {}>>, <<1, 0, 0, 0, 0>>, FALSE)}

MCUsage ==
  {<<TokenUse(one, <<1, 2, 3, 1, 1>>, FALSE), TokenUse(two, often, FALSE), three>> :
     one \in MCContexts, two \in {x \in MCContexts : x[4] = {} /\ 7 \notin x[1]},
     often \in {<<1, 1, 1, 1, 1>>, <<4, 3, 3, 3, 3>>}, three \in MCThird}

Missed(u, m) ==
  [t \in 1..3 |-> [u[t] EXCEPT !.total = @ - u[t].count[m], !.count[m] = 0, !.contexts[m] = {}]]

MCRepositories ==
  UNION {{[truth |-> u, read |-> u, corpus_complete |-> TRUE, oversized |-> FALSE],
          [truth |-> u, read |-> Missed(u, 2), corpus_complete |-> FALSE, oversized |-> FALSE],
          [truth |-> u, read |-> [t \in 1..3 |-> [u[t] EXCEPT !.contexts[1] = {}]], corpus_complete |-> TRUE, oversized |-> TRUE]} :
            u \in MCUsage}

Meaning(token, within) == [token |-> token, scope |-> within]

MCCanonicalSets ==
  {{Meaning(1, None)}, {Meaning(1, {1, 2}), Meaning(1, {3, 4})}, {Meaning(1, {1, 3}), Meaning(2, None)},
   {Meaning(2, {1, 2}), Meaning(3, None)}}

(***************************************************************************)
(* One of these; the others stand still, at one of their beginnings.       *)
(* The test file holds the most or next to nothing (bound).                *)
(***************************************************************************)
MCReportInit ==
  /\ ReconciliationInit
  /\ identifiers[t1] \in {Holding(0, 0, 0, 0, 2), Holding(2, 1, 2, 0, 0)}

NoDrift ==
  /\ identifiers = [f \in Code |-> CHOOSE x \in CodeChoices : TRUE]
  /\ words = [f \in Docs |-> CHOOSE x \in DocChoices : TRUE]
  /\ glossary = CHOOSE x \in Glossaries : TRUE
  /\ ReconciliationInit

NoStructure ==
  /\ graph = CHOOSE x \in Graphs : TRUE
  /\ canonical = CHOOSE x \in ConceptChoices : TRUE
  /\ StructureInit

NoBrief == brief = [header |-> 20, entries |-> <<>>] /\ BriefStart

NoContext ==
  /\ document = DocumentOf(0, <<>>) /\ full = FALSE /\ corpus_read = FALSE
  /\ ContextStart

NoOverloads ==
  /\ usage = None /\ concept_set = {} /\ OverloadStart

MCInit ==
  \/ command = "save" /\ OwnersInit /\ NoDrift /\ NoStructure /\ NoBrief /\ NoContext /\ NoOverloads
  \/ command = "report" /\ OwnersInit /\ MCReportInit /\ NoStructure /\ NoBrief /\ NoContext /\ NoOverloads
  \/ command = "validate" /\ OwnersInit /\ NoDrift /\ StructureInit /\ NoBrief /\ NoContext /\ NoOverloads
  \/ command = "brief" /\ OwnersInit /\ NoDrift /\ NoStructure /\ BriefInit /\ NoContext /\ NoOverloads
  \/ command = "inspect" /\ OwnersInit /\ NoDrift /\ NoStructure /\ NoBrief /\ ContextInit /\ NoOverloads
  \/ command = "drift" /\ OverloadInit /\ OwnersInit /\ NoDrift /\ NoStructure /\ NoBrief /\ NoContext

reportVars == <<vars, validation>>

MCNext ==
  /\ UNCHANGED command
  /\ \/ command = "save" /\ OwnersNext /\ UNCHANGED <<reportVars, structureVars, briefVars, contextVars, overloadVars>>
     \/ command = "report" /\ ReconciliationNext /\ UNCHANGED <<ownersVars, structureVars, briefVars, contextVars, overloadVars>>
     \/ command = "validate" /\ StructureNext /\ UNCHANGED <<ownersVars, reportVars, briefVars, contextVars, overloadVars>>
     \/ command = "brief" /\ BriefNext /\ UNCHANGED <<ownersVars, reportVars, structureVars, contextVars, overloadVars>>
     \/ command = "inspect" /\ ContextNext /\ UNCHANGED <<ownersVars, reportVars, structureVars, briefVars, overloadVars>>
     \/ command = "drift" /\ OverloadNext /\ UNCHANGED <<ownersVars, reportVars, structureVars, briefVars, contextVars>>

MCSpec == MCInit /\ [][MCNext]_<<command, ownersVars, reportVars, structureVars, briefVars, contextVars, overloadVars>>
=============================================================================
