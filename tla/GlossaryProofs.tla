--------------------------- MODULE GlossaryProofs ---------------------------
(***************************************************************************)
(* Proofs about what is done with a glossary: whose words they are         *)
(* (ScopeOwners), how they are rendered for an agent (Brief), how they are *)
(* matched with the structure Graphify found (StructuralMatching), which   *)
(* of them are used in too many senses (OverloadedTerms), and what of it   *)
(* all an agent's context holds (AgentContext).                            *)
(***************************************************************************)
EXTENDS ScopeOwners, Brief, StructuralMatching, OverloadedTerms, AgentContext,
  FiniteSetTheorems, NaturalsInduction, WellFoundedInduction, TLAPS

(***************************************************************************)
(* Ownership: every tree of prefixes, every set of scopes and words, and   *)
(* any number of concepts and claims.                                      *)
(***************************************************************************)
\* The claims a sequence holds.
Made(c) == {c[k] : k \in 1..Len(c)}

\* An index x holds exactly what the claims c put into it: every owner it
\* keeps made a claim that covers the place it is kept at, and every place a
\* claim covers keeps an owner.
Exact(x, c) ==
  /\ x.global # None => \E m \in Made(c) : m.scope = Repository /\ m.owner = x.global
  /\ \A m \in Made(c) : m.scope = Repository => x.global # None
  /\ \A n \in Nodes : x.here[n] # None =>
       \E m \in Made(c) : m.scope \in UsableScopes /\ n \in m.scope /\ m.owner = x.here[n]
  /\ \A n \in Nodes : x.below[n] # None =>
       \E m \in Made(c) : /\ m.scope \in UsableScopes /\ m.owner = x.below[n]
                          /\ \E p \in m.scope : n \in AtOrAbove[p]
  /\ \A m \in Made(c) : m.scope \in UsableScopes =>
       \A p \in m.scope :
         /\ x.here[p] # None
         /\ \A n \in AtOrAbove[p] : n \in x.nodes /\ x.below[n] # None

\* The inductive invariant: the index is needed to know that an absent
\* conflict means disjoint claims.
IInv ==
  /\ OwnersTypeOK
  /\ \A w \in FoldedWords : Exact(index[w], claimed[w])
  /\ AcceptedDisjoint
  /\ DiagnosticsTrue

(***************************************************************************)
(* Lemmas about the index.                                                 *)
(***************************************************************************)
\* Appending a claim adds it to the claims made.
LEMMA MadeAppend ==
  ASSUME NEW c \in Seq(Claim), NEW m \in Claim
  PROVE  Made(Append(c, m)) = Made(c) \cup {m}
<1>1. Append(c, m) \in Seq(Claim) /\ Len(Append(c, m)) = Len(c) + 1 /\ Len(c) \in Nat
  OBVIOUS
<1>2. \A k \in 1..Len(c) : Append(c, m)[k] = c[k]
  OBVIOUS
<1>3. Append(c, m)[Len(c) + 1] = m
  OBVIOUS
<1>4. 1..Len(Append(c, m)) = (1..Len(c)) \cup {Len(c) + 1}
  BY <1>1
<1> QED
  BY <1>2, <1>3, <1>4 DEF Made

\* add returns an index.
LEMMA AddType ==
  ASSUME NEW x \in Index, NEW s \in AnyScope, NEW o \in Owner
  PROVE  add(x, s, o) \in Index
<1>1. CASE s = Repository
  BY <1>1 DEF add, Index, FirstOwner
<1>2. CASE s # Repository
  <2> DEFINE path == UNION {AtOrAbove[p] : p \in s}
  <2>1. s \in SUBSET PathPrefixes
    BY <1>2, ScopeAssumption DEF AnyScope
  <2>2. path \subseteq Nodes
    BY <2>1, TreeAssumption
  <2> HIDE DEF path
  <2>3. add(x, s, o) =
          [global |-> x.global, nodes |-> x.nodes \cup path,
           here |-> [n \in Nodes |-> IF n \in s THEN FirstOwner(x.here[n], o) ELSE x.here[n]],
           below |-> [n \in Nodes |-> IF n \in path THEN FirstOwner(x.below[n], o)
                                      ELSE x.below[n]]]
    BY <1>2 DEF add, path
  <2>4. x.global \in Owner \cup {None} /\ x.nodes \in SUBSET Nodes
    BY DEF Index
  <2>5. \A n \in Nodes : x.here[n] \in Owner \cup {None} /\ x.below[n] \in Owner \cup {None}
    BY DEF Index
  <2>6. \A n \in Nodes : /\ FirstOwner(x.here[n], o) \in Owner \cup {None}
                         /\ FirstOwner(x.below[n], o) \in Owner \cup {None}
    BY <2>5 DEF FirstOwner
  <2> QED
    BY <2>2, <2>3, <2>4, <2>5, <2>6 DEF Index
<1> QED
  BY <1>1, <1>2

\* Whatever conflict returns made a claim that overlaps.
LEMMA ConflictSound ==
  ASSUME NEW x \in Index, NEW c, Exact(x, c), NEW s \in AnyScope, NEW o \in conflict(x, s)
  PROVE  o # None /\ \E m \in Made(c) : m.owner = o /\ scopes_overlap(m.scope, s)
<1>1. CASE x.global # None
  BY <1>1 DEF Exact, conflict, scopes_overlap
<1>2. CASE x.global = None /\ s = Repository
  <2>1. o = x.below[TrieRoot] /\ o # None
    BY <1>2 DEF conflict
  <2> QED
    BY <2>1, <1>2 DEF Exact, scopes_overlap, Nodes
<1>3. CASE x.global = None /\ s # Repository
  <2>1. s \in SUBSET PathPrefixes
    BY <1>3, ScopeAssumption DEF AnyScope
  <2>2. PICK p \in s : o \in OwnersMet(x, p)
    BY <1>3 DEF conflict
  <2>3. p \in PathPrefixes /\ p \in Nodes
    BY <2>1 DEF Nodes
  <2>4. CASE OwnersAbove(x, p) # {}
    <3>1. PICK n \in AtOrAbove[p] : x.here[n] # None /\ o = x.here[n]
      BY <2>2, <2>4 DEF OwnersMet, OwnersAbove
    <3>2. n \in Nodes
      BY <2>3, TreeAssumption
    <3>3. PICK m \in Made(c) : m.scope \in UsableScopes /\ n \in m.scope /\ m.owner = o
      BY <3>1, <3>2 DEF Exact
    <3> QED
      BY <3>1, <3>3 DEF scopes_overlap, Related
  <2>5. CASE OwnersAbove(x, p) = {} /\ x.here[p] # None
    <3>1. o = x.here[p]
      BY <2>2, <2>5 DEF OwnersMet, OwnersFrom
    <3>2. PICK m \in Made(c) : m.scope \in UsableScopes /\ p \in m.scope /\ m.owner = o
      BY <3>1, <2>3, <2>5 DEF Exact
    <3> QED
      BY <3>1, <3>2, <2>3, <2>5, TreeAssumption DEF scopes_overlap, Related
  <2>6. CASE OwnersAbove(x, p) = {} /\ x.here[p] = None
    <3>1. o = x.below[p] /\ o # None
      BY <2>2, <2>6 DEF OwnersMet, OwnersFrom
    <3>2. PICK m \in Made(c) : /\ m.scope \in UsableScopes /\ m.owner = o
                               /\ \E q \in m.scope : p \in AtOrAbove[q]
      BY <3>1, <2>3 DEF Exact
    <3> QED
      BY <3>1, <3>2 DEF scopes_overlap, Related
  <2> QED
    BY <2>4, <2>5, <2>6
<1> QED
  BY <1>1, <1>2, <1>3

\* When conflict returns nothing, no earlier claim overlaps.
LEMMA ConflictComplete ==
  ASSUME NEW x \in Index, NEW c \in Seq(Claim), Exact(x, c), NEW s \in AnyScope,
         NEW m \in Made(c), scopes_overlap(m.scope, s)
  PROVE  conflict(x, s) # {}
<1>0. m.scope \in AnyScope
  <2>1. PICK k \in 1..Len(c) : m = c[k]
    BY DEF Made
  <2>2. m \in Claim
    BY <2>1
  <2> QED
    BY <2>2 DEF Claim
<1>1. CASE x.global # None
  BY <1>1 DEF conflict
<1>2. CASE x.global = None
  <2>1. m.scope \in UsableScopes
    BY <1>0, <1>2 DEF Exact, AnyScope
  <2>2. m.scope \in SUBSET PathPrefixes /\ m.scope # {}
    BY <2>1, ScopeAssumption
  <2>3. CASE s = Repository
    <3>1. PICK p \in m.scope : TRUE
      BY <2>2
    <3>2. x.below[TrieRoot] # None
      BY <2>1, <2>2, <3>1, TreeAssumption DEF Exact
    <3> QED
      BY <1>2, <2>3, <3>2 DEF conflict
  <2>4. CASE s # Repository
    <3>1. PICK p \in m.scope, q \in s : Related(p, q)
      BY <2>1, <2>4, ScopeAssumption DEF scopes_overlap
    <3>2. s \in SUBSET PathPrefixes
      BY <2>4, ScopeAssumption DEF AnyScope
    <3>3. /\ x.here[p] # None
          /\ \A n \in AtOrAbove[p] : n \in x.nodes /\ x.below[n] # None
      BY <2>1, <3>1 DEF Exact
    <3>4. p \in x.nodes
      BY <2>2, <3>1, <3>3, TreeAssumption
    <3>5. OwnersMet(x, q) # {}
      <4>1. CASE p \in AtOrAbove[q] /\ p # q
        BY <4>1, <3>3, <3>4 DEF OwnersMet, OwnersAbove
      <4>2. CASE q \in AtOrAbove[p]
        <5>1. q \in x.nodes /\ x.below[q] # None
          BY <4>2, <3>3
        <5>2. OwnersFrom(x, q) # {}
          BY <5>1 DEF OwnersFrom
        <5> QED
          BY <5>2 DEF OwnersMet
      <4>3. CASE p = q
        BY <4>2, <4>3, <2>2, <3>1, TreeAssumption
      <4> QED
        BY <3>1, <4>1, <4>2, <4>3 DEF Related
    <3> QED
      BY <1>2, <2>4, <3>1, <3>5 DEF conflict
  <2> QED
    BY <2>3, <2>4
<1> QED
  BY <1>1, <1>2

\* add keeps the index exact.
LEMMA AddExact ==
  ASSUME NEW x \in Index, NEW c \in Seq(Claim), Exact(x, c),
         NEW s \in AnyScope, NEW o \in Owner
  PROVE  Exact(add(x, s, o), Append(c, [owner |-> o, scope |-> s]))
<1> DEFINE m == [owner |-> o, scope |-> s]
           y == add(x, s, o)
           d == Append(c, m)
<1>1. m \in Claim
  BY DEF Claim
<1>2. Made(d) = Made(c) \cup {m}
  BY <1>1, MadeAppend
<1>3. m.owner = o /\ m.scope = s /\ o # None
  BY BoundAssumption
<1>4. CASE s = Repository
  <2>1. /\ y.global = FirstOwner(x.global, o) /\ y.nodes = x.nodes
        /\ y.here = x.here /\ y.below = x.below
    BY <1>4 DEF add, Index
  <2>2. s \notin UsableScopes
    BY <1>4, ScopeAssumption
  <2> HIDE DEF m, y, d
  <2>3. y.global # None => \E k \in Made(d) : k.scope = Repository /\ k.owner = y.global
    BY <1>2, <1>3, <1>4, <2>1 DEF Exact, FirstOwner
  <2>4. y.global # None
    BY <1>3, <2>1 DEF FirstOwner
  <2>5. \A n \in Nodes : y.here[n] # None =>
          \E k \in Made(d) : k.scope \in UsableScopes /\ n \in k.scope /\ k.owner = y.here[n]
    BY <1>2, <2>1 DEF Exact
  <2>6. \A n \in Nodes : y.below[n] # None =>
          \E k \in Made(d) : /\ k.scope \in UsableScopes /\ k.owner = y.below[n]
                             /\ \E p \in k.scope : n \in AtOrAbove[p]
    BY <1>2, <2>1 DEF Exact
  <2>7. \A k \in Made(d) : k.scope \in UsableScopes => k \in Made(c)
    BY <1>2, <1>3, <1>4, <2>2
  <2>8. \A k \in Made(d) : k.scope \in UsableScopes =>
          \A p \in k.scope : /\ y.here[p] # None
                             /\ \A n \in AtOrAbove[p] : n \in y.nodes /\ y.below[n] # None
    BY <2>1, <2>7 DEF Exact
  <2>9. Exact(y, d)
    BY <2>3, <2>4, <2>5, <2>6, <2>8 DEF Exact
  <2> QED
    BY <2>9 DEF y, d, m
<1>5. CASE s # Repository
  <2> DEFINE path == UNION {AtOrAbove[p] : p \in s}
  <2>1. s \in UsableScopes /\ s \in SUBSET PathPrefixes
    BY <1>5, ScopeAssumption DEF AnyScope
  <2>2. /\ \A p \in s : p \in Nodes /\ AtOrAbove[p] \subseteq Nodes
        /\ \A p \in s : AtOrAbove[p] \subseteq path
    BY <2>1, TreeAssumption DEF Nodes
  <2>3. \A n \in path : \E p \in s : n \in AtOrAbove[p]
    OBVIOUS
  <2>4. y = [global |-> x.global, nodes |-> x.nodes \cup path,
             here |-> [n \in Nodes |-> IF n \in s THEN FirstOwner(x.here[n], o) ELSE x.here[n]],
             below |-> [n \in Nodes |-> IF n \in path THEN FirstOwner(x.below[n], o)
                                        ELSE x.below[n]]]
    BY <1>5 DEF add
  <2> HIDE DEF m, y, d, path
  <2>5. y.global = x.global /\ y.nodes = x.nodes \cup path
    BY <2>4
  <2>6. \A n \in Nodes :
          /\ y.here[n] = IF n \in s THEN FirstOwner(x.here[n], o) ELSE x.here[n]
          /\ y.below[n] = IF n \in path THEN FirstOwner(x.below[n], o) ELSE x.below[n]
    BY <2>4
  <2>7. y.global # None => \E k \in Made(d) : k.scope = Repository /\ k.owner = y.global
    BY <1>2, <2>5 DEF Exact
  <2>8. \A k \in Made(d) : k.scope = Repository => y.global # None
    BY <1>2, <1>3, <1>5, <2>5 DEF Exact
  <2>9. \A n \in Nodes : y.here[n] # None =>
          \E k \in Made(d) : k.scope \in UsableScopes /\ n \in k.scope /\ k.owner = y.here[n]
    BY <1>2, <1>3, <2>1, <2>6 DEF Exact, FirstOwner
  <2>10. \A n \in Nodes : y.below[n] # None =>
           \E k \in Made(d) : /\ k.scope \in UsableScopes /\ k.owner = y.below[n]
                              /\ \E p \in k.scope : n \in AtOrAbove[p]
    <3> SUFFICES ASSUME NEW n \in Nodes, y.below[n] # None
                 PROVE  \E k \in Made(d) : /\ k.scope \in UsableScopes /\ k.owner = y.below[n]
                                           /\ \E p \in k.scope : n \in AtOrAbove[p]
      OBVIOUS
    <3>1. CASE x.below[n] # None
      <4>1. y.below[n] = x.below[n]
        BY <3>1, <2>6 DEF FirstOwner
      <4> QED
        BY <3>1, <4>1, <1>2 DEF Exact
    <3>2. CASE x.below[n] = None
      <4>1. n \in path /\ y.below[n] = o
        BY <3>2, <2>6 DEF FirstOwner
      <4> QED
        BY <4>1, <1>2, <1>3, <2>1, <2>3
    <3> QED
      BY <3>1, <3>2
  <2>11. ASSUME NEW k \in Made(d), k.scope \in UsableScopes, NEW p \in k.scope
         PROVE  /\ y.here[p] # None
                /\ \A n \in AtOrAbove[p] : n \in y.nodes /\ y.below[n] # None
    <3>0. p \in PathPrefixes /\ p \in Nodes /\ AtOrAbove[p] \subseteq Nodes
      BY <2>11, ScopeAssumption, TreeAssumption DEF Nodes
    <3>1. CASE k \in Made(c)
      <4>1. /\ x.here[p] # None
            /\ \A n \in AtOrAbove[p] : n \in x.nodes /\ x.below[n] # None
        BY <3>1, <2>11 DEF Exact
      <4> QED
        BY <4>1, <3>0, <2>5, <2>6, <1>3 DEF FirstOwner
    <3>2. CASE k = m
      <4>1. p \in s
        BY <3>2, <2>11, <1>3
      <4> QED
        BY <4>1, <3>0, <2>2, <2>5, <2>6, <1>3 DEF FirstOwner
    <3> QED
      BY <3>1, <3>2, <1>2, <2>11
  <2>12. Exact(y, d)
    BY <2>7, <2>8, <2>9, <2>10, <2>11 DEF Exact
  <2> QED
    BY <2>12 DEF y, d, m
<1> QED
  BY <1>4, <1>5

(***************************************************************************)
(* The invariant.                                                          *)
(***************************************************************************)
\* The inductive invariant holds initially.
LEMMA InitIInv == OwnersInit => IInv
<1> SUFFICES ASSUME OwnersInit PROVE IInv
  OBVIOUS
<1>1. EmptyIndex \in Index
  BY DEF EmptyIndex, Index
<1>2. OwnersTypeOK
  <2>1. index \in [FoldedWords -> Index]
    BY <1>1 DEF OwnersInit
  <2>2. <<>> \in Seq(Claim) /\ 0 \in 0..MaxConcepts
    BY BoundAssumption
  <2>3. claimed \in [FoldedWords -> Seq(Claim)]
    BY <2>2 DEF OwnersInit
  <2> QED
    BY <2>1, <2>2, <2>3 DEF OwnersInit, OwnersTypeOK, AnyScope
<1>3. ASSUME NEW w \in FoldedWords PROVE Exact(index[w], claimed[w])
  <2>1. index[w] = EmptyIndex /\ claimed[w] = <<>>
    BY DEF OwnersInit
  <2>2. Made(<<>>) = {}
    BY DEF Made
  <2> QED
    BY <2>1, <2>2 DEF Exact, EmptyIndex
<1>4. AcceptedDisjoint /\ DiagnosticsTrue
  BY DEF OwnersInit, AcceptedDisjoint, DiagnosticsTrue
<1> QED
  BY <1>2, <1>3, <1>4 DEF IInv

\* One claim keeps the invariant.
LEMMA ClaimIInv ==
  ASSUME IInv, NEW w \in FoldedWords, ClaimVocabulary(w)
  PROVE  IInv'
<1> DEFINE o == ThisOwner
           m == [owner |-> o, scope |-> scope]
           x == index[w]
           c == claimed[w]
<1>1. /\ OwnersTypeOK /\ x \in Index /\ c \in Seq(Claim) /\ scope \in AnyScope
      /\ Exact(x, c)
  BY DEF IInv, OwnersTypeOK
<1>2. o \in Owner
  BY <1>1, BoundAssumption DEF ClaimVocabulary, ThisOwner, Owner, OwnersTypeOK
<1>3. m \in Claim /\ m.owner = o /\ m.scope = scope
  BY <1>1, <1>2 DEF Claim
<1>4. /\ index' = [index EXCEPT ![w] = add(x, scope, o)]
      /\ claimed' = [claimed EXCEPT ![w] = Append(c, m)]
  BY DEF ClaimVocabulary
<1> HIDE DEF o
<1>5. \/ conflict(x, scope) = {} /\ errors' = errors /\ named' = named
      \/ \E previous \in conflict(x, scope) :
           errors' = TRUE /\ named' = named \cup {[word |-> w, previous |-> previous,
                                                  owner |-> o, scope |-> scope]}
  BY DEF ClaimVocabulary, o
<1> HIDE DEF m, x, c
<1>6. /\ claimed'[w] = Append(c, m) /\ index'[w] = add(x, scope, o)
      /\ \A v \in FoldedWords : v # w => claimed'[v] = claimed[v] /\ index'[v] = index[v]
  BY <1>1, <1>4 DEF OwnersTypeOK
<1>7. /\ Len(c) \in Nat /\ Len(claimed'[w]) = Len(c) + 1
      /\ claimed'[w][Len(c) + 1] = m
      /\ \A k \in 1..Len(c) : claimed'[w][k] = c[k]
  BY <1>1, <1>3, <1>6
<1>8. ASSUME NEW previous \in conflict(x, scope)
      PROVE  /\ previous \in Owner
             /\ \E k \in 1..Len(c) : c[k].owner = previous /\ scopes_overlap(c[k].scope, scope)
  <2>1. PICK n \in Made(c) : n.owner = previous /\ scopes_overlap(n.scope, scope)
    BY <1>1, ConflictSound
  <2>2. PICK k \in 1..Len(c) : n = c[k]
    BY DEF Made
  <2>3. n \in Claim
    BY <2>2, <1>1
  <2> QED
    BY <2>1, <2>2, <2>3 DEF Claim
<1>9. OwnersTypeOK'
  <2>1. index' \in [FoldedWords -> Index]
    BY <1>1, <1>2, <1>4, AddType DEF OwnersTypeOK
  <2>2. claimed' \in [FoldedWords -> Seq(Claim)]
    BY <1>1, <1>3, <1>4 DEF OwnersTypeOK
  <2>3. named' \subseteq [word: FoldedWords, previous: Owner, owner: Owner, scope: AnyScope]
    BY <1>1, <1>2, <1>5, <1>8 DEF OwnersTypeOK
  <2>4. errors' \in BOOLEAN
    BY <1>1, <1>5 DEF OwnersTypeOK
  <2> QED
    BY <1>1, <2>1, <2>2, <2>3, <2>4 DEF ClaimVocabulary, OwnersTypeOK
<1>10. ASSUME NEW v \in FoldedWords PROVE Exact(index'[v], claimed'[v])
  <2>1. CASE v = w
    BY <2>1, <1>1, <1>2, <1>6, AddExact DEF m
  <2>2. CASE v # w
    BY <2>2, <1>6 DEF IInv
  <2> QED
    BY <2>1, <2>2
<1>11. AcceptedDisjoint'
  <2> SUFFICES ASSUME ~errors', NEW v \in FoldedWords,
                      NEW i \in 1..Len(claimed'[v]), NEW j \in 1..Len(claimed'[v]), i # j
               PROVE  ~scopes_overlap(claimed'[v][i].scope, claimed'[v][j].scope)
    BY DEF AcceptedDisjoint
  <2>1. conflict(x, scope) = {} /\ ~errors
    BY <1>5
  <2>2. CASE v # w
    BY <2>1, <2>2, <1>6 DEF IInv, AcceptedDisjoint
  <2>3. CASE v = w
    <3>1. \A k \in 1..Len(c) : ~scopes_overlap(c[k].scope, scope)
      BY <1>1, <2>1, ConflictComplete DEF Made
    <3>2. \A k \in 1..Len(c) : ~scopes_overlap(scope, c[k].scope)
      BY <3>1 DEF scopes_overlap, Related
    <3>3. \A k, l \in 1..Len(c) : k # l => ~scopes_overlap(c[k].scope, c[l].scope)
      BY <2>1 DEF IInv, AcceptedDisjoint, c
    <3>4. \A k \in 1..(Len(c) + 1) : k \in 1..Len(c) \/ k = Len(c) + 1
      BY <1>7
    <3> QED
      BY <2>3, <1>3, <1>7, <3>1, <3>2, <3>3, <3>4
  <2> QED
    BY <2>2, <2>3
<1>12. DiagnosticsTrue'
  <2> SUFFICES ASSUME NEW d \in named'
               PROVE  \E i, j \in 1..Len(claimed'[d.word]) :
                        /\ i < j
                        /\ claimed'[d.word][i].owner = d.previous
                        /\ claimed'[d.word][j] = [owner |-> d.owner, scope |-> d.scope]
                        /\ scopes_overlap(claimed'[d.word][i].scope, d.scope)
    BY DEF DiagnosticsTrue
  <2>1. CASE d \in named
    <3>1. d.word \in FoldedWords
      BY <2>1, <1>1 DEF OwnersTypeOK
    <3>2. PICK i \in 1..Len(claimed[d.word]), j \in 1..Len(claimed[d.word]) :
            /\ i < j
            /\ claimed[d.word][i].owner = d.previous
            /\ claimed[d.word][j] = [owner |-> d.owner, scope |-> d.scope]
            /\ scopes_overlap(claimed[d.word][i].scope, d.scope)
      BY <2>1 DEF IInv, DiagnosticsTrue
    <3>3. CASE d.word # w
      BY <3>1, <3>2, <3>3, <1>6
    <3>4. CASE d.word = w
      <4>1. i \in 1..Len(c) /\ j \in 1..Len(c) /\ claimed[d.word] = c
        BY <3>2, <3>4 DEF c
      <4>2. i \in 1..Len(claimed'[w]) /\ j \in 1..Len(claimed'[w])
        BY <4>1, <1>7
      <4> QED
        BY <3>2, <3>4, <4>1, <4>2, <1>7
    <3> QED
      BY <3>3, <3>4
  <2>2. CASE d \notin named
    <3>1. PICK previous \in conflict(x, scope) :
            d = [word |-> w, previous |-> previous, owner |-> o, scope |-> scope]
      BY <2>2, <1>5
    <3>2. PICK k \in 1..Len(c) : c[k].owner = previous /\ scopes_overlap(c[k].scope, scope)
      BY <1>8
    <3>3. k < Len(c) + 1 /\ k \in 1..(Len(c) + 1) /\ Len(c) + 1 \in 1..(Len(c) + 1)
      BY <1>7
    <3>4. m = [owner |-> d.owner, scope |-> d.scope]
      BY <3>1 DEF m
    <3> QED
      BY <3>1, <3>2, <3>3, <3>4, <1>7
  <2> QED
    BY <2>1, <2>2
<1> QED
  BY <1>9, <1>10, <1>11, <1>12 DEF IInv

\* The inductive invariant is inductive.
LEMMA NextIInv == IInv /\ [OwnersNext]_ownersVars => IInv'
<1> SUFFICES ASSUME IInv, [OwnersNext]_ownersVars PROVE IInv'
  OBVIOUS
<1>1. ASSUME NEW s \in AnyScope, NEW sound \in BOOLEAN, NEW part_usable \in BOOLEAN,
             NextConcept(s, sound, part_usable)
      PROVE  IInv'
  <2>1. OwnersTypeOK'
    BY <1>1, BoundAssumption DEF NextConcept, IInv, OwnersTypeOK
  <2>2. UNCHANGED <<index, claimed, named>> /\ (errors => errors')
    BY <1>1 DEF NextConcept
  <2> QED
    BY <2>1, <2>2 DEF IInv, AcceptedDisjoint, DiagnosticsTrue
<1>2. CASE SkipTerm
  BY <1>2 DEF SkipTerm, IInv, OwnersTypeOK, AcceptedDisjoint, DiagnosticsTrue
<1>3. ASSUME NEW w \in FoldedWords, ClaimVocabulary(w) PROVE IInv'
  BY <1>3, ClaimIInv
<1>4. CASE UNCHANGED ownersVars
  BY <1>4 DEF ownersVars, IInv, OwnersTypeOK, AcceptedDisjoint, DiagnosticsTrue
<1> QED
  BY <1>1, <1>2, <1>3, <1>4 DEF OwnersNext

\* The inductive invariant holds always.
LEMMA Invariance == OwnersSpec => []IInv
  BY InitIInv, NextIInv, PTL DEF OwnersSpec

\* Every state of a validation is of its type, its index included.
THEOREM Typed == OwnersSpec => []OwnersTypeOK
<1>1. IInv => OwnersTypeOK
  BY DEF IInv
<1> QED
  BY <1>1, Invariance, PTL

\* A glossary without diagnostics never gives a word two owners in
\* overlapping scopes.
THEOREM NoTwoOwners == OwnersSpec => []AcceptedDisjoint
<1>1. IInv => AcceptedDisjoint
  BY DEF IInv
<1> QED
  BY <1>1, Invariance, PTL

\* No glossary is refused for claims whose scopes are disjoint.
THEOREM NoFalseConflict == OwnersSpec => []DiagnosticsTrue
<1>1. IInv => DiagnosticsTrue
  BY DEF IInv
<1> QED
  BY <1>1, Invariance, PTL

(***************************************************************************)
(* The brief: any header and entries, any limits on bytes.                 *)
(***************************************************************************)
BriefTyped ==
  /\ brief \in Briefs
  /\ body \in Seq(Nat) /\ body_bytes \in Nat /\ entries_truncated \in Nat
  /\ ended \in {"rendering", "stopped", "emitted", "too long", "no metadata"}

Abridged == {i \in DOMAIN body : ~Unabridged(i)}

Taken == Size(body_bytes, included, entries_truncated)

\* Nothing was left out unless the largest footer was in the way.
Exhausted == included = Len(brief.entries) \/ entry_limit < MinEntryBytes

Counted ==
  /\ included <= Len(brief.entries)
  /\ entries_truncated = Cardinality(Abridged)
  /\ body = <<>> => body_bytes = 0

Fits == Taken <= MaxBriefBytes

BriefInvariant ==
  /\ BriefTyped
  /\ Counted
  /\ ended # "too long"
  /\ body # <<>> => Fits
  /\ ended \in {"stopped", "emitted"} => Fits /\ Exhausted

LEMMA InvariantTypes ==
  ASSUME BriefInvariant
  PROVE  /\ brief \in Briefs /\ body \in Seq(Nat) /\ body_bytes \in Nat /\ entries_truncated \in Nat
         /\ included \in Nat /\ included <= Len(brief.entries)
         /\ entries_truncated = Cardinality(Abridged) /\ DOMAIN body = 1..included
  <1>1. BriefTyped /\ Counted
    BY DEF BriefInvariant
  <1>2. brief \in Briefs /\ body \in Seq(Nat) /\ body_bytes \in Nat /\ entries_truncated \in Nat
    BY <1>1 DEF BriefTyped
  <1>3. included \in Nat /\ DOMAIN body = 1..included
    BY <1>2 DEF included
  <1> QED BY <1>1, <1>2, <1>3 DEF Counted

LEMMA BriefTypes ==
  ASSUME NEW b \in Briefs
  PROVE  /\ b.header \in Nat
         /\ Len(b.entries) \in Nat
         /\ \A i \in 1..Len(b.entries) : b.entries[i] \in Nat
  <1>1. b \in [header: Nat, entries: Seq(Nat \ {0})]
    BY BriefAssumption
  <1>2. b.header \in Nat /\ b.entries \in Seq(Nat \ {0})
    BY <1>1
  <1>3. Len(b.entries) \in Nat /\ \A i \in 1..Len(b.entries) : b.entries[i] \in Nat \ {0}
    BY <1>2
  <1> QED BY <1>2, <1>3

LEMMA LimitTypes ==
  /\ MaxBriefBytes \in Nat /\ MaxEntryBytes \in Nat /\ MinEntryBytes \in Nat
  /\ FooterWords \in Nat /\ Marker \in Nat
  /\ Marker + 4 < MinEntryBytes /\ MinEntryBytes <= MaxEntryBytes
  BY BriefAssumption

LEMMA DigitsGrow ==
  ASSUME NEW m \in Nat, NEW n \in Nat, m <= n
  PROVE  /\ Digits(m) \in 1..5 /\ Digits(m) <= Digits(n)
         /\ n <= m + 1 => Digits(n) <= Digits(m) + 1
  BY DEF Digits

\* What one more entry can add to the footer has been reserved.
LEMMA FooterReserved ==
  ASSUME brief \in Briefs, NEW shown \in Nat, shown < Len(brief.entries),
         NEW cut \in Nat, NEW more \in {0, 1}
  PROVE  /\ coverage_line(shown, cut) \in Nat /\ coverage_line(shown + 1, cut + more) \in Nat
         /\ coverage_line(shown + 1, cut + 1) \in Nat
         /\ coverage_line(shown + 1, cut + more) <= coverage_line(shown + 1, cut + 1)
         /\ coverage_line(shown + 1, cut + 1) <= coverage_line(shown, cut) + 2
  <1> DEFINE total == Len(brief.entries)
  <1>1. total \in Nat /\ FooterWords \in Nat
    BY BriefTypes, LimitTypes
  <1>2. /\ Digits(shown) \in Nat /\ Digits(shown + 1) \in Nat /\ Digits(shown + 1) <= Digits(shown) + 1
    BY DigitsGrow
  <1>3. /\ Digits(total - shown) \in Nat /\ Digits(total - (shown + 1)) \in Nat
        /\ Digits(total - (shown + 1)) <= Digits(total - shown)
    BY <1>1, DigitsGrow, total - shown \in Nat, total - (shown + 1) \in Nat
  <1>4. /\ Digits(cut) \in Nat /\ Digits(cut + 1) \in Nat /\ Digits(cut + 1) <= Digits(cut) + 1
        /\ Digits(cut + more) \in Nat /\ Digits(cut + more) <= Digits(cut + 1)
    BY DigitsGrow, cut + more \in Nat, cut + more <= cut + 1
  <1>5. Digits(total) \in Nat
    BY <1>1, DigitsGrow
  <1>6. ~claims_complete(shown, cut) /\ ~claims_complete(shown + 1, cut + 1)
    BY <1>1 DEF claims_complete
  <1> HIDE DEF total
  <1> DEFINE before == coverage_line(shown, cut)
             after  == coverage_line(shown + 1, cut + more)
             worst  == coverage_line(shown + 1, cut + 1)
             dt == Digits(total)
             ds == Digits(shown)           ds1 == Digits(shown + 1)
             dl == Digits(total - shown)   dl1 == Digits(total - (shown + 1))
             dc == Digits(cut)             dc1 == Digits(cut + 1)
             dm == Digits(cut + more)
  <1>7. /\ before = FooterWords + 5 + ds + dt + dl + dc
        /\ worst = FooterWords + 5 + ds1 + dt + dl1 + dc1
        /\ \/ after = FooterWords + 4 + ds1 + dt + dl1 + dm
           \/ after = FooterWords + 5 + ds1 + dt + dl1 + dm
    BY <1>6 DEF coverage_line, total
  <1>8. /\ FooterWords \in Nat /\ dt \in Nat
        /\ ds \in Nat /\ ds1 \in Nat /\ ds1 <= ds + 1
        /\ dl \in Nat /\ dl1 \in Nat /\ dl1 <= dl
        /\ dc \in Nat /\ dc1 \in Nat /\ dc1 <= dc + 1
        /\ dm \in Nat /\ dm <= dc1
    BY <1>1, <1>2, <1>3, <1>4, <1>5
  <1> HIDE DEF before, after, worst, dt, ds, ds1, dl, dl1, dc, dc1, dm
  <1>9. before \in Nat /\ after \in Nat /\ worst \in Nat /\ after <= worst /\ worst <= before + 2
    BY <1>7, <1>8
  <1> QED BY <1>9 DEF before, after, worst

LEMMA BriefStarts == BriefInit => BriefInvariant
  <1> SUFFICES ASSUME BriefInit PROVE BriefInvariant
    OBVIOUS
  <1>1. BriefTyped /\ included = 0 /\ body = <<>>
    BY DEF BriefInit, BriefStart, BriefTyped, included
  <1>2. Abridged = {}
    BY <1>1 DEF Abridged
  <1>3. Cardinality({}) = 0
    BY FS_EmptySet
  <1>4. Counted
    <2>1. Len(brief.entries) \in Nat
      BY <1>1, BriefTypes DEF BriefTyped
    <2> QED BY <1>1, <1>2, <1>3, <2>1 DEF BriefInit, BriefStart, Counted
  <1> QED BY <1>1, <1>4 DEF BriefInit, BriefStart, BriefInvariant

LEMMA EntryKeeps ==
  ASSUME BriefInvariant, RenderEntry PROVE BriefInvariant'
  <1> DEFINE entry == brief.entries[included + 1]
  <1>1. /\ brief \in Briefs /\ body \in Seq(Nat) /\ body_bytes \in Nat /\ entries_truncated \in Nat
        /\ included \in Nat /\ included < Len(brief.entries) /\ Len(brief.entries) \in Nat
        /\ brief.header \in Nat /\ brief' = brief
        /\ ended = "rendering"
    <2>1. ended = "rendering" /\ brief' = brief /\ included < Len(brief.entries)
      BY DEF RenderEntry, More, Rendering
    <2> QED BY <2>1, InvariantTypes, BriefTypes
  <1>entry. entry \in Nat
    BY <1>1, BriefTypes
  <1>2. /\ MaxBriefBytes \in Nat /\ MaxEntryBytes \in Nat /\ MinEntryBytes \in Nat
        /\ Marker \in Nat /\ Marker + 4 < MinEntryBytes
    BY LimitTypes
  <1>3. coverage_line(included + 1, entries_truncated + 1) \in Nat
    BY <1>1, FooterReserved
  <1>4. available \in Int /\ entry_limit \in Int /\ entry_limit <= available /\ entry_limit >= MinEntryBytes
    <2>1. available \in Int
      BY <1>1, <1>2, <1>3 DEF available
    <2>2. entry_limit >= MinEntryBytes
      BY DEF RenderEntry
    <2> QED BY <2>1, <2>2, <1>2 DEF entry_limit
  <1>5. PICK e \in _render_entry(entry, entry_limit) :
          LET next_truncated == entries_truncated + (IF e.cut THEN 1 ELSE 0) IN
          IF Size(body_bytes + e.bytes, included + 1, next_truncated) <= MaxBriefBytes
            THEN /\ body' = Append(body, e.bytes)
                 /\ body_bytes' = body_bytes + e.bytes
                 /\ entries_truncated' = next_truncated
                 /\ UNCHANGED ended
            ELSE ended' = "stopped" /\ UNCHANGED rendered
    BY DEF RenderEntry
  <1> DEFINE more == IF e.cut THEN 1 ELSE 0
  <1>6. /\ e.bytes \in Nat /\ e.bytes <= entry_limit /\ e.cut \in BOOLEAN
        /\ e.cut <=> e.bytes # entry + 1
    <2> DEFINE limit == entry_limit
    <2>1. /\ limit \in Int /\ limit >= MinEntryBytes
          /\ \/ entry <= limit - 1 /\ e = [bytes |-> entry + 1, cut |-> FALSE]
             \/ ~(entry <= limit - 1) /\ e \in [bytes: (limit - 3)..limit, cut: {TRUE}]
      BY <1>4 DEF _render_entry
    <2> HIDE DEF limit, entry
    <2>2. CASE entry <= limit - 1 /\ e = [bytes |-> entry + 1, cut |-> FALSE]
      <3>1. e.bytes = entry + 1 /\ e.cut = FALSE
        BY <2>2
      <3> QED BY <3>1, <2>1, <2>2, <1>entry DEF limit
    <2>3. CASE ~(entry <= limit - 1) /\ e \in [bytes: (limit - 3)..limit, cut: {TRUE}]
      <3>1. e.bytes \in (limit - 3)..limit /\ e.cut = TRUE
        BY <2>3
      <3>2. e.bytes \in Nat /\ e.bytes <= limit /\ e.bytes # entry + 1
        BY <3>1, <2>1, <2>3, <1>entry, <1>2
      <3> QED BY <3>1, <3>2 DEF limit
    <2> QED BY <2>1, <2>2, <2>3
  <1>7. more \in {0, 1}
    OBVIOUS
  <1>8. Size(body_bytes + e.bytes, included + 1, entries_truncated + more) <= MaxBriefBytes
    <2>1. /\ coverage_line(included + 1, entries_truncated + more) \in Nat
          /\ coverage_line(included + 1, entries_truncated + more) <= coverage_line(included + 1, entries_truncated + 1)
      BY <1>1, <1>7, FooterReserved
    <2> DEFINE worst == coverage_line(included + 1, entries_truncated + 1)
               after == coverage_line(included + 1, entries_truncated + more)
               room == available
               taken == e.bytes
               head == brief.header
    <2>2. /\ after \in Nat /\ worst \in Nat /\ after <= worst /\ taken \in Nat /\ taken <= room
          /\ head \in Nat /\ body_bytes \in Nat /\ MaxBriefBytes \in Nat
      BY <2>1, <1>1, <1>2, <1>3, <1>4, <1>6
    <2>3. room = MaxBriefBytes - head - body_bytes - worst
      BY DEF available
    <2>4. Size(body_bytes + e.bytes, included + 1, entries_truncated + more) = head + (body_bytes + taken) + after
      BY DEF Size
    <2> HIDE DEF worst, after, room, taken, head
    <2>5. head + (body_bytes + taken) + after <= MaxBriefBytes
      BY <2>2, <2>3
    <2> QED BY <2>4, <2>5
  <1>9. /\ body' = Append(body, e.bytes) /\ body_bytes' = body_bytes + e.bytes
        /\ entries_truncated' = entries_truncated + more /\ ended' = ended
    BY <1>5, <1>8
  <1> HIDE DEF entry
  <1>10. /\ included' = included + 1 /\ body' \in Seq(Nat) /\ body' # <<>>
         /\ DOMAIN body = 1..included /\ DOMAIN body' = 1..(included + 1)
         /\ body'[included + 1] = e.bytes /\ \A i \in 1..included : body'[i] = body[i]
    BY <1>1, <1>6, <1>9 DEF included
  <1>11. Abridged' = IF e.cut THEN Abridged \cup {included + 1} ELSE Abridged
    <2>1. ASSUME NEW i PROVE i \in Abridged' <=> i \in Abridged \/ (e.cut /\ i = included + 1)
      <3>1. CASE i \in 1..included
        BY <3>1, <1>1, <1>10 DEF Abridged, Unabridged
      <3>2. CASE i = included + 1
        BY <3>2, <1>1, <1>6, <1>10 DEF Abridged, Unabridged, entry
      <3>3. CASE i \notin 1..(included + 1)
        BY <3>3, <1>1, <1>10 DEF Abridged
      <3> QED BY <3>1, <3>2, <3>3, <1>1
    <2> QED BY <2>1
  <1>12. IsFiniteSet(Abridged)
    <2>1. Abridged \subseteq 1..included
      BY <1>10 DEF Abridged
    <2>2. IsFiniteSet(1..included)
      BY <1>1, FS_Interval
    <2> QED BY <2>1, <2>2, FS_Subset
  <1>13. included + 1 \notin Abridged
    BY <1>1, <1>10 DEF Abridged
  <1>14. Cardinality(Abridged') = entries_truncated + more
    <2>1. entries_truncated = Cardinality(Abridged)
      BY InvariantTypes
    <2>2. Cardinality(Abridged \cup {included + 1}) = Cardinality(Abridged) + 1
      BY <1>12, <1>13, FS_AddElement
    <2> QED BY <2>1, <2>2, <1>1, <1>11
  <1>15. Fits'
    BY <1>1, <1>8, <1>9, <1>10 DEF Fits, Taken, Size, coverage_line, claims_complete
  <1>16. Counted'
    BY <1>1, <1>9, <1>10, <1>14 DEF Counted
  <1>17. BriefTyped'
    BY <1>1, <1>6, <1>7, <1>9, <1>10 DEF BriefTyped
  <1> QED
    BY <1>1, <1>9, <1>15, <1>16, <1>17 DEF BriefInvariant

LEMMA BriefUnchanged ==
  ASSUME UNCHANGED <<brief, body, body_bytes, entries_truncated>>
  PROVE  Fits' = Fits /\ Exhausted' = Exhausted /\ Counted' = Counted
  <1>1. included' = included /\ Abridged' = Abridged
    BY DEF included, Abridged, Unabridged
  <1>2. Fits' = Fits
    BY <1>1 DEF Fits, Taken, Size, coverage_line, claims_complete
  <1>3. Exhausted' = Exhausted
    BY <1>1 DEF Exhausted, entry_limit, available, coverage_line, claims_complete
  <1> QED BY <1>1, <1>2, <1>3 DEF Counted

LEMMA StopKeeps ==
  ASSUME BriefInvariant, StopRendering PROVE BriefInvariant'
  <1>1. Exhausted /\ Room /\ ended' = "stopped" /\ UNCHANGED <<brief, body, body_bytes, entries_truncated>>
    BY DEF StopRendering, Exhausted, rendered
  <1>2. Fits
    <2>1. CASE body = <<>>
      <3>1. included = 0 /\ body_bytes = 0 /\ entries_truncated = 0
        <4>1. Counted
          BY DEF BriefInvariant
        <4>2. Abridged = {}
          BY <2>1 DEF Abridged
        <4> QED BY <2>1, <4>1, <4>2, FS_EmptySet DEF Counted, included
      <3> QED BY <3>1, <1>1 DEF Room, Taken, Fits
    <2>2. CASE body # <<>>
      BY <2>2 DEF BriefInvariant
    <2> QED BY <2>1, <2>2
  <1>3. Fits' = Fits /\ Exhausted' = Exhausted /\ Counted' = Counted
    BY <1>1, BriefUnchanged
  <1> QED BY <1>1, <1>2, <1>3 DEF BriefInvariant, BriefTyped

LEMMA BriefKeeps ==
  ASSUME BriefInvariant, [BriefNext]_briefVars PROVE BriefInvariant'
  <1>1. CASE RefuseMetadata
    <2>1. ended' = "no metadata" /\ body = <<>> /\ UNCHANGED <<brief, body, body_bytes, entries_truncated>>
      BY <1>1 DEF RefuseMetadata, rendered
    <2> QED BY <2>1, BriefUnchanged DEF BriefInvariant, BriefTyped
  <1>2. CASE RenderEntry
    BY <1>2, EntryKeeps
  <1>3. CASE StopRendering
    BY <1>3, StopKeeps
  <1>4. CASE EmitBrief
    <2>1. ended = "stopped" /\ UNCHANGED <<brief, body, body_bytes, entries_truncated>>
      BY <1>4 DEF EmitBrief, rendered
    <2>2. Fits
      BY <2>1 DEF BriefInvariant
    <2>3. Taken \in Int /\ MaxBriefBytes \in Int
      <3>1. brief \in Briefs /\ included \in Nat /\ included <= Len(brief.entries) /\ entries_truncated \in Nat
            /\ body_bytes \in Nat
        BY InvariantTypes
      <3>2. Len(brief.entries) \in Nat /\ FooterWords \in Nat /\ MaxBriefBytes \in Nat /\ brief.header \in Nat
        BY <3>1, BriefTypes, LimitTypes
      <3> QED BY <3>1, <3>2 DEF Taken, Size, coverage_line, Digits
    <2>4. ended' = "emitted"
      <3>1. ~(Taken > MaxBriefBytes)
        BY <2>2, <2>3 DEF Fits
      <3> QED BY <1>4, <3>1 DEF EmitBrief, Taken
    <2> QED BY <2>1, <2>2, <2>4, BriefUnchanged DEF BriefInvariant, BriefTyped
  <1>5. CASE UNCHANGED briefVars
    BY <1>5, BriefUnchanged DEF BriefInvariant, BriefTyped, briefVars, rendered
  <1> QED BY <1>1, <1>2, <1>3, <1>4, <1>5 DEF BriefNext

LEMMA BriefIsTrue == BriefInvariant => BriefTrue
  <1> SUFFICES ASSUME BriefInvariant PROVE BriefTrue
    OBVIOUS
  <1>1. /\ brief \in Briefs /\ included \in Nat /\ included <= Len(brief.entries)
        /\ entries_truncated \in Nat /\ body_bytes \in Nat /\ DOMAIN body = 1..included
        /\ entries_truncated = Cardinality(Abridged)
    BY InvariantTypes
  <1>2. /\ Len(brief.entries) \in Nat /\ brief.header \in Nat /\ MaxBriefBytes \in Nat
        /\ MinEntryBytes \in Nat /\ MaxEntryBytes \in Nat /\ MinEntryBytes <= MaxEntryBytes
    BY <1>1, BriefTypes, LimitTypes
  <1>3. ASSUME included < Len(brief.entries), Exhausted
        PROVE  MaxBriefBytes - Taken < MinEntryBytes + 2
    <2>1. /\ coverage_line(included, entries_truncated) \in Nat
          /\ coverage_line(included + 1, entries_truncated + 1) \in Nat
          /\ coverage_line(included + 1, entries_truncated + 1) <= coverage_line(included, entries_truncated) + 2
      BY <1>1, <1>3, FooterReserved
    <2>2. entry_limit < MinEntryBytes
      BY <1>1, <1>2, <1>3 DEF Exhausted
    <2>3. available < MinEntryBytes
      BY <1>1, <1>2, <2>1, <2>2 DEF entry_limit, available
    <2> DEFINE worst == coverage_line(included + 1, entries_truncated + 1)
               now == coverage_line(included, entries_truncated)
               room == available
               head == brief.header
    <2>4. /\ room = MaxBriefBytes - head - body_bytes - worst
          /\ Taken = head + body_bytes + now
      BY DEF available, Taken, Size
    <2>5. /\ now \in Nat /\ worst \in Nat /\ worst <= now + 2 /\ room < MinEntryBytes
          /\ head \in Nat /\ body_bytes \in Nat /\ MaxBriefBytes \in Nat /\ MinEntryBytes \in Nat
      BY <1>1, <1>2, <2>1, <2>3
    <2> HIDE DEF worst, now, room, head
    <2> QED BY <2>4, <2>5
  <1>4. entries_truncated = 0 <=> \A i \in DOMAIN body : Unabridged(i)
    <2>1. IsFiniteSet(Abridged)
      <3>1. Abridged \subseteq 1..included
        BY <1>1 DEF Abridged
      <3>2. IsFiniteSet(1..included)
        BY <1>1, FS_Interval
      <3> QED BY <3>1, <3>2, FS_Subset
    <2>2. Cardinality(Abridged) = 0 <=> Abridged = {}
      BY <2>1, FS_EmptySet
    <2> QED BY <1>1, <2>2 DEF Abridged
  <1>5. claims_complete(included, entries_truncated) <=>
          included = Len(brief.entries) /\ \A i \in DOMAIN body : Unabridged(i)
    BY <1>4 DEF claims_complete
  <1>6. ended = "emitted" => Fits /\ Exhausted
    BY DEF BriefInvariant
  <1>7. ended # "too long"
    BY DEF BriefInvariant
  <1> QED BY <1>1, <1>3, <1>5, <1>6, <1>7 DEF BriefTrue, Taken, Fits, Abridged

\* A glossary whose header fits always has a brief, within its limit, that
\* leaves nothing out while there is room for it and claims to be complete
\* just when it is (_render_brief), whatever its concepts and the limits.
THEOREM BriefHolds == BriefSpec => []BriefTrue
  <1>1. BriefInvariant => BriefTrue
    BY BriefIsTrue
  <1>2. BriefInvariant /\ [BriefNext]_briefVars => BriefInvariant'
    BY BriefKeeps
  <1> QED BY BriefStarts, <1>1, <1>2, PTL DEF BriefSpec

(***************************************************************************)
(* The structural checks: any graph, glossary, caps and budget.            *)
(***************************************************************************)
LEMMA LesserOf ==
  ASSUME NEW x \in Int, NEW y \in Int
  PROVE  Min({x, y}) = IF x <= y THEN x ELSE y
  <1> DEFINE least == IF x <= y THEN x ELSE y
  <1>1. least \in {x, y} /\ \A z \in {x, y} : least <= z
    OBVIOUS
  <1>2. \A w \in {x, y} : (\A z \in {x, y} : w <= z) => w = least
    OBVIOUS
  <1> HIDE DEF least
  <1>3. Min({x, y}) = least
    BY <1>1, <1>2 DEF Min
  <1> QED BY <1>3 DEF least

LEMMA GreaterOf ==
  ASSUME NEW x \in Int, NEW y \in Int
  PROVE  Max({x, y}) = IF x >= y THEN x ELSE y
  <1> DEFINE most == IF x >= y THEN x ELSE y
  <1>1. most \in {x, y} /\ \A z \in {x, y} : most >= z
    OBVIOUS
  <1>2. \A w \in {x, y} : (\A z \in {x, y} : w >= z) => w = most
    OBVIOUS
  <1> HIDE DEF most
  <1>3. Max({x, y}) = most
    BY <1>1, <1>2 DEF Max
  <1> QED BY <1>3 DEF most

LEMMA PairIs ==
  ASSUME NEW S, NEW p \in S \X S
  PROVE  p = <<p[1], p[2]>> /\ p[1] \in S /\ p[2] \in S
  OBVIOUS

\* There are n * (n - 1) \div 2 pairs of n concepts.
LEMMA PairsCounted ==
  ASSUME NEW S, S \subseteq Nat, IsFiniteSet(S)
  PROVE  IsFiniteSet(PairsOf(S)) /\ PairCount(S) = Cardinality(PairsOf(S)) /\ PairCount(S) \in Nat
  <1> DEFINE n == Cardinality(S)
             All == S \X S
             Less == PairsOf(S)
             Greater == {p \in All : p[1] > p[2]}
             Diagonal == {p \in All : p[1] = p[2]}
             Apart == Less \cup Greater
  <1>1. n \in Nat
    BY FS_CardinalityType
  <1>2. IsFiniteSet(All) /\ Cardinality(All) = n * n
    BY FS_Product
  <1>3. Less \subseteq All /\ Greater \subseteq All /\ Diagonal \subseteq All /\ Apart \subseteq All
    BY DEF PairsOf
  <1>4. /\ IsFiniteSet(Less) /\ IsFiniteSet(Greater) /\ IsFiniteSet(Diagonal) /\ IsFiniteSet(Apart)
        /\ Cardinality(Less) \in Nat /\ Cardinality(Greater) \in Nat
        /\ Cardinality(Diagonal) \in Nat /\ Cardinality(Apart) \in Nat
    BY <1>2, <1>3, FS_Subset, FS_CardinalityType
  <1>5. All = Apart \cup Diagonal /\ Apart \cap Diagonal = {} /\ Less \cap Greater = {}
    <2>1. ASSUME NEW p \in All PROVE p \in Apart \cup Diagonal
      <3>1. p[1] \in Nat /\ p[2] \in Nat
        OBVIOUS
      <3>2. p[1] < p[2] \/ p[1] > p[2] \/ p[1] = p[2]
        BY <3>1
      <3> QED BY <3>2 DEF PairsOf
    <2>2. ASSUME NEW p \in All
          PROVE  ~(p \in Apart /\ p \in Diagonal) /\ ~(p \in Less /\ p \in Greater)
      <3>1. p[1] \in Nat /\ p[2] \in Nat
        OBVIOUS
      <3> QED BY <3>1 DEF PairsOf
    <2> HIDE DEF All
    <2>3. Apart \cap Diagonal = {} /\ Less \cap Greater = {}
      BY <2>2, <1>3
    <2> QED BY <2>1, <2>3, <1>3
  <1>6. Cardinality(Less) = Cardinality(Greater)
    <2> DEFINE swap == [p \in Less |-> <<p[2], p[1]>>]
    <2>1. ASSUME NEW p \in Less PROVE p \in S \X S /\ p = <<p[1], p[2]>> /\ p[1] < p[2] /\ p[1] \in Nat /\ p[2] \in Nat
      <3>1. p \in S \X S /\ p[1] < p[2]
        BY DEF PairsOf
      <3> HIDE DEF Less
      <3> QED BY <3>1, PairIs
    <2>2. swap \in [Less -> Greater]
      BY <2>1
    <2>3. swap \in Injection(Less, Greater)
      <3>1. ASSUME NEW p \in Less, NEW q \in Less, swap[p] = swap[q] PROVE p = q
        <4>1. p[1] = q[1] /\ p[2] = q[2]
          BY <3>1
        <4> QED BY <4>1, <2>1
      <3> HIDE DEF swap, Less, Greater
      <3> QED BY <2>2, <3>1 DEF Injection, IsInjective
    <2>4. swap \in Surjection(Less, Greater)
      <3>1. ASSUME NEW q \in Greater PROVE \E p \in Less : swap[p] = q
        <4>1. q = <<q[1], q[2]>> /\ q[1] \in S /\ q[2] \in S /\ q[1] \in Nat /\ q[2] \in Nat /\ q[2] < q[1]
          <5>1. q \in S \X S /\ q[1] > q[2]
            OBVIOUS
          <5> HIDE DEF Greater
          <5> QED BY <5>1, PairIs
        <4>2. <<q[2], q[1]>> \in Less
          BY <4>1 DEF PairsOf
        <4> QED BY <4>1, <4>2
      <3> HIDE DEF swap, Less, Greater
      <3> QED BY <2>2, <3>1 DEF Surjection
    <2>5. ExistsBijection(Less, Greater)
      BY <2>3, <2>4 DEF ExistsBijection, Bijection
    <2> QED BY <2>5, <1>4, FS_Bijection
  <1>7. Cardinality(Diagonal) = n
    <2> DEFINE twice == [x \in S |-> <<x, x>>]
    <2>1. twice \in [S -> Diagonal]
      OBVIOUS
    <2>2. \A x, y \in S : twice[x] = twice[y] => x = y
      OBVIOUS
    <2>3. \A p \in Diagonal : \E x \in S : twice[x] = p
      <3> SUFFICES ASSUME NEW p \in Diagonal PROVE \E x \in S : twice[x] = p
        OBVIOUS
      <3>1. p = <<p[1], p[2]>> /\ p[1] \in S /\ p[1] = p[2]
        OBVIOUS
      <3> QED BY <3>1
    <2> HIDE DEF twice, Diagonal
    <2>4. ExistsBijection(S, Diagonal)
      BY <2>1, <2>2, <2>3 DEF ExistsBijection, Bijection, Injection, Surjection, IsInjective
    <2> QED BY <2>4, FS_Bijection
  <1> HIDE DEF All, Less, Greater, Diagonal, Apart
  <1>8. Cardinality(All) = Cardinality(Apart) + Cardinality(Diagonal)
    <2>1. Cardinality(Apart \cup Diagonal) = Cardinality(Apart) + Cardinality(Diagonal) - Cardinality(Apart \cap Diagonal)
      BY <1>4, FS_Union
    <2>2. Apart \cup Diagonal = All /\ Apart \cap Diagonal = {}
      BY <1>5
    <2>3. Cardinality({}) = 0
      BY FS_EmptySet
    <2> DEFINE a == Cardinality(Apart)
               b == Cardinality(Diagonal)
    <2>4. a \in Nat /\ b \in Nat /\ Cardinality(All) = a + b - 0
      BY <2>1, <2>2, <2>3, <1>4
    <2> HIDE DEF a, b
    <2>5. Cardinality(All) = a + b
      BY <2>4
    <2> QED BY <2>5 DEF a, b
  <1>9. Cardinality(Apart) = Cardinality(Less) + Cardinality(Greater)
    <2>1. Cardinality(Less \cup Greater) = Cardinality(Less) + Cardinality(Greater) - Cardinality(Less \cap Greater)
      BY <1>4, FS_Union
    <2>2. Apart = Less \cup Greater /\ Cardinality(Less \cap Greater) = 0
      BY <1>5, FS_EmptySet DEF Apart
    <2> QED BY <2>1, <2>2, <1>4
  <1>10. n * (n - 1) = Cardinality(Less) + Cardinality(Less)
    <2>1. n * (n - 1) = n * n - n
      BY <1>1
    <2> DEFINE square == n * n
    <2>2. square \in Nat /\ square = Cardinality(Apart) + n
      BY <1>1, <1>2, <1>7, <1>8
    <2>3. n * (n - 1) = square - n
      BY <2>1
    <2> HIDE DEF square, n
    <2> QED BY <2>2, <2>3, <1>1, <1>4, <1>6, <1>9
  <1>11. PairCount(S) = Cardinality(Less)
    <2> DEFINE twice == n * (n - 1)
               l == Cardinality(Less)
    <2>1. PairCount(S) = twice \div 2
      BY DEF PairCount
    <2>2. twice = l + l /\ l \in Nat
      BY <1>4, <1>10
    <2> HIDE DEF twice, l
    <2>3. twice \div 2 = l
      BY <2>2
    <2> QED BY <2>1, <2>3 DEF l
  <1> QED BY <1>4, <1>11 DEF Less
\* What of a group's words strongly match, and whether none do, were the budget
\* without limit.
AllStrong(g) == {c \in candidate_ids(g) : strength(g, c) >= MATCH_STRONG}
Nameless(g) == group_evidence_complete(g) /\ candidate_ids(g) = {}

Matched == IF stage \in {"load", "group"} THEN {} ELSE retained_groups \ pending

MatchedPairs == UNION {{g} \X PairsOf(AllStrong(g)) : g \in Matched}

GroupRecords == [label: Labels, members: SUBSET NodeIds]

StructureTyped ==
  /\ graph \in Graphs /\ canonical \in ConceptChoices
  /\ stage \in {"load", "group", "match", "done", "reported"}
  /\ next \in Nat \ {0}
  /\ groups \in [GroupIds -> {None} \cup GroupRecords]
  /\ pending \subseteq GroupIds
  /\ processed_match_work \in Nat /\ partial_group_matches \in BOOLEAN

\* The entries of the communities list already met that claim an id, and what
\* has been made of them.
Met(g) == {i \in Entries(g) : i < next}

Assembled ==
  \A g \in GroupIds :
    /\ Met(g) = {} => groups[g] = None
    /\ Met(g) # {} =>
         /\ groups[g] # None
         /\ \E i \in Met(g) : /\ \A j \in Met(g) : i <= j
                              /\ groups[g].label = graph.communities[i].label
         /\ groups[g].members =
              {n \in UNION {graph.communities[i].members : i \in Met(g)} : graph.nodes[n] # None}

MetInOrder ==
  /\ stage = "load" => next = 1
  /\ stage \in {"match", "done"} => next > Len(graph.communities)
  /\ stage = "reported" => next > Len(graph.communities) \/ ~usable
  /\ stage # "match" => pending = {}
  /\ pending \subseteq retained_groups

NamesTrue ==
  unnamed = IF stage = "reported" /\ scoped_canonical # {} THEN {}
            ELSE {g \in Matched : Nameless(g)}

ShownTrue ==
  /\ \A b \in boundary : b.group \in Matched /\ b.concepts \in PairsOf(AllStrong(b.group))
  /\ IsFiniteSet(boundary) /\ boundary_total \in Nat
  /\ Cardinality(boundary) = Min({FINDINGS_CAP, boundary_total})

CountedTrue ==
  /\ boundary_total <= Cardinality(MatchedPairs)
  /\ ~partial_group_matches => boundary_total = Cardinality(MatchedPairs)

OverloadedTrue ==
  /\ \A o \in overloaded : o.group \in Matched /\ o.concepts \subseteq AllStrong(o.group)
  /\ ~partial_group_matches =>
       {<<o.group, o.concepts>> : o \in overloaded} =
         {<<g, AllStrong(g)>> : g \in {h \in Matched : is_overloaded_region(Cardinality(AllStrong(h)))}}

StructureInvariant ==
  /\ StructureTyped /\ Assembled /\ MetInOrder
  /\ NamesTrue /\ ShownTrue /\ CountedTrue /\ OverloadedTrue

(***************************************************************************)
(* What a group's findings depend on.                                      *)
(***************************************************************************)
LEMMA GroupUnchanged ==
  ASSUME UNCHANGED <<graph, canonical, groups>>
  PROVE  /\ group_items' = group_items /\ retained_groups' = retained_groups
         /\ usable' = usable /\ scoped_canonical' = scoped_canonical
         /\ \A g : AllStrong(g)' = AllStrong(g) /\ (Nameless(g)' <=> Nameless(g))
  <1>1. \A m : Visible(m)' = Visible(m)
    BY DEF Visible
  <1>2. group_items' = group_items
    BY <1>1 DEF group_items
  <1>3. \A g : size(g)' = size(g)
    BY <1>1 DEF size
  <1>4. retained_groups' = retained_groups
    BY <1>2, <1>3 DEF retained_groups
  <1>5. \A g : all_member_tokens(g)' = all_member_tokens(g)
    BY <1>1 DEF all_member_tokens
  <1>6. \A g : member_tokens(g)' = member_tokens(g)
    BY <1>5 DEF member_tokens
  <1>7. \A g : group_evidence_complete(g)' <=> group_evidence_complete(g)
    BY <1>1, <1>5 DEF group_evidence_complete, member_tokens_complete
  <1>8. \A g : combined(g)' = combined(g) /\ label_tokens(g)' = label_tokens(g)
    BY <1>6 DEF combined, label_tokens
  <1>9. scoped_canonical' = scoped_canonical /\ global_canonical' = global_canonical
    BY DEF scoped_canonical, global_canonical
  <1>10. \A g : candidate_ids(g)' = candidate_ids(g)
    BY <1>8, <1>9 DEF candidate_ids
  <1>11. \A g, c : strength(g, c)' = strength(g, c)
    BY <1>8 DEF strength
  <1>12. \A g : AllStrong(g)' = AllStrong(g)
    BY <1>10, <1>11 DEF AllStrong
  <1> QED BY <1>2, <1>4, <1>7, <1>9, <1>10, <1>12 DEF usable, Nameless

LEMMA ConceptsFinite ==
  ASSUME NEW g
  PROVE  /\ AllStrong(g) \subseteq Concepts /\ AllStrong(g) \subseteq Nat /\ IsFiniteSet(AllStrong(g))
         /\ strong(g) \subseteq AllStrong(g) /\ IsFiniteSet(strong(g))
         /\ group_match_complete(g) => strong(g) = AllStrong(g)
  <1>1. AllStrong(g) \subseteq Concepts
    BY DEF AllStrong, candidate_ids, global_canonical
  <1>2. evaluated_ids(g) \subseteq candidate_ids(g)
    BY DEF evaluated_ids
  <1>3. strong(g) \subseteq AllStrong(g) /\ (group_match_complete(g) => strong(g) = AllStrong(g))
    BY <1>2 DEF strong, AllStrong, group_match_complete
  <1>4. Concepts \subseteq Nat /\ IsFiniteSet(Concepts)
    BY StructuralAssumption
  <1> QED BY <1>1, <1>3, <1>4, FS_Subset

\* A group is called unnamed just when no concept shares a word with it.
LEMMA UnnamedIs ==
  ASSUME NEW g PROVE Unnamed(g) <=> Nameless(g)
  <1>1. ASSUME Unnamed(g) PROVE Nameless(g)
    <2>1. ASSUME NEW c \in candidate_ids(g) PROVE FALSE
      <3>1. (canonical[c].term \cup canonical[c].binding) \cap combined(g) # {}
        BY DEF candidate_ids
      <3>2. strength(g, c) = MATCH_NONE
        BY <1>1 DEF Unnamed, group_match_complete
      <3> QED BY <3>1, <3>2 DEF strength, structural_match_strength, MATCH_NONE, MATCH_WEAK, MATCH_STRONG, MATCH_LABEL
    <2> QED BY <1>1, <2>1 DEF Nameless, Unnamed
  <1>2. ASSUME Nameless(g) PROVE Unnamed(g)
    <2>1. evaluated_ids(g) = {}
      BY <1>2 DEF Nameless, evaluated_ids
    <2> QED BY <1>2, <2>1 DEF Nameless, Unnamed, group_match_complete
  <1> QED BY <1>1, <1>2

LEMMA RetainedIsItem == retained_groups \subseteq group_items /\ group_items \subseteq GroupIds
  BY DEF retained_groups, group_items

LEMMA MatchedFinite ==
  /\ Matched \subseteq GroupIds
  /\ IsFiniteSet(MatchedPairs) /\ Cardinality(MatchedPairs) \in Nat
  <1>1. Matched \subseteq GroupIds
    BY RetainedIsItem DEF Matched
  <1>2. MatchedPairs \subseteq GroupIds \X (Concepts \X Concepts)
    <2>1. \A g : PairsOf(AllStrong(g)) \subseteq Concepts \X Concepts
      BY ConceptsFinite DEF PairsOf
    <2> QED BY <1>1, <2>1 DEF MatchedPairs
  <1>3. IsFiniteSet(GroupIds) /\ IsFiniteSet(Concepts)
    BY StructuralAssumption
  <1>4. IsFiniteSet(Concepts \X Concepts)
    BY <1>3, FS_Product
  <1>5. IsFiniteSet(GroupIds \X (Concepts \X Concepts))
    BY <1>3, <1>4, FS_Product
  <1> QED BY <1>1, <1>2, <1>5, FS_Subset, FS_CardinalityType
(***************************************************************************)
(* The steps.                                                              *)
(***************************************************************************)
\* Before the matching nothing is matched, so nothing is found.
LEMMA NothingMatched ==
  ASSUME Matched = {}, ShownTrue, CountedTrue, NamesTrue, OverloadedTrue
  PROVE  /\ unnamed = {} /\ boundary = {} /\ boundary_total = 0 /\ overloaded = {}
  <1>1. unnamed = {}
    BY DEF NamesTrue
  <1>2. boundary = {}
    BY DEF ShownTrue
  <1>3. overloaded = {}
    BY DEF OverloadedTrue
  <1>4. boundary_total = 0
    <2>1. MatchedPairs = {}
      BY DEF MatchedPairs
    <2>2. boundary_total \in Nat /\ boundary_total <= Cardinality({})
      BY <2>1 DEF ShownTrue, CountedTrue
    <2>3. Cardinality({}) = 0
      BY FS_EmptySet
    <2> QED BY <2>2, <2>3
  <1> QED BY <1>1, <1>2, <1>3, <1>4

LEMMA NothingFound ==
  Matched = {} /\ unnamed = {} /\ boundary = {} /\ boundary_total = 0 /\ overloaded = {}
    => ShownTrue /\ CountedTrue /\ NamesTrue /\ OverloadedTrue
  <1> SUFFICES ASSUME Matched = {}, unnamed = {}, boundary = {}, boundary_total = 0, overloaded = {}
               PROVE  ShownTrue /\ CountedTrue /\ NamesTrue /\ OverloadedTrue
    OBVIOUS
  <1>1. NamesTrue
    BY DEF NamesTrue
  <1>2. ShownTrue
    <2>1. FINDINGS_CAP \in Int /\ 0 <= FINDINGS_CAP
      BY StructuralAssumption
    <2>2. Min({FINDINGS_CAP, 0}) = 0
      BY <2>1, LesserOf
    <2> QED BY <2>2, FS_EmptySet DEF ShownTrue
  <1>3. CountedTrue
    <2>1. MatchedPairs = {}
      BY DEF MatchedPairs
    <2>2. Cardinality({}) = 0
      BY FS_EmptySet
    <2> QED BY <2>1, <2>2 DEF CountedTrue
  <1>4. OverloadedTrue
    <2>1. {<<o.group, o.concepts>> : o \in overloaded} = {}
      OBVIOUS
    <2>2. {<<g, AllStrong(g)>> : g \in {h \in Matched : is_overloaded_region(Cardinality(AllStrong(h)))}} = {}
      OBVIOUS
    <2> QED BY <2>1, <2>2 DEF OverloadedTrue
  <1> QED BY <1>1, <1>2, <1>3, <1>4

LEMMA NothingFoundNext ==
  (Matched = {} /\ unnamed = {} /\ boundary = {} /\ boundary_total = 0 /\ overloaded = {})'
    => (ShownTrue /\ CountedTrue /\ NamesTrue /\ OverloadedTrue)'
  BY NothingFound, PTL

LEMMA GraphTypes ==
  ASSUME NEW G \in Graphs
  PROVE  /\ Len(G.communities) \in Nat /\ DOMAIN G.communities = 1..Len(G.communities)
         /\ \A i \in 1..Len(G.communities) : G.communities[i] \in Communities
         /\ G.nodes \in [NodeIds -> NodeRecords \cup {None}]
  <1>1. G \in [nodes: [NodeIds -> NodeRecords \cup {None}], communities: Seq(Communities)]
    BY StructuralAssumption
  <1>2. G.communities \in Seq(Communities)
    BY <1>1
  <1> QED BY <1>1, <1>2

LEMMA StructureStarts == StructureInit => StructureInvariant
  <1> SUFFICES ASSUME StructureInit PROVE StructureInvariant
    OBVIOUS
  <1>1. StructureTyped
    <2>1. next \in Nat \ {0} /\ processed_match_work \in Nat
      BY DEF StructureInit
    <2> QED BY <2>1 DEF StructureInit, StructureTyped
  <1>2. Assembled
    <2>1. \A g : Met(g) = {}
      <3>1. ASSUME NEW g, NEW i \in Met(g) PROVE FALSE
        <4>1. i \in 1..Len(graph.communities) /\ i < 1
          BY <1>1, GraphTypes DEF StructureInit, Met, Entries, StructureTyped
        <4>2. Len(graph.communities) \in Nat
          BY <1>1, GraphTypes DEF StructureTyped
        <4> QED BY <4>1, <4>2
      <3> QED BY <3>1
    <2> QED BY <2>1 DEF StructureInit, Assembled
  <1>3. MetInOrder
    BY DEF StructureInit, MetInOrder
  <1>4. Matched = {}
    BY DEF StructureInit, Matched
  <1>5. ShownTrue /\ CountedTrue /\ NamesTrue /\ OverloadedTrue
    BY <1>4, NothingFound DEF StructureInit
  <1> QED BY <1>1, <1>2, <1>3, <1>5 DEF StructureInvariant

LEMMA AssembledSame ==
  ASSUME UNCHANGED <<graph, groups, next>>, Assembled PROVE Assembled'
  BY DEF Assembled, Met, Entries

LEMMA RefuseKeeps ==
  ASSUME StructureInvariant, RefuseGraph PROVE StructureInvariant'
  <1>1. /\ stage = "load" /\ next = 1 /\ stage' = "reported" /\ pending = {}
        /\ UNCHANGED <<graph, canonical, next, groups, pending, processed_match_work, partial_group_matches,
                       unnamed, boundary, boundary_total, overloaded>>
        /\ StructureTyped
    BY DEF RefuseGraph, inputs, work, found, StructureInvariant, MetInOrder
  <1>2. StructureTyped' /\ Assembled'
    BY <1>1, AssembledSame DEF StructureInvariant, StructureTyped
  <1>3. \A g \in GroupIds : groups[g] = None
    <2>1. \A g : Met(g) = {}
      <3>1. ASSUME NEW g, NEW i \in Met(g) PROVE FALSE
        <4>1. i \in 1..Len(graph.communities) /\ i < 1
          BY <1>1, GraphTypes DEF Met, Entries, StructureTyped
        <4>2. Len(graph.communities) \in Nat
          BY <1>1, GraphTypes DEF StructureTyped
        <4> QED BY <4>1, <4>2
      <3> QED BY <3>1
    <2> QED BY <2>1 DEF StructureInvariant, Assembled
  <1>4. group_items = {} /\ ~usable
    BY <1>3 DEF group_items, usable
  <1>5. group_items' = {} /\ ~usable' /\ retained_groups' = {}
    <2>1. group_items' = {} /\ ~usable'
      BY <1>1, <1>4, GroupUnchanged
    <2> QED BY <2>1 DEF retained_groups
  <1>6. MetInOrder'
    BY <1>1, <1>5 DEF MetInOrder
  <1>7. Matched = {} /\ Matched' = {}
    BY <1>1, <1>5 DEF Matched
  <1>8. unnamed = {} /\ boundary = {} /\ boundary_total = 0 /\ overloaded = {}
    BY <1>7, NothingMatched DEF StructureInvariant
  <1>9. unnamed' = {} /\ boundary' = {} /\ boundary_total' = 0 /\ overloaded' = {}
    BY <1>1, <1>8
  <1>10. (ShownTrue /\ CountedTrue /\ NamesTrue /\ OverloadedTrue)'
    BY <1>7, <1>9, NothingFoundNext
  <1> QED BY <1>2, <1>6, <1>10 DEF StructureInvariant

LEMMA LoadKeeps ==
  ASSUME StructureInvariant, LoadGraph PROVE StructureInvariant'
  <1>1. /\ stage = "load" /\ stage' = "group" /\ pending = {}
        /\ UNCHANGED <<graph, canonical, next, groups, pending, processed_match_work, partial_group_matches,
                       unnamed, boundary, boundary_total, overloaded>>
    BY DEF LoadGraph, inputs, work, found, StructureInvariant, MetInOrder
  <1>2. StructureTyped' /\ Assembled'
    BY <1>1, AssembledSame DEF StructureInvariant, StructureTyped
  <1>3. MetInOrder'
    BY <1>1 DEF MetInOrder
  <1>4. Matched = {} /\ Matched' = {}
    BY <1>1 DEF Matched
  <1>5. unnamed = {} /\ boundary = {} /\ boundary_total = 0 /\ overloaded = {}
    BY <1>4, NothingMatched DEF StructureInvariant
  <1>6. unnamed' = {} /\ boundary' = {} /\ boundary_total' = 0 /\ overloaded' = {}
    BY <1>1, <1>5
  <1>7. (ShownTrue /\ CountedTrue /\ NamesTrue /\ OverloadedTrue)'
    BY <1>4, <1>6, NothingFoundNext
  <1> QED BY <1>2, <1>3, <1>7 DEF StructureInvariant

LEMMA CommunityAssembled ==
  ASSUME StructureTyped, Assembled, AddCommunity PROVE StructureTyped' /\ Assembled'
  <1> DEFINE entry == graph.communities[next]
             fresh == {n \in entry.members : graph.nodes[n] # None}
             G == graph.communities
  <1>1. /\ next \in Nat \ {0} /\ next <= Len(G) /\ next' = next + 1
        /\ stage = "group" /\ stage' = "group"
        /\ graph' = graph /\ canonical' = canonical /\ pending' = pending
        /\ processed_match_work' = processed_match_work /\ partial_group_matches' = partial_group_matches
        /\ groups' = IF entry = None THEN groups ELSE [groups EXCEPT ![entry.id] = Grown(@, entry)]
    BY DEF AddCommunity, inputs, work, StructureTyped
  <1>2. /\ Len(G) \in Nat /\ next \in 1..Len(G)
        /\ DOMAIN G = 1..Len(G) /\ G[next] \in Communities
        /\ graph.nodes \in [NodeIds -> NodeRecords \cup {None}]
    <2>1. /\ Len(G) \in Nat /\ DOMAIN G = 1..Len(G) /\ \A i \in 1..Len(G) : G[i] \in Communities
          /\ graph.nodes \in [NodeIds -> NodeRecords \cup {None}]
      BY GraphTypes DEF StructureTyped
    <2>2. next \in 1..Len(G)
      BY <1>1, <2>1
    <2> QED BY <2>1, <2>2
  <1>3. ASSUME NEW g
        PROVE  Met(g)' = IF entry # None /\ entry.id = g THEN Met(g) \cup {next} ELSE Met(g)
    <2>1. Entries(g)' = Entries(g)
      BY <1>1 DEF Entries
    <2>2. next \in Entries(g) <=> entry # None /\ entry.id = g
      BY <1>2 DEF Entries
    <2>3. \A i \in Entries(g) : i \in Nat
      BY <1>2 DEF Entries
    <2>4. \A i \in Entries(g) : i < next + 1 <=> i < next \/ i = next
      BY <1>1, <2>3
    <2>5. ~(next < next)
      BY <1>1
    <2> HIDE DEF entry, G
    <2> QED BY <1>1, <2>1, <2>2, <2>4, <2>5 DEF Met
  <1>4. ASSUME NEW g PROVE \A i \in Met(g) : i \in Nat /\ i < next
    BY <1>2 DEF Met, Entries
  <1>5. groups \in [GroupIds -> {None} \cup GroupRecords]
    BY DEF StructureTyped
  <1>6. CASE entry = None
    <2>1. groups' = groups /\ \A g : Met(g)' = Met(g)
      BY <1>1, <1>3, <1>6
    <2>2. StructureTyped'
      <3>1. next' \in Nat \ {0}
        BY <1>1
      <3> QED BY <3>1, <1>1, <2>1 DEF StructureTyped
    <2>3. Assembled'
      BY <1>1, <2>1 DEF Assembled
    <2> QED BY <2>2, <2>3
  <1>7. CASE entry # None
    <2>1. /\ entry.id \in GroupIds /\ entry.label \in Labels /\ entry.members \subseteq NodeIds
      BY <1>2, <1>7 DEF Communities
    <2>id. PICK id \in GroupIds : id = entry.id
      BY <2>1
    <2> DEFINE old == groups[id]
               new == Grown(old, entry)
    <2>2. /\ groups' = [groups EXCEPT ![id] = new] /\ groups'[id] = new
          /\ \A g \in GroupIds : g # id => groups'[g] = groups[g]
      BY <1>1, <1>5, <1>7, <2>1, <2>id
    <2>3. fresh \subseteq NodeIds
      BY <2>1
    <2>met. Met(id)' = Met(id) \cup {next} /\ \A g : g # id => Met(g)' = Met(g)
      BY <1>3, <1>7, <2>id
    <2>kept. /\ new \in GroupRecords /\ new # None
             /\ \E i \in Met(id)' : (\A j \in Met(id)' : i <= j) /\ new.label = graph.communities[i].label
             /\ new.members = {n \in UNION {graph.communities[i].members : i \in Met(id)'} : graph.nodes[n] # None}
      <3>1. CASE old = None
        <4>1. new = [label |-> entry.label, members |-> fresh]
          BY <3>1 DEF Grown
        <4>2. new \in GroupRecords /\ new.label = entry.label /\ new.members = fresh
          BY <4>1, <2>1, <2>3 DEF GroupRecords
        <4>3. new # None
          BY <4>2, StructuralAssumption DEF GroupRecords
        <4>4. Met(id)' = {next}
          BY <3>1, <2>met DEF Assembled
        <4>5. {n \in UNION {graph.communities[i].members : i \in {next}} : graph.nodes[n] # None} = fresh
          OBVIOUS
        <4>6. next <= next
          BY <1>1
        <4> QED BY <4>2, <4>3, <4>4, <4>5, <4>6
      <3>2. CASE old # None
        <4>1. new = [old EXCEPT !.members = old.members \cup fresh] /\ old \in GroupRecords
          BY <3>2, <1>5 DEF Grown
        <4>2. new \in GroupRecords /\ new.label = old.label /\ new.members = old.members \cup fresh
          BY <4>1, <2>1, <2>3 DEF GroupRecords
        <4>3. new # None
          BY <4>2, StructuralAssumption DEF GroupRecords
        <4>4. /\ Met(id) # {}
              /\ old.members = {n \in UNION {graph.communities[i].members : i \in Met(id)} : graph.nodes[n] # None}
          BY <3>2 DEF Assembled
        <4>5. PICK i \in Met(id) : (\A j \in Met(id) : i <= j) /\ old.label = graph.communities[i].label
          BY <3>2, <4>4 DEF Assembled
        <4>6. i <= next
          BY <1>1, <1>4
        <4>7. new.members = {n \in UNION {graph.communities[k].members : k \in Met(id)'} : graph.nodes[n] # None}
          BY <4>2, <4>4, <2>met
        <4> QED BY <4>2, <4>3, <4>5, <4>6, <4>7, <2>met
      <3> QED BY <3>1, <3>2
    <2>4. StructureTyped'
      <3>1. next' \in Nat \ {0}
        BY <1>1
      <3>2. groups' \in [GroupIds -> {None} \cup GroupRecords]
        BY <1>5, <2>2, <2>kept
      <3> QED BY <3>1, <3>2, <1>1 DEF StructureTyped
    <2>5. Assembled'
      <3> SUFFICES ASSUME NEW g \in GroupIds
                   PROVE  /\ Met(g)' = {} => groups'[g] = None
                          /\ Met(g)' # {} =>
                               /\ groups'[g] # None
                               /\ \E i \in Met(g)' : /\ \A j \in Met(g)' : i <= j
                                                     /\ groups'[g].label = graph.communities[i].label
                               /\ groups'[g].members =
                                    {n \in UNION {graph.communities[i].members : i \in Met(g)'} : graph.nodes[n] # None}
        BY <1>1 DEF Assembled
      <3>1. CASE g = id
        <4>1. Met(g)' # {}
          BY <3>1, <2>met
        <4> HIDE DEF new
        <4> QED BY <3>1, <4>1, <2>2, <2>kept
      <3>2. CASE g # id
        <4>1. Met(g)' = Met(g) /\ groups'[g] = groups[g]
          BY <3>2, <2>met, <2>2
        <4> QED BY <4>1 DEF Assembled
      <3> QED BY <3>1, <3>2
    <2> QED BY <2>4, <2>5
  <1> QED BY <1>6, <1>7
LEMMA CommunityKeeps ==
  ASSUME StructureInvariant, AddCommunity PROVE StructureInvariant'
  <1>1. /\ stage = "group" /\ stage' = "group" /\ pending = {} /\ pending' = {}
        /\ UNCHANGED <<unnamed, boundary, boundary_total, overloaded>>
    BY DEF AddCommunity, found, StructureInvariant, MetInOrder
  <1>2. StructureTyped' /\ Assembled'
    BY CommunityAssembled DEF StructureInvariant
  <1>3. MetInOrder'
    BY <1>1 DEF MetInOrder
  <1>4. Matched = {} /\ Matched' = {}
    BY <1>1 DEF Matched
  <1>5. unnamed = {} /\ boundary = {} /\ boundary_total = 0 /\ overloaded = {}
    BY <1>4, NothingMatched DEF StructureInvariant
  <1>6. unnamed' = {} /\ boundary' = {} /\ boundary_total' = 0 /\ overloaded' = {}
    BY <1>1, <1>5
  <1>7. (ShownTrue /\ CountedTrue /\ NamesTrue /\ OverloadedTrue)'
    BY <1>4, <1>6, NothingFoundNext
  <1> QED BY <1>2, <1>3, <1>7 DEF StructureInvariant

LEMMA EndGroupsKeeps ==
  ASSUME StructureInvariant, EndGroups PROVE StructureInvariant'
  <1>1. /\ stage = "group" /\ next > Len(graph.communities) /\ pending = {}
        /\ UNCHANGED <<graph, canonical, next, groups, processed_match_work, partial_group_matches,
                       unnamed, boundary, boundary_total, overloaded>>
        /\ StructureTyped
    BY DEF EndGroups, inputs, work, found, StructureInvariant, MetInOrder
  <1>2. \/ usable /\ stage' = "match" /\ pending' = retained_groups
        \/ ~usable /\ stage' = "reported" /\ pending' = {}
    BY <1>1 DEF EndGroups
  <1>3. retained_groups' = retained_groups /\ usable' = usable /\ retained_groups \subseteq GroupIds
    BY <1>1, GroupUnchanged, RetainedIsItem
  <1>4. StructureTyped' /\ Assembled'
    BY <1>1, <1>2, <1>3, AssembledSame DEF StructureInvariant, StructureTyped
  <1>5. MetInOrder'
    BY <1>1, <1>2, <1>3 DEF MetInOrder
  <1>6. Matched = {} /\ Matched' = {}
    <2>1. ~usable => retained_groups = {}
      BY RetainedIsItem DEF usable
    <2> QED BY <1>1, <1>2, <1>3, <2>1 DEF Matched
  <1>7. unnamed = {} /\ boundary = {} /\ boundary_total = 0 /\ overloaded = {}
    BY <1>6, NothingMatched DEF StructureInvariant
  <1>8. unnamed' = {} /\ boundary' = {} /\ boundary_total' = 0 /\ overloaded' = {}
    BY <1>1, <1>7
  <1>9. (ShownTrue /\ CountedTrue /\ NamesTrue /\ OverloadedTrue)'
    BY <1>6, <1>8, NothingFoundNext
  <1> QED BY <1>4, <1>5, <1>9 DEF StructureInvariant

\* Where nothing is found anew.
LEMMA FindingsSame ==
  ASSUME UNCHANGED <<graph, canonical, groups, partial_group_matches, boundary, boundary_total, overloaded>>,
         Matched' = Matched
  PROVE  (ShownTrue => ShownTrue') /\ (CountedTrue => CountedTrue') /\ (OverloadedTrue => OverloadedTrue')
  <1>1. \A g : AllStrong(g)' = AllStrong(g)
    BY GroupUnchanged
  <1>2. MatchedPairs' = MatchedPairs
    BY <1>1 DEF MatchedPairs
  <1>3. ShownTrue => ShownTrue'
    BY <1>1 DEF ShownTrue
  <1>4. CountedTrue => CountedTrue'
    BY <1>2 DEF CountedTrue
  <1>5. OverloadedTrue => OverloadedTrue'
    BY <1>1 DEF OverloadedTrue, is_overloaded_region
  <1> QED BY <1>3, <1>4, <1>5

LEMMA EndMatchingKeeps ==
  ASSUME StructureInvariant, EndGroupMatching PROVE StructureInvariant'
  <1>1. /\ stage = "match" /\ stage' = "done" /\ pending = {}
        /\ UNCHANGED <<graph, canonical, next, groups, pending, processed_match_work, partial_group_matches,
                       unnamed, boundary, boundary_total, overloaded>>
        /\ StructureTyped
    BY DEF EndGroupMatching, inputs, work, found, StructureInvariant
  <1>2. /\ retained_groups' = retained_groups /\ scoped_canonical' = scoped_canonical
        /\ \A g : Nameless(g)' <=> Nameless(g)
    BY <1>1, GroupUnchanged
  <1>3. StructureTyped' /\ Assembled'
    BY <1>1, AssembledSame DEF StructureInvariant, StructureTyped
  <1>4. MetInOrder'
    BY <1>1 DEF StructureInvariant, MetInOrder
  <1>5. Matched' = Matched
    BY <1>1, <1>2 DEF Matched
  <1>6. NamesTrue'
    BY <1>1, <1>2, <1>5 DEF StructureInvariant, NamesTrue
  <1> QED BY <1>1, <1>3, <1>4, <1>5, <1>6, FindingsSame DEF StructureInvariant

LEMMA ReportKeeps ==
  ASSUME StructureInvariant, Report PROVE StructureInvariant'
  <1>1. /\ stage = "done" /\ stage' = "reported"
        /\ UNCHANGED <<graph, canonical, next, groups, pending, processed_match_work, partial_group_matches,
                       boundary, boundary_total, overloaded>>
        /\ unnamed' = IF scoped_canonical = {} THEN unnamed ELSE {}
        /\ StructureTyped
    BY DEF Report, inputs, work, StructureInvariant
  <1>2. /\ retained_groups' = retained_groups /\ scoped_canonical' = scoped_canonical
        /\ \A g : Nameless(g)' <=> Nameless(g)
    BY <1>1, GroupUnchanged
  <1>3. StructureTyped' /\ Assembled'
    BY <1>1, AssembledSame DEF StructureInvariant, StructureTyped
  <1>4. MetInOrder'
    BY <1>1 DEF StructureInvariant, MetInOrder
  <1>5. Matched' = Matched
    BY <1>1, <1>2 DEF Matched
  <1>6. NamesTrue'
    <2>1. unnamed = {g \in Matched : Nameless(g)}
      BY <1>1 DEF StructureInvariant, NamesTrue
    <2>2. {g \in Matched' : Nameless(g)'} = {g \in Matched : Nameless(g)}
      BY <1>2, <1>5
    <2> QED BY <1>1, <1>2, <2>1, <2>2 DEF NamesTrue
  <1> QED BY <1>1, <1>3, <1>4, <1>5, <1>6, FindingsSame DEF StructureInvariant

LEMMA StructureStutters ==
  ASSUME StructureInvariant, UNCHANGED structureVars PROVE StructureInvariant'
  <1>1. UNCHANGED <<graph, canonical, stage, next, groups, pending, processed_match_work, partial_group_matches,
                    unnamed, boundary, boundary_total, overloaded>>
    BY DEF structureVars, inputs, work, found
  <1>2. /\ retained_groups' = retained_groups /\ scoped_canonical' = scoped_canonical /\ usable' = usable
        /\ \A g : Nameless(g)' <=> Nameless(g)
    BY <1>1, GroupUnchanged
  <1>3. StructureTyped' /\ Assembled'
    BY <1>1, AssembledSame DEF StructureInvariant, StructureTyped
  <1>4. MetInOrder'
    BY <1>1, <1>2 DEF StructureInvariant, MetInOrder
  <1>5. Matched' = Matched
    BY <1>1, <1>2 DEF Matched
  <1>6. NamesTrue'
    BY <1>1, <1>2, <1>5 DEF StructureInvariant, NamesTrue
  <1> QED BY <1>1, <1>3, <1>4, <1>5, <1>6, FindingsSame DEF StructureInvariant
LEMMA MatchKeeps ==
  ASSUME StructureInvariant, NEW g \in GroupIds, MatchGroup(g) PROVE StructureInvariant'
  <1> DEFINE k == PairCount(strong(g))
             slots == detail_slots
  <1>1. /\ stage = "match" /\ stage' = "match" /\ g \in pending /\ pending' = pending \ {g}
        /\ UNCHANGED <<graph, canonical, next, groups>>
        /\ processed_match_work' = processed_match_work + Cardinality(evaluated_ids(g))
        /\ partial_group_matches' = (partial_group_matches \/ ~group_match_complete(g))
        /\ unnamed' = (IF Unnamed(g) THEN unnamed \cup {g} ELSE unnamed)
        /\ boundary_total' = boundary_total + k
        /\ StructureTyped
    BY DEF MatchGroup, inputs, StructureInvariant
  <1>2. PICK shown \in SUBSET PairsOf(strong(g)) :
          /\ Cardinality(shown) = Min({slots, k})
          /\ boundary' = boundary \cup {[group |-> g, concepts |-> p] : p \in shown}
    BY DEF MatchGroup
  <1>3. overloaded' = IF is_overloaded_region(Cardinality(strong(g)))
                        THEN overloaded \cup {[group |-> g, concepts |-> strong(g),
                                               concept_count_exact |-> group_match_complete(g)]}
                        ELSE overloaded
    BY DEF MatchGroup
  <1>4. /\ retained_groups' = retained_groups /\ scoped_canonical' = scoped_canonical
        /\ \A h : AllStrong(h)' = AllStrong(h) /\ (Nameless(h)' <=> Nameless(h))
    BY <1>1, GroupUnchanged
  <1>5. pending \subseteq retained_groups
    BY DEF StructureInvariant, MetInOrder
  <1>6. g \notin Matched /\ Matched' = Matched \cup {g}
    BY <1>1, <1>4, <1>5 DEF Matched
  <1>7. StructureTyped' /\ Assembled'
    <2>1. processed_match_work' \in Nat
      <3>1. IsFiniteSet(evaluated_ids(g))
        <4>1. evaluated_ids(g) \subseteq Concepts
          BY DEF evaluated_ids, candidate_ids, global_canonical
        <4> QED BY <4>1, StructuralAssumption, FS_Subset
      <3>2. Cardinality(evaluated_ids(g)) \in Nat
        BY <3>1, FS_CardinalityType
      <3> QED BY <3>2, <1>1 DEF StructureTyped
    <2>2. Assembled'
      BY <1>1, AssembledSame DEF StructureInvariant
    <2> QED BY <2>1, <2>2, <1>1 DEF StructureTyped
  <1>8. MetInOrder'
    BY <1>1, <1>4, <1>5 DEF StructureInvariant, MetInOrder
  <1>9. NamesTrue'
    <2>1. unnamed = {h \in Matched : Nameless(h)}
      BY <1>1 DEF StructureInvariant, NamesTrue
    <2>2. unnamed' = IF Nameless(g) THEN unnamed \cup {g} ELSE unnamed
      BY <1>1, UnnamedIs
    <2>3. {h \in Matched' : Nameless(h)'} = {h \in Matched \cup {g} : Nameless(h)}
      BY <1>4, <1>6
    <2>4. unnamed' = {h \in Matched \cup {g} : Nameless(h)}
      BY <2>1, <2>2
    <2> QED BY <1>1, <2>3, <2>4 DEF NamesTrue
  <1> DEFINE Here == PairsOf(AllStrong(g))
  <1>10. /\ IsFiniteSet(Here) /\ Cardinality(Here) \in Nat
         /\ PairsOf(strong(g)) \subseteq Here /\ k \in Nat /\ k <= Cardinality(Here)
         /\ group_match_complete(g) => k = Cardinality(Here)
    <2>1. /\ AllStrong(g) \subseteq Nat /\ IsFiniteSet(AllStrong(g)) /\ strong(g) \subseteq AllStrong(g)
          /\ strong(g) \subseteq Nat /\ IsFiniteSet(strong(g))
          /\ group_match_complete(g) => strong(g) = AllStrong(g)
      BY ConceptsFinite
    <2>2. IsFiniteSet(Here) /\ IsFiniteSet(PairsOf(strong(g))) /\ k = Cardinality(PairsOf(strong(g)))
      BY <2>1, PairsCounted
    <2>3. PairsOf(strong(g)) \subseteq Here
      BY <2>1 DEF PairsOf
    <2> HIDE DEF k, Here
    <2>4. k \in Nat /\ Cardinality(Here) \in Nat /\ k <= Cardinality(Here)
      BY <2>2, <2>3, FS_Subset, FS_CardinalityType
    <2>5. group_match_complete(g) => k = Cardinality(Here)
      BY <2>1, <2>2 DEF Here
    <2> QED BY <2>2, <2>3, <2>4, <2>5
  <1>11. CountedTrue'
    <2>1. MatchedPairs' = MatchedPairs \cup ({g} \X Here)
      BY <1>4, <1>6 DEF MatchedPairs
    <2>2. MatchedPairs \cap ({g} \X Here) = {}
      BY <1>6 DEF MatchedPairs
    <2> HIDE DEF Here, k
    <2>3. IsFiniteSet({g} \X Here) /\ Cardinality({g} \X Here) = Cardinality(Here)
      <3>1. IsFiniteSet({g}) /\ Cardinality({g}) = 1
        BY FS_Singleton
      <3>2. IsFiniteSet({g} \X Here) /\ Cardinality({g} \X Here) = 1 * Cardinality(Here)
        BY <1>10, <3>1, FS_Product
      <3> QED BY <1>10, <3>2
    <2>4. Cardinality(MatchedPairs') = Cardinality(MatchedPairs) + Cardinality(Here)
      <3>1. Cardinality(MatchedPairs \cup ({g} \X Here))
              = Cardinality(MatchedPairs) + Cardinality({g} \X Here) - Cardinality(MatchedPairs \cap ({g} \X Here))
        BY <2>3, MatchedFinite, FS_Union
      <3>2. Cardinality(MatchedPairs \cap ({g} \X Here)) = 0
        BY <2>2, FS_EmptySet
      <3> QED BY <2>1, <2>3, <3>1, <3>2, <1>10, MatchedFinite
    <2>5. /\ boundary_total \in Nat /\ boundary_total <= Cardinality(MatchedPairs)
          /\ ~partial_group_matches => boundary_total = Cardinality(MatchedPairs)
      BY DEF StructureInvariant, ShownTrue, CountedTrue
    <2>6. boundary_total' <= Cardinality(MatchedPairs')
      BY <1>1, <1>10, <2>4, <2>5, MatchedFinite
    <2>7. ~partial_group_matches' => boundary_total' = Cardinality(MatchedPairs')
      BY <1>1, <1>10, <2>4, <2>5
    <2> QED BY <2>6, <2>7 DEF CountedTrue
  <1>12. ShownTrue'
    <2> DEFINE New == {[group |-> g, concepts |-> p] : p \in shown}
    <2>0. /\ IsFiniteSet(boundary) /\ boundary_total \in Nat /\ boundary' = boundary \cup New
          /\ Cardinality(boundary) = Min({FINDINGS_CAP, boundary_total})
          /\ \A b \in boundary : b.group \in Matched /\ b.concepts \in PairsOf(AllStrong(b.group))
      BY <1>2 DEF StructureInvariant, ShownTrue
    <2>1. \A b \in New : b.group = g /\ b.concepts \in Here
      BY <1>2, <1>10
    <2>2. \A b \in boundary' : b.group \in Matched' /\ b.concepts \in PairsOf(AllStrong(b.group))'
      <3> HIDE DEF New
      <3>1. \A b \in boundary' : b.group \in Matched' /\ b.concepts \in PairsOf(AllStrong(b.group))
        BY <2>0, <2>1, <1>6
      <3> QED BY <3>1, <1>4 DEF PairsOf
    <2>3. IsFiniteSet(shown) /\ Cardinality(shown) \in Nat
      BY <1>2, <1>10, FS_Subset, FS_CardinalityType
    <2>4. IsFiniteSet(New) /\ Cardinality(New) = Cardinality(shown)
      <3> DEFINE name == [p \in shown |-> [group |-> g, concepts |-> p]]
      <3>1. name \in [shown -> New]
        OBVIOUS
      <3>2. \A p, q \in shown : name[p] = name[q] => p = q
        <4> SUFFICES ASSUME NEW p \in shown, NEW q \in shown, name[p] = name[q] PROVE p = q
          OBVIOUS
        <4>1. name[p].concepts = p /\ name[q].concepts = q
          OBVIOUS
        <4> QED BY <4>1
      <3>3. \A b \in New : \E p \in shown : name[p] = b
        OBVIOUS
      <3> HIDE DEF name, New
      <3>4. ExistsBijection(shown, New)
        BY <3>1, <3>2, <3>3 DEF ExistsBijection, Bijection, Injection, Surjection, IsInjective
      <3> QED BY <3>4, <2>3, FS_Bijection
    <2>5. boundary \cap New = {}
      BY <2>0, <2>1, <1>6
    <2> HIDE DEF New, k, Here
    <2>6. Cardinality(boundary') = Cardinality(boundary) + Cardinality(shown)
      <3>1. Cardinality(boundary \cup New) = Cardinality(boundary) + Cardinality(New) - Cardinality(boundary \cap New)
        BY <2>0, <2>4, FS_Union
      <3>2. Cardinality(boundary \cap New) = 0 /\ Cardinality(boundary) \in Nat
        BY <2>0, <2>5, FS_EmptySet, FS_CardinalityType
      <3> QED BY <3>1, <3>2, <2>0, <2>3, <2>4
    <2>7. IsFiniteSet(boundary')
      BY <2>0, <2>4, FS_Union
    <2>8. Cardinality(boundary') = Min({FINDINGS_CAP, boundary_total + k})
      <3> DEFINE n == Cardinality(boundary)
                 room == FINDINGS_CAP - n
      <3>1. FINDINGS_CAP \in Nat /\ n \in Nat /\ k \in Nat /\ boundary_total \in Nat
        BY <2>0, <1>10, FS_CardinalityType, StructuralAssumption
      <3>2. n = IF FINDINGS_CAP <= boundary_total THEN FINDINGS_CAP ELSE boundary_total
        BY <2>0, <3>1, LesserOf
      <3>3. slots = IF 0 >= room THEN 0 ELSE room
        BY <3>1, GreaterOf, room \in Int DEF detail_slots
      <3>4. slots \in Int
        BY <3>1, <3>3
      <3>5. Cardinality(shown) = IF slots <= k THEN slots ELSE k
        <4> HIDE DEF slots
        <4> QED BY <1>2, <3>1, <3>4, LesserOf
      <3>6. Min({FINDINGS_CAP, boundary_total + k})
              = IF FINDINGS_CAP <= boundary_total + k THEN FINDINGS_CAP ELSE boundary_total + k
        BY <3>1, LesserOf, boundary_total + k \in Int
      <3>7. Cardinality(boundary') = n + Cardinality(shown)
        BY <2>6
      <3> DEFINE t == Cardinality(shown)
                 m == Min({FINDINGS_CAP, boundary_total + k})
      <3> HIDE DEF n, slots, t, m
      <3>8. n + t = m
        BY <3>1, <3>2, <3>3, <3>4, <3>5, <3>6 DEF t, m
      <3> QED BY <3>7, <3>8 DEF t, m
    <2>9. boundary_total' \in Nat
      BY <1>1, <1>10, <2>0
    <2> QED BY <1>1, <2>2, <2>7, <2>8, <2>9 DEF ShownTrue
  <1>13. OverloadedTrue'
    <2> DEFINE over == is_overloaded_region(Cardinality(strong(g)))
               New == [group |-> g, concepts |-> strong(g), concept_count_exact |-> group_match_complete(g)]
               Big(S) == {h \in S : is_overloaded_region(Cardinality(AllStrong(h)))}
    <2>1. strong(g) \subseteq AllStrong(g) /\ (group_match_complete(g) => strong(g) = AllStrong(g))
      BY ConceptsFinite
    <2>2. New.group = g /\ New.concepts = strong(g)
      OBVIOUS
    <2>3. overloaded' = IF over THEN overloaded \cup {New} ELSE overloaded
      BY <1>3
    <2>4. \A o \in overloaded : o.group \in Matched /\ o.concepts \subseteq AllStrong(o.group)
      BY DEF StructureInvariant, OverloadedTrue
    <2> HIDE DEF New
    <2>5. \A o \in overloaded' : o.group \in Matched' /\ o.concepts \subseteq AllStrong(o.group)'
      <3>1. \A o \in overloaded' : o.group \in Matched' /\ o.concepts \subseteq AllStrong(o.group)
        BY <2>1, <2>2, <2>3, <2>4, <1>6
      <3> QED BY <3>1, <1>4
    <2>6. ASSUME ~partial_group_matches'
          PROVE  {<<o.group, o.concepts>> : o \in overloaded'} = {<<h, AllStrong(h)>> : h \in Big(Matched')}
      <3>1. ~partial_group_matches /\ strong(g) = AllStrong(g)
        BY <1>1, <2>1, <2>6
      <3>2. {<<o.group, o.concepts>> : o \in overloaded} = {<<h, AllStrong(h)>> : h \in Big(Matched)}
        BY <3>1 DEF StructureInvariant, OverloadedTrue
      <3>3. CASE over
        <4>1. {<<o.group, o.concepts>> : o \in overloaded'}
                = {<<o.group, o.concepts>> : o \in overloaded} \cup {<<g, AllStrong(g)>>}
          BY <2>2, <2>3, <3>1, <3>3
        <4>2. Big(Matched') = Big(Matched) \cup {g}
          BY <1>6, <3>1, <3>3
        <4> HIDE DEF Big
        <4> QED BY <3>2, <4>1, <4>2
      <3>4. CASE ~over
        <4>1. Big(Matched') = Big(Matched)
          BY <1>6, <3>1, <3>4
        <4> HIDE DEF Big
        <4> QED BY <2>3, <3>2, <3>4, <4>1
      <3> QED BY <3>3, <3>4
    <2>7. {<<h, AllStrong(h)'>> : h \in {x \in Matched' : is_overloaded_region(Cardinality(AllStrong(x)'))}}
            = {<<h, AllStrong(h)>> : h \in Big(Matched')}
      BY <1>4
    <2>8. ~partial_group_matches' =>
            {<<o.group, o.concepts>> : o \in overloaded'} =
              {<<h, AllStrong(h)'>> : h \in {x \in Matched' : is_overloaded_region(Cardinality(AllStrong(x)'))}}
      BY <2>6, <2>7
    <2> QED BY <2>5, <2>8 DEF OverloadedTrue, is_overloaded_region
  <1> QED BY <1>7, <1>8, <1>9, <1>11, <1>12, <1>13 DEF StructureInvariant
LEMMA StructureKeeps ==
  ASSUME StructureInvariant, [StructureNext]_structureVars PROVE StructureInvariant'
  <1>1. ASSUME NEW g \in GroupIds, MatchGroup(g) PROVE StructureInvariant'
    BY <1>1, MatchKeeps
  <1> QED
    BY <1>1, RefuseKeeps, LoadKeeps, CommunityKeeps, EndGroupsKeeps, EndMatchingKeeps, ReportKeeps,
       StructureStutters
    DEF StructureNext

(***************************************************************************)
(* What the groups are of the graph.                                       *)
(***************************************************************************)
\* Once every entry has been met a group is the community of its id, less what
\* Glossabet wrote itself, and the words it is matched by are its words: all of
\* them when its evidence is complete.
LEMMA GroupsTrue ==
  ASSUME StructureTyped, Assembled, next > Len(graph.communities)
  PROVE  /\ group_items = TrueGroups
         /\ \A g \in TrueGroups : /\ combined(g) \subseteq TrueTokens(g)
                                  /\ group_evidence_complete(g) => combined(g) = TrueTokens(g)
  <1>1. /\ graph \in Graphs /\ next \in Nat \ {0}
        /\ groups \in [GroupIds -> {None} \cup GroupRecords]
    BY DEF StructureTyped
  <1>2. /\ Len(graph.communities) \in Nat /\ DOMAIN graph.communities = 1..Len(graph.communities)
        /\ \A i \in 1..Len(graph.communities) : graph.communities[i] \in Communities
        /\ graph.nodes \in [NodeIds -> NodeRecords \cup {None}]
    BY <1>1, GraphTypes
  <1>3. ASSUME NEW g PROVE Met(g) = Entries(g)
    <2>1. \A i \in Entries(g) : i < next
      BY <1>1, <1>2 DEF Entries
    <2> QED BY <2>1 DEF Met
  <1>4. ASSUME NEW g, NEW i \in Entries(g)
        PROVE  /\ i \in Nat /\ graph.communities[i].label \in Labels
               /\ graph.communities[i].members \subseteq NodeIds
    <2>1. i \in 1..Len(graph.communities) /\ graph.communities[i] # None
      BY <1>2 DEF Entries
    <2>2. graph.communities[i] \in Communities
      BY <1>2, <2>1
    <2> QED BY <2>1, <2>2 DEF Communities
  <1>5. ASSUME NEW g \in GroupIds, Entries(g) # {}
        PROVE  groups[g] # None /\ Visible(groups[g].members) = TrueMembers(g)
    <2>1. /\ groups[g] # None
          /\ groups[g].members = {n \in UNION {graph.communities[i].members : i \in Entries(g)} : graph.nodes[n] # None}
      BY <1>3, <1>5 DEF Assembled
    <2>2. \A n \in UNION {graph.communities[i].members : i \in Entries(g)} :
            graph.nodes[n] # None => (graph.nodes[n].prov # "glossary" <=> graph.nodes[n].prov \in {"code", "doc"})
      <3> SUFFICES ASSUME NEW i \in Entries(g), NEW n \in graph.communities[i].members, graph.nodes[n] # None
                   PROVE  graph.nodes[n].prov # "glossary" <=> graph.nodes[n].prov \in {"code", "doc"}
        OBVIOUS
      <3>1. n \in NodeIds
        BY <1>4
      <3>2. graph.nodes[n] \in NodeRecords
        BY <1>2, <3>1
      <3>3. graph.nodes[n].prov \in {"code", "doc", "glossary"}
        BY <3>2 DEF NodeRecords
      <3> QED BY <3>3
    <2> QED BY <2>1, <2>2 DEF Visible, TrueMembers
  <1>6. ASSUME NEW g \in GroupIds, Entries(g) = {}
        PROVE  groups[g] = None /\ TrueMembers(g) = {}
    BY <1>3, <1>6 DEF Assembled, TrueMembers
  <1>7. group_items = TrueGroups
    BY <1>5, <1>6 DEF group_items, TrueGroups
  <1>8. ASSUME NEW g \in TrueGroups
        PROVE  /\ combined(g) \subseteq TrueTokens(g)
               /\ group_evidence_complete(g) => combined(g) = TrueTokens(g)
    <2>1. g \in GroupIds /\ Entries(g) # {}
      BY <1>6 DEF TrueGroups
    <2>2. groups[g] # None /\ Visible(groups[g].members) = TrueMembers(g)
      BY <1>5, <2>1
    <2>3. PICK i \in Entries(g) : /\ \A j \in Entries(g) : i <= j
                                  /\ groups[g].label = graph.communities[i].label
      BY <1>3, <2>1 DEF Assembled
    <2>4. (CHOOSE x \in Entries(g) : \A j \in Entries(g) : x <= j) = i
      <3>1. \A x \in Entries(g) : (\A j \in Entries(g) : x <= j) => x = i
        <4> SUFFICES ASSUME NEW x \in Entries(g), \A j \in Entries(g) : x <= j PROVE x = i
          OBVIOUS
        <4>1. x <= i /\ i <= x /\ x \in Nat /\ i \in Nat
          BY <1>4, <2>3
        <4> QED BY <4>1
      <3> QED BY <2>3, <3>1
    <2> DEFINE label == groups[g].label
               words == UNION {Whole(graph.nodes[n].label) : n \in TrueMembers(g)}
    <2>5. TrueTokens(g) = Whole(label) \cup words
      BY <2>3, <2>4 DEF TrueTokens
    <2>6. label \in AllLabels
      BY <1>4, <2>3, StructuralAssumption
    <2>7. ASSUME NEW n \in TrueMembers(g) PROVE graph.nodes[n].label \in AllLabels
      <3>1. n \in NodeIds
        BY <1>4 DEF TrueMembers
      <3>2. graph.nodes[n] # None
        BY DEF TrueMembers
      <3>3. graph.nodes[n] \in NodeRecords
        BY <1>2, <3>1, <3>2
      <3>4. graph.nodes[n].label \in Labels
        BY <3>3 DEF NodeRecords
      <3> QED BY <3>4, StructuralAssumption
    <2>8. all_member_tokens(g) = UNION {graph.nodes[n].label.known : n \in TrueMembers(g)}
      BY <2>2 DEF all_member_tokens
    <2>9. all_member_tokens(g) \subseteq words /\ member_tokens(g) \subseteq all_member_tokens(g)
      BY <2>8 DEF Whole, member_tokens
    <2>10. combined(g) \subseteq TrueTokens(g)
      BY <2>5, <2>9 DEF combined, label_tokens, Whole
    <2>11. ASSUME group_evidence_complete(g) PROVE combined(g) = TrueTokens(g)
      <3>1. /\ ~label.truncated
            /\ \A n \in TrueMembers(g) : ~graph.nodes[n].label.truncated
            /\ Cardinality(all_member_tokens(g)) <= MEMBER_TOKEN_CAP
        BY <2>2, <2>11 DEF group_evidence_complete, member_tokens_complete
      <3>2. Whole(label) = label_tokens(g)
        <4>1. label.lost = {}
          BY <2>6, <3>1 DEF AllLabels
        <4> QED BY <4>1 DEF Whole, label_tokens
      <3>3. words = all_member_tokens(g)
        <4>1. ASSUME NEW n \in TrueMembers(g) PROVE Whole(graph.nodes[n].label) = graph.nodes[n].label.known
          <5>1. graph.nodes[n].label.lost = {}
            BY <2>7, <3>1 DEF AllLabels
          <5> QED BY <5>1 DEF Whole
        <4> QED BY <2>8, <4>1
      <3>4. member_tokens(g) = all_member_tokens(g)
        <4> DEFINE all == all_member_tokens(g)
        <4>1. all \subseteq LabelTokens
          BY <2>7, <2>8 DEF AllLabels
        <4>2. IsFiniteSet(all) /\ all \subseteq Nat /\ Cardinality(all) \in Nat /\ MEMBER_TOKEN_CAP \in Nat
          BY <4>1, StructuralAssumption, FS_Subset, FS_CardinalityType
        <4>3. ASSUME NEW t \in all PROVE Cardinality({u \in all : u < t}) < MEMBER_TOKEN_CAP
          <5> DEFINE below == {u \in all : u < t}
          <5>1. below \subseteq all /\ t \notin below
            BY <4>2
          <5> HIDE DEF below, all
          <5>2. IsFiniteSet(below) /\ Cardinality(below) <= Cardinality(all) /\ Cardinality(below) # Cardinality(all)
            BY <4>2, <4>3, <5>1, FS_Subset
          <5>3. Cardinality(below) \in Nat
            BY <5>2, FS_CardinalityType
          <5>4. Cardinality(all) <= MEMBER_TOKEN_CAP
            BY <3>1 DEF all
          <5>5. Cardinality(below) < MEMBER_TOKEN_CAP
            BY <4>2, <5>2, <5>3, <5>4
          <5> QED BY <5>5 DEF below
        <4> QED BY <4>3 DEF member_tokens
      <3> QED BY <2>5, <3>2, <3>3, <3>4 DEF combined
    <2> QED BY <2>10, <2>11
  <1> QED BY <1>7, <1>8

\* What strongly matches does so in the graph, and all that does is found when
\* the evidence is complete and no concept was left out.
LEMMA StrongTrue ==
  ASSUME StructureTyped, Assembled, next > Len(graph.communities), NEW g \in TrueGroups
  PROVE  /\ AllStrong(g) \subseteq TrulyStrong(g)
         /\ group_evidence_complete(g) /\ scoped_canonical = {} => AllStrong(g) = TrulyStrong(g)
         /\ scoped_canonical = {} /\ group_evidence_complete(g) =>
              (candidate_ids(g) = {} <=> \A c \in Concepts : ~Named(g, c))
  <1>1. /\ combined(g) \subseteq TrueTokens(g)
        /\ group_evidence_complete(g) => combined(g) = TrueTokens(g)
    BY GroupsTrue
  <1>2. label_tokens(g) \subseteq combined(g)
    BY DEF combined
  <1>3. ASSUME NEW c PROVE strength(g, c) >= MATCH_STRONG <=> canonical[c].term # {} /\ canonical[c].term \subseteq combined(g)
    <2>1. CASE canonical[c].term # {} /\ canonical[c].term \subseteq label_tokens(g)
      BY <2>1, <1>2 DEF strength, structural_match_strength, MATCH_STRONG, MATCH_LABEL
    <2>2. CASE ~(canonical[c].term # {} /\ canonical[c].term \subseteq label_tokens(g))
               /\ canonical[c].term # {} /\ canonical[c].term \subseteq combined(g)
      BY <2>2 DEF strength, structural_match_strength, MATCH_STRONG, MATCH_LABEL
    <2>3. CASE ~(canonical[c].term # {} /\ canonical[c].term \subseteq combined(g))
      <3>1. strength(g, c) \in {MATCH_WEAK, MATCH_NONE}
        BY <2>3, <1>2 DEF strength, structural_match_strength
      <3> QED BY <2>3, <3>1 DEF MATCH_STRONG, MATCH_WEAK, MATCH_NONE
    <2> QED BY <2>1, <2>2, <2>3
  <1>4. candidate_ids(g) \subseteq Concepts
    BY DEF candidate_ids, global_canonical
  <1>5. AllStrong(g) \subseteq TrulyStrong(g)
    BY <1>1, <1>3, <1>4 DEF AllStrong, TrulyStrong
  <1>6. ASSUME group_evidence_complete(g), scoped_canonical = {}
        PROVE  /\ AllStrong(g) = TrulyStrong(g)
               /\ candidate_ids(g) = {} <=> \A c \in Concepts : ~Named(g, c)
    <2>1. global_canonical = Concepts
      BY <1>6 DEF scoped_canonical, global_canonical
    <2>2. combined(g) = TrueTokens(g)
      BY <1>1, <1>6
    <2>3. candidate_ids(g) = {c \in Concepts : Named(g, c)}
      BY <2>1, <2>2 DEF candidate_ids, Named
    <2>4. \A c \in TrulyStrong(g) : c \in candidate_ids(g)
      BY <2>3 DEF TrulyStrong, Named
    <2>5. TrulyStrong(g) \subseteq AllStrong(g)
      BY <1>3, <2>2, <2>4 DEF AllStrong, TrulyStrong
    <2> QED BY <1>5, <2>3, <2>5
  <1> QED BY <1>5, <1>6
LEMMA TotalsAreTrue == StructureInvariant => TotalsTrue
  <1> SUFFICES ASSUME StructureInvariant PROVE TotalsTrue
    OBVIOUS
  <1>1. /\ StructureTyped /\ Assembled /\ MetInOrder
        /\ NamesTrue /\ ShownTrue /\ CountedTrue /\ OverloadedTrue
    BY DEF StructureInvariant
  <1>2. Matched # {} => next > Len(graph.communities) /\ Matched \subseteq TrueGroups
    <2> SUFFICES ASSUME Matched # {} PROVE next > Len(graph.communities) /\ Matched \subseteq TrueGroups
      OBVIOUS
    <2>1. Matched \subseteq group_items /\ usable
      BY RetainedIsItem DEF Matched, usable
    <2>2. stage \in {"match", "done", "reported"}
      BY <1>1 DEF Matched, StructureTyped
    <2>3. next > Len(graph.communities)
      BY <1>1, <2>1, <2>2 DEF MetInOrder
    <2> QED BY <1>1, <2>1, <2>3, GroupsTrue
  <1>3. \A g \in Matched : AllStrong(g) \subseteq TrulyStrong(g)
    BY <1>1, <1>2, StrongTrue
  <1>4. stage = "reported" => \A g \in unnamed : g \in TrueGroups /\ \A c \in Concepts : ~Named(g, c)
    <2> SUFFICES ASSUME stage = "reported", NEW g \in unnamed
                 PROVE  g \in TrueGroups /\ \A c \in Concepts : ~Named(g, c)
      OBVIOUS
    <2>1. scoped_canonical = {} /\ g \in Matched /\ Nameless(g)
      BY <1>1 DEF NamesTrue
    <2> QED BY <1>1, <1>2, <2>1, StrongTrue DEF Nameless
  <1>5. \A b \in boundary : {b.concepts[1], b.concepts[2]} \subseteq TrulyStrong(b.group)
    <2> SUFFICES ASSUME NEW b \in boundary PROVE {b.concepts[1], b.concepts[2]} \subseteq TrulyStrong(b.group)
      OBVIOUS
    <2>1. b.group \in Matched /\ b.concepts \in AllStrong(b.group) \X AllStrong(b.group)
      BY <1>1 DEF ShownTrue, PairsOf
    <2>2. b.concepts[1] \in AllStrong(b.group) /\ b.concepts[2] \in AllStrong(b.group)
      BY <2>1, PairIs
    <2> QED BY <1>3, <2>1, <2>2
  <1>6. \A o \in overloaded : o.concepts \subseteq TrulyStrong(o.group)
    BY <1>1, <1>3 DEF OverloadedTrue
  <1>7. IsFiniteSet(TruePairs) /\ Cardinality(TruePairs) \in Nat
    <2>1. TruePairs \subseteq GroupIds \X (Concepts \X Concepts)
      BY DEF TruePairs, TrueGroups, PairsOf, TrulyStrong
    <2>2. IsFiniteSet(GroupIds) /\ IsFiniteSet(Concepts)
      BY StructuralAssumption
    <2>3. IsFiniteSet(Concepts \X Concepts)
      BY <2>2, FS_Product
    <2>4. IsFiniteSet(GroupIds \X (Concepts \X Concepts))
      BY <2>2, <2>3, FS_Product
    <2> QED BY <2>1, <2>4, FS_Subset, FS_CardinalityType
  <1>8. boundary_total <= Cardinality(TruePairs)
    <2>1. MatchedPairs \subseteq TruePairs
      BY <1>2, <1>3 DEF MatchedPairs, TruePairs, PairsOf
    <2>2. Cardinality(MatchedPairs) <= Cardinality(TruePairs)
      BY <1>7, <2>1, FS_Subset
    <2>3. boundary_total \in Nat /\ boundary_total <= Cardinality(MatchedPairs)
      BY <1>1 DEF ShownTrue, CountedTrue
    <2> QED BY <1>7, <2>2, <2>3, MatchedFinite
  <1>9. ASSUME stage = "reported", usable, total_items_exact
        PROVE  /\ unnamed = {g \in TrueGroups : \A c \in Concepts : ~Named(g, c)}
               /\ boundary_total = Cardinality(TruePairs)
               /\ Cardinality(boundary) = Min({FINDINGS_CAP, boundary_total})
               /\ {<<o.group, o.concepts>> : o \in overloaded} =
                    {<<g, TrulyStrong(g)>> :
                       g \in {h \in TrueGroups : is_overloaded_region(Cardinality(TrulyStrong(h)))}}
    <2>1. next > Len(graph.communities) /\ pending = {}
      BY <1>1, <1>9 DEF MetInOrder
    <2>2. group_items = TrueGroups
      BY <1>1, <2>1, GroupsTrue
    <2>3. retained_groups = group_items
      <3>1. IsFiniteSet(group_items) /\ retained_groups \subseteq group_items
        BY RetainedIsItem, StructuralAssumption, FS_Subset
      <3>2. /\ Cardinality(group_items) \in Nat /\ Cardinality(retained_groups) \in Nat
            /\ Cardinality(group_items) - Cardinality(retained_groups) = 0
        BY <1>9, <3>1, FS_Subset, FS_CardinalityType DEF total_items_exact, groups_dropped
      <3>3. Cardinality(group_items) = Cardinality(retained_groups)
        BY <3>2
      <3> QED BY <3>1, <3>3, FS_Subset
    <2>4. Matched = TrueGroups
      BY <1>9, <2>1, <2>2, <2>3 DEF Matched
    <2>5. /\ scoped_canonical = {} /\ ~partial_group_matches
          /\ \A g \in TrueGroups : group_evidence_complete(g)
      BY <1>9, <2>2, <2>3 DEF total_items_exact
    <2>6. \A g \in TrueGroups : /\ AllStrong(g) = TrulyStrong(g)
                                /\ Nameless(g) <=> \A c \in Concepts : ~Named(g, c)
      BY <1>1, <2>1, <2>5, StrongTrue DEF Nameless
    <2>7. unnamed = {g \in TrueGroups : \A c \in Concepts : ~Named(g, c)}
      <3>1. unnamed = {g \in Matched : Nameless(g)}
        BY <1>1, <2>5 DEF NamesTrue
      <3> QED BY <2>4, <2>6, <3>1
    <2>8. boundary_total = Cardinality(TruePairs)
      <3>1. MatchedPairs = TruePairs
        BY <2>4, <2>6 DEF MatchedPairs, TruePairs
      <3> QED BY <1>1, <2>5, <3>1 DEF CountedTrue
    <2>9. {<<o.group, o.concepts>> : o \in overloaded} =
            {<<g, TrulyStrong(g)>> :
               g \in {h \in TrueGroups : is_overloaded_region(Cardinality(TrulyStrong(h)))}}
      <3>1. {<<o.group, o.concepts>> : o \in overloaded} =
              {<<g, AllStrong(g)>> : g \in {h \in Matched : is_overloaded_region(Cardinality(AllStrong(h)))}}
        BY <1>1, <2>5 DEF OverloadedTrue
      <3> QED BY <2>4, <2>6, <3>1
    <2> QED BY <1>1, <2>7, <2>8, <2>9 DEF ShownTrue
  <1> QED BY <1>4, <1>5, <1>6, <1>8, <1>9 DEF TotalsTrue

\* A group reported without a concept has none, every finding is true of the
\* whole graph, and totals called exact are (build_structural_groups,
\* _structure_findings, build_structural_validation), for every graph and
\* glossary, whatever the caps, the budget and the order of the groups.
THEOREM TotalsHold == StructureSpec => []TotalsTrue
  <1>1. StructureInvariant => TotalsTrue
    BY TotalsAreTrue
  <1>2. StructureInvariant /\ [StructureNext]_structureVars => StructureInvariant'
    BY StructureKeeps
  <1> QED BY StructureStarts, <1>1, <1>2, PTL DEF StructureSpec
(***************************************************************************)
(* Overloaded terms: any repository, glossary, caps and thresholds.        *)
(***************************************************************************)
Chosen == FirstOf(eligible_tokens, pair_top_n, MoreUsed)

\* The contexts kept of a token, and those that were there.
KeptContexts(t) == ContextsIn(module_neighbor_sets[t], None)
ReadContexts(t, within) == ContextsIn(usage.read[t].contexts, within)

Measurable(t) ==
  /\ \A m \in DOMAIN KeptContexts(t) : <<t, m>> \notin module_neighbor_truncated
  /\ Cardinality(DOMAIN KeptContexts(t)) <= overload_module_analysis_cap

ProfileOf(t) ==
  [term |-> t, dispersion |-> context_dispersion(KeptContexts(t)), contexts |-> KeptContexts(t)]

Measured == Chosen \ top_tokens
WideOnes == {t \in Measured : wide_enough(KeptContexts(t))}

Candidates == {Candidate(p) : p \in {q \in profiles : is_divergent(q.dispersion)}}

\* A context is cut, never emptied, and what was cut is known.
FoldedTrue ==
  turn # "fold" =>
    \A t \in TermNames, m \in ModulePaths :
      /\ module_neighbor_sets[t][m] = {} <=> usage.read[t].contexts[m] = {}
      /\ <<t, m>> \notin module_neighbor_truncated =>
           module_neighbor_sets[t][m] = usage.read[t].contexts[m]

MeasuredTrue ==
  /\ turn \in {"fold", "select"} => profiles = {} /\ unmeasured = {}
  /\ turn \in {"measure", "check", "reported"} =>
       /\ top_tokens \subseteq Chosen
       /\ profiles = {ProfileOf(t) : t \in {x \in WideOnes : Measurable(x)}}
       /\ unmeasured = {t \in WideOnes : ~Measurable(t)}

NominatedTrue ==
  turn \in {"check", "reported"} =>
    /\ top_tokens = {}
    /\ overload_candidates.items \subseteq Candidates
    /\ overload_candidates.complete =>
         tokens_complete /\ unmeasured = {} /\ overload_candidates.items = Candidates

ReportedTrue ==
  turn = "reported" => overloads = _canonical_overloaded /\ omitted = _scoped_overload_reasons

OverloadInvariant ==
  /\ usage \in Repositories /\ concept_set \in CanonicalSets
  /\ turn \in {"fold", "select", "measure", "check", "reported"}
  /\ FoldedTrue /\ MeasuredTrue /\ NominatedTrue /\ ReportedTrue

LEMMA OverloadStarts == OverloadInit => OverloadInvariant
  BY DEF OverloadInit, OverloadStart, OverloadInvariant, FoldedTrue, MeasuredTrue, NominatedTrue, ReportedTrue

LEMMA FoldUsageKeeps ==
  ASSUME OverloadInvariant, FoldUsage PROVE OverloadInvariant'
  <1>1. /\ turn = "fold" /\ turn' = "select"
        /\ UNCHANGED <<usage, concept_set, profiles, unmeasured>>
    BY DEF FoldUsage
  <1>2. FoldedTrue'
    <2> DEFINE of(tm) == usage.read[tm[1]].contexts[tm[2]]
               over == {tm \in TermNames \X ModulePaths : Cardinality(of(tm)) > MODULE_CONTEXT_ANALYSIS_CAP}
    <2>1. PICK cut \in [over -> kSubset(MODULE_CONTEXT_ANALYSIS_CAP, ContextNames)] :
            /\ \A tm \in over : cut[tm] \subseteq of(tm)
            /\ module_neighbor_sets' =
                 [t \in TermNames |-> [m \in ModulePaths |->
                    IF <<t, m>> \in over THEN cut[<<t, m>>] ELSE of(<<t, m>>)]]
      BY DEF FoldUsage
    <2>2. module_neighbor_truncated' = over
      BY DEF FoldUsage
    <2>3. \A tm \in over : cut[tm] # {}
      <3> SUFFICES ASSUME NEW tm \in over, cut[tm] = {} PROVE FALSE
        OBVIOUS
      <3>1. cut[tm] \in kSubset(MODULE_CONTEXT_ANALYSIS_CAP, ContextNames)
        BY <2>1
      <3>2. Cardinality(cut[tm]) = MODULE_CONTEXT_ANALYSIS_CAP
        BY <3>1 DEF kSubset
      <3>3. Cardinality({}) = 0
        BY FS_EmptySet
      <3>4. MODULE_CONTEXT_ANALYSIS_CAP # 0
        BY OverloadAssumption
      <3> QED BY <3>2, <3>3, <3>4
    <2>4. ASSUME NEW t \in TermNames, NEW m \in ModulePaths
          PROVE  /\ module_neighbor_sets'[t][m] = IF <<t, m>> \in over THEN cut[<<t, m>>] ELSE of(<<t, m>>)
                 /\ of(<<t, m>>) = usage.read[t].contexts[m]
      BY <2>1
    <2> HIDE DEF of, over
    <2>5. ASSUME NEW t \in TermNames, NEW m \in ModulePaths
          PROVE  /\ module_neighbor_sets'[t][m] = {} <=> usage.read[t].contexts[m] = {}
                 /\ <<t, m>> \notin over => module_neighbor_sets'[t][m] = usage.read[t].contexts[m]
      <3>1. CASE <<t, m>> \in over
        BY <3>1, <2>1, <2>3, <2>4
      <3>2. CASE <<t, m>> \notin over
        BY <3>2, <2>4
      <3> QED BY <3>1, <3>2
    <2> QED BY <1>1, <2>2, <2>5 DEF FoldedTrue
  <1> QED BY <1>1, <1>2 DEF OverloadInvariant, MeasuredTrue, NominatedTrue, ReportedTrue

LEMMA TokensUnchanged ==
  ASSUME UNCHANGED <<usage, module_neighbor_sets, module_neighbor_truncated>>
  PROVE  /\ Chosen' = Chosen /\ eligible_tokens' = eligible_tokens
         /\ tokens_complete' <=> tokens_complete
         /\ \A t : /\ KeptContexts(t)' = KeptContexts(t) /\ ProfileOf(t)' = ProfileOf(t)
                   /\ Measurable(t)' <=> Measurable(t)
                   /\ wide_enough(KeptContexts(t))' <=> wide_enough(KeptContexts(t))
         /\ FoldedTrue /\ (turn # "fold" \/ turn' = turn) => FoldedTrue'
  <1>1. \A t : token_count(t)' = token_count(t)
    BY DEF token_count
  <1>2. (\A t, s : MoreUsed(t, s)' <=> MoreUsed(t, s)) /\ eligible_tokens' = eligible_tokens
    BY <1>1 DEF MoreUsed, eligible_tokens
  <1>3. Chosen' = Chosen
    BY <1>2 DEF Chosen, FirstOf
  <1>4. tokens_complete' <=> tokens_complete
    BY <1>1, <1>2 DEF tokens_complete
  <1>5. \A t : KeptContexts(t)' = KeptContexts(t)
    BY DEF KeptContexts, ContextsIn
  <1>6. \A t : Measurable(t)' <=> Measurable(t)
    BY <1>5 DEF Measurable
  <1>7. \A t : wide_enough(KeptContexts(t))' <=> wide_enough(KeptContexts(t))
    BY <1>5 DEF wide_enough
  <1>8. \A t : ProfileOf(t)' = ProfileOf(t)
    BY <1>5 DEF ProfileOf
  <1>9. FoldedTrue /\ (turn # "fold" \/ turn' = turn) => FoldedTrue'
    BY DEF FoldedTrue
  <1> QED BY <1>2, <1>3, <1>4, <1>5, <1>6, <1>7, <1>8, <1>9

LEMMA SelectKeeps ==
  ASSUME OverloadInvariant, SelectTokens PROVE OverloadInvariant'
  <1>1. /\ turn = "select" /\ turn' = "measure" /\ top_tokens' = Chosen /\ profiles = {} /\ unmeasured = {}
        /\ UNCHANGED <<usage, concept_set, module_neighbor_sets, module_neighbor_truncated, profiles, unmeasured>>
    BY DEF SelectTokens, Chosen, MoreUsed, OverloadInvariant, MeasuredTrue
  <1>2. /\ Chosen' = Chosen /\ FoldedTrue'
    BY <1>1, TokensUnchanged DEF OverloadInvariant
  <1>3. WideOnes' = {}
    BY <1>1, <1>2 DEF WideOnes, Measured
  <1>4. MeasuredTrue'
    BY <1>1, <1>2, <1>3 DEF MeasuredTrue
  <1> QED BY <1>1, <1>2, <1>4 DEF OverloadInvariant, NominatedTrue, ReportedTrue

LEMMA MeasureKeeps ==
  ASSUME OverloadInvariant, NEW t \in TermNames, MeasureDispersion(t) PROVE OverloadInvariant'
  <1>1. /\ turn = "measure" /\ turn' = "measure" /\ t \in top_tokens /\ top_tokens' = top_tokens \ {t}
        /\ UNCHANGED <<usage, concept_set, module_neighbor_sets, module_neighbor_truncated>>
    BY DEF MeasureDispersion
  <1>2. /\ profiles' = IF wide_enough(KeptContexts(t)) /\ Measurable(t) THEN profiles \cup {ProfileOf(t)} ELSE profiles
        /\ unmeasured' = IF wide_enough(KeptContexts(t)) /\ ~Measurable(t) THEN unmeasured \cup {t} ELSE unmeasured
    BY DEF MeasureDispersion, KeptContexts, Measurable, ProfileOf
  <1>3. /\ Chosen' = Chosen /\ FoldedTrue'
        /\ \A x : /\ ProfileOf(x)' = ProfileOf(x) /\ (Measurable(x)' <=> Measurable(x))
                  /\ wide_enough(KeptContexts(x))' <=> wide_enough(KeptContexts(x))
    BY <1>1, TokensUnchanged DEF OverloadInvariant
  <1>4. /\ top_tokens \subseteq Chosen
        /\ profiles = {ProfileOf(x) : x \in {y \in WideOnes : Measurable(y)}}
        /\ unmeasured = {x \in WideOnes : ~Measurable(x)}
    BY <1>1 DEF OverloadInvariant, MeasuredTrue
  <1>5. WideOnes' = IF wide_enough(KeptContexts(t)) THEN WideOnes \cup {t} ELSE WideOnes
    <2>1. Measured' = Measured \cup {t}
      BY <1>1, <1>3, <1>4 DEF Measured
    <2>2. WideOnes' = {x \in Measured' : wide_enough(KeptContexts(x))}
      BY <1>3 DEF WideOnes
    <2> QED BY <2>1, <2>2 DEF WideOnes
  <1>6. profiles' = {ProfileOf(x) : x \in {y \in WideOnes' : Measurable(y)}}
    <2>1. CASE wide_enough(KeptContexts(t)) /\ Measurable(t)
      <3>1. {y \in WideOnes' : Measurable(y)} = {y \in WideOnes : Measurable(y)} \cup {t}
        BY <2>1, <1>5
      <3> QED BY <2>1, <3>1, <1>2, <1>4
    <2>2. CASE ~(wide_enough(KeptContexts(t)) /\ Measurable(t))
      <3>1. {y \in WideOnes' : Measurable(y)} = {y \in WideOnes : Measurable(y)}
        BY <2>2, <1>5
      <3> QED BY <2>2, <3>1, <1>2, <1>4
    <2> QED BY <2>1, <2>2
  <1>7. unmeasured' = {x \in WideOnes' : ~Measurable(x)}
    BY <1>2, <1>4, <1>5
  <1>8. MeasuredTrue'
    <2>1. {ProfileOf(x)' : x \in {y \in WideOnes' : Measurable(y)'}} = profiles'
      BY <1>3, <1>6
    <2>2. {x \in WideOnes' : ~(Measurable(x)')} = unmeasured'
      BY <1>3, <1>7
    <2> QED BY <1>1, <1>3, <1>4, <2>1, <2>2 DEF MeasuredTrue
  <1> QED BY <1>1, <1>3, <1>8 DEF OverloadInvariant, NominatedTrue, ReportedTrue

LEMMA MeasuredSame ==
  ASSUME UNCHANGED <<usage, module_neighbor_sets, module_neighbor_truncated, top_tokens, profiles, unmeasured>>,
         turn \in {"measure", "check", "reported"}, turn' \in {"measure", "check", "reported"}
  PROVE  (FoldedTrue => FoldedTrue') /\ (MeasuredTrue => MeasuredTrue')
  <1>1. /\ Chosen' = Chosen /\ (FoldedTrue => FoldedTrue')
        /\ \A x : /\ ProfileOf(x)' = ProfileOf(x) /\ (Measurable(x)' <=> Measurable(x))
                  /\ wide_enough(KeptContexts(x))' <=> wide_enough(KeptContexts(x))
    BY TokensUnchanged
  <1>2. WideOnes' = WideOnes
    BY <1>1 DEF WideOnes, Measured
  <1>3. /\ {ProfileOf(x)' : x \in {y \in WideOnes' : Measurable(y)'}} = {ProfileOf(x) : x \in {y \in WideOnes : Measurable(y)}}
        /\ {x \in WideOnes' : ~(Measurable(x)')} = {x \in WideOnes : ~Measurable(x)}
    BY <1>1, <1>2
  <1> QED BY <1>1, <1>3 DEF MeasuredTrue

LEMMA NominateKeeps ==
  ASSUME OverloadInvariant, NominateOverloads PROVE OverloadInvariant'
  <1>1. /\ turn = "measure" /\ turn' = "check" /\ top_tokens = {} /\ top_tokens' = {}
        /\ UNCHANGED <<usage, concept_set, module_neighbor_sets, module_neighbor_truncated, profiles, unmeasured>>
    BY DEF NominateOverloads
  <1>2. PICK kept \in SUBSET Candidates :
          overload_candidates' = [items |-> kept, complete |-> tokens_complete /\ unmeasured = {} /\ kept = Candidates]
    BY DEF NominateOverloads, Candidates, FirstOf
  <1>3. Candidates' = Candidates /\ (tokens_complete' <=> tokens_complete)
    <2>1. \A p : Candidate(p)' = Candidate(p)
      BY <1>1 DEF Candidate, FirstOf
    <2> QED BY <1>1, <2>1, TokensUnchanged DEF Candidates
  <1>4. NominatedTrue'
    <2>1. overload_candidates'.items = kept
      BY <1>2
    <2>2. overload_candidates'.complete <=> tokens_complete /\ unmeasured = {} /\ kept = Candidates
      BY <1>2
    <2> QED BY <1>1, <1>3, <2>1, <2>2 DEF NominatedTrue
  <1>5. FoldedTrue' /\ MeasuredTrue'
    BY <1>1, MeasuredSame DEF OverloadInvariant
  <1> QED BY <1>1, <1>4, <1>5 DEF OverloadInvariant, ReportedTrue

LEMMA NominatedSame ==
  ASSUME UNCHANGED <<usage, module_neighbor_sets, module_neighbor_truncated, top_tokens, profiles, unmeasured,
                     overload_candidates>>,
         turn' \in {"check", "reported"} => turn \in {"check", "reported"}
  PROVE  NominatedTrue => NominatedTrue'
  <1>1. \A p : Candidate(p)' = Candidate(p)
    BY DEF Candidate, FirstOf
  <1>2. Candidates' = Candidates /\ (tokens_complete' <=> tokens_complete)
    BY <1>1, TokensUnchanged DEF Candidates
  <1> QED BY <1>2 DEF NominatedTrue

LEMMA CheckKeeps ==
  ASSUME OverloadInvariant, CheckOverloaded PROVE OverloadInvariant'
  <1>1. /\ turn = "check" /\ turn' = "reported"
        /\ UNCHANGED <<usage, concept_set, module_neighbor_sets, module_neighbor_truncated, top_tokens, profiles,
                       unmeasured, overload_candidates>>
        /\ overloads' = _canonical_overloaded /\ omitted' = _scoped_overload_reasons
    BY DEF CheckOverloaded
  <1>2. _canonical_overloaded' = _canonical_overloaded /\ _scoped_overload_reasons' = _scoped_overload_reasons
    BY <1>1 DEF _canonical_overloaded, _scoped_overload_reasons
  <1>3. ReportedTrue'
    BY <1>1, <1>2 DEF ReportedTrue
  <1>4. FoldedTrue' /\ MeasuredTrue' /\ NominatedTrue'
    BY <1>1, MeasuredSame, NominatedSame DEF OverloadInvariant
  <1> QED BY <1>1, <1>3, <1>4 DEF OverloadInvariant

LEMMA OverloadStutters ==
  ASSUME OverloadInvariant, UNCHANGED overloadVars PROVE OverloadInvariant'
  <1>1. UNCHANGED <<usage, concept_set, turn, module_neighbor_sets, module_neighbor_truncated, top_tokens,
                    profiles, unmeasured, overload_candidates, overloads, omitted>>
    BY DEF overloadVars
  <1>2. _canonical_overloaded' = _canonical_overloaded /\ _scoped_overload_reasons' = _scoped_overload_reasons
    BY <1>1 DEF _canonical_overloaded, _scoped_overload_reasons
  <1>3. ReportedTrue'
    BY <1>1, <1>2 DEF OverloadInvariant, ReportedTrue
  <1>4. NominatedTrue'
    BY <1>1, NominatedSame DEF OverloadInvariant
  <1>5. FoldedTrue' /\ MeasuredTrue'
    <2>1. CASE turn \in {"measure", "check", "reported"}
      BY <1>1, <2>1, MeasuredSame DEF OverloadInvariant
    <2>2. CASE turn \in {"fold", "select"}
      BY <1>1, <2>2, TokensUnchanged DEF OverloadInvariant, MeasuredTrue
    <2> QED BY <2>1, <2>2 DEF OverloadInvariant
  <1> QED BY <1>1, <1>3, <1>4, <1>5 DEF OverloadInvariant

LEMMA OverloadKeeps ==
  ASSUME OverloadInvariant, [OverloadNext]_overloadVars PROVE OverloadInvariant'
  <1>1. ASSUME NEW t \in TermNames, MeasureDispersion(t) PROVE OverloadInvariant'
    BY <1>1, MeasureKeeps
  <1> QED
    BY <1>1, FoldUsageKeeps, SelectKeeps, NominateKeeps, CheckKeeps, OverloadStutters DEF OverloadNext
(***************************************************************************)
(* What a profile says, and what is shown of it, is of what was read.      *)
(***************************************************************************)
LEMMA ContextsAre ==
  ASSUME NEW contexts, NEW within
  PROVE  /\ DOMAIN ContextsIn(contexts, within) = {n \in ModulePaths : contexts[n] # {} /\ (within = None \/ n \in within)}
         /\ \A m \in DOMAIN ContextsIn(contexts, within) : ContextsIn(contexts, within)[m] = contexts[m]
         /\ DOMAIN ContextsIn(contexts, within) \subseteq ModulePaths
         /\ IsFiniteSet(DOMAIN ContextsIn(contexts, within))
         /\ Cardinality(DOMAIN ContextsIn(contexts, within)) \in Nat
  <1>1. DOMAIN ContextsIn(contexts, within) \subseteq ModulePaths
    BY DEF ContextsIn
  <1>2. IsFiniteSet(DOMAIN ContextsIn(contexts, within))
    BY <1>1, OverloadAssumption, FS_Subset
  <1>3. Cardinality(DOMAIN ContextsIn(contexts, within)) \in Nat
    BY <1>2, FS_CardinalityType
  <1> QED BY <1>1, <1>2, <1>3 DEF ContextsIn

LEMMA AllContexts ==
  ASSUME NEW contexts
  PROVE  DOMAIN ContextsIn(contexts, None) = {n \in ModulePaths : contexts[n] # {}}
  <1>1. DOMAIN ContextsIn(contexts, None) = {n \in ModulePaths : contexts[n] # {} /\ (None = None \/ n \in None)}
    BY DEF ContextsIn
  <1>2. {n \in ModulePaths : contexts[n] # {} /\ (None = None \/ n \in None)} = {n \in ModulePaths : contexts[n] # {}}
    OBVIOUS
  <1> QED BY <1>1, <1>2

LEMMA ContextsAlike ==
  ASSUME NEW one, NEW other, NEW within,
         \A m \in ModulePaths : (within = None \/ m \in within) => one[m] = other[m]
  PROVE  ContextsIn(one, within) = ContextsIn(other, within)
  <1>1. {n \in ModulePaths : one[n] # {} /\ (within = None \/ n \in within)} =
        {n \in ModulePaths : other[n] # {} /\ (within = None \/ n \in within)}
    OBVIOUS
  <1> QED BY <1>1 DEF ContextsIn

LEMMA WideAlike ==
  ASSUME FoldedTrue, turn # "fold", NEW t \in TermNames
  PROVE  DOMAIN KeptContexts(t) = DOMAIN ReadContexts(t, None)
  <1>1. {n \in ModulePaths : module_neighbor_sets[t][n] # {}} = {n \in ModulePaths : usage.read[t].contexts[n] # {}}
    BY DEF FoldedTrue
  <1> QED BY <1>1, AllContexts DEF KeptContexts, ReadContexts

LEMMA MeasuredWhole ==
  ASSUME FoldedTrue, turn # "fold", NEW t \in TermNames, Measurable(t)
  PROVE  KeptContexts(t) = ReadContexts(t, None)
  <1>1. ASSUME NEW m \in ModulePaths PROVE module_neighbor_sets[t][m] = usage.read[t].contexts[m]
    <2>1. CASE module_neighbor_sets[t][m] = {}
      BY <2>1 DEF FoldedTrue
    <2>2. CASE module_neighbor_sets[t][m] # {}
      <3>1. m \in DOMAIN KeptContexts(t)
        BY <2>2, ContextsAre DEF KeptContexts
      <3> QED BY <3>1 DEF FoldedTrue, Measurable
    <2> QED BY <2>1, <2>2
  <1> QED BY <1>1, ContextsAlike DEF KeptContexts, ReadContexts

\* What a kept profile is of.
LEMMA ProfilesTrue ==
  ASSUME OverloadInvariant, turn \in {"check", "reported"}, NEW p \in profiles
  PROVE  /\ p.term \in TermNames
         /\ p.contexts = ReadContexts(p.term, None) /\ wide_enough(p.contexts)
         /\ p.dispersion = context_dispersion(p.contexts)
  <1>1. PICK t \in WideOnes : Measurable(t) /\ p = ProfileOf(t)
    BY DEF OverloadInvariant, MeasuredTrue
  <1>2. t \in TermNames /\ wide_enough(KeptContexts(t))
    BY <1>1 DEF WideOnes, Measured, Chosen, FirstOf, eligible_tokens
  <1>3. p.term = t /\ p.contexts = KeptContexts(t) /\ p.dispersion = context_dispersion(KeptContexts(t))
    BY <1>1 DEF ProfileOf
  <1>4. KeptContexts(t) = ReadContexts(t, None)
    BY <1>1, <1>2, MeasuredWhole DEF OverloadInvariant
  <1> QED BY <1>2, <1>3, <1>4

TakenFrom(item, contexts) ==
  /\ item.contexts_complete \subseteq DOMAIN item.contexts
  /\ DOMAIN item.contexts \subseteq DOMAIN contexts
  /\ \A m \in item.contexts_complete : item.contexts[m] = contexts[m]

LEMMA CandidateIs ==
  ASSUME NEW p
  PROVE  /\ Candidate(p).term = p.term /\ Candidate(p).dispersion = p.dispersion
         /\ Candidate(p).modules = Cardinality(DOMAIN p.contexts)
         /\ TakenFrom(Candidate(p), p.contexts)
  <1> DEFINE uses(m) == usage.read[p.term].count[m]
             Busier(m, n) == uses(m) > uses(n) \/ (uses(m) = uses(n) /\ m < n)
             modules == FirstOf(DOMAIN p.contexts, overload_module_display_cap, Busier)
             shown == [m \in modules |-> FirstOf(p.contexts[m], module_context_sample, <)]
  <1>1. Candidate(p) = [term |-> p.term, dispersion |-> p.dispersion,
          contexts |-> shown, contexts_complete |-> {m \in modules : shown[m] = p.contexts[m]},
          modules |-> Cardinality(DOMAIN p.contexts)]
    BY DEF Candidate
  <1>2. modules \subseteq DOMAIN p.contexts
    BY DEF FirstOf
  <1>3. DOMAIN shown = modules
    OBVIOUS
  <1> HIDE DEF modules, shown
  <1> QED BY <1>1, <1>2, <1>3 DEF TakenFrom

\* An item of the report, and what it says of what was read.
LEMMA ItemsTrue ==
  ASSUME OverloadInvariant, turn = "reported", NEW i \in overload_candidates.items
  PROVE  /\ i.term \in TermNames /\ Diverges(ReadContexts(i.term, None))
         /\ i.dispersion = context_dispersion(ReadContexts(i.term, None))
         /\ i.modules = Cardinality(DOMAIN ReadContexts(i.term, None))
         /\ TakenFrom(i, ReadContexts(i.term, None))
  <1>1. i \in Candidates
    BY DEF OverloadInvariant, NominatedTrue
  <1>2. PICK p \in profiles : is_divergent(p.dispersion) /\ i = Candidate(p)
    BY <1>1 DEF Candidates
  <1>3. /\ p.term \in TermNames /\ p.contexts = ReadContexts(p.term, None) /\ wide_enough(p.contexts)
        /\ p.dispersion = context_dispersion(p.contexts)
    BY ProfilesTrue
  <1> QED BY <1>2, <1>3, CandidateIs DEF Diverges

\* The contexts of an item in a scope.
InScope(i, within) ==
  ContextsIn([m \in ModulePaths |-> IF m \in DOMAIN i.contexts THEN i.contexts[m] ELSE {}], within)

LEMMA WholeInScope ==
  ASSUME OverloadInvariant, turn = "reported", NEW i \in overload_candidates.items,
         _overload_details_complete(i), NEW within
  PROVE  InScope(i, within) = ReadContexts(i.term, within)
  <1> DEFINE read == usage.read[i.term].contexts
             whole == ReadContexts(i.term, None)
             shown == [m \in ModulePaths |-> IF m \in DOMAIN i.contexts THEN i.contexts[m] ELSE {}]
  <1>1. Cardinality(i.contexts_complete) = Cardinality(DOMAIN whole) /\ TakenFrom(i, whole)
    BY ItemsTrue DEF _overload_details_complete
  <1>2. /\ DOMAIN whole = {n \in ModulePaths : read[n] # {}}
        /\ \A m \in DOMAIN whole : whole[m] = read[m]
        /\ IsFiniteSet(DOMAIN whole)
    BY ContextsAre, AllContexts, ZenonT(30) DEF ReadContexts
  <1> HIDE DEF whole
  <1>3. i.contexts_complete \subseteq DOMAIN whole
    BY <1>1 DEF TakenFrom
  <1>4. i.contexts_complete = DOMAIN whole
    BY <1>1, <1>2, <1>3, FS_Subset
  <1>5. DOMAIN i.contexts = DOMAIN whole /\ \A m \in DOMAIN whole : i.contexts[m] = read[m]
    BY <1>1, <1>2, <1>4 DEF TakenFrom
  <1>6. \A m \in ModulePaths : shown[m] = read[m]
    BY <1>2, <1>5
  <1>7. ContextsIn(shown, within) = ContextsIn(read, within)
    <2> HIDE DEF shown, read
    <2> QED BY <1>6, ContextsAlike
  <1> QED BY <1>7 DEF InScope, ReadContexts

(***************************************************************************)
(* What is reported.                                                       *)
(***************************************************************************)
LEMMA ReportedAre ==
  ASSUME OverloadInvariant, turn = "reported", NEW f
  PROVE  f \in overloads <=>
           \E c \in concept_set, i \in overload_candidates.items :
             /\ c.token = i.term
             /\ \/ c.scope = None /\ f = Overload(c, i.dispersion, i.modules)
                \/ /\ c.scope # None /\ _overload_details_complete(i) /\ Diverges(InScope(i, c.scope))
                   /\ f = Overload(c, context_dispersion(InScope(i, c.scope)), Cardinality(DOMAIN InScope(i, c.scope)))
  <1>1. overloads = _canonical_overloaded
    BY DEF OverloadInvariant, ReportedTrue
  <1> DEFINE about == {ci \in concept_set \X overload_candidates.items : ci[1].token = ci[2].term}
             in_scope(ci) == InScope(ci[2], ci[1].scope)
             plain == {ci \in about : ci[1].scope = None}
             scoped == {ci \in about : /\ ci[1].scope # None /\ _overload_details_complete(ci[2])
                                       /\ wide_enough(in_scope(ci)) /\ is_divergent(context_dispersion(in_scope(ci)))}
             Plain(ci) == Overload(ci[1], ci[2].dispersion, ci[2].modules)
             Scoped(ci) == Overload(ci[1], context_dispersion(in_scope(ci)), Cardinality(DOMAIN in_scope(ci)))
  <1>2. _canonical_overloaded = {Plain(ci) : ci \in plain} \cup {Scoped(ci) : ci \in scoped}
    BY DEF _canonical_overloaded, InScope
  <1>3. ASSUME NEW ci \in plain, f = Plain(ci)
        PROVE \E c \in concept_set, i \in overload_candidates.items :
                c.token = i.term /\ c.scope = None /\ f = Overload(c, i.dispersion, i.modules)
    <2> WITNESS ci[1] \in concept_set, ci[2] \in overload_candidates.items
    <2> QED BY <1>3
  <1>4. ASSUME NEW ci \in scoped, f = Scoped(ci)
        PROVE \E c \in concept_set, i \in overload_candidates.items :
                /\ c.token = i.term /\ c.scope # None /\ _overload_details_complete(i) /\ Diverges(InScope(i, c.scope))
                /\ f = Overload(c, context_dispersion(InScope(i, c.scope)), Cardinality(DOMAIN InScope(i, c.scope)))
    <2> WITNESS ci[1] \in concept_set, ci[2] \in overload_candidates.items
    <2> QED BY <1>4 DEF Diverges
  <1>5. ASSUME NEW c \in concept_set, NEW i \in overload_candidates.items, c.token = i.term
        PROVE /\ c.scope = None => <<c, i>> \in plain /\ Plain(<<c, i>>) = Overload(c, i.dispersion, i.modules)
              /\ c.scope # None /\ _overload_details_complete(i) /\ Diverges(InScope(i, c.scope)) =>
                   /\ <<c, i>> \in scoped
                   /\ Scoped(<<c, i>>) = Overload(c, context_dispersion(InScope(i, c.scope)),
                                                  Cardinality(DOMAIN InScope(i, c.scope)))
    <2>1. <<c, i>> \in about /\ <<c, i>>[1] = c /\ <<c, i>>[2] = i
      BY <1>5
    <2> QED BY <2>1 DEF Diverges
  <1> HIDE DEF plain, scoped, Plain, Scoped
  <1> QED BY <1>1, <1>2, <1>3, <1>4, <1>5, ZenonT(30)

LEMMA OverloadIs ==
  ASSUME NEW c, NEW d, NEW n
  PROVE  Overload(c, d, n).concept = c /\ Overload(c, d, n).dispersion = d /\ Overload(c, d, n).modules = n
  BY DEF Overload

\* Every finding is of all that was read in the scope of its concept.
LEMMA FindingsTrue ==
  ASSUME OverloadInvariant, turn = "reported", NEW f \in overloads
  PROVE  LET contexts == ReadContexts(f.concept.token, f.concept.scope)
         IN /\ f.concept \in concept_set /\ Diverges(ReadContexts(f.concept.token, None))
            /\ Diverges(contexts) /\ f.dispersion = context_dispersion(contexts)
            /\ f.modules = Cardinality(DOMAIN contexts)
  <1>1. PICK c \in concept_set, i \in overload_candidates.items :
          /\ c.token = i.term
          /\ \/ c.scope = None /\ f = Overload(c, i.dispersion, i.modules)
             \/ /\ c.scope # None /\ _overload_details_complete(i) /\ Diverges(InScope(i, c.scope))
                /\ f = Overload(c, context_dispersion(InScope(i, c.scope)), Cardinality(DOMAIN InScope(i, c.scope)))
    BY ReportedAre
  <1>2. CASE c.scope = None /\ f = Overload(c, i.dispersion, i.modules)
    BY <1>1, <1>2, ItemsTrue, OverloadIs
  <1>3. CASE /\ c.scope # None /\ _overload_details_complete(i) /\ Diverges(InScope(i, c.scope))
             /\ f = Overload(c, context_dispersion(InScope(i, c.scope)), Cardinality(DOMAIN InScope(i, c.scope)))
    BY <1>1, <1>3, ItemsTrue, WholeInScope, OverloadIs
  <1> QED BY <1>1, <1>2, <1>3

(***************************************************************************)
(* Nothing that diverges is missed where nothing was cut.                  *)
(***************************************************************************)
LEMMA TwoModules ==
  ASSUME NEW contexts, wide_enough(ContextsIn(contexts, None))
  PROVE  \E m \in ModulePaths : \E n \in ModulePaths \ {m} : contexts[m] # {} /\ contexts[n] # {}
  <1> DEFINE D == DOMAIN ContextsIn(contexts, None)
  <1>1. IsFiniteSet(D) /\ Cardinality(D) \in Nat /\ D = {n \in ModulePaths : contexts[n] # {}}
    BY ContextsAre, AllContexts, ZenonT(30)
  <1>2. Cardinality(D) >= 2
    BY <1>1, OverloadAssumption DEF wide_enough
  <1> HIDE DEF D
  <1>3. PICK m : m \in D
    BY <1>2, FS_EmptySet
  <1>4. D # {m}
    <2>1. Cardinality({m}) = 1
      BY FS_Singleton
    <2> QED BY <1>2, <2>1
  <1>5. PICK n : n \in D /\ n # m
    BY <1>3, <1>4
  <1> QED BY <1>1, <1>3, <1>5

LEMMA WideEligible ==
  ASSUME OverloadInvariant, tokens_complete, NEW t \in TermNames, wide_enough(ReadContexts(t, None))
  PROVE  t \in eligible_tokens
  <1>0. PICK m \in ModulePaths :
          \E n \in ModulePaths \ {m} : usage.read[t].contexts[m] # {} /\ usage.read[t].contexts[n] # {}
    BY TwoModules DEF ReadContexts
  <1>1. PICK n \in ModulePaths \ {m} : usage.read[t].contexts[m] # {} /\ usage.read[t].contexts[n] # {}
    BY <1>0
  <1> DEFINE a == usage.read[t].count[m]
             b == usage.read[t].count[n]
  <1>2. usage \in Repositories /\ usage.read \in Usage
    BY OverloadAssumption DEF OverloadInvariant
  <1>3. a \in Nat /\ b \in Nat /\ token_count(t) \in Nat
    BY <1>2 DEF Usage, token_count
  <1>4. a > 0 /\ b > 0 /\ a + b <= token_count(t)
    BY <1>1, <1>2, OverloadAssumption DEF token_count
  <1> HIDE DEF a, b
  <1>5. token_count(t) >= 2
    BY <1>3, <1>4
  <1>6. ~usage.read[t].language
    BY <1>3, <1>5 DEF tokens_complete
  <1> QED BY <1>5, <1>6 DEF eligible_tokens

LEMMA AllChosen ==
  ASSUME OverloadInvariant, tokens_complete
  PROVE  Chosen = eligible_tokens
  <1>1. usage \in Repositories /\ usage.read \in Usage
    BY OverloadAssumption DEF OverloadInvariant
  <1>2. IsFiniteSet(eligible_tokens)
    BY OverloadAssumption, FS_Subset DEF eligible_tokens
  <1>3. ASSUME NEW t \in eligible_tokens
        PROVE  Cardinality({y \in eligible_tokens : MoreUsed(y, t)}) < pair_top_n
    <2> DEFINE before == {y \in eligible_tokens : MoreUsed(y, t)}
    <2>1. t \notin before
      <3>1. t \in TermNames /\ t \in Nat
        BY OverloadAssumption DEF eligible_tokens
      <3>2. token_count(t) \in Nat
        BY <1>1, <3>1 DEF Usage, token_count
      <3>3. ~MoreUsed(t, t)
        BY <3>1, <3>2 DEF MoreUsed
      <3> QED BY <3>3
    <2>2. before \subseteq eligible_tokens /\ before # eligible_tokens
      BY <2>1
    <2>3. IsFiniteSet(before) /\ Cardinality(before) <= Cardinality(eligible_tokens)
          /\ Cardinality(before) # Cardinality(eligible_tokens)
      BY <1>2, <2>2, FS_Subset
    <2>4. Cardinality(before) \in Nat /\ Cardinality(eligible_tokens) \in Nat
      BY <1>2, <2>3, FS_CardinalityType
    <2>5. Cardinality(eligible_tokens) <= pair_top_n /\ pair_top_n \in Nat
      BY OverloadAssumption DEF tokens_complete
    <2> HIDE DEF before
    <2>6. Cardinality(before) < pair_top_n
      BY <2>3, <2>4, <2>5
    <2> QED BY <2>6 DEF before
  <1> QED BY <1>3 DEF Chosen, FirstOf

LEMMA NothingMissed ==
  ASSUME OverloadInvariant, turn = "reported", overload_candidates.complete,
         NEW t \in TermNames, Diverges(ReadContexts(t, None))
  PROVE  \E i \in overload_candidates.items : i.term = t
  <1>1. tokens_complete /\ unmeasured = {} /\ overload_candidates.items = Candidates /\ top_tokens = {}
    BY DEF OverloadInvariant, NominatedTrue
  <1>2. t \in Measured
    BY <1>1, AllChosen, WideEligible DEF Measured, Diverges
  <1>3. wide_enough(KeptContexts(t))
    BY WideAlike DEF OverloadInvariant, Diverges, wide_enough
  <1>4. t \in WideOnes
    BY <1>2, <1>3 DEF WideOnes
  <1>5. Measurable(t) /\ ProfileOf(t) \in profiles
    BY <1>1, <1>4 DEF OverloadInvariant, MeasuredTrue
  <1>6. KeptContexts(t) = ReadContexts(t, None)
    BY <1>5, MeasuredWhole DEF OverloadInvariant
  <1>7. ProfileOf(t).term = t /\ is_divergent(ProfileOf(t).dispersion)
    BY <1>6 DEF ProfileOf, Diverges
  <1>8. Candidate(ProfileOf(t)) \in Candidates
    BY <1>5, <1>7 DEF Candidates
  <1> QED BY <1>1, <1>7, <1>8, CandidateIs

LEMMA ExactlyThose ==
  ASSUME OverloadInvariant, turn = "reported", overload_candidates.complete, omitted = {},
         NEW c \in concept_set, c.token \in TermNames,
         Diverges(ReadContexts(c.token, None)), Diverges(ReadContexts(c.token, c.scope))
  PROVE  \E f \in overloads : f.concept = c
  <1>1. PICK i \in overload_candidates.items : i.term = c.token
    BY NothingMissed
  <1>2. CASE c.scope = None
    <2>1. Overload(c, i.dispersion, i.modules) \in overloads
      BY <1>1, <1>2, ReportedAre
    <2> QED BY <2>1, OverloadIs
  <1>3. CASE c.scope # None
    <2>1. _overload_details_complete(i)
      BY <1>1, <1>3 DEF OverloadInvariant, ReportedTrue, _scoped_overload_reasons
    <2>2. Diverges(InScope(i, c.scope))
      BY <1>1, <2>1, WholeInScope
    <2>3. Overload(c, context_dispersion(InScope(i, c.scope)), Cardinality(DOMAIN InScope(i, c.scope))) \in overloads
      BY <1>1, <1>3, <2>1, <2>2, ReportedAre
    <2> QED BY <2>3, OverloadIs
  <1> QED BY <1>2, <1>3

LEMMA OverloadsFollow == OverloadInvariant => OverloadsTrue
  <1> SUFFICES ASSUME OverloadInvariant, turn = "reported"
               PROVE  OverloadsTrue
    BY DEF OverloadsTrue
  <1>1. ASSUME NEW f \in overloads
        PROVE LET contexts == ContextsIn(usage.read[f.concept.token].contexts, f.concept.scope)
              IN /\ Diverges(contexts) /\ f.dispersion = context_dispersion(contexts)
                 /\ f.modules = Cardinality(DOMAIN contexts)
    BY FindingsTrue DEF ReadContexts
  <1>2. ASSUME OverloadsExact
        PROVE {f.concept : f \in overloads} =
                {c \in concept_set : \A within \in {None, c.scope} :
                   Diverges(ContextsIn(usage.truth[c.token].contexts, within))}
    <2>1. overload_candidates.complete /\ omitted = {} /\ usage.corpus_complete
      BY <1>2 DEF OverloadsExact
    <2>2. usage.read = usage.truth
      <3>1. tokens_complete
        BY <2>1 DEF OverloadInvariant, NominatedTrue
      <3> QED BY <2>1, <3>1, OverloadAssumption DEF OverloadInvariant, tokens_complete
    <2>3. \A c \in concept_set : c.token \in TermNames
      BY OverloadAssumption DEF OverloadInvariant
    <2>4. ASSUME NEW f \in overloads
          PROVE /\ f.concept \in concept_set
                /\ \A within \in {None, f.concept.scope} : Diverges(ReadContexts(f.concept.token, within))
      BY FindingsTrue
    <2>5. ASSUME NEW c \in concept_set, \A within \in {None, c.scope} : Diverges(ReadContexts(c.token, within))
          PROVE \E f \in overloads : f.concept = c
      BY <2>1, <2>3, <2>5, ExactlyThose
    <2>6. \A c, within : ReadContexts(c.token, within) = ContextsIn(usage.truth[c.token].contexts, within)
      BY <2>2 DEF ReadContexts
    <2>7. {f.concept : f \in overloads} =
            {c \in concept_set : \A within \in {None, c.scope} : Diverges(ReadContexts(c.token, within))}
      BY <2>4, <2>5
    <2> QED BY <2>6, <2>7
  <1> QED BY <1>1, <1>2 DEF OverloadsTrue

\* A concept is reported as overloaded with the numbers of all the scan read in
\* its scope, and a section said to be exact reports exactly those that diverge,
\* whatever the repository, the caps and the thresholds are.
THEOREM OverloadsHold == OverloadSpec => []OverloadsTrue
  <1>1. OverloadSpec => []OverloadInvariant
    BY OverloadStarts, OverloadKeeps, PTL DEF OverloadSpec
  <1>2. OverloadInvariant => OverloadsTrue
    BY OverloadsFollow
  <1> QED BY <1>1, <1>2, PTL

(***************************************************************************)
(* The context: any document, limits, number of losses and of records.     *)
(***************************************************************************)
Names == Fields \cup ToSet(Indices)

\* A path is p, or leads through it.
Covers(p, q) == Len(p) <= Len(q) /\ \A k \in 1..Len(p) : q[k] = p[k]

\* A document is a finite tree of paths.
LEMMA DocumentIs ==
  ASSUME document \in Documents
  PROVE  /\ IsFiniteSet(DOMAIN document) /\ DOMAIN document \subseteq Seq(Names)
         /\ <<>> \in DOMAIN document
         /\ \A p \in DOMAIN document : document[p].sort \in Sorts /\ document[p].size \in Nat
         /\ \A p \in DOMAIN document : \A k \in 0..Len(p) : SubSeq(p, 1, k) \in DOMAIN document
         /\ \A p \in DOMAIN document : p # <<>> => document[Front(p)].sort \in {"list", "object"}
         /\ \A p \in DOMAIN document : document[p].sort = "list" =>
              Children(p) = {Append(p, Indices[i]) : i \in 1..document[p].size}
         /\ \A p \in DOMAIN document : document[p].sort = "list" => document[p].size <= Len(Indices)
  <1> USE ContextAssumption
  <1>1. \A p : Children(p) = {q \in DOMAIN document : q # <<>> /\ Front(q) = p}
    BY DEF Children
  <1>2. \A p \in DOMAIN document : document[p].sort = "list" =>
          Children(p) = {Append(p, Indices[i]) : i \in 1..document[p].size}
    BY <1>1, Zenon DEF ContextAssumption
  <1> QED BY <1>2 DEF ContextAssumption, Names

\* What is kept of a value is a part of it.
LEMMA KeptIs ==
  ASSUME document \in Documents, NEW p \in DOMAIN document
  PROVE  /\ Kept(p) \in Nat /\ Kept(p) <= document[p].size
         /\ Excess(p) \in Nat /\ Excess(p) = document[p].size - Kept(p)
         /\ IsFiniteSet(Cut(p)) /\ Cardinality(Cut(p)) = Excess(p)
         /\ document[p].sort \in {"object", "scalar"} => Excess(p) = 0
  <1>1. document[p].size \in Nat /\ Limit(p) \in Nat
    BY DocumentIs, ContextAssumption DEF ContextAssumption, Limit
  <1>2. /\ Kept(p) \in Nat /\ Kept(p) <= document[p].size
        /\ Excess(p) \in Nat /\ Excess(p) = document[p].size - Kept(p)
    BY <1>1 DEF Kept, Excess
  <1>3. document[p].sort \in {"object", "scalar"} => Excess(p) = 0
    BY <1>1 DEF Kept, Excess, Limit
  <1>4. IsFiniteSet({p}) /\ Cardinality({p}) = 1
    BY FS_Singleton
  <1> DEFINE k == Kept(p) n == document[p].size
  <1>5. IsFiniteSet(k + 1..n) /\ Cardinality(k + 1..n) = n - k
    <2>1. k \in Int /\ n \in Int /\ k <= n
      BY <1>1, <1>2
    <2> HIDE DEF k, n
    <2>2. k + 1 \in Int
      BY <2>1
    <2>3. /\ IsFiniteSet(k + 1..n)
          /\ Cardinality(k + 1..n) = IF k + 1 > n THEN 0 ELSE n - (k + 1) + 1
      BY <2>1, <2>2, FS_Interval
    <2> QED BY <2>1, <2>3
  <1>6. IsFiniteSet({p} \X (k + 1..n)) /\ Cardinality({p} \X (k + 1..n)) = 1 * (n - k)
    BY <1>4, <1>5, FS_Product
  <1>7. 1 * (n - k) = n - k
    BY <1>1, <1>2
  <1>8. IsFiniteSet(Cut(p)) /\ Cardinality(Cut(p)) = Excess(p)
    BY <1>2, <1>6, <1>7 DEF Cut
  <1> QED BY <1>2, <1>3, <1>8

(***************************************************************************)
(* What is ahead: the values a value leads to.                             *)
(***************************************************************************)
\* Reached, a step at a time.
LEMMA ReachedIs ==
  ASSUME document \in Documents
  PROVE  /\ Reached \subseteq DOMAIN document /\ IsFiniteSet(Reached) /\ Reached \subseteq Seq(Names)
         /\ <<>> \in Reached
         /\ \A p \in Reached : \A k \in 0..Len(p) : SubSeq(p, 1, k) \in Reached
         /\ \A q \in Reached : q # <<>> =>
              Front(q) \in Reached /\ q \in Items(Front(q)) /\ document[Front(q)].sort \in {"list", "object"}
         /\ \A p \in Reached : Items(p) \subseteq Reached
  <1>1. Reached \subseteq DOMAIN document /\ IsFiniteSet(Reached) /\ Reached \subseteq Seq(Names)
    <2>1. Reached \subseteq DOMAIN document
      BY DEF Reached
    <2> QED BY <2>1, DocumentIs, FS_Subset
  <1>2. <<>> \in Reached
    BY DocumentIs DEF Reached
  <1>3. ASSUME NEW p \in Reached, NEW k \in 0..Len(p) PROVE SubSeq(p, 1, k) \in Reached
    <2> DEFINE s == SubSeq(p, 1, k)
    <2>1. p \in Seq(Names) /\ s \in DOMAIN document
      BY <1>1, DocumentIs
    <2>2. Len(s) = k /\ \A j \in 1..k : s[j] = p[j]
      BY <2>1
    <2>3. ASSUME NEW j \in 1..k PROVE SubSeq(s, 1, j - 1) = SubSeq(p, 1, j - 1)
      BY <2>1, <2>2, <2>3
    <2>4. \A j \in 1..Len(p) : LET list == SubSeq(p, 1, j - 1) IN
            document[list].sort = "list" => p[j] \in Passed(list)
      BY DEF Reached
    <2>5. ASSUME NEW j \in 1..Len(s) PROVE
            LET list == SubSeq(s, 1, j - 1) IN document[list].sort = "list" => s[j] \in Passed(list)
      <3>1. j \in 1..k /\ j \in 1..Len(p)
        BY <2>1, <2>2
      <3>2. s[j] = p[j] /\ SubSeq(s, 1, j - 1) = SubSeq(p, 1, j - 1)
        BY <2>2, <2>3, <3>1
      <3> QED BY <2>4, <3>1, <3>2, Zenon
    <2> QED BY <2>1, <2>5 DEF Reached
  <1>4. ASSUME NEW q \in Reached, q # <<>>
        PROVE  Front(q) \in Reached /\ q \in Items(Front(q)) /\ document[Front(q)].sort \in {"list", "object"}
    <2>1. q \in Seq(Names) /\ q \in DOMAIN document /\ Len(q) \in 1..Len(q) /\ Len(q) - 1 \in 0..Len(q)
      BY <1>1, <1>4
    <2>2. Front(q) = SubSeq(q, 1, Len(q) - 1) /\ Front(q) \in Reached
      BY <1>3, <2>1 DEF Front
    <2>3. document[Front(q)].sort \in {"list", "object"}
      BY <1>4, <2>1, DocumentIs
    <2>4. document[Front(q)].sort = "list" => Last(q) \in Passed(Front(q))
      BY <2>1, <2>2 DEF Reached, Last
    <2>5. q \in Children(Front(q))
      BY <1>4, <2>1 DEF Children
    <2>6. q \in Items(Front(q))
      BY <2>3, <2>4, <2>5 DEF Items
    <2> QED BY <2>2, <2>3, <2>6
  <1>5. ASSUME NEW p \in Reached, NEW q \in Items(p) PROVE q \in Reached
    <2>1. q \in DOMAIN document /\ q # <<>> /\ Front(q) = p /\ (document[p].sort = "object" \/ Last(q) \in Passed(p))
      BY DEF Items, Children
    <2>2. q \in Seq(Names) /\ p \in Seq(Names) /\ Len(q) \in Nat /\ Len(q) >= 1
      BY <1>1, <2>1, DocumentIs
    <2>3. p = SubSeq(q, 1, Len(q) - 1) /\ Len(p) = Len(q) - 1 /\ \A j \in 1..Len(p) : p[j] = q[j]
      BY <2>1, <2>2 DEF Front
    <2>4. \A j \in 1..Len(p) : LET list == SubSeq(p, 1, j - 1) IN
            document[list].sort = "list" => p[j] \in Passed(list)
      BY DEF Reached
    <2>5. ASSUME NEW j \in 1..Len(q) PROVE
            LET list == SubSeq(q, 1, j - 1) IN document[list].sort = "list" => q[j] \in Passed(list)
      <3>1. CASE j = Len(q)
        BY <2>1, <2>3, <3>1 DEF Last
      <3>2. CASE j # Len(q)
        <4>1. j \in 1..Len(p)
          BY <2>2, <2>3, <3>2
        <4>2. SubSeq(q, 1, j - 1) = SubSeq(p, 1, j - 1)
          BY <2>2, <2>3, <4>1
        <4> QED BY <2>3, <2>4, <4>1, <4>2, Zenon
      <3> QED BY <3>1, <3>2
    <2> QED BY <2>1, <2>5 DEF Reached
  <1> QED BY <1>1, <1>2, <1>3, <1>4, <1>5

\* The order of a value's parts is of all of them, each once.
LEMMA InOrderIs ==
  ASSUME document \in Documents, NEW p \in Reached
  PROVE  /\ InOrder(p) \in Seq(Reached)
         /\ \A q \in Items(p) : \E i \in 1..Len(InOrder(p)) : InOrder(p)[i] = q
         /\ \A i \in 1..Len(InOrder(p)) : InOrder(p)[i] \in Items(p)
         /\ \A i, j \in 1..Len(InOrder(p)) : i # j => InOrder(p)[i] # InOrder(p)[j]
  <1> DEFINE o == InOrder(p) n == Kept(p)
  <1>1. p \in DOMAIN document /\ p \in Seq(Names) /\ Items(p) \subseteq Reached
    BY ReachedIs
  <1>2. CASE document[p].sort = "list"
    <2>1. n \in Nat /\ n <= document[p].size /\ document[p].size <= Len(Indices) /\ document[p].size \in Nat
      BY <1>1, <1>2, KeptIs, DocumentIs
    <2>2. Children(p) = {Append(p, Indices[i]) : i \in 1..document[p].size}
      BY <1>1, <1>2, DocumentIs
    <2>3. Indices \in Seq(ToSet(Indices)) /\ ToSet(Indices) \subseteq Names
      BY ContextAssumption DEF ContextAssumption, Names
    <2>4. \A i, j \in 1..Len(Indices) : Indices[i] = Indices[j] => i = j
      BY <2>3, ContextAssumption DEF ContextAssumption, IsInjective
    <2>5. \A i \in 1..n : /\ i \in 1..Len(Indices) /\ i \in 1..document[p].size /\ Indices[i] \in Names
      BY <2>1, <2>3
    <2>6. \A i \in 1..Len(Indices) :
            /\ Append(p, Indices[i]) \in Seq(Names) /\ Last(Append(p, Indices[i])) = Indices[i]
      BY <1>1, <2>3 DEF Last
    <2>7. o = [i \in 1..n |-> Append(p, Indices[i])]
      BY <1>2 DEF InOrder
    <2>8. ASSUME NEW i \in 1..n PROVE o[i] \in Items(p)
      <3>1. o[i] = Append(p, Indices[i]) /\ o[i] \in Children(p)
        BY <2>2, <2>5, <2>7
      <3>2. Last(o[i]) \in Passed(p)
        BY <2>5, <2>6, <3>1 DEF Passed
      <3> QED BY <3>1, <3>2 DEF Items
    <2>9. o \in Seq(Reached) /\ Len(o) = n
      <3> HIDE DEF o, n
      <3>1. o \in [1..n -> Reached] /\ n \in Nat
        BY <1>1, <2>1, <2>7, <2>8
      <3> QED BY <3>1
    <2>10. ASSUME NEW i \in 1..n, NEW j \in 1..n, o[i] = o[j] PROVE i = j
      <3>1. Indices[i] = Indices[j]
        BY <2>5, <2>6, <2>7, <2>10
      <3> QED BY <2>4, <2>5, <3>1
    <2>11. ASSUME NEW q \in Items(p) PROVE \E i \in 1..n : o[i] = q
      <3>1. q \in Children(p) /\ Last(q) \in Passed(p)
        BY <1>2 DEF Items
      <3>2. PICK i \in 1..document[p].size : q = Append(p, Indices[i])
        BY <2>2, <3>1
      <3>3. i \in 1..Len(Indices) /\ Last(q) = Indices[i]
        BY <2>1, <2>6, <3>2
      <3>4. PICK j \in 1..n : Last(q) = Indices[j]
        BY <3>1 DEF Passed
      <3>5. i = j
        BY <2>4, <2>5, <3>3, <3>4
      <3> QED BY <2>7, <3>2, <3>4, <3>5
    <2> HIDE DEF o, n
    <2>12. /\ \A q \in Items(p) : \E i \in 1..Len(o) : o[i] = q
           /\ \A i \in 1..Len(o) : o[i] \in Items(p)
           /\ \A i, j \in 1..Len(o) : i # j => o[i] # o[j]
      BY <2>8, <2>9, <2>10, <2>11
    <2> QED BY <2>9, <2>12 DEF o
  <1>3. CASE document[p].sort # "list"
    <2> DEFINE S == Items(p) c == Cardinality(S)
    <2>1. o = SetToSeq(S)
      BY <1>3 DEF InOrder
    <2>2. IsFiniteSet(S)
      BY <1>1, ReachedIs, FS_Subset
    <2>3. c \in Nat /\ ExistsBijection(1..c, S)
      BY <2>2, FS_CardinalityType
    <2>4. \E f \in [1..c -> S] : IsInjective(f)
      BY <2>3 DEF ExistsBijection, Bijection, Injection, IsInjective
    <2>5. o \in [1..c -> S] /\ IsInjective(o)
      BY <2>1, <2>4, Zenon DEF SetToSeq
    <2>6. IsFiniteSet(1..c) /\ Cardinality(1..c) = c
      BY <2>3, FS_Interval
    <2>7. o \in Injection(1..c, S)
      BY <2>5 DEF Injection, IsInjective
    <2>8. o \in Surjection(1..c, S)
      BY <2>2, <2>6, <2>7, FS_Injection
    <2>9. o \in Seq(S) /\ Len(o) = c
      BY <2>3, <2>5
    <2> HIDE DEF S, c, o
    <2>10. o \in Seq(Reached)
      BY <1>1, <2>9 DEF S
    <2>11. /\ \A q \in S : \E i \in 1..Len(o) : o[i] = q
           /\ \A i \in 1..Len(o) : o[i] \in S
           /\ \A i, j \in 1..Len(o) : i # j => o[i] # o[j]
      BY <2>5, <2>8, <2>9 DEF Surjection, IsInjective
    <2> QED BY <2>10, <2>11 DEF S, o
  <1> QED BY <1>2, <1>3

(***************************************************************************)
(* The ledger: one record for each kind of loss.                           *)
(***************************************************************************)
Lists == {"exclusions", "omissions", "truncations"}

Keys(records) == {<<r.path, r.kind>> : r \in records}

OnePerKind(records) ==
  /\ IsFiniteSet(records)
  /\ \A r \in records : r.amount \in Nat
  /\ \A r, s \in records : r.path = s.path /\ r.kind = s.kind => r = s

IsLedger(l) == DOMAIN l = Lists /\ \A list \in Lists : OnePerKind(l[list])

\* The values of a function are no more than its arguments.
LEMMA ImageIs ==
  ASSUME NEW f, IsFiniteSet(DOMAIN f)
  PROVE  LET image == {f[x] : x \in DOMAIN f} IN
         /\ IsFiniteSet(image) /\ Cardinality(image) \in Nat
         /\ Cardinality(image) <= Cardinality(DOMAIN f)
         /\ (\A x, y \in DOMAIN f : f[x] = f[y] => x = y) => Cardinality(image) = Cardinality(DOMAIN f)
  <1> DEFINE image == {f[x] : x \in DOMAIN f}
             g == [x \in DOMAIN f |-> f[x]]
  <1>1. g \in Surjection(DOMAIN f, image)
    BY DEF Surjection
  <1>2. /\ IsFiniteSet(image) /\ Cardinality(image) <= Cardinality(DOMAIN f)
        /\ Cardinality(image) = Cardinality(DOMAIN f) <=> g \in Injection(DOMAIN f, image)
    BY <1>1, FS_Surjection
  <1>3. (\A x, y \in DOMAIN f : f[x] = f[y] => x = y) => g \in Injection(DOMAIN f, image)
    BY DEF Injection, IsInjective
  <1> QED BY <1>2, <1>3, FS_CardinalityType

\* There are as many records as kinds of loss recorded.
LEMMA KeysCount ==
  ASSUME NEW records, OnePerKind(records)
  PROVE  /\ IsFiniteSet(Keys(records)) /\ Cardinality(Keys(records)) = Cardinality(records)
         /\ Cardinality(records) \in Nat
  <1> DEFINE f == [r \in records |-> <<r.path, r.kind>>]
  <1>1. \A x, y \in DOMAIN f : f[x] = f[y] => x = y
    BY DEF OnePerKind
  <1>2. Keys(records) = {f[x] : x \in DOMAIN f} /\ DOMAIN f = records
    BY DEF Keys
  <1>3. IsFiniteSet(records)
    BY DEF OnePerKind
  <1> HIDE DEF f
  <1> QED BY <1>1, <1>2, <1>3, ImageIs, FS_CardinalityType

\* What recording a loss of a kind does to a ledger.
Entered(l, after, list, key, amount) ==
  /\ IsLedger(after)
  /\ \A other \in Lists : other # list => after[other] = l[other]
  /\ Keys(after[list]) = Keys(l[list]) \cup {key}
  /\ \A r \in after[list] :
       IF <<r.path, r.kind>> # key THEN r \in l[list]
       ELSE \/ key \notin Keys(l[list]) /\ r.amount = amount
            \/ \E s \in l[list] : s.path = r.path /\ s.kind = r.kind /\ r.amount = amount + s.amount

\* A loss recorded adds to the record of its kind, or makes it.
LEMMA RecordIs ==
  ASSUME NEW l, IsLedger(l), NEW list \in Lists, NEW pattern, NEW kind, NEW amount \in Nat
  PROVE  Entered(l, _record(l, list, pattern, kind, amount), list, <<pattern, kind>>, amount)
  <1> DEFINE before == Same(l[list], pattern, kind)
             old == IF before = {} THEN 0 ELSE (CHOOSE r \in before : TRUE).amount
             new == [path |-> pattern, kind |-> kind, amount |-> amount + old]
             after == _record(l, list, pattern, kind, amount)
  <1>1. OnePerKind(l[list]) /\ before = {r \in l[list] : r.path = pattern /\ r.kind = kind}
    BY DEF IsLedger, Same
  <1>2. after = [l EXCEPT ![list] = (@ \ before) \cup {new}]
    BY DEF _record
  <1>3. /\ DOMAIN after = Lists /\ after[list] = (l[list] \ before) \cup {new}
        /\ \A other \in Lists : other # list => after[other] = l[other]
    BY <1>2 DEF IsLedger
  <1>4. \/ before = {} /\ old = 0
        \/ \E s \in before : old = s.amount
    OBVIOUS
  <1>5. old \in Nat /\ amount + old \in Nat
    BY <1>1, <1>4 DEF OnePerKind
  <1>6. new.path = pattern /\ new.kind = kind /\ new.amount = amount + old
    OBVIOUS
  <1> HIDE DEF after, new, old, before
  <1>7. IsFiniteSet(after[list])
    <2>1. IsFiniteSet(l[list] \ before)
      BY <1>1, FS_Difference DEF OnePerKind
    <2>2. IsFiniteSet((l[list] \ before) \cup {new})
      BY <2>1, FS_AddElement
    <2> QED BY <1>3, <2>2
  <1>8. \A r \in after[list] : r.amount \in Nat
    BY <1>1, <1>3, <1>5, <1>6 DEF OnePerKind
  <1>9. \A r, s \in after[list] : r.path = s.path /\ r.kind = s.kind => r = s
    BY <1>1, <1>3, <1>6 DEF OnePerKind
  <1>10. IsLedger(after)
    BY <1>3, <1>7, <1>8, <1>9 DEF IsLedger, OnePerKind
  <1>11. Keys(after[list]) = Keys(l[list]) \cup {<<pattern, kind>>}
    <2>1. \A r \in before : <<r.path, r.kind>> = <<pattern, kind>>
      BY <1>1
    <2>2. <<new.path, new.kind>> = <<pattern, kind>>
      BY <1>6
    <2> QED BY <1>3, <2>1, <2>2 DEF Keys
  <1>12. ASSUME NEW r \in after[list], <<r.path, r.kind>> # <<pattern, kind>> PROVE r \in l[list]
    BY <1>3, <1>6, <1>12
  <1>13. ASSUME NEW r \in after[list], <<r.path, r.kind>> = <<pattern, kind>>
         PROVE  \/ <<pattern, kind>> \notin Keys(l[list]) /\ r.amount = amount
                \/ \E s \in l[list] : s.path = r.path /\ s.kind = r.kind /\ r.amount = amount + s.amount
    <2>1. r = new
      BY <1>1, <1>3, <1>13
    <2>2. CASE before = {} /\ old = 0
      <3>1. <<pattern, kind>> \notin Keys(l[list])
        BY <1>1, <2>2 DEF Keys
      <3>2. r.amount = amount
        BY <1>6, <2>1, <2>2
      <3> QED BY <3>1, <3>2
    <2>3. CASE \E s \in before : old = s.amount
      <3>1. PICK s \in before : old = s.amount
        BY <2>3
      <3>2. s \in l[list] /\ s.path = r.path /\ s.kind = r.kind /\ r.amount = amount + s.amount
        BY <1>1, <1>6, <2>1, <3>1
      <3> QED BY <3>2
    <2> QED BY <1>4, <2>2, <2>3
  <1>14. Entered(l, after, list, <<pattern, kind>>, amount)
    BY <1>3, <1>10, <1>11, <1>12, <1>13 DEF Entered
  <1> QED BY <1>14 DEF after

\* A ledger that has no room for a loss has fewer records than there are
\* kinds of loss to record.
LEMMA NoRoom ==
  ASSUME NEW l, IsLedger(l), NEW list \in Lists, NEW pattern, NEW kind,
         ~Recordable(l, list, pattern, kind),
         NEW kinds, \A other \in Lists : IsFiniteSet(kinds[other]) /\ Keys(l[other]) \subseteq kinds[other],
         <<pattern, kind>> \in kinds[list]
  PROVE  Cardinality(kinds["exclusions"]) + Cardinality(kinds["omissions"])
           + Cardinality(kinds["truncations"]) > MaxCoverageRecords
  <1>1. /\ {r \in l[list] : r.path = pattern /\ r.kind = kind} = {}
        /\ ~(RecordsOf(l) < MaxCoverageRecords)
    BY DEF Recordable, Same
  <1>2. <<pattern, kind>> \notin Keys(l[list])
    BY <1>1 DEF Keys
  <1>3. \A other \in Lists : OnePerKind(l[other])
    BY DEF IsLedger
  <1>4. ASSUME NEW other \in Lists
        PROVE  /\ Cardinality(l[other]) \in Nat /\ Cardinality(kinds[other]) \in Nat
               /\ Cardinality(l[other]) <= Cardinality(kinds[other])
               /\ other = list => Cardinality(l[other]) < Cardinality(kinds[other])
    <2>1. Cardinality(Keys(l[other])) = Cardinality(l[other]) /\ Cardinality(l[other]) \in Nat
      BY <1>3, KeysCount
    <2>2. IsFiniteSet(kinds[other]) /\ Keys(l[other]) \subseteq kinds[other]
      OBVIOUS
    <2>3. /\ Cardinality(Keys(l[other])) <= Cardinality(kinds[other])
          /\ Cardinality(Keys(l[other])) = Cardinality(kinds[other]) => kinds[other] = Keys(l[other])
      BY <2>2, FS_Subset
    <2>4. Cardinality(kinds[other]) \in Nat
      BY <2>2, FS_CardinalityType
    <2>5. other = list => Keys(l[other]) # kinds[other]
      BY <1>2
    <2> QED BY <2>1, <2>3, <2>4, <2>5
  <1>5. RecordsOf(l) = Cardinality(l["exclusions"]) + Cardinality(l["omissions"]) + Cardinality(l["truncations"])
    BY DEF RecordsOf
  <1>6. RecordsOf(l) \in Nat /\ MaxCoverageRecords \in Nat
    BY <1>4, <1>5, ContextAssumption DEF Lists, ContextAssumption
  <1> DEFINE a == Cardinality(l["exclusions"]) b == Cardinality(l["omissions"]) c == Cardinality(l["truncations"])
             x == Cardinality(kinds["exclusions"]) y == Cardinality(kinds["omissions"]) z == Cardinality(kinds["truncations"])
  <1>7. a \in Nat /\ b \in Nat /\ c \in Nat /\ x \in Nat /\ y \in Nat /\ z \in Nat /\ a <= x /\ b <= y /\ c <= z
    BY <1>4 DEF Lists
  <1>8. a < x \/ b < y \/ c < z
    BY <1>4 DEF Lists
  <1>9. a + b + c >= MaxCoverageRecords
    BY <1>1, <1>5, <1>6
  <1> HIDE DEF a, b, c, x, y, z
  <1>10. x + y + z > MaxCoverageRecords
    BY <1>6, <1>7, <1>8, <1>9
  <1> QED BY <1>10 DEF x, y, z

(***************************************************************************)
(* What was lost of a set of values copied, and of n exemplars.            *)
(***************************************************************************)
KeyOf(p) == <<Pattern(p), KindOf(p)>>
Exemplars == <<ExemplarsAt, "list_items">>

CutOf(S, k) == UNION {Cut(p) : p \in {q \in S : KeyOf(q) = k}}
LossOf(S, k, n) == Cardinality(CutOf(S, k)) + IF k = Exemplars THEN n ELSE 0
LossKeys(S, n) == {KeyOf(p) : p \in {q \in S : Excess(q) > 0}} \cup IF n > 0 THEN {Exemplars} ELSE {}

\* Finitely much is cut.
LEMMA CutFinite ==
  ASSUME document \in Documents, NEW S \in SUBSET Reached, NEW k
  PROVE  IsFiniteSet(CutOf(S, k)) /\ \A n \in Nat : LossOf(S, k, n) \in Nat
  <1> DEFINE U == {q \in S : KeyOf(q) = k}
             f == [q \in U |-> Cut(q)]
  <1>1. IsFiniteSet(U) /\ U \subseteq DOMAIN document
    BY ReachedIs, FS_Subset
  <1>2. DOMAIN f = U /\ {f[q] : q \in DOMAIN f} = {Cut(q) : q \in U}
    OBVIOUS
  <1>3. IsFiniteSet({f[q] : q \in DOMAIN f})
    <2> HIDE DEF f, U
    <2> QED BY <1>1, <1>2, ImageIs
  <1>4. \A c \in {Cut(q) : q \in U} : IsFiniteSet(c)
    BY <1>1, KeptIs
  <1>5. IsFiniteSet(UNION {Cut(q) : q \in U})
    BY <1>2, <1>3, <1>4, FS_UNION
  <1>6. IsFiniteSet(CutOf(S, k))
    BY <1>5 DEF CutOf
  <1>7. Cardinality(CutOf(S, k)) \in Nat
    BY <1>6, FS_CardinalityType
  <1> QED BY <1>6, <1>7 DEF LossOf

\* One more value copied adds what was cut of it.
LEMMA MoreLoss ==
  ASSUME document \in Documents, NEW S \in SUBSET Reached, NEW p \in Reached, p \notin S, NEW k, NEW n \in Nat
  PROVE  /\ LossOf(S, k, n) \in Nat
         /\ LossOf(S \cup {p}, k, n) = LossOf(S, k, n) + IF KeyOf(p) = k THEN Excess(p) ELSE 0
         /\ LossKeys(S \cup {p}, n) = LossKeys(S, n) \cup IF Excess(p) > 0 THEN {KeyOf(p)} ELSE {}
  <1>1. Reached \subseteq DOMAIN document /\ IsFiniteSet(Reached)
    BY ReachedIs
  <1>2. IsFiniteSet(CutOf(S, k))
    BY CutFinite
  <1>3. IsFiniteSet(CutOf(S, k)) /\ Cardinality(CutOf(S, k)) \in Nat
    BY <1>2, FS_CardinalityType
  <1>4. IsFiniteSet(Cut(p)) /\ Cardinality(Cut(p)) = Excess(p) /\ Excess(p) \in Nat
    BY <1>1, KeptIs
  <1>5. \A q : \A x \in Cut(q) : x[1] = q
    BY DEF Cut
  <1>6. CutOf(S, k) \cap Cut(p) = {}
    <2>1. \A x \in CutOf(S, k) : x[1] \in S
      BY <1>5 DEF CutOf
    <2> QED BY <1>5, <2>1
  <1>7. CutOf(S \cup {p}, k) = IF KeyOf(p) = k THEN CutOf(S, k) \cup Cut(p) ELSE CutOf(S, k)
    BY DEF CutOf
  <1>8. Cardinality(CutOf(S, k) \cup Cut(p)) = Cardinality(CutOf(S, k)) + Excess(p)
    <2>1. Cardinality(CutOf(S, k) \cup Cut(p))
            = Cardinality(CutOf(S, k)) + Cardinality(Cut(p)) - Cardinality(CutOf(S, k) \cap Cut(p))
      BY <1>3, <1>4, FS_Union
    <2>2. Cardinality(CutOf(S, k) \cap Cut(p)) = 0
      BY <1>6, FS_EmptySet
    <2> QED BY <1>3, <1>4, <2>1, <2>2
  <1>9. LossKeys(S \cup {p}, n) = LossKeys(S, n) \cup IF Excess(p) > 0 THEN {KeyOf(p)} ELSE {}
    BY DEF LossKeys
  <1>10. Cardinality(CutOf(S \cup {p}, k)) = Cardinality(CutOf(S, k)) + IF KeyOf(p) = k THEN Excess(p) ELSE 0
    BY <1>3, <1>4, <1>7, <1>8
  <1> DEFINE c == Cardinality(CutOf(S, k)) d == IF KeyOf(p) = k THEN Excess(p) ELSE 0
             e == IF k = Exemplars THEN n ELSE 0
  <1>11. c \in Nat /\ d \in Nat /\ e \in Nat
    BY <1>3, <1>4
  <1>12. LossOf(S, k, n) = c + e /\ LossOf(S \cup {p}, k, n) = c + d + e
    BY <1>10 DEF LossOf
  <1> HIDE DEF c, d, e
  <1>13. LossOf(S, k, n) \in Nat /\ LossOf(S \cup {p}, k, n) = LossOf(S, k, n) + d
    BY <1>11, <1>12
  <1> QED BY <1>9, <1>13 DEF d

\* Of a kind not among the losses, nothing was lost.
LEMMA NoLoss ==
  ASSUME document \in Documents, NEW S \in SUBSET Reached, NEW n \in Nat, NEW k, k \notin LossKeys(S, n)
  PROVE  LossOf(S, k, n) = 0
  <1>1. k # Exemplars \/ n = 0
    BY DEF LossKeys
  <1>2. ASSUME NEW q \in S, KeyOf(q) = k PROVE Cut(q) = {}
    <2>1. q \in DOMAIN document
      BY ReachedIs
    <2>2. ~(Excess(q) > 0)
      BY <1>2 DEF LossKeys
    <2>3. IsFiniteSet(Cut(q)) /\ Cardinality(Cut(q)) = 0
      BY <2>1, <2>2, KeptIs
    <2> QED BY <2>3, FS_EmptySet
  <1>3. CutOf(S, k) = {}
    BY <1>2 DEF CutOf
  <1> QED BY <1>1, <1>3, FS_EmptySet DEF LossOf

(***************************************************************************)
(* Copying: what is reached is copied, or ahead once.                      *)
(***************************************************************************)
CopyOf(t, c) ==
  /\ t \in Seq(Reached)
  /\ DOMAIN c \subseteq Reached /\ c = [p \in DOMAIN c |-> Kept(p)]
  /\ \A p \in Reached : p \in DOMAIN c \/ \E i \in 1..Len(t) : Covers(t[i], p)
  /\ \A p \in DOMAIN c : \A i \in 1..Len(t) : ~Covers(t[i], p)
  /\ \A i, j \in 1..Len(t) : i # j => ~Covers(t[i], t[j])

\* A path of the same length that is led through is the path.
LEMMA CoversSame ==
  ASSUME NEW p \in Seq(Names), NEW q \in Seq(Names), Covers(p, q), Len(q) <= Len(p)
  PROVE  p = q
  BY DEF Covers

\* What leads through the middle leads through the start.
LEMMA CoversAll ==
  ASSUME NEW p \in Seq(Names), NEW q \in Seq(Names), NEW r \in Seq(Names), Covers(p, q), Covers(q, r)
  PROVE  Covers(p, r)
  BY DEF Covers

\* Of two paths that lead to a third, the shorter leads to the longer.
LEMMA CoversBoth ==
  ASSUME NEW p \in Seq(Names), NEW q \in Seq(Names), NEW r \in Seq(Names),
         Covers(p, r), Covers(q, r), Len(p) <= Len(q)
  PROVE  Covers(p, q)
  BY DEF Covers

\* A part of a value is one step further.
LEMMA PartIs ==
  ASSUME document \in Documents, NEW p \in Reached, NEW q \in Items(p)
  PROVE  q \in Reached /\ Len(q) = Len(p) + 1 /\ Covers(p, q) /\ ~Covers(q, p)
  <1>1. q \in Reached /\ q # <<>> /\ Front(q) = p
    BY ReachedIs DEF Items, Children
  <1>2. q \in Seq(Names) /\ p \in Seq(Names)
    BY <1>1, ReachedIs
  <1>3. Len(q) \in Nat /\ Len(q) >= 1 /\ p = SubSeq(q, 1, Len(q) - 1)
    BY <1>1, <1>2 DEF Front
  <1>4. Len(p) = Len(q) - 1 /\ \A k \in 1..Len(p) : p[k] = q[k]
    <2> DEFINE s == SubSeq(q, 1, Len(q) - 1)
    <2>1. Len(s) = Len(q) - 1 /\ \A k \in 1..Len(q) - 1 : s[k] = q[k]
      <3> DEFINE n == Len(q) - 1
      <3>1. q \in Seq(Names) /\ n \in Nat /\ n <= Len(q)
        BY <1>2, <1>3
      <3> HIDE DEF n
      <3>2. Len(SubSeq(q, 1, n)) = n /\ \A k \in 1..n : SubSeq(q, 1, n)[k] = q[k]
        BY <3>1
      <3> QED BY <3>2 DEF n
    <2> HIDE DEF s
    <2>2. p = s
      BY <1>3 DEF s
    <2> QED BY <2>1, <2>2
  <1> QED BY <1>1, <1>2, <1>3, <1>4 DEF Covers

\* What is reached below a value is reached through one of its parts.
LEMMA ThroughParts ==
  ASSUME document \in Documents, NEW p \in Reached, NEW q \in Reached, Covers(p, q), q # p
  PROVE  \E r \in Items(p) : Covers(r, q)
  <1> DEFINE n == Len(p) r == SubSeq(q, 1, n + 1)
  <1>1. p \in Seq(Names) /\ q \in Seq(Names) /\ n \in Nat
    BY ReachedIs
  <1>2. n < Len(q)
    BY <1>1, CoversSame DEF Covers
  <1>3. r \in Reached
    BY <1>1, <1>2, ReachedIs
  <1>4. r \in Seq(Names) /\ Len(r) = n + 1 /\ \A k \in 1..n + 1 : r[k] = q[k]
    BY <1>1, <1>2
  <1>5. r # <<>> /\ Front(r) = SubSeq(r, 1, n)
    <2> HIDE DEF r
    <2>1. r # <<>>
      BY <1>1, <1>4
    <2>2. Len(r) - 1 = n
      BY <1>1, <1>4
    <2> QED BY <2>1, <2>2 DEF Front
  <1>6. Len(SubSeq(r, 1, n)) = n /\ SubSeq(r, 1, n) \in Seq(Names) /\ \A k \in 1..n : SubSeq(r, 1, n)[k] = r[k]
    BY <1>1, <1>4
  <1>7. Covers(p, SubSeq(r, 1, n))
    <2>1. \A k \in 1..n : q[k] = p[k]
      BY DEF Covers
    <2> HIDE DEF r
    <2> QED BY <1>1, <1>4, <1>6, <2>1 DEF Covers
  <1>8. Front(r) = p
    <2> DEFINE s == SubSeq(r, 1, n)
    <2>1. s \in Seq(Names) /\ Len(s) = n /\ Covers(p, s) /\ Front(r) = s
      BY <1>5, <1>6, <1>7
    <2> HIDE DEF s, r
    <2>2. Len(s) <= Len(p)
      BY <1>1, <2>1 DEF n
    <2>3. p = s
      BY <1>1, <2>1, <2>2, CoversSame
    <2> QED BY <2>1, <2>3
  <1>9. r \in Items(p)
    BY <1>3, <1>5, <1>8, ReachedIs
  <1>10. Covers(r, q)
    BY <1>1, <1>2, <1>4 DEF Covers
  <1> QED BY <1>9, <1>10

\* A value copied, its parts are ahead in its place.
LEMMA CopyMore ==
  ASSUME document \in Documents, NEW t, NEW c, CopyOf(t, c), t # <<>>
  PROVE  LET p == Head(t) IN
         /\ p \in Reached /\ p \notin DOMAIN c
         /\ CopyOf(InOrder(p) \o Tail(t), [q \in DOMAIN c \cup {p} |-> IF q = p THEN Kept(p) ELSE c[q]])
  <1> DEFINE p == Head(t) o == InOrder(p) n == Len(o) m == Len(t)
             u == o \o Tail(t)
             d == [q \in DOMAIN c \cup {p} |-> IF q = p THEN Kept(p) ELSE c[q]]
  <1>1. /\ t \in Seq(Reached) /\ m \in Nat /\ m >= 1 /\ p = t[1] /\ p \in Reached /\ Covers(p, p)
    <2>1. t \in Seq(Reached)
      BY DEF CopyOf
    <2>2. m \in Nat /\ m >= 1 /\ p = t[1] /\ p \in Reached
      BY <2>1
    <2> QED BY <2>1, <2>2, ReachedIs DEF Covers
  <1>2. p \notin DOMAIN c
    BY <1>1 DEF CopyOf
  <1>3. /\ o \in Seq(Reached) /\ n \in Nat
        /\ \A q \in Items(p) : \E i \in 1..n : o[i] = q
        /\ \A i \in 1..n : o[i] \in Items(p)
        /\ \A i, j \in 1..n : i # j => o[i] # o[j]
    <2> HIDE DEF p
    <2>1. /\ o \in Seq(Reached)
          /\ \A q \in Items(p) : \E i \in 1..Len(o) : o[i] = q
          /\ \A i \in 1..Len(o) : o[i] \in Items(p)
          /\ \A i, j \in 1..Len(o) : i # j => o[i] # o[j]
      BY <1>1, InOrderIs
    <2> HIDE DEF o
    <2>2. n \in Nat
      BY <2>1
    <2> QED BY <2>1, <2>2
  <1>4. \A q \in Reached : q \in Seq(Names)
    BY ReachedIs
  <1>5. /\ u \in Seq(Reached) /\ Len(u) = n + m - 1
        /\ \A i \in 1..n : u[i] = o[i]
        /\ \A i \in n + 1..n + m - 1 : u[i] = t[i - n + 1]
    <2> HIDE DEF o, p
    <2>1. Tail(t) \in Seq(Reached) /\ Len(Tail(t)) = m - 1 /\ \A i \in 1..m - 1 : Tail(t)[i] = t[i + 1]
      BY <1>1
    <2>2. u \in Seq(Reached) /\ Len(u) = n + m - 1
      BY <1>3, <2>1
    <2>3. \A i \in 1..n : u[i] = o[i]
      BY <1>3, <2>1
    <2>4. ASSUME NEW i \in n + 1..n + m - 1 PROVE u[i] = t[i - n + 1]
      <3>1. u[i] = Tail(t)[i - n]
        BY <1>1, <1>3, <2>1
      <3>2. i - n \in 1..m - 1
        BY <1>1, <1>3
      <3>3. Tail(t)[i - n] = t[i - n + 1]
        BY <2>1, <3>2
      <3> QED BY <3>1, <3>3
    <2> QED BY <2>2, <2>3, <2>4
  <1>6. \A i \in 1..m : \A j \in 1..m : i # j => ~Covers(t[i], t[j])
    BY DEF CopyOf
  <1>7. \A i \in 1..n : o[i] \in Reached /\ Len(o[i]) = Len(p) + 1 /\ Covers(p, o[i]) /\ ~Covers(o[i], p)
    BY <1>1, <1>3, PartIs
  <1>8. \A i \in 1..Len(u) : \/ i \in 1..n /\ u[i] = o[i]
                             \/ i \in n + 1..n + m - 1 /\ i - n + 1 \in 2..m /\ u[i] = t[i - n + 1]
    BY <1>1, <1>3, <1>5
  <1>9. DOMAIN d = DOMAIN c \cup {p} /\ DOMAIN d \subseteq Reached /\ d = [q \in DOMAIN d |-> Kept(q)]
    <2>1. DOMAIN c \subseteq Reached /\ \A q \in DOMAIN c : c[q] = Kept(q)
      BY DEF CopyOf
    <2> QED BY <1>1, <2>1
  <1> HIDE DEF p, o, n, m, u, d
  <1>10. ASSUME NEW q \in Reached PROVE q \in DOMAIN d \/ \E i \in 1..Len(u) : Covers(u[i], q)
    <2>1. CASE q \in DOMAIN c
      BY <1>9, <2>1
    <2>2. CASE \E i \in 1..m : Covers(t[i], q)
      <3>1. PICK i \in 1..m : Covers(t[i], q)
        BY <2>2
      <3>2. CASE i = 1 /\ q # p
        <4>1. PICK r \in Items(p) : Covers(r, q)
          BY <1>1, <3>1, <3>2, ThroughParts
        <4>2. PICK j \in 1..n : o[j] = r
          BY <1>3
        <4>3. j \in 1..Len(u) /\ u[j] = r
          BY <1>1, <1>3, <1>5, <4>2
        <4> QED BY <4>1, <4>3
      <3>3. CASE i # 1
        <4>1. i + n - 1 \in n + 1..n + m - 1 /\ (i + n - 1) - n + 1 = i
          BY <1>1, <1>3, <3>3
        <4>2. i + n - 1 \in 1..Len(u) /\ u[i + n - 1] = t[i]
          BY <1>1, <1>3, <1>5, <4>1
        <4> QED BY <3>1, <4>2
      <3> QED BY <1>9, <3>2, <3>3
    <2> QED BY <2>1, <2>2 DEF CopyOf, m
  <1>11. ASSUME NEW q \in DOMAIN d, NEW i \in 1..Len(u), Covers(u[i], q) PROVE FALSE
    <2>1. q \in Seq(Names) /\ p \in Seq(Names)
      BY <1>1, <1>4, <1>9
    <2>2. CASE i \in 1..n /\ u[i] = o[i]
      <3>1. Covers(o[i], q) /\ o[i] \in Seq(Names)
        BY <1>4, <1>7, <1>11, <2>2
      <3>2. Covers(p, q) /\ q # p
        BY <1>7, <2>1, <2>2, <3>1, CoversAll
      <3>3. q \in DOMAIN c
        BY <1>9, <3>2
      <3> QED BY <1>1, <3>2, <3>3 DEF CopyOf, m
    <2>3. CASE i \in n + 1..n + m - 1 /\ i - n + 1 \in 2..m /\ u[i] = t[i - n + 1]
      <3>1. Covers(t[i - n + 1], q) /\ i - n + 1 \in 1..m /\ i - n + 1 # 1
        BY <1>11, <2>3
      <3>2. q # p
        BY <1>1, <1>6, <3>1
      <3> QED BY <1>9, <3>1, <3>2 DEF CopyOf, m
    <2> QED BY <1>8, <2>2, <2>3
  <1>12. ASSUME NEW i \in 1..Len(u), NEW j \in 1..Len(u), i # j, Covers(u[i], u[j]) PROVE FALSE
    <2>1. \A k \in 1..m : t[k] \in Seq(Names)
      BY <1>1, <1>4 DEF m
    <2>2. p \in Seq(Names) /\ \A k \in 1..n : o[k] \in Seq(Names)
      BY <1>1, <1>4, <1>7
    <2>3. CASE i \in 1..n /\ u[i] = o[i] /\ j \in 1..n /\ u[j] = o[j]
      <3>1. o[i] = o[j]
        BY <1>7, <1>12, <2>2, <2>3, CoversSame
      <3> QED BY <1>3, <1>12, <2>3, <3>1
    <2>4. CASE i \in 1..n /\ u[i] = o[i] /\ j - n + 1 \in 2..m /\ u[j] = t[j - n + 1]
      <3>1. Covers(o[i], t[j - n + 1]) /\ j - n + 1 \in 1..m /\ 1 # j - n + 1
        BY <1>12, <2>4
      <3>2. Covers(p, t[j - n + 1])
        BY <1>7, <2>1, <2>2, <2>4, <3>1, CoversAll
      <3> QED BY <1>1, <1>6, <3>1, <3>2
    <2>5. CASE i - n + 1 \in 2..m /\ u[i] = t[i - n + 1] /\ j \in 1..n /\ u[j] = o[j]
      <3> DEFINE v == t[i - n + 1]
      <3>1. Covers(v, o[j]) /\ i - n + 1 \in 1..m /\ i - n + 1 # 1 /\ v \in Seq(Names)
        BY <1>12, <2>1, <2>5
      <3>2. ~Covers(v, p) /\ ~Covers(p, v)
        BY <1>1, <1>6, <3>1
      <3> HIDE DEF v
      <3>3. CASE Len(v) <= Len(p)
        BY <1>7, <2>2, <2>5, <3>1, <3>2, <3>3, CoversBoth
      <3>4. CASE Len(p) <= Len(v)
        BY <1>7, <2>2, <2>5, <3>1, <3>2, <3>4, CoversBoth
      <3>5. Len(p) \in Nat /\ Len(v) \in Nat
        BY <2>2, <3>1
      <3> QED BY <3>3, <3>4, <3>5
    <2>6. CASE i - n + 1 \in 2..m /\ u[i] = t[i - n + 1] /\ j - n + 1 \in 2..m /\ u[j] = t[j - n + 1]
      <3>1. i - n + 1 # j - n + 1 /\ i - n + 1 \in 1..m /\ j - n + 1 \in 1..m
        BY <1>3, <1>5, <1>12, <2>6
      <3> QED BY <1>6, <1>12, <2>6, <3>1
    <2> QED BY <1>8, <2>3, <2>4, <2>5, <2>6
  <1>13. CopyOf(u, d)
    BY <1>5, <1>9, <1>10, <1>11, <1>12 DEF CopyOf
  <1> QED BY <1>1, <1>2, <1>13 DEF p, o, u, d

(***************************************************************************)
(* The invariant.                                                          *)
(***************************************************************************)
Excluded ==
  {<<<<"imports">>, "section_excluded">>} \cup {<<t, "file_locations_rolled_up">> : t \in LocationTables}
Omitted == {<<NamingLocations, "source_items_unavailable">>}

\* The kinds of loss that copying S, and dropping n exemplars, may record.
KindsOf(S, n) ==
  [list \in Lists |-> CASE list = "exclusions" -> Excluded
                        [] list = "omissions" -> Omitted
                        [] list = "truncations" -> LossKeys(S, n)]

TooManyKinds(n) ==
  1 + Cardinality(LocationTables) + 1 + Cardinality(LossKeys(Reached, n)) > MaxCoverageRecords

\* The truncations are what was lost of S and of n exemplars.
Told(records, S, n) ==
  /\ Keys(records) = LossKeys(S, n)
  /\ \A r \in records : r.amount = LossOf(S, <<r.path, r.kind>>, n)

\* The ledger tells of what was copied and dropped so far.
LedgerKept ==
  /\ IsLedger(ledger)
  /\ \A list \in Lists : Keys(ledger[list]) \subseteq KindsOf(DOMAIN copied, dropped.exemplars)[list]
  /\ phase # "overfull" =>
       /\ Told(ledger["truncations"], DOMAIN copied, dropped.exemplars)
       /\ ledger["omissions"] = {} <=> dropped.sources = 0
  /\ phase = "overfull" => TooManyKinds(dropped.exemplars)

DroppedTyped ==
  /\ DOMAIN dropped = {"tables", "exemplars", "sources"}
  /\ dropped.exemplars \in Nat /\ dropped.sources \in Nat

\* What cannot have happened yet.
PhaseTrue ==
  /\ phase \in {"project", "rollup", "name"} => DOMAIN copied = {} /\ dropped.sources = 0
  /\ phase \in {"project", "rollup"} => dropped.exemplars = 0
  /\ phase \in {"serialize", "printed", "oversize"} => todo = <<>>

ContextInvariant ==
  document \in Documents /\ CopyOf(todo, copied) /\ DroppedTyped /\ LedgerKept /\ PhaseTrue

\* There are finitely many kinds of loss.
LEMMA KindsFinite ==
  ASSUME document \in Documents, NEW n \in Nat
  PROVE  /\ IsFiniteSet(Excluded) /\ Cardinality(Excluded) <= 1 + Cardinality(LocationTables)
         /\ IsFiniteSet(Omitted) /\ Cardinality(Omitted) = 1
         /\ \A S \in SUBSET Reached : IsFiniteSet(LossKeys(S, n)) /\ LossKeys(S, n) \subseteq LossKeys(Reached, n)
         /\ Cardinality(LocationTables) \in Nat
  <1> DEFINE f == [t \in LocationTables |-> <<t, "file_locations_rolled_up">>]
             image == {f[t] : t \in DOMAIN f}
             first == <<<<"imports">>, "section_excluded">>
  <1>1. IsFiniteSet(LocationTables) /\ DOMAIN f = LocationTables
    BY ContextAssumption DEF ContextAssumption
  <1>2. Excluded = image \cup {first}
    BY DEF Excluded
  <1>3. IsFiniteSet(image) /\ Cardinality(image) \in Nat /\ Cardinality(image) <= Cardinality(LocationTables)
    <2> HIDE DEF f
    <2> QED BY <1>1, ImageIs
  <1>4. Cardinality(LocationTables) \in Nat
    BY <1>1, FS_CardinalityType
  <1> HIDE DEF image, first
  <1>5. IsFiniteSet(Excluded) /\ Cardinality(Excluded) <= 1 + Cardinality(LocationTables)
    BY <1>2, <1>3, <1>4, FS_AddElement
  <1>6. IsFiniteSet(Omitted) /\ Cardinality(Omitted) = 1
    BY FS_Singleton DEF Omitted
  <1>7. ASSUME NEW S \in SUBSET Reached
        PROVE  IsFiniteSet(LossKeys(S, n)) /\ LossKeys(S, n) \subseteq LossKeys(Reached, n)
    <2> DEFINE U == {p \in S : Excess(p) > 0}
               g == [p \in U |-> KeyOf(p)]
               keys == {g[p] : p \in DOMAIN g}
    <2>1. IsFiniteSet(U) /\ DOMAIN g = U
      BY ReachedIs, FS_Subset
    <2>2. IsFiniteSet(keys)
      <3> HIDE DEF g
      <3> QED BY <2>1, ImageIs
    <2>3. LossKeys(S, n) = keys \cup IF n > 0 THEN {Exemplars} ELSE {}
      BY DEF LossKeys
    <2>4. LossKeys(S, n) \subseteq LossKeys(Reached, n)
      BY DEF LossKeys
    <2> HIDE DEF keys
    <2>5. IsFiniteSet(LossKeys(S, n))
      BY <2>2, <2>3, FS_AddElement
    <2> QED BY <2>4, <2>5
  <1> QED BY <1>4, <1>5, <1>6, <1>7

\* A loss of a kind that may be is recorded, unless there are too many.
LEMMA LoseIs ==
  ASSUME document \in Documents, IsLedger(ledger), NEW n \in Nat,
         \A list \in Lists : Keys(ledger[list]) \subseteq KindsOf(Reached, n)[list],
         NEW list \in Lists, NEW pattern, NEW kind, NEW amount \in Nat, NEW then,
         amount > 0 => <<pattern, kind>> \in KindsOf(Reached, n)[list],
         Lose(list, pattern, kind, amount, then)
  PROVE  \/ amount = 0 /\ ledger' = ledger /\ phase' = then
         \/ amount > 0 /\ ledger' = _record(ledger, list, pattern, kind, amount) /\ phase' = then
         \/ amount > 0 /\ ledger' = ledger /\ phase' = "overfull" /\ TooManyKinds(n)
  <1>1. CASE amount = 0
    BY <1>1 DEF Lose
  <1>2. CASE amount > 0 /\ Recordable(ledger, list, pattern, kind)
    BY <1>2 DEF Lose
  <1>3. CASE amount > 0 /\ ~Recordable(ledger, list, pattern, kind)
    <2> DEFINE kinds == KindsOf(Reached, n)
    <2>1. ledger' = ledger /\ phase' = "overfull"
      <3>1. amount # 0
        BY <1>3
      <3> QED BY <1>3, <3>1, Zenon DEF Lose
    <2>2. kinds["exclusions"] = Excluded /\ kinds["omissions"] = Omitted /\ kinds["truncations"] = LossKeys(Reached, n)
      BY DEF KindsOf, Lists
    <2>3. \A other \in Lists : IsFiniteSet(kinds[other]) /\ Keys(ledger[other]) \subseteq kinds[other]
      <3>1. \A other \in Lists : IsFiniteSet(kinds[other])
        <4> HIDE DEF kinds
        <4> QED BY <2>2, KindsFinite DEF Lists
      <3> QED BY <3>1
    <2>4. <<pattern, kind>> \in kinds[list]
      BY <1>3
    <2> HIDE DEF kinds
    <2>5. Cardinality(kinds["exclusions"]) + Cardinality(kinds["omissions"])
            + Cardinality(kinds["truncations"]) > MaxCoverageRecords
      BY <1>3, <2>3, <2>4, NoRoom
    <2>6. Cardinality(Excluded) \in Nat /\ Cardinality(LossKeys(Reached, n)) \in Nat
      BY KindsFinite, FS_CardinalityType
    <2>7. TooManyKinds(n)
      <3>1. Cardinality(Excluded) <= 1 + Cardinality(LocationTables) /\ Cardinality(Omitted) = 1
            /\ Cardinality(LocationTables) \in Nat /\ MaxCoverageRecords \in Nat
        BY KindsFinite, ContextAssumption DEF ContextAssumption
      <3> QED BY <2>2, <2>5, <2>6, <3>1 DEF TooManyKinds
    <2> QED BY <1>3, <2>1, <2>7
  <1>4. amount = 0 \/ amount > 0
    OBVIOUS
  <1> QED BY <1>1, <1>2, <1>3, <1>4

\* What depends on the document alone stays while it does.
LEMMA DocumentStays ==
  ASSUME document' = document
  PROVE  /\ Reached' = Reached
         /\ \A p : Kept(p)' = Kept(p) /\ Excess(p)' = Excess(p) /\ KeyOf(p)' = KeyOf(p) /\ Cut(p)' = Cut(p)
         /\ \A S, n : LossKeys(S, n)' = LossKeys(S, n)
         /\ \A S, n, k : LossOf(S, k, n)' = LossOf(S, k, n)
         /\ \A t, c : CopyOf(t, c)' = CopyOf(t, c)
  BY DEF Reached, Kept, Excess, KeyOf, KindOf, Pattern, Cut, CutOf, Passed, Limit, LossKeys, LossOf, CopyOf, Covers,
         Exemplars

\* Nothing is lost at first.
LEMMA ContextStarts == ContextInit => ContextInvariant
  <1> SUFFICES ASSUME ContextInit PROVE ContextInvariant
    OBVIOUS
  <1> USE DEF ContextInit, ContextStart
  <1>1. document \in Documents /\ DOMAIN copied = {} /\ todo = <<<<>>>>
    OBVIOUS
  <1>2. CopyOf(todo, copied)
    <2>1. todo \in Seq(Reached) /\ Len(todo) = 1 /\ todo[1] = <<>>
      BY <1>1, ReachedIs
    <2>2. \A p : Covers(<<>>, p) <=> 0 <= Len(p)
      BY DEF Covers
    <2>3. \A p \in Reached : Len(p) \in Nat
      BY <1>1, ReachedIs
    <2>4. copied = [p \in DOMAIN copied |-> Kept(p)]
      OBVIOUS
    <2> HIDE DEF ContextInit, ContextStart
    <2> QED BY <1>1, <2>1, <2>2, <2>3, <2>4 DEF CopyOf
  <1>3. DroppedTyped /\ PhaseTrue
    BY DEF DroppedTyped, PhaseTrue
  <1>4. IsLedger(ledger) /\ \A list \in Lists : ledger[list] = {}
    BY FS_EmptySet DEF IsLedger, Lists, OnePerKind
  <1>5. LossKeys({}, 0) = {}
    BY DEF LossKeys
  <1>6. LedgerKept
    <2>1. \A list \in Lists : Keys(ledger[list]) = {}
      BY <1>4 DEF Keys
    <2>2. Told(ledger["truncations"], DOMAIN copied, dropped.exemplars)
      BY <1>1, <1>4, <1>5, <2>1 DEF Told, Lists
    <2>3. ledger["omissions"] = {} <=> dropped.sources = 0
      BY <1>4 DEF Lists
    <2> QED BY <1>4, <2>1, <2>2, <2>3 DEF LedgerKept
  <1> QED BY <1>1, <1>2, <1>3, <1>6 DEF ContextInvariant

\* The ledger tells of a loss as it happens, whichever list it belongs to.
LEMMA LedgerKeeps ==
  ASSUME ContextInvariant, phase # "overfull", document' = document,
         NEW list \in Lists, NEW pattern, NEW kind, NEW amount \in Nat, NEW then,
         Lose(list, pattern, kind, amount, then), then # "overfull",
         NEW T \in SUBSET Reached, T = DOMAIN copied', NEW m \in Nat, m = dropped.exemplars',
         amount > 0 => <<pattern, kind>> \in KindsOf(T, m)[list],
         LossKeys(T, m) = LossKeys(DOMAIN copied, dropped.exemplars)
                            \cup IF list = "truncations" /\ amount > 0 THEN {<<pattern, kind>>} ELSE {},
         \A k : LossOf(T, k, m) = LossOf(DOMAIN copied, k, dropped.exemplars)
                                    + IF list = "truncations" /\ k = <<pattern, kind>> THEN amount ELSE 0,
         dropped.sources' = 0 <=> dropped.sources = 0 /\ ~(list = "omissions" /\ amount > 0)
  PROVE  LedgerKept' /\ (phase' = then \/ phase' = "overfull")
  <1> DEFINE S == DOMAIN copied n == dropped.exemplars key == <<pattern, kind>>
  <1>1. document \in Documents /\ IsLedger(ledger) /\ n \in Nat /\ m \in Nat /\ S \subseteq Reached
    BY DEF ContextInvariant, LedgerKept, DroppedTyped, CopyOf
  <1>2. /\ \A other \in Lists : Keys(ledger[other]) \subseteq KindsOf(S, n)[other]
        /\ Told(ledger["truncations"], S, n)
        /\ ledger["omissions"] = {} <=> dropped.sources = 0
    BY DEF ContextInvariant, LedgerKept
  <1>3. LossKeys(S, n) \subseteq LossKeys(T, m) /\ LossKeys(T, m) \subseteq LossKeys(Reached, m)
    BY <1>1, KindsFinite
  <1>4. \A other \in Lists : /\ KindsOf(S, n)[other] \subseteq KindsOf(T, m)[other]
                             /\ KindsOf(T, m)[other] \subseteq KindsOf(Reached, m)[other]
    <2> HIDE DEF S, n
    <2> QED BY <1>3 DEF KindsOf, Lists
  <1>5. /\ LossKeys(DOMAIN copied, dropped.exemplars)' = LossKeys(T, m)
        /\ \A k : LossOf(DOMAIN copied, k, dropped.exemplars)' = LossOf(T, k, m)
        /\ LossKeys(Reached, dropped.exemplars)' = LossKeys(Reached, m)
        /\ KindsOf(DOMAIN copied, dropped.exemplars)' = KindsOf(T, m)
    <2>1. /\ Reached' = Reached
          /\ \A p : Excess(p)' = Excess(p) /\ KeyOf(p)' = KeyOf(p) /\ Cut(p)' = Cut(p)
      BY DocumentStays
    <2>2. LossKeys(DOMAIN copied, dropped.exemplars)' = LossKeys(T, m)
      BY <2>1 DEF LossKeys, Exemplars
    <2>3. \A k : CutOf(DOMAIN copied, k)' = CutOf(T, k)
      BY <2>1 DEF CutOf
    <2>4. \A k : LossOf(DOMAIN copied, k, dropped.exemplars)' = LossOf(T, k, m)
      BY <2>3 DEF LossOf, Exemplars
    <2>5. LossKeys(Reached, dropped.exemplars)' = LossKeys(Reached, m)
      BY <2>1 DEF LossKeys, Exemplars
    <2>6. KindsOf(DOMAIN copied, dropped.exemplars)' = KindsOf(T, m)
      BY <2>2 DEF KindsOf, Excluded, Omitted
    <2> QED BY <2>2, <2>4, <2>5, <2>6
  <1>6. \/ amount = 0 /\ ledger' = ledger /\ phase' = then
        \/ amount > 0 /\ ledger' = _record(ledger, list, pattern, kind, amount) /\ phase' = then
        \/ amount > 0 /\ ledger' = ledger /\ phase' = "overfull" /\ TooManyKinds(m)
    <2> HIDE DEF S, n
    <2>1. \A other \in Lists : Keys(ledger[other]) \subseteq KindsOf(Reached, m)[other]
      BY <1>2, <1>4
    <2>2. amount > 0 => <<pattern, kind>> \in KindsOf(Reached, m)[list]
      BY <1>4
    <2> QED BY <1>1, <2>1, <2>2, LoseIs
  <1>7. /\ LossKeys(T, m) = LossKeys(S, n) \cup IF list = "truncations" /\ amount > 0 THEN {key} ELSE {}
        /\ \A k : LossOf(T, k, m) = LossOf(S, k, n) + IF list = "truncations" /\ k = key THEN amount ELSE 0
        /\ amount > 0 => key \in KindsOf(T, m)[list]
    OBVIOUS
  <1>8. ASSUME NEW k, k \notin LossKeys(S, n) PROVE LossOf(S, k, n) = 0
    BY <1>1, <1>8, NoLoss
  <1>16. \A k : LossOf(S, k, n) \in Nat
    BY <1>1, CutFinite
  <1>9. SUFFICES /\ IsLedger(ledger')
                 /\ \A other \in Lists : Keys(ledger'[other]) \subseteq KindsOf(T, m)[other]
                 /\ phase' # "overfull" =>
                      /\ Keys(ledger'["truncations"]) = LossKeys(T, m)
                      /\ \A x \in ledger'["truncations"] : x.amount = LossOf(T, <<x.path, x.kind>>, m)
                      /\ ledger'["omissions"] = {} <=> dropped.sources' = 0
                 /\ phase' = "overfull" => TooManyKinds(m)
                 /\ phase' = then \/ phase' = "overfull"
    <2>1. IsLedger(ledger)' <=> IsLedger(ledger')
      BY DEF IsLedger, OnePerKind
    <2>2. TooManyKinds(dropped.exemplars)' <=> TooManyKinds(m)
      BY <1>5 DEF TooManyKinds
    <2>3. \A other : Keys(ledger[other])' = Keys(ledger'[other])
      BY DEF Keys
    <2> QED BY <1>5, <2>1, <2>2, <2>3 DEF LedgerKept, Told
  <1>10. \A x \in ledger["truncations"] : x.amount \in Nat /\ x.amount = LossOf(S, <<x.path, x.kind>>, n)
    BY <1>1, <1>2 DEF IsLedger, OnePerKind, Lists, Told
  <1>11. Keys(ledger["truncations"]) = LossKeys(S, n)
    BY <1>2 DEF Told
  <1>12. dropped.sources' = 0 <=> dropped.sources = 0 /\ ~(list = "omissions" /\ amount > 0)
    OBVIOUS
  <1> HIDE DEF S, n, key
  <1>13. CASE amount = 0 /\ ledger' = ledger /\ phase' = then
    <2>1. LossKeys(T, m) = LossKeys(S, n)
      <3>1. ~(amount > 0)
        BY <1>13
      <3> QED BY <1>7, <3>1
    <2>2. \A x \in ledger["truncations"] : x.amount = LossOf(T, <<x.path, x.kind>>, m)
      <3>1. ASSUME NEW k PROVE LossOf(T, k, m) = LossOf(S, k, n)
        <4>1. LossOf(T, k, m) = LossOf(S, k, n) + 0
          BY <1>7, <1>13
        <4> QED BY <1>16, <4>1
      <3> QED BY <1>10, <3>1
    <2>3. \A other \in Lists : Keys(ledger[other]) \subseteq KindsOf(T, m)[other]
      BY <1>2, <1>4
    <2>4. ledger["omissions"] = {} <=> dropped.sources' = 0
      <3>1. ~(amount > 0)
        BY <1>13
      <3> QED BY <1>2, <1>12, <3>1
    <2> QED BY <1>1, <1>11, <1>13, <2>1, <2>2, <2>3, <2>4
  <1>14. CASE amount > 0 /\ ledger' = ledger /\ phase' = "overfull" /\ TooManyKinds(m)
    <2>1. \A other \in Lists : Keys(ledger[other]) \subseteq KindsOf(T, m)[other]
      BY <1>2, <1>4
    <2> QED BY <1>1, <1>14, <2>1
  <1>15. CASE amount > 0 /\ ledger' = _record(ledger, list, pattern, kind, amount) /\ phase' = then
    <2> DEFINE after == _record(ledger, list, pattern, kind, amount)
    <2>1. /\ IsLedger(after)
          /\ \A other \in Lists : other # list => after[other] = ledger[other]
          /\ Keys(after[list]) = Keys(ledger[list]) \cup {key}
          /\ \A x \in after[list] :
               IF <<x.path, x.kind>> # key THEN x \in ledger[list]
               ELSE \/ key \notin Keys(ledger[list]) /\ x.amount = amount
                    \/ \E y \in ledger[list] : y.path = x.path /\ y.kind = x.kind /\ x.amount = amount + y.amount
      <3>1. Entered(ledger, after, list, <<pattern, kind>>, amount)
        BY <1>1, RecordIs
      <3> HIDE DEF after
      <3> QED BY <3>1 DEF Entered, key
    <2> HIDE DEF after
    <2>2. ledger' = after
      BY <1>15 DEF after
    <2>3. ASSUME NEW other \in Lists PROVE Keys(after[other]) \subseteq KindsOf(T, m)[other]
      <3>1. Keys(ledger[other]) \subseteq KindsOf(T, m)[other]
        BY <1>2, <1>4
      <3>2. CASE other # list
        BY <2>1, <3>1, <3>2
      <3>3. CASE other = list
        BY <1>7, <1>15, <2>1, <3>1, <3>3
      <3> QED BY <3>2, <3>3
    <2>4. Keys(after["truncations"]) = LossKeys(T, m)
      <3>1. CASE list = "truncations"
        BY <1>7, <1>11, <1>15, <2>1, <3>1
      <3>2. CASE list # "truncations"
        BY <1>7, <1>11, <2>1, <3>2 DEF Lists
      <3> QED BY <3>1, <3>2
    <2>5. ASSUME NEW x \in after["truncations"] PROVE x.amount = LossOf(T, <<x.path, x.kind>>, m)
      <3>1. CASE list # "truncations"
        <4>1. x \in ledger["truncations"]
          BY <2>1, <3>1 DEF Lists
        <4>2. LossOf(T, <<x.path, x.kind>>, m) = LossOf(S, <<x.path, x.kind>>, n) + 0
          BY <1>7, <3>1
        <4>3. LossOf(T, <<x.path, x.kind>>, m) = LossOf(S, <<x.path, x.kind>>, n)
          BY <1>16, <4>2
        <4> QED BY <1>10, <4>1, <4>3
      <3>2. CASE list = "truncations" /\ <<x.path, x.kind>> # key
        <4>1. x \in ledger["truncations"]
          BY <2>1, <3>2
        <4>2. LossOf(T, <<x.path, x.kind>>, m) = LossOf(S, <<x.path, x.kind>>, n) + 0
          BY <1>7, <3>2
        <4>3. LossOf(T, <<x.path, x.kind>>, m) = LossOf(S, <<x.path, x.kind>>, n)
          BY <1>16, <4>2
        <4> QED BY <1>10, <4>1, <4>3
      <3>3. CASE list = "truncations" /\ <<x.path, x.kind>> = key
        <4>1. LossOf(T, key, m) = LossOf(S, key, n) + amount
          BY <1>7, <3>3
        <4>2. CASE key \notin Keys(ledger[list]) /\ x.amount = amount
          <5>1. LossOf(S, key, n) = 0
            BY <1>8, <1>11, <3>3, <4>2
          <5>2. LossOf(T, key, m) = amount
            BY <4>1, <5>1
          <5> QED BY <3>3, <4>2, <5>2
        <4>3. CASE \E y \in ledger[list] : y.path = x.path /\ y.kind = x.kind /\ x.amount = amount + y.amount
          <5>1. PICK y \in ledger[list] : y.path = x.path /\ y.kind = x.kind /\ x.amount = amount + y.amount
            BY <4>3
          <5>2. y.amount \in Nat /\ y.amount = LossOf(S, key, n)
            BY <1>10, <3>3, <5>1
          <5>3. LossOf(T, key, m) = amount + y.amount
            BY <4>1, <5>2
          <5> QED BY <3>3, <5>1, <5>3
        <4> QED BY <2>1, <3>3, <4>2, <4>3
      <3> QED BY <3>1, <3>2, <3>3
    <2>6. after["omissions"] = {} <=> dropped.sources' = 0
      <3>1. CASE list # "omissions"
        BY <1>2, <1>12, <2>1, <3>1 DEF Lists
      <3>2. CASE list = "omissions"
        <4>1. key \in Keys(after["omissions"])
          BY <2>1, <3>2
        <4>2. after["omissions"] # {}
          BY <4>1 DEF Keys
        <4> QED BY <1>12, <1>15, <3>2, <4>2
      <3> QED BY <3>1, <3>2
    <2> QED BY <1>15, <2>1, <2>2, <2>3, <2>4, <2>5, <2>6
  <1> QED BY <1>6, <1>13, <1>14, <1>15

(***************************************************************************)
(* The steps.                                                              *)
(***************************************************************************)
\* A loss of a list other than the truncations changes nothing of those.
LEMMA OtherLoss ==
  ASSUME ContextInvariant, phase # "overfull", document' = document, copied' = copied,
         NEW list \in Lists, list # "truncations", NEW pattern, NEW kind, NEW amount \in Nat, NEW then,
         Lose(list, pattern, kind, amount, then), then # "overfull",
         dropped.exemplars' = dropped.exemplars,
         <<pattern, kind>> \in KindsOf({}, 0)[list],
         dropped.sources' = 0 <=> dropped.sources = 0 /\ ~(list = "omissions" /\ amount > 0)
  PROVE  LedgerKept' /\ (phase' = then \/ phase' = "overfull")
  <1> DEFINE T == DOMAIN copied m == dropped.exemplars
  <1>1. document \in Documents /\ T \in SUBSET Reached /\ m \in Nat
    BY DEF ContextInvariant, DroppedTyped, CopyOf
  <1>2. T = DOMAIN copied' /\ m = dropped.exemplars'
    OBVIOUS
  <1>3. <<pattern, kind>> \in KindsOf(T, m)[list]
    BY DEF KindsOf, Lists
  <1>4. LossKeys(T, m) = LossKeys(DOMAIN copied, dropped.exemplars)
                           \cup IF list = "truncations" /\ amount > 0 THEN {<<pattern, kind>>} ELSE {}
    OBVIOUS
  <1>5. ASSUME NEW k
        PROVE  LossOf(T, k, m) = LossOf(DOMAIN copied, k, dropped.exemplars)
                                   + IF list = "truncations" /\ k = <<pattern, kind>> THEN amount ELSE 0
    <2>1. LossOf(T, k, m) \in Nat
      BY <1>1, CutFinite
    <2>2. (IF list = "truncations" /\ k = <<pattern, kind>> THEN amount ELSE 0) = 0
      OBVIOUS
    <2> QED BY <2>1, <2>2
  <1> HIDE DEF T, m
  <1> QED BY <1>1, <1>2, <1>3, <1>4, <1>5, LedgerKeeps

\* The imports left out are an exclusion.
LEMMA ExcludeKeeps == ContextInvariant /\ ExcludeImports => ContextInvariant'
  <1> SUFFICES ASSUME ContextInvariant, ExcludeImports PROVE ContextInvariant'
    OBVIOUS
  <1> DEFINE then == IF full THEN "bound" ELSE "rollup"
  <1>1. /\ phase = "project" /\ document' = document /\ copied' = copied /\ dropped' = dropped /\ todo' = todo
        /\ Lose("exclusions", <<"imports">>, "section_excluded", 1, then)
    BY DEF ExcludeImports
  <1>2. <<<<"imports">>, "section_excluded">> \in KindsOf({}, 0)["exclusions"]
    BY DEF KindsOf, Lists, Excluded
  <1>3. then # "overfull" /\ then \in {"bound", "rollup"}
    OBVIOUS
  <1> HIDE DEF then
  <1>4. LedgerKept' /\ (phase' = then \/ phase' = "overfull")
    BY <1>1, <1>2, <1>3, OtherLoss DEF Lists
  <1>5. DroppedTyped' /\ PhaseTrue'
    BY <1>1, <1>3, <1>4 DEF ContextInvariant, DroppedTyped, PhaseTrue
  <1>6. CopyOf(todo, copied)'
    BY <1>1, DocumentStays DEF ContextInvariant, CopyOf
  <1> QED BY <1>1, <1>4, <1>5, <1>6 DEF ContextInvariant

\* A table rolled up is an exclusion, not a loss of the projection.
LEMMA RollUpKeeps ==
  ASSUME ContextInvariant, NEW table \in LocationTables, RollUp(table)
  PROVE  ContextInvariant'
  <1>1. /\ phase = "rollup" /\ document' = document /\ copied' = copied /\ todo' = todo
        /\ dropped' = [dropped EXCEPT !.tables = @ \cup {table}]
    BY DEF RollUp
  <1>2. PICK n \in 0..Losses : Lose("exclusions", table, "file_locations_rolled_up", n, "rollup")
    BY DEF RollUp
  <1>3. n \in Nat
    BY ContextAssumption DEF ContextAssumption
  <1>4. <<table, "file_locations_rolled_up">> \in KindsOf({}, 0)["exclusions"]
    BY DEF KindsOf, Lists, Excluded
  <1>5. DroppedTyped' /\ dropped.exemplars' = dropped.exemplars /\ dropped.sources' = dropped.sources
    BY <1>1 DEF ContextInvariant, DroppedTyped
  <1>6. LedgerKept' /\ (phase' = "rollup" \/ phase' = "overfull")
    BY <1>1, <1>2, <1>3, <1>4, <1>5, OtherLoss DEF Lists
  <1>7. PhaseTrue'
    BY <1>1, <1>5, <1>6 DEF ContextInvariant, PhaseTrue
  <1>8. CopyOf(todo, copied)'
    BY <1>1, DocumentStays DEF ContextInvariant, CopyOf
  <1> QED BY <1>1, <1>5, <1>6, <1>7, <1>8 DEF ContextInvariant

\* Locations that no table holds make the source incomplete.
LEMMA LocateKeeps == ContextInvariant /\ LocateNames => ContextInvariant'
  <1> SUFFICES ASSUME ContextInvariant, LocateNames PROVE ContextInvariant'
    OBVIOUS
  <1>1. phase = "name" /\ document' = document /\ copied' = copied /\ todo' = todo
    BY DEF LocateNames
  <1>2. PICK n \in 0..Losses : /\ Lose("omissions", NamingLocations, "source_items_unavailable", n, "bound")
                               /\ dropped' = [dropped EXCEPT !.sources = n]
    BY DEF LocateNames
  <1>3. n \in Nat
    BY ContextAssumption DEF ContextAssumption
  <1>4. <<NamingLocations, "source_items_unavailable">> \in KindsOf({}, 0)["omissions"]
    BY DEF KindsOf, Lists, Omitted
  <1>5. DroppedTyped' /\ dropped.exemplars' = dropped.exemplars /\ dropped.sources' = n /\ dropped.sources = 0
    BY <1>1, <1>2, <1>3 DEF ContextInvariant, DroppedTyped, PhaseTrue
  <1>6. dropped.sources' = 0 <=> dropped.sources = 0 /\ ~("omissions" = "omissions" /\ n > 0)
    BY <1>3, <1>5
  <1>7. LedgerKept' /\ (phase' = "bound" \/ phase' = "overfull")
    BY <1>1, <1>2, <1>3, <1>4, <1>5, <1>6, OtherLoss DEF Lists
  <1>8. PhaseTrue'
    BY <1>7 DEF PhaseTrue
  <1>9. CopyOf(todo, copied)'
    BY <1>1, DocumentStays DEF ContextInvariant, CopyOf
  <1> QED BY <1>1, <1>5, <1>7, <1>8, <1>9 DEF ContextInvariant

\* Exemplars left out are a truncation.
LEMMA SampleKeeps == ContextInvariant /\ SampleRegister => ContextInvariant'
  <1> SUFFICES ASSUME ContextInvariant, SampleRegister PROVE ContextInvariant'
    OBVIOUS
  <1>1. phase = "rollup" /\ document' = document /\ copied' = copied /\ todo' = todo
    BY DEF SampleRegister
  <1>2. PICK n \in 0..Losses : /\ Lose("truncations", ExemplarsAt, "list_items", n, "name")
                               /\ dropped' = [dropped EXCEPT !.exemplars = n]
    BY DEF SampleRegister
  <1>3. n \in Nat
    BY ContextAssumption DEF ContextAssumption
  <1>4. /\ DroppedTyped' /\ dropped.exemplars' = n /\ dropped.exemplars = 0
        /\ dropped.sources' = dropped.sources /\ dropped.sources = 0
    BY <1>1, <1>2, <1>3 DEF ContextInvariant, DroppedTyped, PhaseTrue
  <1>5. DOMAIN copied = {} /\ {} \in SUBSET Reached /\ document \in Documents
    BY <1>1 DEF ContextInvariant, PhaseTrue
  <1>6. LossKeys({}, n) = LossKeys({}, 0)
                            \cup IF "truncations" = "truncations" /\ n > 0 THEN {<<ExemplarsAt, "list_items">>} ELSE {}
    BY DEF LossKeys, Exemplars
  <1>7. ASSUME NEW k
        PROVE  LossOf({}, k, n) = LossOf({}, k, 0)
                 + IF "truncations" = "truncations" /\ k = <<ExemplarsAt, "list_items">> THEN n ELSE 0
    <2>1. CutOf({}, k) = {} /\ Cardinality({}) = 0
      BY FS_EmptySet DEF CutOf
    <2>2. LossOf({}, k, n) = 0 + IF k = Exemplars THEN n ELSE 0
      BY <2>1 DEF LossOf
    <2>3. LossOf({}, k, 0) = 0
      BY <2>1 DEF LossOf
    <2> QED BY <1>3, <2>2, <2>3 DEF Exemplars
  <1>8. n > 0 => <<ExemplarsAt, "list_items">> \in KindsOf({}, n)["truncations"]
    BY DEF KindsOf, Lists, LossKeys, Exemplars
  <1>9. LedgerKept' /\ (phase' = "name" \/ phase' = "overfull")
    BY <1>1, <1>2, <1>3, <1>4, <1>5, <1>6, <1>7, <1>8, LedgerKeeps DEF Lists
  <1>10. PhaseTrue'
    BY <1>1, <1>4, <1>5, <1>9 DEF PhaseTrue
  <1>11. CopyOf(todo, copied)'
    BY <1>1, DocumentStays DEF ContextInvariant, CopyOf
  <1> QED BY <1>1, <1>4, <1>9, <1>10, <1>11 DEF ContextInvariant

\* A value copied is cut as it is told.
LEMMA CopyKeeps == ContextInvariant /\ BoundedCopy => ContextInvariant'
  <1> SUFFICES ASSUME ContextInvariant, BoundedCopy PROVE ContextInvariant'
    OBVIOUS
  <1> DEFINE p == Head(todo) T == DOMAIN copied \cup {p} m == dropped.exemplars
             d == [q \in T |-> IF q = p THEN Kept(p) ELSE copied[q]]
  <1>1. /\ phase = "bound" /\ todo # <<>> /\ document' = document /\ dropped' = dropped
        /\ Lose("truncations", Pattern(p), KindOf(p), Excess(p), "bound")
        /\ copied' = d /\ todo' = InOrder(p) \o Tail(todo)
    BY DEF BoundedCopy
  <1>2. document \in Documents /\ CopyOf(todo, copied) /\ m \in Nat /\ DOMAIN copied \in SUBSET Reached
    BY DEF ContextInvariant, DroppedTyped, CopyOf
  <1>3. p \in Reached /\ p \notin DOMAIN copied /\ CopyOf(todo', copied')
    BY <1>1, <1>2, CopyMore
  <1>4. Excess(p) \in Nat
    BY <1>2, <1>3, ReachedIs, KeptIs
  <1>5. T \in SUBSET Reached /\ T = DOMAIN copied' /\ m = dropped.exemplars' /\ dropped.sources' = dropped.sources
    BY <1>1, <1>2, <1>3
  <1> HIDE DEF p, d
  <1>6. LossKeys(T, m) = LossKeys(DOMAIN copied, dropped.exemplars)
                           \cup IF "truncations" = "truncations" /\ Excess(p) > 0 THEN {<<Pattern(p), KindOf(p)>>} ELSE {}
    BY <1>2, <1>3, MoreLoss DEF KeyOf
  <1>7. ASSUME NEW k
        PROVE  LossOf(T, k, m) = LossOf(DOMAIN copied, k, dropped.exemplars)
                 + IF "truncations" = "truncations" /\ k = <<Pattern(p), KindOf(p)>> THEN Excess(p) ELSE 0
    <2>1. LossOf(T, k, m) = LossOf(DOMAIN copied, k, dropped.exemplars) + IF KeyOf(p) = k THEN Excess(p) ELSE 0
      <3> HIDE DEF m
      <3>1. LossOf(DOMAIN copied \cup {p}, k, m) = LossOf(DOMAIN copied, k, m) + IF KeyOf(p) = k THEN Excess(p) ELSE 0
        BY <1>2, <1>3, MoreLoss
      <3> QED BY <3>1 DEF m
    <2>2. KeyOf(p) = k <=> "truncations" = "truncations" /\ k = <<Pattern(p), KindOf(p)>>
      BY DEF KeyOf
    <2> QED BY <2>1, <2>2
  <1>8. Excess(p) > 0 => <<Pattern(p), KindOf(p)>> \in KindsOf(T, m)["truncations"]
    BY <1>6 DEF KindsOf, Lists
  <1> HIDE DEF T, m
  <1>12. dropped.sources' = 0 <=> dropped.sources = 0 /\ ~("truncations" = "omissions" /\ Excess(p) > 0)
    BY <1>5
  <1>13. /\ phase # "overfull" /\ "bound" # "overfull" /\ document' = document /\ "truncations" \in Lists
         /\ Lose("truncations", Pattern(p), KindOf(p), Excess(p), "bound")
    BY <1>1 DEF Lists
  <1>9. LedgerKept' /\ (phase' = "bound" \/ phase' = "overfull")
    BY <1>2, <1>4, <1>5, <1>6, <1>7, <1>8, <1>12, <1>13, LedgerKeeps
  <1>10. DroppedTyped' /\ PhaseTrue'
    BY <1>1, <1>9 DEF ContextInvariant, DroppedTyped, PhaseTrue
  <1>11. CopyOf(todo, copied)'
    BY <1>1, <1>3, DocumentStays DEF CopyOf
  <1> QED BY <1>1, <1>2, <1>9, <1>10, <1>11 DEF ContextInvariant

\* The end of the copy, and printing, lose nothing.
LEMMA EndKeeps ==
  ASSUME ContextInvariant, EndCopy \/ Serialize \/ UNCHANGED contextVars
  PROVE  ContextInvariant'
  <1>1. /\ document' = document /\ copied' = copied /\ todo' = todo /\ ledger' = ledger /\ dropped' = dropped
        /\ (phase' = "overfull" <=> phase = "overfull")
        /\ (phase' = phase \/ (phase' \in {"serialize", "printed", "oversize"} /\ todo = <<>>))
    <2>1. CASE EndCopy
      BY <2>1 DEF EndCopy
    <2>2. CASE Serialize
      BY <2>2 DEF ContextInvariant, PhaseTrue, Serialize
    <2>3. CASE UNCHANGED contextVars
      BY <2>3 DEF contextVars
    <2> QED BY <2>1, <2>2, <2>3
  <1>2. CopyOf(todo, copied)'
    BY <1>1, DocumentStays DEF ContextInvariant, CopyOf
  <1>3. DroppedTyped' /\ PhaseTrue'
    BY <1>1 DEF ContextInvariant, DroppedTyped, PhaseTrue
  <1>4. LedgerKept'
    <2>1. /\ Reached' = Reached
          /\ \A p : Excess(p)' = Excess(p) /\ KeyOf(p)' = KeyOf(p) /\ Cut(p)' = Cut(p)
      BY <1>1, DocumentStays
    <2>2. LossKeys(DOMAIN copied, dropped.exemplars)' = LossKeys(DOMAIN copied, dropped.exemplars)
      BY <1>1, <2>1 DEF LossKeys, Exemplars
    <2>3. \A k : CutOf(DOMAIN copied, k)' = CutOf(DOMAIN copied, k)
      BY <1>1, <2>1 DEF CutOf
    <2>4. \A k : LossOf(DOMAIN copied, k, dropped.exemplars)' = LossOf(DOMAIN copied, k, dropped.exemplars)
      BY <1>1, <2>3 DEF LossOf, Exemplars
    <2>5. KindsOf(DOMAIN copied, dropped.exemplars)' = KindsOf(DOMAIN copied, dropped.exemplars)
      BY <2>2 DEF KindsOf, Excluded, Omitted
    <2>6. IsLedger(ledger)' <=> IsLedger(ledger)
      BY <1>1 DEF IsLedger, OnePerKind
    <2>7. \A other : Keys(ledger[other])' = Keys(ledger[other])
      BY <1>1 DEF Keys
    <2>8. Told(ledger["truncations"], DOMAIN copied, dropped.exemplars)'
            <=> Told(ledger["truncations"], DOMAIN copied, dropped.exemplars)
      BY <1>1, <2>2, <2>4, <2>7 DEF Told
    <2>9. TooManyKinds(dropped.exemplars)' <=> TooManyKinds(dropped.exemplars)
      <3>1. LossKeys(Reached, dropped.exemplars)' = LossKeys(Reached, dropped.exemplars)
        BY <1>1, <2>1 DEF LossKeys, Exemplars
      <3> QED BY <3>1 DEF TooManyKinds
    <2> QED BY <1>1, <2>5, <2>6, <2>7, <2>8, <2>9 DEF LedgerKept, ContextInvariant
  <1> QED BY <1>1, <1>2, <1>3, <1>4 DEF ContextInvariant

\* Every step keeps the ledger true.
LEMMA ContextKeeps == ContextInvariant /\ [ContextNext]_contextVars => ContextInvariant'
  <1> SUFFICES ASSUME ContextInvariant, [ContextNext]_contextVars PROVE ContextInvariant'
    OBVIOUS
  <1>1. CASE ExcludeImports
    BY <1>1, ExcludeKeeps
  <1>2. CASE \E table \in LocationTables : RollUp(table)
    BY <1>2, RollUpKeeps
  <1>3. CASE SampleRegister
    BY <1>3, SampleKeeps
  <1>4. CASE LocateNames
    BY <1>4, LocateKeeps
  <1>5. CASE BoundedCopy
    BY <1>5, CopyKeeps
  <1>6. CASE EndCopy \/ Serialize \/ UNCHANGED contextVars
    BY <1>6, EndKeeps
  <1> QED BY <1>1, <1>2, <1>3, <1>4, <1>5, <1>6 DEF ContextNext

(***************************************************************************)
(* What is printed.                                                        *)
(***************************************************************************)
\* Where no list is cut, all of the document is reached.
LEMMA AllReached ==
  ASSUME document \in Documents, \A p \in Reached : Excess(p) = 0
  PROVE  Reached = DOMAIN document
  <1>1. Reached \subseteq DOMAIN document
    BY ReachedIs
  <1>2. ASSUME NEW p \in DOMAIN document, p \notin Reached PROVE FALSE
    <2> DEFINE U == {k \in Nat : k <= Len(p) /\ SubSeq(p, 1, k) \notin Reached}
               R == OpToRel(<, Nat)
    <2>1. p \in Seq(Names) /\ Len(p) \in Nat /\ SubSeq(p, 1, Len(p)) = p
      BY <1>2, DocumentIs
    <2>2. U \subseteq Nat /\ Len(p) \in U
      <3>1. SubSeq(p, 1, Len(p)) \notin Reached
        BY <1>2, <2>1
      <3>2. Len(p) \in Nat /\ Len(p) <= Len(p)
        BY <2>1
      <3> QED BY <3>1, <3>2
    <2>3. IsWellFoundedOn(R, Nat)
      BY NatLessThanWellFounded
    <2> HIDE DEF U, R
    <2>4. \E k \in U : \A j \in U : ~(<<j, k>> \in R)
      BY <2>2, <2>3, WFMin
    <2>5. PICK k \in U : \A j \in U : ~(<<j, k>> \in R)
      BY <2>4
    <2>6. \A j \in U : ~(j < k)
      BY <2>2, <2>5 DEF R, OpToRel
    <2> DEFINE r == SubSeq(p, 1, k) q == SubSeq(p, 1, k - 1)
    <2>7. k \in Nat /\ k <= Len(p) /\ r \notin Reached
      BY DEF U
    <2>8. r \in DOMAIN document /\ r \in Seq(Names) /\ Len(r) = k
      BY <2>1, <2>7, DocumentIs
    <2>9. k # 0
      <3>1. ASSUME k = 0 PROVE r = <<>>
        BY <2>1, <3>1
      <3> QED BY <2>7, <3>1, ReachedIs
    <2>10. k - 1 \in Nat /\ k - 1 < k /\ k - 1 <= Len(p)
      BY <2>7, <2>9
    <2>11. q \in Reached
      BY <2>6, <2>10 DEF U
    <2>12. SubSeq(r, 1, k - 1) = q
      BY <2>1, <2>7, <2>10
    <2> HIDE DEF r
    <2>13. r # <<>>
      BY <2>8, <2>9
    <2>14. Front(r) = q
      BY <2>8, <2>12 DEF Front
    <2> HIDE DEF q
    <2>15. r \in Children(q) /\ document[q].sort \in {"list", "object"}
      BY <2>8, <2>13, <2>14, DocumentIs DEF Children
    <2>16. CASE document[q].sort = "list"
      <3>1. q \in DOMAIN document /\ q \in Seq(Names)
        BY <2>11, ReachedIs
      <3>2. Kept(q) = document[q].size /\ document[q].size \in Nat /\ document[q].size <= Len(Indices)
        BY <2>11, <2>16, <3>1, KeptIs, DocumentIs
      <3>3. Children(q) = {Append(q, Indices[i]) : i \in 1..document[q].size}
        BY <2>16, <3>1, DocumentIs
      <3>4. PICK i \in 1..document[q].size : r = Append(q, Indices[i])
        BY <2>15, <3>3
      <3>5. Indices \in Seq(ToSet(Indices)) /\ i \in 1..Len(Indices)
        BY <3>2, ContextAssumption DEF ContextAssumption
      <3>6. Last(r) = Indices[i]
        BY <3>1, <3>4, <3>5 DEF Last
      <3>7. Last(r) \in Passed(q)
        BY <3>2, <3>4, <3>6 DEF Passed
      <3>8. r \in Items(q)
        BY <2>15, <3>7 DEF Items
      <3> QED BY <2>7, <2>11, <3>8, ReachedIs DEF r
    <2>17. CASE document[q].sort = "object"
      <3>1. r \in Items(q)
        BY <2>15, <2>17 DEF Items
      <3> QED BY <2>7, <2>11, <3>1, ReachedIs DEF r
    <2> QED BY <2>15, <2>16, <2>17
  <1> QED BY <1>1, <1>2

\* The losses told of are those of the whole document.
LEMMA LossesAre ==
  /\ \A n : n = dropped.exemplars => TrueLosses = LossKeys(Reached, n)
  /\ \A pattern, kind : TrueLoss(pattern, kind) = LossOf(Reached, <<pattern, kind>>, dropped.exemplars)
  <1>1. TrueLosses = LossKeys(Reached, dropped.exemplars)
    BY DEF TrueLosses, LossKeys, KeyOf, Exemplars
  <1>2. ASSUME NEW pattern, NEW kind
        PROVE  TrueLoss(pattern, kind) = LossOf(Reached, <<pattern, kind>>, dropped.exemplars)
    <2>1. {q \in Reached : Pattern(q) = pattern /\ KindOf(q) = kind} = {q \in Reached : KeyOf(q) = <<pattern, kind>>}
      BY DEF KeyOf
    <2>2. UNION {Cut(p) : p \in {q \in Reached : Pattern(q) = pattern /\ KindOf(q) = kind}}
            = CutOf(Reached, <<pattern, kind>>)
      BY <2>1 DEF CutOf
    <2> QED BY <2>2 DEF TrueLoss, LossOf, Exemplars
  <1> QED BY <1>1, <1>2

\* What the ledger tells at the end is all that was lost.
LEMMA ContextFollows == ContextInvariant => ContextTrue
  <1> SUFFICES ASSUME ContextInvariant PROVE ContextTrue
    OBVIOUS
  <1> DEFINE n == dropped.exemplars
  <1>1. document \in Documents /\ CopyOf(todo, copied) /\ n \in Nat /\ LedgerKept /\ PhaseTrue
    BY DEF ContextInvariant, DroppedTyped
  <1>2. TrueLosses = LossKeys(Reached, n)
    BY LossesAre
  <1>3. ASSUME phase = "overfull"
        PROVE  1 + Cardinality(LocationTables) + 1 + Cardinality(TrueLosses) > MaxCoverageRecords
    BY <1>1, <1>2, <1>3 DEF LedgerKept, TooManyKinds
  <1>4. ASSUME phase = "printed"
        PROVE  /\ DOMAIN copied = Reached /\ \A p \in Reached : copied[p] = document[p].size - Excess(p)
               /\ {<<r.path, r.kind>> : r \in ledger.truncations} = TrueLosses
               /\ \A r \in ledger.truncations : r.amount = TrueLoss(r.path, r.kind)
               /\ projection_complete <=> dropped.exemplars = 0 /\ copied = [p \in DOMAIN document |-> document[p].size]
               /\ source_complete <=> corpus_read /\ dropped.sources = 0
    <2>1. todo = <<>> /\ Len(todo) = 0
      BY <1>1, <1>4 DEF PhaseTrue
    <2>2. DOMAIN copied = Reached /\ copied = [p \in Reached |-> Kept(p)]
      <3>1. DOMAIN copied \subseteq Reached /\ Reached \subseteq DOMAIN copied
        BY <1>1, <2>1 DEF CopyOf
      <3> QED BY <1>1, <3>1 DEF CopyOf
    <2>3. Reached \subseteq DOMAIN document
      BY <1>1, ReachedIs
    <2>4. \A p \in Reached : /\ copied[p] = document[p].size - Excess(p)
                             /\ Excess(p) \in Nat /\ document[p].size \in Nat /\ Kept(p) \in Nat
                             /\ Excess(p) = 0 <=> Kept(p) = document[p].size
      <3>1. ASSUME NEW p \in Reached
            PROVE  /\ Kept(p) = document[p].size - Excess(p)
                   /\ Excess(p) \in Nat /\ document[p].size \in Nat /\ Kept(p) \in Nat
                   /\ Excess(p) = 0 <=> Kept(p) = document[p].size
        <4>1. /\ Kept(p) \in Nat /\ Excess(p) \in Nat /\ document[p].size \in Nat
              /\ Excess(p) = document[p].size - Kept(p)
          BY <1>1, <2>3, KeptIs, DocumentIs
        <4> QED BY <4>1
      <3> QED BY <2>2, <3>1
    <2>5. Told(ledger["truncations"], Reached, n) /\ (ledger["omissions"] = {} <=> dropped.sources = 0)
      BY <1>1, <1>4, <2>2 DEF LedgerKept
    <2>6. Keys(ledger["truncations"]) = TrueLosses
      BY <1>2, <2>5 DEF Told
    <2>7. \A r \in ledger["truncations"] : r.amount = TrueLoss(r.path, r.kind)
      BY <2>5, LossesAre DEF Told
    <2>8. projection_complete <=> LossKeys(Reached, n) = {}
      BY <1>2, <2>6 DEF projection_complete, Keys
    <2>9. LossKeys(Reached, n) = {} <=> n = 0 /\ \A p \in Reached : Excess(p) = 0
      <3>1. ASSUME n = 0, \A p \in Reached : Excess(p) = 0 PROVE LossKeys(Reached, n) = {}
        <4>1. {q \in Reached : Excess(q) > 0} = {} /\ ~(n > 0)
          BY <3>1
        <4> QED BY <4>1 DEF LossKeys
      <3>2. ASSUME LossKeys(Reached, n) = {} PROVE n = 0 /\ \A p \in Reached : Excess(p) = 0
        <4>1. ~(n > 0) /\ \A p \in Reached : ~(Excess(p) > 0)
          BY <3>2 DEF LossKeys
        <4> QED BY <1>1, <2>4, <4>1
      <3> QED BY <3>1, <3>2
    <2>10. ASSUME \A p \in Reached : Excess(p) = 0
           PROVE  copied = [p \in DOMAIN document |-> document[p].size]
      BY <1>1, <2>2, <2>4, <2>10, AllReached
    <2>11. ASSUME copied = [p \in DOMAIN document |-> document[p].size], NEW p \in Reached
           PROVE  Excess(p) = 0
      <3>1. copied[p] = document[p].size /\ copied[p] = Kept(p)
        BY <2>2, <2>3, <2>11
      <3> QED BY <2>4, <3>1
    <2>12. source_complete <=> corpus_read /\ dropped.sources = 0
      BY <2>5 DEF source_complete
    <2>13. {<<r.path, r.kind>> : r \in ledger.truncations} = Keys(ledger["truncations"])
      BY DEF Keys
    <2> QED BY <2>2, <2>4, <2>6, <2>7, <2>8, <2>9, <2>10, <2>11, <2>12, <2>13
  <1> QED BY <1>3, <1>4 DEF ContextTrue

\* An inspection that is printed tells each of its losses, once and with its
\* amount, and is called complete exactly when nothing was lost; it is refused
\* for its losses only when it has too many kinds of them.
THEOREM ContextHolds == ContextSpec => []ContextTrue
  <1> QED BY ContextStarts, ContextKeeps, ContextFollows, PTL DEF ContextSpec
=============================================================================
