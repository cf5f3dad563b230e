---------------------------- MODULE EvidenceProofs ----------------------------
(***************************************************************************)
(* Proofs about TermEvidence, VocabularyDrift and Reconciliation for every *)
(* repository, glossary, choice of files missed and value of the bounds: a *)
(* count called exact is exact and any other a lower bound, and nothing is *)
(* reported absent, fading, orphaned or unresolved that is not so.         *)
(*                                                                         *)
(* Counts are compared by comparing the sets of uses they count.  The      *)
(* invariant says of each file that the tables hold all of it or nothing,  *)
(* and of the matching where the pass has looked; the reports are judged   *)
(* by what is true of the repository, which no step changes.               *)
(***************************************************************************)
EXTENDS Reconciliation, FiniteSetTheorems, TLAPS

(***************************************************************************)
(* Counting.  A counter is a function to the naturals; its total is the    *)
(* size of a set of uses, so that totals are compared by comparing sets.   *)
(***************************************************************************)
\* The members of a family of sets, each with the index of its set.
Members(W) == UNION {{n} \X W[n] : n \in DOMAIN W}

IsCounter(c) == c \in [DOMAIN c -> Nat] /\ IsFiniteSet(DOMAIN c)

\* What is a member of a family.
LEMMA MembersAre ==
  ASSUME NEW W, NEW u
  PROVE  u \in Members(W) <=> \E n \in DOMAIN W : \E x \in W[n] : u = <<n, x>>
  BY DEF Members

\* What is a use a counter counts.
LEMMA UsesAre ==
  ASSUME NEW c, NEW u
  PROVE  u \in Uses(c) <=> \E k \in DOMAIN c : \E i \in 1..c[k] : u = <<k, i>>
  BY DEF Uses

\* A finite family of finite sets has finitely many members.
LEMMA MembersFinite ==
  ASSUME NEW W, IsFiniteSet(DOMAIN W), \A n \in DOMAIN W : IsFiniteSet(W[n])
  PROVE  IsFiniteSet(Members(W))
  <1> DEFINE Slice == [n \in DOMAIN W |-> {n} \X W[n]]
             Slices == {{n} \X W[n] : n \in DOMAIN W}
  <1>1. Slice \in Surjection(DOMAIN W, Slices)
    BY DEF Surjection
  <1>2. IsFiniteSet(Slices)
    <2> HIDE DEF Slice, Slices
    <2> QED BY <1>1, FS_Surjection
  <1>3. ASSUME NEW s \in Slices PROVE IsFiniteSet(s)
    <2>1. PICK n \in DOMAIN W : s = {n} \X W[n]
      OBVIOUS
    <2>2. IsFiniteSet({n})
      BY FS_Singleton
    <2> QED BY <2>1, <2>2, FS_Product
  <1> HIDE DEF Slices
  <1>4. IsFiniteSet(UNION Slices)
    BY <1>2, <1>3, FS_UNION
  <1> QED BY <1>4 DEF Slices, Members

\* A total is a natural number.
LEMMA TotalNat ==
  ASSUME NEW c, IsCounter(c)
  PROVE  IsFiniteSet(Uses(c)) /\ Total(c) \in Nat
  <1> DEFINE W == [k \in DOMAIN c |-> 1..c[k]]
  <1>1. Uses(c) = Members(W)
    BY DEF Uses, Members
  <1>2. \A k \in DOMAIN W : IsFiniteSet(W[k])
    <2> SUFFICES ASSUME NEW k \in DOMAIN c PROVE IsFiniteSet(1..c[k])
      OBVIOUS
    <2>1. c[k] \in Int /\ 1 \in Int
      BY DEF IsCounter
    <2> QED BY <2>1, FS_Interval
  <1>3. IsFiniteSet(DOMAIN W)
    BY DEF IsCounter
  <1> HIDE DEF W
  <1>4. IsFiniteSet(Uses(c))
    BY <1>1, <1>2, <1>3, MembersFinite
  <1> QED BY <1>4, FS_CardinalityType DEF Total

\* Of two counters, the one that counts nothing the other does not has at most
\* its total, and its total only if it counts the same.
LEMMA TotalAtMost ==
  ASSUME NEW c, NEW d, IsCounter(c), IsCounter(d),
         \A k \in DOMAIN c : c[k] # 0 => k \in DOMAIN d /\ c[k] <= d[k]
  PROVE  Total(c) <= Total(d)
  <1>1. Uses(c) \subseteq Uses(d)
    <2> SUFFICES ASSUME NEW u \in Uses(c) PROVE u \in Uses(d)
      OBVIOUS
    <2>1a. PICK k \in DOMAIN c : \E i \in 1..c[k] : u = <<k, i>>
      BY UsesAre
    <2>1. PICK i \in 1..c[k] : u = <<k, i>>
      BY <2>1a
    <2>2. c[k] \in Nat /\ c[k] # 0
      BY DEF IsCounter
    <2>3. k \in DOMAIN d /\ c[k] <= d[k] /\ d[k] \in Nat
      BY <2>2 DEF IsCounter
    <2>4. i \in 1..d[k]
      BY <2>2, <2>3
    <2> QED BY <2>1, <2>3, <2>4, UsesAre
  <1> QED BY <1>1, TotalNat, FS_Subset DEF Total

\* Two counters that count the same, apart from zeros, have the same total.
LEMMA TotalSame ==
  ASSUME NEW c, NEW d, IsCounter(c), IsCounter(d),
         \A k \in DOMAIN c : c[k] # 0 => k \in DOMAIN d /\ c[k] = d[k],
         \A k \in DOMAIN d : d[k] # 0 => k \in DOMAIN c /\ c[k] = d[k]
  PROVE  Total(c) = Total(d)
  <1>1. /\ \A k \in DOMAIN c : c[k] # 0 => k \in DOMAIN d /\ c[k] <= d[k]
        /\ \A k \in DOMAIN d : d[k] # 0 => k \in DOMAIN c /\ d[k] <= c[k]
    BY DEF IsCounter
  <1>2. Total(c) <= Total(d) /\ Total(d) <= Total(c)
    BY <1>1, TotalAtMost
  <1>3. Total(c) \in Nat /\ Total(d) \in Nat
    BY TotalNat
  <1> QED BY <1>2, <1>3

\* A total is zero only if nothing was seen.
LEMMA TotalZero ==
  ASSUME NEW c, IsCounter(c)
  PROVE  Total(c) = 0 <=> Seen(c) = {}
  <1>1. Total(c) = 0 <=> Uses(c) = {}
    BY TotalNat, FS_EmptySet DEF Total
  <1>2. ASSUME NEW k \in Seen(c) PROVE Uses(c) # {}
    <2>1. c[k] \in Nat /\ c[k] > 0 /\ k \in DOMAIN c
      BY DEF Seen, IsCounter
    <2>2. 1 \in 1..c[k]
      BY <2>1
    <2>3. <<k, 1>> \in Uses(c)
      BY <2>1, <2>2, UsesAre
    <2> QED BY <2>3
  <1>3. ASSUME NEW u \in Uses(c) PROVE Seen(c) # {}
    <2>1a. PICK k \in DOMAIN c : \E i \in 1..c[k] : u = <<k, i>>
      BY UsesAre
    <2>1. PICK i \in 1..c[k] : u = <<k, i>>
      BY <2>1a
    <2>2. k \in Seen(c)
      BY DEF Seen, IsCounter
    <2> QED BY <2>2
  <1> QED BY <1>1, <1>2, <1>3

(***************************************************************************)
(* The members of a family are as many as their sizes come to.             *)
(***************************************************************************)
LEMMA FamilySize ==
  ASSUME NEW W, IsFiniteSet(DOMAIN W), \A n \in DOMAIN W : IsFiniteSet(W[n])
  PROVE  Cardinality(Members(W)) = Total([n \in DOMAIN W |-> Cardinality(W[n])])
  <1> DEFINE c == [n \in DOMAIN W |-> Cardinality(W[n])]
  <1>1. IsCounter(c)
    BY FS_CardinalityType DEF IsCounter
  <1>2. \A n \in DOMAIN W : \E h : h \in Bijection(1..c[n], W[n])
    BY FS_CardinalityType DEF ExistsBijection
  <1> DEFINE g == [n \in DOMAIN W |-> CHOOSE h : h \in Bijection(1..c[n], W[n])]
  <1>3. \A n \in DOMAIN W : g[n] \in Bijection(1..c[n], W[n])
    BY <1>2
  <1>4. DOMAIN c = DOMAIN W
    OBVIOUS
  <1> HIDE DEF g, c
  <1>5. ASSUME NEW n \in DOMAIN W
        PROVE  /\ g[n] \in [1..c[n] -> W[n]]
               /\ \A i, j \in 1..c[n] : g[n][i] = g[n][j] => i = j
               /\ \A x \in W[n] : \E i \in 1..c[n] : g[n][i] = x
    <2> DEFINE D == 1..c[n]
               h == g[n]
               R == W[n]
    <2>1. h \in Bijection(D, R)
      BY <1>3
    <2> HIDE DEF D, h, R
    <2>2. /\ h \in [D -> R] /\ \A i, j \in D : h[i] = h[j] => i = j
          /\ \A x \in R : \E i \in D : h[i] = x
      BY <2>1 DEF Bijection, Injection, Surjection, IsInjective
    <2> QED BY <2>2 DEF D, h, R
  <1> DEFINE f == [u \in Uses(c) |-> <<u[1], g[u[1]][u[2]]>>]
  <1>6. ASSUME NEW n \in DOMAIN W, NEW i \in 1..c[n]
        PROVE  <<n, i>> \in Uses(c) /\ f[<<n, i>>] = <<n, g[n][i]>>
    BY <1>4, UsesAre
  <1>7. \A u \in Uses(c) : \E n \in DOMAIN W : \E i \in 1..c[n] : u = <<n, i>>
    BY <1>4, UsesAre
  <1>8. f \in [Uses(c) -> Members(W)]
    <2> SUFFICES ASSUME NEW u \in Uses(c) PROVE f[u] \in Members(W)
      OBVIOUS
    <2>1a. PICK n \in DOMAIN W : \E i \in 1..c[n] : u = <<n, i>>
      BY <1>7
    <2>1. PICK i \in 1..c[n] : u = <<n, i>>
      BY <2>1a
    <2>2. f[u] = <<n, g[n][i]>> /\ g[n][i] \in W[n]
      BY <2>1, <1>5, <1>6
    <2> HIDE DEF f
    <2> QED BY <2>2, MembersAre
  <1> HIDE DEF f
  <1>9. ASSUME NEW u \in Uses(c), NEW v \in Uses(c), f[u] = f[v] PROVE u = v
    <2>1a. PICK n \in DOMAIN W : \E i \in 1..c[n] : u = <<n, i>>
      BY <1>7
    <2>1. PICK i \in 1..c[n] : u = <<n, i>>
      BY <2>1a
    <2>2a. PICK m \in DOMAIN W : \E j \in 1..c[m] : v = <<m, j>>
      BY <1>7
    <2>2. PICK j \in 1..c[m] : v = <<m, j>>
      BY <2>2a
    <2>3. <<n, g[n][i]>> = <<m, g[m][j]>>
      BY <1>6, <1>9, <2>1, <2>2
    <2>4. n = m /\ g[n][i] = g[n][j]
      BY <2>3
    <2> QED BY <2>1, <2>2, <2>4, <1>5
  <1>10. ASSUME NEW u \in Members(W) PROVE \E v \in Uses(c) : f[v] = u
    <2>1a. PICK n \in DOMAIN W : \E x \in W[n] : u = <<n, x>>
      BY MembersAre
    <2>1. PICK x \in W[n] : u = <<n, x>>
      BY <2>1a
    <2>2. PICK i \in 1..c[n] : g[n][i] = x
      BY <1>5
    <2> QED BY <2>1, <2>2, <1>6
  <1>11. ExistsBijection(Uses(c), Members(W))
    BY <1>8, <1>9, <1>10 DEF ExistsBijection, Bijection, Injection, Surjection, IsInjective
  <1>12. Cardinality(Members(W)) = Total(c)
    BY <1>1, <1>11, TotalNat, FS_Bijection DEF Total
  <1> QED BY <1>12 DEF c

\* A table of counts by row has the total of the same table by column.
LEMMA Exchange ==
  ASSUME NEW N, NEW F, IsFiniteSet(N), IsFiniteSet(F), NEW a \in [N -> [F -> Nat]]
  PROVE  Total([n \in N |-> Total(a[n])]) = Total([f \in F |-> Total([n \in N |-> a[n][f]])])
  <1> DEFINE b == [f \in F |-> [n \in N |-> a[n][f]]]
             V == [n \in N |-> Uses(a[n])]
             W == [f \in F |-> Uses(b[f])]
  <1>1. \A n \in N : IsCounter(a[n]) /\ DOMAIN a[n] = F
    BY DEF IsCounter
  <1>2. \A f \in F : IsCounter(b[f]) /\ DOMAIN b[f] = N
    BY DEF IsCounter
  <1>3. \A n \in N, f \in F : b[f][n] = a[n][f]
    OBVIOUS
  <1>4. /\ DOMAIN V = N /\ \A n \in N : IsFiniteSet(V[n]) /\ V[n] = Uses(a[n]) /\ Cardinality(V[n]) = Total(a[n])
        /\ DOMAIN W = F /\ \A f \in F : IsFiniteSet(W[f]) /\ W[f] = Uses(b[f]) /\ Cardinality(W[f]) = Total(b[f])
    BY <1>1, <1>2, TotalNat DEF Total
  <1>5. \A f \in F : b[f] = [n \in N |-> a[n][f]]
    OBVIOUS
  <1> HIDE DEF b, V, W
  <1>6. ASSUME NEW u
        PROVE  u \in Members(V) <=> \E n \in N, f \in F : \E i \in 1..a[n][f] : u = <<n, <<f, i>>>>
    <2>1. u \in Members(V) <=> \E n \in N : \E x \in Uses(a[n]) : u = <<n, x>>
      BY <1>4, MembersAre
    <2>2. \A n \in N : \A x : x \in Uses(a[n]) <=> \E f \in F : \E i \in 1..a[n][f] : x = <<f, i>>
      BY <1>1, UsesAre
    <2> QED BY <2>1, <2>2
  <1>7. ASSUME NEW u
        PROVE  u \in Members(W) <=> \E n \in N, f \in F : \E i \in 1..a[n][f] : u = <<f, <<n, i>>>>
    <2>1. u \in Members(W) <=> \E f \in F : \E x \in Uses(b[f]) : u = <<f, x>>
      BY <1>4, MembersAre
    <2>2. \A f \in F : \A x : x \in Uses(b[f]) <=> \E n \in N : \E i \in 1..a[n][f] : x = <<n, i>>
      BY <1>2, <1>3, UsesAre
    <2> QED BY <2>1, <2>2
  <1> DEFINE swap == [u \in Members(V) |-> <<u[2][1], <<u[1], u[2][2]>>>>]
  <1>8. ASSUME NEW n \in N, NEW f \in F, NEW i \in 1..a[n][f]
        PROVE  <<n, <<f, i>>>> \in Members(V) /\ swap[<<n, <<f, i>>>>] = <<f, <<n, i>>>>
    BY <1>6
  <1>9. swap \in [Members(V) -> Members(W)]
    <2> SUFFICES ASSUME NEW u \in Members(V) PROVE swap[u] \in Members(W)
      OBVIOUS
    <2>1. PICK n \in N, f \in F : \E i \in 1..a[n][f] : u = <<n, <<f, i>>>>
      BY <1>6
    <2>2. PICK i \in 1..a[n][f] : u = <<n, <<f, i>>>>
      BY <2>1
    <2>3. swap[u] = <<f, <<n, i>>>>
      BY <2>2, <1>8
    <2> HIDE DEF swap
    <2> QED BY <2>3, <1>7
  <1> HIDE DEF swap
  <1>10. ASSUME NEW u \in Members(V), NEW v \in Members(V), swap[u] = swap[v] PROVE u = v
    <2>1. PICK n \in N, f \in F : \E i \in 1..a[n][f] : u = <<n, <<f, i>>>>
      BY <1>6
    <2>2. PICK i \in 1..a[n][f] : u = <<n, <<f, i>>>>
      BY <2>1
    <2>3. PICK m \in N, e \in F : \E j \in 1..a[m][e] : v = <<m, <<e, j>>>>
      BY <1>6
    <2>4. PICK j \in 1..a[m][e] : v = <<m, <<e, j>>>>
      BY <2>3
    <2>5. <<f, <<n, i>>>> = <<e, <<m, j>>>>
      BY <1>8, <1>10, <2>2, <2>4
    <2> QED BY <2>2, <2>4, <2>5
  <1>11. ASSUME NEW u \in Members(W) PROVE \E v \in Members(V) : swap[v] = u
    <2>1. PICK n \in N, f \in F : \E i \in 1..a[n][f] : u = <<f, <<n, i>>>>
      BY <1>7
    <2> QED BY <2>1, <1>8
  <1>12. ExistsBijection(Members(V), Members(W))
    BY <1>9, <1>10, <1>11 DEF ExistsBijection, Bijection, Injection, Surjection, IsInjective
  <1>13. IsFiniteSet(Members(V)) /\ Cardinality(Members(V)) = Total([n \in N |-> Cardinality(V[n])])
    BY <1>4, MembersFinite, FamilySize
  <1>14. Cardinality(Members(W)) = Total([f \in F |-> Cardinality(W[f])])
    BY <1>4, FamilySize
  <1>15. Cardinality(Members(W)) = Cardinality(Members(V))
    BY <1>12, <1>13, FS_Bijection
  <1>16. [n \in N |-> Cardinality(V[n])] = [n \in N |-> Total(a[n])]
    BY <1>4
  <1>17. [f \in F |-> Cardinality(W[f])] = [f \in F |-> Total([n \in N |-> a[n][f]])]
    <2>1. \A f \in F : Cardinality(W[f]) = Total([n \in N |-> a[n][f]])
      BY <1>4, <1>5
    <2> QED BY <2>1
  <1> QED BY <1>13, <1>14, <1>15, <1>16, <1>17

(***************************************************************************)
(* Tables.                                                                 *)
(***************************************************************************)
\* A bounded table keeps keys that were seen, and all of them if they fit.
LEMMA TopKeeps ==
  ASSUME NEW c, IsCounter(c), DOMAIN c \subseteq DOMAIN Rank, NEW cap \in Nat
  PROVE  /\ Top(c, cap) \subseteq Seen(c)
         /\ IsFiniteSet(Seen(c)) /\ Cardinality(Seen(c)) \in Nat
         /\ ~(Cardinality(Seen(c)) > cap) => Top(c, cap) = Seen(c)
  <1> DEFINE before(k) == {d \in Seen(c) : Ahead(c, d, k)}
  <1>1. IsFiniteSet(Seen(c)) /\ Cardinality(Seen(c)) \in Nat
    <2>1. Seen(c) \subseteq DOMAIN c
      BY DEF Seen
    <2> QED BY <2>1, FS_Subset, FS_CardinalityType DEF IsCounter
  <1>2. Top(c, cap) = {k \in Seen(c) : Cardinality(before(k)) < cap}
    BY DEF Top
  <1>3. ASSUME NEW k \in Seen(c), ~(Cardinality(Seen(c)) > cap) PROVE Cardinality(before(k)) < cap
    <2>1. k \notin before(k)
      <3>1. c[k] \in Nat /\ Rank[k] \in Nat
        BY EvidenceAssumption DEF Seen, IsCounter
      <3> QED BY <3>1 DEF Ahead
    <2>2. before(k) \subseteq Seen(c) /\ before(k) # Seen(c)
      BY <2>1
    <2> DEFINE s == Seen(c)
               b == before(k)
    <2> HIDE DEF s, b
    <2>3. b \subseteq s /\ b # s /\ IsFiniteSet(s)
      BY <1>1, <2>2 DEF s, b
    <2>4. IsFiniteSet(b) /\ Cardinality(b) <= Cardinality(s) /\ Cardinality(b) # Cardinality(s)
      BY <2>3, FS_Subset
    <2>5. Cardinality(b) \in Nat /\ Cardinality(s) \in Nat /\ ~(Cardinality(s) > cap)
      BY <2>3, <2>4, <1>3, FS_CardinalityType DEF s
    <2>6. Cardinality(b) < cap
      BY <2>4, <2>5
    <2> QED BY <2>6 DEF b
  <1> HIDE DEF before
  <1> QED BY <1>1, <1>2, <1>3

\* Tables count in Nat.
IsTable(files, keys, places) == files \in [keys -> [places -> Nat]]

\* What a bounded table keeps, and what it says of a key it does not keep.
LEMMA TableIs ==
  ASSUME NEW files, NEW keys, NEW places, IsTable(files, keys, places),
         IsFiniteSet(keys), IsFiniteSet(places), keys \subseteq DOMAIN Rank, NEW cap \in Nat
  PROVE  /\ \A k \in keys : IsCounter(files[k]) /\ DOMAIN files[k] = places
         /\ Table(files, cap).items \subseteq Seen(ByKey(files))
         /\ Table(files, cap).items \subseteq keys
         /\ ~Table(files, cap).truncated =>
              \A k \in keys : k \notin Table(files, cap).items => \A p \in places : files[k][p] = 0
  <1>1. \A k \in keys : IsCounter(files[k]) /\ DOMAIN files[k] = places
    BY DEF IsTable, IsCounter
  <1>2. DOMAIN ByKey(files) = keys /\ \A k \in keys : ByKey(files)[k] = Total(files[k])
    BY DEF ByKey, IsTable
  <1>3. IsCounter(ByKey(files))
    <2>1. \A k \in keys : Total(files[k]) \in Nat
      BY <1>1, TotalNat
    <2>2. ByKey(files) = [k \in keys |-> Total(files[k])]
      BY DEF ByKey, IsTable
    <2> QED BY <1>2, <2>1, <2>2 DEF IsCounter
  <1>4. /\ Table(files, cap).items = Top(ByKey(files), cap)
        /\ Table(files, cap).truncated <=> Cardinality(Seen(ByKey(files))) > cap
    BY DEF Table
  <1>5. /\ Table(files, cap).items \subseteq Seen(ByKey(files))
        /\ ~Table(files, cap).truncated => Table(files, cap).items = Seen(ByKey(files))
    BY <1>2, <1>3, <1>4, TopKeeps
  <1>6. ASSUME NEW k \in keys, k \notin Seen(ByKey(files)) PROVE \A p \in places : files[k][p] = 0
    <2>1. Total(files[k]) \in Nat /\ ~(Total(files[k]) > 0)
      BY <1>1, <1>2, <1>6, TotalNat DEF Seen
    <2>2. Seen(files[k]) = {}
      BY <1>1, <2>1, TotalZero
    <2> SUFFICES ASSUME NEW p \in places PROVE files[k][p] = 0
      OBVIOUS
    <2>3. files[k][p] \in Nat /\ p \in DOMAIN files[k] /\ ~(files[k][p] > 0)
      BY <1>1, <2>2 DEF Seen, IsTable
    <2> QED BY <2>3
  <1>7. Seen(ByKey(files)) \subseteq keys
    BY <1>2 DEF Seen
  <1> QED BY <1>1, <1>5, <1>6, <1>7

(***************************************************************************)
(* An entry answers for the files it holds, if they are what is true.      *)
(***************************************************************************)
InsideOf(places, scope) == Production \cap places \cap scope

\* What is true of the production files in a scope is a count.
LEMMA TruthCounts ==
  ASSUME NEW places, IsFiniteSet(places), NEW scope, NEW true \in [places -> Nat]
  PROVE  LET counted == [f \in InsideOf(places, scope) |-> true[f]]
         IN /\ IsCounter(counted) /\ Total(counted) \in Nat
            /\ (\A f \in InsideOf(places, scope) : true[f] = 0) => Total(counted) = 0
  <1> DEFINE inside == InsideOf(places, scope)
             counted == [f \in inside |-> true[f]]
  <1>1. inside \subseteq places
    BY DEF InsideOf
  <1>2. IsFiniteSet(inside)
    BY <1>1, FS_Subset
  <1>3. IsCounter(counted) /\ DOMAIN counted = inside
    BY <1>1, <1>2 DEF IsCounter
  <1>4. ASSUME \A f \in inside : true[f] = 0 PROVE Seen(counted) = {}
    BY <1>4, <1>3 DEF Seen
  <1> HIDE DEF inside, counted
  <1>5. Total(counted) \in Nat /\ (Total(counted) = 0 <=> Seen(counted) = {})
    BY <1>3, TotalNat, TotalZero
  <1> QED BY <1>3, <1>4, <1>5 DEF inside, counted

\* An answer and the truth, which both count.
Answered(o, truth) == Answers(o, truth) /\ o.count \in Nat /\ truth.count \in Nat

Truth(places, scope, true) ==
  [count |-> Total([f \in InsideOf(places, scope) |-> true[f]]),
   files |-> {f \in InsideOf(places, scope) : true[f] > 0}]

\* A table without an entry answers that the term is absent.
LEMMA AbsentAnswers ==
  ASSUME NEW places, IsFiniteSet(places), NEW scope, NEW true \in [places -> Nat], NEW exact \in BOOLEAN,
         exact => \A f \in InsideOf(places, scope) : true[f] = 0
  PROVE  /\ Answered(Absent(exact), Truth(places, scope, true))
         /\ Absent(exact).spread_exact => Absent(exact).files = Truth(places, scope, true).files
  <1>1. /\ Truth(places, scope, true).count \in Nat
        /\ exact => Truth(places, scope, true).count = 0
    BY TruthCounts DEF Truth
  <1>2. exact => Truth(places, scope, true).files = {}
    BY DEF Truth
  <1>3. /\ Absent(exact).count = 0 /\ Absent(exact).count_exact = exact
        /\ Absent(exact).files = {} /\ Absent(exact).spread_exact = exact
    BY DEF Absent, Facts
  <1> QED BY <1>1, <1>2, <1>3 DEF Answered, Answers

\* The sample of an entry: of what it holds, and all of it if not cut.
LEMMA SampleIs ==
  ASSUME NEW per_file, IsCounter(per_file), DOMAIN per_file \subseteq AllFiles
  PROVE  /\ location_sample(per_file).paths \subseteq Seen(per_file)
         /\ ~location_sample(per_file).truncated => location_sample(per_file).paths = Seen(per_file)
  <1>1. DOMAIN per_file \subseteq DOMAIN Rank /\ LocationsPerTerm \in Nat
    BY EvidenceAssumption
  <1>2. /\ location_sample(per_file).paths = Top(per_file, LocationsPerTerm)
        /\ location_sample(per_file).truncated <=> Cardinality(Seen(per_file)) > LocationsPerTerm
    BY DEF location_sample
  <1> QED BY <1>1, <1>2, TopKeeps

\* An entry whose files hold no more than is true, and all of it when the
\* corpus is complete, answers truly in every scope.
LEMMA EntryAnswers ==
  ASSUME NEW places \in SUBSET AllFiles, IsFiniteSet(places), NEW scope \in Scopes,
         NEW per_file \in [places -> Nat], NEW true \in [places -> Nat], NEW complete \in BOOLEAN,
         \A f \in places : per_file[f] <= true[f] /\ (f \notin Production => per_file[f] = 0),
         complete => \A f \in places \cap Production : per_file[f] = true[f]
  PROVE  /\ Answered(Entry(per_file, scope, complete), Truth(places, scope, true))
         /\ Entry(per_file, scope, complete).spread_exact =>
              Entry(per_file, scope, complete).files = Truth(places, scope, true).files
  <1> DEFINE inside == InsideOf(places, scope)
             counted == [f \in inside |-> true[f]]
             o == Entry(per_file, scope, complete)
  <1>1. IsCounter(per_file) /\ DOMAIN per_file = places
    BY DEF IsCounter
  <1>2. IsCounter(counted) /\ DOMAIN counted = inside /\ \A f \in inside : counted[f] = true[f]
    BY TruthCounts
  <1>3. inside \subseteq places /\ \A f \in places : f \in inside <=> f \in Production /\ f \in scope
    BY DEF InsideOf
  <1>4. Truth(places, scope, true).count = Total(counted)
        /\ Truth(places, scope, true).files = {f \in inside : true[f] > 0}
    BY DEF Truth
  <1>5. \A f \in places : per_file[f] \in Nat /\ true[f] \in Nat
    OBVIOUS
  <1> HIDE DEF inside, counted
  <1>6. \A f \in Seen(per_file) : f \in places /\ f \in Production /\ per_file[f] > 0 /\ true[f] > 0
    <2> SUFFICES ASSUME NEW f \in Seen(per_file) PROVE f \in places /\ f \in Production /\ per_file[f] > 0 /\ true[f] > 0
      OBVIOUS
    <2>1. f \in places /\ per_file[f] > 0
      BY <1>1 DEF Seen
    <2> QED BY <2>1, <1>5
  <1>7. CASE scope = AllFiles
    <2>1. /\ o.count = Total(per_file) /\ o.count_exact = complete /\ o.files = Seen(per_file)
          /\ o.spread_exact = complete
      BY <1>7 DEF Entry, _unscoped_entry_occurrence, Facts
    <2>2. \A f \in places : f \in Production => f \in inside
      BY <1>3, <1>7
    <2>3. Total(per_file) <= Total(counted)
      <3>1. ASSUME NEW k \in DOMAIN per_file, per_file[k] # 0
            PROVE  k \in DOMAIN counted /\ per_file[k] <= counted[k]
        BY <1>1, <1>2, <2>2, <3>1
      <3> QED BY <3>1, <1>1, <1>2, TotalAtMost
    <2>4. ASSUME complete PROVE Total(per_file) = Total(counted) /\ Seen(per_file) = {f \in inside : true[f] > 0}
      <3>1. \A k \in inside : k \in places /\ per_file[k] = true[k]
        BY <2>4, <1>3
      <3>2. ASSUME NEW k \in DOMAIN per_file, per_file[k] # 0
            PROVE  k \in DOMAIN counted /\ per_file[k] = counted[k]
        BY <1>1, <1>2, <2>2, <3>1, <3>2
      <3>3. ASSUME NEW k \in DOMAIN counted PROVE k \in DOMAIN per_file /\ per_file[k] = counted[k]
        BY <1>1, <1>2, <3>1
      <3>4. Total(per_file) = Total(counted)
        BY <3>2, <3>3, <1>1, <1>2, TotalSame
      <3>5. Seen(per_file) = {f \in inside : true[f] > 0}
        BY <3>1, <1>1, <1>6, <2>2 DEF Seen
      <3> QED BY <3>4, <3>5
    <2>5. Seen(per_file) \subseteq {f \in inside : true[f] > 0}
      BY <1>6, <2>2
    <2>6. Total(per_file) \in Nat /\ Total(counted) \in Nat
      BY <1>1, <1>2, TotalNat
    <2> HIDE DEF o
    <2> QED BY <2>1, <2>3, <2>4, <2>5, <2>6, <1>4 DEF Answered, Answers, o
  <1>8. CASE scope # AllFiles
    <2> DEFINE sample == location_sample(per_file)
               at == sample.paths \cap scope
               part == Restrict(per_file, at)
    <2>1. /\ o.count = Total(part) /\ o.count_exact = (~sample.truncated /\ complete) /\ o.files = at
          /\ o.spread_exact = (~sample.truncated /\ complete)
      BY <1>8 DEF Entry, _scoped_entry_occurrence, Facts
    <2>2. sample.paths \subseteq Seen(per_file) /\ (~sample.truncated => sample.paths = Seen(per_file))
      BY <1>1, SampleIs
    <2> HIDE DEF sample, o
    <2>3. at \subseteq inside /\ at \subseteq places /\ \A f \in at : f \in Seen(per_file)
      BY <1>3, <1>6, <2>2
    <2>4. IsFiniteSet(at)
      BY <2>3, FS_Subset
    <2>5. DOMAIN part = at /\ IsCounter(part) /\ \A f \in at : part[f] = per_file[f]
      BY <1>5, <2>3, <2>4 DEF Restrict, IsCounter
    <2> HIDE DEF at, part
    <2>6. Total(part) <= Total(counted)
      <3>1. ASSUME NEW k \in DOMAIN part PROVE k \in DOMAIN counted /\ part[k] <= counted[k]
        BY <1>2, <2>3, <2>5
      <3> QED BY <3>1, <1>2, <2>5, TotalAtMost
    <2>7. ASSUME ~sample.truncated, complete PROVE Total(part) = Total(counted) /\ at = {f \in inside : true[f] > 0}
      <3>1. \A k \in inside : k \in places /\ per_file[k] = true[k] /\ k \in scope
        BY <2>7, <1>3
      <3>2. at = {f \in inside : true[f] > 0}
        <4>1. \A f \in inside : true[f] > 0 => f \in Seen(per_file)
          BY <3>1, <1>1 DEF Seen
        <4>2. \A f \in inside : true[f] > 0 => f \in at
          BY <4>1, <3>1, <2>2, <2>7 DEF at
        <4> QED BY <4>2, <2>3, <1>6
      <3>3. ASSUME NEW k \in DOMAIN part PROVE k \in DOMAIN counted /\ part[k] = counted[k]
        BY <1>2, <2>3, <2>5, <3>1
      <3>4. ASSUME NEW k \in DOMAIN counted, counted[k] # 0 PROVE k \in DOMAIN part /\ part[k] = counted[k]
        <4>1. k \in inside /\ true[k] \in Nat /\ true[k] # 0
          BY <3>4, <1>2, <1>3, <1>5
        <4>2. k \in at
          BY <4>1, <3>2
        <4> QED BY <4>2, <3>3, <2>5
      <3>5. Total(part) = Total(counted)
        BY <3>3, <3>4, <1>2, <2>5, TotalSame
      <3> QED BY <3>2, <3>5
    <2>8. at \subseteq {f \in inside : true[f] > 0}
      BY <1>6, <2>3
    <2>9. Total(part) \in Nat /\ Total(counted) \in Nat
      BY <1>2, <2>5, TotalNat
    <2> QED BY <2>1, <2>6, <2>7, <2>8, <2>9, <1>4 DEF Answered, Answers, o
  <1> QED BY <1>7, <1>8

(***************************************************************************)
(* Spellings and their tokens.                                             *)
(***************************************************************************)
Complete(n) == Len(TokensOf[n]) <= MaxIdentifierTokens

\* The retained tokens are the first ones, and all of a spelling within limits.
LEMMA PrefixIs ==
  ASSUME NEW n \in Spellings
  PROVE  /\ TokensOf[n] \in Seq(Tokens) /\ identifier_tokens(n) \in Seq(Tokens)
         /\ Len(identifier_tokens(n)) <= Len(TokensOf[n])
         /\ \A i \in 1..Len(identifier_tokens(n)) : identifier_tokens(n)[i] = TokensOf[n][i]
         /\ Complete(n) => identifier_tokens(n) = TokensOf[n]
  <1>1. TokensOf[n] \in Seq(Tokens) /\ MaxIdentifierTokens \in Nat
    BY EvidenceAssumption
  <1>2. CASE Complete(n)
    BY <1>1, <1>2 DEF Complete, identifier_tokens
  <1>3. CASE ~Complete(n)
    <2>1. identifier_tokens(n) = SubSeq(TokensOf[n], 1, MaxIdentifierTokens)
      BY <1>3 DEF Complete, identifier_tokens
    <2>2. Len(TokensOf[n]) \in Nat /\ MaxIdentifierTokens < Len(TokensOf[n])
      BY <1>1, <1>3 DEF Complete
    <2> QED BY <1>1, <2>1, <2>2, <1>3
  <1> QED BY <1>2, <1>3

\* A token occurs in the retained tokens at most as often as in the spelling.
LEMMA TimesIs ==
  ASSUME NEW n \in Spellings, NEW x
  PROVE  /\ Times(x, identifier_tokens(n)) \in Nat /\ Times(x, TokensOf[n]) \in Nat
         /\ Times(x, identifier_tokens(n)) <= Times(x, TokensOf[n])
         /\ Complete(n) => Times(x, identifier_tokens(n)) = Times(x, TokensOf[n])
  <1> DEFINE A == {i \in 1..Len(identifier_tokens(n)) : identifier_tokens(n)[i] = x}
             B == {i \in 1..Len(TokensOf[n]) : TokensOf[n][i] = x}
  <1>1. Len(TokensOf[n]) \in Nat /\ Len(identifier_tokens(n)) \in Nat
    BY PrefixIs
  <1>2. A \subseteq B
    BY <1>1, PrefixIs
  <1>3. B \subseteq 1..Len(TokensOf[n]) /\ IsFiniteSet(1..Len(TokensOf[n]))
    <2>1. Len(TokensOf[n]) \in Int /\ 1 \in Int
      BY <1>1
    <2> QED BY <2>1, FS_Interval
  <1> HIDE DEF A, B
  <1>4. IsFiniteSet(A) /\ IsFiniteSet(B) /\ Cardinality(A) <= Cardinality(B)
    BY <1>2, <1>3, FS_Subset
  <1>5. Cardinality(A) \in Nat /\ Cardinality(B) \in Nat
    BY <1>4, FS_CardinalityType
  <1>6. Times(x, identifier_tokens(n)) = Cardinality(A) /\ Times(x, TokensOf[n]) = Cardinality(B)
    BY DEF Times, A, B
  <1>7. Complete(n) => Times(x, identifier_tokens(n)) = Times(x, TokensOf[n])
    BY PrefixIs
  <1> QED BY <1>4, <1>5, <1>6, <1>7

\* A compound found in the retained tokens is in the spelling.
LEMMA WithinIs ==
  ASSUME NEW n \in Spellings, NEW t \in Terms, Len(TermTokens[t]) > 0,
         NEW i \in 1..Len(identifier_tokens(n)), Begins(TermTokens[t], identifier_tokens(n), i)
  PROVE  Within(TermTokens[t], TokensOf[n])
  <1>1. TermTokens[t] \in Seq(Tokens) /\ Len(TermTokens[t]) \in Nat
    BY EvidenceAssumption
  <1>2. /\ Len(TokensOf[n]) \in Nat /\ Len(identifier_tokens(n)) \in Nat
        /\ Len(identifier_tokens(n)) <= Len(TokensOf[n])
    BY PrefixIs
  <1>3. i \in 1..Len(TokensOf[n])
    BY <1>2
  <1>4. i + Len(TermTokens[t]) - 1 <= Len(TokensOf[n])
    BY <1>1, <1>2 DEF Begins
  <1>5. ASSUME NEW j \in 1..Len(TermTokens[t]) PROVE TokensOf[n][i + j - 1] = TermTokens[t][j]
    <2>1. i + j - 1 \in 1..Len(identifier_tokens(n))
      BY <1>1, <1>2 DEF Begins
    <2> QED BY <2>1, PrefixIs DEF Begins
  <1> QED BY <1>3, <1>4, <1>5 DEF Within, Begins

(***************************************************************************)
(* The invariant.                                                          *)
(***************************************************************************)
Coming == {unread[i] : i \in 1..Len(unread)}

Held(f, n) == IF f \in Production THEN identifiers[f][n] ELSE 0
TokenUses(t, f) ==
  Total([n \in IF f \in Production THEN Seen(identifiers[f]) ELSE {} |->
           identifiers[f][n] * Times(t, identifier_tokens(n))])
Worded(f, w) == IF f \in Production THEN words[f][w] ELSE 0

EvidenceTyped ==
  /\ identifiers \in [Code -> [Spellings -> Nat]] /\ words \in [Docs -> [Words -> Nat]]
  /\ unread \in Seq(AllFiles) /\ missed \subseteq AllFiles
  /\ IsTable(token_files, Tokens, Code) /\ IsTable(identifier_files, Spellings, Code)
  /\ IsTable(term_files, Words, Docs)

\* A file is folded as it is, or nothing of it is.
CodeFolded(f) ==
  /\ \A n \in Spellings : identifier_files[n][f] = Held(f, n)
  /\ \A t \in Tokens : token_files[t][f] = TokenUses(t, f)
  /\ f \in Production => \A n \in Seen(identifiers[f]) : Complete(n) \/ n \in oversized_spellings

CodeLeft(f) ==
  /\ f \in Coming \cup missed
  /\ \A n \in Spellings : identifier_files[n][f] = 0
  /\ \A t \in Tokens : token_files[t][f] = 0

DocFolded(f) == \A w \in Words : term_files[w][f] = Worded(f, w)
DocLeft(f) == f \in Coming \cup missed /\ \A w \in Words : term_files[w][f] = 0

FilesTrue ==
  /\ \A f \in Code : CodeFolded(f) \/ CodeLeft(f)
  /\ \A f \in Docs : DocFolded(f) \/ DocLeft(f)
  /\ pc # "fold" => unread = <<>>

\* Where a compound was looked for, and that it was found where it begins.
Starts == Uses([n \in identifier_table.items |-> Len(identifier_tokens(n))])

TriedAt(tried) ==
  /\ tried \subseteq Starts /\ Cardinality(tried) = processed_starts
  /\ \A n \in units : \A i \in Nat : <<n, i>> \notin tried
  /\ \A n \in Spellings, i \in Nat : <<n, i>> \in tried =>
       \A t \in Supported : Begins(TermTokens[t], identifier_tokens(n), i) => n \in matches[t]

MatchesTrue ==
  /\ pc = "fold" => processed_starts = 0 /\ matches = [t \in Compounds |-> {}]
  /\ matches \in [Compounds -> SUBSET Spellings]
  /\ pc # "fold" =>
       /\ units \subseteq identifier_table.items
       /\ \A t \in Compounds : \A n \in matches[t] :
            /\ t \in Supported
            /\ \E i \in 1..Len(identifier_tokens(n)) : Begins(TermTokens[t], identifier_tokens(n), i)
       /\ Supported # {} => \E tried : TriedAt(tried)
  /\ processed_starts \in 0..CompoundStartBudget

EvidenceInvariant == EvidenceTyped /\ FilesTrue /\ MatchesTrue

\* Files and keys are finitely many and ordered.
LEMMA FilesFinite ==
  /\ IsFiniteSet(Code) /\ IsFiniteSet(Docs) /\ Code \subseteq AllFiles /\ Docs \subseteq AllFiles
  /\ Spellings \subseteq DOMAIN Rank /\ Tokens \subseteq DOMAIN Rank /\ Words \subseteq DOMAIN Rank
  /\ Code \subseteq DOMAIN Rank /\ Docs \subseteq DOMAIN Rank
  <1>1. Code \subseteq AllFiles /\ Docs \subseteq AllFiles
    BY DEF AllFiles
  <1> QED BY <1>1, EvidenceAssumption, FS_Subset

\* At first every file is still to come.
LEMMA EvidenceStarts == EvidenceInit => EvidenceInvariant
  <1> SUFFICES ASSUME EvidenceInit PROVE EvidenceInvariant
    OBVIOUS
  <1> DEFINE Zeros(keys, places) == [k \in keys |-> [f \in places |-> 0]]
  <1>1. identifiers \in [Code -> [Spellings -> Nat]] /\ words \in [Docs -> [Words -> Nat]]
    BY EvidenceAssumption DEF EvidenceInit
  <1>2. /\ token_files = Zeros(Tokens, Code) /\ identifier_files = Zeros(Spellings, Code)
        /\ term_files = Zeros(Words, Docs)
    BY DEF EvidenceInit
  <1>3. unread \in Seq(AllFiles) /\ Code \subseteq Coming /\ Docs \subseteq Coming
    <2>1. unread = CodeFiles \o DocFiles /\ CodeFiles \in Seq(AllFiles) /\ DocFiles \in Seq(AllFiles)
      BY EvidenceAssumption DEF EvidenceInit, AllFiles
    <2>2. /\ unread \in Seq(AllFiles) /\ Len(unread) = Len(CodeFiles) + Len(DocFiles)
          /\ \A i \in 1..Len(CodeFiles) : unread[i] = CodeFiles[i]
          /\ \A i \in 1..Len(DocFiles) : unread[Len(CodeFiles) + i] = DocFiles[i]
      BY <2>1
    <2>3. Len(CodeFiles) \in Nat /\ Len(DocFiles) \in Nat
      BY <2>1
    <2>4. ASSUME NEW f \in Code PROVE f \in Coming
      <3>1. PICK i \in 1..Len(CodeFiles) : CodeFiles[i] = f
        BY EvidenceAssumption DEF Code, ToSet
      <3>2. i \in 1..Len(unread)
        BY <2>2, <2>3
      <3> QED BY <3>1, <3>2, <2>2 DEF Coming
    <2>5. ASSUME NEW f \in Docs PROVE f \in Coming
      <3>1. PICK i \in 1..Len(DocFiles) : DocFiles[i] = f
        BY EvidenceAssumption DEF Docs, ToSet
      <3>2. Len(CodeFiles) + i \in 1..Len(unread)
        BY <2>2, <2>3
      <3> QED BY <3>1, <3>2, <2>2 DEF Coming
    <2> QED BY <2>2, <2>4, <2>5
  <1>4. EvidenceTyped
    BY <1>1, <1>2, <1>3 DEF EvidenceTyped, IsTable, EvidenceInit
  <1>5. FilesTrue
    <2>1. \A f \in Code : CodeLeft(f)
      BY <1>2, <1>3 DEF CodeLeft
    <2>2. \A f \in Docs : DocLeft(f)
      BY <1>2, <1>3 DEF DocLeft
    <2> QED BY <2>1, <2>2 DEF FilesTrue, EvidenceInit
  <1>6. MatchesTrue
    BY EvidenceAssumption DEF MatchesTrue, EvidenceInit
  <1> QED BY <1>4, <1>5, <1>6 DEF EvidenceInvariant

\* Taking the next file leaves every other one to come.
LEMMA NextFile ==
  ASSUME EvidenceTyped, unread # <<>>, unread' = Tail(unread)
  PROVE  /\ Head(unread) \in AllFiles /\ unread' \in Seq(AllFiles)
         /\ Coming \subseteq Coming' \cup {Head(unread)}
  <1>1. unread \in Seq(AllFiles)
    BY DEF EvidenceTyped
  <1>2. /\ Head(unread) \in AllFiles /\ unread' \in Seq(AllFiles) /\ Len(unread') = Len(unread) - 1
        /\ \A i \in 1..Len(unread') : unread'[i] = unread[i + 1]
        /\ Head(unread) = unread[1] /\ Len(unread) \in Nat
    BY <1>1
  <1>3. ASSUME NEW i \in 1..Len(unread) PROVE unread[i] \in Coming' \cup {Head(unread)}
    <2>1. CASE i = 1
      BY <2>1, <1>2
    <2>2. CASE i # 1
      <3>1. i - 1 \in 1..Len(unread') /\ (i - 1) + 1 = i
        BY <2>2, <1>2
      <3>2. unread'[i - 1] = unread[i]
        BY <3>1, <1>2
      <3> QED BY <3>1, <3>2 DEF Coming
    <2> QED BY <2>1, <2>2
  <1> QED BY <1>2, <1>3 DEF Coming

\* What a file holds does not depend on the tables.
LEMMA UsesUnchanged ==
  ASSUME UNCHANGED identifiers
  PROVE  /\ \A f, n : Held(f, n)' = Held(f, n)
         /\ \A t, f : TokenUses(t, f)' = TokenUses(t, f)
  BY DEF Held, TokenUses

\* A code file stays folded, or stays left out.
LEMMA RowsKept ==
  ASSUME UNCHANGED <<identifiers, identifier_files, token_files>>, NEW f, NEW head,
         oversized_spellings \subseteq oversized_spellings',
         Coming \subseteq Coming' \cup {head}, missed \subseteq missed', head = f => head \in missed'
  PROVE  (CodeFolded(f) => CodeFolded(f)') /\ (CodeLeft(f) => CodeLeft(f)')
  BY UsesUnchanged DEF CodeFolded, CodeLeft

\* The same of a document.
LEMMA DocRowsKept ==
  ASSUME UNCHANGED <<words, term_files>>, NEW f, NEW head,
         Coming \subseteq Coming' \cup {head}, missed \subseteq missed', head = f => head \in missed'
  PROVE  (DocFolded(f) => DocFolded(f)') /\ (DocLeft(f) => DocLeft(f)')
  BY DEF DocFolded, DocLeft, Worded

\* Nothing is matched while files are folded.
LEMMA MatchingWaits ==
  ASSUME MatchesTrue, pc = "fold", pc' = "fold", UNCHANGED <<processed_starts, matches>>
  PROVE  MatchesTrue'
  BY DEF MatchesTrue

\* Leaving a file out keeps the invariant.
LEMMA MissFileKeeps ==
  ASSUME EvidenceInvariant, MissFile PROVE EvidenceInvariant'
  <1>1. /\ pc = "fold" /\ pc' = "fold" /\ unread # <<>> /\ unread' = Tail(unread)
        /\ missed' = missed \cup {Head(unread)} /\ UNCHANGED <<repository, vocabulary, matching>>
    BY DEF MissFile
  <1>2. /\ UNCHANGED <<identifiers, words, identifier_files, token_files, term_files, oversized_spellings>>
        /\ UNCHANGED <<units, processed_starts, matches>>
    BY <1>1 DEF repository, vocabulary, matching
  <1>3. unread' \in Seq(AllFiles) /\ Coming \subseteq Coming' \cup {Head(unread)} /\ Head(unread) \in AllFiles
    BY <1>1, NextFile DEF EvidenceInvariant
  <1>4. EvidenceTyped'
    BY <1>1, <1>2, <1>3 DEF EvidenceInvariant, EvidenceTyped, IsTable
  <1>5. FilesTrue'
    <2>1. \A f \in Code : CodeFolded(f)' \/ CodeLeft(f)'
      BY <1>1, <1>2, <1>3, RowsKept DEF EvidenceInvariant, FilesTrue
    <2>2. \A f \in Docs : DocFolded(f)' \/ DocLeft(f)'
      BY <1>1, <1>2, <1>3, DocRowsKept DEF EvidenceInvariant, FilesTrue
    <2> QED BY <1>1, <2>1, <2>2 DEF FilesTrue
  <1>6. MatchesTrue'
    BY <1>1, <1>2, MatchingWaits DEF EvidenceInvariant
  <1> QED BY <1>4, <1>5, <1>6 DEF EvidenceInvariant

\* What a file has of a token is a number.
LEMMA TokenUsesNat ==
  ASSUME identifiers \in [Code -> [Spellings -> Nat]], NEW f \in Code, NEW t
  PROVE  LET c == [n \in IF f \in Production THEN Seen(identifiers[f]) ELSE {} |->
                     identifiers[f][n] * Times(t, identifier_tokens(n))]
         IN IsCounter(c) /\ TokenUses(t, f) = Total(c) /\ TokenUses(t, f) \in Nat
  <1> DEFINE S == IF f \in Production THEN Seen(identifiers[f]) ELSE {}
             c == [n \in S |-> identifiers[f][n] * Times(t, identifier_tokens(n))]
  <1>1. S \subseteq Spellings
    BY DEF Seen
  <1>2. IsFiniteSet(S)
    BY <1>1, EvidenceAssumption, FS_Subset
  <1>3. \A n \in S : identifiers[f][n] * Times(t, identifier_tokens(n)) \in Nat
    <2> SUFFICES ASSUME NEW n \in S PROVE identifiers[f][n] * Times(t, identifier_tokens(n)) \in Nat
      OBVIOUS
    <2> DEFINE a == identifiers[f][n]
               b == Times(t, identifier_tokens(n))
    <2>1. a \in Nat /\ b \in Nat
      BY <1>1, TimesIs
    <2> HIDE DEF a, b
    <2>2. a * b \in Nat
      BY <2>1
    <2> QED BY <2>2 DEF a, b
  <1>4. IsCounter(c)
    BY <1>2, <1>3 DEF IsCounter
  <1>5. TokenUses(t, f) = Total(c)
    BY DEF TokenUses
  <1> HIDE DEF c
  <1>6. Total(c) \in Nat
    BY <1>4, TotalNat
  <1> QED BY <1>4, <1>5, <1>6 DEF c

\* Folding a code file keeps the invariant.
LEMMA FoldCodeKeeps ==
  ASSUME EvidenceInvariant, FoldCode PROVE EvidenceInvariant'
  <1> DEFINE h == Head(unread)
             held == IF h \in Production THEN Seen(identifiers[h]) ELSE {}
             uses(t) == Total([n \in held |-> identifiers[h][n] * Times(t, identifier_tokens(n))])
  <1>1. /\ pc = "fold" /\ pc' = "fold" /\ unread # <<>> /\ h \in Code /\ unread' = Tail(unread)
        /\ UNCHANGED <<repository, missed, term_files, matching>>
    BY DEF FoldCode
  <1>2. /\ UNCHANGED <<identifiers, words>> /\ UNCHANGED <<units, processed_starts, matches>>
    BY <1>1 DEF repository, matching
  <1>3. unread' \in Seq(AllFiles) /\ Coming \subseteq Coming' \cup {h}
    BY <1>1, NextFile DEF EvidenceInvariant
  <1>4. /\ identifier_files' = [n \in Spellings |->
             [identifier_files[n] EXCEPT ![h] = IF n \in held THEN identifiers[h][n] ELSE 0]]
        /\ token_files' = [t \in Tokens |-> [token_files[t] EXCEPT ![h] = uses(t)]]
        /\ oversized_spellings' =
             oversized_spellings \cup {n \in held : Len(TokensOf[n]) > MaxIdentifierTokens}
    BY DEF FoldCode, Folded
  <1>5. /\ identifiers \in [Code -> [Spellings -> Nat]]
        /\ identifier_files \in [Spellings -> [Code -> Nat]] /\ token_files \in [Tokens -> [Code -> Nat]]
    BY DEF EvidenceInvariant, EvidenceTyped, IsTable
  <1>6. \A t : uses(t) = TokenUses(t, h)
    BY DEF TokenUses
  <1>7. \A n \in Spellings : (IF n \in held THEN identifiers[h][n] ELSE 0) = Held(h, n)
    <2> SUFFICES ASSUME NEW n \in Spellings PROVE (IF n \in held THEN identifiers[h][n] ELSE 0) = Held(h, n)
      OBVIOUS
    <2>1. identifiers[h] \in [Spellings -> Nat]
      BY <1>1, <1>5
    <2>2. n \in Seen(identifiers[h]) <=> identifiers[h][n] # 0
      BY <2>1 DEF Seen
    <2> QED BY <2>1, <2>2 DEF Held
  <1>8. \A n \in Spellings : Held(h, n) \in Nat
    BY <1>1, <1>5 DEF Held
  <1>9. \A t : TokenUses(t, h) \in Nat
    BY <1>1, <1>5, TokenUsesNat
  <1>10. \A n \in held : Complete(n) \/ n \in oversized_spellings'
    <2> SUFFICES ASSUME NEW n \in held, ~Complete(n) PROVE n \in oversized_spellings'
      OBVIOUS
    <2>1. n \in Spellings
      BY <1>1, <1>5 DEF Seen
    <2>2. TokensOf[n] \in Seq(Tokens) /\ Len(TokensOf[n]) \in Nat /\ MaxIdentifierTokens \in Nat
      BY <2>1, EvidenceAssumption
    <2> QED BY <2>2, <1>4 DEF Complete
  <1> HIDE DEF uses
  <1>11. ASSUME NEW n \in Spellings, NEW f \in Code
         PROVE identifier_files'[n][f] = IF f = h THEN Held(h, n) ELSE identifier_files[n][f]
    BY <1>4, <1>5, <1>7
  <1>12. ASSUME NEW t \in Tokens, NEW f \in Code
         PROVE token_files'[t][f] = IF f = h THEN TokenUses(t, h) ELSE token_files[t][f]
    BY <1>4, <1>5, <1>6
  <1>13. EvidenceTyped'
    <2>1. identifier_files' \in [Spellings -> [Code -> Nat]]
      <3>1. identifier_files' = [n \in Spellings |-> [identifier_files[n] EXCEPT ![h] = Held(h, n)]]
        BY <1>4, <1>7
      <3> HIDE DEF held, h
      <3> QED BY <3>1, <1>5, <1>8
    <2>2. token_files' \in [Tokens -> [Code -> Nat]]
      BY <1>4, <1>5, <1>6, <1>9
    <2> QED BY <1>1, <1>2, <1>3, <2>1, <2>2 DEF EvidenceInvariant, EvidenceTyped, IsTable
  <1>14. FilesTrue'
    <2>1. ASSUME NEW f \in Code PROVE CodeFolded(f)' \/ CodeLeft(f)'
      <3>1. CASE f = h
        <4>1. \A n \in Spellings : identifier_files'[n][f] = Held(f, n)'
          BY <3>1, <1>1, <1>2, <1>11, UsesUnchanged
        <4>2. \A t \in Tokens : token_files'[t][f] = TokenUses(t, f)'
          BY <3>1, <1>1, <1>2, <1>12, UsesUnchanged
        <4>3. f \in Production => \A n \in Seen(identifiers[f])' : Complete(n) \/ n \in oversized_spellings'
          BY <3>1, <1>2, <1>10
        <4> QED BY <4>1, <4>2, <4>3 DEF CodeFolded
      <3>2. CASE f # h
        <4>1. /\ \A n \in Spellings : identifier_files'[n][f] = identifier_files[n][f]
              /\ \A t \in Tokens : token_files'[t][f] = token_files[t][f]
          BY <3>2, <1>11, <1>12
        <4>2. CASE CodeFolded(f)
          BY <4>1, <4>2, <1>2, <1>4, UsesUnchanged DEF CodeFolded
        <4>3. CASE CodeLeft(f)
          BY <4>1, <4>3, <3>2, <1>1, <1>3 DEF CodeLeft
        <4> QED BY <4>2, <4>3 DEF EvidenceInvariant, FilesTrue
      <3> QED BY <3>1, <3>2
    <2>2. \A f \in Docs : DocFolded(f)' \/ DocLeft(f)'
      <3>1. \A f \in Docs : f # h
        BY <1>1, EvidenceAssumption
      <3> QED BY <1>1, <1>2, <1>3, <3>1, DocRowsKept DEF EvidenceInvariant, FilesTrue
    <2> QED BY <1>1, <2>1, <2>2 DEF FilesTrue
  <1>15. MatchesTrue'
    BY <1>1, <1>2, MatchingWaits DEF EvidenceInvariant
  <1> QED BY <1>13, <1>14, <1>15 DEF EvidenceInvariant

\* Folding a document keeps the invariant.
LEMMA FoldDocKeeps ==
  ASSUME EvidenceInvariant, FoldDoc PROVE EvidenceInvariant'
  <1> DEFINE h == Head(unread)
  <1>1. /\ pc = "fold" /\ pc' = "fold" /\ unread # <<>> /\ h \in Docs /\ unread' = Tail(unread)
        /\ UNCHANGED <<repository, missed, token_files, identifier_files, oversized_spellings, matching>>
    BY DEF FoldDoc
  <1>2. /\ UNCHANGED <<identifiers, words>> /\ UNCHANGED <<units, processed_starts, matches>>
    BY <1>1 DEF repository, matching
  <1>3. unread' \in Seq(AllFiles) /\ Coming \subseteq Coming' \cup {h}
    BY <1>1, NextFile DEF EvidenceInvariant
  <1>4. term_files' = [w \in Words |-> [term_files[w] EXCEPT ![h] = Worded(h, w)]]
    BY DEF FoldDoc, Folded, Worded
  <1>5. words \in [Docs -> [Words -> Nat]] /\ term_files \in [Words -> [Docs -> Nat]]
    BY DEF EvidenceInvariant, EvidenceTyped, IsTable
  <1>6. \A w \in Words : Worded(h, w) \in Nat
    BY <1>1, <1>5 DEF Worded
  <1>7. ASSUME NEW w \in Words, NEW f \in Docs
        PROVE term_files'[w][f] = IF f = h THEN Worded(h, w) ELSE term_files[w][f]
    BY <1>4, <1>5
  <1>8. EvidenceTyped'
    <2>1. term_files' \in [Words -> [Docs -> Nat]]
      BY <1>4, <1>5, <1>6
    <2> QED BY <1>1, <1>2, <1>3, <2>1 DEF EvidenceInvariant, EvidenceTyped, IsTable
  <1>9. FilesTrue'
    <2>1. ASSUME NEW f \in Docs PROVE DocFolded(f)' \/ DocLeft(f)'
      <3>1. CASE f = h
        BY <3>1, <1>2, <1>7 DEF DocFolded, Worded
      <3>2. CASE f # h
        <4>1. \A w \in Words : term_files'[w][f] = term_files[w][f]
          BY <3>2, <1>7
        <4>2. CASE DocFolded(f)
          BY <4>1, <4>2, <1>2 DEF DocFolded, Worded
        <4>3. CASE DocLeft(f)
          BY <4>1, <4>3, <3>2, <1>1, <1>3 DEF DocLeft
        <4> QED BY <4>2, <4>3 DEF EvidenceInvariant, FilesTrue
      <3> QED BY <3>1, <3>2
    <2>2. \A f \in Code : CodeFolded(f)' \/ CodeLeft(f)'
      <3>1. \A f \in Code : f # h
        BY <1>1, EvidenceAssumption
      <3> QED BY <1>1, <1>2, <1>3, <3>1, RowsKept DEF EvidenceInvariant, FilesTrue
    <2> QED BY <1>1, <2>1, <2>2 DEF FilesTrue
  <1>10. MatchesTrue'
    BY <1>1, <1>2, MatchingWaits DEF EvidenceInvariant
  <1> QED BY <1>8, <1>9, <1>10 DEF EvidenceInvariant

(***************************************************************************)
(* Matching.                                                               *)
(***************************************************************************)
\* The identifiers the table keeps, and what it says of those it does not.
LEMMA ItemsAre ==
  ASSUME EvidenceTyped
  PROVE  /\ identifier_table.items \subseteq Spellings /\ identifier_table.items \subseteq Seen(ByKey(identifier_files))
         /\ IsFiniteSet(identifier_table.items)
         /\ \A n \in Spellings : IsCounter(identifier_files[n]) /\ DOMAIN identifier_files[n] = Code
         /\ ~identifier_table.truncated =>
              \A n \in Spellings : n \notin identifier_table.items => \A f \in Code : identifier_files[n][f] = 0
  <1>1. IsTable(identifier_files, Spellings, Code) /\ IdentifiersLimit \in Nat /\ IsFiniteSet(Spellings)
    BY EvidenceAssumption DEF EvidenceTyped
  <1>2. /\ identifier_table.items \subseteq Spellings /\ identifier_table.items \subseteq Seen(ByKey(identifier_files))
        /\ \A n \in Spellings : IsCounter(identifier_files[n]) /\ DOMAIN identifier_files[n] = Code
        /\ ~identifier_table.truncated =>
             \A n \in Spellings : n \notin identifier_table.items => \A f \in Code : identifier_files[n][f] = 0
    BY <1>1, FilesFinite, TableIs DEF identifier_table
  <1> QED BY <1>1, <1>2, FS_Subset

\* The starts are the positions of the tokens of the identifiers kept.
LEMMA StartsAre ==
  ASSUME EvidenceTyped
  PROVE  /\ IsFiniteSet(Starts)
         /\ \A n \in identifier_table.items : \A i \in 1..Len(identifier_tokens(n)) : <<n, i>> \in Starts
         /\ \A n, i : <<n, i>> \in Starts => n \in identifier_table.items /\ i \in 1..Len(identifier_tokens(n))
  <1> DEFINE c == [n \in identifier_table.items |-> Len(identifier_tokens(n))]
  <1>1. IsCounter(c)
    BY ItemsAre, PrefixIs DEF IsCounter
  <1>2. \A u : u \in Starts <=> \E n \in identifier_table.items : \E i \in 1..Len(identifier_tokens(n)) : u = <<n, i>>
    BY UsesAre DEF Starts
  <1>3. Starts = Uses(c)
    BY DEF Starts
  <1> HIDE DEF c
  <1>4. IsFiniteSet(Starts)
    BY <1>1, <1>3, TotalNat
  <1> QED BY <1>2, <1>4

\* The tables stay true once they are complete.
LEMMA EvidenceStill ==
  ASSUME EvidenceTyped, FilesTrue, UNCHANGED <<repository, unread, missed, vocabulary>>,
         pc' # "fold" => unread = <<>>
  PROVE  EvidenceTyped' /\ FilesTrue'
  <1>1. UNCHANGED <<identifiers, words, identifier_files, token_files, term_files, oversized_spellings>>
    BY DEF repository, vocabulary
  <1>2. Coming' = Coming
    BY DEF Coming
  <1>3. \A f \in Code : CodeFolded(f)' \/ CodeLeft(f)'
    BY <1>1, <1>2, UsesUnchanged DEF FilesTrue, CodeFolded, CodeLeft
  <1>4. \A f \in Docs : DocFolded(f)' \/ DocLeft(f)'
    BY <1>1, <1>2 DEF FilesTrue, DocFolded, DocLeft, Worded
  <1> QED BY <1>1, <1>3, <1>4 DEF EvidenceTyped, FilesTrue

\* The identifier table is what the vocabulary makes it.
LEMMA TableStill ==
  ASSUME UNCHANGED vocabulary
  PROVE  identifier_table' = identifier_table /\ Starts' = Starts
  BY DEF vocabulary, identifier_table, Starts

\* Building the index keeps the invariant: nothing was tried.
LEMMA BuildIndexKeeps ==
  ASSUME EvidenceInvariant, BuildIndex PROVE EvidenceInvariant'
  <1>1. /\ pc = "fold" /\ pc' = "match" /\ unread = <<>>
        /\ units' = IF Supported = {} THEN {} ELSE identifier_table.items
        /\ UNCHANGED <<repository, unread, missed, vocabulary, processed_starts, matches>>
    BY DEF BuildIndex
  <1>2. EvidenceTyped' /\ FilesTrue'
    BY <1>1, EvidenceStill DEF EvidenceInvariant
  <1>3. processed_starts = 0 /\ matches = [t \in Compounds |-> {}]
    BY <1>1 DEF EvidenceInvariant, MatchesTrue
  <1>4. TriedAt({})'
    <2>1. Cardinality({}) = 0
      BY FS_EmptySet
    <2> QED BY <1>1, <1>3, <2>1 DEF TriedAt
  <1>5. MatchesTrue'
    <2>1. units' \subseteq identifier_table'.items
      BY <1>1, TableStill
    <2>2. matches' \in [Compounds -> SUBSET Spellings] /\ \A t \in Compounds : matches'[t] = {}
      BY <1>1, <1>3
    <2>3. processed_starts' \in 0..CompoundStartBudget
      BY <1>1 DEF EvidenceInvariant, MatchesTrue
    <2> QED BY <1>1, <1>4, <2>1, <2>2, <2>3 DEF MatchesTrue
  <1> QED BY <1>2, <1>5 DEF EvidenceInvariant

\* The positions tried are of the identifier and within the budget.
LEMMA ReachIs ==
  ASSUME NEW n \in Spellings, processed_starts \in 0..CompoundStartBudget
  PROVE  /\ Reach(n) \in Nat /\ Reach(n) <= Len(identifier_tokens(n))
         /\ processed_starts + Reach(n) \in 0..CompoundStartBudget
  <1> DEFINE len == Len(identifier_tokens(n))
             left == CompoundStartBudget - processed_starts
  <1>1. len \in Nat /\ left \in Nat
    BY PrefixIs, EvidenceAssumption
  <1>2. Reach(n) = CHOOSE x \in {len, left} : \A y \in {len, left} : x <= y
    BY DEF Reach, Min
  <1> HIDE DEF len, left
  <1>3. \E x \in {len, left} : \A y \in {len, left} : x <= y
    <2>1. CASE len <= left
      BY <1>1, <2>1
    <2>2. CASE left <= len
      BY <1>1, <2>2
    <2> QED BY <1>1, <2>1, <2>2
  <1>4. Reach(n) \in {len, left} /\ Reach(n) <= len /\ Reach(n) <= left
    BY <1>2, <1>3
  <1>5. Reach(n) \in Nat
    BY <1>1, <1>4
  <1>6. processed_starts + Reach(n) \in 0..CompoundStartBudget
    <2>1. CompoundStartBudget \in Nat
      BY EvidenceAssumption
    <2> DEFINE r == Reach(n)
    <2>2. r \in Nat /\ r <= CompoundStartBudget - processed_starts
      BY <1>4, <1>5 DEF left
    <2> HIDE DEF r
    <2>3. processed_starts + r \in 0..CompoundStartBudget
      BY <2>1, <2>2
    <2> QED BY <2>3 DEF r
  <1> QED BY <1>4, <1>5, <1>6 DEF len

\* The starts tried of one more spelling are new ones.
LEMMA TriedMore ==
  ASSUME EvidenceTyped, NEW tried, TriedAt(tried), NEW name \in units,
         units \subseteq identifier_table.items,
         NEW reach \in Nat, reach <= Len(identifier_tokens(name)), processed_starts \in Nat
  PROVE  LET more == {<<name, i>> : i \in 1..reach}
         IN tried \cup more \subseteq Starts /\ Cardinality(tried \cup more) = processed_starts + reach
  <1> DEFINE more == {<<name, i>> : i \in 1..reach}
             f == [i \in 1..reach |-> <<name, i>>]
  <1>1. name \in identifier_table.items /\ name \in Spellings
    BY ItemsAre
  <1>2. Len(identifier_tokens(name)) \in Nat
    BY <1>1, PrefixIs
  <1>3. more \subseteq Starts
    <2>1. \A i \in 1..reach : i \in 1..Len(identifier_tokens(name))
      BY <1>2
    <2> QED BY <1>1, <2>1, StartsAre
  <1>4. IsFiniteSet(tried) /\ IsFiniteSet(more)
    BY <1>3, StartsAre, FS_Subset DEF TriedAt
  <1>5. Cardinality(more) = reach
    <2>1. f \in Bijection(1..reach, more)
      <3>1. f \in [1..reach -> more]
        OBVIOUS
      <3>2. \A i, j \in 1..reach : f[i] = f[j] => i = j
        OBVIOUS
      <3>3. \A u \in more : \E i \in 1..reach : f[i] = u
        OBVIOUS
      <3> HIDE DEF f, more
      <3> QED BY <3>1, <3>2, <3>3 DEF Bijection, Injection, Surjection, IsInjective
    <2>2. IsFiniteSet(1..reach) /\ Cardinality(1..reach) = reach
      <3>1. reach \in Int /\ 1 \in Int
        OBVIOUS
      <3>2. IsFiniteSet(1..reach) /\ Cardinality(1..reach) = IF 1 > reach THEN 0 ELSE reach - 1 + 1
        BY <3>1, FS_Interval
      <3>3. (IF 1 > reach THEN 0 ELSE reach - 1 + 1) = reach
        OBVIOUS
      <3> QED BY <3>2, <3>3
    <2> HIDE DEF f, more
    <2>3. ExistsBijection(1..reach, more)
      BY <2>1 DEF ExistsBijection
    <2> QED BY <2>2, <2>3, FS_Bijection
  <1>6. tried \cap more = {}
    BY DEF TriedAt
  <1>7. Cardinality({}) = 0 /\ Cardinality(tried) = processed_starts
    BY FS_EmptySet DEF TriedAt
  <1> HIDE DEF more
  <1>8. Cardinality(tried \cup more) = Cardinality(tried) + Cardinality(more) - Cardinality(tried \cap more)
    BY <1>4, FS_Union
  <1>9. Cardinality(tried \cup more) = processed_starts + reach
    <2> DEFINE all == Cardinality(tried \cup more)
               a == Cardinality(tried)
               b == Cardinality(more)
               both == Cardinality(tried \cap more)
    <2>1. all = a + b - both /\ a = processed_starts /\ b = reach /\ both = 0
      BY <1>5, <1>6, <1>7, <1>8
    <2> HIDE DEF all, a, b, both
    <2>2. all = processed_starts + reach
      BY <2>1
    <2> QED BY <2>2 DEF all
  <1> QED BY <1>3, <1>9 DEF more, TriedAt

\* Matching one identifier, all of it or until the budget is spent, keeps the
\* invariant.
LEMMA MatchUnitKeeps ==
  ASSUME EvidenceInvariant, NEW name \in Spellings, MatchUnit(name) PROVE EvidenceInvariant'
  <1> DEFINE reach == Reach(name)
             more == {<<name, i>> : i \in 1..reach}
  <1>1. /\ pc = "match" /\ pc' = "match" /\ name \in units
        /\ UNCHANGED <<repository, unread, missed, vocabulary>>
        /\ processed_starts' = processed_starts + reach
        /\ matches' = [t \in Compounds |-> IF t \in FoundFrom(name, reach) THEN matches[t] \cup {name} ELSE matches[t]]
        /\ units' = IF reach < Len(identifier_tokens(name)) THEN {} ELSE units \ {name}
    BY DEF MatchUnit
  <1>2. EvidenceTyped' /\ FilesTrue'
    BY <1>1, EvidenceStill DEF EvidenceInvariant, FilesTrue
  <1>3. /\ units \subseteq identifier_table.items /\ processed_starts \in 0..CompoundStartBudget
        /\ matches \in [Compounds -> SUBSET Spellings]
        /\ \A t \in Compounds : \A n \in matches[t] :
             t \in Supported /\ \E i \in 1..Len(identifier_tokens(n)) : Begins(TermTokens[t], identifier_tokens(n), i)
        /\ Supported # {} => \E tried : TriedAt(tried)
    BY <1>1 DEF EvidenceInvariant, MatchesTrue
  <1>4. /\ reach \in Nat /\ reach <= Len(identifier_tokens(name)) /\ Len(identifier_tokens(name)) \in Nat
        /\ processed_starts + reach \in 0..CompoundStartBudget
    BY <1>3, ReachIs, PrefixIs
  <1> HIDE DEF reach
  <1>5. \A t \in Supported : t \in FoundFrom(name, reach) <=>
          \E i \in 1..reach : Begins(TermTokens[t], identifier_tokens(name), i)
    BY DEF FoundFrom
  <1>6. \A t \in FoundFrom(name, reach) : t \in Supported
    BY DEF FoundFrom
  <1>7. \A t \in Compounds : /\ matches'[t] = IF t \in FoundFrom(name, reach) THEN matches[t] \cup {name} ELSE matches[t]
                             /\ matches[t] \subseteq matches'[t]
    BY <1>1
  <1>8. \A t \in Compounds : \A n \in matches'[t] :
          t \in Supported /\ \E i \in 1..Len(identifier_tokens(n)) : Begins(TermTokens[t], identifier_tokens(n), i)
    <2> SUFFICES ASSUME NEW t \in Compounds, NEW n \in matches'[t]
                 PROVE  t \in Supported /\ \E i \in 1..Len(identifier_tokens(n)) : Begins(TermTokens[t], identifier_tokens(n), i)
      OBVIOUS
    <2>1. CASE n \in matches[t]
      BY <1>3, <2>1
    <2>2. CASE n \notin matches[t]
      <3>0. matches'[t] = IF t \in FoundFrom(name, reach) THEN matches[t] \cup {name} ELSE matches[t]
        BY <1>7
      <3>1. n = name /\ t \in FoundFrom(name, reach)
        BY <3>0, <2>2
      <3>1a. t \in Supported
        BY <3>1, <1>6
      <3>2. PICK i \in 1..reach : Begins(TermTokens[t], identifier_tokens(name), i)
        BY <3>1, <3>1a, <1>5
      <3>3. i \in 1..Len(identifier_tokens(name))
        BY <1>4
      <3> QED BY <3>1, <3>1a, <3>2, <3>3
    <2> QED BY <2>1, <2>2
  <1>9. ASSUME NEW tried, TriedAt(tried) PROVE \E all : TriedAt(all)'
    <2>0. EvidenceTyped /\ processed_starts \in Nat
      BY <1>3 DEF EvidenceInvariant
    <2>1. /\ tried \cup more \subseteq Starts /\ Cardinality(tried \cup more) = processed_starts + reach
      BY <2>0, <1>1, <1>3, <1>4, <1>9, TriedMore
    <2>2. Starts' = Starts
      BY <1>1, TableStill
    <2>3. PICK all : all = tried \cup more
      OBVIOUS
    <2>4. ASSUME NEW n \in units', NEW i \in Nat PROVE <<n, i>> \notin all
      <3>1. n \in units /\ n # name
        BY <1>1
      <3> QED BY <3>1, <1>9, <2>3 DEF TriedAt
    <2>5. ASSUME NEW n \in Spellings, NEW i \in Nat, <<n, i>> \in all, NEW t \in Supported,
                 Begins(TermTokens[t], identifier_tokens(n), i)
          PROVE n \in matches'[t]
      <3>1. t \in Compounds
        BY DEF Supported
      <3>2. CASE <<n, i>> \in tried
        <4>1. n \in matches[t]
          BY <3>2, <2>5, <1>9 DEF TriedAt
        <4> QED BY <3>1, <4>1, <1>7
      <3>3. CASE <<n, i>> \in more
        <4>1. n = name /\ i \in 1..reach
          BY <3>3
        <4>2. t \in FoundFrom(name, reach)
          BY <4>1, <2>5, <1>5
        <4> QED BY <3>1, <4>1, <4>2, <1>7
      <3> QED BY <3>2, <3>3, <2>3, <2>5
    <2>6. all \subseteq Starts' /\ Cardinality(all) = processed_starts'
      BY <1>1, <2>1, <2>2, <2>3
    <2>7. TriedAt(all)'
      BY <2>4, <2>5, <2>6 DEF TriedAt
    <2> QED BY <2>7
  <1> HIDE DEF more
  <1>10. MatchesTrue'
    <2>1. units' \subseteq identifier_table'.items
      BY <1>1, <1>3, TableStill
    <2>2. matches' \in [Compounds -> SUBSET Spellings]
      BY <1>1, <1>3
    <2>3. Supported # {} => \E all : TriedAt(all)'
      BY <1>3, <1>9
    <2> QED BY <1>1, <1>4, <1>8, <2>1, <2>2, <2>3 DEF MatchesTrue
  <1> QED BY <1>2, <1>10 DEF EvidenceInvariant
\* The end of the pass keeps the invariant.
LEMMA EndMatchingKeeps ==
  ASSUME EvidenceInvariant, EndMatching PROVE EvidenceInvariant'
  <1>1. /\ pc = "match" /\ pc' = "done" /\ units = {}
        /\ UNCHANGED <<repository, unread, missed, vocabulary, matching>>
    BY DEF EndMatching
  <1>2. EvidenceTyped' /\ FilesTrue'
    BY <1>1, EvidenceStill DEF EvidenceInvariant, FilesTrue
  <1>3. UNCHANGED <<units, processed_starts, matches>>
    BY <1>1 DEF matching
  <1>4. ASSUME NEW tried, TriedAt(tried) PROVE TriedAt(tried)'
    BY <1>1, <1>3, <1>4, TableStill DEF TriedAt
  <1>5. MatchesTrue'
    BY <1>1, <1>3, <1>4, TableStill DEF EvidenceInvariant, MatchesTrue
  <1> QED BY <1>2, <1>5 DEF EvidenceInvariant

\* Every step keeps the invariant.
LEMMA EvidenceKeeps == EvidenceInvariant /\ [EvidenceNext]_evidenceVars => EvidenceInvariant'
  <1> SUFFICES ASSUME EvidenceInvariant, [EvidenceNext]_evidenceVars PROVE EvidenceInvariant'
    OBVIOUS
  <1>1. CASE MissFile
    BY <1>1, MissFileKeeps
  <1>2. CASE FoldCode
    BY <1>2, FoldCodeKeeps
  <1>3. CASE FoldDoc
    BY <1>3, FoldDocKeeps
  <1>4. CASE BuildIndex
    BY <1>4, BuildIndexKeeps
  <1>5. CASE EndMatching
    BY <1>5, EndMatchingKeeps
  <1>6. ASSUME NEW n \in Spellings, MatchUnit(n) PROVE EvidenceInvariant'
    BY <1>6, MatchUnitKeeps
  <1>7. CASE UNCHANGED evidenceVars
    <2>1. UNCHANGED <<repository, unread, missed, vocabulary, pc, units, processed_starts, matches>>
      BY <1>7 DEF evidenceVars, matching
    <2>2. UNCHANGED <<identifiers, words>>
      BY <2>1 DEF repository
    <2>3. EvidenceTyped' /\ FilesTrue'
      <3>1. UNCHANGED <<identifier_files, token_files, term_files, oversized_spellings>>
        BY <2>1 DEF vocabulary
      <3>2. Coming' = Coming
        BY <2>1 DEF Coming
      <3>3. \A f \in Code : CodeFolded(f)' \/ CodeLeft(f)'
        BY <2>1, <2>2, <3>1, <3>2, UsesUnchanged DEF EvidenceInvariant, FilesTrue, CodeFolded, CodeLeft
      <3>4. \A f \in Docs : DocFolded(f)' \/ DocLeft(f)'
        BY <2>1, <2>2, <3>1, <3>2 DEF EvidenceInvariant, FilesTrue, DocFolded, DocLeft, Worded
      <3> QED BY <2>1, <2>2, <3>1, <3>3, <3>4 DEF EvidenceInvariant, EvidenceTyped, FilesTrue
    <2>4. ASSUME NEW tried, TriedAt(tried) PROVE TriedAt(tried)'
      BY <2>1, <2>4, TableStill DEF TriedAt
    <2>5. MatchesTrue'
      BY <2>1, <2>4, TableStill DEF EvidenceInvariant, MatchesTrue
    <2> QED BY <2>3, <2>5 DEF EvidenceInvariant
  <1> QED BY <1>1, <1>2, <1>3, <1>4, <1>5, <1>6, <1>7 DEF EvidenceNext

(***************************************************************************)
(* What the tables hold once every file has been come to.                  *)
(***************************************************************************)
\* What a spelling counts of a term, by all its tokens.
UseOf(t, n) ==
  LET wanted == TermTokens[t]
  IN CASE Len(wanted) = 0 -> 0
       [] Len(wanted) = 1 -> Times(wanted[1], TokensOf[n])
       [] OTHER -> IF Within(wanted, TokensOf[n]) THEN 1 ELSE 0

\* A product grows with its factor.
LEMMA Product ==
  ASSUME NEW c \in Nat, NEW x \in Nat, NEW y \in Nat, x <= y
  PROVE  c * x \in Nat /\ c * y \in Nat /\ c * x <= c * y
  <1>1. PICK d \in Nat : y = x + d
    <2>1. y - x \in Nat /\ y = x + (y - x)
      OBVIOUS
    <2> QED BY <2>1
  <1>2. c * y = c * x + c * d /\ c * x \in Nat /\ c * d \in Nat
    BY <1>1
  <1> QED BY <1>2

\* The true uses of a term in a file are a count.
LEMMA TrueUsesAre ==
  ASSUME EvidenceTyped, NEW t \in Terms, NEW f \in Code
  PROVE  /\ \A n \in Spellings : UseOf(t, n) \in Nat
         /\ IsCounter([n \in Spellings |-> identifiers[f][n] * UseOf(t, n)])
         /\ TrueUses(t, f) = Total([n \in Spellings |-> identifiers[f][n] * UseOf(t, n)])
         /\ TrueUses(t, f) \in Nat
  <1> DEFINE c == [n \in Spellings |-> identifiers[f][n] * UseOf(t, n)]
  <1>1. ASSUME NEW n \in Spellings PROVE UseOf(t, n) \in Nat
    <2>1. Times(TermTokens[t][1], TokensOf[n]) \in Nat
      BY TimesIs
    <2> QED BY <2>1 DEF UseOf
  <1>2. ASSUME NEW n \in Spellings PROVE identifiers[f][n] * UseOf(t, n) \in Nat
    <2> DEFINE a == identifiers[f][n]
               b == UseOf(t, n)
    <2>1. a \in Nat /\ b \in Nat
      BY <1>1 DEF EvidenceTyped
    <2> HIDE DEF a, b
    <2>2. a * b \in Nat
      BY <2>1
    <2> QED BY <2>2 DEF a, b
  <1>3. IsCounter(c)
    BY <1>2, EvidenceAssumption DEF IsCounter
  <1>4. TrueUses(t, f) = Total(c)
    BY DEF TrueUses, UseOf
  <1> HIDE DEF c
  <1>5. Total(c) \in Nat
    BY <1>3, TotalNat
  <1> QED BY <1>1, <1>3, <1>4, <1>5 DEF c

\* The tables hold no more than the files do, nothing of a file that is not
\* production, and all of the production files if none was missed.
LEMMA SpellingsHeld ==
  ASSUME EvidenceInvariant, pc # "fold", NEW n \in Spellings, NEW f \in Code
  PROVE  /\ identifier_files[n][f] \in Nat /\ identifiers[f][n] \in Nat
         /\ identifier_files[n][f] <= identifiers[f][n]
         /\ f \notin Production => identifier_files[n][f] = 0
         /\ production_complete /\ f \in Production =>
              /\ identifier_files[n][f] = identifiers[f][n]
              /\ identifiers[f][n] # 0 /\ oversized_spellings = {} => Complete(n)
  <1>1. Coming = {}
    BY DEF EvidenceInvariant, FilesTrue, Coming
  <1>2. identifier_files[n][f] \in Nat /\ identifiers[f] \in [Spellings -> Nat]
    BY DEF EvidenceInvariant, EvidenceTyped, IsTable
  <1>3. CASE CodeFolded(f)
    <2>1. identifier_files[n][f] = IF f \in Production THEN identifiers[f][n] ELSE 0
      BY <1>3 DEF CodeFolded, Held
    <2>2. identifiers[f][n] # 0 => n \in Seen(identifiers[f])
      BY <1>2 DEF Seen
    <2>3. f \in Production /\ identifiers[f][n] # 0 /\ oversized_spellings = {} => Complete(n)
      BY <1>3, <2>2 DEF CodeFolded
    <2> QED BY <1>2, <2>1, <2>3
  <1>4. CASE CodeLeft(f)
    <2>1. f \in missed /\ identifier_files[n][f] = 0
      BY <1>1, <1>4 DEF CodeLeft
    <2> QED BY <1>2, <2>1 DEF production_complete
  <1> QED BY <1>3, <1>4 DEF EvidenceInvariant, FilesTrue

\* The same of the words of the documents.
LEMMA WordsHeld ==
  ASSUME EvidenceInvariant, pc # "fold", NEW w \in Words, NEW f \in Docs
  PROVE  /\ term_files[w][f] \in Nat /\ words[f][w] \in Nat
         /\ term_files[w][f] <= words[f][w]
         /\ f \notin Production => term_files[w][f] = 0
         /\ production_complete /\ f \in Production => term_files[w][f] = words[f][w]
  <1>1. Coming = {}
    BY DEF EvidenceInvariant, FilesTrue, Coming
  <1>2. term_files[w][f] \in Nat /\ words[f][w] \in Nat
    BY DEF EvidenceInvariant, EvidenceTyped, IsTable
  <1>3. CASE DocFolded(f)
    BY <1>2, <1>3 DEF DocFolded, Worded
  <1>4. CASE DocLeft(f)
    BY <1>1, <1>2, <1>4 DEF DocLeft, production_complete
  <1> QED BY <1>3, <1>4 DEF EvidenceInvariant, FilesTrue

\* The same of the tokens of code; all of them only if no tail was omitted.
LEMMA TokensHeld ==
  ASSUME EvidenceInvariant, pc # "fold", NEW t \in Terms, Len(TermTokens[t]) = 1, NEW f \in Code
  PROVE  /\ TermTokens[t][1] \in Tokens
         /\ token_files[TermTokens[t][1]][f] \in Nat
         /\ token_files[TermTokens[t][1]][f] <= TrueUses(t, f)
         /\ f \notin Production => token_files[TermTokens[t][1]][f] = 0
         /\ corpus_complete /\ f \in Production => token_files[TermTokens[t][1]][f] = TrueUses(t, f)
  <1> DEFINE x == TermTokens[t][1]
             S == IF f \in Production THEN Seen(identifiers[f]) ELSE {}
             c == [n \in S |-> identifiers[f][n] * Times(x, identifier_tokens(n))]
             d == [n \in Spellings |-> identifiers[f][n] * UseOf(t, n)]
  <1>0. EvidenceTyped
    BY DEF EvidenceInvariant
  <1>1. x \in Tokens
    <2>1. TermTokens[t] \in Seq(Tokens)
      BY EvidenceAssumption
    <2> QED BY <2>1
  <1>2. token_files[x][f] \in Nat /\ identifiers \in [Code -> [Spellings -> Nat]]
    BY <1>1 DEF EvidenceInvariant, EvidenceTyped, IsTable
  <1>3. Coming = {}
    BY DEF EvidenceInvariant, FilesTrue, Coming
  <1>4. IsCounter(c) /\ TokenUses(x, f) = Total(c)
    BY <1>2, TokenUsesNat
  <1>5. IsCounter(d) /\ TrueUses(t, f) = Total(d) /\ Total(d) \in Nat
    BY <1>0, TrueUsesAre
  <1>6. \A n \in Spellings : UseOf(t, n) = Times(x, TokensOf[n])
    BY DEF UseOf
  <1>7. S \subseteq Spellings /\ DOMAIN c = S /\ DOMAIN d = Spellings
    BY <1>2 DEF Seen
  <1>8. ASSUME NEW n \in S
        PROVE  /\ c[n] \in Nat /\ d[n] \in Nat /\ c[n] <= d[n]
               /\ Complete(n) => c[n] = d[n]
    <2> DEFINE a == identifiers[f][n]
               p == Times(x, identifier_tokens(n))
               q == Times(x, TokensOf[n])
    <2>1. n \in Spellings /\ a \in Nat
      BY <1>2, <1>7
    <2>2. p \in Nat /\ q \in Nat /\ p <= q /\ (Complete(n) => p = q)
      BY <2>1, TimesIs
    <2>3. c[n] = a * p /\ d[n] = a * q
      BY <2>1, <1>6
    <2> HIDE DEF a, p, q, c, d
    <2>4. a * p \in Nat /\ a * q \in Nat /\ a * p <= a * q
      BY <2>1, <2>2, Product
    <2> QED BY <2>2, <2>3, <2>4
  <1>9. ASSUME NEW n \in Spellings, f \in Production, d[n] # 0 PROVE n \in S
    <2> DEFINE a == identifiers[f][n]
               q == UseOf(t, n)
    <2>1. a \in Nat /\ q \in Nat /\ d[n] = a * q
      BY <1>0, <1>2, TrueUsesAre
    <2> HIDE DEF a, q, d
    <2>2. a # 0
      BY <2>1, <1>9
    <2> QED BY <1>2, <1>9, <2>1, <2>2 DEF a, Seen
  <1> HIDE DEF c, d
  <1>10. Total(c) <= Total(d)
    <2>1. ASSUME NEW n \in DOMAIN c, c[n] # 0 PROVE n \in DOMAIN d /\ c[n] <= d[n]
      BY <1>7, <1>8
    <2> QED BY <2>1, <1>4, <1>5, TotalAtMost
  <1>11. ASSUME f \in Production, \A n \in S : Complete(n) PROVE Total(c) = Total(d)
    <2>1. ASSUME NEW n \in DOMAIN c, c[n] # 0 PROVE n \in DOMAIN d /\ c[n] = d[n]
      BY <1>7, <1>8, <1>11
    <2>2. ASSUME NEW n \in DOMAIN d, d[n] # 0 PROVE n \in DOMAIN c /\ c[n] = d[n]
      BY <1>7, <1>8, <1>9, <1>11, <2>2
    <2> QED BY <2>1, <2>2, <1>4, <1>5, TotalSame
  <1>12. CASE CodeFolded(f)
    <2>1. token_files[x][f] = Total(c)
      BY <1>1, <1>4, <1>12 DEF CodeFolded
    <2>2. corpus_complete /\ f \in Production => \A n \in S : Complete(n)
      BY <1>12 DEF CodeFolded, corpus_complete, identifier_tokens_complete
    <2>3. f \notin Production => Total(c) = 0
      <3>1. f \notin Production => Seen(c) = {}
        BY <1>7 DEF Seen
      <3> QED BY <3>1, <1>4, TotalZero
    <2> QED BY <1>1, <1>2, <1>5, <1>10, <1>11, <2>1, <2>2, <2>3
  <1>13. CASE CodeLeft(f)
    <2>1. f \in missed /\ token_files[x][f] = 0
      BY <1>1, <1>3, <1>13 DEF CodeLeft
    <2>2. ~(corpus_complete /\ f \in Production)
      BY <2>1 DEF corpus_complete, production_complete
    <2> QED BY <1>1, <1>5, <2>1, <2>2
  <1> QED BY <1>12, <1>13 DEF EvidenceInvariant, FilesTrue

(***************************************************************************)
(* The answers.                                                            *)
(***************************************************************************)
\* An answer about a word of documentation is true.
LEMMA DocsAnswer ==
  ASSUME EvidenceInvariant, pc # "fold", NEW s \in Scopes, NEW t \in Terms
  PROVE  Answered(doc_term_occurrence(t, s), DocTruth(t, s))
  <1>1. CASE DocKey[t] = None
    BY <1>1 DEF doc_term_occurrence, DocTruth, Absent, Facts, Answered, Answers
  <1>2. CASE DocKey[t] # None
    <2> DEFINE w == DocKey[t]
               true == [f \in Docs |-> words[f][w]]
    <2>1. w \in Words
      BY <1>2, EvidenceAssumption
    <2>2. DocTruth(t, s) = Truth(Docs, s, true)
      <3>1. InsideOf(Docs, s) = Production \cap Docs \cap s
        BY DEF InsideOf
      <3>2. \A f \in Production \cap Docs \cap s : true[f] = words[f][w]
        OBVIOUS
      <3> QED BY <3>1, <3>2, <1>2 DEF DocTruth, Truth
    <2>3. /\ \A f \in Docs : /\ term_files[w][f] \in Nat /\ true[f] \in Nat /\ term_files[w][f] <= true[f]
                             /\ f \notin Production => term_files[w][f] = 0
          /\ production_complete => \A f \in Docs \cap Production : term_files[w][f] = true[f]
      BY <2>1, WordsHeld
    <2>4. true \in [Docs -> Nat]
      BY <2>3
    <2>5. term_files[w] \in [Docs -> Nat] /\ IsTable(term_files, Words, Docs)
      BY <2>1 DEF EvidenceInvariant, EvidenceTyped, IsTable
    <2> HIDE DEF true
    <2>6. production_complete \in BOOLEAN
      BY DEF production_complete
    <2>7. CASE w \notin doc_terms.items
      <3> DEFINE exact == ~doc_terms.truncated /\ production_complete
      <3>1. ~doc_terms.truncated => \A f \in Docs : term_files[w][f] = 0
        <4>1. DocTermsLimit \in Nat /\ IsFiniteSet(Words) /\ IsFiniteSet(Docs) /\ Words \subseteq DOMAIN Rank
          BY FilesFinite, EvidenceAssumption
        <4> QED BY <2>1, <2>5, <2>7, <4>1, TableIs DEF doc_terms
      <3>2. exact => \A f \in InsideOf(Docs, s) : true[f] = 0
        <4>1. \A f \in InsideOf(Docs, s) : f \in Docs /\ f \in Production
          BY DEF InsideOf
        <4> QED BY <3>1, <2>3, <4>1
      <3>3. doc_term_occurrence(t, s) = Absent(exact)
        BY <1>2, <2>7 DEF doc_term_occurrence
      <3>4. exact \in BOOLEAN
        OBVIOUS
      <3> HIDE DEF exact
      <3> QED BY <3>2, <3>3, <3>4, <2>2, <2>4, FilesFinite, AbsentAnswers
    <2>8. CASE w \in doc_terms.items
      <3>1. doc_term_occurrence(t, s) = Entry(term_files[w], s, production_complete)
        BY <1>2, <2>8 DEF doc_term_occurrence
      <3>2. Answered(Entry(term_files[w], s, production_complete), Truth(Docs, s, true))
        BY <2>3, <2>4, <2>5, <2>6, FilesFinite, EntryAnswers
      <3> QED BY <3>1, <3>2, <2>2
    <2> QED BY <2>7, <2>8
  <1> QED BY <1>1, <1>2

\* An answer about an identifier is true.
LEMMA IdentifiersAnswer ==
  ASSUME EvidenceInvariant, pc # "fold", NEW s \in Scopes, NEW n \in Spellings
  PROVE  Answered(code_identifier_occurrence(n, s), IdentifierTruth(n, s))
  <1> DEFINE true == [f \in Code |-> identifiers[f][n]]
  <1>2. IdentifierTruth(n, s) = Truth(Code, s, true)
    <2>1. InsideOf(Code, s) = Production \cap Code \cap s
      BY DEF InsideOf
    <2>2. \A f \in Production \cap Code \cap s : true[f] = identifiers[f][n]
      OBVIOUS
    <2> QED BY <2>1, <2>2 DEF IdentifierTruth, Truth
  <1>3. /\ \A f \in Code : /\ identifier_files[n][f] \in Nat /\ true[f] \in Nat /\ identifier_files[n][f] <= true[f]
                           /\ f \notin Production => identifier_files[n][f] = 0
        /\ production_complete => \A f \in Code \cap Production : identifier_files[n][f] = true[f]
    BY SpellingsHeld
  <1>4. true \in [Code -> Nat]
    BY <1>3
  <1>5. identifier_files[n] \in [Code -> Nat]
    BY DEF EvidenceInvariant, EvidenceTyped, IsTable
  <1> HIDE DEF true
  <1>6. production_complete \in BOOLEAN
    BY DEF production_complete
  <1>7. CASE n \notin identifier_table.items
    <2> DEFINE exact == ~identifier_table.truncated /\ production_complete
    <2>1. ~identifier_table.truncated => \A f \in Code : identifier_files[n][f] = 0
      BY <1>7, ItemsAre DEF EvidenceInvariant
    <2>2. exact => \A f \in InsideOf(Code, s) : true[f] = 0
      <3>1. \A f \in InsideOf(Code, s) : f \in Code /\ f \in Production
        BY DEF InsideOf
      <3> QED BY <2>1, <1>3, <3>1
    <2>3. code_identifier_occurrence(n, s) = Absent(exact)
      BY <1>7 DEF code_identifier_occurrence
    <2>4. exact \in BOOLEAN
      OBVIOUS
    <2> HIDE DEF exact
    <2> QED BY <2>2, <2>3, <2>4, <1>2, <1>4, FilesFinite, AbsentAnswers
  <1>8. CASE n \in identifier_table.items
    <2>1. code_identifier_occurrence(n, s) = Entry(identifier_files[n], s, production_complete)
      BY <1>8 DEF code_identifier_occurrence
    <2>2. Answered(Entry(identifier_files[n], s, production_complete), Truth(Code, s, true))
      BY <1>3, <1>4, <1>5, <1>6, FilesFinite, EntryAnswers
    <2> QED BY <2>1, <2>2, <1>2
  <1> QED BY <1>7, <1>8

\* An answer about a term's uses in code.
CodeAnswers(t, s) ==
  LET o == code_term_occurrence(t, s) IN
  /\ Answered(o, CodeTruth(t, s))
  /\ o.spread_exact => o.files = CodeTruth(t, s).files

\* The truth about a term is what is true of each file, in the scope.
LEMMA CodeTruthIs ==
  ASSUME EvidenceTyped, NEW t \in Terms, NEW s
  PROVE  LET true == [f \in Code |-> TrueUses(t, f)]
         IN true \in [Code -> Nat] /\ CodeTruth(t, s) = Truth(Code, s, true)
  <1> DEFINE true == [f \in Code |-> TrueUses(t, f)]
  <1>1. true \in [Code -> Nat]
    BY TrueUsesAre
  <1>2. InsideOf(Code, s) = Production \cap Code \cap s
    BY DEF InsideOf
  <1>3. \A f \in Production \cap Code \cap s : true[f] = TrueUses(t, f)
    OBVIOUS
  <1> QED BY <1>1, <1>2, <1>3 DEF CodeTruth, Truth

\* An answer about a term of one token is true.
LEMMA TokensAnswer ==
  ASSUME EvidenceInvariant, pc # "fold", NEW s \in Scopes, NEW t \in Terms, Len(TermTokens[t]) = 1
  PROVE  CodeAnswers(t, s)
  <1> DEFINE x == TermTokens[t][1]
             true == [f \in Code |-> TrueUses(t, f)]
             o == code_term_occurrence(t, s)
  <1>1. o = _single_token_occurrence(x, s)
    BY DEF code_term_occurrence
  <1>2. true \in [Code -> Nat] /\ CodeTruth(t, s) = Truth(Code, s, true)
    BY CodeTruthIs DEF EvidenceInvariant
  <1>3. x \in Tokens
    <2>1. TermTokens[t] \in Seq(Tokens)
      BY EvidenceAssumption
    <2> QED BY <2>1
  <1>4. /\ \A f \in Code : /\ token_files[x][f] \in Nat /\ true[f] \in Nat /\ token_files[x][f] <= true[f]
                           /\ f \notin Production => token_files[x][f] = 0
        /\ corpus_complete => \A f \in Code \cap Production : token_files[x][f] = true[f]
    BY TokensHeld, <1>2
  <1>5. token_files[x] \in [Code -> Nat] /\ IsTable(token_files, Tokens, Code)
    BY <1>3 DEF EvidenceInvariant, EvidenceTyped, IsTable
  <1>6. corpus_complete \in BOOLEAN
    BY DEF corpus_complete, production_complete
  <1> HIDE DEF true
  <1>7. CASE x \notin tokens.items
    <2> DEFINE exact == ~tokens.truncated /\ corpus_complete
    <2>1. ~tokens.truncated => \A f \in Code : token_files[x][f] = 0
      <3>1. TokensLimit \in Nat /\ IsFiniteSet(Tokens) /\ IsFiniteSet(Code) /\ Tokens \subseteq DOMAIN Rank
        BY FilesFinite, EvidenceAssumption
      <3> QED BY <1>3, <1>5, <1>7, <3>1, TableIs DEF tokens
    <2>2. exact => \A f \in InsideOf(Code, s) : true[f] = 0
      <3>1. \A f \in InsideOf(Code, s) : f \in Code /\ f \in Production
        BY DEF InsideOf
      <3> QED BY <2>1, <1>4, <3>1
    <2>3. o = Absent(exact)
      BY <1>1, <1>7 DEF _single_token_occurrence
    <2>4. exact \in BOOLEAN
      OBVIOUS
    <2> HIDE DEF exact
    <2>5. /\ Answered(Absent(exact), Truth(Code, s, true))
          /\ Absent(exact).spread_exact => Absent(exact).files = Truth(Code, s, true).files
      BY <2>2, <2>4, <1>2, FilesFinite, AbsentAnswers
    <2> QED BY <2>3, <2>5, <1>2 DEF CodeAnswers
  <1>8. CASE x \in tokens.items
    <2>1. o = Entry(token_files[x], s, corpus_complete)
      BY <1>1, <1>8 DEF _single_token_occurrence
    <2>2. /\ Answered(Entry(token_files[x], s, corpus_complete), Truth(Code, s, true))
          /\ Entry(token_files[x], s, corpus_complete).spread_exact =>
               Entry(token_files[x], s, corpus_complete).files = Truth(Code, s, true).files
      BY <1>2, <1>4, <1>5, <1>6, FilesFinite, EntryAnswers
    <2> QED BY <2>1, <2>2, <1>2 DEF CodeAnswers
  <1> QED BY <1>7, <1>8

(***************************************************************************)
(* Compounds: found wherever they begin, if the pass was not cut off.      *)
(***************************************************************************)
\* A pass that tried every start found each compound wherever it begins.
LEMMA AllTried ==
  ASSUME EvidenceInvariant, pc # "fold", compound_complete,
         NEW t \in Supported, NEW n \in identifier_table.items,
         NEW i \in 1..Len(identifier_tokens(n)), Begins(TermTokens[t], identifier_tokens(n), i)
  PROVE  n \in matches[t]
  <1>1. n \in Spellings /\ IsFiniteSet(Starts) /\ <<n, i>> \in Starts
    BY ItemsAre, StartsAre DEF EvidenceInvariant
  <1>2. PICK tried : TriedAt(tried)
    BY DEF EvidenceInvariant, MatchesTrue
  <1>3. processed_starts >= Cardinality(Starts)
    <2>1. total_starts = Cardinality(Starts)
      BY DEF total_starts, StartsOf, Total, Starts
    <2> QED BY <2>1 DEF compound_complete
  <1>4. tried = Starts
    <2>1. tried \subseteq Starts /\ Cardinality(tried) = processed_starts
      BY <1>2 DEF TriedAt
    <2>2. Cardinality(tried) <= Cardinality(Starts) /\ (Cardinality(tried) = Cardinality(Starts) => tried = Starts)
      BY <1>1, <2>1, FS_Subset
    <2>3. Cardinality(Starts) \in Nat /\ Cardinality(tried) \in Nat
      BY <1>1, <2>1, FS_Subset, FS_CardinalityType
    <2> QED BY <1>3, <2>1, <2>2, <2>3
  <1>5. i \in Nat
    BY <1>1, PrefixIs
  <1> QED BY <1>1, <1>2, <1>4, <1>5 DEF TriedAt

\* A spelling matched to a compound holds it.
LEMMA MatchedHolds ==
  ASSUME EvidenceInvariant, pc # "fold", NEW t \in Compounds, NEW n \in matches[t]
  PROVE  n \in Spellings /\ Within(TermTokens[t], TokensOf[n]) /\ UseOf(t, n) = 1
  <1>1. n \in Spellings
    BY DEF EvidenceInvariant, MatchesTrue
  <1>2. PICK i \in 1..Len(identifier_tokens(n)) : Begins(TermTokens[t], identifier_tokens(n), i)
    BY DEF EvidenceInvariant, MatchesTrue
  <1>3. t \in Terms /\ Len(TermTokens[t]) > 1 /\ Len(TermTokens[t]) \in Nat
    <2>1. t \in Terms /\ Len(TermTokens[t]) > 1
      BY DEF Compounds
    <2>2. TermTokens[t] \in Seq(Tokens)
      BY <2>1, EvidenceAssumption
    <2> QED BY <2>1, <2>2
  <1>4. Within(TermTokens[t], TokensOf[n])
    BY <1>1, <1>2, <1>3, WithinIs
  <1>5. Len(TermTokens[t]) # 0 /\ Len(TermTokens[t]) # 1
    BY <1>3
  <1> QED BY <1>1, <1>4, <1>5 DEF UseOf

\* Counts by spelling and by file have one total.
LEMMA ByFile ==
  ASSUME NEW rows \in [Spellings -> [Code -> Nat]]
  PROVE  Total([n \in Spellings |-> Total(rows[n])])
           = Total([f \in Code |-> Total([n \in Spellings |-> rows[n][f]])])
  <1>1. IsFiniteSet(Spellings) /\ IsFiniteSet(Code)
    BY FilesFinite, EvidenceAssumption
  <1> QED BY <1>1, Exchange

\* An answer about a compound is true: it counts the uses of the spellings
\* matched, file by file, and all of them when nothing was cut, clipped or left
\* untried.
LEMMA CompoundsAnswer ==
  ASSUME EvidenceInvariant, pc # "fold", NEW s \in Scopes, NEW t \in Terms, Len(TermTokens[t]) > 1
  PROVE  CodeAnswers(t, s)
  <1> DEFINE inside == InsideOf(Code, s)
             true == [f \in Code |-> TrueUses(t, f)]
             o == code_term_occurrence(t, s)
             at(n) == location_sample(identifier_files[n]).paths \cap s
             amount(n) == IF s = AllFiles THEN Total(identifier_files[n])
                          ELSE Total(Restrict(identifier_files[n], at(n)))
             indexed == /\ ~identifier_table.truncated /\ corpus_complete
                        /\ t \in Supported /\ compound_complete
             counted == [n \in matches[t] |-> amount(n)]
             rows == [n \in Spellings |-> [f \in Code |->
                        IF n \in matches[t] /\ (s = AllFiles \/ f \in at(n)) THEN identifier_files[n][f] ELSE 0]]
             byfile == [f \in Code |-> Total([n \in Spellings |-> rows[n][f]])]
             truth == [f \in inside |-> true[f]]
  <1>0. Len(TermTokens[t]) # 0 /\ Len(TermTokens[t]) # 1
    <2> DEFINE len == Len(TermTokens[t])
    <2>1. TermTokens[t] \in Seq(Tokens)
      BY EvidenceAssumption
    <2>2. len \in Nat /\ len > 1
      BY <2>1
    <2> HIDE DEF len
    <2>3. len # 0 /\ len # 1
      BY <2>2
    <2> QED BY <2>3 DEF len
  <1>1. t \in Compounds /\ EvidenceTyped
    BY DEF Compounds, EvidenceInvariant
  <1>2. /\ o.count = Total(counted) /\ o.count_exact = (indexed /\ (s = AllFiles \/ ~Clipped(t)))
        /\ o.files = UNION {at(n) : n \in matches[t]} /\ o.spread_exact = (indexed /\ ~Clipped(t))
    <2>2. o = _compound_occurrence(t, s)
      BY <1>0 DEF code_term_occurrence
    <2> HIDE DEF o
    <2> QED BY <2>2 DEF _compound_occurrence, Facts
  <1>3. true \in [Code -> Nat] /\ CodeTruth(t, s) = Truth(Code, s, true)
    BY <1>1, CodeTruthIs
  <1>4. Truth(Code, s, true).count = Total(truth) /\ Truth(Code, s, true).files = {f \in inside : true[f] > 0}
    BY DEF Truth
  <1>5. IsCounter(truth) /\ DOMAIN truth = inside /\ \A f \in inside : truth[f] = true[f]
    BY <1>3, FilesFinite, TruthCounts
  <1>6. \A n \in matches[t] : n \in Spellings /\ UseOf(t, n) = 1
    BY <1>1, MatchedHolds
  <1>7. \A f \in Code : f \in inside <=> f \in Production /\ f \in s
    BY DEF InsideOf
  <1>8. inside \subseteq Code
    BY DEF InsideOf
  <1>9. \A n \in Spellings : identifier_files[n] \in [Code -> Nat] /\ IsCounter(identifier_files[n])
    BY <1>1, ItemsAre DEF EvidenceTyped, IsTable
  <1>10. ASSUME NEW n \in Spellings
         PROVE  /\ at(n) \subseteq Seen(identifier_files[n]) /\ at(n) \subseteq s /\ at(n) \subseteq Code
                /\ ~location_sample(identifier_files[n]).truncated => at(n) = Seen(identifier_files[n]) \cap s
                /\ IsFiniteSet(at(n))
    <2>1. IsCounter(identifier_files[n]) /\ DOMAIN identifier_files[n] = Code
      BY <1>1, ItemsAre
    <2>2. /\ at(n) \subseteq Seen(identifier_files[n])
          /\ ~location_sample(identifier_files[n]).truncated => at(n) = Seen(identifier_files[n]) \cap s
      BY <2>1, FilesFinite, SampleIs
    <2>3. Seen(identifier_files[n]) \subseteq Code
      BY <2>1 DEF Seen
    <2> QED BY <2>2, <2>3, FilesFinite, FS_Subset
  <1>11. ASSUME NEW f \in Code
         PROVE  /\ true[f] = Total([n \in Spellings |-> identifiers[f][n] * UseOf(t, n)])
                /\ IsCounter([n \in Spellings |-> identifiers[f][n] * UseOf(t, n)])
    BY <1>1, TrueUsesAre
  <1>12. ASSUME NEW f \in Code, NEW n \in Spellings
         PROVE  /\ identifier_files[n][f] \in Nat /\ identifiers[f][n] \in Nat
                /\ identifier_files[n][f] <= identifiers[f][n]
                /\ f \notin Production => identifier_files[n][f] = 0
    BY SpellingsHeld
  <1>13. \A n \in Spellings : UseOf(t, n) \in {0, 1} /\ (UseOf(t, n) = 1 => Within(TermTokens[t], TokensOf[n]))
    BY <1>0 DEF UseOf
  \* With nothing cut, a spelling that holds the term was matched.
  <1>14. ASSUME indexed, NEW f \in inside, NEW n \in Spellings, UseOf(t, n) = 1, identifiers[f][n] # 0
         PROVE  n \in matches[t] /\ identifier_files[n][f] = identifiers[f][n]
    <2>1. f \in Code /\ f \in Production
      BY <1>7, <1>8
    <2>2. production_complete /\ oversized_spellings = {}
      BY <1>14 DEF corpus_complete, identifier_tokens_complete
    <2>3. identifier_files[n][f] = identifiers[f][n] /\ Complete(n)
      BY <1>14, <2>1, <2>2, SpellingsHeld
    <2>4. n \in identifier_table.items
      BY <1>1, <1>14, <2>1, <2>3, ItemsAre
    <2>5. PICK i \in 1..Len(TokensOf[n]) : Begins(TermTokens[t], TokensOf[n], i)
      BY <1>13, <1>14 DEF Within
    <2>6. identifier_tokens(n) = TokensOf[n]
      BY <2>3, PrefixIs
    <2>7. n \in matches[t]
      BY <1>14, <2>4, <2>5, <2>6, AllTried
    <2> QED BY <2>3, <2>7
  <1> HIDE DEF o, inside, true, indexed, truth
  \* The count by spelling is the count by file of the rows.
  <1>15. Total(counted) = Total(byfile) /\ IsCounter(byfile) /\ DOMAIN byfile = Code
         /\ \A f \in Code : IsCounter([n \in Spellings |-> rows[n][f]]) /\ byfile[f] = Total([n \in Spellings |-> rows[n][f]])
    <2>1. rows \in [Spellings -> [Code -> Nat]] /\ IsFiniteSet(Spellings) /\ IsFiniteSet(Code)
      BY <1>12, FilesFinite, EvidenceAssumption
    <2>2. \A n \in Spellings : IsCounter(rows[n]) /\ DOMAIN rows[n] = Code
      BY <2>1 DEF IsCounter
    <2>3. ASSUME NEW n \in matches[t] PROVE Total(rows[n]) = amount(n)
      <3>0. n \in Spellings
        BY <1>6
      <3>1. CASE s = AllFiles
        <4>1. rows[n] = identifier_files[n]
          <5>1. \A f \in Code : rows[n][f] = identifier_files[n][f]
            BY <3>0, <3>1
          <5> QED BY <5>1, <3>0, <1>9
        <4> HIDE DEF rows
        <4> QED BY <4>1, <3>1
      <3>2. CASE s # AllFiles
        <4> DEFINE part == Restrict(identifier_files[n], at(n))
        <4>1. DOMAIN part = at(n) /\ IsCounter(part) /\ \A f \in at(n) : part[f] = identifier_files[n][f]
          <5>1. at(n) \subseteq Code /\ IsFiniteSet(at(n))
            BY <1>10, <3>0
          <5> HIDE DEF at
          <5> QED BY <5>1, <1>9, <3>0 DEF Restrict, IsCounter
        <4>2. \A f \in Code : rows[n][f] = IF f \in at(n) THEN identifier_files[n][f] ELSE 0
          BY <3>0, <3>2
        <4>3. at(n) \subseteq Code /\ DOMAIN rows[n] = Code /\ IsCounter(rows[n])
          BY <1>10, <2>2, <3>0
        <4>4. amount(n) = Total(part)
          BY <3>2
        <4> HIDE DEF part, rows, at, amount
        <4>5. Total(part) = Total(rows[n])
          BY <4>1, <4>2, <4>3, TotalSame
        <4> QED BY <4>4, <4>5
      <3> QED BY <3>1, <3>2
    <2>4. ASSUME NEW n \in Spellings, n \notin matches[t] PROVE Total(rows[n]) = 0
      <3>1. \A f \in Code : rows[n][f] = 0
        BY <2>4
      <3>2. Seen(rows[n]) = {}
        BY <2>2, <3>1 DEF Seen
      <3> QED BY <2>2, <3>2, TotalZero
    <2> DEFINE full == [n \in Spellings |-> Total(rows[n])]
    <2> HIDE DEF rows, amount
    <2>5. IsCounter(full) /\ DOMAIN full = Spellings
      BY <2>1, <2>2, TotalNat DEF IsCounter
    <2>6. IsCounter(counted) /\ DOMAIN counted = matches[t]
      <3>1. IsFiniteSet(matches[t])
        BY <1>6, <2>1, FS_Subset
      <3>2. \A n \in matches[t] : amount(n) \in Nat
        BY <1>6, <2>2, <2>3, TotalNat
      <3> QED BY <3>1, <3>2 DEF IsCounter
    <2>7. \A n \in matches[t] : n \in Spellings /\ counted[n] = full[n]
      BY <1>6, <2>3
    <2>8. \A n \in Spellings : n \notin matches[t] => full[n] = 0
      BY <2>4
    <2> HIDE DEF full, counted
    <2>9. Total(counted) = Total(full)
      BY <2>5, <2>6, <2>7, <2>8, TotalSame
    <2>10. Total(full) = Total(byfile)
      <3>1. Total([n \in Spellings |-> Total(rows[n])])
              = Total([f \in Code |-> Total([n \in Spellings |-> rows[n][f]])])
        BY <2>1, ByFile
      <3> QED BY <3>1 DEF full
    <2>11. ASSUME NEW f \in Code PROVE IsCounter([n \in Spellings |-> rows[n][f]])
      BY <2>1 DEF IsCounter
    <2>12. IsCounter(byfile) /\ DOMAIN byfile = Code
      BY <2>1, <2>11, TotalNat DEF IsCounter
    <2> QED BY <2>9, <2>10, <2>11, <2>12
  <1>16. ASSUME NEW f \in Code, NEW n \in Spellings, rows[n][f] # 0
         PROVE  /\ f \in inside /\ n \in matches[t] /\ rows[n][f] = identifier_files[n][f]
                /\ rows[n][f] <= identifiers[f][n] /\ UseOf(t, n) = 1 /\ rows[n][f] \in Nat
    <2>1. n \in matches[t] /\ (s = AllFiles \/ f \in at(n)) /\ rows[n][f] = identifier_files[n][f]
      BY <1>16
    <2>2. f \in s
      BY <2>1, <1>10, FilesFinite
    <2> HIDE DEF rows
    <2> QED BY <2>1, <2>2, <1>6, <1>7, <1>12, <1>16
  <1>17. ASSUME NEW f \in Code, NEW n \in Spellings, rows[n][f] # 0
         PROVE  rows[n][f] <= identifiers[f][n] * UseOf(t, n)
    <2> DEFINE a == identifiers[f][n]
    <2>1. a \in Nat /\ rows[n][f] <= a /\ UseOf(t, n) = 1
      BY <1>12, <1>16, <1>17
    <2> HIDE DEF a, rows
    <2>2. a * UseOf(t, n) = a
      BY <2>1
    <2> QED BY <2>1, <2>2 DEF a
  <1>18. ASSUME indexed, s = AllFiles \/ ~Clipped(t), NEW f \in inside, NEW n \in Spellings
         PROVE  identifiers[f][n] * UseOf(t, n) # 0 => rows[n][f] = identifiers[f][n] * UseOf(t, n)
    <2> DEFINE a == identifiers[f][n]
               u == UseOf(t, n)
    <2>1. f \in Code /\ f \in Production /\ f \in s /\ a \in Nat /\ u \in {0, 1}
      BY <1>7, <1>8, <1>12, <1>13
    <2>2. CASE a # 0 /\ u = 1
      <3>1. n \in matches[t] /\ identifier_files[n][f] = a
        BY <1>14, <1>18, <2>2
      <3>2. s = AllFiles \/ f \in at(n)
        <4>1. CASE ~Clipped(t)
          <5>1. ~location_sample(identifier_files[n]).truncated
            BY <3>1, <4>1 DEF Clipped
          <5>2. f \in Seen(identifier_files[n])
            BY <1>9, <2>1, <2>2, <3>1 DEF Seen
          <5>3. at(n) = Seen(identifier_files[n]) \cap s
            BY <1>10, <5>1
          <5> QED BY <2>1, <5>2, <5>3
        <4> QED BY <4>1, <1>18
      <3>3. rows[n][f] = a
        BY <2>1, <3>1, <3>2
      <3> HIDE DEF a, u, rows
      <3>4. a * u = a
        BY <2>1, <2>2
      <3>5. rows[n][f] = a * u
        BY <3>3, <3>4
      <3> QED BY <3>5 DEF a, u
    <2>3. CASE ~(a # 0 /\ u = 1)
      <3> HIDE DEF a, u, rows
      <3>1. a * u = 0
        BY <2>1, <2>3
      <3> QED BY <3>1 DEF a, u
    <2> QED BY <2>2, <2>3
  <1> HIDE DEF rows, counted
  <1>19. ASSUME NEW f \in Code PROVE byfile[f] <= true[f]
    <2> DEFINE c == [n \in Spellings |-> rows[n][f]]
               d == [n \in Spellings |-> identifiers[f][n] * UseOf(t, n)]
    <2>1. IsCounter(c) /\ IsCounter(d) /\ byfile[f] = Total(c) /\ true[f] = Total(d)
      BY <1>11, <1>15
    <2>2. DOMAIN c = Spellings /\ DOMAIN d = Spellings /\ \A n \in Spellings : c[n] # 0 => c[n] <= d[n]
      BY <1>17
    <2> HIDE DEF c, d, byfile
    <2> QED BY <2>1, <2>2, TotalAtMost
  <1>20. ASSUME NEW f \in Code, byfile[f] # 0 PROVE f \in inside
    <2> DEFINE c == [n \in Spellings |-> rows[n][f]]
    <2>1. IsCounter(c) /\ byfile[f] = Total(c) /\ DOMAIN c = Spellings /\ \A n \in Spellings : c[n] = rows[n][f]
      BY <1>15
    <2> HIDE DEF c, byfile
    <2>2. PICK n \in Spellings : c[n] > 0
      BY <1>20, <2>1, TotalZero DEF Seen
    <2>3. rows[n][f] # 0
      BY <2>1, <2>2
    <2> QED BY <1>16, <2>3
  <1>21. ASSUME indexed, s = AllFiles \/ ~Clipped(t), NEW f \in inside PROVE byfile[f] = true[f]
    <2> DEFINE c == [n \in Spellings |-> rows[n][f]]
               d == [n \in Spellings |-> identifiers[f][n] * UseOf(t, n)]
    <2>0. f \in Code
      BY <1>8
    <2>1. IsCounter(c) /\ IsCounter(d) /\ byfile[f] = Total(c) /\ true[f] = Total(d)
      BY <1>11, <1>15, <2>0
    <2>2. DOMAIN c = Spellings /\ DOMAIN d = Spellings
      OBVIOUS
    <2>3. \A n \in Spellings : (c[n] # 0 => c[n] <= d[n]) /\ (d[n] # 0 => c[n] = d[n])
      BY <1>17, <1>18, <1>21, <2>0
    <2>4. \A n \in Spellings : c[n] \in Nat /\ d[n] \in Nat
      BY <2>1, <2>2 DEF IsCounter
    <2> HIDE DEF c, d, byfile
    <2>5. \A n \in Spellings : (c[n] # 0 => c[n] = d[n]) /\ (d[n] # 0 => c[n] = d[n])
      BY <2>3, <2>4
    <2> QED BY <2>1, <2>2, <2>5, TotalSame
  <1> HIDE DEF byfile
  <1>22. Total(byfile) <= Total(truth)
    <2>1. ASSUME NEW f \in DOMAIN byfile, byfile[f] # 0 PROVE f \in DOMAIN truth /\ byfile[f] <= truth[f]
      BY <1>5, <1>15, <1>19, <1>20, <2>1
    <2> QED BY <2>1, <1>5, <1>15, TotalAtMost
  <1>23. ASSUME indexed, s = AllFiles \/ ~Clipped(t) PROVE Total(byfile) = Total(truth)
    <2>1. ASSUME NEW f \in DOMAIN byfile, byfile[f] # 0 PROVE f \in DOMAIN truth /\ byfile[f] = truth[f]
      BY <1>5, <1>15, <1>20, <1>21, <1>23, <2>1
    <2>2. ASSUME NEW f \in DOMAIN truth PROVE f \in DOMAIN byfile /\ byfile[f] = truth[f]
      BY <1>5, <1>8, <1>15, <1>21, <1>23
    <2> QED BY <2>1, <2>2, <1>5, <1>15, TotalSame
  \* Files: each holds a spelling that holds the term.
  <1>24. ASSUME NEW f \in Code, NEW n \in Spellings, UseOf(t, n) = 1, identifiers[f][n] # 0 PROVE true[f] > 0
    <2> DEFINE d == [m \in Spellings |-> identifiers[f][m] * UseOf(t, m)]
               a == identifiers[f][n]
    <2>1. IsCounter(d) /\ true[f] = Total(d) /\ d[n] = a * UseOf(t, n) /\ DOMAIN d = Spellings
      BY <1>11
    <2>2. a \in Nat /\ a # 0
      BY <1>12, <1>24
    <2> HIDE DEF d, a
    <2>3. a * UseOf(t, n) = a
      BY <1>24, <2>2
    <2>4. n \in Seen(d)
      BY <2>1, <2>2, <2>3 DEF Seen
    <2> QED BY <2>1, <2>4, TotalZero, TotalNat
  <1>25. ASSUME NEW f \in Code, true[f] > 0
         PROVE  \E n \in Spellings : UseOf(t, n) = 1 /\ identifiers[f][n] # 0
    <2> DEFINE d == [m \in Spellings |-> identifiers[f][m] * UseOf(t, m)]
    <2>1. IsCounter(d) /\ true[f] = Total(d) /\ DOMAIN d = Spellings
          /\ \A n \in Spellings : d[n] = identifiers[f][n] * UseOf(t, n)
      BY <1>11
    <2> HIDE DEF d
    <2>2. PICK n \in Spellings : d[n] > 0
      BY <2>1, <1>25, TotalZero DEF Seen
    <2> DEFINE a == identifiers[f][n]
               u == UseOf(t, n)
    <2>3. a \in Nat /\ u \in {0, 1} /\ a * u > 0
      BY <1>12, <1>13, <2>1, <2>2
    <2> HIDE DEF a, u
    <2>4. a # 0 /\ u = 1
      BY <2>3
    <2> QED BY <2>4 DEF a, u
  <1>26. o.files \subseteq {f \in inside : true[f] > 0}
    <2> SUFFICES ASSUME NEW n \in matches[t], NEW f \in at(n) PROVE f \in inside /\ true[f] > 0
      BY <1>2
    <2>1. n \in Spellings /\ UseOf(t, n) = 1 /\ f \in Seen(identifier_files[n]) /\ f \in s /\ f \in Code
      BY <1>6, <1>10
    <2>2. identifier_files[n][f] > 0
      BY <2>1 DEF Seen
    <2> HIDE DEF at
    <2>3. f \in Production /\ identifiers[f][n] # 0
      BY <1>12, <2>1, <2>2
    <2> QED BY <1>7, <1>24, <2>1, <2>3
  <1>27. ASSUME indexed, ~Clipped(t) PROVE {f \in inside : true[f] > 0} \subseteq o.files
    <2> SUFFICES ASSUME NEW f \in inside, true[f] > 0 PROVE f \in o.files
      OBVIOUS
    <2>0. f \in Code
      BY <1>8
    <2>1. PICK n \in Spellings : UseOf(t, n) = 1 /\ identifiers[f][n] # 0
      BY <1>25, <2>0
    <2>2. n \in matches[t] /\ identifier_files[n][f] # 0
      BY <1>14, <1>27, <2>1
    <2>3. ~location_sample(identifier_files[n]).truncated
      BY <1>27, <2>2 DEF Clipped
    <2>4. f \in Seen(identifier_files[n])
      BY <1>9, <2>0, <2>2 DEF Seen
    <2>5. f \in at(n)
      BY <1>7, <1>10, <2>0, <2>3, <2>4
    <2> HIDE DEF at
    <2> QED BY <1>2, <2>2, <2>5
  <1>28. Total(byfile) \in Nat /\ Total(truth) \in Nat
    BY <1>5, <1>15, TotalNat
  <1> HIDE DEF at
  <1> QED BY <1>2, <1>3, <1>4, <1>15, <1>28, <1>22, <1>23, <1>26, <1>27 DEF CodeAnswers, Answered, Answers, o

\* An answer about any term is true.
LEMMA CodeAnswer ==
  ASSUME EvidenceInvariant, pc # "fold", NEW s \in Scopes, NEW t \in Terms
  PROVE  CodeAnswers(t, s)
  <1>1. Len(TermTokens[t]) \in Nat
    <2>1. TermTokens[t] \in Seq(Tokens)
      BY EvidenceAssumption
    <2> QED BY <2>1
  <1>2. CASE Len(TermTokens[t]) = 0
    <2> DEFINE true == [f \in Code |-> TrueUses(t, f)]
    <2>1. true \in [Code -> Nat] /\ CodeTruth(t, s) = Truth(Code, s, true)
      BY CodeTruthIs DEF EvidenceInvariant
    <2>2. code_term_occurrence(t, s) = Absent(FALSE)
      BY <1>2 DEF code_term_occurrence
    <2> HIDE DEF true
    <2>3. /\ Answered(Absent(FALSE), Truth(Code, s, true))
          /\ Absent(FALSE).spread_exact => Absent(FALSE).files = Truth(Code, s, true).files
      BY <2>1, FilesFinite, AbsentAnswers
    <2> QED BY <2>1, <2>2, <2>3 DEF CodeAnswers
  <1>3. CASE Len(TermTokens[t]) = 1
    BY <1>3, TokensAnswer
  <1>4. CASE Len(TermTokens[t]) > 1
    BY <1>4, CompoundsAnswer
  <1>5. Len(TermTokens[t]) = 0 \/ Len(TermTokens[t]) = 1 \/ Len(TermTokens[t]) > 1
    <2> DEFINE len == Len(TermTokens[t])
    <2>1. len \in Nat
      BY <1>1
    <2> HIDE DEF len
    <2>2. len = 0 \/ len = 1 \/ len > 1
      BY <2>1
    <2> QED BY <2>2 DEF len
  <1> QED BY <1>2, <1>3, <1>4, <1>5

\* The invariant makes every answer true.
LEMMA CountsFollow == EvidenceInvariant => CountsTrue
  <1> SUFFICES ASSUME EvidenceInvariant, pc = "done" PROVE CountsTrue
    BY DEF CountsTrue
  <1>1. ASSUME NEW s \in Scopes, NEW t \in Terms PROVE CodeAnswers(t, s) /\ Answered(doc_term_occurrence(t, s), DocTruth(t, s))
    BY CodeAnswer, DocsAnswer
  <1>2. ASSUME NEW s \in Scopes, NEW n \in Spellings
        PROVE  Answered(code_identifier_occurrence(n, s), IdentifierTruth(n, s))
    BY IdentifiersAnswer
  <1> QED BY <1>1, <1>2 DEF CountsTrue, CodeAnswers, Answered

(***************************************************************************)
(* Drift.  The sections are judged by what is true of the repository,      *)
(* which no step changes.                                                  *)
(***************************************************************************)
\* An answer once the files are read, by the term's own scope.
LEMMA UseAnswers ==
  ASSUME EvidenceInvariant, pc # "fold", glossary \in Glossaries, NEW t \in Terms
  PROVE  /\ glossary[t].scope \in Scopes
         /\ CodeUse(t).count \in Nat /\ CodeCount(t) \in Nat /\ CodeUse(t).count <= CodeCount(t)
         /\ CodeUse(t).count_exact => CodeUse(t).count = CodeCount(t)
         /\ CodeUse(t).files \subseteq CodeTruth(t, glossary[t].scope).files
         /\ CodeUse(t).spread_exact => CodeUse(t).files = CodeTruth(t, glossary[t].scope).files
         /\ DocUse(t).count \in Nat /\ DocCount(t) \in Nat /\ DocUse(t).count <= DocCount(t)
         /\ DocUse(t).count_exact => DocUse(t).count = DocCount(t)
  <1>1. glossary[t].scope \in Scopes
    BY DriftAssumption
  <1>2. CodeAnswers(t, glossary[t].scope) /\ Answered(DocUse(t), DocTruth(t, glossary[t].scope))
    BY <1>1, CodeAnswer, DocsAnswer DEF DocUse
  <1> QED BY <1>1, <1>2 DEF CodeAnswers, CodeUse, CodeCount, DocCount, Answered, Answers

\* What a check of a canonical term concludes is so.
LEMMA ConclusionSound ==
  ASSUME EvidenceInvariant, pc # "fold", glossary \in Glossaries, NEW t \in Terms
  PROVE  /\ Conclusion(t) = "absent" => CodeCount(t) = 0
         /\ Conclusion(t) = "fading" => CodeCount(t) \in 1..fading_max_count /\ DocCount(t) = 0
         /\ Conclusion(t) \notin {"suppressed", "absent"} => CodeCount(t) # 0
         /\ Conclusion(t) \notin {"suppressed", "fading"} =>
              ~(CodeCount(t) \in 1..fading_max_count /\ Len(TermTokens[t]) = 1 /\ DocCount(t) = 0)
  <1> DEFINE code == CodeUse(t)
             doc == DocUse(t)
             mentions == IF Len(TermTokens[t]) = 1 THEN doc.count ELSE None
             true == CodeCount(t)
             written == DocCount(t)
  <1>1. /\ code.count \in Nat /\ true \in Nat /\ code.count <= true /\ (code.count_exact => code.count = true)
        /\ doc.count \in Nat /\ written \in Nat /\ doc.count <= written
        /\ doc.count_exact => doc.count = written
    BY UseAnswers
  <1>2. Len(TermTokens[t]) # 1 => ~doc.count_exact /\ doc.count = 0
    BY EvidenceAssumption DEF DocUse, doc_term_occurrence, Absent, Facts
  <1>3. fading_max_count \in Nat
    BY DriftAssumption
  <1>4. Conclusion(t) =
          IF is_unproven_zero(code) THEN "suppressed"
          ELSE IF ~code.count_exact
            THEN IF mentions = 0 /\ code.count <= fading_max_count THEN "suppressed" ELSE "used"
          ELSE IF code.count \in 1..fading_max_count /\ is_unproven_zero(doc) THEN "suppressed"
          ELSE fading_state(code.count, mentions, doc.count_exact)
    BY DEF Conclusion
  <1>5. /\ is_unproven_zero(code) <=> code.count = 0 /\ ~code.count_exact
        /\ is_unproven_zero(doc) <=> doc.count = 0 /\ ~doc.count_exact
    BY DEF is_unproven_zero
  <1> HIDE DEF code, doc, true, written
  <1>6. CASE is_unproven_zero(code)
    BY <1>4, <1>6
  <1>7. CASE ~is_unproven_zero(code) /\ ~code.count_exact
    <2>1. code.count # 0 /\ true # 0
      BY <1>1, <1>5, <1>7
    <2>2. CASE mentions = 0 /\ code.count <= fading_max_count
      BY <1>4, <1>7, <2>2
    <2>3. CASE code.count > fading_max_count
      <3>1. Conclusion(t) = "used"
        <4>1. ~(code.count <= fading_max_count)
          BY <1>1, <1>3, <2>3
        <4> QED BY <4>1, <1>4, <1>7
      <3>2. true > fading_max_count
        BY <1>1, <1>3, <2>3
      <3>3. true \notin 1..fading_max_count
        BY <1>1, <1>3, <3>2
      <3> QED BY <2>1, <3>1, <3>3 DEF true
    <2>4. CASE mentions # 0
      <3>1. Conclusion(t) = "used"
        BY <1>4, <1>7, <2>4
      <3>2. Len(TermTokens[t]) = 1 => written # 0
        BY <1>1, <2>4
      <3> QED BY <2>1, <3>1, <3>2 DEF true, written
    <2> QED BY <1>1, <1>3, <2>2, <2>3, <2>4
  <1>8. CASE ~is_unproven_zero(code) /\ code.count_exact /\ code.count \in 1..fading_max_count /\ is_unproven_zero(doc)
    BY <1>4, <1>8
  <1>9. CASE /\ ~is_unproven_zero(code) /\ code.count_exact
             /\ ~(code.count \in 1..fading_max_count /\ is_unproven_zero(doc))
    <2>1. Conclusion(t) = fading_state(code.count, mentions, doc.count_exact) /\ code.count = true
      BY <1>1, <1>4, <1>9
    <2>2. CASE code.count = 0
      <3>1. Conclusion(t) = "absent"
        BY <2>1, <2>2 DEF fading_state
      <3>2. true = 0 /\ true \notin 1..fading_max_count
        BY <1>1, <1>3, <2>1, <2>2
      <3> QED BY <3>1, <3>2 DEF true
    <2>3. CASE code.count # 0 /\ code.count \in 1..fading_max_count /\ mentions = 0 /\ doc.count_exact
      <3>1. Conclusion(t) = "fading"
        BY <2>1, <2>3 DEF fading_state
      <3>2. written = 0
        BY <1>1, <1>2, <2>3
      <3> QED BY <2>1, <2>3, <3>1, <3>2 DEF true, written
    <2>4. CASE code.count # 0 /\ ~(code.count \in 1..fading_max_count /\ mentions = 0 /\ doc.count_exact)
      <3>1. Conclusion(t) = "used"
        BY <2>1, <2>4 DEF fading_state
      <3>2. true # 0
        BY <2>1, <2>4
      <3>3. ~(true \in 1..fading_max_count /\ Len(TermTokens[t]) = 1 /\ written = 0)
        <4> SUFFICES ASSUME true \in 1..fading_max_count, Len(TermTokens[t]) = 1, written = 0 PROVE FALSE
          OBVIOUS
        <4>1. doc.count = 0 /\ mentions = 0
          BY <1>1
        <4>2. doc.count_exact
          BY <1>5, <1>9, <2>1, <4>1
        <4> QED BY <2>1, <2>4, <4>1, <4>2
      <3> QED BY <3>1, <3>2, <3>3 DEF true, written
    <2> QED BY <2>2, <2>3, <2>4
  <1> QED BY <1>6, <1>7, <1>8, <1>9

\* A watched term in use was found, or something was suppressed.
WatchedSettled(t) == t \in watched_in_use \/ CodeCount(t) = 0 \/ watched_suppressed > 0

\* A canonical term absent from the code or fading was found, or something
\* was suppressed.
FadingSettled(t) ==
  fading_suppressed > 0 \/
    /\ CodeCount(t) = 0 => [term |-> t, state |-> "absent"] \in fading
    /\ CodeCount(t) \in 1..fading_max_count /\ Len(TermTokens[t]) = 1 /\ DocCount(t) = 0 =>
         [term |-> t, state |-> "fading"] \in fading

FindingTrue(x) ==
  IF x.state = "absent" THEN CodeCount(x.term) = 0
  ELSE CodeCount(x.term) \in 1..fading_max_count /\ DocCount(x.term) = 0

DriftInvariant ==
  /\ glossary \in Glossaries /\ watched_suppressed \in Nat /\ fading_suppressed \in Nat
  /\ \A t \in watched_in_use : t \in Watched /\ CodeCount(t) > 0
  /\ \A x \in fading : FindingTrue(x)
  /\ pc = "watched" => unchecked \subseteq Watched /\ \A t \in Watched : t \notin unchecked => WatchedSettled(t)
  /\ pc \in {"fading", "reported"} => \A t \in Watched : WatchedSettled(t)
  /\ pc = "fading" => \A t \in Canonical : t \notin unchecked => FadingSettled(t)
  /\ pc = "reported" => \A t \in Canonical : FadingSettled(t)

\* What is true of the repository stays true.
LEMMA TruthStays ==
  ASSUME UNCHANGED <<repository, glossary>>
  PROVE  /\ \A t : CodeCount(t)' = CodeCount(t) /\ DocCount(t)' = DocCount(t)
         /\ \A t, s : CodeTruth(t, s)' = CodeTruth(t, s)
         /\ \A n, s : IdentifierTruth(n, s)' = IdentifierTruth(n, s)
         /\ Watched' = Watched /\ Canonical' = Canonical
  <1>1. UNCHANGED <<identifiers, words>>
    BY DEF repository
  <1>2. \A t, s : CodeTruth(t, s)' = CodeTruth(t, s)
    <2>1. \A t, f : TrueUses(t, f)' = TrueUses(t, f)
      BY <1>1 DEF TrueUses
    <2> QED BY <2>1 DEF CodeTruth
  <1>3. \A t, s : DocTruth(t, s)' = DocTruth(t, s)
    BY <1>1 DEF DocTruth
  <1>4. \A n, s : IdentifierTruth(n, s)' = IdentifierTruth(n, s)
    BY <1>1 DEF IdentifierTruth
  <1> QED BY <1>2, <1>3, <1>4 DEF CodeCount, DocCount, Watched, Canonical

\* The evidence holds when only the report goes on.
LEMMA EvidenceLater ==
  ASSUME EvidenceInvariant, UNCHANGED <<repository, unread, missed, vocabulary, matching>>, pc # "fold", pc' # "fold"
  PROVE  EvidenceInvariant'
  <1>1. EvidenceTyped' /\ FilesTrue'
    BY EvidenceStill DEF EvidenceInvariant, FilesTrue
  <1>2. UNCHANGED <<units, processed_starts, matches>>
    BY DEF matching
  <1>3. ASSUME NEW tried, TriedAt(tried) PROVE TriedAt(tried)'
    BY <1>2, <1>3, TableStill DEF TriedAt
  <1>4. MatchesTrue'
    BY <1>2, <1>3, TableStill DEF EvidenceInvariant, MatchesTrue
  <1> QED BY <1>1, <1>4 DEF EvidenceInvariant
\* At first nothing is concluded.
LEMMA DriftStarts == Init => DriftInvariant
  BY DEF Init, EvidenceInit, DriftInvariant

\* A step that finds nothing and settles nothing keeps what was concluded.
LEMMA DriftStill ==
  ASSUME DriftInvariant, UNCHANGED <<repository, glossary, watched_in_use, watched_suppressed, fading, fading_suppressed>>
  PROVE  /\ glossary' \in Glossaries /\ watched_suppressed' \in Nat /\ fading_suppressed' \in Nat
         /\ \A t \in watched_in_use' : t \in Watched' /\ CodeCount(t)' > 0
         /\ \A x \in fading' : FindingTrue(x)'
         /\ \A t \in Watched' : WatchedSettled(t) => WatchedSettled(t)'
         /\ \A t \in Canonical' : FadingSettled(t) => FadingSettled(t)'
         /\ Watched' = Watched /\ Canonical' = Canonical
  BY TruthStays DEF DriftInvariant, FindingTrue, WatchedSettled, FadingSettled
\* The evidence is gathered before anything is compared.
LEMMA EvidenceSteps ==
  ASSUME EvidenceNext
  PROVE  /\ pc \in {"fold", "match"} /\ pc' \in {"fold", "match", "done"} /\ UNCHANGED repository
  <1>1. CASE MissFile
    BY <1>1 DEF MissFile
  <1>2. CASE FoldCode
    BY <1>2 DEF FoldCode
  <1>3. CASE FoldDoc
    BY <1>3 DEF FoldDoc
  <1>4. CASE BuildIndex
    BY <1>4 DEF BuildIndex
  <1>5. CASE EndMatching
    BY <1>5 DEF EndMatching
  <1>6. ASSUME NEW n \in Spellings, MatchUnit(n)
        PROVE  pc \in {"fold", "match"} /\ pc' \in {"fold", "match", "done"} /\ UNCHANGED repository
    BY <1>6 DEF MatchUnit
  <1> QED BY <1>1, <1>2, <1>3, <1>4, <1>5, <1>6 DEF EvidenceNext

\* Checking a watched term keeps the invariant.
LEMMA WatchedKeeps ==
  ASSUME DriftInvariant, EvidenceInvariant, NEW t \in Watched, _watched_in_use(t)
  PROVE  DriftInvariant'
  <1>1. /\ pc = "watched" /\ unchecked' = unchecked \ {t}
        /\ IF CodeUse(t).count > 0
             THEN watched_in_use' = watched_in_use \cup {t} /\ UNCHANGED watched_suppressed
             ELSE /\ UNCHANGED watched_in_use
                  /\ watched_suppressed' = watched_suppressed + IF Unproven(CodeUse(t)) THEN 1 ELSE 0
        /\ UNCHANGED <<evidenceVars, glossary, fading, fading_suppressed>>
    BY DEF _watched_in_use
  <1>2. UNCHANGED <<repository, pc>>
    BY <1>1 DEF evidenceVars
  <1>3. /\ \A u : CodeCount(u)' = CodeCount(u) /\ DocCount(u)' = DocCount(u)
        /\ Watched' = Watched /\ Canonical' = Canonical
    BY <1>1, <1>2, TruthStays
  <1>4. /\ CodeUse(t).count \in Nat /\ CodeCount(t) \in Nat /\ CodeUse(t).count <= CodeCount(t)
        /\ CodeUse(t).count_exact => CodeUse(t).count = CodeCount(t)
    BY <1>1, UseAnswers DEF DriftInvariant, Watched
  <1>5. /\ watched_suppressed' \in Nat /\ watched_suppressed' >= watched_suppressed
        /\ watched_in_use \subseteq watched_in_use'
        /\ \A u \in watched_in_use' : u \in watched_in_use \/ (u = t /\ CodeUse(t).count > 0)
    BY <1>1 DEF DriftInvariant
  <1>6. t \in watched_in_use' \/ CodeCount(t) = 0 \/ watched_suppressed' > 0
    <2>1. CASE CodeUse(t).count > 0
      BY <1>1, <2>1
    <2>2. CASE ~(CodeUse(t).count > 0) /\ ~Unproven(CodeUse(t))
      <3>1. CodeUse(t).count = 0
        BY <1>4, <2>2
      <3> QED BY <1>4, <2>2, <3>1 DEF Unproven, is_unproven_zero
    <2>3. CASE ~(CodeUse(t).count > 0) /\ Unproven(CodeUse(t))
      <3>1. watched_suppressed' = watched_suppressed + 1 /\ watched_suppressed \in Nat
        BY <1>1, <2>3 DEF DriftInvariant
      <3> QED BY <3>1
    <2> QED BY <2>1, <2>2, <2>3
  <1>7. \A u \in Watched : u \notin unchecked' => WatchedSettled(u)'
    <2> SUFFICES ASSUME NEW u \in Watched, u \notin unchecked' PROVE WatchedSettled(u)'
      OBVIOUS
    <2>1. CASE u = t
      BY <1>3, <1>6, <2>1 DEF WatchedSettled
    <2>2. CASE u # t
      <3>1. WatchedSettled(u)
        BY <1>1, <2>2 DEF DriftInvariant
      <3> QED BY <1>3, <1>5, <3>1 DEF WatchedSettled, DriftInvariant
    <2> QED BY <2>1, <2>2
  <1>10. unchecked' \subseteq Watched'
    BY <1>1, <1>3 DEF DriftInvariant
  <1>8. \A u \in watched_in_use' : u \in Watched' /\ CodeCount(u)' > 0
    <2>1. CodeUse(t).count > 0 => CodeCount(t) > 0
      BY <1>4
    <2> QED BY <1>3, <1>5, <2>1 DEF DriftInvariant
  <1>9. \A x \in fading' : FindingTrue(x)'
    BY <1>1, <1>3 DEF DriftInvariant, FindingTrue
  <1> QED BY <1>1, <1>2, <1>3, <1>5, <1>7, <1>8, <1>9, <1>10 DEF DriftInvariant

\* Checking a canonical term keeps the invariant.
LEMMA FadingKeeps ==
  ASSUME DriftInvariant, EvidenceInvariant, NEW t \in Terms, _canonical_fading(t)
  PROVE  DriftInvariant'
  <1>1. /\ pc = "fading" /\ unchecked' = unchecked \ {t}
        /\ fading' = IF Conclusion(t) \in {"absent", "fading"}
                       THEN fading \cup {[term |-> t, state |-> Conclusion(t)]} ELSE fading
        /\ fading_suppressed' = fading_suppressed + IF Conclusion(t) = "suppressed" THEN 1 ELSE 0
        /\ UNCHANGED <<evidenceVars, glossary, watched_in_use, watched_suppressed>>
    BY DEF _canonical_fading
  <1>2. UNCHANGED <<repository, pc>>
    BY <1>1 DEF evidenceVars
  <1>3. /\ \A u : CodeCount(u)' = CodeCount(u) /\ DocCount(u)' = DocCount(u)
        /\ Watched' = Watched /\ Canonical' = Canonical
    BY <1>1, <1>2, TruthStays
  <1>4. /\ Conclusion(t) = "absent" => CodeCount(t) = 0
        /\ Conclusion(t) = "fading" => CodeCount(t) \in 1..fading_max_count /\ DocCount(t) = 0
        /\ Conclusion(t) \notin {"suppressed", "absent"} => CodeCount(t) # 0
        /\ Conclusion(t) \notin {"suppressed", "fading"} =>
             ~(CodeCount(t) \in 1..fading_max_count /\ Len(TermTokens[t]) = 1 /\ DocCount(t) = 0)
    BY <1>1, ConclusionSound DEF DriftInvariant
  <1>5. fading_suppressed \in Nat /\ fading_suppressed' \in Nat /\ fading_suppressed' >= fading_suppressed
        /\ (Conclusion(t) = "suppressed" => fading_suppressed' > 0)
    BY <1>1 DEF DriftInvariant
  <1>6. \A x \in fading' : FindingTrue(x)'
    <2> SUFFICES ASSUME NEW x \in fading' PROVE FindingTrue(x)'
      OBVIOUS
    <2>1. CASE x \in fading
      BY <1>3, <2>1 DEF DriftInvariant, FindingTrue
    <2>2. CASE x \notin fading
      <3>1. Conclusion(t) \in {"absent", "fading"} /\ x = [term |-> t, state |-> Conclusion(t)]
        BY <1>1, <2>2
      <3>2. x.term = t /\ x.state = Conclusion(t)
        BY <3>1
      <3> QED BY <1>3, <1>4, <3>1, <3>2 DEF FindingTrue
    <2> QED BY <2>1, <2>2
  <1>7. fading \subseteq fading' /\ (Conclusion(t) \in {"absent", "fading"} => [term |-> t, state |-> Conclusion(t)] \in fading')
    BY <1>1
  <1>8. FadingSettled(t)'
    <2>1. CASE Conclusion(t) = "suppressed"
      BY <1>5, <2>1 DEF FadingSettled
    <2>2. CASE Conclusion(t) # "suppressed"
      <3>1. CodeCount(t) = 0 => [term |-> t, state |-> "absent"] \in fading'
        BY <1>4, <1>7, <2>2
      <3>2. CodeCount(t) \in 1..fading_max_count /\ Len(TermTokens[t]) = 1 /\ DocCount(t) = 0 =>
              [term |-> t, state |-> "fading"] \in fading'
        BY <1>4, <1>7, <2>2
      <3> QED BY <1>3, <3>1, <3>2 DEF FadingSettled
    <2> QED BY <2>1, <2>2
  <1>9. \A u \in Canonical : u \notin unchecked' => FadingSettled(u)'
    <2> SUFFICES ASSUME NEW u \in Canonical, u \notin unchecked', u # t PROVE FadingSettled(u)'
      BY <1>8
    <2>1. FadingSettled(u)
      BY <1>1 DEF DriftInvariant
    <2>2. fading_suppressed > 0 => fading_suppressed' > 0
      BY <1>5
    <2> QED BY <1>3, <1>7, <2>1, <2>2 DEF FadingSettled
  <1>10. /\ \A u \in watched_in_use' : u \in Watched' /\ CodeCount(u)' > 0
         /\ \A u \in Watched : WatchedSettled(u)'
    BY <1>1, <1>3 DEF DriftInvariant, WatchedSettled
  <1> QED BY <1>1, <1>2, <1>3, <1>5, <1>6, <1>9, <1>10 DEF DriftInvariant

\* No step of the comparison changes the repository or the glossary.
LEMMA DriftKeeps ==
  ASSUME DriftInvariant, EvidenceInvariant, [Next]_vars
  PROVE  DriftInvariant' /\ EvidenceInvariant' /\ UNCHANGED <<repository, glossary>>
  <1>1. CASE EvidenceNext /\ UNCHANGED <<glossary, drift>>
    <2>1. pc' \in {"fold", "match", "done"} /\ UNCHANGED repository
      BY <1>1, EvidenceSteps
    <2>2. UNCHANGED <<glossary, watched_in_use, watched_suppressed, fading, fading_suppressed>>
      BY <1>1 DEF drift
    <2>3. DriftInvariant'
      BY <2>1, <2>2, DriftStill DEF DriftInvariant
    <2> QED BY <1>1, <2>1, <2>2, <2>3, EvidenceKeeps
  <1>2. CASE _index_glossary
    <2>1. /\ pc = "done" /\ pc' = "watched" /\ unchecked' = Watched
          /\ UNCHANGED <<repository, unread, missed, vocabulary, matching, glossary,
                         watched_in_use, watched_suppressed, fading, fading_suppressed>>
      BY <1>2 DEF _index_glossary
    <2>2. DriftInvariant'
      BY <2>1, DriftStill DEF DriftInvariant
    <2> QED BY <2>1, <2>2, EvidenceLater
  <1>3. CASE EndWatched
    <2>1. /\ pc = "watched" /\ pc' = "fading" /\ unchecked = {} /\ unchecked' = Canonical
          /\ UNCHANGED <<repository, unread, missed, vocabulary, matching, glossary,
                         watched_in_use, watched_suppressed, fading, fading_suppressed>>
      BY <1>3 DEF EndWatched
    <2>2. \A t \in Watched : WatchedSettled(t)
      BY <2>1 DEF DriftInvariant
    <2>3. DriftInvariant'
      BY <2>1, <2>2, DriftStill DEF DriftInvariant
    <2> QED BY <2>1, <2>3, EvidenceLater
  <1>4. CASE EndDrift
    <2>1. /\ pc = "fading" /\ pc' = "reported" /\ unchecked = {}
          /\ UNCHANGED <<repository, unread, missed, vocabulary, matching, glossary,
                         watched_in_use, watched_suppressed, fading, fading_suppressed>>
      BY <1>4 DEF EndDrift, drift
    <2>2. /\ \A t \in Watched : WatchedSettled(t)
          /\ \A t \in Canonical : FadingSettled(t)
      BY <2>1 DEF DriftInvariant
    <2>3. DriftInvariant'
      BY <2>1, <2>2, DriftStill DEF DriftInvariant
    <2> QED BY <2>1, <2>3, EvidenceLater
  <1>5. ASSUME NEW t \in Terms, _watched_in_use(t)
        PROVE  DriftInvariant' /\ EvidenceInvariant' /\ UNCHANGED <<repository, glossary>>
    <2>1. t \in Watched
      BY <1>5 DEF _watched_in_use, DriftInvariant
    <2>2. /\ pc = "watched" /\ UNCHANGED <<evidenceVars, glossary>>
      BY <1>5 DEF _watched_in_use
    <2>3. UNCHANGED <<repository, unread, missed, vocabulary, matching, pc>>
      BY <2>2 DEF evidenceVars
    <2> QED BY <1>5, <2>1, <2>2, <2>3, WatchedKeeps, EvidenceLater
  <1>6. ASSUME NEW t \in Terms, _canonical_fading(t)
        PROVE  DriftInvariant' /\ EvidenceInvariant' /\ UNCHANGED <<repository, glossary>>
    <2>2. /\ pc = "fading" /\ UNCHANGED <<evidenceVars, glossary>>
      BY <1>6 DEF _canonical_fading
    <2>3. UNCHANGED <<repository, unread, missed, vocabulary, matching, pc>>
      BY <2>2 DEF evidenceVars
    <2> QED BY <1>6, <2>2, <2>3, FadingKeeps, EvidenceLater
  <1>7. CASE UNCHANGED vars
    <2>1. UNCHANGED <<evidenceVars, glossary, unchecked, watched_in_use, watched_suppressed, fading, fading_suppressed>>
      BY <1>7 DEF vars, drift
    <2>2. UNCHANGED <<repository, pc>>
      BY <2>1 DEF evidenceVars
    <2>3. DriftInvariant'
      BY <2>1, <2>2, DriftStill DEF DriftInvariant
    <2> QED BY <2>1, <2>2, <2>3, EvidenceKeeps
  <1> QED BY <1>1, <1>2, <1>3, <1>4, <1>5, <1>6, <1>7 DEF Next

\* The invariant makes the sections true.
LEMMA SectionsFollow == DriftInvariant => SectionsTrue
  <1> SUFFICES ASSUME DriftInvariant PROVE SectionsTrue
    OBVIOUS
  <1> DEFINE used == {t \in Watched : CodeCount(t) > 0}
  <1>1. \A x \in fading : FindingTrue(x)
    BY DEF DriftInvariant
  <1>2. watched_in_use \subseteq used
    BY DEF DriftInvariant
  <1>3. ASSUME pc = "reported", WatchedExact PROVE used \subseteq watched_in_use
    BY <1>3 DEF DriftInvariant, WatchedSettled, WatchedExact
  <1>4. ASSUME pc = "reported", FadingExact
        PROVE  \A t \in Canonical :
                 /\ CodeCount(t) = 0 => [term |-> t, state |-> "absent"] \in fading
                 /\ CodeCount(t) \in 1..fading_max_count /\ Len(TermTokens[t]) = 1 /\ DocCount(t) = 0 =>
                      [term |-> t, state |-> "fading"] \in fading
    <2>1. fading_suppressed = 0 /\ \A t \in Canonical : FadingSettled(t)
      BY <1>4 DEF DriftInvariant, FadingExact
    <2>2. ~(fading_suppressed > 0)
      BY <2>1
    <2> QED BY <2>1, <2>2 DEF FadingSettled
  <1> QED BY <1>1, <1>2, <1>3, <1>4 DEF SectionsTrue, FindingTrue

(***************************************************************************)
(* Validation.                                                             *)
(***************************************************************************)
\* A binding to an identifier that was judged was judged rightly.
LEMMA SymbolStatus ==
  ASSUME EvidenceInvariant, pc # "fold", NEW n \in Spellings, NEW s \in Scopes, NEW ref,
         ref.kind = "symbol", ref.of = n, _symbol_binding_status(n, s) # "uncertain"
  PROVE  _symbol_binding_status(n, s) = TrueStatus(ref, s)
  <1> DEFINE scoped == code_identifier_occurrence(n, s)
             everywhere == code_identifier_occurrence(n, AllFiles)
             here == IdentifierTruth(n, s).count
             anywhere == IdentifierTruth(n, AllFiles).count
             status == _symbol_binding_status(n, s)
  <1>1. AllFiles \in Scopes
    BY EvidenceAssumption
  <1>2. /\ scoped.count \in Nat /\ here \in Nat /\ scoped.count <= here /\ (scoped.count_exact => scoped.count = here)
        /\ everywhere.count \in Nat /\ anywhere \in Nat /\ everywhere.count <= anywhere
        /\ everywhere.count_exact => everywhere.count = anywhere
    BY <1>1, IdentifiersAnswer DEF Answered, Answers
  <1>3. status = IF scoped.count > 0 THEN "resolved"
                 ELSE IF is_unproven_zero(scoped) THEN "uncertain"
                 ELSE IF everywhere.count > 0 THEN "out-of-scope"
                 ELSE IF is_unproven_zero(everywhere) THEN "uncertain"
                 ELSE "unresolved"
    BY DEF _symbol_binding_status
  <1>4. /\ is_unproven_zero(scoped) <=> scoped.count = 0 /\ ~scoped.count_exact
        /\ is_unproven_zero(everywhere) <=> everywhere.count = 0 /\ ~everywhere.count_exact
    BY DEF is_unproven_zero
  <1>5. TrueStatus(ref, s) = IF here > 0 THEN "resolved" ELSE IF anywhere > 0 THEN "out-of-scope" ELSE "unresolved"
    BY DEF TrueStatus, TrulyIn
  <1> HIDE DEF scoped, everywhere, here, anywhere, status
  <1>6. CASE scoped.count > 0
    <2>1. here > 0
      BY <1>2, <1>6
    <2> QED BY <1>3, <1>5, <1>6, <2>1 DEF status
  <1>7. CASE ~(scoped.count > 0)
    <2>1. scoped.count = 0 /\ scoped.count_exact
      BY <1>2, <1>3, <1>4, <1>7 DEF status
    <2>2. ~(here > 0)
      BY <1>2, <2>1
    <2>3. CASE everywhere.count > 0
      <3>1. anywhere > 0
        BY <1>2, <2>3
      <3> QED BY <1>3, <1>4, <1>5, <1>7, <2>1, <2>2, <2>3, <3>1 DEF status
    <2>4. CASE ~(everywhere.count > 0)
      <3>1. everywhere.count = 0 /\ everywhere.count_exact
        BY <1>2, <1>3, <1>4, <1>7, <2>1, <2>4 DEF status
      <3>2. ~(anywhere > 0)
        BY <1>2, <3>1
      <3> QED BY <1>3, <1>4, <1>5, <1>7, <2>1, <2>2, <2>4, <3>1, <3>2 DEF status
    <2> QED BY <2>3, <2>4
  <1> QED BY <1>6, <1>7

\* A binding to a path that was judged was judged rightly.
LEMMA PathStatus ==
  ASSUME EvidenceInvariant, NEW s \in Scopes, NEW ref, ref.kind \in {"file", "module"}, ref.of \in Paths,
         NEW listed \in SUBSET missed, _path_binding_status(ref, s, Known(listed)) # "uncertain"
  PROVE  _path_binding_status(ref, s, Known(listed)) = TrueStatus(ref, s)
  <1> DEFINE known == Known(listed)
             places == IF ref.kind = "file" THEN AllFiles ELSE {ModuleOf[f] : f \in Code}
             within == IF ref.kind = "file" THEN s ELSE ModulesIn[s]
             status == _path_binding_status(ref, s, known)
  <1>1. missed \subseteq AllFiles /\ Code \subseteq AllFiles
    BY FilesFinite DEF EvidenceInvariant, EvidenceTyped
  <1>2. known[ref.kind] \subseteq places
    <2>1. CASE ref.kind = "file"
      BY <1>1, <2>1 DEF Known
    <2>2. CASE ref.kind = "module"
      BY <2>2 DEF Known
    <2> QED BY <2>1, <2>2
  <1>3. places \subseteq AllFiles \cup Modules
    BY ReconciliationAssumption
  <1>4. status = IF ref.of \in known[ref.kind] THEN IF ref.of \in within THEN "resolved" ELSE "out-of-scope"
                 ELSE IF ~repository_complete \/ ref.of \notin Nowhere THEN "uncertain" ELSE "unresolved"
    BY DEF _path_binding_status, path_in_scope
  <1>5. TrulyIn(ref, s) <=> ref.of \in places /\ ref.of \in within
    BY DEF TrulyIn
  <1>6. TrulyIn(ref, AllFiles) <=> ref.of \in places
    <2>1. CASE ref.kind = "file"
      BY <2>1 DEF TrulyIn
    <2>2. CASE ref.kind = "module"
      BY <2>2, ReconciliationAssumption DEF TrulyIn
    <2> QED BY <2>1, <2>2
  <1>7. CASE ref.of \in known[ref.kind]
    BY <1>2, <1>4, <1>5, <1>6, <1>7 DEF TrueStatus, status
  <1>8. CASE ref.of \notin known[ref.kind]
    <2>1. status = "unresolved" /\ ref.of \in Nowhere
      BY <1>4, <1>8 DEF status
    <2>2. ref.of \notin places /\ ref.of \notin Unread
      BY <1>3, <2>1, ReconciliationAssumption
    <2> QED BY <1>5, <1>6, <2>1, <2>2 DEF TrueStatus, status
  <1> QED BY <1>7, <1>8

\* Any binding that was judged was judged rightly.
LEMMA BindingStatus ==
  ASSUME EvidenceInvariant, pc # "fold", glossary \in Glossaries, NEW t \in Terms, NEW r \in Bindings(t),
         NEW listed \in SUBSET missed
  PROVE  LET status == _binding_status(r, glossary[t].scope, Known(listed))
         IN /\ status \in {"resolved", "uncertain", "out-of-scope", "unresolved"}
            /\ status # "uncertain" => status = StatusOf(t, r)
  <1> DEFINE s == glossary[t].scope
             status == _binding_status(r, s, Known(listed))
  <1>1. s \in Scopes
    BY DriftAssumption
  <1>2. r \in Refs
    BY ReconciliationAssumption DEF Bindings
  <1>3. CASE r.kind = "symbol"
    <2>1. r.of \in Spellings
      BY <1>2, <1>3 DEF Refs
    <2>2. status = _symbol_binding_status(r.of, s)
      BY <1>3 DEF _binding_status
    <2>3. status \in {"resolved", "uncertain", "out-of-scope", "unresolved"}
      BY <2>2 DEF _symbol_binding_status
    <2> QED BY <1>1, <1>3, <2>1, <2>2, <2>3, SymbolStatus DEF StatusOf
  <1>4. CASE r.kind # "symbol"
    <2>1. r.kind \in {"file", "module"} /\ r.of \in Paths
      BY <1>2, <1>4 DEF Refs
    <2>2. status = _path_binding_status(r, s, Known(listed))
      BY <1>4 DEF _binding_status
    <2>3. status \in {"resolved", "uncertain", "out-of-scope", "unresolved"}
      BY <2>2 DEF _path_binding_status
    <2> QED BY <1>1, <2>1, <2>2, <2>3, PathStatus DEF StatusOf
  <1> QED BY <1>3, <1>4

\* Fewer files are in no more modules.
LEMMA SpreadAtMost ==
  ASSUME NEW files, files \subseteq Code, NEW fewer, fewer \subseteq files
  PROVE  spread(fewer) \in Nat /\ spread(files) \in Nat /\ spread(fewer) <= spread(files)
  <1> DEFINE of == [f \in files |-> ModuleOf[f]]
             modules == {ModuleOf[f] : f \in files}
             some == {ModuleOf[f] : f \in fewer}
  <1>1. IsFiniteSet(files)
    BY FilesFinite, FS_Subset
  <1>2. of \in Surjection(files, modules)
    BY DEF Surjection
  <1>3. some \subseteq modules
    OBVIOUS
  <1> HIDE DEF of, modules, some
  <1>4. IsFiniteSet(modules)
    BY <1>1, <1>2, FS_Surjection
  <1>5. IsFiniteSet(some) /\ Cardinality(some) <= Cardinality(modules)
    BY <1>3, <1>4, FS_Subset
  <1>6. Cardinality(some) \in Nat /\ Cardinality(modules) \in Nat
    BY <1>4, <1>5, FS_CardinalityType
  <1> QED BY <1>5, <1>6 DEF spread, modules, some

\* What is concluded of a validation is true of the repository.
ConclusionsTrue(v) ==
  /\ \A t \in v.orphaned : TrulyOrphaned(t)
  /\ \A x \in v.unresolved : x.status = StatusOf(x.term, x.ref)
  /\ \A x \in v.fragmented :
       IF x.spread_exact THEN x.spread = TrueSpread(x.term) ELSE x.spread <= TrueSpread(x.term)
  /\ v.orphaned_exact => \A t \in ConceptTerms : TrulyOrphaned(t) => t \in v.orphaned
  /\ v.unresolved_exact =>
       \A t \in ConceptTerms : \A r \in Bindings(t) :
         StatusOf(t, r) \in {"unresolved", "out-of-scope"} =>
           [term |-> t, ref |-> r, status |-> StatusOf(t, r)] \in v.unresolved
  /\ v.fragmented_exact =>
       \A t \in ConceptTerms :
         TrueSpread(t) >= fragmentation_min_modules => \E x \in v.fragmented : x.term = t

\* What a validation concludes is true, whatever unread files were listed.
LEMMA ValidationSound ==
  ASSUME EvidenceInvariant, pc # "fold", glossary \in Glossaries, NEW listed \in SUBSET missed
  PROVE  ConclusionsTrue(build_binding_findings(Known(listed)))
  <1> DEFINE known == Known(listed)
             v == build_binding_findings(known)
             use(t) == CodeUse(t)
             status(t, r) == _binding_status(r, glossary[t].scope, known)
             statuses(t) == {status(t, r) : r \in Bindings(t)}
             orphan(t) == _orphan_finding(t, use(t), statuses(t))
  <1>1. \A t \in ConceptTerms : t \in Terms
    BY DEF ConceptTerms
  <1>2. ASSUME NEW t \in ConceptTerms
        PROVE  /\ use(t).count \in Nat /\ CodeCount(t) \in Nat /\ use(t).count <= CodeCount(t)
               /\ use(t).count_exact => use(t).count = CodeCount(t)
               /\ use(t).files \subseteq CodeTruth(t, glossary[t].scope).files
               /\ use(t).spread_exact => use(t).files = CodeTruth(t, glossary[t].scope).files
    BY <1>1, UseAnswers
  <1>3. ASSUME NEW t \in ConceptTerms, NEW r \in Bindings(t)
        PROVE  /\ status(t, r) \in {"resolved", "uncertain", "out-of-scope", "unresolved"}
               /\ status(t, r) # "uncertain" => status(t, r) = StatusOf(t, r)
    BY <1>1, BindingStatus
  <1>4. ASSUME NEW t \in ConceptTerms
        PROVE  /\ spread(use(t).files) \in Nat /\ TrueSpread(t) \in Nat /\ spread(use(t).files) <= TrueSpread(t)
               /\ use(t).spread_exact => spread(use(t).files) = TrueSpread(t)
    <2>1. CodeTruth(t, glossary[t].scope).files \subseteq Code
      BY DEF CodeTruth
    <2> QED BY <1>2, <2>1, SpreadAtMost DEF TrueSpread
  <1>5. /\ v.orphaned = {t \in ConceptTerms : orphan(t) = "orphaned"}
        /\ v.orphaned_exact => \A t \in ConceptTerms : orphan(t) # "suppressed"
        /\ v.unresolved_exact => \A t \in ConceptTerms : "uncertain" \notin statuses(t)
        /\ v.fragmented_exact => \A t \in ConceptTerms : is_fragmented(use(t)) \/ use(t).spread_exact
        /\ v.fragmented = {[term |-> t, spread |-> spread(use(t).files), spread_exact |-> use(t).spread_exact] :
                             t \in {u \in ConceptTerms : is_fragmented(use(u))}}
        /\ v.unresolved = UNION {{[term |-> t, ref |-> r, status |-> status(t, r)] :
                                    r \in {q \in Bindings(t) : status(t, q) \in {"unresolved", "out-of-scope"}}} :
                                   t \in ConceptTerms}
    <2> DEFINE uses == [t \in ConceptTerms |-> CodeUse(t)]
               bindings == [t \in ConceptTerms |-> _resolve_bindings(t, known)]
               found(t) == {bindings[t][r] : r \in Bindings(t)}
               orphans == [t \in ConceptTerms |-> _orphan_finding(t, uses[t], found(t))]
    <2>1. /\ v.orphaned = {t \in ConceptTerms : orphans[t] = "orphaned"}
          /\ v.orphaned_exact => \A t \in ConceptTerms : orphans[t] # "suppressed"
          /\ v.unresolved_exact => \A t \in ConceptTerms : "uncertain" \notin found(t)
          /\ v.fragmented_exact => \A t \in ConceptTerms : is_fragmented(uses[t]) \/ uses[t].spread_exact
          /\ v.fragmented = {[term |-> t, spread |-> spread(uses[t].files), spread_exact |-> uses[t].spread_exact] :
                               t \in {u \in ConceptTerms : is_fragmented(uses[u])}}
          /\ v.unresolved = UNION {{[term |-> t, ref |-> r, status |-> bindings[t][r]] :
                                      r \in {q \in Bindings(t) : bindings[t][q] \in {"unresolved", "out-of-scope"}}} :
                                     t \in ConceptTerms}
      <3> HIDE DEF known
      <3> QED BY DEF build_binding_findings
    <2>2. \A t \in ConceptTerms : uses[t] = use(t)
      OBVIOUS
    <2>3. \A t \in ConceptTerms : \A r \in Bindings(t) : bindings[t][r] = status(t, r)
      BY DEF _resolve_bindings
    <2> HIDE DEF v, known, use, status, uses, bindings
    <2>4. \A t \in ConceptTerms : found(t) = statuses(t)
      BY <2>3
    <2> HIDE DEF found, statuses
    <2>5. \A t \in ConceptTerms : orphans[t] = orphan(t)
      BY <2>2, <2>4
    <2> HIDE DEF orphans, orphan
    <2>6. {[term |-> t, spread |-> spread(uses[t].files), spread_exact |-> uses[t].spread_exact] :
             t \in {u \in ConceptTerms : is_fragmented(uses[u])}}
          = {[term |-> t, spread |-> spread(use(t).files), spread_exact |-> use(t).spread_exact] :
             t \in {u \in ConceptTerms : is_fragmented(use(u))}}
      BY <2>2
    <2>7. UNION {{[term |-> t, ref |-> r, status |-> bindings[t][r]] :
                    r \in {q \in Bindings(t) : bindings[t][q] \in {"unresolved", "out-of-scope"}}} :
                   t \in ConceptTerms}
          = UNION {{[term |-> t, ref |-> r, status |-> status(t, r)] :
                    r \in {q \in Bindings(t) : status(t, q) \in {"unresolved", "out-of-scope"}}} :
                   t \in ConceptTerms}
      BY <2>3
    <2>8. {t \in ConceptTerms : orphans[t] = "orphaned"} = {t \in ConceptTerms : orphan(t) = "orphaned"}
      BY <2>5
    <2> QED BY <2>1, <2>2, <2>4, <2>5, <2>6, <2>7, <2>8
  <1>6. orphaned_max_count \in Nat /\ fragmentation_min_modules \in Nat
    BY ReconciliationAssumption
  <1> HIDE DEF v, known, use, status
  <1>7. ASSUME NEW t \in ConceptTerms, orphan(t) = "orphaned" PROVE TrulyOrphaned(t)
    <2>1. /\ "resolved" \notin statuses(t) /\ "uncertain" \notin statuses(t)
          /\ ~(use(t).count > orphaned_max_count) /\ use(t).count_exact
      BY <1>7 DEF _orphan_finding
    <2>2. CodeCount(t) <= orphaned_max_count
      <3>1. use(t).count = CodeCount(t) /\ CodeCount(t) \in Nat
        BY <1>2, <2>1
      <3>2. ~(CodeCount(t) > orphaned_max_count)
        BY <2>1, <3>1
      <3> QED BY <1>6, <3>1, <3>2
    <2>3. ASSUME NEW r \in Bindings(t) PROVE StatusOf(t, r) \notin {"resolved", "not judged"}
      BY <1>3, <2>1
    <2> QED BY <2>2, <2>3 DEF TrulyOrphaned
  <1>8. ASSUME NEW t \in ConceptTerms, orphan(t) # "suppressed", TrulyOrphaned(t) PROVE orphan(t) = "orphaned"
    <2>1. /\ CodeCount(t) <= orphaned_max_count
          /\ \A r \in Bindings(t) : StatusOf(t, r) \notin {"resolved", "not judged"}
      BY <1>8 DEF TrulyOrphaned
    <2>2. "resolved" \notin statuses(t)
      BY <1>3, <2>1
    <2>3. ~(use(t).count > orphaned_max_count)
      <3> DEFINE count == use(t).count
                 true == CodeCount(t)
      <3>1. count \in Nat /\ true \in Nat /\ count <= true /\ true <= orphaned_max_count
        BY <1>2, <2>1
      <3> HIDE DEF count, true
      <3>2. ~(count > orphaned_max_count)
        BY <1>6, <3>1
      <3> QED BY <3>2 DEF count
    <2> HIDE DEF statuses
    <2> QED BY <1>8, <2>2, <2>3 DEF _orphan_finding
  <1>9. \A x \in v.unresolved : x.status = StatusOf(x.term, x.ref)
    <2> SUFFICES ASSUME NEW t \in ConceptTerms, NEW r \in Bindings(t), status(t, r) \in {"unresolved", "out-of-scope"},
                        NEW x, x = [term |-> t, ref |-> r, status |-> status(t, r)]
                 PROVE  x.status = StatusOf(x.term, x.ref)
      BY <1>5
    <2>1. x.term = t /\ x.ref = r /\ x.status = status(t, r)
      OBVIOUS
    <2> QED BY <1>3, <2>1
  <1>10. ASSUME v.unresolved_exact, NEW t \in ConceptTerms, NEW r \in Bindings(t),
                StatusOf(t, r) \in {"unresolved", "out-of-scope"}
         PROVE  [term |-> t, ref |-> r, status |-> StatusOf(t, r)] \in v.unresolved
    <2>1. status(t, r) # "uncertain"
      BY <1>5, <1>10
    <2>2. status(t, r) = StatusOf(t, r)
      BY <1>3, <2>1
    <2> QED BY <1>5, <1>10, <2>2
  <1>11. \A x \in v.fragmented :
           IF x.spread_exact THEN x.spread = TrueSpread(x.term) ELSE x.spread <= TrueSpread(x.term)
    <2> SUFFICES ASSUME NEW x \in v.fragmented
                 PROVE IF x.spread_exact THEN x.spread = TrueSpread(x.term) ELSE x.spread <= TrueSpread(x.term)
      OBVIOUS
    <2>1. PICK t \in ConceptTerms :
            x = [term |-> t, spread |-> spread(use(t).files), spread_exact |-> use(t).spread_exact]
      BY <1>5
    <2>2. x.term = t /\ x.spread = spread(use(t).files) /\ x.spread_exact = use(t).spread_exact
      BY <2>1
    <2> QED BY <1>4, <2>2
  <1>12. ASSUME v.fragmented_exact, NEW t \in ConceptTerms, TrueSpread(t) >= fragmentation_min_modules
         PROVE  \E x \in v.fragmented : x.term = t
    <2>1. is_fragmented(use(t))
      <3>1. is_fragmented(use(t)) \/ use(t).spread_exact
        BY <1>5, <1>12
      <3>2. is_fragmented(use(t)) <=> spread(use(t).files) >= fragmentation_min_modules
        BY DEF is_fragmented
      <3> QED BY <1>4, <1>12, <3>1, <3>2
    <2> DEFINE x == [term |-> t, spread |-> spread(use(t).files), spread_exact |-> use(t).spread_exact]
    <2>2. x \in v.fragmented /\ x.term = t
      BY <1>5, <2>1
    <2> HIDE DEF x
    <2> QED BY <2>2
  <1> HIDE DEF orphan, statuses
  <1> QED BY <1>5, <1>7, <1>8, <1>9, <1>10, <1>11, <1>12 DEF ConclusionsTrue, v, known
ReportInvariant == EvidenceInvariant /\ DriftInvariant /\ ReconciliationTrue

\* A conclusion that is true stays true.
LEMMA ConclusionsStay ==
  ASSUME UNCHANGED <<repository, glossary>>, NEW v, ConclusionsTrue(v)
  PROVE  ConclusionsTrue(v)'
  <1>1. UNCHANGED glossary
    OBVIOUS
  <1>2. /\ \A t : CodeCount(t)' = CodeCount(t)
        /\ \A t, s : CodeTruth(t, s)' = CodeTruth(t, s)
        /\ \A n, s : IdentifierTruth(n, s)' = IdentifierTruth(n, s)
    BY TruthStays
  <1>3. \A ref, s : TrulyIn(ref, s)' = TrulyIn(ref, s)
    BY <1>2 DEF TrulyIn
  <1>4. \A ref, s : TrueStatus(ref, s)' = TrueStatus(ref, s)
    BY <1>3 DEF TrueStatus
  <1>5. \A t, r : StatusOf(t, r)' = StatusOf(t, r)
    BY <1>1, <1>4 DEF StatusOf
  <1>6. ConceptTerms' = ConceptTerms /\ \A t : Bindings(t)' = Bindings(t)
    BY <1>1 DEF ConceptTerms, Bindings
  <1>7. \A t : TrulyOrphaned(t)' = TrulyOrphaned(t)
    BY <1>2, <1>5, <1>6 DEF TrulyOrphaned
  <1>8. \A t : TrueSpread(t)' = TrueSpread(t)
    BY <1>1, <1>2 DEF TrueSpread
  <1> QED BY <1>5, <1>6, <1>7, <1>8 DEF ConclusionsTrue

\* The property is about the validation there is.
LEMMA ReconciliationIs == ReconciliationTrue <=> (validation # None => ConclusionsTrue(validation))
  BY DEF ReconciliationTrue, ConclusionsTrue

\* The invariant of the whole holds at first.
LEMMA ReportStarts == ReconciliationInit => ReportInvariant
  BY EvidenceStarts, DriftStarts DEF ReconciliationInit, Init, ReportInvariant, ReconciliationTrue

\* Every step of a scan, a comparison or a validation keeps it.
LEMMA ReportKeeps == ReportInvariant /\ [ReconciliationNext]_<<vars, validation>> => ReportInvariant'
  <1> SUFFICES ASSUME ReportInvariant, [ReconciliationNext]_<<vars, validation>> PROVE ReportInvariant'
    OBVIOUS
  <1>1. CASE [Next]_vars /\ UNCHANGED validation
    <2>1. DriftInvariant' /\ EvidenceInvariant' /\ UNCHANGED <<repository, glossary>>
      BY <1>1, DriftKeeps DEF ReportInvariant
    <2>2. PICK v : v = validation /\ v = validation'
      BY <1>1
    <2>3. validation # None => ConclusionsTrue(v)'
      BY <2>1, <2>2, ConclusionsStay, ReconciliationIs DEF ReportInvariant
    <2>4. ReconciliationTrue'
      BY <2>2, <2>3 DEF ReconciliationTrue, ConclusionsTrue
    <2> QED BY <2>1, <2>4 DEF ReportInvariant
  <1>2. CASE Validate
    <2>1. /\ pc = "done" /\ pc' = "validated"
          /\ UNCHANGED <<repository, unread, missed, vocabulary, matching, glossary, drift>>
          /\ \E listed \in SUBSET missed : validation' = build_binding_findings(Known(listed))
      BY <1>2 DEF Validate
    <2>2. PICK v : v = validation' /\ \E listed \in SUBSET missed : v = build_binding_findings(Known(listed))
      BY <2>1
    <2>3. ConclusionsTrue(v)
      BY <2>1, <2>2, ValidationSound DEF ReportInvariant, DriftInvariant
    <2>4. ConclusionsTrue(v)'
      BY <2>1, <2>3, ConclusionsStay
    <2>5. ReconciliationTrue'
      BY <2>2, <2>4 DEF ReconciliationTrue, ConclusionsTrue
    <2>6. EvidenceInvariant'
      BY <2>1, EvidenceLater DEF ReportInvariant
    <2>7. DriftInvariant'
      BY <2>1, DriftStill DEF ReportInvariant, DriftInvariant, drift
    <2> QED BY <2>5, <2>6, <2>7 DEF ReportInvariant
  <1> QED BY <1>1, <1>2 DEF ReconciliationNext

\* Every answer about a term or an identifier, right where it says so, is so
\* for any repository, any glossary and any of the bounds, however the scan
\* went and whatever the tables and the matching left out.
THEOREM CountsHold ==
  /\ EvidenceSpec => []CountsTrue
  /\ ReconciliationSpec => []CountsTrue
  <1>1. EvidenceSpec => []EvidenceInvariant
    BY EvidenceStarts, EvidenceKeeps, PTL DEF EvidenceSpec
  <1>2. ReconciliationSpec => []ReportInvariant
    BY ReportStarts, ReportKeeps, PTL DEF ReconciliationSpec
  <1>3. ReportInvariant => EvidenceInvariant
    BY DEF ReportInvariant
  <1> QED BY <1>1, <1>2, <1>3, CountsFollow, PTL

\* Drift reports nothing absent, fading or in use that is not, and a section
\* that calls its total exact has missed nothing.
THEOREM SectionsHold ==
  /\ Spec => []SectionsTrue
  /\ ReconciliationSpec => []SectionsTrue
  <1>1. Init => EvidenceInvariant /\ DriftInvariant
    BY EvidenceStarts, DriftStarts DEF Init
  <1>2. EvidenceInvariant /\ DriftInvariant /\ [Next]_vars => (EvidenceInvariant /\ DriftInvariant)'
    BY DriftKeeps
  <1>3. Spec => [](EvidenceInvariant /\ DriftInvariant)
    BY <1>1, <1>2, PTL DEF Spec
  <1>4. ReconciliationSpec => []ReportInvariant
    BY ReportStarts, ReportKeeps, PTL DEF ReconciliationSpec
  <1>5. ReportInvariant => DriftInvariant
    BY DEF ReportInvariant
  <1> QED BY <1>3, <1>4, <1>5, SectionsFollow, PTL

\* Validation says nothing is missing that the scan merely did not see, and a
\* list it calls exact leaves none out.
THEOREM ReconciliationHolds == ReconciliationSpec => []ReconciliationTrue
  <1>1. ReconciliationSpec => []ReportInvariant
    BY ReportStarts, ReportKeeps, PTL DEF ReconciliationSpec
  <1>2. ReportInvariant => ReconciliationTrue
    BY DEF ReportInvariant
  <1> QED BY <1>1, <1>2, PTL
===============================================================================
