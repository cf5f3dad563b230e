----------------------------- MODULE AgentContext -----------------------------
(***************************************************************************)
(* build_agent_context: the evidence of a scan and the glossary, projected *)
(* into one bounded document for an agent.  A lean projection rolls up     *)
(* locations and samples the register first; then the whole document is    *)
(* copied with every list and every string cut to its limit.  Each loss is *)
(* recorded once for its pattern of path and kind, whatever the index.     *)
(*                                                                         *)
(* A document is a function from paths to what stands there; a step of a   *)
(* path is a field's name or an index.  Left out: the fields' meaning, the *)
(* schema versions and the limits' display.                                *)
(***************************************************************************)
EXTENDS Integers, SequencesExt

CONSTANTS
  Fields,             \* names of fields
  Indices,            \* the indices of a list, first to last
  Documents,          \* documents: [path -> [sort, size]]
  ListLimits,         \* the limits of particular lists, by pattern
  DefaultListLimit, StringLimit,
  LocationTables,     \* patterns of the locations the lean projection rolls up
  ExemplarsAt,        \* pattern of the register's exemplars
  NamingLocations,    \* pattern of the locations of naming candidates
  Losses,             \* bound: how many locations, exemplars and sources there may be
  MaxCoverageRecords,
  Overheads, MaxContextBytes    \* serialised size: of the fixed part, and the limit

Fold == "*"

\* A list of `size` items, a string of `size` characters, an object, or a scalar.
Sorts == {"list", "string", "object", "scalar"}

\* Field names and indices are told apart; a document is a finite tree, in
\* which the items of a list stand at its first indices.
ASSUME ContextAssumption ==
  /\ Fold \notin Fields /\ Indices \in Seq(ToSet(Indices)) /\ IsInjective(Indices)
  /\ ToSet(Indices) \cap Fields = {}
  /\ \A d \in Documents :
       /\ IsFiniteSet(DOMAIN d) /\ DOMAIN d \subseteq Seq(Fields \cup ToSet(Indices))
       /\ <<>> \in DOMAIN d
       /\ \A p \in DOMAIN d : d[p].sort \in Sorts /\ d[p].size \in Nat
       /\ \A p \in DOMAIN d : \A k \in 0..Len(p) : SubSeq(p, 1, k) \in DOMAIN d
       /\ \A p \in DOMAIN d : p # <<>> => d[Front(p)].sort \in {"list", "object"}
       /\ \A p \in DOMAIN d : d[p].sort = "list" =>
            {q \in DOMAIN d : q # <<>> /\ Front(q) = p}
              = {Append(p, Indices[i]) : i \in 1..d[p].size}
       /\ \A p \in DOMAIN d : d[p].sort = "list" => d[p].size <= Len(Indices)
  /\ IsFiniteSet(LocationTables)
  /\ \A p \in DOMAIN ListLimits : ListLimits[p] \in Nat
  /\ {DefaultListLimit, StringLimit, Losses, MaxCoverageRecords, MaxContextBytes} \subseteq Nat

VARIABLES
  document, full, corpus_read,        \* the projection asked for, of what
  phase,                              \* "project", "bound", "serialize", and how it ended
  todo,                               \* the paths still to be copied, in order
  copied,                             \* [path -> size kept]
  ledger,                             \* intentional_exclusions, source_omissions, truncations
  dropped                             \* what the lean projection dropped before the copy

contextVars == <<document, full, corpus_read, phase, todo, copied, ledger, dropped>>

Pattern(p) == [i \in DOMAIN p |-> IF p[i] \in Fields THEN p[i] ELSE Fold]

(***************************************************************************)
(* _ProjectionCoverage: a set of records in each of three lists.           *)
(***************************************************************************)
RecordsOf(l) == Cardinality(l.exclusions) + Cardinality(l.omissions) + Cardinality(l.truncations)

Same(records, pattern, kind) == {r \in records : r.path = pattern /\ r.kind = kind}

\* Variant: a record for every loss.
_record_Apart(l, list, pattern, kind, amount) ==
  [l EXCEPT ![list] = @ \cup {[path |-> pattern, kind |-> kind, amount |-> amount]}]

\* Whether one more loss can be recorded.
Recordable(l, list, pattern, kind) ==
  Same(l[list], pattern, kind) # {} \/ RecordsOf(l) < MaxCoverageRecords

_record(l, list, pattern, kind, amount) ==
  LET before == Same(l[list], pattern, kind)
      sum == amount + IF before = {} THEN 0 ELSE (CHOOSE r \in before : TRUE).amount
  IN [l EXCEPT ![list] = (@ \ before) \cup {[path |-> pattern, kind |-> kind, amount |-> sum]}]

\* The next entry of the ledger: made, or refused when there are too many.
Lose(list, pattern, kind, amount, then) ==
  CASE amount = 0 -> UNCHANGED ledger /\ phase' = then
    [] amount > 0 /\ Recordable(ledger, list, pattern, kind) ->
         ledger' = _record(ledger, list, pattern, kind, amount) /\ phase' = then
    [] OTHER -> UNCHANGED ledger /\ phase' = "overfull"

(***************************************************************************)
(* The projection.                                                         *)
(***************************************************************************)
\* The imports are always left out.
ExcludeImports ==
  /\ phase = "project"
  /\ Lose("exclusions", <<"imports">>, "section_excluded", 1, IF full THEN "bound" ELSE "rollup")
  /\ UNCHANGED <<document, full, corpus_read, todo, copied, dropped>>

\* _module_rollup_section, for the tables in any order.
RollUp(table) ==
  /\ phase = "rollup" /\ table \in LocationTables \ dropped.tables
  /\ \E n \in 0..Losses : Lose("exclusions", table, "file_locations_rolled_up", n, "rollup")
  /\ dropped' = [dropped EXCEPT !.tables = @ \cup {table}]
  /\ UNCHANGED <<document, full, corpus_read, todo, copied>>

\* _register_exemplars
SampleRegister ==
  /\ phase = "rollup" /\ LocationTables \subseteq dropped.tables
  /\ \E n \in 0..Losses :
       /\ Lose("truncations", ExemplarsAt, "list_items", n, "name")
       /\ dropped' = [dropped EXCEPT !.exemplars = n]
  /\ UNCHANGED <<document, full, corpus_read, todo, copied>>

\* _naming_with_locations
LocateNames ==
  /\ phase = "name"
  /\ \E n \in 0..Losses :
       /\ Lose("omissions", NamingLocations, "source_items_unavailable", n, "bound")
       /\ dropped' = [dropped EXCEPT !.sources = n]
  /\ UNCHANGED <<document, full, corpus_read, todo, copied>>

(***************************************************************************)
(* _bounded_copy, one value a step.                                        *)
(***************************************************************************)
\* Limits are looked up by the path itself: an index is in no entry.
Limit(p) ==
  CASE document[p].sort = "string" -> StringLimit
    [] document[p].sort = "list" ->
         IF p \in DOMAIN ListLimits THEN ListLimits[p] ELSE DefaultListLimit
    [] OTHER -> document[p].size

Kept(p) == IF document[p].size > Limit(p) THEN Limit(p) ELSE document[p].size
Excess(p) == document[p].size - Kept(p)
KindOf(p) == IF document[p].sort = "list" THEN "list_items" ELSE "string_characters"

Children(p) == {q \in DOMAIN document : q # <<>> /\ Front(q) = p}
Passed(p) == {Indices[i] : i \in 1..Kept(p)}
Items(p) == {q \in Children(p) : document[p].sort = "object" \/ Last(q) \in Passed(p)}

\* Fields in any order, the items of a list by their indices.
InOrder(p) ==
  IF document[p].sort = "list" THEN [i \in 1..Kept(p) |-> Append(p, Indices[i])]
  ELSE SetToSeq(Items(p))

BoundedCopy ==
  /\ phase = "bound" /\ todo # <<>>
  /\ LET p == Head(todo) IN
     /\ Lose("truncations", Pattern(p), KindOf(p), Excess(p), "bound")
     /\ copied' = [q \in DOMAIN copied \cup {p} |-> IF q = p THEN Kept(p) ELSE copied[q]]
     /\ todo' = InOrder(p) \o Tail(todo)
  /\ UNCHANGED <<document, full, corpus_read, dropped>>

EndCopy ==
  /\ phase = "bound" /\ todo = <<>>
  /\ phase' = "serialize"
  /\ UNCHANGED <<document, full, corpus_read, todo, copied, ledger, dropped>>

\* serialize_agent_context
Serialized == Cardinality(DOMAIN copied) + RecordsOf(ledger)

Serialize ==
  /\ phase = "serialize"
  /\ \E overhead \in Overheads :
       phase' = IF overhead + Serialized > MaxContextBytes THEN "oversize" ELSE "printed"
  /\ UNCHANGED <<document, full, corpus_read, todo, copied, ledger, dropped>>

projection_complete == ledger.truncations = {}
source_complete == corpus_read /\ ledger.omissions = {}

ContextStart ==
  /\ phase = "project" /\ todo = <<<<>>>> /\ copied = <<>>
  /\ ledger = [exclusions |-> {}, omissions |-> {}, truncations |-> {}]
  /\ dropped = [tables |-> {}, exemplars |-> 0, sources |-> 0]

ContextInit ==
  /\ document \in Documents /\ full \in BOOLEAN /\ corpus_read \in BOOLEAN
  /\ ContextStart

ContextNext ==
  \/ ExcludeImports \/ (\E table \in LocationTables : RollUp(table)) \/ SampleRegister
  \/ LocateNames \/ BoundedCopy \/ EndCopy \/ Serialize

ContextSpec == ContextInit /\ [][ContextNext]_contextVars

(***************************************************************************)
(* What is lost.                                                           *)
(***************************************************************************)
\* Reached without passing an item beyond its list's limit.
Reached ==
  {p \in DOMAIN document :
     \A k \in 1..Len(p) :
       LET list == SubSeq(p, 1, k - 1) IN
       document[list].sort = "list" => p[k] \in Passed(list)}

TrueLosses ==
  {<<Pattern(p), KindOf(p)>> : p \in {q \in Reached : Excess(q) > 0}}
    \cup IF dropped.exemplars > 0 THEN {<<ExemplarsAt, "list_items">>} ELSE {}

\* What a limit cuts off, item by item and character by character.
Cut(p) == {p} \X (Kept(p) + 1..document[p].size)

TrueLoss(pattern, kind) ==
  Cardinality(UNION {Cut(p) : p \in {q \in Reached : Pattern(q) = pattern /\ KindOf(q) = kind}})
    + IF <<pattern, kind>> = <<ExemplarsAt, "list_items">> THEN dropped.exemplars ELSE 0

(***************************************************************************)
(* Properties.                                                             *)
(***************************************************************************)
\* What is printed tells each of its losses, once, with its amount, and is
\* called complete exactly when nothing was cut or left out ("One record per
\* (pattern, kind) ... not 500 records that exhaust the ceiling"); a document
\* is refused for its losses only when it has more kinds of them than records.
ContextTrue ==
  /\ phase = "printed" =>
       /\ DOMAIN copied = Reached /\ \A p \in Reached : copied[p] = document[p].size - Excess(p)
       /\ {<<r.path, r.kind>> : r \in ledger.truncations} = TrueLosses
       /\ \A r \in ledger.truncations : r.amount = TrueLoss(r.path, r.kind)
       /\ projection_complete <=> dropped.exemplars = 0 /\ copied = [p \in DOMAIN document |-> document[p].size]
       /\ source_complete <=> corpus_read /\ dropped.sources = 0
  /\ phase = "overfull" =>
       1 + Cardinality(LocationTables) + 1 + Cardinality(TrueLosses) > MaxCoverageRecords
=============================================================================
