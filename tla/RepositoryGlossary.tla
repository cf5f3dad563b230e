------------------------- MODULE RepositoryGlossary -------------------------
(***************************************************************************)
(* Discovery of a repository's own root GLOSSARY.md, and the comparison of *)
(* its text with the settled terms.                                        *)
(*                                                                         *)
(* The name is confirmed by two lookups and two listings of the root, the  *)
(* link rule is applied to what is there, and then the file is opened by   *)
(* its name.  Another program may replace, rename or remove the entry      *)
(* between any two of these, and the filesystem may fold the case of names *)
(* or keep no identity of files.                                           *)
(***************************************************************************)
EXTENDS Naturals, FiniteSets, Sequences, Absent

CONSTANTS
  Entries,               \* what may stand at the name: files, directories, links
  EntryKind,             \* of each, what reading it meets, see Kinds
  FoldedText,            \* of each, the folded terms its text holds
  Settled,               \* the glossaries that may have been loaded
  MAX_DIVERGENCE_TERMS,
  MaxReplacements        \* bound: changes of the name by other programs

\* A directory or a device, a file too large, unreadable, not UTF-8, one whose
\* text folds to more than the bound, one that can be compared; and links to
\* what the link rule refuses.  A link it allows is of the kind it leads to.
Kinds == {"irregular", "oversized", "unreadable", "not-utf-8", "expanding", "text"}
Refused == {"escapes", "sensitive", "own output"}

ASSUME EntryAssumption ==
  /\ EntryKind \in [Entries -> [kind: Kinds, refusal: Refused \cup {None}, link: BOOLEAN]]
  /\ \A e \in Entries : EntryKind[e].refusal # None => EntryKind[e].link
  /\ \A g \in Settled \ {None} : \A i \in DOMAIN g : 0 \notin DOMAIN g[i].aliases
  /\ None \notin Entries /\ MaxReplacements \in Nat

VARIABLES
  platform,        \* whether names are told apart by case, and files by identity
  exact,           \* the entry spelled GLOSSARY.md, or None
  alternate,       \* an entry of another case, or None
  glossary_in_use, \* the loaded glossary: its canonical concepts in order of id
  at,              \* where discovery stands
  looked,          \* what the lookup found
  listed,          \* the names the last scandir returned
  first,           \* what the first listing said
  section,         \* the section of the agent context, or None
  taken,           \* the entry whose bytes were read, or None
  replacements, gone_once, judged_at

fs == <<platform, exact, alternate, glossary_in_use>>
discovered == <<fs, at, looked, listed, first, section, taken, replacements, gone_once, judged_at>>

\* What opening or lstat of the name meets.
ByName == IF exact = None /\ ~platform.sensitive THEN alternate ELSE exact

\* The records of _divergence_result and _read_repository_glossary.
NoDivergence == [missing |-> {}, superseded |-> {}, checked |-> 0, skipped |-> 0, complete |-> FALSE]
Absence == [present |-> FALSE, readable |-> FALSE, reason |-> None, divergence |-> None]
_unreadable(why) == [present |-> TRUE, readable |-> FALSE, reason |-> why, divergence |-> None]

Rest == UNCHANGED <<fs, replacements, gone_once>>
GoTo(p) == at' = p /\ UNCHANGED section /\ Rest
Decide(s) == at' = "compared" /\ section' = s /\ Rest /\ UNCHANGED <<looked, listed, first, judged_at>>

(***************************************************************************)
(* entry_named_exactly.                                                    *)
(***************************************************************************)
Unconfirmed == Decide(_unreadable("root-listing-unconfirmed")) /\ UNCHANGED taken

Lookup ==
  /\ at \in {"lookup", "lookup again"}
  /\ UNCHANGED taken
  /\ \/ /\ ByName # None
        /\ looked' = ByName
        /\ GoTo(IF at = "lookup" THEN "list" ELSE "list again")
        /\ UNCHANGED <<listed, first, judged_at>>
     \/ /\ ByName = None
        /\ Decide(IF at = "lookup" THEN Absence ELSE _unreadable("root-listing-unconfirmed"))

ListRoot ==
  /\ at \in {"list", "list again"}
  /\ listed' = [exact |-> exact # None, alternate |-> alternate # None]
  /\ GoTo(IF at = "list" THEN "confirm" ELSE "confirm again")
  /\ UNCHANGED <<looked, first, taken, judged_at>>

\* _listed_name_state: a listed name must lead somewhere still, and another
\* spelling counts only as another name of what the lookup found.
_listed_name_state ==
  CASE listed.exact -> IF ByName # None THEN "exact" ELSE "unknown"
    [] ~listed.exact /\ listed.alternate ->
         LET found == IF alternate = None /\ ~platform.sensitive THEN exact ELSE alternate IN
         IF found # None /\ found = looked /\ platform.identified THEN "alternate" ELSE "unknown"
    [] OTHER -> "unknown"

ConfirmName ==
  /\ at \in {"confirm", "confirm again"}
  /\ LET state == _listed_name_state IN
     \/ state = "unknown" /\ Unconfirmed
     \/ /\ at = "confirm" /\ state # "unknown"
        /\ first' = state
        /\ GoTo("lookup again")
        /\ UNCHANGED <<looked, listed, taken, judged_at>>
     \/ at = "confirm again" /\ state \notin {"unknown", first} /\ Unconfirmed
     \/ /\ at = "confirm again" /\ state = first
        /\ \/ first = "alternate" /\ Decide(Absence) /\ UNCHANGED taken
           \/ /\ first = "exact"
              /\ GoTo("link") /\ UNCHANGED <<looked, listed, first, taken, judged_at>>

\* Variant: what cannot be looked up is absent.
FailToConfirm_Absent ==
  at \in {"lookup", "list", "confirm", "lookup again", "list again", "confirm again"}
    /\ Decide(Absence) /\ UNCHANGED taken

\* Any of the lookups and listings may fail, or pass the bound on entries.
FailToConfirm ==
  at \in {"lookup", "list", "confirm", "lookup again", "list again", "confirm again"} /\ Unconfirmed

(***************************************************************************)
(* _read_repository_glossary.                                              *)
(***************************************************************************)
CheckLink ==
  /\ at = "link"
  /\ UNCHANGED taken
  /\ \/ /\ ByName # None /\ EntryKind[ByName].link /\ EntryKind[ByName].refusal # None
        /\ Decide(_unreadable(EntryKind[ByName].refusal))
     \/ /\ ByName # None => ~EntryKind[ByName].link \/ EntryKind[ByName].refusal = None
        /\ judged_at' = replacements
        /\ GoTo("kind") /\ UNCHANGED <<looked, listed, first>>

CheckKind ==
  /\ at = "kind"
  /\ UNCHANGED taken
  /\ IF ByName = None \/ (ByName # None /\ EntryKind[ByName].kind = "irregular")
       THEN Decide(_unreadable("not-a-regular-file"))
       ELSE GoTo("read") /\ UNCHANGED <<looked, listed, first, judged_at>>

\* read_bounded_bytes opens the name again, and asks once more what it is.
ReadBounded ==
  /\ at = "read"
  /\ IF ByName = None \/ (ByName # None /\ EntryKind[ByName].kind \in {"irregular", "unreadable"})
       THEN Decide(_unreadable("unreadable")) /\ UNCHANGED taken
     ELSE IF EntryKind[ByName].kind \in {"oversized", "not-utf-8"}
       THEN Decide(_unreadable(EntryKind[ByName].kind)) /\ UNCHANGED taken
     ELSE /\ taken' = ByName
          /\ GoTo("compare") /\ UNCHANGED <<looked, listed, first, judged_at>>

(***************************************************************************)
(* repository_glossary_divergence.                                         *)
(***************************************************************************)
Superseded == {"alias", "discouraged", "deprecated"}

_superseded_aliases(c) == {j \in DOMAIN c.aliases : c.aliases[j].status \in Superseded}

\* The terms to look for: of each concept the canonical one, at place 0, and
\* those it superseded, at their places among its aliases.
Asked(concepts) ==
  UNION {{i} \X ({0} \cup _superseded_aliases(concepts[i])) : i \in DOMAIN concepts}

Term(c, place) == IF place = 0 THEN c.term ELSE c.aliases[place].term

\* Concept by concept, each canonical term before its aliases.
Before(p, q) == p[1] < q[1] \/ (p[1] = q[1] /\ p[2] < q[2])

\* Terms are looked for until the cap is spent.
Divergence(concepts, text) ==
  LET asked == Asked(concepts)
      checked == {q \in asked : Cardinality({p \in asked : Before(p, q)}) < MAX_DIVERGENCE_TERMS}
      missing == {i \in DOMAIN concepts : <<i, 0>> \in checked /\ concepts[i].term \notin text}
  IN [missing |-> missing,
      superseded |-> {q \in checked : q[2] # 0 /\ q[1] \in missing /\ Term(concepts[q[1]], q[2]) \in text},
      checked |-> Cardinality(checked), skipped |-> Cardinality(asked \ checked),
      complete |-> asked \ checked = {}]

\* A text that folds past the bound is not searched.
Compare ==
  /\ at = "compare"
  /\ UNCHANGED taken
  /\ Decide([present |-> TRUE, readable |-> TRUE, reason |-> None,
             divergence |->
               IF glossary_in_use = None THEN None
               ELSE IF EntryKind[taken].kind = "expanding"
                 THEN [NoDivergence EXCEPT !.skipped = Cardinality(Asked(glossary_in_use))]
               ELSE Divergence(glossary_in_use, FoldedText[taken])])

(***************************************************************************)
(* Other programs.                                                         *)
(***************************************************************************)
Alter(x, y) ==
  /\ <<x, y>> # <<exact, alternate>>
  /\ at # "compared" /\ replacements < MaxReplacements
  /\ exact' = x /\ alternate' = y
  /\ replacements' = replacements + 1
  /\ gone_once' = (gone_once \/ x = None)
  /\ UNCHANGED <<platform, glossary_in_use, at, looked, listed, first, section, taken, judged_at>>

ReplaceEntry ==
  \/ \E e \in Entries : Alter(e, IF platform.sensitive THEN alternate ELSE None)
  \/ Alter(None, alternate)
  \/ exact # None /\ Alter(None, exact)
  \/ alternate # None /\ Alter(alternate, None)

DiscoveryInit ==
  /\ platform \in [sensitive: BOOLEAN, identified: BOOLEAN]
  /\ exact \in Entries \cup {None} /\ alternate \in Entries \cup {None}
  /\ exact # alternate \/ exact = None
  /\ ~platform.sensitive => None \in {exact, alternate}
  /\ glossary_in_use \in Settled
  /\ at = "lookup" /\ looked = None /\ first = "unknown"
  /\ listed = [exact |-> FALSE, alternate |-> FALSE]
  /\ section = None /\ taken = None
  /\ replacements = 0 /\ gone_once = (exact = None) /\ judged_at = 0

Discover ==
  \/ Lookup \/ ListRoot \/ ConfirmName \/ FailToConfirm
  \/ CheckLink \/ CheckKind \/ ReadBounded \/ Compare

DiscoveryNext == Discover \/ ReplaceEntry

DiscoverySpec == DiscoveryInit /\ [][DiscoveryNext]_discovered

(***************************************************************************)
(* Properties.                                                             *)
(***************************************************************************)

\* The file is reported absent only if at some moment of the run no entry had
\* its exact name (entry_named_exactly: "a false absence claim is the one
\* failure to avoid"), and what is declared readable is nothing the link rule
\* refuses, unless the name was changed after the rule was applied to it.
DiscoveryTrue ==
  section # None =>
    /\ ~section.present => gone_once
    /\ section.readable => EntryKind[taken].refusal = None \/ judged_at < replacements

TrulyMissing(c) == glossary_in_use[c].term \notin FoldedText[taken]

\* Every divergence reported is one of the text that was read, and one called
\* complete is all there is: each settled term, and each alias it superseded,
\* was looked for (repository_glossary.py: "never reads as a clean bill").
DivergenceTrue ==
  section # None /\ section.divergence # None =>
    LET d == section.divergence
        lost == {c \in DOMAIN glossary_in_use : TrulyMissing(c)}
    IN /\ d.missing \subseteq lost
       /\ \A q \in d.superseded :
            q[1] \in lost /\ Term(glossary_in_use[q[1]], q[2]) \in FoldedText[taken]
       /\ d.complete =>
            /\ d.missing = lost
            /\ \A i \in lost : \A j \in _superseded_aliases(glossary_in_use[i]) :
                 glossary_in_use[i].aliases[j].term \in FoldedText[taken] => <<i, j>> \in d.superseded

SectionTrue == DiscoveryTrue /\ DivergenceTrue
=============================================================================
