---------------------------- MODULE GlossaryStore ----------------------------
(***************************************************************************)
(* glossabet-out/glossary.json: concurrent runs of save, and of commands   *)
(* that load it, while other programs put things in its place.             *)
(*                                                                         *)
(* A document is a sequence of concepts, each with an id and the prefixes  *)
(* of its scope; a prefix is a path in one of the spellings Unicode has    *)
(* for it.  Left out: every other field, and the rest of the schema.       *)
(* Links, other than those there from the start, and rewriting a file in   *)
(* place are not among what others do: SECURITY.md puts a path swapped     *)
(* after its check out of scope.                                           *)
(***************************************************************************)
EXTENDS Integers, SequencesExt, Absent

CONSTANTS
  Clients,            \* processes
  Documents,          \* what may be saved or put at the path by others
  CompactBytes,       \* what a concept takes as the shortest JSON: [id -> Nat]
  StoredBytes,        \* and as write_json_atomic writes it
  MAX_JSON_BYTES,
  MaxMoves            \* bound: what others do

Spellings == {"NFC", "NFD"}
Layouts == {"compact", "stored"}

\* What may stand at the path.  A file that is not a document is malformed.
NotAFile(kind) == [kind |-> kind, by |-> "others", layout |-> "compact", concepts |-> <<>>]
Malformed(by) == [kind |-> "malformed", by |-> by, layout |-> "compact", concepts |-> <<>>]
File(by, layout, concepts) == [kind |-> "document", by |-> by, layout |-> layout, concepts |-> concepts]

Foreign ==
  {None, Malformed("others"), NotAFile("directory")} \cup {File("others", "compact", d) : d \in Documents}

\* Standard input: no document can be had from it, or one can.
Unusable == [channel |-> "unusable", concepts |-> <<>>]
Inputs == {Unusable} \cup {[channel |-> "document", concepts |-> d] : d \in Documents}

Concepts == [id: Nat, prefixes: Seq([path: Nat, spelling: Spellings])]

ASSUME StoreAssumption ==
  /\ Documents \subseteq Seq(Concepts)
  /\ \A d \in Documents : \A i \in DOMAIN d :
       CompactBytes[d[i].id] \in Nat /\ CompactBytes[d[i].id] <= StoredBytes[d[i].id]
  /\ MAX_JSON_BYTES \in Nat /\ MaxMoves \in Nat
  /\ None \notin {"refused", "saved", "killed", "error", "absent", "loaded"}

VARIABLES
  out,                \* glossabet-out: "missing", "directory", "file", "link"
  standing,           \* glossabet-out/glossary.json, or None
  temporary,          \* [client -> its temporary in glossabet-out, or None]
  client,             \* the local variables of each process
  stood,              \* [client -> all that has stood at the path since it began]
  moves               \* what others have done so far

store == <<out, standing, temporary, client, stood, moves>>

(***************************************************************************)
(* The document.                                                           *)
(***************************************************************************)
BytesOf(layout, concepts) ==
  LET weight == IF layout = "stored" THEN StoredBytes ELSE CompactBytes
  IN FoldLeft(LAMBDA sum, c : sum + weight[c.id], 0, concepts)

canonical_scope_path(prefix) == [prefix EXCEPT !.spelling = "NFC"]

NoneTwice(seq) == Cardinality(ToSet(seq)) = Len(seq)

\* Of the schema: ids once each, and a scope's paths too, in their NFC form.
validate_glossary(concepts) ==
  /\ NoneTwice([i \in DOMAIN concepts |-> concepts[i].id])
  /\ \A i \in DOMAIN concepts :
       NoneTwice([j \in DOMAIN concepts[i].prefixes |-> canonical_scope_path(concepts[i].prefixes[j])])

\* In the order of a field no two share: the n-th is what n - 1 others precede.
SortedBy(field, seq) ==
  LET Preceding(x) == {y \in ToSet(seq) : y[field] < x[field]}
  IN [n \in DOMAIN seq |-> CHOOSE x \in ToSet(seq) : Cardinality(Preceding(x)) = n - 1]

InNFC(concept) ==
  [concept EXCEPT !.prefixes = SortedBy("path", [j \in DOMAIN @ |-> canonical_scope_path(@[j])])]

\* Variant: concepts stay in the order they came in.
_canonicalize_scope_paths_AsGiven(concepts, sort_concepts) ==
  [i \in DOMAIN concepts |-> InNFC(concepts[i])]

_canonicalize_scope_paths(concepts, sort_concepts) ==
  LET canonical == [i \in DOMAIN concepts |-> InNFC(concepts[i])]
  IN IF sort_concepts THEN SortedBy("id", canonical) ELSE canonical

\* parse_bounded_json: the bound is judged by the bytes there are.
Parsed(layout, concepts) == BytesOf(layout, concepts) <= MAX_JSON_BYTES /\ validate_glossary(concepts)

(***************************************************************************)
(* A client.                                                               *)
(***************************************************************************)
Go(p, state) == client' = [client EXCEPT ![p].state = state]

Finish(p, outcome) == client' = [client EXCEPT ![p].state = "ended", ![p].outcome = outcome]

\* What stands at the path from now on, which every client that runs sees.
Place(entry) ==
  /\ standing' = entry
  /\ stood' = [p \in Clients |-> IF client[p].state \in {"idle", "ended"} THEN stood[p] ELSE stood[p] \cup {entry}]

Untouched == UNCHANGED <<standing, stood>>

Begin(p) ==
  /\ client[p].state = "idle"
  /\ \/ Go(p, "check path")
     \/ \E input \in Inputs : client' = [client EXCEPT ![p].state = "read input", ![p].input = input]
  /\ stood' = [stood EXCEPT ![p] = {standing}]
  /\ UNCHANGED <<out, standing, temporary, moves>>

(***************************************************************************)
(* save_command.                                                           *)
(***************************************************************************)
_read_glossary_from_stdin(p) ==
  /\ client[p].state = "read input"
  /\ LET input == client[p].input IN
     IF input.channel = "document" /\ Parsed("compact", input.concepts)
       THEN Go(p, "check output")
       ELSE Finish(p, "refused")
  /\ UNCHANGED <<out, temporary, moves>> /\ Untouched

\* A link at glossabet-out, or anything but a directory.
CheckOutput(p) ==
  /\ client[p].state = "check output"
  /\ IF out \in {"link", "file"} THEN Finish(p, "refused") ELSE Go(p, "make output")
  /\ UNCHANGED <<out, temporary, moves>> /\ Untouched

MakeOutput(p) ==
  /\ client[p].state = "make output"
  /\ IF out = "file"
       THEN Finish(p, "refused") /\ UNCHANGED out
       ELSE Go(p, "check name") /\ out' = "directory"
  /\ UNCHANGED <<temporary, moves>> /\ Untouched

Linked == out = "link" \/ (standing # None /\ standing.kind = "link")

CheckName(p) ==
  /\ client[p].state = "check name"
  /\ IF Linked THEN Finish(p, "refused") ELSE Go(p, "mkstemp")
  /\ UNCHANGED <<out, temporary, moves>> /\ Untouched

\* Its directory is made once more.
MakeTemporary(p) ==
  /\ client[p].state = "mkstemp"
  /\ IF out = "file"
       THEN Finish(p, "refused") /\ UNCHANGED <<out, temporary>>
       ELSE /\ out' = "directory" /\ Go(p, "write")
            /\ temporary' = [temporary EXCEPT ![p] = Malformed("save")]
  /\ UNCHANGED moves /\ Untouched

\* The temporary is unlinked on any failure.
GiveUp(p) == Finish(p, "refused") /\ temporary' = [temporary EXCEPT ![p] = None]

Normalized(p) == File("save", "stored", _canonicalize_scope_paths(client[p].input.concepts, TRUE))

\* Written, flushed and synced, or not.  A temporary whose directory went is
\* written all the same.
WriteTemporary(p) ==
  /\ client[p].state = "write"
  /\ \/ Go(p, "replace")
        /\ temporary' = [temporary EXCEPT ![p] = IF @ = None THEN None ELSE Normalized(p)]
     \/ GiveUp(p)
  /\ UNCHANGED <<out, moves>> /\ Untouched

Replace(p) ==
  /\ client[p].state = "replace"
  /\ IF temporary[p] = None \/ (standing # None /\ standing.kind = "directory")
       THEN GiveUp(p) /\ Untouched
       ELSE /\ Place(temporary[p])
            /\ Finish(p, "saved") /\ temporary' = [temporary EXCEPT ![p] = None]
  /\ UNCHANGED <<out, moves>>

Killed(p) ==
  /\ client[p].state \notin {"idle", "ended"}
  /\ Finish(p, "killed")
  /\ UNCHANGED <<out, temporary, moves>> /\ Untouched

(***************************************************************************)
(* load_glossary.                                                          *)
(***************************************************************************)
CheckPath(p) ==
  /\ client[p].state = "check path"
  /\ IF Linked THEN Finish(p, "error") ELSE Go(p, "isfile")
  /\ UNCHANGED <<out, temporary, moves>> /\ Untouched

IsFile(p) ==
  /\ client[p].state = "isfile"
  /\ IF standing = None \/ (standing # None /\ standing.kind = "directory")
       THEN Finish(p, "absent")
       ELSE Go(p, "open")
  /\ UNCHANGED <<out, temporary, moves>> /\ Untouched

\* The file that is opened is read to its end, whatever takes its place.
Open(p) ==
  /\ client[p].state = "open"
  /\ IF standing # None /\ standing.kind = "document" /\ Parsed(standing.layout, standing.concepts)
       THEN client' = [client EXCEPT ![p].state = "ended", ![p].outcome = "loaded",
                         ![p].loaded = _canonicalize_scope_paths(standing.concepts, FALSE)]
       ELSE Finish(p, "error")
  /\ UNCHANGED <<out, temporary, moves>> /\ Untouched

(***************************************************************************)
(* Other programs put something at the path, or remove glossabet-out, or   *)
(* put a file there.                                                       *)
(***************************************************************************)
Meddle ==
  /\ moves < MaxMoves /\ moves' = moves + 1
  /\ \/ /\ out = "directory"
        /\ \E entry \in Foreign \ {standing} : Place(entry)
        /\ UNCHANGED <<out, temporary>>
     \/ /\ out' \in {"missing", "file"} \ {out}
        /\ Place(None)
        /\ temporary' = [p \in Clients |-> None]
  /\ UNCHANGED client

StoreInit ==
  /\ out \in {"missing", "directory", "file", "link"}
  /\ standing \in IF out = "directory" THEN Foreign \cup {NotAFile("link")} ELSE {None}
  /\ temporary = [p \in Clients |-> None]
  /\ client = [p \in Clients |-> [state |-> "idle", input |-> Unusable, outcome |-> None, loaded |-> <<>>]]
  /\ stood = [p \in Clients |-> {}]
  /\ moves = 0

StoreStep(p) ==
  \/ Begin(p)
  \/ _read_glossary_from_stdin(p) \/ CheckOutput(p) \/ MakeOutput(p) \/ CheckName(p)
  \/ MakeTemporary(p) \/ WriteTemporary(p) \/ Replace(p)
  \/ CheckPath(p) \/ IsFile(p) \/ Open(p) \/ Killed(p)

StoreNext == Meddle \/ \E p \in Clients : StoreStep(p)

StoreSpec == StoreInit /\ [][StoreNext]_store

(***************************************************************************)
(* Properties.                                                             *)
(***************************************************************************)
\* What a document says, whatever the order and the spelling.
Meaning(concepts) ==
  {<<concepts[i].id, {pre.path : pre \in ToSet(concepts[i].prefixes)}>> : i \in DOMAIN concepts}

Outcome(p) == client[p].outcome

\* What save puts in place is a whole glossary, of a process that was asked to
\* save it, and loads again as it is unless it outgrew the ceiling when it was
\* laid out (SECURITY.md: "Direct JSON artifact | 64,000,000 bytes"); equal
\* glossaries are equal files ("identical content is identical bytes").
SavedWhole ==
  standing # None /\ standing.by = "save" =>
    /\ standing.kind = "document"
    /\ validate_glossary(standing.concepts)
    /\ _canonicalize_scope_paths(standing.concepts, FALSE) = standing.concepts
    /\ \E p \in Clients :
         /\ client[p].state # "idle" /\ client[p].input.channel = "document"
         /\ Meaning(client[p].input.concepts) = Meaning(standing.concepts)
    /\ \A p \in Clients : \A entry \in stood[p] :
         entry # None /\ entry.by = "save" /\ Meaning(entry.concepts) = Meaning(standing.concepts) => entry = standing

\* A save that succeeded had its glossary in place while it ran; one that ended
\* otherwise than by a kill leaves no temporary.
SavesAccounted ==
  \A p \in Clients :
    /\ Outcome(p) = "saved" =>
         \E entry \in stood[p] :
           entry # None /\ entry.by = "save" /\ Meaning(entry.concepts) = Meaning(client[p].input.concepts)
    /\ temporary[p] # None => Outcome(p) \in {None, "killed"}

\* A load gives what stood at the path at one moment of its run, in NFC, and
\* "no glossary" only if no file did.
LoadsTrue ==
  \A p \in Clients :
    /\ Outcome(p) = "loaded" =>
         \E entry \in stood[p] :
           /\ entry # None /\ entry.kind = "document"
           /\ Meaning(entry.concepts) = Meaning(client[p].loaded)
           /\ \A i \in DOMAIN client[p].loaded :
                /\ client[p].loaded[i].id = entry.concepts[i].id
                /\ \A pre \in ToSet(client[p].loaded[i].prefixes) : pre.spelling = "NFC"
    /\ Outcome(p) = "absent" =>
         \E entry \in stood[p] : entry = None \/ (entry # None /\ entry.kind = "directory")

\* With any interleaving of saves, loads, kills and other programs, a reader
\* never meets half a glossary and a save says truly what became of it.
StoreTrue == SavedWhole /\ SavesAccounted /\ LoadsTrue
=============================================================================
