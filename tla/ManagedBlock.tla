---------------------------- MODULE ManagedBlock ----------------------------
(***************************************************************************)
(* The text of a host instruction file and the managed block inside it:    *)
(* what analyze_managed_block tells of a text, which texts sync-context    *)
(* refuses, and what it writes in the place of the others.                 *)
(***************************************************************************)
CONSTANTS
  Glossaries,       \* versions of glossary.json a save may publish
  Unrenderable,     \* those whose brief contains reserved marker text
  Outsides,         \* hand-written text around the managed block
  Empty,            \* the outside text of a file that does not exist yet
  Forms,            \* shapes the managed block can have, a subset of AllForms
  Kinds,            \* what may sit in the target's place: "file", "link", "other"
  Data,             \* what bytes may be: "text", "binary", "oversize"
  Modes,            \* permission bits
  DefaultMode,      \* 0o644, the mode a created target gets
  None

(***************************************************************************)
(* The shapes analyze_managed_block tells apart.  "none": no marker at     *)
(* all.  "ambiguous": markers unmatched, duplicated or malformed, so there *)
(* is no replacement range.  "rendered": what render_block writes.         *)
(* "altered": the body no longer has the declared content hash.            *)
(* "restamped": the hash was recomputed over an altered body.  "older" and *)
(* "newer": an intact body of another format version.                      *)
(***************************************************************************)
AllForms ==
  {"none", "ambiguous", "rendered", "altered", "restamped", "older", "newer"}

ASSUME BlockAssumption ==
  /\ Unrenderable \subseteq Glossaries
  /\ Empty \in Outsides
  /\ {"none", "rendered"} \subseteq Forms
  /\ Forms \subseteq AllForms
  /\ "file" \in Kinds /\ Kinds \subseteq {"file", "link", "other"}
  /\ "text" \in Data /\ Data \subseteq {"text", "binary", "oversize"}
  /\ DefaultMode \in Modes
  /\ None \notin Glossaries

(***************************************************************************)
(* Data.                                                                   *)
(***************************************************************************)
\* A form without a readable glossary stamp carries None, and nothing is
\* distinguished inside bytes that do not decode or exceed the cap.
WellFormed(c) ==
  /\ c.glossary = None <=> c.form \in {"none", "ambiguous"}
  /\ c.data # "text" => c.outside = Empty /\ c.form = "none"

Contents ==
  {c \in [data: Data, outside: Outsides,
          form: Forms, glossary: Glossaries \cup {None}] : WellFormed(c)}

ASSUME NoneAssumption == None \notin Contents

\* A file somebody else owns: what Elsewhere holds, and filler for anything
\* that is not a regular file.
ForeignContent ==
  [data |-> "text", outside |-> Empty, form |-> "none", glossary |-> None]

File ==
  {f \in [kind: Kinds, content: Contents, mode: Modes] :
     f.kind # "file" => f.content = ForeignContent /\ f.mode = DefaultMode}

Outcomes ==
  {"none", "created", "appended", "updated", "repaired", "current", "refused"}

(***************************************************************************)
(* analyze_managed_block: the tests in the order the code makes them.      *)
(***************************************************************************)
Status(c, g) ==
  CASE c.form = "none"                                -> "absent"
    [] c.form = "ambiguous"                           -> "collision"
    [] c.form \in {"altered", "newer"}                -> "edited"
    [] c.form = "older" \/ (c.form \in {"rendered", "restamped"}
                              /\ c.glossary # g)      -> "stale"
    [] OTHER -> IF c.form = "restamped" \/ g \in Unrenderable
                  THEN "edited" ELSE "current"

\* An absent target is analysed as the empty text.
StatusOf(c, g) == IF c = None THEN "absent" ELSE Status(c, g)

\* Variant: --force is taken to cover ambiguous markers too.
Refuses_ForceCoversAll(c, g, force) ==
  \/ c # None /\ c.data = "binary"
  \/ g \in Unrenderable
  \/ StatusOf(c, g) \in {"collision", "edited"} /\ ~force

\* Whether sync_context stops with an error before writing.
Refuses(c, g, force) ==
  \/ c # None /\ c.data = "binary"
  \/ g \in Unrenderable
  \/ StatusOf(c, g) = "collision"
  \/ StatusOf(c, g) = "edited" /\ ~force

\* The outcome reported when the replacement succeeds.
OutcomeOf(c, g) ==
  IF c = None THEN "created"
  ELSE CASE StatusOf(c, g) = "absent"  -> "appended"
         [] StatusOf(c, g) = "edited"  -> "repaired"
         [] OTHER                      -> "updated"

\* Variant: the replacement range runs to the end of the file.
Spliced_DropsTail(c, g) ==
  [data |-> "text", outside |-> Empty, form |-> "rendered", glossary |-> g]

\* The text written: the block of glossary g in place of the old one or
\* after the existing text, everything outside the block kept.
Spliced(c, g) ==
  [data |-> "text", outside |-> IF c = None THEN Empty ELSE c.outside,
   form |-> "rendered", glossary |-> g]
=============================================================================
