-------------------------------- MODULE Brief --------------------------------
(***************************************************************************)
(* _render_brief: the canonical concepts of a glossary as text of at most  *)
(* MaxBriefBytes, for an agent's context or a managed block.  Entries are  *)
(* rendered in order while there is room; each is cut to the bytes left to *)
(* it, once the footer that states the coverage has been reserved.         *)
(*                                                                         *)
(* An entry is the bytes it takes when nothing is cut; a header and the    *)
(* words of the footer are sizes too.  The footer's size depends on the    *)
(* digits of the counts it states and on the word true or false.           *)
(***************************************************************************)
EXTENDS Integers, Sequences, FiniteSets

CONSTANTS
  Briefs,             \* [header, entries]: bytes of the header and of each canonical concept
  MaxBriefBytes, MaxEntryBytes, MinEntryBytes,
  FooterWords,        \* bytes of the footer without its numbers and without true or false
  Marker              \* bytes of the ellipsis that ends what was cut

ASSUME BriefAssumption ==
  /\ Briefs \subseteq [header: Nat, entries: Seq(Nat \ {0})]
  /\ \A b \in Briefs : Len(b.entries) <= 10000          \* MAX_GLOSSARY_CONCEPTS
  /\ {MaxBriefBytes, MaxEntryBytes, MinEntryBytes, FooterWords, Marker} \subseteq Nat
  /\ Marker + 4 < MinEntryBytes /\ MinEntryBytes <= MaxEntryBytes

VARIABLES
  brief,          \* what is to be rendered
  body,           \* the bytes of each entry rendered
  body_bytes,     \* of all of them
  entries_truncated,
  ended           \* how it ended, or "rendering"

rendered == <<body, body_bytes, entries_truncated>>
briefVars == <<brief, rendered, ended>>

included == Len(body)

\* Decimal digits, of the counts a glossary can have.
Digits(n) ==
  IF n < 10 THEN 1 ELSE IF n < 100 THEN 2 ELSE IF n < 1000 THEN 3 ELSE IF n < 10000 THEN 4 ELSE 5

\* Variant: the claim looks at the entries left out, not at those cut.
claims_complete_AnyEntry(shown, truncated) == shown = Len(brief.entries)

claims_complete(shown, truncated) == shown = Len(brief.entries) /\ truncated = 0

\* _coverage_line
coverage_line(shown, truncated) ==
  LET total == Len(brief.entries) IN
  FooterWords + (IF claims_complete(shown, truncated) THEN 4 ELSE 5)
    + Digits(shown) + Digits(total) + Digits(total - shown) + Digits(truncated)

(***************************************************************************)
(* Rendering.                                                              *)
(***************************************************************************)
\* _truncate_utf8 keeps whole characters: up to three more bytes are lost.
_render_entry(bytes, limit) ==
  IF bytes <= limit - 1 THEN {[bytes |-> bytes + 1, cut |-> FALSE]}
  ELSE [bytes: (limit - 3)..limit, cut: {TRUE}]

available ==
  MaxBriefBytes - brief.header - body_bytes - coverage_line(included + 1, entries_truncated + 1)

entry_limit == IF available < MaxEntryBytes THEN available ELSE MaxEntryBytes

Rendering == ended = "rendering"
More == Rendering /\ included < Len(brief.entries)

\* Header, body and footer.
Size(bytes, shown, truncated) == brief.header + bytes + coverage_line(shown, truncated)
Room == Size(0, 0, 0) <= MaxBriefBytes

\* The metadata alone does not fit.
RefuseMetadata ==
  /\ Rendering /\ body = <<>> /\ ~Room
  /\ ended' = "no metadata" /\ UNCHANGED <<brief, rendered>>

\* One turn of the loop: an entry is taken, or the loop ends at it.
RenderEntry ==
  /\ More /\ Room /\ entry_limit >= MinEntryBytes
  /\ \E e \in _render_entry(brief.entries[included + 1], entry_limit) :
       LET next_truncated == entries_truncated + (IF e.cut THEN 1 ELSE 0) IN
       IF Size(body_bytes + e.bytes, included + 1, next_truncated) <= MaxBriefBytes
         THEN /\ body' = Append(body, e.bytes)
              /\ body_bytes' = body_bytes + e.bytes
              /\ entries_truncated' = next_truncated
              /\ UNCHANGED ended
         ELSE ended' = "stopped" /\ UNCHANGED rendered
  /\ UNCHANGED brief

StopRendering ==
  /\ Rendering /\ Room
  /\ included = Len(brief.entries) \/ entry_limit < MinEntryBytes
  /\ ended' = "stopped" /\ UNCHANGED <<brief, rendered>>

EmitBrief ==
  /\ ended = "stopped"
  /\ ended' = IF Size(body_bytes, included, entries_truncated) > MaxBriefBytes
                THEN "too long" ELSE "emitted"
  /\ UNCHANGED <<brief, rendered>>

BriefStart ==
  body = <<>> /\ body_bytes = 0 /\ entries_truncated = 0 /\ ended = "rendering"

BriefInit == brief \in Briefs /\ BriefStart

BriefNext == RefuseMetadata \/ RenderEntry \/ StopRendering \/ EmitBrief

BriefSpec == BriefInit /\ [][BriefNext]_briefVars

(***************************************************************************)
(* Properties.                                                             *)
(***************************************************************************)
\* An entry takes the bytes of its concept and the end of its line.
Unabridged(i) == body[i] = brief.entries[i] + 1

\* A glossary whose header fits always has a brief, within the limit: what the
\* footer states of the entries never pushes it over ("Reserve the largest
\* footer this entry can require"), so the managed block can be written.  The
\* brief claims to be complete only when every canonical concept is in it,
\* uncut, counts as cut every entry that is not whole, and leaves none out
\* while there is room for a cut one (two digits may be reserved in vain).
BriefTrue ==
  LET size == Size(body_bytes, included, entries_truncated) IN
  /\ ended # "too long"
  /\ ended = "emitted" =>
       /\ size <= MaxBriefBytes
       /\ included < Len(brief.entries) => MaxBriefBytes - size < MinEntryBytes + 2
       /\ claims_complete(included, entries_truncated) <=>
            included = Len(brief.entries) /\ \A i \in DOMAIN body : Unabridged(i)
       /\ entries_truncated = Cardinality({i \in DOMAIN body : ~Unabridged(i)})
=============================================================================
