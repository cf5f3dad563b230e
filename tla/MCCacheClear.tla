---------------------------- MODULE MCCacheClear ----------------------------
(* Instances of CacheClear small enough for TLC.                           *)
EXTENDS CacheClear, FiniteSets, TLC

CONSTANT Second   \* the writers that stand still while others meddle

VARIABLE company  \* whom clear_cache meets

\* Either two scans, or one with other programs and failures.
Met ==
  IF company = "scans" THEN foreign = 0 /\ ~clear.faulted
  ELSE \A w \in Second : scan[w].pc = "idle"

MCSpec ==
  /\ company \in {"scans", "others"} /\ Init
  /\ [][UNCHANGED company /\ Next /\ Met']_<<vars, company>>

\* The repository of a scan that is not saving is never read again, and
\* "alone" matters to OwnLayoutIsCleared only.
Saving == [w \in Writers |-> IF scan[w].pc \in {"idle", "crashed"}
                               THEN <<scan[w].pc>> ELSE <<scan[w].pc, scan[w].repo>>]

View == <<home, beside, [clear EXCEPT !.alone = TRUE], Saving, foreign, company>>

\* Identities are interchangeable.
Symmetry == Permutations(Ids)
=============================================================================
