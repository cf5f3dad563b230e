---------------------------- MODULE AttemptLedger ----------------------------
(***************************************************************************)
(* What the evaluation lanes promise about their evidence, whatever a host *)
(* does to a run: attempts are only ever appended, one per identifier, and *)
(* what is published as the current result is the retained raw result of   *)
(* an attempt already in the ledger.                                       *)
(***************************************************************************)
EXTENDS Naturals, Sequences

CONSTANT None

VARIABLES
  attempts,    \* the records of the history file, oldest first: id, raw, ...
  current      \* the content of the current result, or None

Ids == {attempts[i].id : i \in DOMAIN attempts}

Retained == {attempts[i].raw : i \in DOMAIN attempts} \ {None}

Init == attempts = <<>> /\ current = None

\* An attempt is retained, whatever its outcome.
Retain ==
  /\ Len(attempts') = Len(attempts) + 1
  /\ \A i \in DOMAIN attempts : attempts'[i] = attempts[i]
  /\ attempts'[Len(attempts')].id \notin Ids
  /\ UNCHANGED current

\* A retained raw result becomes the current one.
Publish ==
  \E r \in Retained : current' = r /\ UNCHANGED attempts

Next == Retain \/ Publish

Spec == Init /\ [][Next]_<<attempts, current>>
=============================================================================
