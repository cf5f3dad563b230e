---------------------------- MODULE ManagedFile ----------------------------
(***************************************************************************)
(* What sync-context promises of a host instruction file that others edit  *)
(* at the same time.  A run takes a second look at the file and then, in   *)
(* one step, puts its block into exactly the file that is there and tells  *)
(* what it did, or it leaves the file alone and says so.  Only a change    *)
(* that comes after the second look has begun can escape it.               *)
(***************************************************************************)
EXTENDS ManagedBlock

CONSTANTS
  Procs,      \* concurrent runs of the command
  ForceChoices

VARIABLES
  saved,      \* the published glossary
  target,     \* what the file's name leads to, or None
  stage,      \* of each run: "out", "planning", or "looking" once more
  known,      \* the glossary each run has loaded
  force,      \* the runs that were given --force
  told,       \* the outcome each run told last
  late        \* looking runs that a change of the file may have escaped

run == <<stage, known, force, told>>

\* A file under a name that is exactly the target's, or only folds to it.
Targets == [kind: Kinds, content: Contents, mode: Modes, exact: BOOLEAN]

Looking == {p \in Procs : stage[p] = "looking"}

Init ==
  /\ saved \in Glossaries /\ target = None /\ late = {}
  /\ stage = [p \in Procs |-> "out"] /\ known = [p \in Procs |-> saved]
  /\ force = [p \in Procs |-> FALSE] /\ told = [p \in Procs |-> "none"]

Save == saved' \in Glossaries /\ UNCHANGED <<target, run, late>>

\* Others do to the file what they like.
Change ==
  /\ target' \in Targets \cup {None}
  /\ late \subseteq late' /\ late' \subseteq late \cup Looking
  /\ UNCHANGED <<saved, run>>

Begin(p) ==
  /\ stage[p] = "out" /\ stage' = [stage EXCEPT ![p] = "planning"]
  /\ known' = [known EXCEPT ![p] = saved]
  /\ \E f \in ForceChoices : force' = [force EXCEPT ![p] = f]
  /\ told' = [told EXCEPT ![p] = "none"]
  /\ UNCHANGED <<saved, target, late>>

LookAgain(p) ==
  /\ stage[p] = "planning" /\ stage' = [stage EXCEPT ![p] = "looking"]
  /\ UNCHANGED <<saved, target, known, force, told, late>>

\* A run is over and tells o.
Tells(p, o) ==
  /\ stage' = [stage EXCEPT ![p] = "out"]
  /\ force' = [force EXCEPT ![p] = FALSE]
  /\ told' = [told EXCEPT ![p] = o]
  /\ UNCHANGED <<saved, known>>

\* It leaves the file alone: there is nothing to do, or it gives up.
Leave(p) ==
  /\ \/ stage[p] = "planning" /\ Tells(p, "current")
     \/ stage[p] # "out" /\ Tells(p, "refused")
     \/ Tells(p, "none")             \* it is killed
  /\ late' = late \ {p} /\ UNCHANGED target

\* What a run may have seen: nothing, or a text.
Seen == {None} \cup {c \in Contents : c.data = "text"}

\* The text c stands under the exact name, in a file of mode m, or nothing does.
Stands(c, m) ==
  target = IF c = None THEN None
           ELSE [kind |-> "file", content |-> c, mode |-> m, exact |-> TRUE]

\* It puts its block into what it saw, which is what stands there unless a
\* change escaped it, and tells what it did.
Commit(p) ==
  /\ stage[p] = "looking"
  /\ \E c \in Seen, m \in Modes, b \in BOOLEAN :
       /\ c = None => m = DefaultMode
       /\ p \notin late => Stands(c, m)
       /\ ~Refuses(c, known[p], force[p]) /\ StatusOf(c, known[p]) # "current"
       /\ target' =
            [kind |-> "file", content |-> Spliced(c, known[p]), mode |-> m, exact |-> b]
       /\ Tells(p, OutcomeOf(c, known[p]))
  /\ late \ {p} \subseteq late' /\ late' \subseteq (late \cup Looking) \ {p}

Next ==
  \/ Save \/ Change
  \/ \E p \in Procs : Begin(p) \/ LookAgain(p) \/ Leave(p) \/ Commit(p)

Spec == Init /\ [][Next]_<<saved, target, run, late>>
=============================================================================
