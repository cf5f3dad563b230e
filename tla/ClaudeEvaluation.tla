-------------------------- MODULE ClaudeEvaluation --------------------------
(***************************************************************************)
(* The Claude evaluation lane: `claude_eval.py --run`.                     *)
(*                                                                         *)
(* A run makes a scratch directory under a shared parent, makes its calls  *)
(* in it, removes exactly that directory, and retains one attempt record   *)
(* with a write-once raw result.  Other programs may, between any two of   *)
(* its calls, move the parent or the scratch away, put another directory   *)
(* in its place, or copy its contents; a run may fail or be killed between *)
(* any two steps, two may overlap, and the tree they evaluate is edited.   *)
(***************************************************************************)
EXTENDS EvaluationLane

CONSTANTS
  Foreign,     \* directories of other programs
  MaxSwaps     \* bound: changes other programs make to the scratch area

Parents == {"requested", "other"}

\* The directory a run makes is named for the run.
Directories == Runs \cup Foreign

\* What the calls of a run come to: as expected; a wrong answer; a model tool
\* used; the fixture written; a tool used behind a trace that cannot be parsed.
Happenings == {"right", "wrong", "tools", "wrote", "unread"}

\* The documents: a raw result and one record.
ClaudeResults ==
  [run: Runs, inputs: Trees, cleanup: BOOLEAN, happened: Happenings \cup {"none"}]

ClaudeAttempts ==
  [id: Runs, outcome: {"completed", "aborted"}, procedural: BOOLEAN, tools: BOOLEAN,
   writes: BOOLEAN, temporary: BOOLEAN, safety_pass: BOOLEAN, cleanup: BOOLEAN,
   raw: ClaudeResults \cup {None}, output: Outputs \cup {None}]

ASSUME ClaudeAssumption ==
  /\ MaxSwaps \in Nat
  /\ Foreign \cap Runs = {} /\ None \notin Directories
  /\ None \notin ClaudeResults

VARIABLES
  parent,           \* the directory the scratch parent's path denotes
  entry,            \* of each such directory, what stands under each run's scratch name
  token,            \* of each directory, the run whose token its marker holds, or None
  swaps,            \* how many changes other programs made
  removed,          \* the directories runs deleted, with who did
  claude_attempts,  \* the attempts of the Claude history
  current,          \* the current result, or None
  claude            \* the local variables of each invocation

area == <<parent, entry, token, swaps, removed>>
documents == <<claude_attempts, raws, current>>
claude_vars == <<area, tree, documents, claude>>

NotBegun ==
  [pc |-> "idle", output |-> None, used |-> None, parent_identity |-> None,
   happened |-> "none", error |-> FALSE, cleanup |-> FALSE, late |-> FALSE,
   result |-> None, read |-> <<>>]

In(c, location) == claude[c].pc = location
Set(c, r) == claude' = [claude EXCEPT ![c] = r]
To(c, location) == [claude[c] EXCEPT !.pc = location]

\* Of an invocation that is over only what the properties speak of is kept.
Finish(c) ==
  [NotBegun EXCEPT !.pc = "ended", !.used = claude[c].used, !.happened = claude[c].happened,
                   !.late = claude[c].late]
Forget(c) == [NotBegun EXCEPT !.pc = "ended", !.late = claude[c].late]

Underway == {c \in Runs : claude[c].pc \notin {"idle", "ended"}}
Just(c, r) == Set(c, r) /\ UNCHANGED <<area, tree, documents>>

\* AbortedRun: what aborts a run outside its lifecycle claims a clean scratch.
Quit(c, cleaned) == [To(c, "read") EXCEPT !.error = TRUE, !.cleanup = cleaned]

(***************************************************************************)
(* The scratch directory: owned_scratch, anchored at an open parent.       *)
(***************************************************************************)
validated_output(output) == raws[output] = None

\* The manifest, the schema and the installed plugin are read by preflight.
Start(c) ==
  /\ In(c, "idle")
  /\ \E output \in Outputs :
       /\ validated_output(output)
       /\ Just(c, [To(c, "inspect") EXCEPT !.output = output, !.used = tree])

InspectParent(c) ==
  /\ In(c, "inspect")
  /\ \/ Just(c, Quit(c, TRUE))
     \/ Just(c, [To(c, "make") EXCEPT !.parent_identity = parent])

\* The parent is opened, and must be the directory inspected; the directory is
\* made in what was opened.
MakeDirectory(c) ==
  /\ In(c, "make")
  /\ \/ Just(c, Quit(c, TRUE))
     \/ /\ parent = claude[c].parent_identity
        /\ entry' = [entry EXCEPT ![parent][c] = c]
        /\ Set(c, To(c, "mark"))
        /\ UNCHANGED <<parent, token, swaps, removed, tree, documents>>

\* The marker is written through the open directory, then the parent's path must
\* still denote it.  Otherwise the marker and the directory are taken back, but
\* only if the name still leads to the directory made.
Mark(c) ==
  LET made == claude[c].parent_identity
      undone == IF entry[made][c] = c THEN [entry EXCEPT ![made][c] = None] ELSE entry
  IN /\ In(c, "mark")
     /\ UNCHANGED <<parent, swaps, removed, tree, documents>>
     /\ \/ /\ parent = made
           /\ token' = [token EXCEPT ![c] = c]
           /\ Set(c, To(c, "calls"))
           /\ UNCHANGED entry
        \/ entry' \in {entry, undone} /\ UNCHANGED token /\ Set(c, Quit(c, TRUE))

Calls(c) ==
  /\ In(c, "calls")
  /\ \/ Just(c, [To(c, "check_parent") EXCEPT !.error = TRUE])
     \/ \E h \in Happenings : Just(c, [To(c, "check_parent") EXCEPT !.happened = h])

(***************************************************************************)
(* remove_owned_scratch: the parent, the directory and its marker are      *)
(* compared before anything is deleted.                                    *)
(***************************************************************************)
root(c) == entry[parent][c]

Refuse(c) == Just(c, Quit(c, FALSE))
Removed(c) ==
  IF claude[c].error THEN Quit(c, TRUE) ELSE [To(c, "result") EXCEPT !.cleanup = TRUE]

CheckParent(c) ==
  /\ In(c, "check_parent")
  /\ \/ Refuse(c)
     \/ parent = claude[c].parent_identity /\ Just(c, To(c, "check_root"))

CheckRoot(c) ==
  /\ In(c, "check_root")
  /\ \/ Refuse(c)
     \/ root(c) = None /\ Just(c, Removed(c))
     \/ root(c) = c /\ Just(c, To(c, "check_marker"))

\* Variant: any marker will do.
CheckMarker_Any(c) ==
  /\ In(c, "check_marker")
  /\ Refuse(c) \/ (root(c) # None /\ Just(c, To(c, "remove")))

CheckMarker(c) ==
  /\ In(c, "check_marker")
  /\ \/ Refuse(c)
     \/ root(c) # None /\ token[root(c)] = c /\ Just(c, To(c, "remove"))

\* rmtree, which may fail part-way; then the name must lead nowhere.
RemoveTree(c) ==
  /\ In(c, "remove")
  /\ \/ Refuse(c)
     \/ /\ root(c) # None
        /\ removed' = removed \cup {<<c, root(c)>>}
        /\ entry' = [entry EXCEPT ![parent][c] = None]
        /\ Set(c, Removed(c))
        /\ UNCHANGED <<parent, token, swaps, tree, documents>>

(***************************************************************************)
(* The evidence.                                                           *)
(***************************************************************************)
\* Variant: a trace that cannot be parsed does not fail a scenario.
passed_Unread(r) == r.happened \in {"right", "unread"}

\* The judge sees the tools of a trace it can parse.
passed(r) == r.happened = "right"

no_model_tools(r) == r.happened # "tools"
no_fixture_writes(r) == r.happened # "wrote"

attempt_from_run(c, r, output) ==
  [id |-> c, outcome |-> "completed", procedural |-> passed(r),
   tools |-> no_model_tools(r), writes |-> no_fixture_writes(r),
   temporary |-> r.cleanup,
   safety_pass |-> no_model_tools(r) /\ no_fixture_writes(r) /\ r.cleanup,
   cleanup |-> r.cleanup, raw |-> r, output |-> output]

attempt_from_failure(c) ==
  [id |-> c, outcome |-> "aborted", procedural |-> FALSE,
   tools |-> TRUE, writes |-> TRUE, temporary |-> claude[c].cleanup,
   safety_pass |-> claude[c].cleanup, cleanup |-> claude[c].cleanup, raw |-> None,
   output |-> None]

\* The result is made, with the identity of its inputs, after the calls.
MakeResult(c) ==
  /\ In(c, "result")
  /\ \/ Just(c, Quit(c, TRUE))
     \/ Just(c, [To(c, "link") EXCEPT
                   !.result = [run |-> c, inputs |-> tree, cleanup |-> claude[c].cleanup,
                               happened |-> claude[c].happened]])

\* Variant: the result replaces whatever has its name.
RetainResult_Replaces(c) ==
  /\ In(c, "link")
  /\ raws' = [raws EXCEPT ![claude[c].output] = claude[c].result]
  /\ Set(c, To(c, "read"))
  /\ UNCHANGED <<area, tree, claude_attempts, current>>

\* write_new_json: a link, which fails if the name was taken meanwhile.
RetainResult(c) ==
  /\ In(c, "link")
  /\ \/ Just(c, Quit(c, TRUE))
     \/ /\ raws[claude[c].output] = None
        /\ raws' = [raws EXCEPT ![claude[c].output] = claude[c].result]
        /\ Set(c, To(c, "read"))
        /\ UNCHANGED <<area, tree, claude_attempts, current>>

claude_record(c) ==
  IF claude[c].error THEN attempt_from_failure(c)
  ELSE attempt_from_run(c, claude[c].result, claude[c].output)

ReadAttempts(c) ==
  /\ In(c, "read")
  /\ \/ Just(c, [To(c, "append") EXCEPT !.read = claude_attempts])
     \/ Just(c, Forget(c))

WriteAttempts(c) ==
  /\ In(c, "append")
  /\ \/ Just(c, Forget(c))
     \/ /\ claude_attempts' = Append(claude[c].read, claude_record(c))
        /\ Set(c, IF claude[c].error THEN Finish(c) ELSE To(c, "promote"))
        /\ UNCHANGED <<area, tree, raws, current>>

promote_current(c) ==
  /\ In(c, "promote")
  /\ Set(c, Finish(c))
  /\ current' \in {current, raws[claude[c].output]}
  /\ UNCHANGED <<area, tree, claude_attempts, raws>>

(***************************************************************************)
(* The surroundings, and the whole.                                        *)
(***************************************************************************)
Die(c) ==
  c \in Underway /\ Just(c, IF In(c, "promote") THEN Finish(c) ELSE Forget(c))

\* A run past its last comparison acts on what it compared; the marker, compared
\* last, does not tell a copy from the directory compared before.
Surprise ==
  LET copy(c) == LET d == entry'[parent'][c] IN d \in Foreign /\ token'[d] = c
  IN claude' = [c \in Runs |->
                  [claude[c] EXCEPT !.late = \/ @ \/ In(c, "remove")
                                             \/ In(c, "check_marker") /\ copy(c)]]

SwapParent ==
  /\ swaps < MaxSwaps /\ swaps' = swaps + 1
  /\ parent' \in Parents \ {parent}
  /\ UNCHANGED <<entry, token, removed, tree, documents>>
  /\ Surprise

\* The scratch is moved away, or a directory of another program takes its name;
\* that directory may hold a copy of the scratch's marker.
SwapEntry ==
  /\ swaps < MaxSwaps /\ swaps' = swaps + 1
  /\ \E p \in Parents, c \in Runs, d \in Foreign \cup {None} :
       /\ d # None => \A q \in Parents, r \in Runs : entry[q][r] # d
       /\ entry' = [entry EXCEPT ![p][c] = d]
       /\ IF d = None THEN UNCHANGED token
          ELSE token' \in {[token EXCEPT ![d] = t] : t \in {None, token[c]}}
  /\ UNCHANGED <<parent, removed, tree, documents>>
  /\ Surprise

EditInputs ==
  /\ tree' \in Trees \ {tree} /\ UNCHANGED <<area, documents, claude>>

ClaudeInit ==
  /\ parent = "requested" /\ swaps = 0 /\ removed = {} /\ tree \in Trees
  /\ entry = [p \in Parents |-> [c \in Runs |-> None]]
  /\ token = [d \in Directories |-> None]
  /\ claude_attempts = <<>> /\ current = None
  /\ raws = [o \in Outputs |-> None]
  /\ claude = [c \in Runs |-> NotBegun]

ClaudeStep(c) ==
  \/ Start(c) \/ InspectParent(c) \/ MakeDirectory(c) \/ Mark(c) \/ Calls(c)
  \/ CheckParent(c) \/ CheckRoot(c) \/ CheckMarker(c) \/ RemoveTree(c)
  \/ MakeResult(c) \/ RetainResult(c) \/ ReadAttempts(c) \/ WriteAttempts(c)
  \/ promote_current(c) \/ Die(c)

ClaudeNext == SwapParent \/ SwapEntry \/ EditInputs \/ \E c \in Runs : ClaudeStep(c)

ClaudeSpec == ClaudeInit /\ [][ClaudeNext]_claude_vars

(***************************************************************************)
(* What --verify-history and --verify-results accept.                      *)
(***************************************************************************)
claude_attempt_errors(a) ==
  \/ (a.raw = None) # (a.outcome = "aborted")
  \/ /\ a.raw # None
     /\ \/ raws[a.output] # a.raw
        \/ a # attempt_from_run(a.id, raws[a.output], a.output)
  \/ a.safety_pass # (a.tools /\ a.writes /\ a.temporary)

verify_history ==
  /\ \A i, j \in DOMAIN claude_attempts :
       claude_attempts[i].id = claude_attempts[j].id => i = j
  /\ \A i \in DOMAIN claude_attempts : ~claude_attempt_errors(claude_attempts[i])

verify_claude_results(now) ==
  /\ current # None
  /\ now => current.inputs = tree
  /\ passed(current) /\ current.cleanup
  /\ verify_history
  /\ current \in {claude_attempts[i].raw : i \in DOMAIN claude_attempts}

(***************************************************************************)
(* Properties.                                                             *)
(***************************************************************************)
\* A run deletes no directory but the one it made, whatever other programs put
\* under its name or its parent's, unless they did so after the last comparison,
\* or put a copy there after the directory itself was compared.  A record that
\* says the scratch was removed is right: it is not under the name it was given,
\* unless other programs interfered or the run never had one.
ScratchTrue ==
  /\ \A r \in removed : r[1] = r[2] \/ claude[r[1]].late
  /\ \A i \in DOMAIN claude_attempts :
       LET a == claude_attempts[i] IN
       a.cleanup /\ a.outcome = "completed" /\ swaps = 0 => entry[parent][a.id] = None

\* The lane accepts what it wrote: each record agrees with its raw result, even
\* when two runs that named one output overlap.
ClaudeRecordsVerify == verify_history

\* A result that verifies is of a run that used no tool and wrote no fixture,
\* though a trace that cannot be parsed shows no tool.
AcceptedIsClean ==
  verify_claude_results(FALSE) => claude[current.run].happened = "right"

\* When the result is current, what the run used is what is in the tree now.
CurrentMeansUsed == verify_claude_results(TRUE) => claude[current.run].used = tree
=============================================================================
