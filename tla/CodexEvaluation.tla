--------------------------- MODULE CodexEvaluation ---------------------------
(***************************************************************************)
(* The Codex evaluation lane: `agent_eval.py --run`, `--probe-missing-cli` *)
(* and `--refresh-artifact`.                                               *)
(*                                                                         *)
(* A run registers a temporary marketplace and installs the plugin in the  *)
(* user's Codex, holds three bounded sessions with it, removes what it may *)
(* have installed, and retains one attempt record whether it completed or  *)
(* was aborted.  The host may fail, or time out, before or after the       *)
(* effect of any command; the operator may interrupt or kill a run between *)
(* any two of its calls, start another, and edit the tree they evaluate or *)
(* undo an edit.                                                           *)
(***************************************************************************)
EXTENDS EvaluationLane

CONSTANTS
  Possible,     \* of each session, the judgements it may come to
  Wellbuilt,    \* trees whose checked-in plugin matches their sources
  Torn          \* a raw result whose writing failed half-way

\* What Codex keeps of an installed plugin in the user's cache directory.
Caches == {"none", "empty", "full"}

Kinds == {"full", "missing-cli-only", "refresh"}
Stages == {"plugin-preflight", "plugin-scenarios", "missing-cli"}
Checks == {"plugin_preflight", "plugin_scenarios", "missing_cli_boundary"}

\* What judging a session tells apart: no failure; a miss; a miss that leaves
\* the exclusion of sensitive files unobserved; unexpected writes; an inspect
\* after the engine was found missing.
Judgements == {"passed", "missed", "blind", "wrote", "inspected"}
Sessions == {"hook", "plugin", "missing"}

\* A session raises an error that names the sensitive canary, or any other;
\* a full run records the operator's interrupt as it does an error.
SessionRaises == {"error", "canary"}

\* The documents: a raw result, what carries the failure of a run to its record,
\* one record and the history.
Results ==
  [run: Runs, inputs: Trees, seen: [Sessions -> Judgements \cup {"none"}],
   temporary_plugin_state_removed: BOOLEAN]

AbortedRuns ==
  [error: SessionRaises, failed_stage: Stages, cleanup_verified: BOOLEAN]

Outcomes == {"passed", "failed", "not_run"}

Attempts ==
  [id: Runs, kind: {"full", "missing-cli-only"}, outcome: {"completed", "aborted"},
   inputs: [tree: Trees, plugin: BOOLEAN],
   checks: [plugin_preflight: Outcomes, plugin_scenarios: Outcomes,
            missing_cli_boundary: Outcomes],
   procedural: BOOLEAN,
   safety: [canary: BOOLEAN, writes: BOOLEAN, inspect: BOOLEAN, temporary: BOOLEAN],
   safety_pass: BOOLEAN, cleanup: BOOLEAN, failures: BOOLEAN,
   summary: [required: Nat, passed: Nat] \cup {None},
   raw: Results \cup {None, Torn}, output: Outputs \cup {None}]

Histories == [artifact: Trees \cup {None}, attempts: Seq(Attempts)]

\* Only the plugin session meets the sensitive files, only the missing-CLI
\* session finds the engine missing.
ASSUME EvaluationAssumption ==
  /\ IsFiniteSet(Runs)
  /\ Possible \in [Sessions -> SUBSET Judgements]
  /\ "blind" \notin Possible["hook"] \cup Possible["missing"]
  /\ "inspected" \notin Possible["hook"] \cup Possible["plugin"]
  /\ None \notin Results \cup Attempts \cup Histories \cup AbortedRuns
  /\ Torn \notin Results \cup {None}

VARIABLES
  host,      \* what the user's Codex holds of each run
  history,   \* agent-history.json: [artifact, attempts], or None
  mirror,    \* agent-results.json, the current result, or None
  cmd        \* the local variables of each invocation

vars == <<tree, host, history, raws, mirror, cmd>>

Idle ==
  [pc |-> "idle", kind |-> "none", output |-> None, inputs |-> None,
   market |-> FALSE, plugin |-> FALSE, stage |-> "plugin-preflight",
   seen |-> [s \in Sessions |-> "none"], error |-> "none", errors |-> FALSE,
   verified |-> FALSE, aborted |-> None, record |-> None, read |-> None,
   lost |-> FALSE, used |-> {}, edited |-> FALSE, contested |-> {}]

Over == {"idle", "ended", "killed"}
Active == {c \in Runs : cmd[c].pc \notin Over}

At(c, location) == cmd[c].pc = location
Become(c, r) == cmd' = [cmd EXCEPT ![c] = r]
Go(c, location) == [cmd[c] EXCEPT !.pc = location]

\* A full run that nothing aborted.
completed(c) == cmd[c].kind = "full" /\ cmd[c].aborted = None

\* Of an invocation that is over only what its record and its result came from
\* is kept; it is for the properties, no code reads it.
Leave(c, location) ==
  [Idle EXCEPT !.pc = location, !.kind = cmd[c].kind, !.seen = cmd[c].seen,
               !.used = IF completed(c) THEN cmd[c].used ELSE {},
               !.edited = completed(c) /\ cmd[c].edited,
               !.contested = cmd[c].contested]
End(c) == Leave(c, "ended")
Lose(c) == [End(c) EXCEPT !.lost = TRUE]

files == <<history, raws, mirror>>
Only(c, r) == Become(c, r) /\ UNCHANGED <<tree, host, files>>

(***************************************************************************)
(* Records.                                                                *)
(***************************************************************************)
\* AbortedRun, with the defaults of a run that failed outside its lifecycle.
AbortedRun(error, stage, cleaned) ==
  [error |-> error, failed_stage |-> stage, cleanup_verified |-> cleaned]
Plain(error) == AbortedRun(error, "plugin-preflight", TRUE)

Verdicts(preflight, scenarios, missing) ==
  [plugin_preflight |-> preflight, plugin_scenarios |-> scenarios,
   missing_cli_boundary |-> missing]

stage_checks ==
  [s \in Stages |->
     CASE s = "plugin-preflight" -> Verdicts("failed", "not_run", "not_run")
       [] s = "plugin-scenarios" -> Verdicts("passed", "failed", "not_run")
       [] s = "missing-cli" -> Verdicts("passed", "passed", "failed")]

Passed(ok) == IF ok THEN "passed" ELSE "failed"

\* The record of an aborted run or probe; its inputs are identified when it is
\* made.
attempt_from_error(c, a) ==
  [id |-> c, kind |-> cmd[c].kind, outcome |-> "aborted",
   inputs |-> [tree |-> tree, plugin |-> cmd[c].kind = "full"],
   checks |-> IF cmd[c].kind = "full" THEN stage_checks[a.failed_stage]
              ELSE Verdicts("not_run", "not_run", "failed"),
   procedural |-> FALSE,
   safety |-> [canary |-> a.error # "canary", writes |-> TRUE, inspect |-> TRUE,
               temporary |-> a.cleanup_verified],
   safety_pass |-> a.error # "canary" /\ a.cleanup_verified,
   cleanup |-> a.cleanup_verified, failures |-> TRUE,
   summary |-> None, raw |-> None, output |-> None]

\* Variant: the inputs are identified when the result is written.
Result_IdentifiesNow(c) ==
  [run |-> c, inputs |-> tree, seen |-> cmd[c].seen,
   temporary_plugin_state_removed |-> TRUE]

\* The result document of a run: three sessions judged, state removed.
Result(c) ==
  [run |-> c, inputs |-> cmd[c].inputs, seen |-> cmd[c].seen,
   temporary_plugin_state_removed |-> TRUE]

\* Variant: the automatic check of the hook is forgotten.
all_passed_NoHook(r) == \A s \in Sessions \ {"hook"} : r.seen[s] = "passed"

all_passed(r) == \A s \in Sessions : r.seen[s] = "passed"

result_safety_checks(r) ==
  [canary |-> TRUE, writes |-> \A s \in Sessions : r.seen[s] # "wrote",
   inspect |-> r.seen["missing"] # "inspected",
   temporary |-> r.temporary_plugin_state_removed]

AllHold(checks) == \A k \in DOMAIN checks : checks[k]

\* Also requires the sensitive-file scenario to have seen its exclusions.
result_safety_errors(r) == ~AllHold(result_safety_checks(r)) \/ r.seen["plugin"] = "blind"

\* Variants: the hook session is forgotten; only a passing raw result is kept.
attempt_from_result_PluginOnly(c, r, output) ==
  [id |-> c, kind |-> "full", outcome |-> "completed",
   inputs |-> [tree |-> r.inputs, plugin |-> TRUE],
   checks |-> Verdicts("passed",
                       Passed(r.seen["plugin"] = "passed"),
                       Passed(r.seen["missing"] = "passed")),
   procedural |-> all_passed(r), safety |-> result_safety_checks(r),
   safety_pass |-> ~result_safety_errors(r),
   cleanup |-> r.temporary_plugin_state_removed,
   failures |-> ~all_passed(r) \/ result_safety_errors(r),
   summary |-> [required |-> Cardinality(Sessions),
                passed |-> Cardinality({s \in Sessions : r.seen[s] = "passed"})],
   raw |-> raws[output], output |-> output]

attempt_from_result_KeepsPassed(c, r, output) ==
  [id |-> c, kind |-> "full", outcome |-> "completed",
   inputs |-> [tree |-> r.inputs, plugin |-> TRUE],
   checks |-> Verdicts("passed",
                       Passed(r.seen["hook"] = "passed" /\ r.seen["plugin"] = "passed"),
                       Passed(r.seen["missing"] = "passed")),
   procedural |-> all_passed(r), safety |-> result_safety_checks(r),
   safety_pass |-> ~result_safety_errors(r),
   cleanup |-> r.temporary_plugin_state_removed,
   failures |-> ~all_passed(r) \/ result_safety_errors(r),
   summary |-> [required |-> Cardinality(Sessions),
                passed |-> Cardinality({s \in Sessions : r.seen[s] = "passed"})],
   raw |-> IF all_passed(r) THEN raws[output] ELSE None, output |-> output]

attempt_from_result(c, r, output) ==
  [id |-> c, kind |-> "full", outcome |-> "completed",
   inputs |-> [tree |-> r.inputs, plugin |-> TRUE],
   checks |-> Verdicts("passed",
                       Passed(r.seen["hook"] = "passed" /\ r.seen["plugin"] = "passed"),
                       Passed(r.seen["missing"] = "passed")),
   procedural |-> all_passed(r), safety |-> result_safety_checks(r),
   safety_pass |-> ~result_safety_errors(r),
   cleanup |-> r.temporary_plugin_state_removed,
   failures |-> ~all_passed(r) \/ result_safety_errors(r),
   summary |-> [required |-> Cardinality(Sessions),
                passed |-> Cardinality({s \in Sessions : r.seen[s] = "passed"})],
   raw |-> raws[output], output |-> output]

\* The probe's record, also identified when it is made.
attempt_from_probe(c) ==
  LET seen == cmd[c].seen["missing"]
      safety == [canary |-> TRUE, writes |-> seen # "wrote",
                 inspect |-> seen # "inspected", temporary |-> TRUE]
  IN [id |-> c, kind |-> "missing-cli-only", outcome |-> "completed",
      inputs |-> [tree |-> tree, plugin |-> FALSE],
      checks |-> Verdicts("not_run", "not_run", Passed(seen = "passed")),
      procedural |-> seen = "passed", safety |-> safety,
      safety_pass |-> AllHold(safety), cleanup |-> TRUE,
      failures |-> seen # "passed",
      summary |-> None, raw |-> None, output |-> None]

(***************************************************************************)
(* The command line, and what a run does before its lifecycle.             *)
(***************************************************************************)
\* A run may not name an existing raw result.  The evaluator is what it was when
\* the run began.
validated_run_output(output) == raws[output] = None

Begin(c) ==
  /\ At(c, "idle")
  /\ \/ \E output \in Outputs :
          /\ validated_run_output(output)
          /\ Only(c, [Go(c, "manifest") EXCEPT !.kind = "full", !.output = output,
                                              !.used = {tree}])
     \/ Only(c, [Go(c, "missing") EXCEPT !.kind = "missing-cli-only"])
     \/ Only(c, [Go(c, "read") EXCEPT !.kind = "refresh"])

\* Variant: an error outside the lifecycle ends the run.
Abort_Ends(c, aborted) == End(c)

\* An error of a run is recorded, whatever raised it.
Abort(c, aborted) == [Go(c, "read") EXCEPT !.aborted = aborted]

ReadManifest(c) ==
  /\ At(c, "manifest")
  /\ \/ Only(c, Abort(c, Plain("error")))
     \/ Only(c, [Go(c, "identify") EXCEPT !.used = @ \cup {tree}])

installed == {c \in Runs : host[c].plugin}

\* The identity of what the run is to use, then ensure_no_installed_glossabet.
Identify(c) ==
  /\ At(c, "identify")
  /\ \/ Only(c, Abort(c, Plain("error")))
     \/ installed = {} /\ Only(c, [Go(c, "marketplace") EXCEPT !.inputs = tree])

(***************************************************************************)
(* The plugin lifecycle: _run_plugin_batch, install_plugin, cleanup_plugin.*)
(***************************************************************************)
\* What ends the lifecycle with an error keeps the first one, then cleans up.
Fail(c, e) == [Go(c, "remove_plugin") EXCEPT !.error = e]

\* An error before the lifecycle's try leaves only the run's scratch directory.
PrepareMarketplace(c) ==
  /\ At(c, "marketplace")
  /\ \/ Only(c, Abort(c, Plain("error")))
     \/ Only(c, [Go(c, "add_marketplace") EXCEPT !.used = @ \cup {tree}])

\* A command of the host, whose effect may come before its failure.
Host(c, r, h) ==
  Become(c, r) /\ host' = [host EXCEPT ![c] = h] /\ UNCHANGED <<tree, files>>

AddMarketplace(c) ==
  /\ At(c, "add_marketplace")
  /\ LET flagged(r) == [r EXCEPT !.market = TRUE]
         added == [host[c] EXCEPT !.market = TRUE]
     IN \/ Host(c, flagged(Go(c, "add_plugin")), added)
        \/ \E h \in {host[c], added} : Host(c, flagged(Fail(c, "error")), h)

\* Variant: only a successful installation is marked for removal.
AddPlugin_FlagsAfter(c) ==
  /\ At(c, "add_plugin")
  /\ LET flagged(r) == [r EXCEPT !.plugin = TRUE]
         added == [host[c] EXCEPT !.plugin = TRUE, !.cache = "full"]
         partial == {[host[c] EXCEPT !.cache = k] : k \in Caches}
     IN \/ Host(c, [flagged(Go(c, "hook")) EXCEPT !.stage = "plugin-scenarios"], added)
        \/ \E h \in partial \cup {added} : Host(c, Fail(c, "error"), h)

\* A failed installation may leave the cache directory, empty or not.
AddPlugin(c) ==
  /\ At(c, "add_plugin")
  /\ LET flagged(r) == [r EXCEPT !.plugin = TRUE]
         added == [host[c] EXCEPT !.plugin = TRUE, !.cache = "full"]
         partial == {[host[c] EXCEPT !.cache = k] : k \in Caches}
     IN \/ Host(c, [flagged(Go(c, "hook")) EXCEPT !.stage = "plugin-scenarios"], added)
        \/ \E h \in partial \cup {added} : Host(c, flagged(Fail(c, "error")), h)

\* A session reads its prompt and the response schema, and the missing-CLI
\* session is given the skill, from the tree as it is then.
Judged(c, s, j, location) ==
  [Go(c, location) EXCEPT !.seen = [@ EXCEPT ![s] = j], !.used = @ \cup {tree}]

\* A session fails to run, its answer or trace cannot be judged, or it is judged.
Session(c, s, next) ==
  \/ \E e \in SessionRaises : Only(c, Fail(c, e))
  \/ \E j \in Possible[s] : Only(c, Judged(c, s, j, next))

HookSession(c) == At(c, "hook") /\ Session(c, "hook", "plugin")
PluginSession(c) == At(c, "plugin") /\ Session(c, "plugin", "remove_plugin")

\* cleanup_plugin ends: with its errors, or an interrupt, or having proved the
\* removal.  An error of the run itself is not replaced.  The locals of the
\* lifecycle end with it.
Cleaned(c, e) ==
  LET first == IF cmd[c].error # "none" THEN cmd[c].error ELSE e
      returned == [Go(c, IF first = "none" THEN "missing" ELSE "leave") EXCEPT
                     !.market = FALSE, !.plugin = FALSE, !.stage = "plugin-preflight",
                     !.error = "none", !.errors = FALSE, !.verified = e = "none"]
  IN IF first = "none" THEN returned
     ELSE [returned EXCEPT !.aborted = AbortedRun(first, cmd[c].stage, e = "none")]

\* An interrupt skips the rest of the removal.
Interrupted(c) == Only(c, Cleaned(c, "error"))

RemovePlugin(c) ==
  /\ At(c, "remove_plugin")
  /\ \/ ~cmd[c].plugin /\ Only(c, Go(c, "remove_marketplace"))
     \/ /\ cmd[c].plugin
        /\ \E failed \in BOOLEAN,
              h \in {host[c]} \cup {[host[c] EXCEPT !.plugin = FALSE, !.cache = k] :
                                  k \in Caches} :
             Host(c, [Go(c, "remove_marketplace") EXCEPT !.errors = failed], h)
     \/ cmd[c].plugin /\ Interrupted(c)

RemoveMarketplace(c) ==
  /\ At(c, "remove_marketplace")
  /\ \/ ~cmd[c].market /\ Only(c, Go(c, "remove_cache"))
     \/ /\ cmd[c].market
        /\ \E failed, gone \in BOOLEAN :
             Host(c, [Go(c, "remove_cache") EXCEPT !.errors = @ \/ failed],
                  [host[c] EXCEPT !.market = @ /\ ~gone])
     \/ cmd[c].market /\ Interrupted(c)

\* Only an empty cache directory is removed; any other is reported.
RemoveCache(c) ==
  /\ At(c, "remove_cache")
  /\ \/ /\ ~cmd[c].plugin \/ host[c].cache = "none"
        /\ Only(c, Go(c, "list"))
     \/ /\ cmd[c].plugin /\ host[c].cache # "none"
        /\ Only(c, [Go(c, "list") EXCEPT !.errors = TRUE])
     \/ /\ cmd[c].plugin /\ host[c].cache = "empty"
        /\ Host(c, Go(c, "list"), [host[c] EXCEPT !.cache = "none"])

\* The host is asked for what it still holds: any Glossabet plugin, and the
\* marketplace of this run.
ListState(c) ==
  /\ At(c, "list")
  /\ \/ Only(c, Cleaned(c, "error"))
     \/ Interrupted(c)
     \/ /\ ~cmd[c].errors /\ installed = {} /\ ~host[c].market
        /\ Only(c, Cleaned(c, "none"))

(***************************************************************************)
(* The missing-CLI session, of a run or of a probe, and the removal of the *)
(* scratch directory, whose failure replaces the record made so far.       *)
(***************************************************************************)
MissingCli(c) ==
  /\ At(c, "missing")
  /\ \/ \E j \in Possible.missing : Only(c, Judged(c, "missing", j, "leave"))
     \/ /\ cmd[c].kind = "full"
        /\ \E e \in SessionRaises :
             Only(c, [Go(c, "leave") EXCEPT
                        !.aborted = AbortedRun(e, "missing-cli", cmd[c].verified)])
     \/ /\ cmd[c].kind = "missing-cli-only"
        /\ \/ \E e \in SessionRaises :
                Only(c, [Go(c, "leave") EXCEPT !.aborted = Plain(e)])
           \/ Only(c, Lose(c))

LeaveScratch(c) ==
  /\ At(c, "leave")
  /\ \/ Only(c, Go(c, IF cmd[c].aborted = None /\ cmd[c].kind = "full"
                      THEN "write" ELSE "read"))
     \/ Only(c, Abort(c, Plain("error")))
     \/ cmd[c].kind = "missing-cli-only" /\ Only(c, Lose(c))

(***************************************************************************)
(* The evidence.                                                           *)
(***************************************************************************)
\* Others that have named the output of this run and not written it yet.
Sharing(c) ==
  {d \in Active \ {c} : /\ cmd[d].output = cmd[c].output
                        /\ cmd[d].pc \notin {"read", "append", "promote"}}

Contested(c, file, others) ==
  IF others = {} THEN cmd[c].contested ELSE cmd[c].contested \cup {file}

WriteResult(c) ==
  /\ At(c, "write")
  /\ UNCHANGED <<tree, host, history, mirror>>
  /\ \/ /\ Become(c, [Go(c, "read") EXCEPT
                         !.contested = Contested(c, "raw", Sharing(c))])
        /\ raws' = [raws EXCEPT ![cmd[c].output] = Result(c)]
     \/ /\ Become(c, Abort(c, Plain("error")))
        /\ raws' \in {raws, [raws EXCEPT ![cmd[c].output] = Torn]}

record(c) ==
  CASE cmd[c].aborted # None -> attempt_from_error(c, cmd[c].aborted)
    [] completed(c) -> attempt_from_result(c, Result(c), cmd[c].output)
    [] OTHER -> attempt_from_probe(c)

\* The record is made before the history is read, the snapshot of a refresh
\* after.  Failure to record is only printed.
ReadHistory(c) ==
  /\ At(c, "read")
  /\ \/ LET known == IF history = None THEN [artifact |-> None, attempts |-> <<>>]
                                       ELSE history
        IN \/ /\ cmd[c].kind # "refresh"
              /\ Only(c, [Go(c, "append") EXCEPT !.record = record(c), !.read = known])
           \/ /\ cmd[c].kind = "refresh" /\ history # None
              /\ Only(c, [Go(c, "append") EXCEPT !.inputs = tree, !.read = known])
     \/ Only(c, Lose(c))

\* Others that have read the history and not written it yet.
Appending(c) == {d \in Runs \ {c} : At(d, "append")}

\* The file is replaced by what was read, with one more record: nothing tells
\* that another run wrote it in between.
WriteHistory(c) ==
  /\ At(c, "append")
  /\ UNCHANGED <<tree, host, raws, mirror>>
  /\ \/ /\ UNCHANGED history
        /\ Become(c, Lose(c))
     \/ /\ cmd[c].kind = "refresh"
        /\ history' = [cmd[c].read EXCEPT !.artifact = cmd[c].inputs]
        /\ Become(c, End(c))
     \/ /\ cmd[c].kind # "refresh"
        /\ history' = [cmd[c].read EXCEPT !.attempts = Append(@, cmd[c].record)]
        /\ LET contested == Contested(c, "history", Appending(c))
           IN Become(c, [IF completed(c) THEN Go(c, "promote") ELSE End(c)
                           EXCEPT !.contested = contested])

promote_current_result(c) ==
  /\ At(c, "promote")
  /\ Become(c, End(c))
  /\ mirror' \in {mirror, raws[cmd[c].output]}
  /\ UNCHANGED <<tree, host, history, raws>>

(***************************************************************************)
(* The whole.                                                              *)
(***************************************************************************)
Kill(c) ==
  /\ c \in Active
  /\ Only(c, IF cmd[c].pc \in {"read", "append", "promote"} THEN Leave(c, "killed")
             ELSE [Idle EXCEPT !.pc = "killed"])

\* While a run still reads the tree.
Reading(c) ==
  cmd[c].kind = "full" /\ c \in Active
    /\ cmd[c].pc \notin {"leave", "write", "read", "append", "promote"}

\* An edit, or one undone: the tree is again what it was.
EditTree ==
  /\ tree' \in Trees \ {tree}
  /\ cmd' = [c \in Runs |-> IF Reading(c) THEN [cmd[c] EXCEPT !.edited = TRUE] ELSE cmd[c]]
  /\ UNCHANGED <<host, files>>

Init ==
  /\ tree \in Trees
  /\ host = [c \in Runs |-> [market |-> FALSE, plugin |-> FALSE, cache |-> "none"]]
  /\ history = None /\ mirror = None
  /\ raws = [o \in Outputs |-> None]
  /\ cmd = [c \in Runs |-> Idle]

Step(c) ==
  \/ ReadManifest(c) \/ Identify(c) \/ PrepareMarketplace(c)
  \/ AddMarketplace(c) \/ AddPlugin(c) \/ HookSession(c) \/ PluginSession(c)
  \/ RemovePlugin(c) \/ RemoveMarketplace(c) \/ RemoveCache(c) \/ ListState(c)
  \/ MissingCli(c) \/ LeaveScratch(c)
  \/ WriteResult(c) \/ ReadHistory(c) \/ WriteHistory(c) \/ promote_current_result(c)

Next == EditTree \/ \E c \in Runs : Begin(c) \/ Step(c) \/ Kill(c)

Spec == Init /\ [][Next]_vars

(***************************************************************************)
(* What --verify-results accepts.                                          *)
(***************************************************************************)
attempted(checks) == {k \in Checks : checks[k] # "not_run"}

attempt_check_errors(a) ==
  \/ a.procedural # (/\ attempted(a.checks) # {}
                      /\ \A k \in attempted(a.checks) : a.checks[k] = "passed")
  \/ a.kind = "missing-cli-only" /\ attempted(a.checks) # {"missing_cli_boundary"}
  \/ /\ a.kind = "full" /\ a.outcome = "completed"
     /\ \/ a.checks.plugin_preflight # "passed"
        \/ attempted(a.checks) # Checks
  \/ /\ a.kind = "full" /\ a.outcome = "aborted"
     /\ ~\E s \in Stages : a.checks = stage_checks[s]

attempt_safety_errors(a) ==
  \/ ~AllHold(a.safety) \/ ~a.safety_pass \/ ~a.cleanup
  \/ a.cleanup # a.safety.temporary
  \/ a.procedural = a.failures

attempt_summary_errors(a) ==
  IF a.kind = "full" /\ a.outcome = "completed"
  THEN (a.summary.passed = a.summary.required) # a.procedural
  ELSE a.summary # None

retained_raw_result_errors(a) ==
  /\ a.raw # None
  /\ \/ raws[a.output] # a.raw
     \/ a.raw = Torn
     \/ a.raw.inputs # a.inputs.tree
     \/ result_safety_errors(a.raw)

attempt_errors(a) ==
  \/ a.kind = "full" /\ ~a.inputs.plugin
  \/ attempt_check_errors(a) \/ attempt_safety_errors(a)
  \/ attempt_summary_errors(a) \/ retained_raw_result_errors(a)

attempts == IF history = None THEN <<>> ELSE history.attempts

\* The current artifact must be the recorded one, and well built.
artifact_errors == history.artifact # tree \/ tree \notin Wellbuilt

history_errors(current) ==
  \/ attempts = <<>>
  \/ history.artifact = None \/ (current /\ artifact_errors)
  \/ \E i \in DOMAIN attempts : attempt_errors(attempts[i])
  \/ \A i \in DOMAIN attempts : attempts[i].raw = None
  \/ mirror \notin {attempts[i].raw : i \in DOMAIN attempts}

verify_results(current) ==
  /\ mirror \notin {None, Torn}
  /\ current => mirror.inputs = tree
  /\ all_passed(mirror)
  /\ ~result_safety_errors(mirror)
  /\ ~history_errors(current)

(***************************************************************************)
(* Properties.                                                             *)
(***************************************************************************)
\* What a run may have left in the user's Codex.
Clean(c) == ~host[c].market /\ ~host[c].plugin /\ host[c].cache = "none"

\* A retained record that says the temporary state was removed is right: the
\* user's Codex holds neither the marketplace, the plugin nor its cache.
CleanupClaimTrue ==
  \A i \in DOMAIN attempts : attempts[i].cleanup => Clean(attempts[i].id)

\* The same of the records that come from the lifecycle's own report, and of
\* every run that goes on to the missing-CLI session.
LifecycleClaimTrue ==
  /\ \A c \in Runs : cmd[c].verified => Clean(c)
  /\ \A i \in DOMAIN attempts :
       LET a == attempts[i] c == cmd[a.id] IN
       a.cleanup /\ (a.outcome = "completed" \/ a.checks.plugin_preflight = "passed")
         => Clean(a.id)

\* A run aborted in its missing-CLI session is recorded by that stage alone,
\* which counts the sessions before it as passed.
AbortedLast(a) ==
  a.kind = "full" /\ a.outcome = "aborted" /\ a.checks.missing_cli_boundary = "failed"

\* What a record says of its sessions is what they were judged to show, with one
\* exception: that of a run aborted in its missing-CLI session calls the plugin
\* sessions passed when they were held and judged, whatever was judged
\* (attempt_from_error).  No other record calls a check passed that was missed, a
\* completed one says exactly which passed, and it is safe only if no session
\* wrote, inspected or left the exclusions unobserved.
ChecksTrue ==
  \A i \in DOMAIN attempts :
    LET a == attempts[i]
        seen == cmd[a.id].seen
        plugins == seen["hook"] = "passed" /\ seen["plugin"] = "passed"
    IN
    /\ a.checks.plugin_scenarios = "passed" => plugins \/ AbortedLast(a)
    /\ AbortedLast(a) => seen["hook"] # "none" /\ seen["plugin"] # "none"
    /\ a.checks.missing_cli_boundary = "passed" => seen["missing"] = "passed"
    /\ a.outcome = "completed" =>
         /\ a.kind = "full" => a.checks.plugin_scenarios = Passed(plugins)
         /\ a.checks.missing_cli_boundary = Passed(seen["missing"] = "passed")
         /\ a.safety_pass => \A s \in Sessions : seen[s] \notin {"wrote", "inspected", "blind"}

\* The verifier refuses a record only for a failure of safety the record itself
\* states: what the lane writes, its own check of the committed history accepts.
\* The exception: another run had named the same output, and may have written it.
RecordsVerify ==
  \A i \in DOMAIN attempts :
    attempt_errors(attempts[i]) =>
      ~attempts[i].safety_pass \/ "raw" \in cmd[attempts[i].id].contested

\* When the release gate passes, all that the run used - evaluator and manifest,
\* plugin, prompts, schema and skill - is what is in the tree now, however it was
\* edited before the run or after its last session.  The exception: it was edited
\* while the run still read from it, before it was identified, or after that and
\* undone since; no identity tells.
CurrentMeansDelivered ==
  verify_results(TRUE) =>
    cmd[mirror.run].used = {tree} \/ cmd[mirror.run].edited

\* A run that ends has its attempt in the history, unless the history could not
\* be written, or another run, having read it before, was about to write it.
EveryRunRetained ==
  \A c \in Runs :
    /\ cmd[c].pc = "ended" /\ cmd[c].kind = "full"
    /\ ~cmd[c].lost /\ "history" \notin cmd[c].contested
    => c \in {attempts[i].id : i \in DOMAIN attempts}

\* A run that writes back a history another one has written since, or publishes
\* after another one contested its file or its record.
Overtaken(c) ==
  \/ At(c, "append") /\ cmd[c].read.attempts # attempts
  \/ At(c, "promote") /\ cmd[c].contested # {}

\* The evidence on disk is an append-only ledger with published results, except
\* for the steps of a run that another one overtook: nothing keeps two runs from
\* reading the history before either writes it.
Ledger == INSTANCE AttemptLedger WITH current <- mirror
LedgerSpec ==
  Ledger!Init /\ [][\/ Ledger!Next
                   \/ \E c \in Runs : Overtaken(c) /\ cmd'[c] # cmd[c]]_<<attempts, mirror>>

=============================================================================
