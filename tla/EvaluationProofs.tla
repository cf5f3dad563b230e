--------------------------- MODULE EvaluationProofs ---------------------------
(***************************************************************************)
(* Proofs about the two evaluation lanes, for every number of overlapping  *)
(* invocations, of raw results and of edits of the tree, some undone: of   *)
(* the Codex lane over whatever its host does to a run, of the Claude lane *)
(* over whatever other programs do to its directories.                     *)
(***************************************************************************)
EXTENDS CodexEvaluation, ClaudeEvaluation, FiniteSetTheorems, TLAPS

(***************************************************************************)
(* The Codex lane.                                                         *)
(***************************************************************************)

Early == {"manifest", "identify", "marketplace"}
Removal == {"remove_plugin", "remove_marketplace", "remove_cache", "list"}
Lifecycle == {"add_marketplace", "add_plugin", "hook", "plugin"} \cup Removal
Unwritten == Early \cup Lifecycle \cup {"missing", "leave", "write"}
After == {"missing", "leave", "write", "read", "append", "promote"}
Recorded == {"read", "append", "promote"}
Told == {"promote", "ended", "killed"}

Holdings == [market: BOOLEAN, plugin: BOOLEAN, cache: Caches]

CodexCommands ==
  [pc: Early \cup Lifecycle \cup After \cup Over, kind: Kinds \cup {"none"},
   output: Outputs \cup {None}, inputs: Trees \cup {None}, market: BOOLEAN,
   plugin: BOOLEAN, stage: {"plugin-preflight", "plugin-scenarios"},
   seen: [Sessions -> Judgements \cup {"none"}],
   error: SessionRaises \cup {"none"}, errors: BOOLEAN, verified: BOOLEAN,
   aborted: AbortedRuns \cup {None}, record: Attempts \cup {None},
   read: Histories \cup {None}, lost: BOOLEAN,
   used: SUBSET Trees, edited: BOOLEAN, contested: SUBSET {"raw", "history"}]

CodexTypeOK ==
  /\ tree \in Trees
  /\ host \in [Runs -> Holdings]
  /\ history \in Histories \cup {None}
  /\ raws \in [Outputs -> Results \cup {None, Torn}]
  /\ mirror \in Results \cup {None, Torn}
  /\ cmd \in [Runs -> CodexCommands]

(***************************************************************************)
(* What is so of one invocation with the local variables m, of which the   *)
(* host holds h.                                                           *)
(***************************************************************************)
Spotless(h) == ~h.market /\ ~h.plugin /\ h.cache = "none"

\* What each location is reached with.
Placed(m) ==
  /\ m.pc = "idle" => m = Idle
  /\ m.pc \in Early \cup Lifecycle \cup {"write", "promote"} => m.kind = "full"
  /\ m.pc \in {"missing", "leave"} => m.kind \in {"full", "missing-cli-only"}
  /\ m.pc \in {"read", "append"} => m.kind \in Kinds
  /\ m.pc \in Early \cup Lifecycle \cup {"missing", "write", "promote"} => m.aborted = None
  /\ m.kind = "refresh" => m.aborted = None
  /\ m.kind = "full" /\ m.pc \notin Over => m.output \in Outputs

\* What the host may hold, and which claims of a removal are warranted.
Owns(m, h) ==
  /\ m.pc \in {"idle"} \cup Early \/ m.kind \in {"missing-cli-only", "refresh"} => Spotless(h)
  /\ m.pc \in Lifecycle =>
       /\ m.market \/ ~h.market
       /\ m.plugin \/ (~h.plugin /\ h.cache = "none")
  /\ m.pc = "list" /\ ~m.errors => h.cache = "none"
  /\ m.verified => Spotless(h) /\ m.pc \in After
  /\ m.aborted # None /\ m.aborted.cleanup_verified
       /\ m.aborted.failed_stage # "plugin-preflight" => Spotless(h)
  /\ m.kind = "full" /\ m.aborted = None /\ m.pc \in After => m.verified

BothSeen(m) == m.seen["hook"] # "none" /\ m.seen["plugin"] # "none"

\* Which sessions have ended and were judged.
Watched(m) ==
  /\ \A s \in Sessions : m.seen[s] \in Possible[s] \cup {"none"}
  /\ m.pc = "plugin" => m.seen["hook"] # "none"
  /\ m.pc \in Removal /\ m.error = "none" => BothSeen(m)
  /\ m.kind = "full" /\ m.pc \in After
       /\ (m.aborted = None \/ m.aborted.failed_stage = "missing-cli") => BothSeen(m)
  /\ m.kind = "missing-cli-only" => m.seen["hook"] = "none" /\ m.seen["plugin"] = "none"

\* A full run that nothing aborted, once it has written its result.
Settled(m) == m.kind = "full" /\ m.aborted = None /\ m.pc \in Recorded \cup {"ended", "killed"}

\* A run whose tree was not edited while it read from it has used one content,
\* the one it identified.
Dated(m) ==
  /\ m.kind = "full" /\ m.pc \in Unwritten \ {"manifest", "identify"} => m.inputs \in Trees
  /\ m.kind = "full" /\ m.pc \in Recorded /\ m.aborted = None => m.inputs \in Trees
  /\ m.kind = "refresh" /\ m.pc = "append" => m.inputs \in Trees
  /\ m.kind = "full" /\ ~m.edited =>
       /\ m.pc \in Unwritten \ {"leave", "write"} => m.used = {tree}
       /\ m.pc \in Unwritten \ {"manifest", "identify", "leave", "write"} => m.inputs = tree
       /\ m.pc \in {"leave", "write"} \/ (m.pc \in Recorded /\ m.aborted = None) =>
            m.used = {m.inputs}

(***************************************************************************)
(* What is so of each record, each history and each result.                *)
(***************************************************************************)
Warranted(a, h) ==
  a.cleanup /\ (a.outcome = "completed" \/ a.checks.plugin_preflight = "passed")
    => Spotless(h)

Shown(a, seen) ==
  LET plugins == seen["hook"] = "passed" /\ seen["plugin"] = "passed" IN
  /\ a.checks.plugin_scenarios = "passed" => plugins \/ AbortedLast(a)
  /\ AbortedLast(a) => seen["hook"] # "none" /\ seen["plugin"] # "none"
  /\ a.checks.missing_cli_boundary = "passed" => seen["missing"] = "passed"
  /\ a.outcome = "completed" =>
       /\ a.kind = "full" => a.checks.plugin_scenarios = Passed(plugins)
       /\ a.checks.missing_cli_boundary = Passed(seen["missing"] = "passed")
       /\ a.safety_pass => \A s \in Sessions : seen[s] \notin {"wrote", "inspected", "blind"}

\* All the verifier refuses of a record but a raw result that is not there.
Refusable(a) ==
  \/ a.kind = "full" /\ ~a.inputs.plugin
  \/ attempt_check_errors(a) \/ attempt_safety_errors(a) \/ attempt_summary_errors(a)
  \/ /\ a.raw # None
     /\ a.raw = Torn \/ a.raw.inputs # a.inputs.tree \/ result_safety_errors(a.raw)

\* A raw result that no run under way may write, and no new one may name.
Fixed(o) ==
  /\ raws[o] # None
  /\ \A d \in Runs : cmd[d].kind = "full" /\ cmd[d].output = o => cmd[d].pc \notin Unwritten

CodexKept(a) ==
  LET m == cmd[a.id] IN
  /\ m.pc \in Told
  /\ Warranted(a, host[a.id])
  /\ Shown(a, m.seen)
  /\ "raw" \notin m.contested =>
       /\ a.safety_pass => ~Refusable(a)
       /\ a.raw # None => a.output \in Outputs /\ raws[a.output] = a.raw /\ Fixed(a.output)

\* The histories that stand, or that a run has read and may write back.
Read == {cmd[d].read.attempts : d \in {e \in Runs : At(e, "append")}}
Ledgers == {attempts} \cup Read

\* A result is of a run that has settled, and bears the content it used.
Current(x) ==
  x \in Results =>
    LET m == cmd[x.run] IN Settled(m) /\ (~m.edited => m.used = {x.inputs})

ResultOf(c, m) ==
  [run |-> c, inputs |-> m.inputs, seen |-> m.seen,
   temporary_plugin_state_removed |-> TRUE]

\* The record of a run about to retain it.
Recordable(c, m, h) ==
  LET a == m.record IN
  /\ a \in Attempts /\ a.id = c
  /\ Warranted(a, h) /\ Shown(a, m.seen)
  /\ IF m.kind = "full" /\ m.aborted = None
     THEN "raw" \notin m.contested =>
            /\ a.safety_pass => ~Refusable(a)
            /\ a.raw = ResultOf(c, m) /\ a.output = m.output
     ELSE a.raw = None /\ (a.safety_pass => ~Refusable(a))

\* A history holds the record of run c; that of a run yet to publish its result
\* holds it, if no other run contested its file.
Holds(c, m, s) ==
  \E i \in DOMAIN s :
    /\ s[i].id = c
    /\ m.pc = "promote" /\ "raw" \notin m.contested => s[i].raw = ResultOf(c, m)

\* What stands on disk of an invocation, or is about to.
CodexEvident(c, m, h) ==
  /\ m.kind = "full" /\ m.pc \in Recorded /\ m.aborted = None /\ "raw" \notin m.contested =>
       raws[m.output] = ResultOf(c, m) /\ Fixed(m.output)
  /\ m.pc = "append" => m.read # None /\ (m.kind # "refresh" => Recordable(c, m, h))
  /\ \/ m.pc = "promote"
     \/ m.pc = "ended" /\ m.kind = "full" /\ ~m.lost
     => "history" \in m.contested \/ \A s \in Ledgers : Holds(c, m, s)

Sound(c, m, h) ==
  Placed(m) /\ Owns(m, h) /\ Watched(m) /\ Dated(m) /\ CodexEvident(c, m, h)

CodexIInv ==
  /\ CodexTypeOK
  /\ \A c \in Runs : Sound(c, cmd[c], host[c])
  /\ \A s \in Ledgers : \A i \in DOMAIN s : CodexKept(s[i])
  /\ \A o \in Outputs : Current(raws[o])
  /\ Current(mirror)

(***************************************************************************)
(* Steps of one invocation.                                                *)
(***************************************************************************)
LEMMA Types ==
  ASSUME CodexTypeOK
  PROVE  attempts \in Seq(Attempts)
  <1>1. CASE history = None
    BY <1>1 DEF attempts
  <1>2. CASE history # None
    BY <1>2 DEF CodexTypeOK, attempts, Histories
  <1> QED
    BY <1>1, <1>2

LEMMA CodexFacts ==
  ASSUME CodexIInv, NEW c \in Runs
  PROVE  /\ cmd[c] \in CodexCommands /\ host[c] \in Holdings /\ tree \in Trees
         /\ Placed(cmd[c]) /\ Owns(cmd[c], host[c]) /\ Watched(cmd[c])
         /\ Dated(cmd[c]) /\ CodexEvident(c, cmd[c], host[c])
  BY DEF CodexIInv, CodexTypeOK, Sound

LEMMA LedgersTyped ==
  ASSUME CodexIInv, NEW s \in Ledgers
  PROVE  s \in Seq(Attempts)
  <1>1. CASE s = attempts
    BY <1>1, Types DEF CodexIInv
  <1>2. CASE s \in Read
    <2>1. PICK d \in Runs : cmd[d].pc = "append" /\ s = cmd[d].read.attempts
      BY <1>2 DEF Read, At
    <2>2. cmd[d].read \in Histories
      BY <2>1, CodexFacts DEF CodexEvident, CodexCommands
    <2> QED
      BY <2>1, <2>2 DEF Histories
  <1> QED
    BY <1>1, <1>2 DEF Ledgers

\* What a step must leave of the local variables of an invocation for what has
\* been said of it to stay true.
Follows(m, r) ==
  /\ m.pc \in Told => r.pc \in Told /\ r.seen = m.seen /\ r.contested = m.contested
  /\ Settled(m) => Settled(r) /\ r.used = m.used /\ r.edited = m.edited
  /\ r.kind = "full" /\ r.pc \in Unwritten =>
       \/ m.kind = "full" /\ m.pc \in Unwritten /\ r.output = m.output
       \/ raws[r.output] = None
  /\ r.pc = "append" => r.read.attempts = attempts

LEMMA FixedStays ==
  ASSUME CodexTypeOK, NEW c \in Runs, NEW r, cmd' = [cmd EXCEPT ![c] = r], Follows(cmd[c], r),
         NEW o, Fixed(o), raws'[o] = raws[o]
  PROVE  Fixed(o)'
  <1>1. cmd \in [Runs -> CodexCommands]
    BY DEF CodexTypeOK
  <1>2. \A d \in Runs : cmd'[d] = IF d = c THEN r ELSE cmd[d]
    BY <1>1
  <1>3. r.kind = "full" /\ r.output = o => r.pc \notin Unwritten
    BY DEF Fixed, Follows
  <1> QED
    BY <1>2, <1>3 DEF Fixed

\* A step adds no history but the one it writes.
LEMMA LedgersStay ==
  ASSUME CodexTypeOK, NEW c \in Runs, NEW r, cmd' = [cmd EXCEPT ![c] = r], Follows(cmd[c], r),
         NEW s, (s \in Ledgers)'
  PROVE  s \in Ledgers \/ s = attempts'
  <1>1. cmd \in [Runs -> CodexCommands]
    BY DEF CodexTypeOK
  <1>2. CASE s = attempts'
    BY <1>2
  <1>3. CASE (s \in Read)'
    <2>1. PICK d \in Runs : cmd'[d].pc = "append" /\ s = cmd'[d].read.attempts
      BY <1>3 DEF Read, At
    <2>2. CASE d = c
      BY <1>1, <2>1, <2>2 DEF Follows, Ledgers
    <2>3. CASE d # c
      BY <1>1, <2>1, <2>3 DEF Ledgers, Read, At
    <2> QED
      BY <2>2, <2>3
  <1> QED
    BY <1>2, <1>3 DEF Ledgers

\* A step of one invocation keeps the invariant if what it leaves of that
\* invocation is sound and what it adds on disk is in order.
LEMMA CodexStepKeeps ==
  ASSUME CodexIInv, NEW c \in Runs, NEW r \in CodexCommands, NEW h \in Holdings,
         cmd' = [cmd EXCEPT ![c] = r], host' = [host EXCEPT ![c] = h], tree' = tree,
         history' \in Histories \cup {None},
         raws' \in [Outputs -> Results \cup {None, Torn}],
         \A o \in Outputs : raws'[o] = raws[o] \/ (~Fixed(o) /\ Current(raws[o])'),
         mirror' = mirror \/ \E o \in Outputs : mirror' = raws[o],
         NEW base \in Ledgers,
         \A i \in DOMAIN base : i \in DOMAIN attempts' /\ attempts'[i] = base[i],
         \A i \in DOMAIN attempts' : i \in DOMAIN base \/ CodexKept(attempts[i])',
         Follows(cmd[c], r), cmd[c].pc \in Told => h = host[c],
         Sound(c, r, h)'
  PROVE  CodexIInv'
  <1>1. CodexTypeOK
    BY DEF CodexIInv
  <1>2. cmd \in [Runs -> CodexCommands] /\ host \in [Runs -> Holdings] /\ tree \in Trees
        /\ raws \in [Outputs -> Results \cup {None, Torn}] /\ mirror \in Results \cup {None, Torn}
    BY <1>1 DEF CodexTypeOK
  <1>3. CodexTypeOK'
    BY <1>2 DEF CodexTypeOK
  <1>4. /\ \A d \in Runs : d # c => cmd'[d] = cmd[d] /\ host'[d] = host[d]
        /\ cmd'[c] = r /\ host'[c] = h
    BY <1>2
  <1>5. ASSUME NEW o \in Outputs, Fixed(o) PROVE raws'[o] = raws[o] /\ Fixed(o)'
    BY <1>1, <1>5, FixedStays
  <1>6. ASSUME NEW s, (s \in Ledgers)'
        PROVE  \/ s \in Ledgers
               \/ /\ \A i \in DOMAIN base : i \in DOMAIN s /\ s[i] = base[i]
                  /\ \A i \in DOMAIN s : i \in DOMAIN base \/ CodexKept(s[i])'
    <2>1. s \in Ledgers \/ s = attempts'
      BY <1>1, <1>6, LedgersStay
    <2>2. ASSUME s = attempts', NEW i \in DOMAIN s PROVE i \in DOMAIN base \/ CodexKept(s[i])'
      BY <2>2 DEF CodexKept
    <2> QED
      BY <2>1, <2>2
  <1>7. ASSUME NEW d \in Runs PROVE Sound(d, cmd[d], host[d])'
    <2>1. CASE d = c
      BY <1>4, <2>1
    <2>2. CASE d # c
      <3> DEFINE m == cmd[d]
      <3>1. Placed(m) /\ Owns(m, host[d]) /\ Watched(m) /\ Dated(m) /\ CodexEvident(d, m, host[d])
            /\ m \in CodexCommands
        BY CodexFacts
      <3>2. cmd'[d] = m /\ host'[d] = host[d]
        BY <1>4, <2>2
      <3>3. Placed(m)' /\ Owns(m, host[d])' /\ Watched(m)' /\ Dated(m)'
        BY <3>1, <3>2 DEF Placed, Owns, Watched, Dated, BothSeen
      <3> SUFFICES ASSUME NEW n, n = m, NEW g, g = host[d] PROVE CodexEvident(d, n, g)'
        BY <3>2, <3>3 DEF Sound
      <3>4. Placed(n) /\ CodexEvident(d, n, g)
        BY <3>1
      <3> HIDE DEF m
      <3>5. n.kind = "full" /\ n.pc \in Recorded /\ n.aborted = None /\ "raw" \notin n.contested =>
              raws'[n.output] = ResultOf(d, n) /\ Fixed(n.output)'
        <4>1. n.kind = "full" /\ n.pc \in Recorded => n.output \in Outputs
          BY <3>4 DEF Placed, Recorded, Over
        <4> QED
          BY <1>5, <3>4, <4>1 DEF CodexEvident
      <3>6. n.pc = "append" => n.read # None /\ (n.kind # "refresh" => Recordable(d, n, g))
        BY <3>4 DEF CodexEvident
      <3>7. ASSUME \A s \in Ledgers : Holds(d, n, s), NEW s, (s \in Ledgers)' PROVE Holds(d, n, s)
        <4>1. Holds(d, n, base)
          BY <3>7
        <4> QED
          BY <1>6, <3>7, <4>1 DEF Holds
      <3>8. \/ n.pc = "promote"
            \/ n.pc = "ended" /\ n.kind = "full" /\ ~n.lost
            => "history" \in n.contested \/ \A s \in Ledgers : Holds(d, n, s)
        BY <3>4 DEF CodexEvident
      <3>9. (\A s \in Ledgers : Holds(d, n, s)) => (\A s \in Ledgers : Holds(d, n, s))'
        BY <3>7
      <3> HIDE DEF Ledgers
      <3> QED
        BY <3>5, <3>6, <3>8, <3>9 DEF CodexEvident
    <2> QED
      BY <2>1, <2>2
  <1>8. ASSUME NEW a \in Attempts, CodexKept(a) PROVE CodexKept(a)'
    <2>1. a.id \in Runs
      BY DEF Attempts
    <2>2. cmd'[a.id].pc \in Told /\ cmd'[a.id].seen = cmd[a.id].seen
          /\ cmd'[a.id].contested = cmd[a.id].contested /\ host'[a.id] = host[a.id]
      BY <1>4, <1>8, <2>1 DEF CodexKept, Follows
    <2>3. a.output \in Outputs /\ Fixed(a.output) => raws'[a.output] = raws[a.output] /\ Fixed(a.output)'
      BY <1>5
    <2> QED
      BY <1>8, <2>2, <2>3 DEF CodexKept
  <1>9. ASSUME NEW s, (s \in Ledgers)', NEW i \in DOMAIN s PROVE CodexKept(s[i])'
    <2>1. ASSUME NEW x \in Ledgers, i \in DOMAIN x PROVE CodexKept(x[i])'
      <3>1. x \in Seq(Attempts)
        BY LedgersTyped
      <3>2. x[i] \in Attempts /\ CodexKept(x[i])
        BY <2>1, <3>1 DEF CodexIInv
      <3> QED
        BY <1>8, <3>2
    <2>2. CASE s \in Ledgers
      BY <2>1, <2>2
    <2>3. CASE /\ \A j \in DOMAIN base : j \in DOMAIN s /\ s[j] = base[j]
               /\ \A j \in DOMAIN s : j \in DOMAIN base \/ CodexKept(s[j])'
      <3>1. CASE i \in DOMAIN base
        <4>1. CodexKept(base[i])' /\ s[i] = base[i]
          BY <2>1, <2>3, <3>1
        <4> QED
          BY <4>1
      <3> QED
        BY <2>3, <3>1
    <2> QED
      BY <1>6, <1>9, <2>2, <2>3
  <1>10. ASSUME NEW x, Current(x) PROVE Current(x)'
    <2>1. x \in Results => x.run \in Runs
      BY DEF Results
    <2> QED
      BY <1>4, <1>10, <2>1 DEF Current, Follows
  <1>11. (\A o \in Outputs : Current(raws[o])') /\ Current(mirror)'
    <2>1. (\A o \in Outputs : Current(raws[o])) /\ Current(mirror)
      BY DEF CodexIInv
    <2>2. \A o \in Outputs : raws'[o] = raws[o] => Current(raws[o])'
      BY <1>10, <2>1
    <2>3. Current(mirror)'
      BY <1>10, <2>1
    <2> QED
      BY <2>2, <2>3
  <1> QED
    BY <1>3, <1>7, <1>9, <1>11 DEF CodexIInv

\* The same of a step that leaves the evidence alone.
LEMMA LocalStep ==
  ASSUME CodexIInv, NEW c \in Runs, NEW r \in CodexCommands, NEW h \in Holdings,
         Become(c, r), host' = [host EXCEPT ![c] = h], UNCHANGED <<tree, files>>,
         Follows(cmd[c], r), cmd[c].pc \in Told => h = host[c],
         Sound(c, r, h)
  PROVE  CodexIInv'
  <1>1. history' = history /\ raws' = raws /\ mirror' = mirror /\ tree' = tree
    BY DEF files
  <1>2. CodexTypeOK /\ history \in Histories \cup {None}
        /\ raws \in [Outputs -> Results \cup {None, Torn}]
    BY DEF CodexIInv, CodexTypeOK
  <1>3. attempts' = attempts /\ attempts \in Ledgers /\ cmd' = [cmd EXCEPT ![c] = r]
    BY <1>1 DEF attempts, Ledgers, Become
  <1>4. Placed(r)' /\ Owns(r, h)' /\ Watched(r)' /\ Dated(r)'
    BY <1>1 DEF Sound, Placed, Owns, Watched, Dated, BothSeen
  <1>5. CodexEvident(c, r, h)'
    <2>1. CodexEvident(c, r, h)
      BY DEF Sound
    <2>2. \A o : Fixed(o) => Fixed(o)'
      BY <1>1, <1>2, <1>3, FixedStays
    <2>3. \A s : (s \in Ledgers)' => s \in Ledgers
      BY <1>2, <1>3, LedgersStay
    <2> HIDE DEF Ledgers
    <2>4. (\A s \in Ledgers : Holds(c, r, s)) => (\A s \in Ledgers : Holds(c, r, s))'
      BY <2>3
    <2> QED
      BY <1>1, <2>1, <2>2, <2>4 DEF CodexEvident
  <1>6. Sound(c, r, h)'
    BY <1>4, <1>5 DEF Sound
  <1>7. \A i \in DOMAIN attempts : i \in DOMAIN attempts' /\ attempts'[i] = attempts[i]
    BY <1>3
  <1>8. \A i \in DOMAIN attempts' : i \in DOMAIN attempts
    BY <1>3
  <1> QED
    BY <1>1, <1>2, <1>3, <1>6, <1>7, <1>8, CodexStepKeeps

LEMMA CodexOnlyStep ==
  ASSUME CodexIInv, NEW c \in Runs, NEW r \in CodexCommands, Only(c, r),
         Follows(cmd[c], r), Sound(c, r, host[c])
  PROVE  CodexIInv'
  <1>1. host \in [Runs -> Holdings]
    BY DEF CodexIInv, CodexTypeOK
  <1>2. host' = [host EXCEPT ![c] = host[c]] /\ host[c] \in Holdings
    BY <1>1 DEF Only
  <1> QED
    BY <1>2, LocalStep DEF Only

\* A step before there is any evidence.
LEMMA UnwrittenFollows ==
  ASSUME NEW m, NEW r, m.pc \in Unwritten, r.pc # "append",
         r.kind = m.kind, r.output = m.output
  PROVE  Follows(m, r)
  BY DEF Follows, Settled, Told, Unwritten, Early, Lifecycle, Removal, Recorded

\* An error outside the lifecycle claims nothing.
LEMMA AbortSound ==
  ASSUME CodexIInv, NEW c \in Runs, cmd[c].pc \in Unwritten,
         cmd[c].kind \in {"full", "missing-cli-only"}
  PROVE  LET r == Abort(c, Plain("error")) IN
         r \in CodexCommands /\ Sound(c, r, host[c]) /\ Follows(cmd[c], r)
  <1> DEFINE m == cmd[c]
             r == Abort(c, Plain("error"))
  <1>1. /\ m \in CodexCommands /\ Placed(m) /\ Owns(m, host[c]) /\ Watched(m)
        /\ Dated(m)
    BY CodexFacts
  <1>2. Plain("error") \in AbortedRuns /\ Plain("error") # None
        /\ Plain("error").failed_stage = "plugin-preflight"
    <2>1. Plain("error") \in AbortedRuns /\ Plain("error").failed_stage = "plugin-preflight"
      BY DEF Plain, AbortedRun, AbortedRuns, SessionRaises, Stages
    <2>2. None \notin AbortedRuns
      BY EvaluationAssumption DEF EvaluationAssumption
    <2> QED
      BY <2>1, <2>2
  <1>3. r = [m EXCEPT !.pc = "read", !.aborted = Plain("error")]
    BY DEF Abort, Go
  <1>4. r \in CodexCommands
    <2>1. "read" \in After
      BY DEF After
    <2> HIDE DEF r, m
    <2> QED
      BY <1>1, <1>2, <1>3, <2>1, ZenonT(30) DEF CodexCommands
  <1>5. /\ r.pc = "read" /\ r.aborted = Plain("error") /\ r.kind = m.kind /\ r.output = m.output
        /\ r.seen = m.seen /\ r.verified = m.verified
    BY <1>1, <1>3 DEF CodexCommands
  <1> HIDE DEF r, m
  <1>6. m.pc \in Unwritten /\ m.kind \in {"full", "missing-cli-only"}
    BY DEF m
  <1>7. Placed(r)
    BY <1>1, <1>2, <1>5, <1>6
       DEF Placed, Unwritten, Early, Lifecycle, Removal, Kinds, Over
  <1>8. Owns(r, host[c])
    BY <1>1, <1>2, <1>5, <1>6 DEF Owns, Early, Lifecycle, Removal, After
  <1>9. Watched(r)
    BY <1>1, <1>2, <1>5, <1>6 DEF Watched, BothSeen, Removal
  <1>10. Dated(r) /\ CodexEvident(c, r, host[c])
    BY <1>2, <1>5, <1>6
       DEF Dated, CodexEvident, Unwritten, Early, Lifecycle, Removal, Recorded
  <1>11. Follows(m, r)
    BY <1>5, <1>6, UnwrittenFollows
  <1> QED
    BY <1>4, <1>7, <1>8, <1>9, <1>10, <1>11 DEF Sound, r, m

LEMMA AbortStep ==
  ASSUME CodexIInv, NEW c \in Runs, cmd[c].pc \in Unwritten,
         cmd[c].kind \in {"full", "missing-cli-only"}, Only(c, Abort(c, Plain("error")))
  PROVE  CodexIInv'
  <1> DEFINE r == Abort(c, Plain("error"))
  <1>1. r \in CodexCommands /\ Sound(c, r, host[c]) /\ Follows(cmd[c], r)
    BY AbortSound
  <1>2. Only(c, r)
    OBVIOUS
  <1> HIDE DEF r
  <1> QED
    BY <1>1, <1>2, CodexOnlyStep

LEMMA IdleTyped == Idle \in CodexCommands
  BY DEF CodexCommands, Idle, Over

\* What is kept of an invocation that is over, if it was past its sessions or
\* leaves no record.
LEMMA LeftTyped ==
  ASSUME NEW m \in CodexCommands, NEW location \in Over,
         NEW used \in SUBSET Trees, NEW edited \in BOOLEAN
  PROVE  [Idle EXCEPT !.pc = location, !.kind = m.kind, !.seen = m.seen, !.used = used,
                      !.edited = edited, !.contested = m.contested] \in CodexCommands
  <1>1. \A x \in CodexCommands : [x EXCEPT !.pc = location] \in CodexCommands
    BY DEF CodexCommands
  <1>2. \A x \in CodexCommands : [x EXCEPT !.kind = m.kind] \in CodexCommands
    BY DEF CodexCommands
  <1>3. \A x \in CodexCommands : [x EXCEPT !.seen = m.seen] \in CodexCommands
    BY DEF CodexCommands
  <1>4. \A x \in CodexCommands : [x EXCEPT !.used = used] \in CodexCommands
    BY DEF CodexCommands
  <1>5. \A x \in CodexCommands : [x EXCEPT !.edited = edited] \in CodexCommands
    BY DEF CodexCommands
  <1>6. \A x \in CodexCommands : [x EXCEPT !.contested = m.contested] \in CodexCommands
    BY DEF CodexCommands
  <1> QED
    BY <1>1, <1>2, <1>3, <1>4, <1>5, <1>6, IdleTyped

\* An invocation that is over keeps what its record and its result came from.
LEMMA LeaveSound ==
  ASSUME CodexIInv, NEW c \in Runs, cmd[c].pc \in {"missing", "leave"} \cup Recorded,
         NEW r,
         \/ r \in {Leave(c, "ended"), Lose(c)}
         \/ cmd[c].pc \in Recorded /\ r = Leave(c, "killed"),
         cmd[c].kind = "full" => cmd[c].pc \in Recorded
  PROVE  /\ r \in CodexCommands /\ r.pc \in {"ended", "killed"} /\ r.kind = cmd[c].kind
         /\ r.seen = cmd[c].seen /\ r.contested = cmd[c].contested
         /\ r = Lose(c) => r.lost
         /\ r = Leave(c, "killed") => r.pc = "killed"
         /\ Placed(r) /\ Owns(r, host[c]) /\ Watched(r) /\ Dated(r) /\ Follows(cmd[c], r)
  <1> DEFINE m == cmd[c]
             used == IF completed(c) THEN m.used ELSE {}
             edited == completed(c) /\ m.edited
             location == IF r = Leave(c, "killed") THEN "killed" ELSE "ended"
             left == Leave(c, location)
  <1>1. /\ m \in CodexCommands /\ Owns(m, host[c]) /\ Watched(m)
        /\ m.pc \in {"missing", "leave"} \cup Recorded
    BY CodexFacts
  <1>2. /\ used \in SUBSET Trees /\ edited \in BOOLEAN
        /\ m.kind = "full" /\ m.aborted = None => used = m.used /\ edited = m.edited
    BY <1>1 DEF CodexCommands, completed
  <1>3. /\ Leave(c, "killed").pc = "killed" /\ Leave(c, "ended").pc = "ended"
        /\ Lose(c).pc = "ended" /\ Lose(c).lost = TRUE /\ Leave(c, "ended").lost = FALSE
        /\ Leave(c, "killed").lost = FALSE
    BY DEF Leave, Lose, End, Idle
  <1>4. /\ left = [Idle EXCEPT !.pc = location, !.kind = m.kind, !.seen = m.seen,
                               !.used = used, !.edited = edited, !.contested = m.contested]
        /\ r = left \/ (r = [left EXCEPT !.lost = TRUE] /\ r = Lose(c))
    BY <1>3 DEF Leave, Lose, End
  <1>5. location \in {"ended", "killed"} /\ location \in Over
    BY DEF Over
  <1>6. m.kind = "full" => m.pc \in Recorded
    OBVIOUS
  <1>7. r = Lose(c) => r.lost
    BY <1>3
  <1>8. r = Leave(c, "killed") => location = "killed"
    OBVIOUS
  <1> HIDE DEF m, used, edited, location, left
  <1>9. r \in CodexCommands
    <2>1. left \in CodexCommands
      BY <1>1, <1>2, <1>4, <1>5, LeftTyped
    <2>2. [left EXCEPT !.lost = TRUE] \in CodexCommands
      BY <2>1 DEF CodexCommands
    <2> QED
      BY <1>4, <2>1, <2>2
  <1>10. /\ r.pc = location /\ r.kind = m.kind /\ r.seen = m.seen /\ r.used = used
         /\ r.edited = edited /\ r.contested = m.contested
         /\ r.verified = FALSE /\ r.aborted = None
    <2>1. CASE r = left
      BY <1>4, <2>1 DEF Idle
    <2>2. CASE r = [left EXCEPT !.lost = TRUE]
      BY <1>4, <2>2 DEF Idle
    <2> QED
      BY <1>4, <2>1, <2>2
  <1>11. Placed(r) /\ Owns(r, host[c])
    BY <1>1, <1>5, <1>10
       DEF Placed, Owns, Early, Lifecycle, Removal, After, Over, CodexCommands, Kinds
  <1>12. Watched(r) /\ Dated(r)
    BY <1>1, <1>5, <1>10
       DEF Watched, BothSeen, Dated, Removal, After, Unwritten, Early, Lifecycle, Recorded
  <1>13. Follows(m, r)
    BY <1>1, <1>2, <1>5, <1>6, <1>10
       DEF Follows, Settled, Told, Unwritten, Early, Lifecycle, Removal, Recorded
  <1> QED
    BY <1>5, <1>7, <1>8, <1>9, <1>10, <1>11, <1>12, <1>13 DEF m

\* An invocation that ends without a record.
LEMMA LoseStep ==
  ASSUME CodexIInv, NEW c \in Runs, cmd[c].pc \in {"missing", "leave"} \cup Recorded,
         cmd[c].kind = "full" => cmd[c].pc \in Recorded, Only(c, Lose(c))
  PROVE  CodexIInv'
  <1> DEFINE r == Lose(c)
  <1>1. /\ r \in CodexCommands /\ r.pc \in {"ended", "killed"} /\ r.lost
        /\ Placed(r) /\ Owns(r, host[c]) /\ Watched(r) /\ Dated(r) /\ Follows(cmd[c], r)
    BY LeaveSound
  <1>2. Only(c, r)
    OBVIOUS
  <1> HIDE DEF r
  <1>3. CodexEvident(c, r, host[c])
    BY <1>1 DEF CodexEvident, Recorded
  <1> QED
    BY <1>1, <1>2, <1>3, CodexOnlyStep DEF Sound

\* A step within the lifecycle of the plugin.
LEMMA LifecycleStep ==
  ASSUME CodexIInv, NEW c \in Runs, NEW r \in CodexCommands, NEW h \in Holdings,
         cmd[c].pc \in {"marketplace"} \cup Lifecycle, r.pc \in Lifecycle,
         Become(c, r), host' = [host EXCEPT ![c] = h], UNCHANGED <<tree, files>>,
         r.kind = cmd[c].kind, r.output = cmd[c].output, r.inputs = cmd[c].inputs,
         r.aborted = cmd[c].aborted, r.verified = cmd[c].verified,
         r.used \in {cmd[c].used, cmd[c].used \cup {tree}}, r.edited = cmd[c].edited,
         r.market \/ ~h.market,
         r.plugin \/ (~h.plugin /\ h.cache = "none"),
         r.pc = "list" /\ ~r.errors => h.cache = "none",
         Watched(r)
  PROVE  CodexIInv'
  <1> DEFINE m == cmd[c]
  <1>1. /\ m \in CodexCommands /\ tree \in Trees /\ Placed(m) /\ Owns(m, host[c]) /\ Dated(m)
        /\ m.pc \in {"marketplace"} \cup Lifecycle
    BY CodexFacts
  <1>2. /\ r.kind = m.kind /\ r.output = m.output /\ r.inputs = m.inputs
        /\ r.aborted = m.aborted /\ r.verified = m.verified
        /\ r.used \in {m.used, m.used \cup {tree}} /\ r.edited = m.edited
    OBVIOUS
  <1>3. m.kind = "full" /\ m.aborted = None /\ m.pc \in Unwritten \ {"manifest", "identify"}
        /\ r.pc \in Unwritten /\ r.pc # "append" /\ m.pc \notin Told
    BY <1>1 DEF Placed, Unwritten, Early, Lifecycle, Removal, Told
  <1>4. ~m.verified
    BY <1>1 DEF Owns, Lifecycle, Removal, After
  <1> HIDE DEF m
  <1>5. Placed(r)
    BY <1>1, <1>2, <1>3 DEF Placed, Lifecycle, Removal, Early, Over
  <1>6. Owns(r, h)
    BY <1>2, <1>3, <1>4 DEF Owns, Lifecycle, Removal, Early, After
  <1>7. Dated(r)
    <2>1. m.pc \notin {"leave", "write"} /\ r.pc \notin {"manifest", "identify", "leave", "write"}
          /\ r.pc \notin Recorded
      BY <1>1 DEF Lifecycle, Removal, Recorded
    <2> QED
      BY <1>1, <1>2, <1>3, <2>1 DEF Dated
  <1>8. CodexEvident(c, r, h)
    BY DEF CodexEvident, Lifecycle, Removal, Recorded
  <1>9. Follows(m, r)
    BY <1>2, <1>3, UnwrittenFollows
  <1> QED
    BY <1>3, <1>5, <1>6, <1>7, <1>8, <1>9, LocalStep DEF Sound, m
(***************************************************************************)
(* Each action of an invocation.                                           *)
(***************************************************************************)
LEMMA BeginIInv == ASSUME CodexIInv, NEW c \in Runs, Begin(c) PROVE CodexIInv'
  <1> DEFINE m == cmd[c]
  <1>2. /\ m \in CodexCommands /\ m.pc = "idle" /\ m = Idle /\ Owns(m, host[c]) /\ Watched(m)
    BY CodexFacts DEF Begin, At, Placed
  <1>3. ASSUME NEW r \in CodexCommands, Only(c, r),
               r.pc \in {"manifest", "missing", "read"}, r.kind \in Kinds,
               r.pc = "manifest" <=> r.kind = "full",
               r.pc = "missing" <=> r.kind = "missing-cli-only",
               r.kind = "full" => r.output \in Outputs /\ raws[r.output] = None,
               r.seen = m.seen, r.verified = m.verified, r.aborted = m.aborted,
               r.kind = "full" => r.used = {tree}
        PROVE  CodexIInv'
    <2>1. /\ m.aborted = None /\ ~m.verified
          /\ m.seen = [s \in Sessions |-> "none"]
      BY <1>2 DEF Idle
    <2>2. m.pc = "idle"
      BY <1>2
    <2> HIDE DEF m
    <2>3. Placed(r)
      BY <1>3, <2>1 DEF Placed, Kinds, Early, Lifecycle, Removal, Over
    <2>4. Owns(r, host[c])
      BY <1>2, <1>3, <2>1, <2>2 DEF Owns, Kinds, Early, Lifecycle, Removal, After
    <2>5. Watched(r)
      BY <1>3, <2>1 DEF Watched, Kinds, Removal, After, Sessions
    <2>6. Dated(r) /\ CodexEvident(c, r, host[c])
      BY <1>3, <2>1
         DEF Dated, CodexEvident, Kinds, Unwritten, Early, Lifecycle, Removal, Recorded
    <2>7. Follows(m, r)
      BY <1>3, <2>2
         DEF Follows, Settled, Told, Kinds, Unwritten, Early, Lifecycle, Removal, Recorded
    <2> HIDE <1>2
    <2> QED
      BY <1>3, <2>3, <2>4, <2>5, <2>6, <2>7, CodexOnlyStep DEF Sound, m
  <1>4. ASSUME NEW output \in Outputs, validated_run_output(output),
               Only(c, [Go(c, "manifest") EXCEPT !.kind = "full", !.output = output,
                                                     !.used = {tree}])
        PROVE  CodexIInv'
    <2> DEFINE r == [Go(c, "manifest") EXCEPT !.kind = "full", !.output = output,
                                                  !.used = {tree}]
    <2>1. r \in CodexCommands
      <3>1. {tree} \in SUBSET Trees
        BY CodexFacts
      <3> QED
        BY <1>2, <3>1, ZenonT(30) DEF CodexCommands, Go, Early, Kinds
    <2>2. /\ r.pc = "manifest" /\ r.kind = "full" /\ r.output = output /\ r.seen = m.seen
          /\ r.verified = m.verified /\ r.aborted = m.aborted /\ r.used = {tree}
      BY <1>2 DEF CodexCommands, Go
    <2>3. Only(c, r) /\ raws[output] = None
      BY <1>4 DEF validated_run_output
    <2> HIDE DEF r, m
    <2> QED
      BY <1>3, <2>1, <2>2, <2>3 DEF Kinds
  <1>5. ASSUME Only(c, [Go(c, "missing") EXCEPT !.kind = "missing-cli-only"])
        PROVE  CodexIInv'
    <2> DEFINE r == [Go(c, "missing") EXCEPT !.kind = "missing-cli-only"]
    <2>1. r \in CodexCommands
      BY <1>2 DEF CodexCommands, Go, After, Kinds
    <2>2. /\ r.pc = "missing" /\ r.kind = "missing-cli-only" /\ r.seen = m.seen
          /\ r.verified = m.verified /\ r.aborted = m.aborted
      BY <1>2 DEF CodexCommands, Go
    <2>3. Only(c, r)
      BY <1>5
    <2> HIDE DEF r, m
    <2> QED
      BY <1>3, <2>1, <2>2, <2>3 DEF Kinds
  <1>6. ASSUME Only(c, [Go(c, "read") EXCEPT !.kind = "refresh"])
        PROVE  CodexIInv'
    <2> DEFINE r == [Go(c, "read") EXCEPT !.kind = "refresh"]
    <2>1. r \in CodexCommands
      BY <1>2 DEF CodexCommands, Go, After, Kinds
    <2>2. /\ r.pc = "read" /\ r.kind = "refresh" /\ r.seen = m.seen
          /\ r.verified = m.verified /\ r.aborted = m.aborted
      BY <1>2 DEF CodexCommands, Go
    <2>3. Only(c, r)
      BY <1>6
    <2> HIDE DEF r, m
    <2> QED
      BY <1>3, <2>1, <2>2, <2>3 DEF Kinds
  <1> QED
    BY <1>4, <1>5, <1>6 DEF Begin

LEMMA ReadManifestIInv == ASSUME CodexIInv, NEW c \in Runs, ReadManifest(c) PROVE CodexIInv'
  <1> DEFINE m == cmd[c]
  <1>1. /\ m \in CodexCommands /\ m.pc = "manifest" /\ Placed(m) /\ Owns(m, host[c])
        /\ Watched(m) /\ Dated(m) /\ tree \in Trees
    BY CodexFacts DEF ReadManifest, At
  <1>2. m.kind = "full" /\ m.pc \in Unwritten
    BY <1>1 DEF Placed, Early, Unwritten
  <1>3. CASE Only(c, Abort(c, Plain("error")))
    BY <1>2, <1>3, AbortStep
  <1>4. CASE Only(c, [Go(c, "identify") EXCEPT !.used = @ \cup {tree}])
    <2> DEFINE used == m.used \cup {tree}
               r == [m EXCEPT !.pc = "identify", !.used = used]
    <2>1. r = [Go(c, "identify") EXCEPT !.used = @ \cup {tree}] /\ used \in SUBSET Trees
      BY <1>1 DEF CodexCommands, Go
    <2>2. ~m.edited => used = {tree}
      BY <1>1, <1>2 DEF Dated
    <2>3. Only(c, r)
      BY <1>4, <2>1
    <2> HIDE DEF m, used
    <2>4. r \in CodexCommands
      BY <1>1, <2>1 DEF CodexCommands, Early
    <2>5. /\ r.pc = "identify" /\ r.kind = m.kind /\ r.seen = m.seen /\ r.output = m.output
          /\ r.verified = m.verified /\ r.aborted = m.aborted /\ r.used = used
          /\ r.edited = m.edited
      BY <1>1 DEF CodexCommands
    <2> HIDE DEF r
    <2>6. Placed(r) /\ Owns(r, host[c]) /\ Watched(r)
      BY <1>1, <1>2, <2>5
         DEF Placed, Owns, Watched, Early, Lifecycle, Removal, After, Over
    <2>7. Dated(r) /\ CodexEvident(c, r, host[c])
      BY <1>2, <2>2, <2>5
         DEF Dated, CodexEvident, Unwritten, Early, Lifecycle, Removal, Recorded
    <2>8. Follows(m, r)
      BY <1>2, <2>5, UnwrittenFollows
    <2> QED
      BY <2>3, <2>4, <2>6, <2>7, <2>8, CodexOnlyStep DEF Sound, m
  <1> QED
    BY <1>3, <1>4 DEF ReadManifest

LEMMA IdentifyIInv == ASSUME CodexIInv, NEW c \in Runs, Identify(c) PROVE CodexIInv'
  <1> DEFINE m == cmd[c]
  <1>1. /\ m \in CodexCommands /\ m.pc = "identify" /\ Placed(m) /\ Owns(m, host[c])
        /\ Watched(m) /\ Dated(m) /\ tree \in Trees
    BY CodexFacts DEF Identify, At
  <1>2. m.kind = "full" /\ m.pc \in Unwritten
    BY <1>1 DEF Placed, Early, Unwritten
  <1>3. CASE Only(c, Abort(c, Plain("error")))
    BY <1>2, <1>3, AbortStep
  <1>4. CASE Only(c, [Go(c, "marketplace") EXCEPT !.inputs = tree])
    <2> DEFINE r == [Go(c, "marketplace") EXCEPT !.inputs = tree]
    <2>1. r \in CodexCommands
      BY <1>1 DEF CodexCommands, Go, Early
    <2>2. /\ r.pc = "marketplace" /\ r.kind = m.kind /\ r.seen = m.seen /\ r.output = m.output
          /\ r.verified = m.verified /\ r.aborted = m.aborted /\ r.used = m.used /\ r.edited = m.edited
          /\ r.inputs = tree
      BY <1>1 DEF CodexCommands, Go
    <2>3. Only(c, r)
      BY <1>4
    <2> HIDE DEF r, m
    <2>5. Placed(r) /\ Owns(r, host[c]) /\ Watched(r)
      BY <1>1, <1>2, <2>2
         DEF Placed, Owns, Watched, Early, Lifecycle, Removal, After, Over
    <2>6. Dated(r) /\ CodexEvident(c, r, host[c])
      BY <1>1, <1>2, <2>2
         DEF Dated, CodexEvident, Unwritten, Early, Lifecycle, Removal, Recorded
    <2>7. Follows(m, r)
      BY <1>2, <2>2, UnwrittenFollows
    <2> QED
      BY <2>1, <2>3, <2>5, <2>6, <2>7, CodexOnlyStep DEF Sound, m
  <1> QED
    BY <1>3, <1>4 DEF Identify
LEMMA PrepareMarketplaceIInv ==
  ASSUME CodexIInv, NEW c \in Runs, PrepareMarketplace(c) PROVE CodexIInv'
  <1> DEFINE m == cmd[c]
  <1>1. /\ m \in CodexCommands /\ m.pc = "marketplace" /\ Placed(m) /\ Owns(m, host[c])
        /\ Watched(m) /\ host[c] \in Holdings /\ tree \in Trees
    BY CodexFacts DEF PrepareMarketplace, At
  <1>2. m.kind = "full" /\ m.pc \in Unwritten
    BY <1>1 DEF Placed, Early, Unwritten
  <1>3. CASE Only(c, Abort(c, Plain("error")))
    BY <1>2, <1>3, AbortStep
  <1>4. CASE Only(c, [Go(c, "add_marketplace") EXCEPT !.used = @ \cup {tree}])
    <2> DEFINE used == m.used \cup {tree}
               r == [m EXCEPT !.pc = "add_marketplace", !.used = used]
    <2>1. r = [Go(c, "add_marketplace") EXCEPT !.used = @ \cup {tree}] /\ used \in SUBSET Trees
      BY <1>1 DEF CodexCommands, Go
    <2>2. used = m.used \cup {tree}
      OBVIOUS
    <2>3. /\ Become(c, r) /\ UNCHANGED <<tree, files>> /\ host' = [host EXCEPT ![c] = host[c]]
      BY <1>4, <2>1 DEF Only, CodexIInv, CodexTypeOK
    <2> HIDE DEF m, used
    <2>4. r \in CodexCommands
      BY <1>1, <2>1 DEF CodexCommands, Lifecycle
    <2>5. /\ r.pc = "add_marketplace" /\ r.kind = m.kind /\ r.seen = m.seen
          /\ r.output = m.output /\ r.inputs = m.inputs /\ r.verified = m.verified
          /\ r.aborted = m.aborted /\ r.used = used /\ r.edited = m.edited
      BY <1>1 DEF CodexCommands
    <2> HIDE DEF r
    <2>6. Watched(r)
      BY <1>1, <1>2, <2>5 DEF Watched, Removal, After
    <2>7. ~host[c].market /\ ~host[c].plugin /\ host[c].cache = "none"
      BY <1>1 DEF Owns, Early, Spotless
    <2>8. r.pc \in Lifecycle /\ m.pc \in {"marketplace"} \cup Lifecycle /\ r.pc # "list"
      BY <1>1, <2>5 DEF Lifecycle
    <2> QED
      BY <1>1, <2>2, <2>3, <2>4, <2>5, <2>6, <2>7, <2>8, LifecycleStep DEF m
  <1> QED
    BY <1>3, <1>4 DEF PrepareMarketplace

\* A command of the host, with what it changes of the local variables.
LEMMA HostStep ==
  ASSUME CodexIInv, NEW c \in Runs, NEW r \in CodexCommands, NEW h \in Holdings,
         cmd[c].pc \in Lifecycle, r.pc \in Lifecycle, Host(c, r, h),
         r.kind = cmd[c].kind, r.output = cmd[c].output, r.inputs = cmd[c].inputs,
         r.aborted = cmd[c].aborted, r.verified = cmd[c].verified,
         r.used = cmd[c].used, r.edited = cmd[c].edited,
         r.market \/ ~h.market,
         r.plugin \/ (~h.plugin /\ h.cache = "none"),
         r.pc = "list" /\ ~r.errors => h.cache = "none",
         Watched(r)
  PROVE  CodexIInv'
  BY LifecycleStep DEF Host

LEMMA AddMarketplaceIInv ==
  ASSUME CodexIInv, NEW c \in Runs, AddMarketplace(c) PROVE CodexIInv'
  <1> DEFINE m == cmd[c]
             flagged(r) == [r EXCEPT !.market = TRUE]
             added == [host[c] EXCEPT !.market = TRUE]
  <1>1. /\ m \in CodexCommands /\ m.pc = "add_marketplace" /\ Placed(m) /\ Owns(m, host[c])
        /\ Watched(m) /\ host[c] \in Holdings
    BY CodexFacts DEF AddMarketplace, At
  <1>2. /\ m.plugin \/ (~host[c].plugin /\ host[c].cache = "none")
        /\ m.kind = "full"
    BY <1>1 DEF Owns, Placed, Lifecycle
  <1>3. /\ added \in Holdings /\ added.plugin = host[c].plugin /\ added.cache = host[c].cache
    BY <1>1 DEF Holdings
  <1>4. ASSUME NEW r \in CodexCommands, NEW h \in {host[c], added}, Host(c, r, h),
               \/ r.pc = "add_plugin"
               \/ r.pc = "remove_plugin" /\ r.error # "none",
               r.market, r.kind = m.kind, r.output = m.output, r.inputs = m.inputs,
               r.aborted = m.aborted, r.verified = m.verified, r.plugin = m.plugin,
               r.used = m.used /\ r.edited = m.edited, r.seen = m.seen
        PROVE  CodexIInv'
    <2>1. h \in Holdings /\ h.plugin = host[c].plugin /\ h.cache = host[c].cache
      BY <1>1, <1>3, <1>4
    <2>2. Watched(r)
      BY <1>1, <1>2, <1>4 DEF Watched, Removal, After
    <2>3. r.pc \in Lifecycle /\ m.pc \in Lifecycle
      BY <1>1, <1>4 DEF Lifecycle, Removal
    <2>4. r.pc # "list"
      BY <1>4
    <2> HIDE DEF added
    <2> QED
      BY <1>1, <1>2, <1>4, <2>1, <2>2, <2>3, <2>4, HostStep
  <1>5. CASE Host(c, flagged(Go(c, "add_plugin")), added)
    <2> DEFINE r == flagged(Go(c, "add_plugin"))
    <2>1. r \in CodexCommands
      BY <1>1, ZenonT(30) DEF CodexCommands, Go, Lifecycle
    <2>2. /\ r.pc = "add_plugin" /\ r.market /\ r.kind = m.kind /\ r.output = m.output
          /\ r.inputs = m.inputs /\ r.aborted = m.aborted /\ r.verified = m.verified
          /\ r.plugin = m.plugin /\ r.used = m.used /\ r.edited = m.edited /\ r.seen = m.seen
      BY <1>1 DEF CodexCommands, Go
    <2>3. Host(c, r, added)
      BY <1>5
    <2> HIDE DEF r, added, m
    <2> QED
      BY <1>4, <2>1, <2>2, <2>3
  <1>6. ASSUME NEW h \in {host[c], added}, Host(c, flagged(Fail(c, "error")), h)
        PROVE  CodexIInv'
    <2> DEFINE r == flagged(Fail(c, "error"))
    <2>1. r \in CodexCommands
      BY <1>1, ZenonT(30) DEF CodexCommands, Go, Fail, Lifecycle, Removal, SessionRaises
    <2>2. /\ r.pc = "remove_plugin" /\ r.error = "error" /\ r.market /\ r.kind = m.kind
          /\ r.output = m.output
          /\ r.inputs = m.inputs /\ r.aborted = m.aborted /\ r.verified = m.verified
          /\ r.plugin = m.plugin /\ r.used = m.used /\ r.edited = m.edited /\ r.seen = m.seen
      BY <1>1 DEF CodexCommands, Go, Fail
    <2>3. Host(c, r, h)
      BY <1>6
    <2> HIDE DEF r, added, m
    <2> QED
      BY <1>4, <2>1, <2>2, <2>3
  <1> QED
    BY <1>5, <1>6 DEF AddMarketplace

LEMMA AddPluginIInv ==
  ASSUME CodexIInv, NEW c \in Runs, AddPlugin(c) PROVE CodexIInv'
  <1> DEFINE m == cmd[c]
             flagged(r) == [r EXCEPT !.plugin = TRUE]
             added == [host[c] EXCEPT !.plugin = TRUE, !.cache = "full"]
             partial == {[host[c] EXCEPT !.cache = k] : k \in Caches}
  <1>1. /\ m \in CodexCommands /\ m.pc = "add_plugin" /\ Placed(m) /\ Owns(m, host[c])
        /\ Watched(m) /\ host[c] \in Holdings
    BY CodexFacts DEF AddPlugin, At
  <1>2. (m.market \/ ~host[c].market) /\ m.kind = "full"
    BY <1>1 DEF Owns, Placed, Lifecycle
  <1>3. \A h \in partial \cup {added} : h \in Holdings /\ h.market = host[c].market
    BY <1>1 DEF Holdings, Caches
  <1>4. ASSUME NEW r \in CodexCommands, NEW h \in partial \cup {added}, Host(c, r, h),
               \/ r.pc = "hook"
               \/ r.pc = "remove_plugin" /\ r.error # "none",
               r.plugin, r.kind = m.kind, r.output = m.output, r.inputs = m.inputs,
               r.aborted = m.aborted, r.verified = m.verified, r.market = m.market,
               r.used = m.used /\ r.edited = m.edited, r.seen = m.seen
        PROVE  CodexIInv'
    <2>1. h \in Holdings /\ h.market = host[c].market
      BY <1>3, <1>4
    <2>2. Watched(r)
      BY <1>1, <1>2, <1>4 DEF Watched, Removal, After
    <2>3. r.pc \in Lifecycle /\ m.pc \in Lifecycle /\ r.pc # "list"
      BY <1>1, <1>4 DEF Lifecycle, Removal
    <2> HIDE DEF added, partial
    <2> QED
      BY <1>1, <1>2, <1>4, <2>1, <2>2, <2>3, HostStep
  <1>5. CASE Host(c, [flagged(Go(c, "hook")) EXCEPT !.stage = "plugin-scenarios"], added)
    <2> DEFINE r == [flagged(Go(c, "hook")) EXCEPT !.stage = "plugin-scenarios"]
    <2>1. r \in CodexCommands
      BY <1>1, ZenonT(30) DEF CodexCommands, Go, Lifecycle
    <2>2. /\ r.pc = "hook" /\ r.plugin /\ r.kind = m.kind /\ r.output = m.output
          /\ r.inputs = m.inputs /\ r.aborted = m.aborted /\ r.verified = m.verified
          /\ r.market = m.market /\ r.used = m.used /\ r.edited = m.edited /\ r.seen = m.seen
      BY <1>1 DEF CodexCommands, Go
    <2>3. Host(c, r, added)
      BY <1>5
    <2> HIDE DEF r, added, m, partial
    <2> QED
      BY <1>4, <2>1, <2>2, <2>3
  <1>6. ASSUME NEW h \in partial \cup {added}, Host(c, flagged(Fail(c, "error")), h)
        PROVE  CodexIInv'
    <2> DEFINE r == flagged(Fail(c, "error"))
    <2>1. r \in CodexCommands
      BY <1>1, ZenonT(30) DEF CodexCommands, Go, Fail, Lifecycle, Removal, SessionRaises
    <2>2. /\ r.pc = "remove_plugin" /\ r.error = "error" /\ r.plugin /\ r.kind = m.kind
          /\ r.output = m.output
          /\ r.inputs = m.inputs /\ r.aborted = m.aborted /\ r.verified = m.verified
          /\ r.market = m.market /\ r.used = m.used /\ r.edited = m.edited /\ r.seen = m.seen
      BY <1>1 DEF CodexCommands, Go, Fail
    <2>3. Host(c, r, h)
      BY <1>6
    <2> HIDE DEF r, added, m, partial
    <2> QED
      BY <1>4, <2>1, <2>2, <2>3
  <1> QED
    BY <1>5, <1>6 DEF AddPlugin
\* A step of the lifecycle that leaves the host alone.
LEMMA QuietStep ==
  ASSUME CodexIInv, NEW c \in Runs, NEW r \in CodexCommands,
         cmd[c].pc \in Lifecycle, r.pc \in Lifecycle, Only(c, r),
         r.kind = cmd[c].kind, r.output = cmd[c].output, r.inputs = cmd[c].inputs,
         r.aborted = cmd[c].aborted, r.verified = cmd[c].verified,
         r.used \in {cmd[c].used, cmd[c].used \cup {tree}}, r.edited = cmd[c].edited,
         r.market = cmd[c].market, r.plugin = cmd[c].plugin,
         r.pc = "list" /\ ~r.errors => host[c].cache = "none",
         Watched(r)
  PROVE  CodexIInv'
  <1>1. host \in [Runs -> Holdings]
    BY DEF CodexIInv, CodexTypeOK
  <1>2. host' = [host EXCEPT ![c] = host[c]] /\ host[c] \in Holdings
    BY <1>1 DEF Only
  <1>3. /\ cmd[c].market \/ ~host[c].market
        /\ cmd[c].plugin \/ (~host[c].plugin /\ host[c].cache = "none")
    BY CodexFacts DEF Owns
  <1> QED
    BY <1>2, <1>3, LifecycleStep DEF Only

LEMMA SessionIInv ==
  ASSUME CodexIInv, NEW c \in Runs,
         \/ At(c, "hook") /\ Session(c, "hook", "plugin")
         \/ At(c, "plugin") /\ Session(c, "plugin", "remove_plugin")
  PROVE  CodexIInv'
  <1> DEFINE m == cmd[c]
  <1>1. /\ m \in CodexCommands /\ m.pc \in {"hook", "plugin"} /\ Placed(m) /\ Owns(m, host[c])
        /\ Watched(m)
    BY CodexFacts DEF At
  <1>2. m.kind = "full" /\ m.pc \in Lifecycle
    BY <1>1 DEF Placed, Lifecycle
  <1>3. ASSUME NEW e \in SessionRaises, Only(c, Fail(c, e)) PROVE CodexIInv'
    <2> DEFINE r == Fail(c, e)
    <2>1. r \in CodexCommands
      <3>1. r = [m EXCEPT !.pc = "remove_plugin", !.error = e]
        BY DEF Fail, Go
      <3>2. e \in SessionRaises \cup {"none"} /\ "remove_plugin" \in Lifecycle
        BY DEF Lifecycle, Removal
      <3> QED
        BY <1>1, <3>1, <3>2, ZenonT(30) DEF CodexCommands
    <2>2. /\ r.pc = "remove_plugin" /\ r.error # "none" /\ r.plugin = m.plugin /\ r.kind = m.kind
          /\ r.output = m.output
          /\ r.inputs = m.inputs /\ r.aborted = m.aborted /\ r.verified = m.verified
          /\ r.market = m.market /\ r.used = m.used /\ r.edited = m.edited /\ r.seen = m.seen
      BY <1>1 DEF CodexCommands, Go, Fail, SessionRaises
    <2>3. Only(c, r)
      BY <1>3
    <2> HIDE DEF r
    <2>4. Watched(r)
      BY <1>1, <1>2, <2>2 DEF Watched, Removal, After
    <2>5. r.pc \in Lifecycle /\ r.pc # "list"
      BY <2>2 DEF Lifecycle, Removal
    <2> QED
      BY <1>2, <2>1, <2>2, <2>3, <2>4, <2>5, QuietStep
  <1>4. ASSUME NEW s \in {"hook", "plugin"}, NEW next, NEW j \in Possible[s], m.pc = s,
               next = IF s = "hook" THEN "plugin" ELSE "remove_plugin",
               Only(c, Judged(c, s, j, next))
        PROVE  CodexIInv'
    <2> DEFINE seen == [m.seen EXCEPT ![s] = j]
               used == m.used \cup {tree}
               r == [m EXCEPT !.pc = next, !.seen = seen, !.used = used]
    <2>1. j \in Judgements /\ j # "none" /\ s \in Sessions
      BY EvaluationAssumption DEF EvaluationAssumption, Sessions, Judgements
    <2>2. /\ m.seen \in [Sessions -> Judgements \cup {"none"}]
          /\ seen \in [Sessions -> Judgements \cup {"none"}]
      BY <1>1, <2>1 DEF CodexCommands
    <2>3. used \in SUBSET Trees
      BY <1>1, CodexFacts DEF CodexCommands
    <2>4. Only(c, r)
      <3>1. r = Judged(c, s, j, next)
        BY <1>1 DEF Judged, Go, CodexCommands
      <3> QED
        BY <1>4, <3>1
    <2>5. /\ r \in CodexCommands
          /\ r.pc = next /\ r.plugin = m.plugin /\ r.kind = m.kind /\ r.output = m.output
          /\ r.inputs = m.inputs /\ r.aborted = m.aborted /\ r.verified = m.verified
          /\ r.market = m.market /\ r.used = m.used \cup {tree} /\ r.edited = m.edited
          /\ r.seen = [m.seen EXCEPT ![s] = j]
      <3>1. next \in Lifecycle
        BY <1>4 DEF Lifecycle, Removal
      <3>2. used = m.used \cup {tree} /\ seen = [m.seen EXCEPT ![s] = j]
        OBVIOUS
      <3> HIDE DEF seen, used, m
      <3>3. r \in CodexCommands
        BY <1>1, <2>2, <2>3, <3>1, ZenonT(30) DEF CodexCommands
      <3>4. /\ r.pc = next /\ r.plugin = m.plugin /\ r.kind = m.kind /\ r.output = m.output
            /\ r.inputs = m.inputs /\ r.aborted = m.aborted /\ r.verified = m.verified
            /\ r.market = m.market /\ r.used = used /\ r.edited = m.edited /\ r.seen = seen
        BY <1>1 DEF CodexCommands
      <3> QED
        BY <3>2, <3>3, <3>4
    <2> HIDE DEF r
    <2>6. Watched(r)
      <3>1. \A x \in Sessions : r.seen[x] \in Possible[x] \cup {"none"}
        BY <1>1, <1>4, <2>1, <2>2, <2>5 DEF Watched
      <3>2. /\ r.seen[s] # "none"
            /\ s = "plugin" => r.seen["hook"] = m.seen["hook"] /\ m.seen["hook"] # "none"
        BY <1>1, <1>4, <2>1, <2>2, <2>5 DEF Watched, Sessions
      <3> QED
        BY <1>2, <1>4, <2>5, <3>1, <3>2 DEF Watched, BothSeen, Removal, After
    <2>7. r.pc \in Lifecycle /\ r.pc # "list"
      BY <1>4, <2>5 DEF Lifecycle, Removal
    <2> QED
      BY <1>2, <2>4, <2>5, <2>6, <2>7, QuietStep
  <1> QED
    BY <1>3, <1>4 DEF At, Session

\* How a removal ends.
LEMMA CleanedIInv ==
  ASSUME CodexIInv, NEW c \in Runs, cmd[c].pc \in Removal, NEW e \in {"none", "error"},
         e = "none" => Spotless(host[c]),
         Only(c, Cleaned(c, e))
  PROVE  CodexIInv'
  <1> DEFINE m == cmd[c]
             first == IF m.error # "none" THEN m.error ELSE e
             next == IF first = "none" THEN "missing" ELSE "leave"
             ok == e = "none"
             failure == AbortedRun(first, m.stage, ok)
             a == IF first = "none" THEN m.aborted ELSE failure
             r == [m EXCEPT !.pc = next, !.market = FALSE, !.plugin = FALSE,
                            !.stage = "plugin-preflight", !.error = "none", !.errors = FALSE,
                            !.verified = ok, !.aborted = a]
  <1>1. /\ m \in CodexCommands /\ m.pc \in Removal /\ Placed(m) /\ Owns(m, host[c])
        /\ Watched(m) /\ Dated(m) /\ tree \in Trees
    BY CodexFacts
  <1>2. m.kind = "full" /\ m.aborted = None /\ ~m.verified
        /\ m.pc \in Unwritten \ {"manifest", "identify", "leave", "write"} /\ m.pc \notin Over
    BY <1>1 DEF Placed, Owns, Unwritten, Early, Lifecycle, Removal, After, Over
  <1>3. Only(c, r)
    <2>1. r = Cleaned(c, e)
      <3>1. CASE first = "none"
        BY <1>1, <3>1 DEF Cleaned, Go, CodexCommands
      <3>2. CASE first # "none"
        BY <1>1, <3>2 DEF Cleaned, Go, CodexCommands
      <3> QED
        BY <3>1, <3>2
    <2> QED
      BY <2>1
  <1>4. /\ next \in {"missing", "leave"} /\ ok \in BOOLEAN
        /\ next = "missing" => m.error = "none" /\ ok /\ a = None
        /\ ok => Spotless(host[c])
    BY <1>2
  <1>5. next = "leave" => /\ a \in AbortedRuns /\ a # None /\ a.failed_stage # "missing-cli"
                          /\ a.cleanup_verified = ok
    <2> SUFFICES ASSUME first # "none"
                 PROVE  /\ failure \in AbortedRuns /\ failure # None
                        /\ failure.failed_stage # "missing-cli"
                        /\ failure.cleanup_verified = ok
      OBVIOUS
    <2>1. first \in SessionRaises /\ m.stage \in {"plugin-preflight", "plugin-scenarios"}
      BY <1>1 DEF CodexCommands, SessionRaises
    <2>2. failure \in AbortedRuns /\ failure.failed_stage = m.stage
          /\ failure.cleanup_verified = ok
      BY <1>4, <2>1 DEF AbortedRun, AbortedRuns, Stages
    <2>3. None \notin AbortedRuns
      BY EvaluationAssumption DEF EvaluationAssumption
    <2> QED
      BY <2>1, <2>2, <2>3
  <1> HIDE DEF m, first, next, ok, failure, a
  <1>6. r \in CodexCommands
    <2>1. /\ next \in After /\ a \in AbortedRuns \cup {None}
          /\ "none" \in SessionRaises \cup {"none"}
      BY <1>4, <1>5 DEF After
    <2> QED
      BY <1>1, <1>4, <2>1, ZenonT(30) DEF CodexCommands
  <1>7. /\ r.pc = next /\ r.kind = m.kind /\ r.output = m.output /\ r.seen = m.seen
        /\ r.inputs = m.inputs /\ r.aborted = a /\ r.verified = ok
        /\ r.used = m.used /\ r.edited = m.edited
    BY <1>1 DEF CodexCommands
  <1> HIDE DEF r
  <1>8. Placed(r) /\ Owns(r, host[c])
    BY <1>1, <1>2, <1>4, <1>5, <1>7
       DEF Placed, Owns, Early, Lifecycle, Removal, After, Over
  <1>9. Watched(r)
    BY <1>1, <1>2, <1>4, <1>5, <1>7 DEF Watched, BothSeen, Removal, After
  <1>10. Dated(r) /\ CodexEvident(c, r, host[c])
    BY <1>1, <1>2, <1>4, <1>7
       DEF Dated, CodexEvident, Unwritten, Early, Lifecycle, Removal, Recorded
  <1>11. Follows(m, r)
    BY <1>2, <1>4, <1>7, UnwrittenFollows
  <1> QED
    BY <1>3, <1>6, <1>8, <1>9, <1>10, <1>11, CodexOnlyStep DEF Sound, m

LEMMA RemovePluginIInv ==
  ASSUME CodexIInv, NEW c \in Runs, RemovePlugin(c) PROVE CodexIInv'
  <1> DEFINE m == cmd[c]
  <1>1. /\ m \in CodexCommands /\ m.pc = "remove_plugin" /\ Placed(m) /\ Owns(m, host[c])
        /\ Watched(m) /\ host[c] \in Holdings
    BY CodexFacts DEF RemovePlugin, At
  <1>2. /\ m.kind = "full" /\ m.pc \in Lifecycle /\ m.pc \in Removal
        /\ m.market \/ ~host[c].market
    BY <1>1 DEF Placed, Owns, Lifecycle, Removal
  <1>3. CASE Only(c, Go(c, "remove_marketplace"))
    <2> DEFINE r == Go(c, "remove_marketplace")
    <2>1. r \in CodexCommands
      BY <1>1 DEF CodexCommands, Go, Lifecycle, Removal
    <2>2. /\ r.pc = "remove_marketplace" /\ r.error = m.error /\ r.plugin = m.plugin
          /\ r.kind = m.kind /\ r.output = m.output
          /\ r.inputs = m.inputs /\ r.aborted = m.aborted /\ r.verified = m.verified
          /\ r.market = m.market /\ r.used = m.used /\ r.edited = m.edited /\ r.seen = m.seen
      BY <1>1 DEF CodexCommands, Go
    <2>3. Only(c, r)
      BY <1>3
    <2> HIDE DEF r
    <2>4. Watched(r)
      BY <1>1, <1>2, <2>2 DEF Watched, BothSeen, Removal, After
    <2>5. r.pc \in Lifecycle /\ r.pc # "list"
      BY <2>2 DEF Lifecycle, Removal
    <2> QED
      BY <1>2, <2>1, <2>2, <2>3, <2>4, <2>5, QuietStep
  <1>4. ASSUME m.plugin, NEW failed \in BOOLEAN,
               NEW h \in {host[c]} \cup {[host[c] EXCEPT !.plugin = FALSE, !.cache = k] :
                                         k \in Caches},
               Host(c, [Go(c, "remove_marketplace") EXCEPT !.errors = failed], h)
        PROVE  CodexIInv'
    <2> DEFINE r == [Go(c, "remove_marketplace") EXCEPT !.errors = failed]
    <2>1. r \in CodexCommands
      BY <1>1, ZenonT(30) DEF CodexCommands, Go, Lifecycle, Removal
    <2>2. /\ r.pc = "remove_marketplace" /\ r.error = m.error /\ r.plugin = m.plugin
          /\ r.kind = m.kind /\ r.output = m.output
          /\ r.inputs = m.inputs /\ r.aborted = m.aborted /\ r.verified = m.verified
          /\ r.market = m.market /\ r.used = m.used /\ r.edited = m.edited /\ r.seen = m.seen
      BY <1>1 DEF CodexCommands, Go
    <2>3. Host(c, r, h) /\ h \in Holdings /\ h.market = host[c].market
      BY <1>1, <1>4 DEF Holdings, Caches
    <2> HIDE DEF r
    <2>4. Watched(r)
      BY <1>1, <1>2, <2>2 DEF Watched, BothSeen, Removal, After
    <2>5. r.pc \in Lifecycle /\ r.pc # "list"
      BY <2>2 DEF Lifecycle, Removal
    <2> QED
      BY <1>2, <1>4, <2>1, <2>2, <2>3, <2>4, <2>5, HostStep
  <1>5. CASE Interrupted(c)
    BY <1>2, <1>5, CleanedIInv DEF Interrupted
  <1> QED
    BY <1>3, <1>4, <1>5 DEF RemovePlugin
LEMMA RemoveMarketplaceIInv ==
  ASSUME CodexIInv, NEW c \in Runs, RemoveMarketplace(c) PROVE CodexIInv'
  <1> DEFINE m == cmd[c]
  <1>1. /\ m \in CodexCommands /\ m.pc = "remove_marketplace" /\ Placed(m) /\ Owns(m, host[c])
        /\ Watched(m) /\ host[c] \in Holdings
    BY CodexFacts DEF RemoveMarketplace, At
  <1>2. /\ m.kind = "full" /\ m.pc \in Lifecycle /\ m.pc \in Removal
        /\ m.plugin \/ (~host[c].plugin /\ host[c].cache = "none")
    BY <1>1 DEF Placed, Owns, Lifecycle, Removal
  <1>3. CASE Only(c, Go(c, "remove_cache"))
    <2> DEFINE r == Go(c, "remove_cache")
    <2>1. r \in CodexCommands
      BY <1>1 DEF CodexCommands, Go, Lifecycle, Removal
    <2>2. /\ r.pc = "remove_cache" /\ r.error = m.error /\ r.plugin = m.plugin
          /\ r.kind = m.kind /\ r.output = m.output
          /\ r.inputs = m.inputs /\ r.aborted = m.aborted /\ r.verified = m.verified
          /\ r.market = m.market /\ r.used = m.used /\ r.edited = m.edited /\ r.seen = m.seen
      BY <1>1 DEF CodexCommands, Go
    <2>3. Only(c, r)
      BY <1>3
    <2> HIDE DEF r
    <2>4. Watched(r)
      BY <1>1, <1>2, <2>2 DEF Watched, BothSeen, Removal, After
    <2>5. r.pc \in Lifecycle /\ r.pc # "list"
      BY <2>2 DEF Lifecycle, Removal
    <2> QED
      BY <1>2, <2>1, <2>2, <2>3, <2>4, <2>5, QuietStep
  <1>4. ASSUME m.market, NEW failed \in BOOLEAN, NEW gone \in BOOLEAN,
               Host(c, [Go(c, "remove_cache") EXCEPT !.errors = @ \/ failed],
                    [host[c] EXCEPT !.market = @ /\ ~gone])
        PROVE  CodexIInv'
    <2> DEFINE r == [Go(c, "remove_cache") EXCEPT !.errors = @ \/ failed]
               h == [host[c] EXCEPT !.market = @ /\ ~gone]
    <2>1. r \in CodexCommands
      <3> DEFINE errors == m.errors \/ failed
      <3>1. errors \in BOOLEAN /\ r = [m EXCEPT !.pc = "remove_cache", !.errors = errors]
        BY <1>1 DEF CodexCommands, Go
      <3> HIDE DEF r, m, errors
      <3> QED
        BY <1>1, <3>1 DEF CodexCommands, Lifecycle, Removal
    <2>2. /\ r.pc = "remove_cache" /\ r.error = m.error /\ r.plugin = m.plugin
          /\ r.kind = m.kind /\ r.output = m.output
          /\ r.inputs = m.inputs /\ r.aborted = m.aborted /\ r.verified = m.verified
          /\ r.market = m.market /\ r.used = m.used /\ r.edited = m.edited /\ r.seen = m.seen
      BY <1>1 DEF CodexCommands, Go
    <2>3. h \in Holdings /\ h.plugin = host[c].plugin /\ h.cache = host[c].cache
      <3> DEFINE market == host[c].market /\ ~gone
      <3>1. market \in BOOLEAN /\ h = [host[c] EXCEPT !.market = market]
        BY <1>1 DEF Holdings
      <3> HIDE DEF market, h
      <3> QED
        BY <1>1, <3>1 DEF Holdings
    <2>4. Host(c, r, h)
      BY <1>4
    <2> HIDE DEF r, h
    <2>5. Watched(r)
      BY <1>1, <1>2, <2>2 DEF Watched, BothSeen, Removal, After
    <2>6. r.pc \in Lifecycle /\ r.pc # "list"
      BY <2>2 DEF Lifecycle, Removal
    <2> QED
      BY <1>2, <1>4, <2>1, <2>2, <2>3, <2>4, <2>5, <2>6, HostStep
  <1>5. CASE Interrupted(c)
    BY <1>2, <1>5, CleanedIInv DEF Interrupted
  <1> QED
    BY <1>3, <1>4, <1>5 DEF RemoveMarketplace

LEMMA RemoveCacheIInv ==
  ASSUME CodexIInv, NEW c \in Runs, RemoveCache(c) PROVE CodexIInv'
  <1> DEFINE m == cmd[c]
  <1>1. /\ m \in CodexCommands /\ m.pc = "remove_cache" /\ Placed(m) /\ Owns(m, host[c])
        /\ Watched(m) /\ host[c] \in Holdings
    BY CodexFacts DEF RemoveCache, At
  <1>2. /\ m.kind = "full" /\ m.pc \in Lifecycle
        /\ m.market \/ ~host[c].market
        /\ m.plugin \/ (~host[c].plugin /\ host[c].cache = "none")
    BY <1>1 DEF Placed, Owns, Lifecycle, Removal
  <1>3. ASSUME NEW r \in CodexCommands, r.pc = "list", r.error = m.error, r.plugin = m.plugin,
               r.kind = m.kind, r.output = m.output, r.inputs = m.inputs,
               r.aborted = m.aborted, r.verified = m.verified, r.market = m.market,
               r.used = m.used /\ r.edited = m.edited, r.seen = m.seen,
               \/ Only(c, r) /\ (r.errors \/ host[c].cache = "none")
               \/ m.plugin /\ Host(c, r, [host[c] EXCEPT !.cache = "none"])
        PROVE  CodexIInv'
    <2>1. Watched(r) /\ r.pc \in Lifecycle
      BY <1>1, <1>2, <1>3 DEF Watched, BothSeen, Removal, Lifecycle, After
    <2>2. CASE Only(c, r) /\ (r.errors \/ host[c].cache = "none")
      BY <1>2, <1>3, <2>1, <2>2, QuietStep
    <2>3. CASE m.plugin /\ Host(c, r, [host[c] EXCEPT !.cache = "none"])
      <3> DEFINE h == [host[c] EXCEPT !.cache = "none"]
      <3>1. h \in Holdings /\ h.cache = "none" /\ h.market = host[c].market /\ Host(c, r, h)
        BY <1>1, <2>3 DEF Holdings, Caches
      <3> HIDE DEF h
      <3> QED
        BY <1>2, <1>3, <2>1, <2>3, <3>1, HostStep
    <2> QED
      BY <1>3, <2>2, <2>3
  <1>4. /\ Go(c, "list") \in CodexCommands
        /\ Go(c, "list") = [m EXCEPT !.pc = "list"]
        /\ [Go(c, "list") EXCEPT !.errors = TRUE] \in CodexCommands
        /\ [Go(c, "list") EXCEPT !.errors = TRUE] = [m EXCEPT !.pc = "list", !.errors = TRUE]
    <2>1. /\ Go(c, "list") = [m EXCEPT !.pc = "list"]
          /\ [Go(c, "list") EXCEPT !.errors = TRUE] = [m EXCEPT !.pc = "list", !.errors = TRUE]
      BY DEF Go
    <2>2. "list" \in Early \cup Lifecycle \cup After \cup Over
      BY DEF Lifecycle, Removal
    <2> HIDE DEF m
    <2>3. [m EXCEPT !.pc = "list"] \in CodexCommands
      BY <1>1, <2>2 DEF CodexCommands
    <2>4. [m EXCEPT !.pc = "list", !.errors = TRUE] \in CodexCommands
      BY <1>1, <2>2, ZenonT(30) DEF CodexCommands
    <2> QED
      BY <2>1, <2>3, <2>4
  <1>5. CASE /\ ~m.plugin \/ host[c].cache = "none"
             /\ Only(c, Go(c, "list"))
    <2> DEFINE r == Go(c, "list")
    <2>1. /\ r \in CodexCommands /\ r.pc = "list" /\ r.error = m.error /\ r.plugin = m.plugin
          /\ r.kind = m.kind /\ r.output = m.output /\ r.inputs = m.inputs
          /\ r.aborted = m.aborted /\ r.verified = m.verified /\ r.market = m.market
          /\ r.used = m.used /\ r.edited = m.edited /\ r.seen = m.seen
      BY <1>1, <1>4 DEF CodexCommands
    <2>2. Only(c, r) /\ host[c].cache = "none"
      BY <1>2, <1>5
    <2> HIDE DEF r, m
    <2> QED
      BY <1>3, <2>1, <2>2
  <1>6. CASE Only(c, [Go(c, "list") EXCEPT !.errors = TRUE])
    <2> DEFINE r == [Go(c, "list") EXCEPT !.errors = TRUE]
    <2>1. /\ r \in CodexCommands /\ r.pc = "list" /\ r.error = m.error /\ r.plugin = m.plugin
          /\ r.kind = m.kind /\ r.output = m.output /\ r.inputs = m.inputs
          /\ r.aborted = m.aborted /\ r.verified = m.verified /\ r.market = m.market
          /\ r.used = m.used /\ r.edited = m.edited /\ r.seen = m.seen /\ r.errors
      BY <1>1, <1>4 DEF CodexCommands
    <2>2. Only(c, r)
      BY <1>6
    <2> HIDE DEF r, m
    <2> QED
      BY <1>3, <2>1, <2>2
  <1>7. CASE m.plugin /\ Host(c, Go(c, "list"), [host[c] EXCEPT !.cache = "none"])
    <2> DEFINE r == Go(c, "list")
    <2>1. /\ r \in CodexCommands /\ r.pc = "list" /\ r.error = m.error /\ r.plugin = m.plugin
          /\ r.kind = m.kind /\ r.output = m.output /\ r.inputs = m.inputs
          /\ r.aborted = m.aborted /\ r.verified = m.verified /\ r.market = m.market
          /\ r.used = m.used /\ r.edited = m.edited /\ r.seen = m.seen
      BY <1>1, <1>4 DEF CodexCommands
    <2>2. m.plugin /\ Host(c, r, [host[c] EXCEPT !.cache = "none"])
      BY <1>7
    <2> HIDE DEF r, m
    <2> QED
      BY <1>3, <2>1, <2>2
  <1> QED
    BY <1>5, <1>6, <1>7 DEF RemoveCache

LEMMA ListStateIInv ==
  ASSUME CodexIInv, NEW c \in Runs, ListState(c) PROVE CodexIInv'
  <1>1. cmd[c].pc = "list" /\ cmd[c].pc \in Removal /\ Owns(cmd[c], host[c])
    BY CodexFacts DEF ListState, At, Removal
  <1>2. CASE Only(c, Cleaned(c, "error")) \/ Interrupted(c)
    BY <1>1, <1>2, CleanedIInv DEF Interrupted
  <1>3. CASE /\ ~cmd[c].errors /\ installed = {} /\ ~host[c].market
             /\ Only(c, Cleaned(c, "none"))
    <2>1. Spotless(host[c])
      BY <1>1, <1>3 DEF Owns, Spotless, installed
    <2> QED
      BY <1>1, <1>3, <2>1, CleanedIInv
  <1> QED
    BY <1>2, <1>3 DEF ListState

\* A step between the lifecycle and the evidence.
LEMMA LateStep ==
  ASSUME CodexIInv, NEW c \in Runs, NEW r \in CodexCommands,
         cmd[c].pc \in {"missing", "leave"}, Only(c, r),
         \/ r.pc = "leave"
         \/ r.pc = "write" /\ r.kind = "full" /\ r.aborted = None
         \/ r.pc = "read" /\ (r.kind # "full" \/ r.aborted # None),
         r.kind = cmd[c].kind, r.output = cmd[c].output, r.inputs = cmd[c].inputs,
         r.verified = cmd[c].verified, r.edited = cmd[c].edited,
         \/ r.used = cmd[c].used
         \/ cmd[c].pc = "missing" /\ r.used = cmd[c].used \cup {tree},
         r.aborted = None => cmd[c].aborted = None,
         r.aborted # None /\ r.aborted.cleanup_verified
           /\ r.aborted.failed_stage # "plugin-preflight" => Spotless(host[c]),
         Watched(r)
  PROVE  CodexIInv'
  <1> DEFINE m == cmd[c]
  <1>1. /\ m \in CodexCommands /\ Placed(m) /\ Owns(m, host[c]) /\ Dated(m)
        /\ m.pc \in {"missing", "leave"} /\ (r.aborted = None => m.aborted = None)
        /\ r.kind = m.kind /\ r.output = m.output /\ r.inputs = m.inputs
        /\ r.verified = m.verified /\ r.edited = m.edited
        /\ r.used = m.used \/ (m.pc = "missing" /\ r.used = m.used \cup {tree})
    BY CodexFacts
  <1>2. m.kind \in {"full", "missing-cli-only"} /\ m.pc \in Unwritten /\ m.pc \in After
        /\ m.pc \notin {"manifest", "identify"} /\ r.pc # "append"
    BY <1>1 DEF Placed, Unwritten, After
  <1>3. Follows(m, r)
    BY <1>1, <1>2, UnwrittenFollows
  <1> HIDE DEF m
  <1>4. Placed(r)
    BY <1>1, <1>2 DEF Placed, Early, Lifecycle, Removal, Kinds, Over
  <1>5. Owns(r, host[c])
    BY <1>1, <1>2 DEF Owns, Early, Lifecycle, Removal, After
  <1>6. Dated(r) /\ CodexEvident(c, r, host[c])
    BY <1>1, <1>2 DEF Dated, CodexEvident, Unwritten, Early, Lifecycle, Removal, Recorded
  <1> QED
    BY <1>3, <1>4, <1>5, <1>6, CodexOnlyStep DEF Sound, m
LEMMA MissingCliIInv ==
  ASSUME CodexIInv, NEW c \in Runs, MissingCli(c) PROVE CodexIInv'
  <1> DEFINE m == cmd[c]
  <1>1. /\ m \in CodexCommands /\ m.pc = "missing" /\ Placed(m) /\ Owns(m, host[c]) /\ Watched(m)
    BY CodexFacts DEF MissingCli, At
  <1>2. /\ m.kind \in {"full", "missing-cli-only"} /\ m.aborted = None
        /\ m.kind = "full" => m.verified /\ BothSeen(m)
        /\ m.verified => Spotless(host[c])
        /\ m.kind = "missing-cli-only" => Spotless(host[c])
    BY <1>1 DEF Placed, Owns, Watched, After
  <1>4. ASSUME NEW j \in Possible["missing"], Only(c, Judged(c, "missing", j, "leave"))
        PROVE  CodexIInv'
    <2> DEFINE seen == [m.seen EXCEPT !["missing"] = j]
               used == m.used \cup {tree}
               r == [m EXCEPT !.pc = "leave", !.seen = seen, !.used = used]
    <2>1. j \in Judgements /\ "missing" \in Sessions
      BY EvaluationAssumption DEF EvaluationAssumption, Sessions
    <2>2. /\ m.seen \in [Sessions -> Judgements \cup {"none"}]
          /\ seen \in [Sessions -> Judgements \cup {"none"}]
          /\ used \in SUBSET Trees /\ used = m.used \cup {tree}
      BY <1>1, <2>1, CodexFacts DEF CodexCommands
    <2>3. Only(c, r)
      <3>1. r = Judged(c, "missing", j, "leave")
        BY <1>1 DEF Judged, Go, CodexCommands
      <3> QED
        BY <1>4, <3>1
    <2>4. seen["hook"] = m.seen["hook"] /\ seen["plugin"] = m.seen["plugin"]
          /\ \A s \in Sessions : seen[s] \in Possible[s] \cup {"none"}
      BY <1>1, <2>1, <2>2 DEF Watched, Sessions
    <2> HIDE DEF m, seen, used
    <2>5. r \in CodexCommands
      <3>1. "leave" \in After
        BY DEF After
      <3> QED
        BY <1>1, <2>2, <3>1, ZenonT(30) DEF CodexCommands
    <2>6. /\ r.pc = "leave" /\ r.kind = m.kind /\ r.output = m.output /\ r.inputs = m.inputs
          /\ r.verified = m.verified /\ r.used = used /\ r.edited = m.edited
          /\ r.aborted = m.aborted /\ r.seen = seen
      BY <1>1 DEF CodexCommands
    <2> HIDE DEF r
    <2>7. Watched(r)
      BY <1>1, <1>2, <2>4, <2>6 DEF Watched, BothSeen, Removal, After
    <2> QED
      BY <1>1, <1>2, <2>2, <2>3, <2>5, <2>6, <2>7, LateStep DEF m
  <1>5. ASSUME NEW a \in AbortedRuns,
               \/ m.kind = "full" /\ a.failed_stage = "missing-cli"
                    /\ a.cleanup_verified = m.verified
               \/ m.kind = "missing-cli-only",
               Only(c, [Go(c, "leave") EXCEPT !.aborted = a])
        PROVE  CodexIInv'
    <2> DEFINE r == [Go(c, "leave") EXCEPT !.aborted = a]
    <2>1. r = [m EXCEPT !.pc = "leave", !.aborted = a] /\ Only(c, r)
      BY <1>5 DEF Go
    <2>2. a # None
      BY EvaluationAssumption DEF EvaluationAssumption
    <2> HIDE DEF r, m
    <2>3. r \in CodexCommands
      BY <1>1, <2>1 DEF CodexCommands, After
    <2>4. /\ r.pc = "leave" /\ r.kind = m.kind /\ r.output = m.output /\ r.inputs = m.inputs
          /\ r.verified = m.verified /\ r.used = m.used /\ r.edited = m.edited /\ r.aborted = a
          /\ r.seen = m.seen
      BY <1>1, <2>1 DEF CodexCommands
    <2>5. Watched(r)
      BY <1>1, <1>2, <1>5, <2>2, <2>4 DEF Watched, BothSeen, Removal, After
    <2>6. a.cleanup_verified /\ a.failed_stage # "plugin-preflight" => Spotless(host[c])
      BY <1>2, <1>5
    <2> QED
      BY <1>1, <2>1, <2>2, <2>3, <2>4, <2>5, <2>6, LateStep DEF m
  <1>6. ASSUME NEW e \in SessionRaises
        PROVE  /\ Plain(e) \in AbortedRuns
               /\ m.verified \in BOOLEAN
               /\ AbortedRun(e, "missing-cli", m.verified) \in AbortedRuns
               /\ AbortedRun(e, "missing-cli", m.verified).failed_stage = "missing-cli"
               /\ AbortedRun(e, "missing-cli", m.verified).cleanup_verified = m.verified
    <2>1. m.verified \in BOOLEAN
      BY <1>1 DEF CodexCommands
    <2> HIDE DEF m
    <2> QED
      BY <2>1 DEF Plain, AbortedRun, AbortedRuns, Stages
  <1>7. CASE m.kind = "missing-cli-only" /\ Only(c, Lose(c))
    BY <1>1, <1>7, LoseStep
  <1> QED
    BY <1>2, <1>4, <1>5, <1>6, <1>7 DEF MissingCli

LEMMA LeaveScratchIInv ==
  ASSUME CodexIInv, NEW c \in Runs, LeaveScratch(c) PROVE CodexIInv'
  <1> DEFINE m == cmd[c]
             next == IF m.aborted = None /\ m.kind = "full" THEN "write" ELSE "read"
  <1>1. /\ m \in CodexCommands /\ m.pc = "leave" /\ Placed(m) /\ Owns(m, host[c]) /\ Watched(m)
    BY CodexFacts DEF LeaveScratch, At
  <1>2. m.kind \in {"full", "missing-cli-only"} /\ m.pc \in Unwritten
    BY <1>1 DEF Placed, Unwritten
  <1>3. CASE Only(c, Go(c, next))
    <2> DEFINE r == Go(c, next)
    <2>1. r = [m EXCEPT !.pc = next] /\ Only(c, r)
      BY <1>3 DEF Go
    <2>2. /\ next \in {"write", "read"}
          /\ next = "write" <=> m.aborted = None /\ m.kind = "full"
      OBVIOUS
    <2> HIDE DEF r, m, next
    <2>3. r \in CodexCommands
      BY <1>1, <2>1, <2>2 DEF CodexCommands, After
    <2>4. /\ r.pc = next /\ r.kind = m.kind /\ r.output = m.output /\ r.inputs = m.inputs
          /\ r.verified = m.verified /\ r.used = m.used /\ r.edited = m.edited /\ r.aborted = m.aborted
          /\ r.seen = m.seen
      BY <1>1, <2>1 DEF CodexCommands
    <2>5. Watched(r)
      BY <1>1, <2>2, <2>4 DEF Watched, BothSeen, Removal, After
    <2>6. r.aborted # None /\ r.aborted.cleanup_verified
            /\ r.aborted.failed_stage # "plugin-preflight" => Spotless(host[c])
      BY <1>1, <2>4 DEF Owns
    <2> QED
      BY <1>1, <1>2, <2>1, <2>2, <2>3, <2>4, <2>5, <2>6, LateStep DEF m
  <1>4. CASE Only(c, Abort(c, Plain("error")))
    BY <1>2, <1>4, AbortStep
  <1>5. CASE m.kind = "missing-cli-only" /\ Only(c, Lose(c))
    BY <1>1, <1>5, LoseStep
  <1> QED
    BY <1>3, <1>4, <1>5 DEF LeaveScratch

(***************************************************************************)
(* What a record says when it is made.                                     *)
(***************************************************************************)
CheckSets ==
  [plugin_preflight: Outcomes, plugin_scenarios: Outcomes, missing_cli_boundary: Outcomes]

SafetySets == [canary: BOOLEAN, writes: BOOLEAN, inspect: BOOLEAN, temporary: BOOLEAN]

LEMMA VerdictsTyped ==
  ASSUME NEW p \in Outcomes, NEW s \in Outcomes, NEW b \in Outcomes
  PROVE  /\ Verdicts(p, s, b) \in CheckSets
         /\ Verdicts(p, s, b).plugin_preflight = p
         /\ Verdicts(p, s, b).plugin_scenarios = s
         /\ Verdicts(p, s, b).missing_cli_boundary = b
  BY DEF Verdicts, CheckSets

LEMMA StageChecks ==
  ASSUME NEW s \in Stages
  PROVE  /\ stage_checks[s] \in CheckSets
         /\ stage_checks[s].missing_cli_boundary # "passed"
         /\ stage_checks[s].missing_cli_boundary = "failed" <=> s = "missing-cli"
         /\ \E k \in attempted(stage_checks[s]) : stage_checks[s][k] # "passed"
         /\ stage_checks[s].plugin_preflight = "passed" <=> s # "plugin-preflight"
         /\ stage_checks[s].plugin_scenarios = "passed" <=> s = "missing-cli"
  <1>1. CASE s = "plugin-preflight"
    <2>1. stage_checks[s] = Verdicts("failed", "not_run", "not_run")
      BY <1>1 DEF stage_checks
    <2>2. "plugin_preflight" \in attempted(stage_checks[s])
      BY <2>1, VerdictsTyped DEF attempted, Checks, Outcomes
    <2> QED
      BY <1>1, <2>1, <2>2, VerdictsTyped DEF Outcomes
  <1>2. CASE s = "plugin-scenarios"
    <2>1. stage_checks[s] = Verdicts("passed", "failed", "not_run")
      BY <1>2 DEF stage_checks
    <2>2. "plugin_scenarios" \in attempted(stage_checks[s])
      BY <2>1, VerdictsTyped DEF attempted, Checks, Outcomes
    <2> QED
      BY <1>2, <2>1, <2>2, VerdictsTyped DEF Outcomes
  <1>3. CASE s = "missing-cli"
    <2>1. stage_checks[s] = Verdicts("passed", "passed", "failed")
      BY <1>3 DEF stage_checks
    <2>2. "missing_cli_boundary" \in attempted(stage_checks[s])
      BY <2>1, VerdictsTyped DEF attempted, Checks, Outcomes
    <2> QED
      BY <1>3, <2>1, <2>2, VerdictsTyped DEF Outcomes
  <1> QED
    BY <1>1, <1>2, <1>3 DEF Stages

\* An aborted run, or probe, is recorded with the checks of its stage.
LEMMA ErrorRecord ==
  ASSUME NEW c \in Runs, cmd[c] \in CodexCommands, NEW a \in AbortedRuns,
         cmd[c].kind \in {"full", "missing-cli-only"}, tree \in Trees,
         NEW h, a.cleanup_verified /\ a.failed_stage # "plugin-preflight" => Spotless(h),
         cmd[c].kind = "missing-cli-only" => Spotless(h),
         cmd[c].kind = "full" /\ a.failed_stage = "missing-cli" => BothSeen(cmd[c])
  PROVE  LET x == attempt_from_error(c, a) IN
         /\ x \in Attempts /\ x.id = c /\ x.raw = None
         /\ Warranted(x, h) /\ Shown(x, cmd[c].seen) /\ (x.safety_pass => ~Refusable(x))
  <1> DEFINE m == cmd[c]
             x == attempt_from_error(c, a)
             checks == IF m.kind = "full" THEN stage_checks[a.failed_stage]
                       ELSE Verdicts("not_run", "not_run", "failed")
             clear == a.error # "canary"
  <1>1. a.failed_stage \in Stages /\ a.cleanup_verified \in BOOLEAN
    BY DEF AbortedRuns
  <1>2. /\ checks \in CheckSets
        /\ checks.missing_cli_boundary # "passed"
        /\ \E k \in attempted(checks) : checks[k] # "passed"
        /\ m.kind = "full" => \E s \in Stages : checks = stage_checks[s]
        /\ m.kind = "full" =>
             /\ checks.plugin_preflight = "passed" <=> a.failed_stage # "plugin-preflight"
             /\ checks.plugin_scenarios = "passed" <=> a.failed_stage = "missing-cli"
             /\ checks.missing_cli_boundary = "failed" <=> a.failed_stage = "missing-cli"
        /\ m.kind # "full" => checks.plugin_scenarios # "passed"
                              /\ attempted(checks) = {"missing_cli_boundary"}
    <2>1. CASE m.kind = "full"
      BY <1>1, <2>1, StageChecks
    <2>2. CASE m.kind # "full"
      <3>1. checks = Verdicts("not_run", "not_run", "failed")
        BY <2>2
      <3>2. attempted(checks) = {"missing_cli_boundary"}
        BY <3>1 DEF attempted, Checks, Verdicts
      <3> QED
        BY <2>2, <3>1, <3>2, VerdictsTyped DEF Outcomes
    <2> QED
      BY <2>1, <2>2
  <1>3. /\ x.id = c /\ x.kind = m.kind /\ x.outcome = "aborted"
        /\ x.inputs.plugin = (m.kind = "full")
        /\ x.checks = checks /\ x.procedural = FALSE
        /\ x.safety = [canary |-> clear, writes |-> TRUE, inspect |-> TRUE,
                       temporary |-> a.cleanup_verified]
        /\ x.safety_pass = (clear /\ a.cleanup_verified)
        /\ x.cleanup = a.cleanup_verified /\ x.failures = TRUE
        /\ x.summary = None /\ x.raw = None /\ x.output = None
    BY DEF attempt_from_error
  <1>4. x \in Attempts
    <2>1. clear \in BOOLEAN /\ (clear /\ a.cleanup_verified) \in BOOLEAN
          /\ (m.kind = "full") \in BOOLEAN
      OBVIOUS
    <2> DEFINE inputs == [tree |-> tree, plugin |-> m.kind = "full"]
               safety == [canary |-> clear, writes |-> TRUE, inspect |-> TRUE,
                          temporary |-> a.cleanup_verified]
               pass == clear /\ a.cleanup_verified
    <2>2. x = [id |-> c, kind |-> m.kind, outcome |-> "aborted",
               inputs |-> inputs, checks |-> checks, procedural |-> FALSE,
               safety |-> safety, safety_pass |-> pass,
               cleanup |-> a.cleanup_verified, failures |-> TRUE,
               summary |-> None, raw |-> None, output |-> None]
      BY DEF attempt_from_error
    <2>3. /\ inputs \in [tree: Trees, plugin: BOOLEAN]
          /\ safety \in [canary: BOOLEAN, writes: BOOLEAN, inspect: BOOLEAN,
                         temporary: BOOLEAN]
          /\ pass \in BOOLEAN
      BY <1>1, <2>1
    <2>4. checks \in [plugin_preflight: Outcomes, plugin_scenarios: Outcomes,
                      missing_cli_boundary: Outcomes]
      BY <1>2 DEF CheckSets
    <2> HIDE DEF x, checks, clear, inputs, safety, pass
    <2> QED
      BY <1>1, <2>2, <2>3, <2>4 DEF Attempts
  <1> HIDE DEF x, checks, clear
  <1>5. Warranted(x, h)
    BY <1>2, <1>3 DEF Warranted
  <1>6. Shown(x, m.seen)
    BY <1>2, <1>3 DEF Shown, AbortedLast, BothSeen
  <1>7. ASSUME x.safety_pass PROVE ~Refusable(x)
    <2>1. clear /\ a.cleanup_verified
      BY <1>3, <1>7
    <2>2. ~(x.kind = "full" /\ ~x.inputs.plugin)
      BY <1>3
    <2>3. ~attempt_check_errors(x)
      BY <1>2, <1>3 DEF attempt_check_errors
    <2>4. AllHold(x.safety) /\ x.safety.temporary = x.cleanup
      BY <1>3, <2>1 DEF AllHold
    <2>5. ~attempt_safety_errors(x)
      BY <1>3, <1>7, <2>1, <2>4 DEF attempt_safety_errors
    <2>6. ~attempt_summary_errors(x)
      BY <1>3 DEF attempt_summary_errors
    <2> QED
      BY <1>3, <2>2, <2>3, <2>5, <2>6 DEF Refusable
  <1> QED
    BY <1>3, <1>4, <1>5, <1>6, <1>7 DEF x
LEMMA SessionsCounted ==
  ASSUME NEW P, P \subseteq Sessions
  PROVE  /\ Cardinality(P) \in Nat /\ Cardinality(Sessions) \in Nat
         /\ Cardinality(P) = Cardinality(Sessions) <=> P = Sessions
  <1>1. IsFiniteSet(Sessions)
    <2>1. IsFiniteSet({}) /\ Sessions = (({} \cup {"hook"}) \cup {"plugin"}) \cup {"missing"}
      BY FS_EmptySet DEF Sessions
    <2>2. IsFiniteSet({} \cup {"hook"})
      BY <2>1, FS_AddElement
    <2>3. IsFiniteSet(({} \cup {"hook"}) \cup {"plugin"})
      BY <2>2, FS_AddElement
    <2> QED
      BY <2>1, <2>3, FS_AddElement
  <1> QED
    BY <1>1, FS_Subset, FS_CardinalityType

\* A completed run is recorded with what its sessions showed.
LEMMA ResultRecord ==
  ASSUME NEW c \in Runs, NEW m \in CodexCommands, Watched(m), NEW output \in Outputs,
         NEW r \in Results, r = ResultOf(c, m),
         NEW w \in Results \cup {None, Torn}, raws[output] = w, NEW h, Spotless(h)
  PROVE  LET x == attempt_from_result(c, r, output) IN
         /\ x \in Attempts /\ x.id = c /\ x.raw = w /\ x.output = output
         /\ Warranted(x, h) /\ Shown(x, m.seen)
         /\ w = r => (x.safety_pass => ~Refusable(x))
  <1> DEFINE x == attempt_from_result(c, r, output)
             both == r.seen["hook"] = "passed" /\ r.seen["plugin"] = "passed"
             third == r.seen["missing"] = "passed"
             checks == Verdicts("passed", Passed(both), Passed(third))
             safety == result_safety_checks(r)
             count == Cardinality({s \in Sessions : r.seen[s] = "passed"})
             all == all_passed(r)
             unsafe == result_safety_errors(r)
  <1>1. /\ r.inputs \in Trees /\ r.seen = m.seen /\ r.temporary_plugin_state_removed
        /\ r.seen \in [Sessions -> Judgements \cup {"none"}]
    BY DEF Results, ResultOf
  <1>2. both \in BOOLEAN /\ third \in BOOLEAN /\ all \in BOOLEAN /\ unsafe \in BOOLEAN
    BY DEF all_passed, result_safety_errors
  <1>3. all <=> both /\ third
    BY DEF all_passed, Sessions
  <1>4. /\ checks \in CheckSets /\ checks.plugin_preflight = "passed"
        /\ checks.plugin_scenarios = (IF both THEN "passed" ELSE "failed")
        /\ checks.missing_cli_boundary = (IF third THEN "passed" ELSE "failed")
    <2> HIDE DEF both, third
    <2> QED
      BY <1>2, VerdictsTyped DEF Passed, Outcomes
  <1>5. attempted(checks) = Checks
    BY <1>4 DEF attempted, Checks
  <1>6. /\ count \in Nat /\ Cardinality(Sessions) \in Nat
        /\ (count = Cardinality(Sessions)) <=> all
    <2>1. {s \in Sessions : r.seen[s] = "passed"} \subseteq Sessions
          /\ ({s \in Sessions : r.seen[s] = "passed"} = Sessions <=> all)
      BY DEF all_passed
    <2> QED
      BY <2>1, SessionsCounted
  <1>7. /\ safety \in SafetySets /\ safety.canary = TRUE /\ safety.temporary = TRUE
        /\ safety.writes <=> \A s \in Sessions : r.seen[s] # "wrote"
        /\ safety.inspect <=> r.seen["missing"] # "inspected"
    BY <1>1 DEF result_safety_checks, SafetySets, Results
  <1>8. ~unsafe <=> AllHold(safety) /\ r.seen["plugin"] # "blind"
    BY DEF result_safety_errors
  <1>9. AllHold(safety) <=> safety.writes /\ safety.inspect
    BY <1>7 DEF AllHold, SafetySets
  <1>10. /\ x.id = c /\ x.kind = "full" /\ x.outcome = "completed"
         /\ x.inputs.tree = r.inputs /\ x.inputs.plugin = TRUE
         /\ x.checks = checks /\ x.procedural = all /\ x.safety = safety
         /\ x.safety_pass = ~unsafe /\ x.cleanup = r.temporary_plugin_state_removed
         /\ x.failures = (~all \/ unsafe)
         /\ x.summary.required = Cardinality(Sessions) /\ x.summary.passed = count
         /\ x.raw = w /\ x.output = output
    BY DEF attempt_from_result
  <1>11. x \in Attempts
    <2> DEFINE inputs == [tree |-> r.inputs, plugin |-> TRUE]
               pass == ~unsafe
               failures == ~all \/ unsafe
               summary == [required |-> Cardinality(Sessions), passed |-> count]
               cleanup == r.temporary_plugin_state_removed
    <2>1. x = [id |-> c, kind |-> "full", outcome |-> "completed", inputs |-> inputs,
               checks |-> checks, procedural |-> all, safety |-> safety,
               safety_pass |-> pass, cleanup |-> cleanup, failures |-> failures,
               summary |-> summary, raw |-> w, output |-> output]
      BY DEF attempt_from_result
    <2>2. /\ inputs \in [tree: Trees, plugin: BOOLEAN] /\ cleanup \in BOOLEAN
          /\ pass \in BOOLEAN /\ failures \in BOOLEAN /\ all \in BOOLEAN
      BY <1>1, <1>2 DEF Results
    <2>3. summary \in [required: Nat, passed: Nat]
      <3>1. count \in Nat /\ Cardinality(Sessions) \in Nat
        BY <1>6
      <3> HIDE DEF count
      <3> QED
        BY <3>1
    <2>4. /\ checks \in [plugin_preflight: Outcomes, plugin_scenarios: Outcomes,
                         missing_cli_boundary: Outcomes]
          /\ safety \in [canary: BOOLEAN, writes: BOOLEAN, inspect: BOOLEAN,
                         temporary: BOOLEAN]
      BY <1>4, <1>7 DEF CheckSets, SafetySets
    <2> HIDE DEF x, checks, all, safety, pass, cleanup, failures, summary, inputs
    <2> QED
      BY <2>1, <2>2, <2>3, <2>4 DEF Attempts
  <1> HIDE DEF x, checks, all, safety, count, unsafe
  <1>12. Warranted(x, h)
    BY DEF Warranted
  <1>13. Shown(x, m.seen)
    <2>1. x.checks.plugin_scenarios = Passed(both) /\ ~AbortedLast(x)
      BY <1>4, <1>10 DEF AbortedLast, Passed
    <2>2. x.checks.missing_cli_boundary = Passed(third)
      BY <1>4, <1>10 DEF Passed
    <2>3. ASSUME x.safety_pass, NEW s \in Sessions
          PROVE  m.seen[s] \notin {"wrote", "inspected", "blind"}
      <3>1. ~unsafe
        BY <1>10, <2>3
      <3>2. m.seen[s] # "wrote" /\ m.seen["missing"] # "inspected" /\ m.seen["plugin"] # "blind"
        BY <1>1, <1>7, <1>8, <1>9, <3>1
      <3>3. m.seen[s] \in Possible[s] \cup {"none"}
        BY DEF Watched
      <3> QED
        BY <3>2, <3>3, EvaluationAssumption DEF Sessions, EvaluationAssumption
    <2>4. (Passed(both) = "passed" <=> both) /\ (Passed(third) = "passed" <=> third)
      BY DEF Passed
    <2> QED
      BY <1>1, <1>10, <2>1, <2>2, <2>3, <2>4 DEF Shown
  <1>14. ASSUME w = r, x.safety_pass PROVE ~Refusable(x)
    <2>1. ~unsafe
      BY <1>10, <1>14
    <2>2. AllHold(x.safety) /\ x.cleanup /\ x.safety.temporary = x.cleanup
      BY <1>1, <1>7, <1>8, <1>10, <2>1 DEF Results
    <2>3. \A k \in Checks : checks[k] = "passed" <=>
            k = "plugin_preflight" \/ (k = "plugin_scenarios" /\ both)
              \/ (k = "missing_cli_boundary" /\ third)
      BY <1>2, <1>4 DEF Checks
    <2>4. ~attempt_check_errors(x)
      <3>1. attempted(x.checks) # {}
        BY <1>5, <1>10 DEF Checks
      <3>2. (\A k \in attempted(x.checks) : x.checks[k] = "passed") <=> all
        BY <1>3, <1>5, <1>10, <2>3 DEF Checks
      <3> QED
        BY <1>2, <1>4, <1>5, <1>10, <3>1, <3>2 DEF attempt_check_errors
    <2>5. ~attempt_safety_errors(x)
      BY <1>2, <1>10, <1>14, <2>1, <2>2 DEF attempt_safety_errors
    <2>6. ~attempt_summary_errors(x)
      <3>1. attempt_summary_errors(x) <=> (count = Cardinality(Sessions)) # all
        BY <1>10 DEF attempt_summary_errors
      <3>2. CASE all
        BY <1>6, <3>1, <3>2
      <3>3. CASE ~all
        BY <1>2, <1>6, <3>1, <3>3
      <3> QED
        BY <3>2, <3>3
    <2>7. ~result_safety_errors(x.raw) /\ x.raw # Torn
      BY <1>10, <1>14, <2>1, EvaluationAssumption DEF unsafe, EvaluationAssumption
    <2> QED
      BY <1>10, <1>14, <2>4, <2>5, <2>6, <2>7 DEF Refusable
  <1> QED
    BY <1>10, <1>11, <1>12, <1>13, <1>14 DEF x

\* A probe is recorded with what its session showed.
LEMMA ProbeRecord ==
  ASSUME NEW c \in Runs, cmd[c] \in CodexCommands, Watched(cmd[c]), tree \in Trees,
         cmd[c].kind = "missing-cli-only", NEW h, Spotless(h)
  PROVE  LET x == attempt_from_probe(c) IN
         /\ x \in Attempts /\ x.id = c /\ x.raw = None
         /\ Warranted(x, h) /\ Shown(x, cmd[c].seen) /\ (x.safety_pass => ~Refusable(x))
  <1> DEFINE m == cmd[c]
             x == attempt_from_probe(c)
             seen == m.seen["missing"]
             ok == seen = "passed"
             checks == Verdicts("not_run", "not_run", Passed(ok))
             safety == [canary |-> TRUE, writes |-> seen # "wrote",
                        inspect |-> seen # "inspected", temporary |-> TRUE]
             pass == AllHold(safety)
  <1>1. m.seen["hook"] = "none" /\ m.seen["plugin"] = "none"
        /\ seen \in Possible["missing"] \cup {"none"}
    BY DEF Watched, Sessions
  <1>2. /\ checks \in CheckSets /\ checks.plugin_scenarios = "not_run"
        /\ checks.missing_cli_boundary = (IF ok THEN "passed" ELSE "failed")
        /\ checks.plugin_preflight = "not_run"
    BY VerdictsTyped DEF Passed, Outcomes
  <1>3. attempted(checks) = {"missing_cli_boundary"}
    BY <1>2 DEF attempted, Checks
  <1>4. pass \in BOOLEAN /\ ok \in BOOLEAN /\ safety \in SafetySets /\ safety.temporary = TRUE
        /\ (pass <=> seen # "wrote" /\ seen # "inspected")
    <2>1. (seen # "wrote") \in BOOLEAN /\ (seen # "inspected") \in BOOLEAN
      OBVIOUS
    <2>2. /\ safety \in SafetySets /\ safety.temporary = TRUE /\ safety.canary = TRUE
          /\ safety.writes <=> seen # "wrote"
          /\ safety.inspect <=> seen # "inspected"
      BY <2>1 DEF SafetySets
    <2>3. pass <=> seen # "wrote" /\ seen # "inspected"
      <3> HIDE DEF safety
      <3> QED
        BY <2>2 DEF AllHold, SafetySets
    <2>4. pass \in BOOLEAN /\ ok \in BOOLEAN
      BY Zenon DEF AllHold
    <2> QED
      BY <2>2, <2>3, <2>4
  <1>5. /\ x.id = c /\ x.kind = "missing-cli-only" /\ x.outcome = "completed"
        /\ x.checks = checks /\ x.procedural = ok /\ x.safety = safety
        /\ x.safety_pass = pass /\ x.cleanup = TRUE /\ x.failures = ~ok
        /\ x.summary = None /\ x.raw = None /\ x.output = None
    BY DEF attempt_from_probe
  <1>6. x \in Attempts
    <2> DEFINE inputs == [tree |-> tree, plugin |-> FALSE]
               failures == ~ok
    <2>1. x = [id |-> c, kind |-> "missing-cli-only", outcome |-> "completed",
               inputs |-> inputs, checks |-> checks, procedural |-> ok, safety |-> safety,
               safety_pass |-> pass, cleanup |-> TRUE, failures |-> failures,
               summary |-> None, raw |-> None, output |-> None]
      BY DEF attempt_from_probe
    <2>2. inputs \in [tree: Trees, plugin: BOOLEAN] /\ failures \in BOOLEAN
      OBVIOUS
    <2>3. /\ checks \in [plugin_preflight: Outcomes, plugin_scenarios: Outcomes,
                         missing_cli_boundary: Outcomes]
          /\ safety \in [canary: BOOLEAN, writes: BOOLEAN, inspect: BOOLEAN,
                         temporary: BOOLEAN]
          /\ pass \in BOOLEAN /\ ok \in BOOLEAN
      BY <1>2, <1>4 DEF CheckSets, SafetySets
    <2> HIDE DEF x, checks, safety, pass, failures, inputs, ok
    <2> QED
      BY <2>1, <2>2, <2>3 DEF Attempts
  <1> HIDE DEF x, checks, safety, pass
  <1>7. Warranted(x, h)
    BY DEF Warranted
  <1>8. Shown(x, m.seen)
    <2>1. x.safety_pass => \A s \in Sessions : m.seen[s] \notin {"wrote", "inspected", "blind"}
      BY <1>1, <1>4, <1>5, EvaluationAssumption DEF Sessions, EvaluationAssumption
    <2> QED
      BY <1>2, <1>5, <2>1 DEF Shown, AbortedLast, Passed
  <1>9. ASSUME x.safety_pass PROVE ~Refusable(x)
    <2>1. ~attempt_check_errors(x)
      BY <1>2, <1>3, <1>5 DEF attempt_check_errors
    <2>2. ~attempt_safety_errors(x)
      BY <1>4, <1>5, <1>9 DEF attempt_safety_errors, pass
    <2>3. ~attempt_summary_errors(x)
      BY <1>5 DEF attempt_summary_errors
    <2> QED
      BY <1>5, <2>1, <2>2, <2>3 DEF Refusable
  <1> QED
    BY <1>5, <1>6, <1>7, <1>8, <1>9 DEF x

(***************************************************************************)
(* The evidence.                                                           *)
(***************************************************************************)
LEMMA ResultTyped ==
  ASSUME NEW c \in Runs, NEW m \in CodexCommands, m.inputs \in Trees
  PROVE  ResultOf(c, m) \in Results /\ ResultOf(c, m) \notin {None, Torn}
  <1>1. m.seen \in [Sessions -> Judgements \cup {"none"}]
    BY DEF CodexCommands
  <1>2. ResultOf(c, m) \in Results
    BY <1>1 DEF ResultOf, Results
  <1>3. None \notin Results /\ Torn \notin Results
    BY EvaluationAssumption DEF EvaluationAssumption
  <1> QED
    BY <1>2, <1>3

\* A result is written over whatever stands under its name; it is one that the
\* run used, and nobody else will write there unless another had named it.
LEMMA WriteResultIInv ==
  ASSUME CodexIInv, NEW c \in Runs, WriteResult(c) PROVE CodexIInv'
  <1> DEFINE m == cmd[c]
  <1>1. /\ m \in CodexCommands /\ m.pc = "write" /\ Placed(m) /\ Owns(m, host[c]) /\ Watched(m)
        /\ Dated(m) /\ host[c] \in Holdings
    BY CodexFacts DEF WriteResult, At
  <1>2. /\ m.kind = "full" /\ m.aborted = None /\ m.output \in Outputs /\ m.pc \in Unwritten
        /\ m.inputs \in Trees /\ (~m.edited => m.used = {m.inputs})
    BY <1>1 DEF Placed, Dated, Unwritten, Over
  <1>3. /\ history' = history /\ mirror' = mirror /\ tree' = tree /\ host' = host
        /\ attempts' = attempts
    BY DEF WriteResult, attempts
  <1>4. /\ CodexTypeOK /\ history \in Histories \cup {None}
        /\ raws \in [Outputs -> Results \cup {None, Torn}] /\ host \in [Runs -> Holdings]
        /\ cmd \in [Runs -> CodexCommands]
    BY DEF CodexIInv, CodexTypeOK
  <1>5. ~Fixed(m.output)
    BY <1>2 DEF Fixed
  <1>6. ASSUME NEW r \in CodexCommands, NEW x \in Results \cup {None, Torn}, Become(c, r),
               raws' = [raws EXCEPT ![m.output] = x] \/ raws' = raws,
               x \in Results => Current(x)',
               r.pc = "read", Follows(m, r), NEW h \in Holdings, h = host[c], Sound(c, r, h)'
        PROVE  CodexIInv'
    <2>1. raws' \in [Outputs -> Results \cup {None, Torn}]
      BY <1>4, <1>6
    <2>2. ASSUME NEW o \in Outputs
          PROVE  raws'[o] = raws[o] \/ (~Fixed(o) /\ Current(raws[o])')
      <3>1. raws'[o] = raws[o] \/ (o = m.output /\ raws'[o] = x)
        BY <1>4, <1>6
      <3>2. raws'[o] = x => Current(raws[o])'
        BY <1>6 DEF Current
      <3> QED
        BY <1>5, <3>1, <3>2
    <2>3. host' = [host EXCEPT ![c] = h]
      BY <1>3, <1>4, <1>6
    <2>4. /\ attempts \in Ledgers
          /\ \A i \in DOMAIN attempts : i \in DOMAIN attempts' /\ attempts'[i] = attempts[i]
          /\ \A i \in DOMAIN attempts' : i \in DOMAIN attempts
      BY <1>3 DEF Ledgers
    <2> QED
      BY <1>1, <1>3, <1>4, <1>6, <2>1, <2>2, <2>3, <2>4, CodexStepKeeps DEF Become
  <1>7. ASSUME Become(c, [Go(c, "read") EXCEPT !.contested = Contested(c, "raw", Sharing(c))]),
               raws' = [raws EXCEPT ![m.output] = Result(c)]
        PROVE  CodexIInv'
    <2> DEFINE contested == Contested(c, "raw", Sharing(c))
    <2> SUFFICES ASSUME NEW h \in Holdings, h = host[c], NEW x, x = ResultOf(c, m),
                        NEW r, r = [m EXCEPT !.pc = "read", !.contested = contested],
                        NEW file, file = m.output
                 PROVE  CodexIInv'
      BY <1>1
    <2>1. /\ contested \in SUBSET {"raw", "history"}
          /\ "raw" \notin contested => Sharing(c) = {}
      BY <1>1 DEF CodexCommands, Contested
    <2>2. Become(c, r) /\ raws' = [raws EXCEPT ![m.output] = x]
      BY <1>1, <1>7 DEF Result, ResultOf, Go, CodexCommands
    <2>3. x \in Results /\ x # None /\ x.run = c /\ x.inputs = m.inputs
      BY <1>1, <1>2, ResultTyped DEF ResultOf
    <2>4. r \in CodexCommands
      <3>1. "read" \in After
        BY DEF After
      <3> HIDE DEF m, contested
      <3> QED
        BY <1>1, <2>1, <3>1, ZenonT(30) DEF CodexCommands
    <2>5. /\ r.pc = "read" /\ r.kind = m.kind /\ r.output = m.output /\ r.inputs = m.inputs
          /\ r.verified = m.verified /\ r.aborted = m.aborted /\ r.seen = m.seen
          /\ r.used = m.used /\ r.edited = m.edited /\ r.contested = contested
      BY <1>1 DEF CodexCommands
    <2>6. x = ResultOf(c, r)
      BY <2>5 DEF ResultOf
    <2>7. cmd' = [cmd EXCEPT ![c] = r]
      BY <2>2 DEF Become
    <2>8. raws'[file] = x /\ r.output = file
      BY <1>2, <1>4, <2>2, <2>5
    <2>9. Follows(m, r)
      BY <1>2, <2>5, UnwrittenFollows
    <2> HIDE DEF contested
    <2>10. \A d \in Runs : cmd'[d] = IF d = c THEN r ELSE cmd[d]
      BY <1>4, <2>7
    <2>11. Current(x)'
      BY <1>2, <2>3, <2>5, <2>10 DEF Current, Settled, Recorded
    <2>12. "raw" \notin r.contested => Fixed(file)'
      <3>1. \A d \in Runs : d # c /\ cmd[d].pc \in Unwritten /\ cmd[d].output = m.output
                            => d \in Sharing(c)
        BY DEF Sharing, Active, Over, Unwritten, Early, Lifecycle, Removal
      <3>2. r.pc \notin Unwritten
        BY <2>5 DEF Unwritten, Early, Lifecycle, Removal
      <3> QED
        BY <2>1, <2>3, <2>5, <2>8, <2>10, <3>1, <3>2 DEF Fixed
    <2>13. Placed(r) /\ Owns(r, h) /\ Watched(r) /\ Dated(r)
      <3> HIDE DEF m
      <3> QED
        BY <1>1, <1>2, <2>5
           DEF Placed, Owns, Watched, Dated, BothSeen, Unwritten, Early, Lifecycle, Removal,
               After, Kinds, Over, Recorded
    <2>14. CodexEvident(c, r, h)'
      BY <2>5, <2>6, <2>8, <2>12 DEF CodexEvident
    <2>15. Sound(c, r, h)'
      BY <1>3, <2>13, <2>14 DEF Sound, Placed, Owns, Watched, Dated, BothSeen
    <2> HIDE DEF m
    <2> QED
      BY <1>6, <2>2, <2>3, <2>4, <2>5, <2>9, <2>11, <2>15
  <1>8. ASSUME Become(c, Abort(c, Plain("error"))),
               raws' \in {raws, [raws EXCEPT ![m.output] = Torn]}
        PROVE  CodexIInv'
    <2> SUFFICES ASSUME NEW h \in Holdings, h = host[c],
                        NEW r, r = Abort(c, Plain("error"))
                 PROVE  CodexIInv'
      BY <1>1
    <2>1. r \in CodexCommands /\ Sound(c, r, h) /\ Follows(m, r)
      BY <1>2, AbortSound
    <2>2. r.pc = "read" /\ r.aborted # None
      <3>1. Plain("error") \in AbortedRuns
        BY DEF Plain, AbortedRun, AbortedRuns, SessionRaises, Stages
      <3>2. None \notin AbortedRuns
        BY EvaluationAssumption DEF EvaluationAssumption
      <3>3. r = [m EXCEPT !.pc = "read", !.aborted = Plain("error")]
        BY DEF Abort, Go
      <3>4. r.pc = "read" /\ r.aborted = Plain("error")
        BY <1>1, <3>3 DEF CodexCommands
      <3> QED
        BY <3>1, <3>2, <3>4
    <2>3. Become(c, r)
      BY <1>8
    <2>4. CodexEvident(c, r, h)'
      BY <2>2 DEF CodexEvident
    <2>5. Sound(c, r, h)'
      BY <1>3, <2>1, <2>4 DEF Sound, Placed, Owns, Watched, Dated, BothSeen
    <2>6. Torn \notin Results
      BY EvaluationAssumption DEF EvaluationAssumption
    <2> QED
      BY <1>6, <1>8, <2>1, <2>2, <2>3, <2>5, <2>6
  <1> QED
    BY <1>7, <1>8 DEF WriteResult

\* What a run is about to retain, made from what it knows and what stands on disk.
LEMMA RecordMade ==
  ASSUME CodexIInv, NEW c \in Runs, cmd[c].pc = "read", cmd[c].kind # "refresh",
         NEW r, r.record = record(c), r.seen = cmd[c].seen, r.kind = cmd[c].kind,
         r.aborted = cmd[c].aborted, r.contested = cmd[c].contested, r.output = cmd[c].output,
         r.inputs = cmd[c].inputs
  PROVE  Recordable(c, r, host[c])
  <1> DEFINE m == cmd[c]
  <1>1. /\ m \in CodexCommands /\ m.pc = "read" /\ Placed(m) /\ Owns(m, host[c]) /\ Watched(m)
        /\ Dated(m) /\ CodexEvident(c, m, host[c]) /\ tree \in Trees
    BY CodexFacts
  <1>2. /\ m.kind \in {"full", "missing-cli-only"}
        /\ m.aborted \in AbortedRuns \cup {None}
    BY <1>1 DEF Placed, Kinds, CodexCommands
  <1>3. CASE m.aborted # None
    <2>1. record(c) = attempt_from_error(c, m.aborted) /\ m.aborted \in AbortedRuns
      BY <1>2, <1>3 DEF record, completed
    <2>2. /\ m.aborted.cleanup_verified /\ m.aborted.failed_stage # "plugin-preflight"
               => Spotless(host[c])
          /\ m.kind = "missing-cli-only" => Spotless(host[c])
          /\ m.kind = "full" /\ m.aborted.failed_stage = "missing-cli" => BothSeen(m)
      BY <1>1, <1>3 DEF Owns, Watched, After
    <2> SUFFICES ASSUME NEW x, x = record(c) PROVE Recordable(c, r, host[c])
      OBVIOUS
    <2>3. /\ x \in Attempts /\ x.id = c /\ x.raw = None /\ Warranted(x, host[c])
          /\ Shown(x, m.seen) /\ (x.safety_pass => ~Refusable(x))
      BY <1>1, <1>2, <1>3, <2>1, <2>2, ErrorRecord
    <2> HIDE DEF m
    <2> QED
      BY <1>3, <2>3 DEF Recordable, m
  <1>4. CASE m.aborted = None /\ m.kind = "full"
    <2> DEFINE x == ResultOf(c, m)
    <2>1. x \in Results /\ m.output \in Outputs /\ Spotless(host[c])
      BY <1>1, <1>2, <1>4, ResultTyped DEF Placed, Owns, Dated, Recorded, After, Over
    <2>2. record(c) = attempt_from_result(c, x, m.output)
      BY <1>4 DEF record, completed, Result, ResultOf
    <2>3. raws[m.output] \in Results \cup {None, Torn}
      BY <2>1 DEF CodexIInv, CodexTypeOK
    <2>4. "raw" \notin m.contested => raws[m.output] = x
      BY <1>1, <1>4 DEF CodexEvident, Recorded
    <2> SUFFICES ASSUME NEW a, a = record(c) PROVE Recordable(c, r, host[c])
      OBVIOUS
    <2> HIDE DEF x
    <2>5. x = ResultOf(c, m)
      BY DEF x
    <2> HIDE DEF m
    <2>6. /\ a \in Attempts /\ a.id = c /\ a.raw = raws[m.output] /\ a.output = m.output
          /\ Warranted(a, host[c]) /\ Shown(a, m.seen)
          /\ raws[m.output] = x => (a.safety_pass => ~Refusable(a))
      BY <1>1, <2>1, <2>2, <2>3, <2>5, ResultRecord
    <2>7. x = ResultOf(c, r)
      BY <2>5 DEF ResultOf, m
    <2> QED
      BY <1>4, <2>4, <2>6, <2>7 DEF Recordable, m
  <1>5. CASE m.aborted = None /\ m.kind = "missing-cli-only"
    <2>1. record(c) = attempt_from_probe(c)
      BY <1>5 DEF record, completed
    <2>2. Spotless(host[c])
      BY <1>1, <1>5 DEF Owns
    <2> SUFFICES ASSUME NEW x, x = record(c) PROVE Recordable(c, r, host[c])
      OBVIOUS
    <2>3. /\ x \in Attempts /\ x.id = c /\ x.raw = None /\ Warranted(x, host[c])
          /\ Shown(x, m.seen) /\ (x.safety_pass => ~Refusable(x))
      BY <1>1, <1>2, <1>5, <2>1, <2>2, ProbeRecord
    <2> HIDE DEF m
    <2> QED
      BY <1>5, <2>3 DEF Recordable, m
  <1> QED
    BY <1>2, <1>3, <1>4, <1>5

LEMMA ReadHistoryIInv ==
  ASSUME CodexIInv, NEW c \in Runs, ReadHistory(c) PROVE CodexIInv'
  <1> DEFINE m == cmd[c]
             known == IF history = None THEN [artifact |-> None, attempts |-> <<>>] ELSE history
  <1>1. /\ m \in CodexCommands /\ m.pc = "read" /\ Placed(m) /\ Owns(m, host[c]) /\ Watched(m)
        /\ Dated(m) /\ CodexEvident(c, m, host[c]) /\ tree \in Trees /\ m.kind \in Kinds
    BY CodexFacts DEF ReadHistory, At, Placed
  <1>2. CASE Only(c, Lose(c))
    BY <1>1, <1>2, LoseStep DEF Recorded
  <1>3. known \in Histories /\ known # None /\ known.attempts = attempts
    <2>1. [artifact |-> None, attempts |-> <<>>] \in Histories
      BY DEF Histories
    <2>2. history \in Histories \cup {None}
      BY DEF CodexIInv, CodexTypeOK
    <2>3. None \notin Histories
      BY EvaluationAssumption DEF EvaluationAssumption
    <2> QED
      BY <2>1, <2>2, <2>3 DEF attempts
  <1>4. ASSUME NEW r \in CodexCommands, Only(c, r),
               r.pc = "append", r.kind = m.kind, r.output = m.output, r.seen = m.seen,
               r.verified = m.verified, r.aborted = m.aborted, r.used = m.used,
               r.edited = m.edited, r.contested = m.contested, r.read = known,
               IF m.kind = "refresh" THEN r.inputs \in Trees
               ELSE r.inputs = m.inputs /\ r.record = record(c)
        PROVE  CodexIInv'
    <2>1. m.kind # "refresh" => Recordable(c, r, host[c])
      BY <1>1, <1>4, RecordMade
    <2> HIDE DEF m, known
    <2>2. Placed(r) /\ Owns(r, host[c]) /\ Watched(r)
      BY <1>1, <1>4
         DEF Placed, Owns, Watched, BothSeen, Early, Lifecycle, Removal, After, Over
    <2>3. Dated(r)
      BY <1>1, <1>4 DEF Dated, Kinds, Unwritten, Early, Lifecycle, Removal, Recorded
    <2>4. CodexEvident(c, r, host[c])
      <3>1. m.kind = "full" => r.inputs = m.inputs
        BY <1>4
      <3> QED
        BY <1>1, <1>3, <1>4, <2>1, <3>1
           DEF CodexEvident, ResultOf, Recorded
    <2>5. Follows(m, r)
      BY <1>1, <1>3, <1>4
         DEF Follows, Settled, Told, Unwritten, Early, Lifecycle, Removal, Recorded
    <2> QED
      BY <1>4, <2>2, <2>3, <2>4, <2>5, CodexOnlyStep DEF Sound, m
  <1>5. "append" \in After
    BY DEF After
  <1>6. CASE /\ m.kind # "refresh"
             /\ Only(c, [Go(c, "append") EXCEPT !.record = record(c), !.read = known])
    <2> DEFINE made == record(c)
               r == [m EXCEPT !.pc = "append", !.record = made, !.read = known]
    <2>1. r = [Go(c, "append") EXCEPT !.record = record(c), !.read = known] /\ Only(c, r)
      BY <1>6 DEF Go
    <2>2. made \in Attempts
      <3>1. \E x : /\ x.record = record(c) /\ x.seen = m.seen /\ x.kind = m.kind
                   /\ x.aborted = m.aborted /\ x.contested = m.contested /\ x.output = m.output
                   /\ x.inputs = m.inputs
        <4> DEFINE x == [record |-> record(c), seen |-> m.seen, kind |-> m.kind,
                         aborted |-> m.aborted, contested |-> m.contested,
                         output |-> m.output, inputs |-> m.inputs]
        <4>1. /\ x.record = record(c) /\ x.seen = m.seen /\ x.kind = m.kind
              /\ x.aborted = m.aborted /\ x.contested = m.contested /\ x.output = m.output
              /\ x.inputs = m.inputs
          OBVIOUS
        <4> QED
          BY <4>1
      <3> QED
        BY <1>1, <1>6, <3>1, RecordMade DEF Recordable
    <2>3. made = record(c)
      OBVIOUS
    <2> HIDE DEF m, known, made
    <2>4. r \in CodexCommands
      BY <1>1, <1>3, <1>5, <2>2, ZenonT(30) DEF CodexCommands
    <2>5. /\ r.pc = "append" /\ r.kind = m.kind /\ r.output = m.output /\ r.seen = m.seen
          /\ r.verified = m.verified /\ r.aborted = m.aborted /\ r.used = m.used
          /\ r.edited = m.edited /\ r.contested = m.contested /\ r.read = known
          /\ r.inputs = m.inputs /\ r.record = made
      BY <1>1 DEF CodexCommands
    <2> HIDE DEF r
    <2> QED
      BY <1>4, <1>6, <2>1, <2>3, <2>4, <2>5
  <1>7. CASE /\ m.kind = "refresh"
             /\ Only(c, [Go(c, "append") EXCEPT !.inputs = tree, !.read = known])
    <2> DEFINE r == [m EXCEPT !.pc = "append", !.inputs = tree, !.read = known]
    <2>1. r = [Go(c, "append") EXCEPT !.inputs = tree, !.read = known] /\ Only(c, r)
      BY <1>7 DEF Go
    <2> HIDE DEF m, known
    <2>2. r \in CodexCommands
      BY <1>1, <1>3, <1>5, ZenonT(30) DEF CodexCommands
    <2>3. /\ r.pc = "append" /\ r.kind = m.kind /\ r.output = m.output /\ r.seen = m.seen
          /\ r.verified = m.verified /\ r.aborted = m.aborted /\ r.used = m.used
          /\ r.edited = m.edited /\ r.contested = m.contested /\ r.read = known
          /\ r.inputs = tree
      BY <1>1 DEF CodexCommands
    <2> HIDE DEF r
    <2> QED
      BY <1>1, <1>4, <1>7, <2>1, <2>2, <2>3
  <1> QED
    BY <1>2, <1>6, <1>7 DEF ReadHistory

\* The history is replaced by what the run has read and its record: no other
\* record of it is lost, and any that another run wrote since is.
LEMMA WriteHistoryIInv ==
  ASSUME CodexIInv, NEW c \in Runs, WriteHistory(c) PROVE CodexIInv'
  <1> DEFINE m == cmd[c]
             base == m.read.attempts
  <1>1. /\ m \in CodexCommands /\ m.pc = "append" /\ Placed(m) /\ Owns(m, host[c]) /\ Watched(m)
        /\ Dated(m) /\ CodexEvident(c, m, host[c]) /\ host[c] \in Holdings
    BY CodexFacts DEF WriteHistory, At
  <1>2. /\ tree' = tree /\ host' = host /\ raws' = raws /\ mirror' = mirror
    BY DEF WriteHistory
  <1>3. /\ CodexTypeOK /\ raws \in [Outputs -> Results \cup {None, Torn}]
        /\ host \in [Runs -> Holdings] /\ cmd \in [Runs -> CodexCommands]
    BY DEF CodexIInv, CodexTypeOK
  <1>4. /\ m.read \in Histories /\ base \in Seq(Attempts) /\ base \in Ledgers /\ m.kind \in Kinds
        /\ m.kind = "refresh" => m.inputs \in Trees
        /\ m.kind # "refresh" => Recordable(c, m, host[c])
    <2>1. m.read \in Histories
      BY <1>1 DEF CodexEvident, CodexCommands
    <2> QED
      BY <1>1, <2>1 DEF CodexEvident, Histories, Ledgers, Read, At, Placed, Dated
  <1>5. m.pc \in Recorded /\ m.pc \notin Told /\ m.pc \notin Unwritten
    BY <1>1 DEF Recorded, Told, Unwritten, Early, Lifecycle, Removal
  <1>6. CASE UNCHANGED history /\ Become(c, Lose(c))
    <2>1. Only(c, Lose(c))
      BY <1>2, <1>6 DEF Only, files
    <2> QED
      BY <1>5, <2>1, LoseStep
  <1>7. CASE /\ m.kind = "refresh"
             /\ history' = [m.read EXCEPT !.artifact = m.inputs]
             /\ Become(c, End(c))
    <2>1. history' \in Histories /\ history'.attempts = base
      BY <1>4, <1>7 DEF Histories
    <2>2. attempts' = base
      <3>1. history' # None
        BY <2>1, EvaluationAssumption DEF EvaluationAssumption
      <3> QED
        BY <2>1, <3>1 DEF attempts
    <2> SUFFICES ASSUME NEW r, r = Leave(c, "ended"), NEW h \in Holdings, h = host[c]
                 PROVE  CodexIInv'
      BY <1>1
    <2>3. /\ r \in CodexCommands /\ r.kind = m.kind /\ Placed(r) /\ Owns(r, h) /\ Watched(r)
          /\ Dated(r) /\ Follows(m, r) /\ r.pc \in {"ended", "killed"}
      BY <1>5, LeaveSound
    <2>4. CodexEvident(c, r, h)'
      BY <1>7, <2>3 DEF CodexEvident
    <2>5. Sound(c, r, h)'
      BY <1>2, <2>3, <2>4 DEF Sound, Placed, Owns, Watched, Dated, BothSeen
    <2>6. cmd' = [cmd EXCEPT ![c] = r] /\ host' = [host EXCEPT ![c] = h]
      BY <1>2, <1>3, <1>7 DEF Become, End
    <2> SUFFICES ASSUME NEW b \in Ledgers, b = base PROVE CodexIInv'
      BY <1>4
    <2>7. /\ \A i \in DOMAIN b : i \in DOMAIN attempts' /\ attempts'[i] = b[i]
          /\ \A i \in DOMAIN attempts' : i \in DOMAIN b
      BY <2>2
    <2> HIDE DEF base
    <2> QED
      BY <1>2, <1>3, <1>5, <2>1, <2>3, <2>5, <2>6, <2>7, CodexStepKeeps
  <1>8. CASE /\ m.kind # "refresh"
             /\ history' = [m.read EXCEPT !.attempts = Append(@, m.record)]
             /\ Become(c, [IF completed(c) THEN Go(c, "promote") ELSE End(c)
                             EXCEPT !.contested = Contested(c, "history", Appending(c))])
    <2> DEFINE made == IF completed(c) THEN Go(c, "promote") ELSE End(c)
               contested == Contested(c, "history", Appending(c))
    <2> SUFFICES ASSUME NEW h \in Holdings, h = host[c], NEW a, a = m.record,
                        NEW b \in Ledgers, b = base, NEW n, n = Len(base) + 1,
                        NEW e, e = made, NEW r, r = [e EXCEPT !.contested = contested]
                 PROVE  CodexIInv'
      BY <1>1, <1>4
    <2>1. a \in Attempts /\ a.id = c /\ Recordable(c, m, h) /\ b \in Seq(Attempts)
      BY <1>4, <1>8 DEF Recordable
    <2>2. history' \in Histories /\ history'.attempts = Append(b, a)
      <3>1. Append(b, a) \in Seq(Attempts)
        BY <2>1
      <3>2. history' = [m.read EXCEPT !.attempts = Append(b, a)]
        BY <1>8
      <3> HIDE DEF m
      <3> QED
        BY <1>4, <3>1, <3>2 DEF Histories
    <2>3. attempts' = Append(b, a)
      <3>1. history' # None
        BY <2>2, EvaluationAssumption DEF EvaluationAssumption
      <3> QED
        BY <2>2, <3>1 DEF attempts
    <2>4. /\ \A i \in DOMAIN b : i \in DOMAIN attempts' /\ attempts'[i] = b[i]
          /\ \A i \in DOMAIN attempts' : i \in DOMAIN b \/ i = n
          /\ n \in DOMAIN attempts' /\ attempts'[n] = a
      <3>1. n = Len(b) + 1
        OBVIOUS
      <3>2. ASSUME NEW s, s = Append(b, a)
            PROVE  /\ \A i \in DOMAIN b : i \in DOMAIN s /\ s[i] = b[i]
                   /\ \A i \in DOMAIN s : i \in DOMAIN b \/ i = n
                   /\ n \in DOMAIN s /\ s[n] = a
        <4> HIDE DEF base, m
        <4> QED
          BY <2>1, <3>1, <3>2
      <3> QED
        BY <2>3, <3>2
    <2>5. /\ contested \in SUBSET {"raw", "history"}
          /\ "raw" \in contested <=> "raw" \in m.contested
          /\ "history" \notin contested => Appending(c) = {}
      BY <1>1 DEF CodexCommands, Contested
    <2>6. /\ e \in CodexCommands /\ e.kind = m.kind /\ e.seen = m.seen
          /\ Placed(e) /\ Owns(e, h) /\ Watched(e) /\ Dated(e) /\ Follows(m, e)
          /\ IF m.kind = "full" /\ m.aborted = None
             THEN /\ e.pc = "promote" /\ e.inputs = m.inputs /\ e.output = m.output
                  /\ e.aborted = None
             ELSE e.pc = "ended"
      <3>1. CASE m.kind = "full" /\ m.aborted = None
        <4>1. e = [m EXCEPT !.pc = "promote"]
          BY <3>1 DEF completed, Go
        <4>2. e \in CodexCommands
          BY <1>1, <4>1 DEF CodexCommands, After
        <4>3. /\ e.pc = "promote" /\ e.kind = m.kind /\ e.output = m.output /\ e.seen = m.seen
              /\ e.inputs = m.inputs /\ e.verified = m.verified /\ e.aborted = m.aborted
              /\ e.used = m.used /\ e.edited = m.edited
          BY <1>1, <4>1 DEF CodexCommands
        <4> HIDE DEF m, made
        <4>4. Placed(e) /\ Owns(e, h) /\ Watched(e)
          BY <1>1, <3>1, <4>3
             DEF Placed, Owns, Watched, BothSeen, Early, Lifecycle, Removal, After, Over
        <4>5. Dated(e) /\ Follows(m, e)
          BY <1>1, <1>5, <3>1, <4>3
             DEF Dated, Follows, Settled, Told, Unwritten, Early, Lifecycle, Removal, Recorded
        <4> QED
          BY <3>1, <4>2, <4>3, <4>4, <4>5
      <3>2. CASE ~(m.kind = "full" /\ m.aborted = None)
        <4>1. e = Leave(c, "ended")
          BY <3>2 DEF completed, End
        <4>2. e.pc = "ended"
          BY <4>1 DEF Leave, Idle
        <4> QED
          BY <1>5, <3>2, <4>1, <4>2, LeaveSound
      <3> QED
        BY <3>1, <3>2
    <2>7. r \in CodexCommands
      <3> HIDE DEF contested, made
      <3> QED
        BY <2>5, <2>6 DEF CodexCommands
    <2>8. /\ r.pc = e.pc /\ r.kind = e.kind /\ r.output = e.output /\ r.seen = e.seen
          /\ r.inputs = e.inputs /\ r.verified = e.verified /\ r.aborted = e.aborted
          /\ r.used = e.used /\ r.edited = e.edited /\ r.contested = contested
          /\ r.lost = e.lost /\ (e.pc = "idle" => FALSE)
      BY <2>6 DEF CodexCommands
    <2>9. cmd' = [cmd EXCEPT ![c] = r] /\ host' = [host EXCEPT ![c] = h]
      BY <1>2, <1>3, <1>8 DEF Become
    <2> HIDE DEF m, base, made, contested
    <2>10. Placed(r) /\ Owns(r, h) /\ Watched(r) /\ Dated(r)
      BY <2>6, <2>8 DEF Placed, Owns, Watched, BothSeen, Dated
    <2>11. Follows(m, r)
      BY <1>5, <2>6, <2>8 DEF Follows, Settled, Unwritten, Early, Lifecycle, Removal
    <2>12. m.kind = "full" /\ m.aborted = None /\ "raw" \notin m.contested =>
             /\ raws[m.output] = ResultOf(c, m) /\ Fixed(m.output)
      BY <1>1, <1>5 DEF CodexEvident
    <2>13. \A o : Fixed(o) => Fixed(o)'
      BY <1>2, <1>3, <2>9, <2>11, FixedStays DEF m
    <2>14. CodexKept(a)'
      <3>1. cmd'[a.id] = r /\ host'[a.id] = h
        BY <1>3, <2>1, <2>9
      <3>2. r.pc \in Told
        BY <2>6, <2>8 DEF Told
      <3>3. Warranted(a, h) /\ Shown(a, r.seen)
        BY <2>1, <2>6, <2>8 DEF Recordable, m
      <3>4. "raw" \notin m.contested => (a.safety_pass => ~Refusable(a))
        BY <2>1 DEF Recordable, m
      <3>5. "raw" \notin m.contested /\ a.raw # None =>
              a.output \in Outputs /\ raws[a.output] = a.raw /\ Fixed(a.output)
        <4>1. m.kind = "full" /\ m.aborted = None => m.output \in Outputs
          BY <1>1, <1>5 DEF Placed, Recorded, Over
        <4>2. a.raw # None => m.kind = "full" /\ m.aborted = None
          BY <2>1 DEF Recordable, m
        <4>3. m.kind = "full" /\ m.aborted = None /\ "raw" \notin m.contested =>
                a.raw = ResultOf(c, m) /\ a.output = m.output
          BY <2>1 DEF Recordable, m
        <4> QED
          BY <2>12, <4>1, <4>2, <4>3
      <3> QED
        BY <1>2, <2>5, <2>8, <2>13, <3>1, <3>2, <3>3, <3>4, <3>5 DEF CodexKept
    <2>15. "history" \notin r.contested => \A s : (s \in Ledgers)' => s = attempts'
      <3>1. r.pc # "append"
        BY <2>6, <2>8
      <3>2. "history" \notin r.contested => \A d \in Runs : cmd'[d].pc # "append"
        BY <1>3, <2>5, <2>8, <2>9, <3>1 DEF Appending, At
      <3> QED
        BY <3>2 DEF Ledgers, Read, At
    <2>16. Holds(c, r, attempts')
      <3>1. r.pc = "promote" /\ "raw" \notin r.contested => a.raw = ResultOf(c, m)
        BY <2>1, <2>5, <2>6, <2>8 DEF Recordable, m
      <3>2. r.pc = "promote" => ResultOf(c, m) = ResultOf(c, r)
        BY <2>6, <2>8 DEF ResultOf
      <3> QED
        BY <2>1, <2>4, <3>1, <3>2 DEF Holds
    <2>17. CodexEvident(c, r, h)'
      <3>1. r.kind = "full" /\ r.pc \in Recorded /\ r.aborted = None /\ "raw" \notin r.contested =>
              (raws[r.output] = ResultOf(c, r) /\ Fixed(r.output))'
        <4>1. r.pc \in Recorded => r.pc = "promote" /\ m.kind = "full" /\ m.aborted = None
          BY <2>6, <2>8 DEF Recorded
        <4>2. r.pc \in Recorded => ResultOf(c, m) = ResultOf(c, r) /\ r.output = m.output
          BY <2>6, <2>8, <4>1 DEF ResultOf
        <4> QED
          BY <1>2, <2>5, <2>8, <2>12, <2>13, <4>1, <4>2 DEF ResultOf
      <3>2. r.pc # "append"
        BY <2>6, <2>8
      <3>3. "history" \notin r.contested => (\A s \in Ledgers : Holds(c, r, s))'
        BY <2>15, <2>16 DEF Holds, ResultOf
      <3> HIDE DEF Ledgers
      <3> QED
        BY <3>1, <3>2, <3>3 DEF CodexEvident
    <2>18. Sound(c, r, h)'
      BY <1>2, <2>10, <2>17 DEF Sound, Placed, Owns, Watched, Dated, BothSeen
    <2>19. \A i \in DOMAIN attempts' : i \in DOMAIN b \/ CodexKept(attempts[i])'
      BY <2>4, <2>14 DEF CodexKept
    <2>20. CodexIInv /\ m = cmd[c]
      BY DEF m
    <2> QED
      BY <1>2, <1>3, <1>5, <2>2, <2>4, <2>7, <2>9, <2>11, <2>18, <2>19, <2>20, CodexStepKeeps
         DEF m
  <1> QED
    BY <1>6, <1>7, <1>8 DEF WriteHistory

\* What is published is what stands on disk of the run, its own result or not.
LEMMA PromoteIInv ==
  ASSUME CodexIInv, NEW c \in Runs, promote_current_result(c) PROVE CodexIInv'
  <1> DEFINE m == cmd[c]
  <1>1. /\ m \in CodexCommands /\ m.pc = "promote" /\ Placed(m) /\ CodexEvident(c, m, host[c])
        /\ host[c] \in Holdings
    BY CodexFacts DEF promote_current_result, At
  <1>2. m.output \in Outputs /\ m.pc \in Recorded
    BY <1>1 DEF Placed, Recorded, Over
  <1>3. /\ tree' = tree /\ host' = host /\ history' = history /\ raws' = raws
        /\ mirror' \in {mirror, raws[m.output]} /\ Become(c, End(c))
        /\ attempts' = attempts
    BY DEF promote_current_result, attempts
  <1>4. /\ CodexTypeOK /\ host \in [Runs -> Holdings] /\ history' \in Histories \cup {None}
        /\ raws' \in [Outputs -> Results \cup {None, Torn}]
    BY <1>3 DEF CodexIInv, CodexTypeOK
  <1> SUFFICES ASSUME NEW r, r = Leave(c, "ended"), NEW h \in Holdings, h = host[c]
               PROVE  CodexIInv'
    BY <1>1
  <1>5. /\ r \in CodexCommands /\ r.pc \in {"ended", "killed"} /\ r.kind = m.kind
        /\ r.contested = m.contested /\ Placed(r) /\ Owns(r, h) /\ Watched(r) /\ Dated(r)
        /\ Follows(m, r)
    BY <1>2, LeaveSound
  <1>6. /\ host' = [host EXCEPT ![c] = h] /\ cmd' = [cmd EXCEPT ![c] = r]
        /\ attempts \in Ledgers
        /\ \A i \in DOMAIN attempts : i \in DOMAIN attempts' /\ attempts'[i] = attempts[i]
        /\ \A i \in DOMAIN attempts' : i \in DOMAIN attempts
    BY <1>3, <1>4 DEF Become, End, Ledgers
  <1>7. "history" \notin r.contested => \A s : (s \in Ledgers)' => Holds(c, r, s)
    <2>1. "history" \notin m.contested => \A s \in Ledgers : Holds(c, m, s)
      BY <1>1 DEF CodexEvident
    <2>2. \A s : (s \in Ledgers)' => s \in Ledgers
      BY <1>3, <1>4, <1>5, <1>6, LedgersStay
    <2>3. \A s : Holds(c, m, s) => Holds(c, r, s)
      BY <1>5 DEF Holds
    <2> HIDE DEF Ledgers, m
    <2> QED
      BY <1>5, <2>1, <2>2, <2>3
  <1>8. CodexEvident(c, r, h)'
    <2>1. "history" \notin r.contested => (\A s \in Ledgers : Holds(c, r, s))'
      BY <1>7 DEF Holds, ResultOf
    <2> HIDE DEF Ledgers
    <2> QED
      BY <1>5, <2>1 DEF CodexEvident, Recorded
  <1>9. Sound(c, r, h)'
    BY <1>3, <1>5, <1>8 DEF Sound, Placed, Owns, Watched, Dated, BothSeen
  <1>10. m.pc \in Told => h = host[c]
    OBVIOUS
  <1> QED
    BY <1>2, <1>3, <1>4, <1>5, <1>6, <1>9, CodexStepKeeps

\* A killed invocation keeps what its record came from only if it may have one.
LEMMA KillIInv ==
  ASSUME CodexIInv, NEW c \in Runs, Kill(c) PROVE CodexIInv'
  <1> DEFINE m == cmd[c]
  <1>1. m \in CodexCommands /\ m.pc \notin Over
    BY CodexFacts DEF Kill, Active
  <1>2. CASE m.pc \in Recorded
    <2> SUFFICES ASSUME NEW r, r = Leave(c, "killed") PROVE CodexIInv'
      OBVIOUS
    <2>1. Only(c, r)
      BY <1>2 DEF Kill, Recorded
    <2>2. /\ r \in CodexCommands /\ r.pc = "killed"
          /\ Placed(r) /\ Owns(r, host[c]) /\ Watched(r) /\ Dated(r) /\ Follows(m, r)
      BY <1>2, LeaveSound
    <2>3. CodexEvident(c, r, host[c])
      BY <2>2 DEF CodexEvident, Recorded
    <2> QED
      BY <2>1, <2>2, <2>3, CodexOnlyStep DEF Sound
  <1>3. CASE m.pc \notin Recorded
    <2> SUFFICES ASSUME NEW r, r = [Idle EXCEPT !.pc = "killed"] PROVE CodexIInv'
      OBVIOUS
    <2>1. Only(c, r)
      BY <1>3 DEF Kill, Recorded
    <2>2. r \in CodexCommands
      BY IdleTyped DEF CodexCommands, Over
    <2>3. /\ r.pc = "killed" /\ r.kind = "none" /\ ~r.verified /\ r.aborted = None
          /\ r.seen = [s \in Sessions |-> "none"]
      BY DEF Idle
    <2> HIDE DEF m
    <2>4. Placed(r) /\ Owns(r, host[c]) /\ Watched(r)
      BY <2>3 DEF Placed, Owns, Watched, Early, Lifecycle, Removal, After, Over
    <2>5. Dated(r) /\ CodexEvident(c, r, host[c])
      BY <2>3 DEF Dated, CodexEvident, Unwritten, Early, Lifecycle, Removal, Recorded
    <2>6. Follows(m, r)
      BY <1>1, <1>3, <2>3
         DEF Follows, Settled, Told, Unwritten, Early, Lifecycle, Removal, Recorded, Over
    <2> QED
      BY <2>1, <2>2, <2>4, <2>5, <2>6, CodexOnlyStep DEF Sound, m
  <1> QED
    BY <1>2, <1>3

LEMMA EditedTyped ==
  ASSUME NEW m \in CodexCommands PROVE [m EXCEPT !.edited = TRUE] \in CodexCommands
  <1>1. \A e \in BOOLEAN : [m EXCEPT !.edited = e] \in CodexCommands
    BY DEF CodexCommands
  <1> QED
    BY <1>1, Zenon

\* An edit is noted by every run that still reads from the tree.
LEMMA EditTreeIInv ==
  ASSUME CodexIInv, EditTree PROVE CodexIInv'
  <1>1. /\ host' = host /\ history' = history /\ raws' = raws /\ mirror' = mirror
        /\ tree' \in Trees /\ attempts' = attempts
    BY DEF EditTree, files, attempts
  <1>2. CodexTypeOK /\ cmd \in [Runs -> CodexCommands]
    BY DEF CodexIInv, CodexTypeOK
  <1>3. ASSUME NEW c \in Runs
        PROVE  /\ cmd'[c] \in CodexCommands
               /\ ~Reading(c) => cmd'[c] = cmd[c]
               /\ Reading(c) => cmd'[c] = [cmd[c] EXCEPT !.edited = TRUE]
    <2>1. /\ ~Reading(c) => cmd'[c] = cmd[c]
          /\ Reading(c) => cmd'[c] = [cmd[c] EXCEPT !.edited = TRUE]
      BY DEF EditTree
    <2>2. cmd[c] \in CodexCommands /\ [cmd[c] EXCEPT !.edited = TRUE] \in CodexCommands
      BY <1>2, EditedTyped
    <2> QED
      BY <2>1, <2>2
  <1>4. ASSUME NEW c \in Runs
        PROVE  LET m == cmd[c] e == cmd'[c] IN
               /\ e.pc = m.pc /\ e.kind = m.kind /\ e.output = m.output /\ e.inputs = m.inputs
               /\ e.market = m.market /\ e.plugin = m.plugin /\ e.seen = m.seen
               /\ e.errors = m.errors /\ e.error = m.error /\ e.verified = m.verified
               /\ e.aborted = m.aborted /\ e.record = m.record /\ e.read = m.read
               /\ e.lost = m.lost /\ e.used = m.used /\ e.contested = m.contested
               /\ ~e.edited => ~m.edited /\ ~Reading(c)
    <2>1. cmd[c] \in CodexCommands
      BY <1>2
    <2>2. CASE Reading(c)
      <3>1. cmd'[c] = [cmd[c] EXCEPT !.edited = TRUE]
        BY <1>3, <2>2
      <3> QED
        BY <2>1, <3>1 DEF CodexCommands
    <2>3. CASE ~Reading(c)
      BY <1>3, <2>3
    <2> QED
      BY <2>2, <2>3
  <1>5. CodexTypeOK'
    <2>1. cmd' = [c \in Runs |-> cmd'[c]]
      BY DEF EditTree
    <2>2. cmd' \in [Runs -> CodexCommands]
      BY <1>3, <2>1
    <2> QED
      BY <1>1, <1>2, <2>2 DEF CodexTypeOK
  <1>6. \A o : Fixed(o) => Fixed(o)'
    BY <1>1, <1>4 DEF Fixed
  <1>7. \A s : (s \in Ledgers)' => s \in Ledgers
    <2>1. ASSUME NEW d \in Runs, cmd'[d].pc = "append" PROVE cmd'[d].read.attempts \in Read
      BY <1>4, <2>1 DEF Read, At
    <2> QED
      BY <1>1, <2>1 DEF Ledgers, Read, At
  <1>8. ASSUME NEW c \in Runs PROVE Sound(c, cmd[c], host[c])'
    <2> SUFFICES ASSUME NEW m, m = cmd[c], NEW e, e = cmd'[c], NEW h, h = host[c]
                 PROVE  Sound(c, e, h)'
      BY <1>1
    <2>1. /\ m \in CodexCommands /\ Placed(m) /\ Owns(m, h)
          /\ Watched(m) /\ Dated(m) /\ CodexEvident(c, m, h)
      BY CodexFacts
    <2>2. /\ e.pc = m.pc /\ e.kind = m.kind /\ e.output = m.output /\ e.inputs = m.inputs
          /\ e.market = m.market /\ e.plugin = m.plugin /\ e.seen = m.seen
          /\ e.errors = m.errors /\ e.error = m.error /\ e.verified = m.verified
          /\ e.aborted = m.aborted /\ e.record = m.record /\ e.read = m.read
          /\ e.lost = m.lost /\ e.used = m.used /\ e.contested = m.contested
          /\ ~e.edited => ~m.edited /\ ~Reading(c)
      BY <1>4
    <2>3. m.pc = "idle" => e = m
      BY <1>3 DEF Reading, Active, Over
    <2>4. Placed(e)'
      BY <2>1, <2>2, <2>3 DEF Placed
    <2>5. Owns(e, h)'
      BY <2>1, <2>2 DEF Owns
    <2>6. Watched(e)'
      BY <2>1, <2>2 DEF Watched, BothSeen
    <2>7. Dated(e)'
      <3>1. ~e.edited /\ m.kind = "full" =>
              m.pc \notin Unwritten \ {"leave", "write"}
        BY <2>2 DEF Reading, Active, Over, Unwritten, Early, Lifecycle, Removal
      <3> QED
        BY <2>1, <2>2, <3>1 DEF Dated
    <2>8. CodexEvident(c, e, h)'
      <3>1. ResultOf(c, e) = ResultOf(c, m) /\ (\A s : Holds(c, m, s) => Holds(c, e, s))
        BY <2>2 DEF ResultOf, Holds
      <3>2. Recordable(c, m, h) => Recordable(c, e, h)
        BY <2>2, <3>1 DEF Recordable
      <3>3. (\A s \in Ledgers : Holds(c, m, s)) => (\A s \in Ledgers : Holds(c, e, s))'
        BY <1>7, <3>1 DEF Holds, ResultOf
      <3>4. e.kind = "full" /\ e.pc \in Recorded /\ e.aborted = None /\ "raw" \notin e.contested =>
              raws'[e.output] = ResultOf(c, e) /\ Fixed(e.output)'
        BY <1>1, <1>6, <2>1, <2>2, <3>1 DEF CodexEvident
      <3>5. e.pc = "append" => e.read # None /\ (e.kind # "refresh" => Recordable(c, e, h))
        BY <2>1, <2>2, <3>2 DEF CodexEvident
      <3>6. \/ e.pc = "promote"
            \/ e.pc = "ended" /\ e.kind = "full" /\ ~e.lost
            => "history" \in e.contested \/ \A s \in Ledgers : Holds(c, m, s)
        BY <2>1, <2>2 DEF CodexEvident
      <3>7. Recordable(c, e, h) => Recordable(c, e, h)'
        BY DEF Recordable
      <3> HIDE DEF Ledgers
      <3> QED
        BY <3>3, <3>4, <3>5, <3>6, <3>7 DEF CodexEvident
    <2> QED
      BY <2>4, <2>5, <2>6, <2>7, <2>8 DEF Sound
  <1>9. ASSUME NEW a \in Attempts, CodexKept(a) PROVE CodexKept(a)'
    <2>1. a.id \in Runs
      BY DEF Attempts
    <2>2. /\ cmd'[a.id].pc = cmd[a.id].pc /\ cmd'[a.id].seen = cmd[a.id].seen
          /\ cmd'[a.id].contested = cmd[a.id].contested
      BY <1>4, <2>1
    <2> QED
      BY <1>1, <1>6, <1>9, <2>2 DEF CodexKept
  <1>10. ASSUME NEW s, (s \in Ledgers)', NEW i \in DOMAIN s PROVE CodexKept(s[i])'
    <2>1. s \in Ledgers /\ s \in Seq(Attempts)
      BY <1>7, <1>10, LedgersTyped
    <2>2. s[i] \in Attempts /\ CodexKept(s[i])
      BY <2>1 DEF CodexIInv
    <2> QED
      BY <1>9, <2>2
  <1>11. ASSUME NEW x, Current(x) PROVE Current(x)'
    <2>1. x \in Results => x.run \in Runs
      BY DEF Results
    <2> QED
      BY <1>4, <1>11, <2>1 DEF Current, Settled
  <1>12. (\A o \in Outputs : Current(raws[o])') /\ Current(mirror)'
    <2>1. (\A o \in Outputs : Current(raws[o])) /\ Current(mirror)
      BY DEF CodexIInv
    <2>2. \A x : Current(x) => Current(x)'
      BY <1>11
    <2>3. Current(mirror)'
      BY <1>1, <1>11, <2>1
    <2>4. ASSUME NEW o \in Outputs PROVE Current(raws[o])'
      BY <1>1, <1>11, <2>1
    <2> QED
      BY <2>3, <2>4
  <1> QED
    BY <1>5, <1>8, <1>10, <1>12 DEF CodexIInv

LEMMA InitIInv == Init => CodexIInv
  <1> SUFFICES ASSUME Init PROVE CodexIInv
    OBVIOUS
  <1>1. tree \in Trees /\ history = None /\ mirror = None /\ attempts = <<>>
    BY DEF Init, attempts
  <1>2. CodexTypeOK
    BY <1>1, IdleTyped DEF Init, CodexTypeOK, Holdings, Caches
  <1>3. ASSUME NEW c \in Runs PROVE Sound(c, cmd[c], host[c])
    <2>1. cmd[c] = Idle /\ Spotless(host[c])
      BY DEF Init, Spotless
    <2>2. /\ Idle.pc = "idle" /\ Idle.kind = "none" /\ ~Idle.verified
          /\ Idle.aborted = None /\ Idle.seen = [s \in Sessions |-> "none"]
      BY DEF Idle
    <2>3. Placed(Idle) /\ Owns(Idle, host[c])
      BY <2>1, <2>2 DEF Placed, Owns, Early, Lifecycle, Removal, After, Over
    <2>4. Watched(Idle) /\ Dated(Idle) /\ CodexEvident(c, Idle, host[c])
      BY <2>2
         DEF Watched, Dated, CodexEvident, Unwritten, Early, Lifecycle, Removal, After, Recorded
    <2> QED
      BY <2>1, <2>3, <2>4 DEF Sound
  <1>4. \A s \in Ledgers : s = <<>>
    BY <1>1 DEF Ledgers, Read, Init, At, Idle
  <1>5. (\A o \in Outputs : Current(raws[o])) /\ Current(mirror)
    <2>1. None \notin Results
      BY EvaluationAssumption DEF EvaluationAssumption
    <2> QED
      BY <1>1, <2>1 DEF Init, Current
  <1> QED
    BY <1>2, <1>3, <1>4, <1>5 DEF CodexIInv

LEMMA NextIInv == ASSUME CodexIInv, [Next]_vars PROVE CodexIInv'
  <1>1. CASE UNCHANGED vars
    <2>1. /\ tree' = tree /\ host' = host /\ history' = history /\ raws' = raws
          /\ mirror' = mirror /\ cmd' = cmd
      BY <1>1 DEF vars
    <2>2. attempts' = attempts
      BY <2>1 DEF attempts
    <2>3. Ledgers' = Ledgers
      BY <2>1, <2>2 DEF Ledgers, Read, At
    <2>4. CodexTypeOK'
      BY <2>1 DEF CodexIInv, CodexTypeOK
    <2>5. \A o : Fixed(o)' <=> Fixed(o)
      BY <2>1 DEF Fixed
    <2>6. ASSUME NEW c \in Runs PROVE Sound(c, cmd[c], host[c])'
      <3> SUFFICES ASSUME NEW m, m = cmd[c], NEW h, h = host[c] PROVE Sound(c, m, h)'
        BY <2>1
      <3>1. Placed(m) /\ Owns(m, h) /\ Watched(m) /\ Dated(m) /\ CodexEvident(c, m, h)
        BY CodexFacts
      <3>2. Placed(m)' /\ Owns(m, h)' /\ Watched(m)' /\ Dated(m)'
        BY <2>1, <3>1 DEF Placed, Owns, Watched, BothSeen, Dated
      <3>3. (\A s \in Ledgers : Holds(c, m, s)) => (\A s \in Ledgers : Holds(c, m, s))'
        BY <2>3 DEF Holds, ResultOf
      <3> HIDE DEF Ledgers
      <3>4. CodexEvident(c, m, h)'
        BY <2>1, <2>5, <3>1, <3>3 DEF CodexEvident
      <3> QED
        BY <3>2, <3>4 DEF Sound
    <2>7. ASSUME NEW s, (s \in Ledgers)', NEW i \in DOMAIN s PROVE CodexKept(s[i])'
      <3>1. s \in Ledgers
        BY <2>3, <2>7
      <3>2. CodexKept(s[i])
        BY <3>1 DEF CodexIInv
      <3> QED
        BY <2>1, <2>5, <3>2 DEF CodexKept
    <2>8. (\A o \in Outputs : Current(raws[o])') /\ Current(mirror)'
      BY <2>1 DEF CodexIInv, Current
    <2> QED
      BY <2>4, <2>6, <2>7, <2>8 DEF CodexIInv
  <1>2. CASE EditTree
    BY <1>2, EditTreeIInv
  <1>3. ASSUME NEW c \in Runs, Begin(c) PROVE CodexIInv'
    BY <1>3, BeginIInv
  <1>4. ASSUME NEW c \in Runs, Kill(c) PROVE CodexIInv'
    BY <1>4, KillIInv
  <1>5. ASSUME NEW c \in Runs, Step(c) PROVE CodexIInv'
    <2>1. CASE ReadManifest(c) \/ Identify(c) \/ PrepareMarketplace(c)
      BY <2>1, ReadManifestIInv, IdentifyIInv, PrepareMarketplaceIInv
    <2>2. CASE AddMarketplace(c) \/ AddPlugin(c)
      BY <2>2, AddMarketplaceIInv, AddPluginIInv
    <2>3. CASE HookSession(c) \/ PluginSession(c)
      BY <2>3, SessionIInv DEF HookSession, PluginSession
    <2>4. CASE RemovePlugin(c) \/ RemoveMarketplace(c) \/ RemoveCache(c) \/ ListState(c)
      BY <2>4, RemovePluginIInv, RemoveMarketplaceIInv, RemoveCacheIInv, ListStateIInv
    <2>5. CASE MissingCli(c) \/ LeaveScratch(c)
      BY <2>5, MissingCliIInv, LeaveScratchIInv
    <2>6. CASE WriteResult(c) \/ ReadHistory(c) \/ WriteHistory(c)
      BY <2>6, WriteResultIInv, ReadHistoryIInv, WriteHistoryIInv
    <2>7. CASE promote_current_result(c)
      BY <2>7, PromoteIInv
    <2> QED
      BY <1>5, <2>1, <2>2, <2>3, <2>4, <2>5, <2>6, <2>7 DEF Step
  <1> QED
    BY <1>1, <1>2, <1>3, <1>4, <1>5 DEF Next

(***************************************************************************)
(* What the lane promises, however many runs overlap and however the tree  *)
(* is edited.                                                              *)
(***************************************************************************)
THEOREM CodexInvariant == Spec => []CodexIInv
  <1>1. CodexIInv /\ [Next]_vars => CodexIInv'
    BY NextIInv
  <1> QED
    BY <1>1, InitIInv, PTL DEF Spec

\* Every document of the lane keeps its form, whatever the host does to a run.
THEOREM CodexTypeCorrect == Spec => []CodexTypeOK
  <1>1. CodexIInv => CodexTypeOK
    BY DEF CodexIInv
  <1> QED
    BY <1>1, CodexInvariant, PTL

LEMMA RecordsKept ==
  ASSUME CodexIInv, NEW i \in DOMAIN attempts PROVE CodexKept(attempts[i])
  BY DEF CodexIInv, Ledgers

\* What the lifecycle reports removed is removed: no run that goes on as cleaned
\* up, and no record that claims it, left anything in the user's Codex.
THEOREM LifecycleClaimHolds == Spec => []LifecycleClaimTrue
  <1>1. ASSUME CodexIInv PROVE LifecycleClaimTrue
    <2>1. \A c \in Runs : cmd[c].verified => Clean(c)
      BY <1>1, CodexFacts DEF Owns, Spotless, Clean
    <2>2. \A i \in DOMAIN attempts : Warranted(attempts[i], host[attempts[i].id])
      BY <1>1, RecordsKept DEF CodexKept
    <2> QED
      BY <2>1, <2>2 DEF LifecycleClaimTrue, Warranted, Spotless, Clean
  <1> QED
    BY <1>1, CodexInvariant, PTL

\* No record but that of a run aborted in its missing-CLI session claims of a
\* check more than its sessions were judged to show, and that one claims the
\* plugin sessions only if both were judged.
THEOREM ChecksHold == Spec => []ChecksTrue
  <1>1. ASSUME CodexIInv PROVE ChecksTrue
    <2>1. \A i \in DOMAIN attempts : Shown(attempts[i], cmd[attempts[i].id].seen)
      BY <1>1, RecordsKept DEF CodexKept
    <2> QED
      BY <2>1 DEF ChecksTrue, Shown
  <1> QED
    BY <1>1, CodexInvariant, PTL

\* The verifier refuses no record the lane retains, except for a failure of
\* safety that the record states, or for a result that another run, having named
\* the same output, may have written.
THEOREM CodexRecordsAccepted == Spec => []RecordsVerify
  <1>1. ASSUME CodexIInv PROVE RecordsVerify
    <2> SUFFICES ASSUME NEW i \in DOMAIN attempts, attempt_errors(attempts[i]),
                        attempts[i].safety_pass, "raw" \notin cmd[attempts[i].id].contested
                 PROVE  FALSE
      BY DEF RecordsVerify
    <2> DEFINE a == attempts[i]
    <2>1. ~Refusable(a) /\ (a.raw # None => raws[a.output] = a.raw)
      BY <1>1, RecordsKept DEF CodexKept
    <2> QED
      BY <2>1 DEF Refusable, attempt_errors, retained_raw_result_errors
  <1> QED
    BY <1>1, CodexInvariant, PTL

\* A full run that ends has a record, however many overlap it, unless the history
\* could not be written or another run had read it and not yet written it back.
THEOREM RunsRetained == Spec => []EveryRunRetained
  <1>1. ASSUME CodexIInv PROVE EveryRunRetained
    <2> SUFFICES ASSUME NEW c \in Runs, cmd[c].pc = "ended", cmd[c].kind = "full",
                        ~cmd[c].lost, "history" \notin cmd[c].contested
                 PROVE  c \in {attempts[i].id : i \in DOMAIN attempts}
      BY DEF EveryRunRetained
    <2>1. \A s \in Ledgers : Holds(c, cmd[c], s)
      BY <1>1, CodexFacts DEF CodexEvident
    <2>2. Holds(c, cmd[c], attempts)
      BY <2>1 DEF Ledgers
    <2> QED
      BY <2>2 DEF Holds
  <1> QED
    BY <1>1, CodexInvariant, PTL

\* When the gate passes for the current tree, all that the published run used is
\* what the tree holds, unless the tree was edited while the run read from it.
THEOREM CurrentWasDelivered == Spec => []CurrentMeansDelivered
  <1>1. ASSUME CodexIInv PROVE CurrentMeansDelivered
    <2>1. ASSUME verify_results(TRUE) PROVE mirror \in Results /\ mirror.inputs = tree
      BY <1>1, <2>1 DEF verify_results, CodexIInv, CodexTypeOK
    <2>2. Current(mirror)
      BY <1>1 DEF CodexIInv
    <2> QED
      BY <2>1, <2>2 DEF CurrentMeansDelivered, Current
  <1> QED
    BY <1>1, CodexInvariant, PTL

(***************************************************************************)
(* The lane implements the ledger.                                         *)
(***************************************************************************)
\* What a run writes back of a history that still stands retains its record; it
\* is the first, as a run without a record has an identifier that no record uses.
LEMMA WriteRetains ==
  ASSUME CodexIInv, NEW c \in Runs, WriteHistory(c), ~Overtaken(c)
  PROVE  Ledger!Retain \/ UNCHANGED <<attempts, mirror>>
  <1> DEFINE m == cmd[c]
  <1>1. /\ m.pc = "append" /\ m.kind \in Kinds /\ m.read \in Histories
        /\ m.read.attempts = attempts /\ None \notin Histories
        /\ m.kind = "refresh" => m.inputs \in Trees
        /\ m.kind # "refresh" => m.record \in Attempts /\ m.record.id = c
    BY CodexFacts, EvaluationAssumption
       DEF WriteHistory, At, Overtaken, Placed, Dated, CodexEvident, Recordable, CodexCommands,
           EvaluationAssumption
  <1>2. attempts \in Seq(Attempts) /\ mirror' = mirror
    BY Types DEF CodexIInv, WriteHistory
  <1>3. CASE UNCHANGED history
    BY <1>2, <1>3 DEF attempts
  <1>4. CASE m.kind = "refresh" /\ history' = [m.read EXCEPT !.artifact = m.inputs]
    <2>1. history' \in Histories /\ history'.attempts = m.read.attempts
      BY <1>1, <1>4 DEF Histories
    <2>2. attempts' = history'.attempts
      BY <1>1, <2>1 DEF attempts
    <2> QED
      BY <1>1, <1>2, <2>1, <2>2
  <1>5. CASE m.kind # "refresh" /\ history' = [m.read EXCEPT !.attempts = Append(@, m.record)]
    <2> SUFFICES ASSUME NEW x, x = m.record PROVE Ledger!Retain
      OBVIOUS
    <2>1. x \in Attempts /\ x.id = c
      BY <1>1, <1>5
    <2>2. history' \in Histories /\ history'.attempts = Append(attempts, x)
      <3>1. history' = [m.read EXCEPT !.attempts = Append(attempts, x)]
        BY <1>1, <1>5
      <3>2. Append(attempts, x) \in Seq(Attempts)
        BY <1>2, <2>1
      <3> QED
        BY <1>1, <3>1, <3>2 DEF Histories
    <2>3. attempts' = Append(attempts, x)
      BY <1>1, <2>2 DEF attempts
    <2>4. /\ Len(attempts') = Len(attempts) + 1 /\ attempts'[Len(attempts')] = x
          /\ \A i \in DOMAIN attempts : attempts'[i] = attempts[i]
      BY <1>2, <2>1, <2>3
    <2>5. \A i \in DOMAIN attempts : attempts[i].id # c
      BY <1>1, RecordsKept DEF CodexKept, Told
    <2> QED
      BY <1>2, <2>1, <2>4, <2>5 DEF Ledger!Retain, Ledger!Ids
  <1> QED
    BY <1>3, <1>4, <1>5 DEF WriteHistory

\* What is published is the raw result of the run's own record, unless another
\* run contested its file or its record.
LEMMA PromotePublishes ==
  ASSUME CodexIInv, NEW c \in Runs, promote_current_result(c), ~Overtaken(c)
  PROVE  Ledger!Publish \/ UNCHANGED <<attempts, mirror>>
  <1> DEFINE m == cmd[c]
  <1>1. /\ attempts' = attempts /\ mirror' \in {mirror, raws[m.output]} /\ m.pc = "promote"
        /\ m.contested = {}
    BY DEF promote_current_result, attempts, At, Overtaken
  <1>2. /\ m \in CodexCommands /\ m.kind = "full" /\ m.aborted = None /\ m.inputs \in Trees
        /\ raws[m.output] = ResultOf(c, m)
    BY <1>1, CodexFacts DEF Placed, Dated, CodexEvident, Recorded
  <1>3. \E i \in DOMAIN attempts : attempts[i].raw = ResultOf(c, m)
    <2>1. \A s \in Ledgers : Holds(c, m, s)
      BY <1>1, CodexFacts DEF CodexEvident
    <2>2. Holds(c, m, attempts)
      BY <2>1 DEF Ledgers
    <2> QED
      BY <1>1, <2>2 DEF Holds
  <1>4. ResultOf(c, m) # None
    BY <1>2, ResultTyped
  <1>5. ResultOf(c, m) \in Ledger!Retained
    BY <1>3, <1>4 DEF Ledger!Retained
  <1> QED
    BY <1>1, <1>2, <1>5 DEF Ledger!Publish

\* A run moves on whenever it writes the history or publishes.
LEMMA EvidenceMoves ==
  ASSUME CodexIInv, NEW c \in Runs, WriteHistory(c) \/ promote_current_result(c)
  PROVE  cmd'[c] # cmd[c]
  <1>1. cmd \in [Runs -> CodexCommands]
    BY DEF CodexIInv, CodexTypeOK
  <1>2. CASE WriteHistory(c)
    <2>1. cmd[c].pc = "append" /\ cmd[c] \in CodexCommands
      BY <1>1, <1>2 DEF WriteHistory, At
    <2>2. ASSUME NEW r, Become(c, r), r.pc # "append" PROVE cmd'[c] # cmd[c]
      BY <1>1, <2>1, <2>2 DEF Become
    <2>3. Lose(c).pc = "ended" /\ End(c).pc = "ended"
      BY DEF Lose, End, Leave, Idle
    <2>4. ASSUME NEW contested
          PROVE  [IF completed(c) THEN Go(c, "promote") ELSE End(c)
                    EXCEPT !.contested = contested].pc # "append"
      <3>1. Go(c, "promote").pc = "promote" /\ Go(c, "promote") \in CodexCommands
        BY <2>1 DEF Go, CodexCommands, After
      <3>2. DOMAIN End(c) = DOMAIN Idle
        BY DEF End, Leave
      <3>3. CASE completed(c)
        BY <3>1, <3>3 DEF CodexCommands
      <3>4. CASE ~completed(c)
        BY <2>3, <3>4 DEF End, Leave, Idle
      <3> QED
        BY <3>3, <3>4
    <2> QED
      BY <1>2, <2>2, <2>3, <2>4 DEF WriteHistory
  <1>3. CASE promote_current_result(c)
    <2>1. cmd[c].pc = "promote" /\ Become(c, End(c)) /\ End(c).pc = "ended"
      BY <1>3 DEF promote_current_result, At, End, Leave, Idle
    <2> QED
      BY <1>1, <2>1 DEF Become
  <1> QED
    BY <1>2, <1>3

\* Attempts are only appended, one per run, and the current result is always the
\* retained raw result of one of them, except in the steps of a run that writes
\* back a history another one has written since, or that publishes after another
\* one contested its file or its record.
THEOREM ImplementsLedger == Spec => LedgerSpec
  <1> DEFINE Overtaking == \E c \in Runs : Overtaken(c) /\ cmd'[c] # cmd[c]
  <1>1. Init => Ledger!Init
    BY DEF Init, Ledger!Init, attempts
  <1>2. ASSUME CodexIInv, [Next]_vars
        PROVE  [Ledger!Next \/ Overtaking]_<<attempts, mirror>>
    <2> SUFFICES Ledger!Next \/ Overtaking \/ UNCHANGED <<attempts, mirror>>
      OBVIOUS
    <2>1. CASE UNCHANGED <<history, mirror>>
      BY <2>1 DEF attempts
    <2>2. ASSUME NEW c \in Runs, WriteHistory(c) \/ promote_current_result(c)
          PROVE  Ledger!Next \/ Overtaking \/ UNCHANGED <<attempts, mirror>>
      <3>1. CASE Overtaken(c)
        BY <1>2, <2>2, <3>1, EvidenceMoves
      <3>2. CASE ~Overtaken(c) /\ WriteHistory(c)
        BY <1>2, <3>2, WriteRetains DEF Ledger!Next
      <3>3. CASE ~Overtaken(c) /\ promote_current_result(c)
        BY <1>2, <3>3, PromotePublishes DEF Ledger!Next
      <3> QED
        BY <2>2, <3>1, <3>2, <3>3
    <2>4. \/ UNCHANGED <<history, mirror>>
          \/ \E c \in Runs : WriteHistory(c) \/ promote_current_result(c)
      <3>1. CASE UNCHANGED vars
        BY <3>1 DEF vars
      <3>2. CASE EditTree
        BY <3>2 DEF EditTree, files
      <3> DEFINE Same == UNCHANGED <<history, mirror>>
      <3>3. \A c, r, h : Only(c, r) \/ Host(c, r, h) => Same
        BY DEF Only, Host, files
      <3> HIDE DEF Same
      <3>4. ASSUME NEW c \in Runs, Begin(c) \/ Kill(c) PROVE Same
        <4>1. CASE Begin(c)
          BY <3>3, <4>1, Zenon DEF Begin
        <4>2. CASE Kill(c)
          BY <3>3, <4>2 DEF Kill
        <4> QED
          BY <3>4, <4>1, <4>2
      <3>5. ASSUME NEW c \in Runs, Step(c), ~WriteHistory(c), ~promote_current_result(c)
            PROVE  Same
        <4>1. CASE ReadManifest(c) \/ Identify(c) \/ PrepareMarketplace(c)
          BY <3>3, <4>1 DEF ReadManifest, Identify, PrepareMarketplace
        <4>2. CASE AddMarketplace(c) \/ AddPlugin(c)
          BY <3>3, <4>2 DEF AddMarketplace, AddPlugin
        <4>3. CASE HookSession(c) \/ PluginSession(c)
          BY <3>3, <4>3 DEF HookSession, PluginSession, Session
        <4>4. CASE RemovePlugin(c) \/ RemoveMarketplace(c)
          <5>1. CASE RemovePlugin(c)
            BY <3>3, <5>1, Zenon DEF RemovePlugin, Interrupted
          <5>2. CASE RemoveMarketplace(c)
            BY <3>3, <5>2 DEF RemoveMarketplace, Interrupted
          <5> QED
            BY <4>4, <5>1, <5>2
        <4>5. CASE RemoveCache(c) \/ ListState(c)
          BY <3>3, <4>5 DEF RemoveCache, ListState, Interrupted
        <4>6. CASE MissingCli(c) \/ LeaveScratch(c)
          BY <3>3, <4>6 DEF MissingCli, LeaveScratch
        <4>7. CASE WriteResult(c) \/ ReadHistory(c)
          BY <3>3, <4>7 DEF WriteResult, ReadHistory, Same
        <4> QED
          BY <3>5, <4>1, <4>2, <4>3, <4>4, <4>5, <4>6, <4>7 DEF Step
      <3> QED
        BY <1>2, <3>1, <3>2, <3>4, <3>5 DEF Next, Same
    <2> QED
      BY <2>1, <2>2, <2>4
  <1> QED
    BY <1>1, <1>2, CodexInvariant, PTL DEF Spec, LedgerSpec

(***************************************************************************)
(* The Claude lane.                                                        *)
(***************************************************************************)

Making == {"inspect", "make", "mark"}
Removing == {"check_parent", "check_root", "check_marker", "remove"}
Recording == {"result", "link", "read", "append", "promote"}
Locations == {"idle", "calls", "ended"} \cup Making \cup Removing \cup Recording

ClaudeCommands ==
  [pc: Locations, output: Outputs \cup {None}, used: Trees \cup {None},
   parent_identity: Parents \cup {None}, happened: Happenings \cup {"none"},
   error: BOOLEAN, cleanup: BOOLEAN, late: BOOLEAN, result: ClaudeResults \cup {None},
   read: Seq(ClaudeAttempts)]

ClaudeTypeOK ==
  /\ parent \in Parents
  /\ entry \in [Parents -> [Runs -> Directories \cup {None}]]
  /\ token \in [Directories -> Runs \cup {None}]
  /\ swaps \in Nat
  /\ removed \in SUBSET (Runs \X Directories)
  /\ tree \in Trees
  /\ claude_attempts \in Seq(ClaudeAttempts)
  /\ raws \in [Outputs -> ClaudeResults \cup {None}]
  /\ current \in ClaudeResults \cup {None}
  /\ claude \in [Runs -> ClaudeCommands]

(***************************************************************************)
(* The invariant.                                                          *)
(***************************************************************************)
\* Under the name of a run stands its own directory or another program's.
Standing == \A p \in Parents, c \in Runs : entry[p][c] \in Foreign \cup {c, None}

\* What each comparison of the removal has established, unless a change came
\* after it: the directory compared is still there, or its replacement carries
\* another marker; after the last comparison it is the run's own.
Compared(c, m) ==
  /\ m.pc = "check_marker" =>
       LET d == entry[parent][c] IN d \in Foreign /\ token[d] = c => m.late
  /\ m.pc = "remove" => entry[parent][c] \in {c, None} \/ m.late

ClaudeJudged(m) == m.pc \in {"result", "link", "promote"} \/ (m.pc \in {"read", "append"} /\ ~m.error)

\* What a run that was not aborted has behind it.
ClaudeEvident(c, m) ==
  /\ m.pc \in Making \ {"inspect"} => m.parent_identity \in Parents
  /\ m.pc \notin {"idle", "ended"} => m.output \in Outputs
  /\ m.pc \in Making \cup {"idle", "calls"} => ~m.error
  /\ ClaudeJudged(m) => ~m.error /\ m.cleanup /\ (swaps = 0 => entry[parent][c] = None)
  /\ ClaudeJudged(m) /\ m.pc # "result" =>
       /\ m.result \in ClaudeResults /\ m.result.run = c
       /\ m.result.happened = m.happened /\ m.result.cleanup
  /\ ClaudeJudged(m) /\ m.pc \notin {"result", "link"} => raws[m.output] = m.result

\* What is so of a record from when it is made.
ClaudeKept(a) ==
  /\ claude[a.id].pc \in {"promote", "ended"}
  /\ (a.raw = None) = (a.outcome = "aborted")
  /\ a.raw # None =>
       /\ a.output \in Outputs /\ raws[a.output] = a.raw
       /\ a = attempt_from_run(a.id, a.raw, a.output)
  /\ a.safety_pass = (a.tools /\ a.writes /\ a.temporary)
  /\ a.cleanup /\ a.outcome = "completed" /\ swaps = 0 => entry[parent][a.id] = None

\* A history, on disk or as a run read it before another replaced it.
Retained(s) ==
  /\ \A i \in DOMAIN s : ClaudeKept(s[i])
  /\ \A i, j \in DOMAIN s : s[i].id = s[j].id => i = j

OwnRemoved == \A r \in removed : r[1] = r[2] \/ claude[r[1]].late

\* The run of the current result has ended, with the result that was its own.
Published ==
  current # None =>
    claude[current.run].pc = "ended" /\ claude[current.run].happened = current.happened

ClaudeIInv ==
  /\ ClaudeTypeOK /\ Standing
  /\ \A c \in Runs : Compared(c, claude[c]) /\ ClaudeEvident(c, claude[c]) /\ Retained(claude[c].read)
  /\ Retained(claude_attempts) /\ OwnRemoved /\ Published
(***************************************************************************)
(* What a step leaves of what was so before.                               *)
(***************************************************************************)
LEMMA ClaudeFacts ==
  ASSUME ClaudeIInv, NEW c \in Runs
  PROVE  /\ claude[c] \in ClaudeCommands /\ Compared(c, claude[c]) /\ ClaudeEvident(c, claude[c])
         /\ Retained(claude[c].read) /\ claude[c].read \in Seq(ClaudeAttempts)
  BY DEF ClaudeIInv, ClaudeTypeOK, ClaudeCommands

\* Steps keep a record if they overwrite no result, and put nothing under the
\* name of a run that is over.
Preserving ==
  /\ swaps' \in Nat /\ (swaps' = 0 => swaps = 0)
  /\ \A d \in Runs : claude[d].pc \in {"promote", "ended"} =>
       /\ claude'[d].pc \in {"promote", "ended"}
       /\ swaps' = 0 => entry'[parent'][d] = entry[parent][d]
  /\ \A o \in Outputs : raws[o] # None => raws'[o] = raws[o]

LEMMA KeptStays ==
  ASSUME Preserving, NEW a \in ClaudeAttempts, ClaudeKept(a) PROVE ClaudeKept(a)'
  <1>1. a.id \in Runs
    BY DEF ClaudeAttempts
  <1>2. claude'[a.id].pc \in {"promote", "ended"}
    BY <1>1 DEF Preserving, ClaudeKept
  <1>3. a.cleanup /\ a.outcome = "completed" /\ swaps' = 0 => entry'[parent'][a.id] = None
    BY <1>1 DEF Preserving, ClaudeKept
  <1>4. a.raw # None => a.output \in Outputs /\ raws'[a.output] = a.raw
    <2>1. a.raw # None => a.output \in Outputs /\ raws[a.output] = a.raw
      BY DEF ClaudeKept
    <2> QED
      BY <2>1 DEF Preserving
  <1> QED
    BY <1>2, <1>3, <1>4 DEF ClaudeKept

LEMMA RetainedStays ==
  ASSUME Preserving, NEW s \in Seq(ClaudeAttempts), Retained(s) PROVE Retained(s)'
  <1>1. \A i \in DOMAIN s : s[i] \in ClaudeAttempts /\ ClaudeKept(s[i])
    BY DEF Retained
  <1>2. \A i \in DOMAIN s : ClaudeKept(s[i])'
    BY <1>1, KeptStays
  <1> QED
    BY <1>2 DEF Retained

\* A step of one invocation.
LEMMA ClaudeStepKeeps ==
  ASSUME ClaudeIInv, NEW c \in Runs, claude[c].pc # "ended",
         NEW r \in ClaudeCommands, claude' = [claude EXCEPT ![c] = r],
         parent' = parent, swaps' = swaps, tree' = tree,
         entry' \in [Parents -> [Runs -> Directories \cup {None}]],
         \A p \in Parents : /\ \A d \in Runs \ {c} : entry'[p][d] = entry[p][d]
                            /\ entry'[p][c] \in Foreign \cup {c, None},
         token' \in [Directories -> Runs \cup {None}],
         \A d \in Foreign : token'[d] = token[d],
         removed' \in SUBSET (Runs \X Directories),
         \A x \in removed' : x \in removed \/ (x[1] = c /\ (x[2] = c \/ r.late)),
         r.late = claude[c].late,
         raws' \in [Outputs -> ClaudeResults \cup {None}],
         \A o \in Outputs : raws[o] # None => raws'[o] = raws[o],
         claude[c].pc = "promote" => r.pc = "ended" /\ entry' = entry,
         claude_attempts' \in Seq(ClaudeAttempts),
         claude_attempts' = claude_attempts \/ Retained(claude_attempts)',
         r.read \in {claude[c].read, claude_attempts, <<>>},
         current' \in ClaudeResults \cup {None},
         current' = current \/ (/\ current' # None => current'.run = c /\ r.pc = "ended"
                                                     /\ r.happened = current'.happened),
         Compared(c, r)', ClaudeEvident(c, r)'
  PROVE  ClaudeIInv'
  <1>1. ClaudeTypeOK /\ Standing /\ claude \in [Runs -> ClaudeCommands]
    BY DEF ClaudeIInv, ClaudeTypeOK
  <1>2. claude'[c] = r /\ \A d \in Runs \ {c} : claude'[d] = claude[d]
    BY <1>1
  <1>3. ClaudeTypeOK'
    BY <1>1 DEF ClaudeTypeOK
  <1>4. Standing'
    <2> SUFFICES ASSUME NEW p \in Parents, NEW d \in Runs
                 PROVE  entry'[p][d] \in Foreign \cup {d, None}
      BY DEF Standing
    <2> QED
      BY <1>1 DEF Standing
  <1>5. parent \in Parents /\ swaps \in Nat
    BY <1>1 DEF ClaudeTypeOK
  <1>6. Preserving
    <2> SUFFICES ASSUME NEW d \in Runs, claude[d].pc \in {"promote", "ended"}
                 PROVE  /\ claude'[d].pc \in {"promote", "ended"}
                        /\ entry'[parent][d] = entry[parent][d]
      BY <1>5 DEF Preserving
    <2> QED
      BY <1>2, <1>5
  <1>7. \A s \in {claude_attempts} \cup {claude[d].read : d \in Runs} \cup {<<>>} :
          s \in Seq(ClaudeAttempts) /\ Retained(s)
    <2>1. claude_attempts \in Seq(ClaudeAttempts) /\ Retained(claude_attempts)
      BY <1>1 DEF ClaudeIInv, ClaudeTypeOK
    <2>2. \A d \in Runs : claude[d].read \in Seq(ClaudeAttempts) /\ Retained(claude[d].read)
      BY ClaudeFacts
    <2>3. <<>> \in Seq(ClaudeAttempts) /\ Retained(<<>>)
      BY DEF Retained
    <2> QED
      BY <2>1, <2>2, <2>3, ZenonT(30)
  <1>8. ASSUME NEW d \in Runs
        PROVE  Compared(d, claude[d])' /\ ClaudeEvident(d, claude[d])' /\ Retained(claude[d].read)'
    <2>1. Retained(claude[d].read)'
      <3>1. claude'[d].read \in {claude_attempts} \cup {claude[x].read : x \in Runs} \cup {<<>>}
        BY <1>2
      <3>2. PICK s \in Seq(ClaudeAttempts) : Retained(s) /\ s = claude'[d].read
        BY <1>7, <3>1
      <3>3. Retained(s)'
        BY <1>6, <3>2, RetainedStays
      <3> QED
        BY <3>2, <3>3 DEF Retained
    <2>2. CASE d = c
      BY <1>2, <2>1, <2>2
    <2>3. CASE d # c
      <3>1. claude'[d] = claude[d] /\ entry'[parent][d] = entry[parent][d]
            /\ Compared(d, claude[d]) /\ ClaudeEvident(d, claude[d]) /\ claude[d] \in ClaudeCommands
        BY <1>2, <1>5, <2>3, ClaudeFacts
      <3>2. Compared(d, claude[d])'
        BY <3>1 DEF Compared
      <3>3. ClaudeEvident(d, claude[d])'
        <4>1. None \notin ClaudeResults
          BY ClaudeAssumption DEF ClaudeAssumption
        <4>2. ClaudeJudged(claude[d])' = ClaudeJudged(claude[d])
          BY <3>1 DEF ClaudeJudged
        <4> QED
          BY <3>1, <4>1, <4>2 DEF ClaudeEvident, ClaudeJudged
      <3> QED
        BY <2>1, <3>2, <3>3
    <2> QED
      BY <2>2, <2>3
  <1>9. Retained(claude_attempts)'
    <2>1. CASE claude_attempts' = claude_attempts
      <3>1. PICK s \in Seq(ClaudeAttempts) : Retained(s) /\ s = claude_attempts
        BY <1>7
      <3>2. Retained(s)'
        BY <1>6, <3>1, RetainedStays
      <3> QED
        BY <2>1, <3>1, <3>2 DEF Retained
    <2> QED
      BY <2>1
  <1>10. OwnRemoved'
    <2> SUFFICES ASSUME NEW x \in removed' PROVE x[1] = x[2] \/ claude'[x[1]].late
      BY DEF OwnRemoved
    <2>1. CASE x \in removed
      <3>1. x[1] \in Runs /\ (x[1] = x[2] \/ claude[x[1]].late)
        BY <1>1, <2>1 DEF ClaudeIInv, OwnRemoved, ClaudeTypeOK
      <3> QED
        BY <1>2, <3>1
    <2>2. CASE x[1] = c /\ (x[2] = c \/ r.late)
      BY <1>2, <2>2
    <2> QED
      BY <2>1, <2>2
  <1>11. Published'
    <2>1. CASE current' = current
      <3> SUFFICES ASSUME current # None
                   PROVE  claude'[current.run].pc = "ended"
                          /\ claude'[current.run].happened = current.happened
        BY <2>1 DEF Published
      <3>1. current.run \in Runs
        BY <1>1 DEF ClaudeTypeOK, ClaudeResults
      <3>2. claude[current.run].pc = "ended" /\ claude[current.run].happened = current.happened
        BY DEF ClaudeIInv, Published
      <3> QED
        BY <1>2, <3>1, <3>2
    <2>2. CASE current' # None => /\ current'.run = c /\ r.pc = "ended"
                                  /\ r.happened = current'.happened
      BY <1>2, <2>2 DEF Published
    <2> QED
      BY <2>1, <2>2
  <1> QED
    BY <1>3, <1>4, <1>8, <1>9, <1>10, <1>11 DEF ClaudeIInv
\* A step that touches no file and no directory.
LEMMA ClaudeOnlyStep ==
  ASSUME ClaudeIInv, NEW c \in Runs, claude[c].pc # "ended", NEW r \in ClaudeCommands, Just(c, r),
         r.late = claude[c].late, r.read \in {claude[c].read, claude_attempts, <<>>},
         claude[c].pc = "promote" => r.pc = "ended",
         Compared(c, r), ClaudeEvident(c, r)
  PROVE  ClaudeIInv'
  <1>1. ClaudeTypeOK /\ Standing /\ OwnRemoved
    BY DEF ClaudeIInv
  <1>2. UNCHANGED <<parent, entry, token, swaps, removed, tree, claude_attempts, raws, current>>
    BY DEF Just, area, documents
  <1>3. Compared(c, r)'
    BY <1>2 DEF Compared
  <1>4. ClaudeEvident(c, r)'
    BY <1>2 DEF ClaudeEvident, ClaudeJudged
  <1>5. \A p \in Parents : /\ \A d \in Runs \ {c} : entry'[p][d] = entry[p][d]
                           /\ entry'[p][c] \in Foreign \cup {c, None}
    BY <1>1, <1>2 DEF Standing
  <1> QED
    BY <1>1, <1>2, <1>3, <1>4, <1>5, ClaudeStepKeeps DEF ClaudeTypeOK, Just, Set

LEMMA Fields ==
  ASSUME NEW m \in ClaudeCommands
  PROVE  /\ \A l \in Locations : [m EXCEPT !.pc = l] \in ClaudeCommands
         /\ \A e \in BOOLEAN : [m EXCEPT !.error = e] \in ClaudeCommands
         /\ \A e \in BOOLEAN : [m EXCEPT !.cleanup = e] \in ClaudeCommands
         /\ \A e \in BOOLEAN : [m EXCEPT !.late = e] \in ClaudeCommands
         /\ \A o \in Outputs \cup {None} : [m EXCEPT !.output = o] \in ClaudeCommands
         /\ \A t \in Trees \cup {None} : [m EXCEPT !.used = t] \in ClaudeCommands
         /\ \A p \in Parents \cup {None} : [m EXCEPT !.parent_identity = p] \in ClaudeCommands
         /\ \A h \in Happenings \cup {"none"} : [m EXCEPT !.happened = h] \in ClaudeCommands
         /\ \A x \in ClaudeResults \cup {None} : [m EXCEPT !.result = x] \in ClaudeCommands
         /\ \A s \in Seq(ClaudeAttempts) : [m EXCEPT !.read = s] \in ClaudeCommands
  <1>1. \A l \in Locations : [m EXCEPT !.pc = l] \in ClaudeCommands
    BY DEF ClaudeCommands
  <1>2. \A e \in BOOLEAN : [m EXCEPT !.error = e] \in ClaudeCommands
    BY DEF ClaudeCommands
  <1>3. \A e \in BOOLEAN : [m EXCEPT !.cleanup = e] \in ClaudeCommands
    BY DEF ClaudeCommands
  <1>4. \A e \in BOOLEAN : [m EXCEPT !.late = e] \in ClaudeCommands
    BY DEF ClaudeCommands
  <1>5. \A o \in Outputs \cup {None} : [m EXCEPT !.output = o] \in ClaudeCommands
    BY DEF ClaudeCommands
  <1>6. \A t \in Trees \cup {None} : [m EXCEPT !.used = t] \in ClaudeCommands
    BY DEF ClaudeCommands
  <1>7. \A p \in Parents \cup {None} : [m EXCEPT !.parent_identity = p] \in ClaudeCommands
    BY DEF ClaudeCommands
  <1>8. \A h \in Happenings \cup {"none"} : [m EXCEPT !.happened = h] \in ClaudeCommands
    BY DEF ClaudeCommands
  <1>9. \A x \in ClaudeResults \cup {None} : [m EXCEPT !.result = x] \in ClaudeCommands
    BY DEF ClaudeCommands
  <1>10. \A s \in Seq(ClaudeAttempts) : [m EXCEPT !.read = s] \in ClaudeCommands
    BY DEF ClaudeCommands
  <1> QED
    BY <1>1, <1>2, <1>3, <1>4, <1>5, <1>6, <1>7, <1>8, <1>9, <1>10

LEMMA IdleIsCommand == NotBegun \in ClaudeCommands
  BY DEF NotBegun, ClaudeCommands, Locations

\* What becomes of an invocation that aborts, stops or ends.
LEMMA ClaudeOutcomes ==
  ASSUME ClaudeIInv, NEW c \in Runs, NEW b \in BOOLEAN, NEW r,
         \/ r = Quit(c, b) /\ claude[c].pc \notin {"idle", "ended"}
         \/ r = Forget(c) \/ r = Finish(c)
  PROVE  /\ r \in ClaudeCommands /\ r.late = claude[c].late /\ r.read \in {claude[c].read, <<>>}
         /\ Compared(c, r) /\ ClaudeEvident(c, r) /\ Compared(c, r)' /\ ClaudeEvident(c, r)'
         /\ r = Quit(c, b) \/ r.pc = "ended"
  <1>1. claude[c] \in ClaudeCommands /\ ClaudeEvident(c, claude[c])
    BY ClaudeFacts
  <1>2. CASE r = Quit(c, b) /\ claude[c].pc \notin {"idle", "ended"}
    <2>1. /\ r \in ClaudeCommands /\ r.late = claude[c].late /\ r.read = claude[c].read
          /\ r.pc = "read" /\ r.error /\ r.output = claude[c].output
      <3> DEFINE m == [claude[c] EXCEPT !.pc = "read"]
                 n == [m EXCEPT !.error = TRUE]
      <3>1. m \in ClaudeCommands
        BY <1>1, Fields DEF Locations, Recording
      <3>2. n \in ClaudeCommands
        BY <3>1, Fields
      <3>3. r = [n EXCEPT !.cleanup = b]
        BY <1>2 DEF Quit, To
      <3> HIDE DEF m, n
      <3>4. r \in ClaudeCommands
        BY <3>2, <3>3, Fields
      <3> QED
        BY <1>1, <1>2, <3>4 DEF Quit, To, ClaudeCommands
    <2>2. claude[c].output \in Outputs
      BY <1>1, <1>2 DEF ClaudeEvident
    <2>3. Compared(c, r) /\ Compared(c, r)'
      BY <2>1 DEF Compared
    <2>4. ClaudeEvident(c, r) /\ ClaudeEvident(c, r)'
      BY <2>1, <2>2 DEF ClaudeEvident, ClaudeJudged, Making
    <2> QED
      BY <1>2, <2>1, <2>3, <2>4
  <1>3. CASE r = Forget(c) \/ r = Finish(c)
    <2> DEFINE m == [NotBegun EXCEPT !.pc = "ended"]
               n == [m EXCEPT !.used = claude[c].used]
               o == [n EXCEPT !.happened = claude[c].happened]
    <2>1. m \in ClaudeCommands
      BY IdleIsCommand, Fields DEF Locations
    <2>2. n \in ClaudeCommands
      <3>1. claude[c].used \in Trees \cup {None}
        BY <1>1 DEF ClaudeCommands
      <3> QED
        BY <2>1, <3>1, Fields
    <2>3. o \in ClaudeCommands
      <3>1. claude[c].happened \in Happenings \cup {"none"}
        BY <1>1 DEF ClaudeCommands
      <3> QED
        BY <2>2, <3>1, Fields
    <2>4. claude[c].late \in BOOLEAN
      BY <1>1 DEF ClaudeCommands
    <2>5. r \in ClaudeCommands
      <3>1. CASE r = Forget(c)
        <4>1. r = [m EXCEPT !.late = claude[c].late]
          BY <3>1 DEF Forget
        <4> HIDE DEF m
        <4> QED
          BY <2>1, <2>4, <4>1, Fields
      <3>2. CASE r = Finish(c)
        <4>1. r = [o EXCEPT !.late = claude[c].late]
          BY <3>2 DEF Finish
        <4> HIDE DEF o
        <4> QED
          BY <2>3, <2>4, <4>1, Fields
      <3> QED
        BY <1>3, <3>1, <3>2
    <2>6. r.pc = "ended" /\ r.late = claude[c].late /\ r.read = <<>>
      BY <1>3 DEF Forget, Finish, NotBegun
    <2>7. Compared(c, r) /\ Compared(c, r)'
      BY <2>6 DEF Compared
    <2>8. ClaudeEvident(c, r) /\ ClaudeEvident(c, r)'
      BY <2>6 DEF ClaudeEvident, ClaudeJudged, Making
    <2> QED
      BY <2>5, <2>6, <2>7, <2>8
  <1> QED
    BY <1>2, <1>3

\* An invocation that leaves its path touches nothing else.
LEMMA Leaves ==
  ASSUME ClaudeIInv, NEW c \in Runs, claude[c].pc \notin {"idle", "ended"}, NEW b \in BOOLEAN,
         \/ Just(c, Quit(c, b)) /\ claude[c].pc # "promote"
         \/ Just(c, Forget(c)) \/ Just(c, Finish(c))
  PROVE  ClaudeIInv'
  <1> SUFFICES ASSUME NEW r, Just(c, r),
                      \/ r = Quit(c, b) /\ claude[c].pc # "promote"
                      \/ r = Forget(c) \/ r = Finish(c)
               PROVE  ClaudeIInv'
    OBVIOUS
  <1>1. /\ r \in ClaudeCommands /\ r.late = claude[c].late /\ r.read \in {claude[c].read, <<>>}
        /\ Compared(c, r) /\ ClaudeEvident(c, r)
        /\ r = Quit(c, b) \/ r.pc = "ended"
    BY ClaudeOutcomes
  <1>2. claude[c].pc = "promote" => r.pc = "ended"
    <2>1. Forget(c).pc = "ended" /\ Finish(c).pc = "ended"
      BY DEF Forget, Finish, NotBegun
    <2> QED
      BY <2>1
  <1> QED
    BY <1>1, <1>2, ClaudeOnlyStep
(***************************************************************************)
(* The steps of an invocation.                                             *)
(***************************************************************************)
LEMMA BeginKeeps ==
  ASSUME ClaudeIInv, NEW c \in Runs, Start(c) PROVE ClaudeIInv'
  <1>1. PICK o \in Outputs : Just(c, [To(c, "inspect") EXCEPT !.output = o, !.used = tree])
    BY Zenon DEF Start
  <1> SUFFICES ASSUME NEW r, r = [To(c, "inspect") EXCEPT !.output = o, !.used = tree],
                      Just(c, r)
               PROVE  ClaudeIInv'
    BY <1>1, Zenon
  <1>2. claude[c] \in ClaudeCommands /\ claude[c].pc = "idle" /\ ClaudeEvident(c, claude[c])
    BY ClaudeFacts DEF Start, In
  <1>3. r \in ClaudeCommands
    <2> DEFINE m == [claude[c] EXCEPT !.pc = "inspect"]
               n == [m EXCEPT !.output = o]
    <2>1. m \in ClaudeCommands
      BY <1>2, Fields DEF Locations, Making
    <2>2. n \in ClaudeCommands
      BY <2>1, Fields
    <2>3. r = [n EXCEPT !.used = tree]
      BY DEF To
    <2>4. tree \in Trees
      BY DEF ClaudeIInv, ClaudeTypeOK
    <2> HIDE DEF m, n
    <2>5. \A t \in Trees \cup {None} : [n EXCEPT !.used = t] \in ClaudeCommands
      BY <2>2, Fields
    <2> QED
      BY <2>3, <2>4, <2>5
  <1>4. /\ r.pc = "inspect" /\ r.output = o /\ r.error = claude[c].error
        /\ r.late = claude[c].late /\ r.read = claude[c].read
    BY <1>2 DEF To, ClaudeCommands
  <1>5. Compared(c, r)
    BY <1>4 DEF Compared
  <1>6. ClaudeEvident(c, r)
    BY <1>2, <1>4 DEF ClaudeEvident, ClaudeJudged, Making
  <1> QED
    BY <1>2, <1>3, <1>4, <1>5, <1>6, ClaudeOnlyStep

LEMMA InspectKeeps ==
  ASSUME ClaudeIInv, NEW c \in Runs, InspectParent(c) PROVE ClaudeIInv'
  <1>1. claude[c] \in ClaudeCommands /\ claude[c].pc = "inspect" /\ ClaudeEvident(c, claude[c])
    BY ClaudeFacts DEF InspectParent, In
  <1>2. CASE Just(c, Quit(c, TRUE))
    BY <1>1, <1>2, Leaves
  <1>3. CASE Just(c, [To(c, "make") EXCEPT !.parent_identity = parent])
    <2> SUFFICES ASSUME NEW r, r = [To(c, "make") EXCEPT !.parent_identity = parent],
                        Just(c, r)
                 PROVE  ClaudeIInv'
      BY <1>3
    <2> DEFINE m == [claude[c] EXCEPT !.pc = "make"]
    <2>1. m \in ClaudeCommands
      BY <1>1, Fields DEF Locations, Making
    <2>2. r = [m EXCEPT !.parent_identity = parent]
      BY DEF To
    <2>3. parent \in Parents
      BY DEF ClaudeIInv, ClaudeTypeOK
    <2>4. /\ r.pc = "make" /\ r.output = claude[c].output /\ r.error = claude[c].error
          /\ r.late = claude[c].late /\ r.read = claude[c].read /\ r.parent_identity = parent
      BY <1>1 DEF To, ClaudeCommands
    <2> HIDE DEF m
    <2>5. r \in ClaudeCommands
      BY <2>1, <2>2, <2>3, Fields
    <2>6. Compared(c, r)
      BY <2>4 DEF Compared
    <2>7. ClaudeEvident(c, r)
      BY <1>1, <2>3, <2>4 DEF ClaudeEvident, ClaudeJudged, Making
    <2> QED
      BY <1>1, <2>4, <2>5, <2>6, <2>7, ClaudeOnlyStep
  <1> QED
    BY <1>2, <1>3 DEF InspectParent

\* A step that leaves one location for another, on the same files and
\* directories, with nothing to show for what it compared.
LEMMA Steps ==
  ASSUME ClaudeIInv, NEW c \in Runs, NEW l \in Locations,
         NEW r, r = To(c, l)
  PROVE  /\ r \in ClaudeCommands /\ r.pc = l /\ r.output = claude[c].output /\ r.error = claude[c].error
         /\ r.late = claude[c].late /\ r.read = claude[c].read
         /\ r.parent_identity = claude[c].parent_identity /\ r.cleanup = claude[c].cleanup
         /\ r.result = claude[c].result /\ r.happened = claude[c].happened
  <1>1. claude[c] \in ClaudeCommands
    BY ClaudeFacts
  <1>2. r \in ClaudeCommands
    BY <1>1, Fields DEF To
  <1> QED
    BY <1>1, <1>2 DEF To, ClaudeCommands

LEMMA MakeDirectoryKeeps ==
  ASSUME ClaudeIInv, NEW c \in Runs, MakeDirectory(c) PROVE ClaudeIInv'
  <1>1. claude[c] \in ClaudeCommands /\ claude[c].pc = "make" /\ ClaudeEvident(c, claude[c])
    BY ClaudeFacts DEF MakeDirectory, In
  <1>2. CASE Just(c, Quit(c, TRUE))
    BY <1>1, <1>2, Leaves
  <1>3. CASE /\ parent = claude[c].parent_identity
             /\ entry' = [entry EXCEPT ![parent][c] = c]
             /\ Set(c, To(c, "mark"))
             /\ UNCHANGED <<parent, token, swaps, removed, tree, documents>>
    <2> SUFFICES ASSUME NEW r, r = To(c, "mark"), claude' = [claude EXCEPT ![c] = r] PROVE ClaudeIInv'
      BY <1>3 DEF Set
    <2>1. "mark" \in Locations
      BY DEF Locations, Making
    <2>2. /\ r \in ClaudeCommands /\ r.pc = "mark" /\ r.output = claude[c].output
          /\ r.error = claude[c].error /\ r.late = claude[c].late /\ r.read = claude[c].read
          /\ r.parent_identity = claude[c].parent_identity
      BY <2>1, Steps
    <2>3. Compared(c, r)'
      BY <2>2 DEF Compared
    <2>4. ClaudeEvident(c, r)'
      BY <1>1, <2>2 DEF ClaudeEvident, ClaudeJudged, Making
    <2>5. ClaudeTypeOK /\ Standing /\ OwnRemoved
      BY DEF ClaudeIInv
    <2>6. UNCHANGED <<parent, token, swaps, removed, tree, claude_attempts, raws, current>>
      BY <1>3 DEF documents
    <2>7. /\ entry' \in [Parents -> [Runs -> Directories \cup {None}]]
          /\ \A p \in Parents : /\ \A d \in Runs \ {c} : entry'[p][d] = entry[p][d]
                                /\ entry'[p][c] \in Foreign \cup {c, None}
      BY <1>3, <2>5 DEF ClaudeTypeOK, Standing, Directories
    <2> QED
      BY <1>1, <2>2, <2>3, <2>4, <2>5, <2>6, <2>7, ClaudeStepKeeps DEF ClaudeTypeOK
  <1> QED
    BY <1>2, <1>3 DEF MakeDirectory

LEMMA MarkKeeps ==
  ASSUME ClaudeIInv, NEW c \in Runs, Mark(c) PROVE ClaudeIInv'
  <1>1. claude[c] \in ClaudeCommands /\ claude[c].pc = "mark" /\ ClaudeEvident(c, claude[c])
    BY ClaudeFacts DEF Mark, In
  <1>2. ClaudeTypeOK /\ Standing /\ OwnRemoved
    BY DEF ClaudeIInv
  <1>3. UNCHANGED <<parent, swaps, removed, tree, claude_attempts, raws, current>>
    BY DEF Mark, documents
  <1>4. CASE token' = [token EXCEPT ![c] = c] /\ Set(c, To(c, "calls")) /\ UNCHANGED entry
    <2> SUFFICES ASSUME NEW r, r = To(c, "calls"), claude' = [claude EXCEPT ![c] = r] PROVE ClaudeIInv'
      BY <1>4 DEF Set
    <2>1. "calls" \in Locations
      BY DEF Locations
    <2>2. /\ r \in ClaudeCommands /\ r.pc = "calls" /\ r.output = claude[c].output
          /\ r.error = claude[c].error /\ r.late = claude[c].late /\ r.read = claude[c].read
      BY <2>1, Steps
    <2>3. Compared(c, r)'
      BY <2>2 DEF Compared
    <2>4. ClaudeEvident(c, r)'
      BY <1>1, <2>2 DEF ClaudeEvident, ClaudeJudged, Making
    <2>5. /\ token' \in [Directories -> Runs \cup {None}]
          /\ \A d \in Foreign : token'[d] = token[d]
      BY <1>2, <1>4, ClaudeAssumption DEF ClaudeTypeOK, Directories, ClaudeAssumption
    <2>6. \A p \in Parents : /\ \A d \in Runs \ {c} : entry'[p][d] = entry[p][d]
                             /\ entry'[p][c] \in Foreign \cup {c, None}
      BY <1>2, <1>4 DEF Standing
    <2> QED
      BY <1>1, <1>2, <1>3, <1>4, <2>2, <2>3, <2>4, <2>5, <2>6, ClaudeStepKeeps DEF ClaudeTypeOK
  <1>5. ASSUME NEW made \in Parents, Set(c, Quit(c, TRUE)), UNCHANGED token,
               entry' = entry \/ entry' = [entry EXCEPT ![made][c] = None]
        PROVE  ClaudeIInv'
    <2> SUFFICES ASSUME NEW r, r = Quit(c, TRUE), claude' = [claude EXCEPT ![c] = r] PROVE ClaudeIInv'
      BY <1>5 DEF Set
    <2>1. /\ r \in ClaudeCommands /\ r.late = claude[c].late /\ r.read \in {claude[c].read, <<>>}
          /\ Compared(c, r)' /\ ClaudeEvident(c, r)'
      BY <1>1, ClaudeOutcomes
    <2>2. /\ entry' \in [Parents -> [Runs -> Directories \cup {None}]]
          /\ \A p \in Parents : /\ \A d \in Runs \ {c} : entry'[p][d] = entry[p][d]
                                /\ entry'[p][c] \in Foreign \cup {c, None}
      <3>1. CASE entry' = entry
        BY <1>2, <3>1 DEF ClaudeTypeOK, Standing
      <3>2. CASE entry' = [entry EXCEPT ![made][c] = None]
        BY <1>2, <3>2 DEF ClaudeTypeOK, Standing
      <3> QED
        BY <1>5, <3>1, <3>2
    <2> QED
      BY <1>1, <1>2, <1>3, <1>5, <2>1, <2>2, ClaudeStepKeeps DEF ClaudeTypeOK
  <1>6. claude[c].parent_identity \in Parents
    BY <1>1 DEF ClaudeEvident, Making
  <1>7. \/ token' = [token EXCEPT ![c] = c] /\ Set(c, To(c, "calls")) /\ UNCHANGED entry
        \/ /\ Set(c, Quit(c, TRUE)) /\ UNCHANGED token
           /\ entry' = entry \/ entry' = [entry EXCEPT ![claude[c].parent_identity][c] = None]
    BY DEF Mark
  <1> QED
    BY <1>4, <1>5, <1>6, <1>7

LEMMA CallsKeeps ==
  ASSUME ClaudeIInv, NEW c \in Runs, Calls(c) PROVE ClaudeIInv'
  <1>1. claude[c] \in ClaudeCommands /\ claude[c].pc = "calls" /\ ClaudeEvident(c, claude[c])
    BY ClaudeFacts DEF Calls, In
  <1>2. ASSUME NEW r, Just(c, r),
               \/ r = [To(c, "check_parent") EXCEPT !.error = TRUE]
               \/ \E h \in Happenings : r = [To(c, "check_parent") EXCEPT !.happened = h]
        PROVE  ClaudeIInv'
    <2> DEFINE m == [claude[c] EXCEPT !.pc = "check_parent"]
    <2>1. m \in ClaudeCommands
      BY <1>1, Fields DEF Locations, Removing
    <2>2. r \in ClaudeCommands
      <3>1. r = [m EXCEPT !.error = TRUE] \/ \E h \in Happenings : r = [m EXCEPT !.happened = h]
        BY <1>2, Zenon DEF To
      <3> HIDE DEF m
      <3> QED
        BY <2>1, <3>1, Fields
    <2>3. /\ r.pc = "check_parent" /\ r.output = claude[c].output
          /\ r.late = claude[c].late /\ r.read = claude[c].read
      <3>1. CASE r = [To(c, "check_parent") EXCEPT !.error = TRUE]
        BY <1>1, <3>1 DEF To, ClaudeCommands
      <3>2. ASSUME NEW h \in Happenings, r = [To(c, "check_parent") EXCEPT !.happened = h]
            PROVE  /\ r.pc = "check_parent" /\ r.output = claude[c].output
                   /\ r.late = claude[c].late /\ r.read = claude[c].read
        BY <1>1, <3>2 DEF To, ClaudeCommands
      <3> QED
        BY <1>2, <3>1, <3>2
    <2>4. Compared(c, r)
      BY <2>3 DEF Compared
    <2>5. ClaudeEvident(c, r)
      BY <1>1, <2>3 DEF ClaudeEvident, ClaudeJudged, Making
    <2> QED
      BY <1>1, <1>2, <2>2, <2>3, <2>4, <2>5, ClaudeOnlyStep
  <1>3. \/ Just(c, [To(c, "check_parent") EXCEPT !.error = TRUE])
        \/ \E h \in Happenings : Just(c, [To(c, "check_parent") EXCEPT !.happened = h])
    BY Zenon DEF Calls
  <1>4. CASE Just(c, [To(c, "check_parent") EXCEPT !.error = TRUE])
    BY <1>2, <1>4, Zenon
  <1>5. ASSUME NEW h \in Happenings, Just(c, [To(c, "check_parent") EXCEPT !.happened = h])
        PROVE  ClaudeIInv'
    BY <1>2, <1>5, Zenon
  <1> QED
    BY <1>3, <1>4, <1>5, Zenon

LEMMA CheckParentKeeps ==
  ASSUME ClaudeIInv, NEW c \in Runs, CheckParent(c) PROVE ClaudeIInv'
  <1>1. claude[c] \in ClaudeCommands /\ claude[c].pc = "check_parent" /\ ClaudeEvident(c, claude[c])
    BY ClaudeFacts DEF CheckParent, In
  <1>2. CASE Refuse(c)
    BY <1>1, <1>2, Leaves DEF Refuse
  <1>3. CASE Just(c, To(c, "check_root"))
    <2> SUFFICES ASSUME NEW r, r = To(c, "check_root"), Just(c, r) PROVE ClaudeIInv'
      BY <1>3
    <2>1. /\ r \in ClaudeCommands /\ r.pc = "check_root" /\ r.output = claude[c].output
          /\ r.late = claude[c].late /\ r.read = claude[c].read
      BY Steps DEF Locations, Removing
    <2>2. Compared(c, r) /\ ClaudeEvident(c, r)
      BY <1>1, <2>1 DEF Compared, ClaudeEvident, ClaudeJudged, Making
    <2> QED
      BY <1>1, <2>1, <2>2, ClaudeOnlyStep
  <1> QED
    BY <1>2, <1>3 DEF CheckParent
\* A removal that is done goes on to the result, or to the record of the failure
\* that came before it.
LEMMA CleanedIs ==
  ASSUME ClaudeIInv, NEW c \in Runs, claude[c].pc \in Removing, NEW r, r = Removed(c)
  PROVE  /\ r \in ClaudeCommands /\ r.late = claude[c].late /\ r.read \in {claude[c].read, <<>>}
         /\ Compared(c, r) /\ Compared(c, r)'
         /\ entry[parent][c] = None => ClaudeEvident(c, r)
         /\ entry'[parent'][c] = None => ClaudeEvident(c, r)'
  <1>1. claude[c] \in ClaudeCommands /\ ClaudeEvident(c, claude[c])
    BY ClaudeFacts
  <1>2. CASE claude[c].error
    <2>1. r = Quit(c, TRUE)
      BY <1>2 DEF Removed
    <2> QED
      BY <2>1, ClaudeOutcomes DEF Removing
  <1>3. CASE ~claude[c].error
    <2> DEFINE m == [claude[c] EXCEPT !.pc = "result"]
    <2>1. m \in ClaudeCommands
      BY <1>1, Fields DEF Locations, Recording
    <2>2. r = [m EXCEPT !.cleanup = TRUE]
      BY <1>3 DEF Removed, To
    <2>3. /\ r.pc = "result" /\ ~r.error /\ r.cleanup /\ r.output = claude[c].output
          /\ r.late = claude[c].late /\ r.read = claude[c].read
      BY <1>1, <1>3 DEF Removed, To, ClaudeCommands
    <2> HIDE DEF m
    <2>4. r \in ClaudeCommands
      BY <2>1, <2>2, Fields
    <2>5. Compared(c, r) /\ Compared(c, r)'
      BY <2>3 DEF Compared
    <2>6. r.output \in Outputs
      BY <1>1, <2>3 DEF ClaudeEvident, Removing
    <2>7. entry[parent][c] = None => ClaudeEvident(c, r)
      BY <2>3, <2>6 DEF ClaudeEvident, ClaudeJudged, Making
    <2>8. entry'[parent'][c] = None => ClaudeEvident(c, r)'
      BY <2>3, <2>6 DEF ClaudeEvident, ClaudeJudged, Making
    <2> QED
      BY <2>3, <2>4, <2>5, <2>7, <2>8
  <1> QED
    BY <1>2, <1>3

LEMMA CheckRootKeeps ==
  ASSUME ClaudeIInv, NEW c \in Runs, CheckRoot(c) PROVE ClaudeIInv'
  <1>1. claude[c] \in ClaudeCommands /\ claude[c].pc = "check_root" /\ ClaudeEvident(c, claude[c])
    BY ClaudeFacts DEF CheckRoot, In
  <1>2. CASE Refuse(c)
    BY <1>1, <1>2, Leaves DEF Refuse
  <1>3. CASE root(c) = None /\ Just(c, Removed(c))
    <2> SUFFICES ASSUME NEW r, r = Removed(c), Just(c, r) PROVE ClaudeIInv'
      BY <1>3
    <2>1. /\ r \in ClaudeCommands /\ r.late = claude[c].late /\ r.read \in {claude[c].read, <<>>}
          /\ Compared(c, r) /\ ClaudeEvident(c, r)
      BY <1>1, <1>3, CleanedIs DEF Removing, root
    <2> QED
      BY <1>1, <2>1, ClaudeOnlyStep
  <1>4. CASE root(c) = c /\ Just(c, To(c, "check_marker"))
    <2> SUFFICES ASSUME NEW r, r = To(c, "check_marker"), Just(c, r) PROVE ClaudeIInv'
      BY <1>4
    <2>1. /\ r \in ClaudeCommands /\ r.pc = "check_marker" /\ r.output = claude[c].output
          /\ r.late = claude[c].late /\ r.read = claude[c].read
      BY Steps DEF Locations, Removing
    <2>2. c \notin Foreign
      BY ClaudeAssumption DEF ClaudeAssumption
    <2>3. Compared(c, r)
      BY <1>4, <2>1, <2>2 DEF Compared, root
    <2>4. ClaudeEvident(c, r)
      BY <1>1, <2>1 DEF ClaudeEvident, ClaudeJudged, Making
    <2> QED
      BY <1>1, <2>1, <2>3, <2>4, ClaudeOnlyStep
  <1> QED
    BY <1>2, <1>3, <1>4 DEF CheckRoot

\* A directory that carries the run's marker is the run's, or a copy that was put
\* there after the directory itself was compared.
LEMMA CheckMarkerKeeps ==
  ASSUME ClaudeIInv, NEW c \in Runs, CheckMarker(c) PROVE ClaudeIInv'
  <1>1. /\ claude[c] \in ClaudeCommands /\ claude[c].pc = "check_marker"
        /\ ClaudeEvident(c, claude[c]) /\ Compared(c, claude[c])
    BY ClaudeFacts DEF CheckMarker, In
  <1>2. CASE Refuse(c)
    BY <1>1, <1>2, Leaves DEF Refuse
  <1>3. CASE root(c) # None /\ token[root(c)] = c /\ Just(c, To(c, "remove"))
    <2> SUFFICES ASSUME NEW r, r = To(c, "remove"), Just(c, r) PROVE ClaudeIInv'
      BY <1>3
    <2>1. /\ r \in ClaudeCommands /\ r.pc = "remove" /\ r.output = claude[c].output
          /\ r.late = claude[c].late /\ r.read = claude[c].read
      BY Steps DEF Locations, Removing
    <2>2. entry[parent][c] \in Foreign \cup {c, None}
      BY DEF ClaudeIInv, Standing, ClaudeTypeOK
    <2>3. entry[parent][c] = c \/ claude[c].late
      BY <1>1, <1>3, <2>2 DEF Compared, root
    <2>4. Compared(c, r)
      BY <2>1, <2>3 DEF Compared
    <2>5. ClaudeEvident(c, r)
      BY <1>1, <2>1 DEF ClaudeEvident, ClaudeJudged, Making
    <2> QED
      BY <1>1, <2>1, <2>4, <2>5, ClaudeOnlyStep
  <1> QED
    BY <1>2, <1>3 DEF CheckMarker

LEMMA RemoveTreeKeeps ==
  ASSUME ClaudeIInv, NEW c \in Runs, RemoveTree(c) PROVE ClaudeIInv'
  <1>1. /\ claude[c] \in ClaudeCommands /\ claude[c].pc = "remove"
        /\ ClaudeEvident(c, claude[c]) /\ Compared(c, claude[c])
    BY ClaudeFacts DEF RemoveTree, In
  <1>2. CASE Refuse(c)
    BY <1>1, <1>2, Leaves DEF Refuse
  <1>3. CASE /\ root(c) # None
             /\ removed' = removed \cup {<<c, root(c)>>}
             /\ entry' = [entry EXCEPT ![parent][c] = None]
             /\ Set(c, Removed(c))
             /\ UNCHANGED <<parent, token, swaps, tree, documents>>
    <2> SUFFICES ASSUME NEW r, r = Removed(c), claude' = [claude EXCEPT ![c] = r] PROVE ClaudeIInv'
      BY <1>3 DEF Set
    <2>1. ClaudeTypeOK /\ Standing
      BY DEF ClaudeIInv
    <2>2. UNCHANGED <<parent, token, swaps, tree, claude_attempts, raws, current>>
      BY <1>3 DEF documents
    <2>3. /\ entry' \in [Parents -> [Runs -> Directories \cup {None}]]
          /\ entry'[parent][c] = None
          /\ \A p \in Parents : /\ \A d \in Runs \ {c} : entry'[p][d] = entry[p][d]
                                /\ entry'[p][c] \in Foreign \cup {c, None}
      BY <1>3, <2>1 DEF ClaudeTypeOK, Standing
    <2>4. /\ r \in ClaudeCommands /\ r.late = claude[c].late /\ r.read \in {claude[c].read, <<>>}
          /\ Compared(c, r)' /\ ClaudeEvident(c, r)'
      BY <1>1, <2>2, <2>3, CleanedIs DEF Removing
    <2>5. root(c) = c \/ claude[c].late
      BY <1>1, <1>3 DEF Compared, root
    <2>6. root(c) \in Directories
      BY <1>3, <2>1 DEF ClaudeTypeOK, root
    <2>7. /\ removed' \in SUBSET (Runs \X Directories)
          /\ \A x \in removed' : x \in removed \/ (x[1] = c /\ (x[2] = c \/ r.late))
      BY <1>3, <2>1, <2>4, <2>5, <2>6 DEF ClaudeTypeOK
    <2>8. /\ token' \in [Directories -> Runs \cup {None}]
          /\ \A d \in Foreign : token'[d] = token[d]
          /\ raws' \in [Outputs -> ClaudeResults \cup {None}]
          /\ claude_attempts' \in Seq(ClaudeAttempts) /\ current' \in ClaudeResults \cup {None}
      BY <2>1, <2>2 DEF ClaudeTypeOK
    <2>9. claude[c].pc # "ended" /\ claude[c].pc # "promote"
      BY <1>1
    <2>10. r.read \in {claude[c].read, claude_attempts, <<>>}
      BY <2>4
    <2> QED
      BY <2>2, <2>3, <2>4, <2>7, <2>8, <2>9, <2>10, ClaudeStepKeeps, ZenonT(30)
  <1> QED
    BY <1>2, <1>3 DEF RemoveTree

LEMMA MakeResultKeeps ==
  ASSUME ClaudeIInv, NEW c \in Runs, MakeResult(c) PROVE ClaudeIInv'
  <1>1. claude[c] \in ClaudeCommands /\ claude[c].pc = "result" /\ ClaudeEvident(c, claude[c])
    BY ClaudeFacts DEF MakeResult, In
  <1>2. CASE Just(c, Quit(c, TRUE))
    BY <1>1, <1>2, Leaves
  <1> DEFINE new == [run |-> c, inputs |-> tree, cleanup |-> claude[c].cleanup,
                     happened |-> claude[c].happened]
  <1>3. CASE Just(c, [To(c, "link") EXCEPT !.result = new])
    <2> SUFFICES ASSUME NEW r, r = [To(c, "link") EXCEPT !.result = new], Just(c, r)
                 PROVE  ClaudeIInv'
      BY <1>3
    <2>1. tree \in Trees
      BY DEF ClaudeIInv, ClaudeTypeOK
    <2>2. /\ new \in ClaudeResults /\ new.run = c /\ new.happened = claude[c].happened
          /\ new.cleanup = claude[c].cleanup
      BY <1>1, <2>1 DEF ClaudeCommands, ClaudeResults
    <2>3. ~claude[c].error /\ claude[c].cleanup /\ claude[c].output \in Outputs
          /\ (swaps = 0 => entry[parent][c] = None)
      BY <1>1 DEF ClaudeEvident, ClaudeJudged
    <2> HIDE DEF new
    <2> DEFINE m == [claude[c] EXCEPT !.pc = "link"]
    <2>4. m \in ClaudeCommands
      BY <1>1, Fields DEF Locations, Recording
    <2>5. r = [m EXCEPT !.result = new]
      BY DEF To
    <2>6. /\ r.pc = "link" /\ r.output = claude[c].output /\ r.error = claude[c].error
          /\ r.late = claude[c].late /\ r.read = claude[c].read /\ r.cleanup = claude[c].cleanup
          /\ r.result = new /\ r.happened = claude[c].happened
      BY <1>1 DEF To, ClaudeCommands
    <2> HIDE DEF m
    <2>7. r \in ClaudeCommands
      BY <2>2, <2>4, <2>5, Fields
    <2>8. Compared(c, r)
      BY <2>6 DEF Compared
    <2>9. ClaudeEvident(c, r)
      BY <2>2, <2>3, <2>6 DEF ClaudeEvident, ClaudeJudged, Making
    <2> QED
      BY <1>1, <2>6, <2>7, <2>8, <2>9, ClaudeOnlyStep
  <1> QED
    BY <1>2, <1>3 DEF MakeResult

\* The name was free, so no record's raw result is replaced.
LEMMA WriteResultKeeps ==
  ASSUME ClaudeIInv, NEW c \in Runs, RetainResult(c) PROVE ClaudeIInv'
  <1>1. claude[c] \in ClaudeCommands /\ claude[c].pc = "link" /\ ClaudeEvident(c, claude[c])
    BY ClaudeFacts DEF RetainResult, In
  <1>2. CASE Just(c, Quit(c, TRUE))
    BY <1>1, <1>2, Leaves
  <1>3. CASE /\ raws[claude[c].output] = None
             /\ raws' = [raws EXCEPT ![claude[c].output] = claude[c].result]
             /\ Set(c, To(c, "read"))
             /\ UNCHANGED <<area, tree, claude_attempts, current>>
    <2> SUFFICES ASSUME NEW r, r = To(c, "read"), claude' = [claude EXCEPT ![c] = r] PROVE ClaudeIInv'
      BY <1>3 DEF Set
    <2>1. ClaudeTypeOK /\ Standing /\ OwnRemoved
      BY DEF ClaudeIInv
    <2>2. UNCHANGED <<parent, entry, token, swaps, removed, tree, claude_attempts, current>>
      BY <1>3 DEF area
    <2>3. /\ r \in ClaudeCommands /\ r.pc = "read" /\ r.output = claude[c].output
          /\ r.error = claude[c].error /\ r.late = claude[c].late /\ r.read = claude[c].read
          /\ r.cleanup = claude[c].cleanup /\ r.result = claude[c].result
          /\ r.happened = claude[c].happened
      BY Steps DEF Locations, Recording
    <2>4. /\ ~claude[c].error /\ claude[c].cleanup /\ claude[c].output \in Outputs
          /\ swaps = 0 => entry[parent][c] = None
          /\ claude[c].result \in ClaudeResults /\ claude[c].result.run = c
          /\ claude[c].result.happened = claude[c].happened /\ claude[c].result.cleanup
      BY <1>1 DEF ClaudeEvident, ClaudeJudged
    <2>5. /\ raws' \in [Outputs -> ClaudeResults \cup {None}]
          /\ raws'[claude[c].output] = claude[c].result
          /\ \A o \in Outputs : raws[o] # None => raws'[o] = raws[o]
      BY <1>3, <2>1, <2>4 DEF ClaudeTypeOK
    <2>6. Compared(c, r)'
      BY <2>3 DEF Compared
    <2>7. ClaudeEvident(c, r)'
      BY <2>2, <2>3, <2>4, <2>5 DEF ClaudeEvident, ClaudeJudged, Making
    <2>8. \A p \in Parents : /\ \A d \in Runs \ {c} : entry'[p][d] = entry[p][d]
                             /\ entry'[p][c] \in Foreign \cup {c, None}
      BY <2>1, <2>2 DEF Standing
    <2> QED
      BY <1>1, <2>1, <2>2, <2>3, <2>5, <2>6, <2>7, <2>8, ClaudeStepKeeps DEF ClaudeTypeOK
  <1> QED
    BY <1>2, <1>3 DEF RetainResult

LEMMA ReadHistoryKeeps ==
  ASSUME ClaudeIInv, NEW c \in Runs, ReadAttempts(c) PROVE ClaudeIInv'
  <1>1. claude[c] \in ClaudeCommands /\ claude[c].pc = "read" /\ ClaudeEvident(c, claude[c])
    BY ClaudeFacts DEF ReadAttempts, In
  <1>2. CASE Just(c, Forget(c))
    BY <1>1, <1>2, Leaves
  <1>3. CASE Just(c, [To(c, "append") EXCEPT !.read = claude_attempts])
    <2> SUFFICES ASSUME NEW r, r = [To(c, "append") EXCEPT !.read = claude_attempts], Just(c, r)
                 PROVE  ClaudeIInv'
      BY <1>3
    <2> DEFINE m == [claude[c] EXCEPT !.pc = "append"]
    <2>1. m \in ClaudeCommands
      BY <1>1, Fields DEF Locations, Recording
    <2>2. r = [m EXCEPT !.read = claude_attempts]
      BY DEF To
    <2>3. claude_attempts \in Seq(ClaudeAttempts)
      BY DEF ClaudeIInv, ClaudeTypeOK
    <2>4. /\ r.pc = "append" /\ r.output = claude[c].output /\ r.error = claude[c].error
          /\ r.late = claude[c].late /\ r.read = claude_attempts /\ r.cleanup = claude[c].cleanup
          /\ r.result = claude[c].result /\ r.happened = claude[c].happened
      BY <1>1 DEF To, ClaudeCommands
    <2> HIDE DEF m
    <2>5. r \in ClaudeCommands
      BY <2>1, <2>2, <2>3, Fields
    <2>6. Compared(c, r)
      BY <2>4 DEF Compared
    <2>7. ClaudeEvident(c, r)
      BY <1>1, <2>4 DEF ClaudeEvident, ClaudeJudged, Making
    <2> QED
      BY <1>1, <2>4, <2>5, <2>6, <2>7, ClaudeOnlyStep
  <1> QED
    BY <1>2, <1>3 DEF ReadAttempts
LEMMA RecordIsAttempt ==
  ASSUME NEW c \in Runs, claude[c] \in ClaudeCommands,
         ~claude[c].error => claude[c].result \in ClaudeResults /\ claude[c].output \in Outputs
  PROVE  claude_record(c) \in ClaudeAttempts /\ claude_record(c).id = c
  <1>1. CASE claude[c].error
    <2>1. claude_record(c) = attempt_from_failure(c)
      BY <1>1 DEF claude_record
    <2>2. claude[c].cleanup \in BOOLEAN
      BY DEF ClaudeCommands
    <2> QED
      BY <2>1, <2>2 DEF attempt_from_failure, ClaudeAttempts
  <1>2. CASE ~claude[c].error
    <2>1. claude_record(c) = attempt_from_run(c, claude[c].result, claude[c].output)
      BY <1>2 DEF claude_record
    <2>2. claude[c].result.cleanup \in BOOLEAN
      BY <1>2 DEF ClaudeResults
    <2>3. /\ passed(claude[c].result) \in BOOLEAN /\ no_model_tools(claude[c].result) \in BOOLEAN
          /\ no_fixture_writes(claude[c].result) \in BOOLEAN
      BY DEF passed, no_model_tools, no_fixture_writes
    <2> QED
      BY <1>2, <2>1, <2>2, <2>3 DEF attempt_from_run, ClaudeAttempts
  <1> QED
    BY <1>1, <1>2

\* A history keeps its records apart: those a run read are of runs that went
\* further than it has.
LEMMA WriteHistoryKeeps ==
  ASSUME ClaudeIInv, NEW c \in Runs, WriteAttempts(c) PROVE ClaudeIInv'
  <1>1. claude[c] \in ClaudeCommands /\ claude[c].pc = "append" /\ ClaudeEvident(c, claude[c])
    BY ClaudeFacts DEF WriteAttempts, In
  <1>2. CASE Just(c, Forget(c))
    BY <1>1, <1>2, Leaves
  <1>3. CASE /\ claude_attempts' = Append(claude[c].read, claude_record(c))
             /\ Set(c, IF claude[c].error THEN Finish(c) ELSE To(c, "promote"))
             /\ UNCHANGED <<area, tree, raws, current>>
    <2> SUFFICES ASSUME NEW r, r = IF claude[c].error THEN Finish(c) ELSE To(c, "promote"),
                        claude' = [claude EXCEPT ![c] = r],
                        NEW a, a = claude_record(c), NEW s, s = claude[c].read,
                        claude_attempts' = Append(s, a)
                 PROVE  ClaudeIInv'
      BY <1>3 DEF Set
    <2>1. ClaudeTypeOK /\ Standing /\ OwnRemoved
      BY DEF ClaudeIInv
    <2>2. UNCHANGED <<parent, entry, token, swaps, removed, tree, raws, current>>
      BY <1>3 DEF area
    <2>3. ~claude[c].error =>
            /\ claude[c].cleanup /\ claude[c].output \in Outputs
            /\ swaps = 0 => entry[parent][c] = None
            /\ claude[c].result \in ClaudeResults /\ claude[c].result.run = c
            /\ claude[c].result.happened = claude[c].happened /\ claude[c].result.cleanup
            /\ raws[claude[c].output] = claude[c].result
      BY <1>1 DEF ClaudeEvident, ClaudeJudged
    <2>4. a \in ClaudeAttempts /\ a.id = c
      BY <1>1, <2>3, RecordIsAttempt
    <2>5. s \in Seq(ClaudeAttempts) /\ Retained(s)
      BY ClaudeFacts
    <2>6. /\ r \in ClaudeCommands /\ r.late = claude[c].late /\ r.read \in {claude[c].read, <<>>}
          /\ r.pc \in {"promote", "ended"} /\ Compared(c, r)' /\ ClaudeEvident(c, r)'
      <3>1. CASE claude[c].error
        <4>1. r = Finish(c)
          BY <3>1
        <4>2. r.pc = "ended"
          BY <4>1 DEF Finish, NotBegun
        <4> QED
          BY <4>1, <4>2, ClaudeOutcomes
      <3>2. CASE ~claude[c].error
        <4>1. r = To(c, "promote")
          BY <3>2
        <4>2. "promote" \in Locations
          BY DEF Locations, Recording
        <4>3. /\ r \in ClaudeCommands /\ r.pc = "promote" /\ r.output = claude[c].output
              /\ r.error = claude[c].error /\ r.late = claude[c].late /\ r.read = claude[c].read
              /\ r.cleanup = claude[c].cleanup /\ r.result = claude[c].result
              /\ r.happened = claude[c].happened
          BY <4>1, <4>2, Steps
        <4>4. Compared(c, r)'
          BY <4>3 DEF Compared
        <4>5. ClaudeEvident(c, r)'
          BY <2>2, <2>3, <3>2, <4>3 DEF ClaudeEvident, ClaudeJudged, Making
        <4> QED
          BY <4>3, <4>4, <4>5
      <3> QED
        BY <3>1, <3>2
    <2>7. claude'[c] = r /\ \A d \in Runs \ {c} : claude'[d] = claude[d]
      BY <2>1 DEF ClaudeTypeOK
    <2>8. Preserving
      <3>1. swaps \in Nat
        BY <2>1 DEF ClaudeTypeOK
      <3>2. \A d \in Runs : claude[d].pc \in {"promote", "ended"} =>
              claude'[d].pc \in {"promote", "ended"}
        BY <1>1, <2>7
      <3> QED
        BY <2>2, <3>1, <3>2 DEF Preserving
    <2>9. ClaudeKept(a)'
      <3>1. claude'[a.id].pc \in {"promote", "ended"}
        BY <2>4, <2>6, <2>7
      <3>2. CASE claude[c].error
        <4>1. a = attempt_from_failure(c)
          BY <3>2 DEF claude_record
        <4>2. claude[c].cleanup \in BOOLEAN
          BY <1>1 DEF ClaudeCommands
        <4> QED
          BY <3>1, <4>1, <4>2 DEF ClaudeKept, attempt_from_failure
      <3>3. CASE ~claude[c].error
        <4> DEFINE x == claude[c].result
        <4>1. a = attempt_from_run(c, x, claude[c].output)
          BY <3>3 DEF claude_record
        <4>2. /\ x \in ClaudeResults /\ x # None /\ x.cleanup /\ claude[c].output \in Outputs
              /\ raws[claude[c].output] = x
          BY <2>3, <3>3, ClaudeAssumption DEF ClaudeAssumption
        <4> HIDE DEF x
        <4>3. /\ a.raw = x /\ a.output = claude[c].output /\ a.outcome = "completed"
              /\ a.safety_pass = (a.tools /\ a.writes /\ a.temporary)
          BY <4>1 DEF attempt_from_run
        <4>4. a = attempt_from_run(a.id, a.raw, a.output)
          BY <2>4, <4>1, <4>3
        <4>5. /\ raws'[a.output] = a.raw /\ a.output \in Outputs
              /\ swaps' = 0 => entry'[parent'][a.id] = None
          BY <2>2, <2>3, <2>4, <3>3, <4>2, <4>3
        <4> QED
          BY <3>1, <4>2, <4>3, <4>4, <4>5 DEF ClaudeKept
      <3> QED
        BY <3>2, <3>3
    <2>10. \A i \in DOMAIN s : s[i] \in ClaudeAttempts /\ ClaudeKept(s[i]) /\ ClaudeKept(s[i])' /\ s[i].id # a.id
      <3> SUFFICES ASSUME NEW i \in DOMAIN s
                   PROVE  s[i] \in ClaudeAttempts /\ ClaudeKept(s[i]) /\ ClaudeKept(s[i])' /\ s[i].id # a.id
        OBVIOUS
      <3>1. s[i] \in ClaudeAttempts /\ ClaudeKept(s[i])
        BY <2>5 DEF Retained
      <3>2. ClaudeKept(s[i])'
        BY <2>8, <3>1, KeptStays
      <3>3. s[i].id # c
        BY <1>1, <3>1 DEF ClaudeKept
      <3> QED
        BY <2>4, <3>1, <3>2, <3>3
    <2>11. Retained(claude_attempts)'
      <3> DEFINE t == Append(s, a)
      <3>1. /\ t \in Seq(ClaudeAttempts) /\ Len(t) = Len(s) + 1 /\ Len(s) \in Nat
            /\ DOMAIN t = 1 .. Len(t) /\ DOMAIN s = 1 .. Len(s)
            /\ \A i \in DOMAIN s : t[i] = s[i]
            /\ t[Len(t)] = a
        BY <2>4, <2>5
      <3> HIDE DEF t
      <3>2. \A i \in DOMAIN t : i \in DOMAIN s \/ i = Len(t)
        BY <3>1
      <3>3. \A i \in DOMAIN t : ClaudeKept(t[i])'
        <4> SUFFICES ASSUME NEW i \in DOMAIN t PROVE ClaudeKept(t[i])'
          OBVIOUS
        <4>1. CASE i \in DOMAIN s
          BY <2>10, <3>1, <4>1
        <4>2. CASE i = Len(t)
          BY <2>9, <3>1, <4>2
        <4> QED
          BY <3>2, <4>1, <4>2
      <3>4. \A i, j \in DOMAIN t : t[i].id = t[j].id => i = j
        <4>1. \A i, j \in DOMAIN s : s[i].id = s[j].id => i = j
          BY <2>5 DEF Retained
        <4>2. \A i \in DOMAIN s : t[i].id = s[i].id /\ t[i].id # t[Len(t)].id
          BY <2>10, <3>1
        <4> SUFFICES ASSUME NEW i \in DOMAIN t, NEW j \in DOMAIN t, t[i].id = t[j].id
                     PROVE  i = j
          OBVIOUS
        <4>3. (i \in DOMAIN s \/ i = Len(t)) /\ (j \in DOMAIN s \/ j = Len(t))
          BY <3>2
        <4> QED
          BY <4>1, <4>2, <4>3
      <3>5. Retained(t)'
        BY <3>3, <3>4 DEF Retained
      <3>6. claude_attempts' = t
        BY DEF t
      <3> QED
        BY <3>5, <3>6 DEF Retained
    <2>12. \A p \in Parents : /\ \A d \in Runs \ {c} : entry'[p][d] = entry[p][d]
                              /\ entry'[p][c] \in Foreign \cup {c, None}
      BY <2>1, <2>2 DEF Standing
    <2>13. claude_attempts' \in Seq(ClaudeAttempts)
      BY <2>4, <2>5
    <2> QED
      BY <1>1, <2>1, <2>2, <2>6, <2>11, <2>12, <2>13, ClaudeStepKeeps DEF ClaudeTypeOK
  <1> QED
    BY <1>2, <1>3 DEF WriteAttempts

LEMMA PromoteKeeps ==
  ASSUME ClaudeIInv, NEW c \in Runs, promote_current(c) PROVE ClaudeIInv'
  <1>1. claude[c] \in ClaudeCommands /\ claude[c].pc = "promote" /\ ClaudeEvident(c, claude[c])
    BY ClaudeFacts DEF promote_current, In
  <1> SUFFICES ASSUME NEW r, r = Finish(c), claude' = [claude EXCEPT ![c] = r] PROVE ClaudeIInv'
    BY DEF promote_current, Set
  <1>2. ClaudeTypeOK /\ Standing /\ OwnRemoved
    BY DEF ClaudeIInv
  <1>3. UNCHANGED <<parent, entry, token, swaps, removed, tree, claude_attempts, raws>>
    BY DEF promote_current, area
  <1>4. /\ r \in ClaudeCommands /\ r.late = claude[c].late /\ r.read \in {claude[c].read, <<>>}
        /\ Compared(c, r)' /\ ClaudeEvident(c, r)'
    BY ClaudeOutcomes
  <1>5. r.pc = "ended" /\ r.happened = claude[c].happened
    BY DEF Finish, NotBegun
  <1>6. /\ claude[c].result \in ClaudeResults /\ claude[c].result.run = c
        /\ claude[c].result.happened = claude[c].happened
        /\ raws[claude[c].output] = claude[c].result
    BY <1>1 DEF ClaudeEvident, ClaudeJudged
  <1>7. /\ current' \in ClaudeResults \cup {None}
        /\ \/ current' = current
           \/ current' # None => current'.run = c /\ r.pc = "ended"
                                 /\ r.happened = current'.happened
    BY <1>2, <1>5, <1>6 DEF promote_current, ClaudeTypeOK
  <1>8. \A p \in Parents : /\ \A d \in Runs \ {c} : entry'[p][d] = entry[p][d]
                           /\ entry'[p][c] \in Foreign \cup {c, None}
    BY <1>2, <1>3 DEF Standing
  <1> QED
    BY <1>1, <1>2, <1>3, <1>4, <1>5, <1>7, <1>8, ClaudeStepKeeps DEF ClaudeTypeOK

LEMMA KillKeeps ==
  ASSUME ClaudeIInv, NEW c \in Runs, Die(c) PROVE ClaudeIInv'
  <1>1. claude[c].pc \notin {"idle", "ended"}
    BY DEF Die, Underway
  <1>2. Just(c, Forget(c)) \/ Just(c, Finish(c))
    BY DEF Die
  <1> QED
    BY <1>1, <1>2, Leaves
(***************************************************************************)
(* The steps of other programs.                                            *)
(***************************************************************************)
\* What changes the surroundings changes of a run only whether it is late.
LEMMA OthersKeep ==
  ASSUME ClaudeIInv, ClaudeTypeOK', Standing', UNCHANGED <<removed, documents>>, Preserving,
         swaps' = 0 => entry' = entry /\ parent' = parent,
         \A d \in Runs : \E b \in BOOLEAN :
           claude'[d] = [claude[d] EXCEPT !.late = b] /\ (claude[d].late => b),
         \A d \in Runs : Compared(d, claude[d])'
  PROVE  ClaudeIInv'
  <1>1. UNCHANGED <<removed, claude_attempts, raws, current>>
    BY DEF documents
  <1>2. ClaudeTypeOK
    BY DEF ClaudeIInv
  <1>3. ASSUME NEW d \in Runs
        PROVE  /\ claude[d] \in ClaudeCommands /\ claude'[d] \in ClaudeCommands
               /\ claude'[d].pc = claude[d].pc /\ claude'[d].output = claude[d].output
               /\ claude'[d].parent_identity = claude[d].parent_identity
               /\ claude'[d].happened = claude[d].happened /\ claude'[d].error = claude[d].error
               /\ claude'[d].cleanup = claude[d].cleanup /\ claude'[d].result = claude[d].result
               /\ claude'[d].read = claude[d].read /\ (claude[d].late => claude'[d].late)
    <2>1. claude[d] \in ClaudeCommands /\ claude'[d] \in ClaudeCommands
      BY <1>2 DEF ClaudeTypeOK
    <2>2. PICK b \in BOOLEAN : claude'[d] = [claude[d] EXCEPT !.late = b] /\ (claude[d].late => b)
      BY Zenon
    <2> QED
      BY <2>1, <2>2 DEF ClaudeCommands
  <1>4. ASSUME NEW d \in Runs PROVE ClaudeEvident(d, claude[d])'
    <2>1. ClaudeEvident(d, claude[d])
      BY ClaudeFacts
    <2>2. ClaudeJudged(claude[d])' = ClaudeJudged(claude[d])
      BY <1>3 DEF ClaudeJudged
    <2>3. swaps' = 0 => swaps = 0
      BY DEF Preserving
    <2> QED
      BY <1>1, <1>3, <2>1, <2>2, <2>3 DEF ClaudeEvident
  <1>5. ASSUME NEW d \in Runs PROVE Retained(claude[d].read)'
    <2>1. PICK s \in Seq(ClaudeAttempts) : Retained(s) /\ s = claude[d].read
      BY ClaudeFacts
    <2>2. Retained(s)' /\ claude'[d].read = s
      BY <1>3, <2>1, RetainedStays
    <2> QED
      BY <2>2 DEF Retained
  <1>6. Retained(claude_attempts)'
    <2>1. PICK s \in Seq(ClaudeAttempts) : Retained(s) /\ s = claude_attempts
      BY <1>2 DEF ClaudeIInv, ClaudeTypeOK
    <2>2. Retained(s)' /\ claude_attempts' = s
      BY <1>1, <2>1, RetainedStays
    <2> QED
      BY <2>2 DEF Retained
  <1>7. OwnRemoved'
    <2> SUFFICES ASSUME NEW x \in removed PROVE x[1] = x[2] \/ claude'[x[1]].late
      BY <1>1 DEF OwnRemoved
    <2>1. x[1] \in Runs /\ (x[1] = x[2] \/ claude[x[1]].late)
      BY <1>2 DEF ClaudeIInv, OwnRemoved, ClaudeTypeOK
    <2> QED
      BY <1>3, <2>1
  <1>8. Published'
    <2>1. current # None => current.run \in Runs
      BY <1>2 DEF ClaudeTypeOK, ClaudeResults
    <2>2. Published
      BY DEF ClaudeIInv
    <2> QED
      BY <1>1, <1>3, <2>1, <2>2 DEF Published
  <1> QED
    BY <1>4, <1>5, <1>6, <1>7, <1>8 DEF ClaudeIInv

\* A change of the scratch area, told apart by who compared what before it.
LEMMA SwapKeeps ==
  ASSUME ClaudeIInv, Surprise, parent' \in Parents, swaps' = swaps + 1,
         entry' \in [Parents -> [Runs -> Directories \cup {None}]], Standing',
         token' \in [Directories -> Runs \cup {None}],
         UNCHANGED <<removed, tree, documents>>
  PROVE  ClaudeIInv'
  <1>1. ClaudeTypeOK /\ UNCHANGED <<removed, tree, claude_attempts, raws, current>>
    BY DEF ClaudeIInv, documents
  <1>2. swaps' \in Nat /\ swaps' # 0
    BY <1>1 DEF ClaudeTypeOK
  <1>3. ASSUME NEW d \in Runs
        PROVE  \E b \in BOOLEAN :
                 /\ claude'[d] = [claude[d] EXCEPT !.late = b] /\ (claude[d].late => b)
                 /\ claude[d].pc = "remove" => b
                 /\ LET x == entry'[parent'][d]
                    IN  claude[d].pc = "check_marker" /\ x \in Foreign /\ token'[x] = d => b
    <2> DEFINE x == entry'[parent'][d]
               b == \/ claude[d].late \/ In(d, "remove")
                    \/ In(d, "check_marker") /\ x \in Foreign /\ token'[x] = d
    <2>1. claude'[d] = [claude[d] EXCEPT !.late = b]
      BY Zenon DEF Surprise
    <2>2. claude[d].late \in BOOLEAN
      BY <1>1 DEF ClaudeTypeOK, ClaudeCommands
    <2>3. b \in BOOLEAN /\ (claude[d].late => b)
      BY <2>2, Zenon
    <2>4. /\ claude[d].pc = "remove" => b
          /\ claude[d].pc = "check_marker" /\ x \in Foreign /\ token'[x] = d => b
      BY Zenon DEF In
    <2> HIDE DEF b
    <2> QED
      BY <2>1, <2>3, <2>4, Zenon
  <1>4. ASSUME NEW d \in Runs
        PROVE  claude'[d] \in ClaudeCommands /\ claude'[d].pc = claude[d].pc /\ Compared(d, claude[d])'
    <2>1. claude[d] \in ClaudeCommands
      BY <1>1 DEF ClaudeTypeOK
    <2>2. PICK b \in BOOLEAN :
            /\ claude'[d] = [claude[d] EXCEPT !.late = b] /\ (claude[d].late => b)
            /\ claude[d].pc = "remove" => b
            /\ LET x == entry'[parent'][d]
               IN  claude[d].pc = "check_marker" /\ x \in Foreign /\ token'[x] = d => b
      BY <1>3, Zenon
    <2>3. claude'[d] \in ClaudeCommands
      BY <2>1, <2>2, Fields
    <2>4. claude'[d].pc = claude[d].pc /\ claude'[d].late = b
      BY <2>1, <2>2 DEF ClaudeCommands
    <2>5. Compared(d, claude[d])'
      BY <2>2, <2>4 DEF Compared
    <2> QED
      BY <2>3, <2>4, <2>5
  <1>5. claude' \in [Runs -> ClaudeCommands]
    <2>1. claude' = [d \in Runs |-> claude'[d]]
      BY Zenon DEF Surprise
    <2> QED
      BY <1>4, <2>1
  <1>6. ClaudeTypeOK'
    BY <1>1, <1>2, <1>5 DEF ClaudeTypeOK
  <1>7. Preserving
    BY <1>1, <1>2, <1>4 DEF Preserving
  <1> QED
    BY <1>2, <1>3, <1>4, <1>6, <1>7, OthersKeep

LEMMA SwapParentKeeps ==
  ASSUME ClaudeIInv, SwapParent PROVE ClaudeIInv'
  <1>1. ClaudeTypeOK /\ Standing /\ UNCHANGED <<entry, token>>
    BY DEF ClaudeIInv, SwapParent
  <1>2. Standing' /\ parent' \in Parents
    BY <1>1 DEF Standing, SwapParent
  <1> QED
    BY <1>1, <1>2, SwapKeeps DEF SwapParent, ClaudeTypeOK

LEMMA SwapEntryKeeps ==
  ASSUME ClaudeIInv, SwapEntry PROVE ClaudeIInv'
  <1>1. ClaudeTypeOK /\ Standing
    BY DEF ClaudeIInv
  <1>2. PICK p \in Parents, c \in Runs, d \in Foreign \cup {None} :
          /\ entry' = [entry EXCEPT ![p][c] = d]
          /\ IF d = None THEN UNCHANGED token
             ELSE token' \in {[token EXCEPT ![d] = t] : t \in {None, token[c]}}
    BY DEF SwapEntry
  <1>3. /\ entry' \in [Parents -> [Runs -> Directories \cup {None}]]
        /\ Standing'
    BY <1>1, <1>2 DEF ClaudeTypeOK, Standing, Directories
  <1>4. token' \in [Directories -> Runs \cup {None}]
    <2>1. token \in [Directories -> Runs \cup {None}] /\ token[c] \in Runs \cup {None}
      BY <1>1 DEF ClaudeTypeOK, Directories
    <2>2. token' = token \/ \E t \in {None, token[c]} : token' = [token EXCEPT ![d] = t]
      BY <1>2, Zenon
    <2> QED
      BY <2>1, <2>2
  <1>5. parent' \in Parents
    BY <1>1 DEF SwapEntry, ClaudeTypeOK
  <1> QED
    BY <1>3, <1>4, <1>5, SwapKeeps DEF SwapEntry

\* An edit of the tree, and a step of something else.
LEMMA EditKeeps ==
  ASSUME ClaudeIInv, EditInputs \/ UNCHANGED claude_vars PROVE ClaudeIInv'
  <1>1. UNCHANGED <<parent, entry, token, swaps, removed, claude_attempts, raws, current, claude>>
    BY DEF EditInputs, claude_vars, area, documents
  <1>2. ClaudeTypeOK /\ Standing
    BY DEF ClaudeIInv
  <1>3. tree' \in Trees
    BY <1>2 DEF EditInputs, claude_vars, ClaudeTypeOK
  <1>4. ClaudeTypeOK' /\ Standing'
    BY <1>1, <1>2, <1>3 DEF ClaudeTypeOK, Standing
  <1>5. Preserving
    BY <1>1, <1>2 DEF Preserving, ClaudeTypeOK
  <1>6. \A d \in Runs : Compared(d, claude[d])'
    BY <1>1, ClaudeFacts DEF Compared
  <1>7. ASSUME NEW d \in Runs
        PROVE  \E b \in BOOLEAN : claude'[d] = [claude[d] EXCEPT !.late = b] /\ (claude[d].late => b)
    <2>1. claude[d] \in ClaudeCommands
      BY ClaudeFacts
    <2>2. claude[d] = [claude[d] EXCEPT !.late = claude[d].late] /\ claude[d].late \in BOOLEAN
      BY <2>1 DEF ClaudeCommands
    <2> QED
      BY <1>1, <2>2, Zenon
  <1> QED
    BY <1>1, <1>4, <1>5, <1>6, <1>7, OthersKeep DEF documents

(***************************************************************************)
(* The theorems.                                                           *)
(***************************************************************************)
LEMMA Initially == ClaudeInit => ClaudeIInv
  <1> SUFFICES ASSUME ClaudeInit PROVE ClaudeIInv
    OBVIOUS
  <1>1. \A c \in Runs : claude[c] = NotBegun
    BY DEF ClaudeInit
  <1>2. ClaudeTypeOK
    BY IdleIsCommand DEF ClaudeInit, ClaudeTypeOK, Parents
  <1>3. Standing /\ OwnRemoved /\ Published
    BY DEF ClaudeInit, Standing, OwnRemoved, Published
  <1>4. Retained(claude_attempts) /\ Retained(<<>>)
    BY DEF ClaudeInit, Retained
  <1>5. /\ NotBegun.pc = "idle" /\ ~NotBegun.error /\ NotBegun.read = <<>>
    BY DEF NotBegun
  <1>6. ASSUME NEW c \in Runs
        PROVE  Compared(c, claude[c]) /\ ClaudeEvident(c, claude[c]) /\ Retained(claude[c].read)
    BY <1>1, <1>4, <1>5 DEF Compared, ClaudeEvident, ClaudeJudged, Making
  <1> QED
    BY <1>2, <1>3, <1>4, <1>6 DEF ClaudeIInv

LEMMA Steadily == ClaudeIInv /\ [ClaudeNext]_claude_vars => ClaudeIInv'
  <1> SUFFICES ASSUME ClaudeIInv, [ClaudeNext]_claude_vars PROVE ClaudeIInv'
    OBVIOUS
  <1>1. ASSUME NEW c \in Runs, ClaudeStep(c) PROVE ClaudeIInv'
    BY <1>1, BeginKeeps, InspectKeeps, MakeDirectoryKeeps, MarkKeeps, CallsKeeps,
       CheckParentKeeps, CheckRootKeeps, CheckMarkerKeeps, RemoveTreeKeeps,
       MakeResultKeeps, WriteResultKeeps, ReadHistoryKeeps, WriteHistoryKeeps,
       PromoteKeeps, KillKeeps DEF ClaudeStep
  <1>2. CASE SwapParent \/ SwapEntry
    BY <1>2, SwapParentKeeps, SwapEntryKeeps
  <1>3. CASE EditInputs \/ UNCHANGED claude_vars
    BY <1>3, EditKeeps
  <1> QED
    BY <1>1, <1>2, <1>3 DEF ClaudeNext

\* The inductive invariant holds of every state of the lane.
THEOREM ClaudeInvariant == ClaudeSpec => []ClaudeIInv
  BY Initially, Steadily, PTL DEF ClaudeSpec

\* Every variable keeps to the values the code gives it.
THEOREM ClaudeTypeCorrect == ClaudeSpec => []ClaudeTypeOK
  <1>1. ClaudeIInv => ClaudeTypeOK
    BY DEF ClaudeIInv
  <1> QED
    BY <1>1, ClaudeInvariant, PTL

\* A run deletes the directory it made and no other, whatever other programs do
\* to the scratch area before its last comparison, and a record that says the
\* scratch is gone is right.
THEOREM ScratchHolds == ClaudeSpec => []ScratchTrue
  <1>1. ClaudeIInv => ScratchTrue
    <2> SUFFICES ASSUME ClaudeIInv PROVE ScratchTrue
      OBVIOUS
    <2>1. OwnRemoved /\ \A i \in DOMAIN claude_attempts : ClaudeKept(claude_attempts[i])
      BY DEF ClaudeIInv, Retained
    <2> QED
      BY <2>1 DEF ScratchTrue, OwnRemoved, ClaudeKept
  <1> QED
    BY <1>1, ClaudeInvariant, PTL

\* verify_history accepts every history the lane writes, even when runs overlap
\* and name one output: no raw result is replaced and no attempt id used twice.
THEOREM ClaudeRecordsAccepted == ClaudeSpec => []ClaudeRecordsVerify
  <1>1. ClaudeIInv => ClaudeRecordsVerify
    <2> SUFFICES ASSUME ClaudeIInv PROVE verify_history
      BY DEF ClaudeRecordsVerify
    <2>1. Retained(claude_attempts)
      BY DEF ClaudeIInv
    <2>2. ASSUME NEW i \in DOMAIN claude_attempts PROVE ~claude_attempt_errors(claude_attempts[i])
      <3>1. ClaudeKept(claude_attempts[i])
        BY <2>1 DEF Retained
      <3> QED
        BY <3>1 DEF ClaudeKept, claude_attempt_errors
    <2> QED
      BY <2>1, <2>2 DEF verify_history, Retained
  <1> QED
    BY <1>1, ClaudeInvariant, PTL

\* The result --verify-results accepts is of a run that used no tool and wrote no
\* fixture, though the judge sees no tool in a trace that cannot be parsed.
THEOREM AcceptedClean == ClaudeSpec => []AcceptedIsClean
  <1>1. ClaudeIInv => AcceptedIsClean
    <2> SUFFICES ASSUME ClaudeIInv, verify_claude_results(FALSE)
                 PROVE  claude[current.run].happened = "right"
      BY DEF AcceptedIsClean
    <2>1. current # None /\ current.happened = "right"
      BY DEF verify_claude_results, passed
    <2> QED
      BY <2>1 DEF ClaudeIInv, Published
  <1> QED
    BY <1>1, ClaudeInvariant, PTL
===============================================================================
