---------------------------- MODULE MCEvaluation ----------------------------
(***************************************************************************)
(* The two evaluation lanes on a small instance.  No step of one waits for *)
(* a step of the other, so a behaviour is one of either lane, the other    *)
(* standing still; the Codex lane is taken twice, once for what its host   *)
(* may do and once for what its runs may do to each other.                 *)
(***************************************************************************)
EXTENDS CodexEvaluation, ClaudeEvaluation, TLC

CONSTANT Lanes

VARIABLE lane

MCPossible == [hook |-> {"passed", "missed"},
               plugin |-> {"passed", "blind"},
               missing |-> {"passed", "inspected"}]

Symmetric == Permutations(Runs) \cup Permutations(Trees) \cup Permutations(Outputs)

OfCodex == <<host, history, mirror, cmd>>
OfClaude == <<area, claude_attempts, current, claude>>

\* "codex": one run after another, any failure of the host, the tree left alone.
Alone == Cardinality(Active) <= 1

\* "overlap": any two runs at once, the tree edited and restored at will; the
\* host works, and its sessions with the plugin are judged as passed.
Working ==
  \A c \in Runs : /\ cmd[c].error = "none" /\ ~cmd[c].errors
                  /\ cmd[c].seen["hook"] # "missed" /\ cmd[c].seen["plugin"] # "blind"

\* "claude": overlapping runs of one output; an edit comes before the others
\* interfere, or finds nothing that was used of the tree before it.
Apart ==
  /\ Cardinality({o \in Outputs : raws[o] # None \/ \E c \in Runs : claude[c].output = o}) <= 1
  /\ (swaps = 0 \/ \A c \in Runs : claude[c].used \in {None, tree})

MCInit == lane \in Lanes /\ Init /\ ClaudeInit

MCNext ==
  /\ UNCHANGED lane
  /\ \/ lane = "codex" /\ Next /\ Alone' /\ tree' = tree /\ UNCHANGED OfClaude
     \/ lane = "overlap" /\ Next /\ Working' /\ UNCHANGED OfClaude
     \/ lane = "claude" /\ ClaudeNext /\ Apart' /\ UNCHANGED OfCodex

MCSpec == MCInit /\ [][MCNext]_<<lane, vars, claude_vars>>
=============================================================================
