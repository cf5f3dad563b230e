--------------------------- MODULE EvaluationLane ---------------------------
(* What the evaluation lanes share: who runs, what they evaluate and the    *)
(* directory of their raw results.                                          *)
EXTENDS Naturals, FiniteSets, Sequences

CONSTANTS
  Runs,      \* invocations; also their attempt ids and the names they make
  Outputs,   \* names of raw results under evaluation/agent-runs
  Trees,     \* contents of what they evaluate, as its identity tells them apart
  None

VARIABLES
  tree,      \* the content of plugin, skill, engine and evaluator on disk
  raws       \* the raw results
=============================================================================
