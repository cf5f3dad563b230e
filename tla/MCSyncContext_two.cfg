\* Two runs and an editor that never stops; each run is one step on the file,
\* and ends.  No symmetry, for the liveness property.
SPECIFICATION FairSpec
CONSTANTS
  Procs = {p1, p2}
  Inodes = {i0, i1, i2}
  Elsewhere = i0
  ForceChoices = {FALSE}
  Glossaries = {g1}
  Unrenderable = {}
  Outsides = {o0}
  Empty = o0
  Forms = {"none", "rendered"}
  Kinds = {"file"}
  Data = {"text"}
  Modes = {644}
  DefaultMode = 644
  NoFollow = TRUE
  CaseFolding = FALSE
  KnownIdentity = TRUE
  None = None
PROPERTIES RunsEnd FileSpec
