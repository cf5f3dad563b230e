\* One run against every shape of block and every kind of edit, on a
\* case-insensitive filesystem without O_NOFOLLOW: what any other platform
\* allows is allowed here too.
SPECIFICATION Spec
CONSTANTS
  Procs = {p1}
  Inodes = {i0, i1, i2}
  Elsewhere = i0
  ForceChoices = {TRUE, FALSE}
  Glossaries = {g1}
  Unrenderable = {}
  Outsides = {o0, o1}
  Empty = o0
  Forms = {"none", "ambiguous", "rendered", "altered", "older"}
  Kinds = {"file", "link", "other"}
  Data = {"text", "binary", "oversize"}
  Modes = {644, 600}
  DefaultMode = 644
  NoFollow = FALSE
  CaseFolding = TRUE
  KnownIdentity = TRUE
  None = None
VIEW View
SYMMETRY InodeSymmetry
INVARIANTS NothingUnseenReplaced TemporariesAccounted
PROPERTIES EditsNeedForce SurroundingsKept
