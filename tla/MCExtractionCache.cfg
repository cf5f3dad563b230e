\* Commands on the glossary and on Git state end (CHECK_DEADLOCK).
CONSTANTS
  Procs = {p1, p2}
  Versions <- MCVersions
  Rels = {"main", "AGENTS.md"}
  Hosts = {"AGENTS.md"}
  Classes = {"doc", "python"}
  Class <- MCClass
  Texts = {x}
  Blocks = {"none", "one"}
  MaxEvents = 2
  Clients = {p1, p2}
  Documents <- MCDocuments
  CompactBytes <- MCCompactBytes
  StoredBytes <- MCStoredBytes
  MAX_JSON_BYTES = 2
  MaxMoves = 1
  tree1 = tree1  tree2 = tree2  g1 = g1  g2 = g2
  Trees = {tree1, tree2}
  GlossaryVersions = {g1, g2}
  Commits <- MCCommits
  AbbreviationLength = 5
  MaxEdits = 2
  None = None
SPECIFICATION MCSpec
INVARIANTS TypeOK NeverPoisoned StoreTrue StampTrue
PROPERTIES WarmIsCold
SYMMETRY Symmetric
CHECK_DEADLOCK FALSE
