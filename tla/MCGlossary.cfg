SPECIFICATION MCSpec
CONSTANTS
  None = None
  \* Up to four claims of one word by three concepts, over a tree of three levels.
  src = src  srca = srca  srcb = srcb  srcax = srcax  guide = guide  top = top
  PathPrefixes <- MCPrefixes
  TrieRoot = top
  AtOrAbove <- MCAtOrAbove
  UsableScopes <- MCScopes
  Repository = Repository
  FoldedWords = {w}
  MaxConcepts = 3
  MaxClaims = 4
  \* A word and a compound, watched or canonical, in either scope; tables that may
  \* be cut, samples of one location, room for five starting positions.
  a = a  b = b  c = c  B = B  AB = AB  AB2 = AB2  BCAAB = BCAAB  C = C  c1 = c1  t1 = t1  c2 = c2  d1 = d1
  tb = tb  tab = tab
  Tokens = {a, b, c}
  Spellings = {B, AB, AB2, BCAAB, C}
  TokensOf <- MCTokensOf
  Words = {a, b}
  CodeFiles <- MCCodeFiles
  DocFiles <- MCDocFiles
  Production = {c1, c2, d1}
  Terms = {tb, tab}
  TermTokens <- MCTermTokens
  DocKey <- MCDocKey
  Scopes <- MCFileScopes
  Rank <- MCRank
  CodeChoices <- MCCodeChoices
  DocChoices <- MCDocChoices
  MaxIdentifierTokens = 3
  TokensLimit = 2
  IdentifiersLimit = 3
  DocTermsLimit = 1
  LocationsPerTerm = 1
  CompoundStartBudget = 5
  MaxCompoundTermTokens = 2
  Glossaries <- MCGlossaries
  fading_max_count = 2
  \* A concept used twice is hardly used, a term in two directories is spread.
  m1 = m1  m2 = m2  mt = mt  aside = aside  gone = gone
  Modules = {m1, m2, mt}
  ModuleOf <- MCModuleOf
  ModulesIn <- MCModulesIn
  Unread = {aside}
  Nowhere = {gone}
  BindingsOf <- MCBindingsOf
  orphaned_max_count = 2
  fragmentation_min_modules = 2
  \* Caps of two words, three groups, a budget of four, one shown pair.
  n1 = n1  n2 = n2  n3 = n3
  LabelTokens = {1, 2, 3}
  NodeIds = {n1, n2, n3}
  GroupIds = {1, 2, 3, 4}
  Concepts = {1, 2, 3}
  Labels <- MCLabels
  Graphs <- MCGraphs
  ConceptChoices <- MCConcepts
  MEMBER_TOKEN_CAP = 2
  GROUP_CAP = 3
  STRUCTURAL_MATCH_BUDGET = 4
  FINDINGS_CAP = 1
  overloaded_min_concepts = 2
  \* Briefs of at most 140 bytes, an entry of at most 20 and at least 8.
  Briefs <- MCBriefs
  MaxBriefBytes = 140
  MaxEntryBytes = 20
  MinEntryBytes = 8
  FooterWords = 20
  Marker = 3
  \* Two of three modules, one of two aliases, two of four characters, five records.
  Fields = {"modules", "concepts", "definition", "aliases", "tokens", "doc_terms", "items", "locations", "register", "exemplars", "terms"}
  Indices <- MCIndices
  Documents <- MCDocuments
  ListLimits <- MCListLimits
  DefaultListLimit = 1
  StringLimit = 2
  LocationTables <- MCTables
  ExemplarsAt <- MCExemplarsAt
  NamingLocations <- MCNamingLocations
  Losses = 1
  MaxCoverageRecords = 5
  Overheads = {1, 20}
  MaxContextBytes = 30
  \* Three contexts of four modules are measured, two of three shown, of one of two tokens.
  TermNames = {1, 2, 3}
  ModulePaths = {1, 2, 3, 4, 5}
  ContextNames = {4, 5, 6, 7}
  Repositories <- MCRepositories
  CanonicalSets <- MCCanonicalSets
  MODULE_CONTEXT_ANALYSIS_CAP = 3
  pair_top_n = 2
  overload_module_analysis_cap = 4
  overload_min_modules = 2
  overload_min_dispersion = 667
  module_context_sample = 2
  overload_module_display_cap = 3
  overload_report_cap = 1
CHECK_DEADLOCK FALSE
INVARIANTS CountsTrue SectionsTrue ReconciliationTrue
  TotalsTrue AcceptedDisjoint DiagnosticsTrue BriefTrue ContextTrue OverloadsTrue
