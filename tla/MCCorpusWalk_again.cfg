\* The first and the second scan, at the ceilings on entries.
SPECIFICATION ScanSpec
CONSTANTS
  root = root  outdir = outdir  sub = sub  f1 = f1  f2 = f2  f3 = f3
  Dirs <- MCDirs
  Files <- MCFiles
  Root = root
  OutDir = outdir
  Subdirs <- MCSubdirs
  Contained <- MCContained
  Above <- MCAbove
  Place <- MCPlace
  Production <- MCProduction
  KindChoices <- PlainOnly
  DiskChoices <- OneSize
  MaxFileBytes = 2
  MaxSourceFiles = 2
  MaxSourceBytes = 3
  MaxWalkEntries = 3
  MaxDirectoryEntries = 3
  MaxChanges = 0
  Rescans = TRUE
  t1 = t1  t2 = t2  big = big  bin = bin  dir = dir  wide = wide  env = env  kin = kin  w1 = w1  w2 = w2
  Entries <- MCEntries
  EntryKind <- MCEntryKind
  FoldedText <- MCFoldedText
  Settled <- MCSettled
  MAX_DIVERGENCE_TERMS = 2
  MaxReplacements = 2
  Depth = 2
  LastArtifact = 2
  MaxInterferences = 1
  Installs = {1, 2}  MaxMeddlings = 1
  e1 = e1
  Executables <- MCExecutables
  Sources <- MCSources
  ClassOf <- MCClassOf
  Targets <- MCTargets
  ConfigFiles <- MCConfigFiles
  MaxPathRules = 3
  None = None
CHECK_DEADLOCK FALSE
INVARIANTS FirstAndLaterScansIdentical
