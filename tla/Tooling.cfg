CONSTANTS
  Pkg <- Packages
  Hidden = {}
  NoPkg = NoPkg
  File = {"a.go", "a.tmpl", "b.go", "b/testdata/in", "c.go", "c_test.go", "README.md", "Makefile"}
  Kind <- KindOf
  Dirs <- DirsOf
  Viewer <- ViewerOf
  Version = {"v0", "v1", "gone"}
  Base = "v0"
  Gone = "gone"
  Imports <- ImportsOfVersion
  Trap <- TwoChanges
  Whole = TRUE
  MaxEdits = 2
  Registry <- Rules
  OptIn <- OptInRules
  Key = {"allow", "test"}
  ReadBy <- ListsReadBy
  p = p
  q = q
  u = u
  v = v
  Pattern = {"x", "y", "z", u, v}
  Plugin = {p, q}
  Blocks <- SettingsBlocks
  Values <- OnePattern
  MaxList = 3
  DecodedCap <- Capacities
  None = None
  MaxBuilds = 1
  MaxSets = 3
  MeasuredPkg = {"a", "b"}
  Block <- ProfileBlocks
  PkgOf <- PkgOfBlock
  Stmts <- StmtsOfBlock
  Profiles <- ThreeLines
  NoProfile = NoProfile
  Glob = {"a/*.go", "b/b.go", "c.go"}
  BlankLine = "blank"
  Matches <- MatchesOf
  ExcludeLists <- Lists
  Bars = {50, 75, 100, Garbage}
  Garbage = Garbage
SYMMETRY Symmetric
SPECIFICATION ToolingSpec
CHECK_DEADLOCK FALSE
INVARIANTS
  HeadGreen
  Isolated
  Selects
  BarTypeOK
  BarOnBlocks
  PartsDecide
PROPERTY
  DocsReadByNone
