CONSTANTS
  Pkg <- Packages
  Hidden = {"b/testdata/x"}
  NoPkg = NoPkg
  File = {"a.go", "b.go", "b/testdata/x/x.go", "c.go"}
  Kind <- KindOf
  Dirs <- DirsOf
  Viewer <- ViewerOf
  Version = {"v0", "v1", "gone"}
  Base = "v0"
  Gone = "gone"
  Imports <- ImportsOfVersion
  Trap <- OneChange
  Whole = TRUE
  MaxEdits = 2
SPECIFICATION GateSpec
CHECK_DEADLOCK FALSE
INVARIANT
  HeadGreen
