CONSTANTS
  Type <- Types
  NoType = NoType
  Kind <- KindOf
  Of <- OfType
  Fields <- WithID
  HasEqual = {"Stamp"}
  Name = {"Meta", "Name", "At", "Tags", "id", "Kind", "Loop", "wall", "ext", "Text", "mark"}
  Var <- Vars
  VarType <- TypeOfVar
  Site <- Sites_
  MinFields = 2
  MaxIgnore = 3
  MaxDepth = 12
  InlineFieldThreshold = 4
  MaxSites = 3
SPECIFICATION Spec
CHECK_DEADLOCK FALSE
INVARIANTS
  TypeOK
  AnchorDeepest
  CutLeast
  RunsDocumented
  ElementsDocumented
  FixStays
