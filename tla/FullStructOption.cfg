CONSTANTS
  Type <- Types
  NoType = NoType
  Kind <- KindOf
  Of <- OfType
  Fields <- WithoutID
  HasEqual = {"Stamp"}
  Name = {"Meta", "Name", "At", "Tags", "id", "Kind", "Loop", "wall", "ext", "Text", "mark"}
  Var <- Vars
  VarType <- TypeOfVar
  Site <- Sites_
  MinFields = 2
  MaxIgnore = 3
  MaxDepth = 12
  InlineFieldThreshold = 4
  MaxSites = 2
SPECIFICATION Spec
CHECK_DEADLOCK FALSE
INVARIANT
  OptionNamed
