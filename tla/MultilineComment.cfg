CONSTANTS
  Char = {"a", "b", "/", "_test"}
  Slash = "/"
  Test = "_test"
  Star = "*"
  Dots = "..."
  Order <- FileOrder
  Var = {"v"}
  Table = {"inline", "shared"}
  Elts <- EltsOf
  Case <- CaseNames
  NoCase = NoCase
  Fields <- FieldsOf
  Keyed <- KeyedCases
  Packages <- AllPackages
  Commented <- SomeComments
  MaxEdits = 2
SPECIFICATION Spec
CHECK_DEADLOCK FALSE
INVARIANT CommentsKept
