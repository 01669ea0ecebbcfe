CONSTANTS
  Char = {"a", "s", "/", "_test"}
  Slash = "/"
  Test = "_test"
  Star = "*"
  Dots = "..."
  File <- Files
  TestNamed = {"a_test.go"}
  Confs <- Configurations
  Nodes <- HelperNodes
  Most <- Bounds
  Var = {"Hook", "Reader", "Options", "Registry", "Fallback", "Clock", "stub", "opts", "table"}
  NoVar = "none"
  Decl <- Declared
  Type <- Types
  Elem <- Elements
  Own <- OwnBehaviour
  Fake <- FakeBehaviour
  Boot <- Memory
  Holds <- PlaceTypes
  Seam <- Read
  Word = {"pattern", "reworded"}
SPECIFICATION Spec
CHECK_DEADLOCK FALSE
INVARIANT
  EachCallReported
