CONSTANTS
  File <- Files
  Byte = {"c", "_", "N", "#"}
  Code = "c"
  Blank = "_"
  Newline = "N"
  Unreadable = Unreadable
  NoIndex = NoIndex
  Packages <- AllPackages
SPECIFICATION Spec
CHECK_DEADLOCK FALSE
INVARIANTS
  TypeOK
  ReportsDocumented
  OneReading
  LossSilences
