CONSTANTS
  Concrete <- Concretes
  Nillable = {"A", "B"}
  Interface <- Interfaces
  AnyType = "any"
  Error = "error"
  Payload = "Payload"
  Generic = "Generic"
  Nil = "nil"
  NoType = "none"
  String = "string"
  Packages <- AllPackages
SPECIFICATION Spec
CHECK_DEADLOCK FALSE
INVARIANTS
  TypeOK
  ReportsExact
  BodyBuilds
  SwitchAgrees
PROPERTIES
  NarrowKeeps
  Settles
