CONSTANTS
  Var = {x}
  NoVar = NoVar
  Func <- Functions
  Outer <- Enclosing
  Pkg = Pkg
  Unborn = Unborn
  Type <- Types
  Iface <- Interfaces
  TypeParam = {"P"}
  Parametric = {"S", "P"}
  Methods <- MethodsOf
  Converts <- ConvertsTo
  UntypedNil = "nil"
  Dyn <- RunTime
  Inst <- InstOf
  Nil = Nil
  Unset = Unset
  Exprs <- Operands
  DeclTypes = {"any", "Rd", "T"}
  Targets = {"T", "S", "Rd", Switch}
  Zero = Zero
  Spread = Spread
  Switch = Switch
  NoBinding = NoBinding
  MaxStmts = 3
SPECIFICATION FileSpec
CHECK_DEADLOCK FALSE
INVARIANTS
  TypeOK
  Sound
  Exact
  ChainLosesEvidence
PROPERTY
  ImplementsEvidence
