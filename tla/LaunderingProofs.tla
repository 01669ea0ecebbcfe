--------------------------- MODULE LaunderingProofs ---------------------------
(***************************************************************************)
(* Proofs about rule G05: type correctness; that a report of the binding   *)
(* shape is never wrong about what the program does; that the collector    *)
(* implements the ledger of evidence; that the reports of both shapes are  *)
(* those of the document, no fewer and no more.                            *)
(***************************************************************************)
EXTENDS Laundering, SequenceTheorems, WellFoundedInduction, TLAPS

(* What the walk knows of the statements it has visited: the variables they *)
(* name are declared, and the values they store fit.                       *)
Static ==
  /\ \A v \in Var : bindings[v] # NoBinding =>
       scope[v].fn \in Func /\ bindings[v].varType = scope[v].type
  /\ \A j \in DOMAIN prog :
       /\ prog[j].op \in {"declare", "assign", "range", "addr"} => prog[j].var \in Var
       /\ prog[j].op = "assert" => prog[j].val \in Exprs
       /\ prog[j].op = "range" => prog[j].val = Spread
       /\ prog[j].var # NoVar => scope[prog[j].var].fn # Unborn
       /\ prog[j].val \in Exprs =>
            /\ prog[j].val.var # NoVar => scope[prog[j].val.var].fn # Unborn
            /\ prog[j].op \in {"declare", "assign"} =>
                 Assignable(prog[j].val, scope[prog[j].var].type)

(* Nothing runs during the walk.                                           *)
Quiet ==
  phase = "walk" => heap = [v \in Var |-> Unset] /\ aliased = {} /\ reports = {}

(* The statement s gives its variable nothing but values of the type that  *)
(* the binding b has recorded.                                             *)
Agrees(b, s) ==
  /\ s.op \notin {"addr", "range"}
  /\ s.op \in {"declare", "assign"} /\ s.val # Zero =>
       /\ s.val \in Exprs
       /\ b.widenings # <<>>
       /\ SourceType(s.val) = b.widenings[1].from

(* A binding that is not dropped agrees with every statement on it, except *)
(* for those that name the variable in parentheses.                        *)
Evident ==
  \A v \in Var : bindings[v] # NoBinding =>
    /\ bindings[v].widenings # <<>> => bindings[v].varType \in Iface
    /\ ~bindings[v].dropped =>
         \A j \in DOMAIN prog :
           prog[j].var = v /\ ~prog[j].paren => Agrees(bindings[v], prog[j])

(* Only variables whose address a statement takes are aliased.             *)
Pointed ==
  \A v \in aliased : \E j \in DOMAIN prog : prog[j].op = "addr" /\ prog[j].var = v

Reported ==
  \A r \in reports : r.shape = "binding" =>
    /\ r.var \in Var
    /\ Laundered(r.var)
    /\ r.from = bindings[r.var].widenings[1].from

Holds ==
  \A v \in Var : Laundered(v) /\ ~Parenthesised(v) /\ ~FilledThroughParam(v) =>
    heap[v] \in Inst[bindings[v].widenings[1].from] \cup {Nil, Unset}

IInv == TypeOK /\ Static /\ Quiet /\ Evident /\ Pointed /\ Reported /\ Holds
--------------------------------------------------------------------------------
(* A binding after n statements: its widenings hide concrete types, behind *)
(* an interface.                                                           *)
WellMade(b, n) ==
  /\ b \in Binding
  /\ \A k \in DOMAIN b.widenings :
       b.widenings[k].from \in Type \ Iface /\ b.widenings[k].pos \in 1..n
  /\ b.widenings # <<>> => b.varType \in Iface

(* A later state c of the binding b keeps the evidence, or is dropped.     *)
Keeps(b, c) ==
  /\ c.varType = b.varType
  /\ ~c.dropped =>
       /\ ~b.dropped
       /\ b.widenings # <<>> =>
            c.widenings # <<>> /\ c.widenings[1].from = b.widenings[1].from

(* The value val agrees with the binding b, unless b is dropped.           *)
AgreesWith(b, val) ==
  ~b.dropped /\ val # Zero =>
    val \in Exprs /\ b.widenings # <<>> /\ SourceType(val) = b.widenings[1].from

(* The static types of expressions are types.                              *)
LEMMA ExprTypes ==
  ASSUME TypeOK, NEW e \in Exprs
  PROVE  /\ BaseType(e) \in Type
         /\ SourceType(e) \in Type
         /\ TypeOf(e) \in Type
<1>1. /\ e.var \in Var \cup {NoVar} /\ e.type \in Type
      /\ e.steps \in Seq([to : Iface, how : {"conv", "assert"}])
  BY ExprsAssumption
<1>2. BaseType(e) \in Type
  BY <1>1 DEF BaseType, TypeOK
<1>3. ASSUME NEW k
      PROVE  TypeAt(BaseType(e), e, k) \in Type
  <2>1. ASSUME k \in 1..Len(e.steps) PROVE e.steps[k].to \in Iface
    <3>1. e.steps[k] \in [to : Iface, how : {"conv", "assert"}]
      BY <1>1, <2>1, ElementOfSeq
    <3> QED BY <3>1
  <2> QED
    BY <1>2, <2>1, TypesAssumption DEF TypeAt
<1> QED
  BY <1>2, <1>3 DEF SourceType, TypeOf

(* A binding that has no widenings yet is well made.                       *)
LEMMA NewBindingWellMade ==
  ASSUME NEW fn \in Func, NEW t \in Type, NEW n \in Nat
  PROVE  /\ WellMade(NewBinding(fn, t), n)
         /\ NewBinding(fn, t).varType = t
         /\ NewBinding(fn, t) # NoBinding
<1>1. NewBinding(fn, t) \in Binding
  BY DEF NewBinding, Binding
<1>2. NewBinding(fn, t).widenings = <<>> /\ NewBinding(fn, t).varType = t
  BY DEF NewBinding
<1>3. NoBinding \notin Binding
  BY NamesAssumption DEF Binding, Widening
<1>4. DOMAIN NewBinding(fn, t).widenings = {}
  BY <1>2
<1> QED
  BY <1>1, <1>2, <1>3, <1>4 DEF WellMade

(* What drop leaves of a collected binding is well made.                   *)
LEMMA DroppedWellMade ==
  ASSUME NEW b, NEW n, WellMade(b, n)
  PROVE  /\ WellMade(Dropped(b), n) /\ Keeps(b, Dropped(b))
         /\ Dropped(b) # NoBinding /\ Dropped(b).dropped
<1>1. Dropped(b) \in Binding
  BY DEF Dropped, Binding, WellMade
<1> QED
  BY <1>1, NamesAssumption DEF WellMade, Dropped, Keeps, Binding, Widening

(* record() either drops the binding or leaves it with the one type that   *)
(* every value so far had.                                                 *)
LEMMA RecordKeeps ==
  ASSUME NEW from \in Type, NEW n \in Nat, NEW b, WellMade(b, n)
  PROVE  /\ WellMade(Record(b, from, n + 1), n + 1)
         /\ Record(b, from, n + 1) # NoBinding
         /\ Keeps(b, Record(b, from, n + 1))
         /\ ~Record(b, from, n + 1).dropped =>
              /\ Record(b, from, n + 1).widenings # <<>>
              /\ Record(b, from, n + 1).widenings[1].from = from
<1> DEFINE w == [from |-> from, pos |-> n + 1]
           c == [b EXCEPT !.widenings = Append(@, w)]
<1>1. WellMade(b, n + 1)
  BY DEF WellMade, Binding, Widening
<1>2. CASE Record(b, from, n + 1) = Dropped(b)
  BY <1>1, <1>2, DroppedWellMade
<1>3. CASE /\ Record(b, from, n + 1) = c
           /\ StrictlyBroader(b.varType, from) /\ from \notin Iface
           /\ b.widenings # <<>> => b.widenings[1].from = from
  <2>1. b \in Binding /\ w \in Widening /\ b.widenings \in Seq(Widening)
    BY DEF WellMade, Binding, Widening
  <2>2. Append(b.widenings, w) \in Seq(Widening)
    BY <2>1
  <2>3. c \in Binding /\ c.widenings = Append(b.widenings, w)
    BY <2>1, <2>2 DEF Binding
  <2>4. /\ c.varType = b.varType /\ c.dropped = b.dropped
    BY <2>1 DEF Binding
  <2>5. b.varType \in Iface
    BY <1>3 DEF StrictlyBroader
  <2>6. /\ DOMAIN c.widenings = 1..(Len(b.widenings) + 1)
        /\ DOMAIN b.widenings = 1..Len(b.widenings)
        /\ Len(b.widenings) \in Nat
        /\ \A k \in 1..Len(b.widenings) : c.widenings[k] = b.widenings[k]
        /\ c.widenings[Len(b.widenings) + 1] = w
        /\ c.widenings # <<>>
    BY <2>1, <2>3
  <2>7. c.widenings[1].from = from
    <3>1. CASE b.widenings = <<>>
      BY <3>1, <2>6
    <3>2. CASE b.widenings # <<>>
      BY <3>2, <2>1, <2>6, <1>3, EmptySeq
    <3> QED BY <3>1, <3>2
  <2>8. \A k \in DOMAIN c.widenings :
          c.widenings[k].from \in Type \ Iface /\ c.widenings[k].pos \in 1..(n + 1)
    <3> TAKE k \in DOMAIN c.widenings
    <3>1. CASE k \in 1..Len(b.widenings)
      BY <3>1, <2>6, <1>1 DEF WellMade
    <3>2. CASE k = Len(b.widenings) + 1
      BY <3>2, <2>6, <1>3
    <3> QED BY <3>1, <3>2, <2>6
  <2>9. WellMade(c, n + 1)
    BY <2>3, <2>4, <2>5, <2>8 DEF WellMade
  <2> HIDE DEF c
  <2> QED
    BY <1>3, <2>3, <2>4, <2>6, <2>7, <2>9, NamesAssumption DEF Keeps, Binding, Widening
<1> QED
  BY <1>2, <1>3 DEF Record

(* What declare and record make of a well-made binding is well made,       *)
(* keeps its evidence and agrees with the value.                           *)
LEMMA TakeKeeps ==
  ASSUME TypeOK, NEW val \in Exprs \cup {Zero, Spread}, NEW n \in Nat, NEW b, WellMade(b, n)
  PROVE  /\ WellMade(Take(b, val, n + 1), n + 1)
         /\ Take(b, val, n + 1) # NoBinding
         /\ Keeps(b, Take(b, val, n + 1))
         /\ AgreesWith(Take(b, val, n + 1), val)
<1>0. WellMade(b, n + 1) /\ b # NoBinding
  <2>1. WellMade(b, n + 1)
    BY DEF WellMade, Binding, Widening
  <2>2. b # NoBinding
    BY NamesAssumption DEF WellMade, Binding, Widening
  <2> QED BY <2>1, <2>2
<1>1. CASE val = Zero
  <2>1. Take(b, val, n + 1) = b
    BY <1>1, NamesAssumption DEF Take
  <2> QED
    BY <1>0, <1>1, <2>1 DEF Keeps, AgreesWith
<1>2. CASE val = Spread
  <2>1. Take(b, val, n + 1) = Dropped(b)
    BY <1>2, NamesAssumption DEF Take
  <2>2. WellMade(Dropped(b), n + 1) /\ Dropped(b) # NoBinding /\ Dropped(b).dropped
    BY <1>0, DroppedWellMade
  <2>3. Keeps(b, Dropped(b))
    BY DroppedWellMade
  <2> QED
    BY <2>1, <2>2, <2>3 DEF AgreesWith
<1>3. CASE val \in Exprs
  <2>1. Take(b, val, n + 1) = Record(b, SourceType(val), n + 1)
    BY <1>3, NamesAssumption DEF Take
  <2>2. SourceType(val) \in Type
    BY <1>3, ExprTypes
  <2>3. /\ WellMade(Record(b, SourceType(val), n + 1), n + 1)
        /\ Record(b, SourceType(val), n + 1) # NoBinding
        /\ Keeps(b, Record(b, SourceType(val), n + 1))
        /\ ~Record(b, SourceType(val), n + 1).dropped =>
             /\ Record(b, SourceType(val), n + 1).widenings # <<>>
             /\ Record(b, SourceType(val), n + 1).widenings[1].from = SourceType(val)
    BY <2>2, RecordKeeps
  <2> QED
    BY <1>3, <2>1, <2>3 DEF AgreesWith
<1> QED
  BY <1>1, <1>2, <1>3
--------------------------------------------------------------------------------
(* A step of the walk leaves the declared variables as they are.           *)
Stable ==
  /\ scope' \in [Var -> [fn : Func \cup {Pkg, Unborn}, type : Type]]
  /\ \A w \in Var : scope[w].fn # Unborn => scope'[w] = scope[w]

(* c is a binding that the variable w can have after the statement s.      *)
Fits(w, c, s) ==
  /\ bindings[w] = NoBinding /\ c # NoBinding => scope[w].fn = Unborn
  /\ c = NoBinding => bindings[w] = NoBinding
  /\ c # NoBinding =>
       /\ WellMade(c, Len(prog) + 1)
       /\ scope'[w].fn \in Func /\ c.varType = scope'[w].type
       /\ bindings[w] # NoBinding => Keeps(bindings[w], c)
       /\ s.var = w /\ ~s.paren /\ ~c.dropped =>
            /\ s.op \notin {"addr", "range"}
            /\ s.op \in {"declare", "assign"} => AgreesWith(c, s.val)

(* What every step of the walk does, whichever statement it visits.        *)
WalkStep(s) ==
  /\ phase = "walk"
  /\ UNCHANGED <<phase, generated, reports, heap, aliased>>
  /\ s \in Stmt
  /\ prog' = Append(prog, s)
  /\ Stable
  /\ s.op \in {"declare", "assign", "range", "addr"} => s.var \in Var
  /\ s.op = "assert" => s.val \in Exprs
  /\ s.op = "range" => s.val = Spread
  /\ s.var # NoVar => scope'[s.var].fn # Unborn
  /\ s.val \in Exprs =>
       /\ s.val.var # NoVar => scope[s.val.var].fn # Unborn
       /\ s.op \in {"declare", "assign"} => Assignable(s.val, scope'[s.var].type)
  /\ bindings' = [w \in Var |-> bindings'[w]]
  /\ \A w \in Var : Fits(w, bindings'[w], s)

(* A binding that a variable can have after a statement may be dropped     *)
(* too.                                                                    *)
LEMMA FitsDropped ==
  ASSUME NEW w \in Var, NEW c, NEW s, Fits(w, c, s), c # NoBinding
  PROVE  Fits(w, Dropped(c), s)
<1>1. WellMade(c, Len(prog) + 1)
  BY DEF Fits
<1>2. /\ WellMade(Dropped(c), Len(prog) + 1) /\ Keeps(c, Dropped(c))
      /\ Dropped(c) # NoBinding /\ Dropped(c).dropped
  BY <1>1, DroppedWellMade
<1> QED
  BY <1>2 DEF Fits, Keeps

(* Visiting the identifiers of a statement can only drop bindings.         *)
LEMMA FitsUse ==
  ASSUME NEW B, NEW names, NEW fn, NEW s, \A w \in Var : Fits(w, B[w], s)
  PROVE  \A w \in Var : Fits(w, Use(B, names, fn)[w], s)
<1> TAKE w \in Var
<1>1. \/ Use(B, names, fn)[w] = B[w]
      \/ B[w] # NoBinding /\ Use(B, names, fn)[w] = Dropped(B[w])
  BY DEF Use
<1> QED
  BY <1>1, FitsDropped

(* A statement that gives w no value leaves its binding fitting.           *)
LEMMA FitsSame ==
  ASSUME TypeOK, Static, Evident, Stable, NEW w \in Var, NEW s,
         s.var = w => s.paren \/ s.op \notin {"declare", "assign", "addr", "range"}
  PROVE  Fits(w, bindings[w], s)
<1>1. CASE bindings[w] = NoBinding
  BY <1>1 DEF Fits
<1>2. CASE bindings[w] # NoBinding
  <2>1. bindings[w] \in Binding /\ prog \in Seq(Stmt)
    BY <1>2 DEF TypeOK
  <2>2. /\ DOMAIN prog = 1..Len(prog) /\ Len(prog) \in Nat
    BY <2>1
  <2>3. WellMade(bindings[w], Len(prog) + 1)
    BY <1>2, <2>1, <2>2 DEF WellMade, TypeOK, Evident
  <2>4. scope'[w] = scope[w] /\ scope[w].fn \in Func
    BY <1>2, NamesAssumption DEF Static, Stable
  <2>5. bindings[w].varType = scope'[w].type
    BY <1>2, <2>4 DEF Static
  <2>6. Keeps(bindings[w], bindings[w])
    BY DEF Keeps
  <2> QED
    BY <1>2, <2>3, <2>4, <2>5, <2>6 DEF Fits
<1> QED
  BY <1>1, <1>2

(* An expression whose variable was declared keeps its static types.       *)
LEMMA TypesStable ==
  ASSUME Stable, NEW e \in Exprs, NEW t,
         e.var # NoVar => scope[e.var].fn # Unborn
  PROVE  /\ SourceType(e)' = SourceType(e)
         /\ Assignable(e, t) => Assignable(e, t)'
<1>1. e.var \in Var \cup {NoVar}
  BY ExprsAssumption
<1>2. BaseType(e)' = BaseType(e)
  BY <1>1 DEF BaseType, Stable
<1> QED
  BY <1>2 DEF SourceType, Assignable, TypeOf

(* What WalkStep says of a step is enough for the step to keep the         *)
(* invariant.                                                              *)
LEMMA WalkStepInv ==
  ASSUME IInv, NEW s, WalkStep(s)
  PROVE  IInv'
<1> USE DEF IInv
<1>1. /\ prog \in Seq(Stmt) /\ prog' \in Seq(Stmt)
      /\ Len(prog) \in Nat
      /\ DOMAIN prog = 1..Len(prog) /\ DOMAIN prog' = 1..(Len(prog) + 1)
      /\ \A j \in DOMAIN prog : prog'[j] = prog[j]
      /\ prog'[Len(prog) + 1] = s
  BY DEF WalkStep, TypeOK
<1>2. /\ phase' = "walk" /\ reports' = {} /\ aliased' = {}
      /\ heap' = [v \in Var |-> Unset] /\ generated' = generated
  BY DEF WalkStep, Quiet
<1>3. bindings' \in [Var -> Binding \cup {NoBinding}]
  <2>1. \A w \in Var : bindings'[w] \in Binding \cup {NoBinding}
    BY DEF WalkStep, Fits, WellMade
  <2>2. bindings' = [w \in Var |-> bindings'[w]]
    BY DEF WalkStep
  <2> QED BY <2>1, <2>2
<1>4. TypeOK'
  <2>1. scope' \in [Var -> [fn : Func \cup {Pkg, Unborn}, type : Type]]
    BY DEF WalkStep, Stable
  <2>2. ASSUME NEW v \in Var, bindings'[v] # NoBinding, NEW k \in DOMAIN bindings'[v].widenings
        PROVE  /\ bindings'[v].widenings[k].from \in Type \ Iface
               /\ bindings'[v].widenings[k].pos \in DOMAIN prog'
    BY <1>1, <2>2 DEF WalkStep, Fits, WellMade
  <2>3. \A v \in Var : heap'[v] = Unset
    BY <1>2
  <2>4. heap' \in [Var -> Dyn \cup {Nil, Unset}]
    BY <1>2
  <2>5. generated' \in BOOLEAN
    BY <1>2 DEF TypeOK
  <2> QED
    BY <1>1, <1>2, <1>3, <2>1, <2>2, <2>3, <2>4, <2>5 DEF TypeOK
<1>5. Static'
  <2>0. \A e \in Exprs : \A t : (e.var # NoVar => scope[e.var].fn # Unborn)
                            => (Assignable(e, t) => Assignable(e, t)')
    BY TypesStable DEF WalkStep
  <2>1. ASSUME NEW v \in Var, bindings'[v] # NoBinding
        PROVE  scope'[v].fn \in Func /\ bindings'[v].varType = scope'[v].type
    BY <2>1 DEF WalkStep, Fits
  <2>2. ASSUME NEW j \in DOMAIN prog'
        PROVE  /\ prog'[j].op \in {"declare", "assign", "range", "addr"} => prog'[j].var \in Var
               /\ prog'[j].op = "assert" => prog'[j].val \in Exprs
               /\ prog'[j].op = "range" => prog'[j].val = Spread
               /\ prog'[j].var # NoVar => scope'[prog'[j].var].fn # Unborn
               /\ prog'[j].val \in Exprs =>
                    /\ prog'[j].val.var # NoVar => scope'[prog'[j].val.var].fn # Unborn
                    /\ prog'[j].op \in {"declare", "assign"} =>
                         Assignable(prog[j].val, scope[prog[j].var].type)'
    <3>1. CASE j \in DOMAIN prog
      <4>1. prog'[j] = prog[j] /\ prog[j] \in Stmt
        BY <1>1, <3>1
      <4>2. prog[j].var \in Var \cup {NoVar}
        BY <4>1 DEF Stmt
      <4>3. prog[j].var # NoVar => /\ scope'[prog[j].var] = scope[prog[j].var]
                                   /\ scope[prog[j].var].fn # Unborn
        BY <3>1, <4>2 DEF Static, WalkStep, Stable
      <4>4. ASSUME prog[j].val \in Exprs, prog[j].val.var # NoVar
            PROVE  /\ scope'[prog[j].val.var] = scope[prog[j].val.var]
                   /\ scope[prog[j].val.var].fn # Unborn
        <5>1. prog[j].val.var \in Var
          BY <4>4, ExprsAssumption
        <5> QED
          BY <3>1, <4>4, <5>1 DEF Static, WalkStep, Stable
      <4>5. ASSUME prog[j].val \in Exprs, prog[j].op \in {"declare", "assign"}
            PROVE  Assignable(prog[j].val, scope[prog[j].var].type)'
        <5>1. prog[j].var \in Var /\ Assignable(prog[j].val, scope[prog[j].var].type)
          BY <3>1, <4>5 DEF Static
        <5>2. scope'[prog[j].var].type = scope[prog[j].var].type
          BY <5>1, <4>3, NamesAssumption
        <5> QED
          BY <2>0, <4>1, <4>4, <4>5, <5>1, <5>2
      <4> QED
        BY <3>1, <4>1, <4>3, <4>4, <4>5 DEF Static
    <3>2. CASE j = Len(prog) + 1
      <4>1. prog'[j] = s
        BY <1>1, <3>2
      <4>2. ASSUME s.val \in Exprs, s.val.var # NoVar
            PROVE  scope'[s.val.var].fn # Unborn
        <5>1. s.val.var \in Var
          BY <4>2, ExprsAssumption
        <5> QED
          BY <4>2, <5>1 DEF WalkStep, Stable
      <4>3. s.val \in Exprs /\ s.op \in {"declare", "assign"}
              => Assignable(s.val, scope'[s.var].type)
        BY DEF WalkStep
      <4>4. s.val \in Exprs => (s.val.var # NoVar => scope[s.val.var].fn # Unborn)
        BY DEF WalkStep
      <4>5. s.val \in Exprs /\ s.op \in {"declare", "assign"}
              => Assignable(prog[j].val, scope[prog[j].var].type)'
        BY <2>0, <4>1, <4>3, <4>4
      <4> QED
        BY <4>1, <4>2, <4>5 DEF WalkStep
    <3> QED
      BY <1>1, <3>1, <3>2
  <2> QED
    BY <2>1, <2>2 DEF Static
<1>6. Evident'
  <2> SUFFICES ASSUME NEW v \in Var, bindings'[v] # NoBinding
               PROVE  /\ bindings'[v].widenings # <<>> => bindings'[v].varType \in Iface
                      /\ ~bindings'[v].dropped =>
                           \A j \in DOMAIN prog' :
                             prog'[j].var = v /\ ~prog'[j].paren => Agrees(bindings[v], prog[j])'
    BY DEF Evident
  <2>1. bindings'[v].widenings # <<>> => bindings'[v].varType \in Iface
    BY DEF WalkStep, Fits, WellMade
  <2>2. ASSUME ~bindings'[v].dropped, NEW j \in DOMAIN prog', prog'[j].var = v,
               ~prog'[j].paren
        PROVE  Agrees(bindings[v], prog[j])'
    <3>1. CASE j \in DOMAIN prog
      <4>1. prog'[j] = prog[j] /\ prog[j].var = v /\ ~prog[j].paren
        BY <1>1, <2>2, <3>1
      <4>2. scope[v].fn # Unborn
        BY <3>1, <4>1, NamesAssumption DEF Static
      <4>3. bindings[v] # NoBinding /\ Keeps(bindings[v], bindings'[v])
        BY <4>2 DEF WalkStep, Fits
      <4>4. Agrees(bindings[v], prog[j]) /\ ~bindings[v].dropped
        BY <2>2, <3>1, <4>1, <4>3 DEF Evident, Keeps
      <4>6. prog[j].val \in Exprs /\ prog[j].val.var # NoVar => scope[prog[j].val.var].fn # Unborn
        BY <3>1 DEF Static
      <4>7. \A e \in Exprs : (e.var # NoVar => scope[e.var].fn # Unborn)
                             => SourceType(e)' = SourceType(e)
        BY TypesStable DEF WalkStep
      <4> QED
        BY <2>2, <4>1, <4>3, <4>4, <4>6, <4>7 DEF Agrees, Keeps
    <3>2. CASE j = Len(prog) + 1
      <4>1. prog'[j] = s /\ s.var = v /\ ~s.paren
        BY <1>1, <2>2, <3>2
      <4>2. /\ s.op \notin {"addr", "range"}
            /\ s.op \in {"declare", "assign"} => AgreesWith(bindings'[v], s.val)
        BY <2>2, <4>1 DEF WalkStep, Fits
      <4>3. s.val \in Exprs => SourceType(s.val)' = SourceType(s.val)
        BY TypesStable DEF WalkStep
      <4> QED
        BY <2>2, <4>1, <4>2, <4>3 DEF Agrees, AgreesWith
    <3> QED
      BY <1>1, <3>1, <3>2
  <2> QED
    BY <2>1, <2>2
<1>7. Quiet' /\ Pointed' /\ Reported' /\ Holds'
  BY <1>2 DEF Quiet, Pointed, Reported, Holds
<1> QED
  BY <1>4, <1>5, <1>6, <1>7
--------------------------------------------------------------------------------
(* Every action of the walk is such a step.                                *)
LEMMA VisibleBorn ==
  ASSUME NEW v \in Var, NEW fn \in Func \cup {Pkg}, Visible(v, fn)
  PROVE  scope[v].fn # Unborn
BY TypesAssumption, NamesAssumption DEF Visible

(* The variable that an operand mentions is declared before the operand.   *)
LEMMA ExprBorn ==
  ASSUME NEW e \in Exprs, NEW fn \in Func \cup {Pkg}, ExprOK(e, fn)
  PROVE  e.var # NoVar => scope[e.var].fn # Unborn
<1>1. e.var \in Var \cup {NoVar}
  BY ExprsAssumption
<1> QED
  BY <1>1, VisibleBorn DEF ExprOK

(* A statement whose bindings all fit before its identifiers are visited   *)
(* is a step of the walk.                                                  *)
LEMMA VisitStep ==
  ASSUME NEW s \in Stmt, NEW B, NEW names, NEW fn, Stable,
         Visit(s, Use(B, names, fn)),
         \A w \in Var : Fits(w, B[w], s),
         s.op \in {"declare", "assign", "range", "addr"} => s.var \in Var,
         s.op = "assert" => s.val \in Exprs,
         s.op = "range" => s.val = Spread,
         s.var # NoVar => scope'[s.var].fn # Unborn,
         s.val \in Exprs =>
           /\ s.val.var # NoVar => scope[s.val.var].fn # Unborn
           /\ s.op \in {"declare", "assign"} => Assignable(s.val, scope'[s.var].type)
  PROVE  WalkStep(s)
<1>1. bindings' = Use(B, names, fn)
  BY DEF Visit
<1>2. bindings' = [w \in Var |-> bindings'[w]]
  BY <1>1 DEF Use
<1>3. \A w \in Var : Fits(w, bindings'[w], s)
  BY <1>1, FitsUse
<1> QED
  BY <1>2, <1>3 DEF WalkStep, Visit

(* A declaration visits one statement: what declare collects is what the   *)
(* variable holds.                                                         *)
LEMMA DeclareSteps ==
  ASSUME IInv, NEW v \in Var, NEW fn \in Func \cup {Pkg}, NEW t \in DeclTypes,
         NEW val \in Exprs \cup {Zero, Spread}, Declare(v, fn, t, val)
  PROVE  \E s : WalkStep(s)
<1> DEFINE s == NewStmt("declare", v, fn, TRUE, val, Switch, FALSE)
           B == Declare1(bindings, v, fn, t, val, Pos)
<1>1. /\ scope[v].fn = Unborn
      /\ val \in Exprs => ExprOK(val, fn) /\ Assignable(val, t)
      /\ scope' = [scope EXCEPT ![v] = [fn |-> fn, type |-> t]]
      /\ Visit(s, Use(B, Idents(val), fn))
  BY DEF Declare
<1>2. /\ s \in Stmt /\ s.op = "declare" /\ s.var = v /\ s.val = val
  BY DEF NewStmt, Stmt
<1>3. t \in Type /\ prog \in Seq(Stmt) /\ Len(prog) \in Nat
  BY TypesAssumption DEF IInv, TypeOK
<1>4. Stable
  BY <1>1, <1>3 DEF Stable, IInv, TypeOK
<1>5. scope'[v] = [fn |-> fn, type |-> t] /\ scope'[v].fn # Unborn
  BY <1>1, NamesAssumption DEF IInv, TypeOK
<1>6. bindings[v] = NoBinding
  BY <1>1, NamesAssumption DEF IInv, Static
<1>7. ASSUME NEW w \in Var PROVE Fits(w, B[w], s)
  <2>1. CASE w # v
    <3>1. B[w] = bindings[w]
      BY <2>1 DEF Declare1, IInv, TypeOK
    <3> QED
      BY <2>1, <3>1, <1>2, <1>4, FitsSame DEF IInv
  <2>2. CASE w = v /\ fn = Pkg
    BY <2>2, <1>6 DEF Declare1, Fits
  <2>3. CASE w = v /\ fn # Pkg
    <3>1. B[w] = Take(NewBinding(fn, t), val, Len(prog) + 1)
      BY <2>3 DEF Declare1, Pos, IInv, TypeOK
    <3>2. /\ WellMade(NewBinding(fn, t), Len(prog))
          /\ NewBinding(fn, t).varType = t
      BY <1>3, <2>3, NewBindingWellMade
    <3>3. /\ WellMade(B[w], Len(prog) + 1)
          /\ Keeps(NewBinding(fn, t), B[w])
          /\ AgreesWith(B[w], val)
      BY <1>3, <3>1, <3>2, TakeKeeps DEF IInv
    <3> HIDE DEF B, s
    <3> QED
      BY <1>1, <1>2, <1>5, <1>6, <2>3, <3>2, <3>3 DEF Fits, Keeps
  <2> QED
    BY <2>1, <2>2, <2>3
<1>8. WalkStep(s)
  <2>1. val \in Exprs => (val.var # NoVar => scope[val.var].fn # Unborn)
    BY <1>1, ExprBorn
  <2>2. val \in Exprs => Assignable(val, scope'[v].type)
    BY <1>1, <1>5
  <2> HIDE DEF B, s
  <2> QED
    BY <1>1, <1>2, <1>4, <1>5, <1>7, <2>1, <2>2, VisitStep
<1> QED
  BY <1>8

(* An assignment visits one statement: it collects the type it stores, or  *)
(* drops the variable.                                                     *)
LEMMA AssignSteps ==
  ASSUME IInv, NEW v \in Var, NEW fn \in Func,
         NEW val \in Exprs \cup {Spread}, NEW p \in BOOLEAN, Assign(v, fn, val, p)
  PROVE  \E s : WalkStep(s)
<1> DEFINE s == NewStmt("assign", v, fn, FALSE, val, Switch, p)
           B == Assign1(bindings, v, val, Pos, p)
<1>1. /\ Visible(v, fn)
      /\ val \in Exprs => ExprOK(val, fn) /\ Assignable(val, scope[v].type)
      /\ scope' = scope
      /\ Visit(s, Use(B, {v} \cup Idents(val), fn))
  BY DEF Assign
<1>2. s \in Stmt /\ s.op = "assign" /\ s.var = v /\ s.val = val /\ s.paren = p
  BY DEF NewStmt, Stmt
<1>3. prog \in Seq(Stmt) /\ Len(prog) \in Nat
  BY DEF IInv, TypeOK
<1>4. Stable
  BY <1>1 DEF Stable, IInv, TypeOK
<1>5. scope[v].fn # Unborn
  BY <1>1, VisibleBorn
<1>7. ASSUME NEW w \in Var PROVE Fits(w, B[w], s)
  <2>1. CASE w # v
    <3>1. B[w] = bindings[w]
      BY <2>1 DEF Assign1, IInv, TypeOK
    <3> QED
      BY <2>1, <3>1, <1>2, <1>4, FitsSame DEF IInv
  <2>2. CASE w = v /\ bindings[v] = NoBinding
    BY <2>2 DEF Assign1, Fits
  <2>3. CASE w = v /\ bindings[v] # NoBinding /\ p = TRUE
    <3>1. B[w] = bindings[w]
      BY <2>3 DEF Assign1
    <3> QED
      BY <2>3, <3>1, <1>2, <1>4, FitsSame DEF IInv
  <2>4. CASE w = v /\ bindings[v] # NoBinding /\ p = FALSE
    <3>1. B[w] = Take(bindings[v], val, Len(prog) + 1)
      BY <2>4, <1>2 DEF Assign1, Pos, IInv, TypeOK
    <3>2. WellMade(bindings[v], Len(prog))
      BY <1>3, <2>4 DEF WellMade, IInv, TypeOK, Evident
    <3>3. /\ WellMade(B[w], Len(prog) + 1)
          /\ B[w] # NoBinding
          /\ Keeps(bindings[v], B[w])
          /\ AgreesWith(B[w], val)
      BY <1>3, <3>1, <3>2, TakeKeeps DEF IInv
    <3>4. scope[v].fn \in Func /\ bindings[v].varType = scope[v].type
      BY <2>4 DEF IInv, Static
    <3> HIDE DEF B, s
    <3> QED
      BY <1>1, <1>2, <2>4, <3>3, <3>4 DEF Fits, Keeps
  <2> QED
    BY <2>1, <2>2, <2>3, <2>4
<1>8. WalkStep(s)
  <2>1. val \in Exprs => (val.var # NoVar => scope[val.var].fn # Unborn)
    BY <1>1, ExprBorn
  <2> HIDE DEF B, s
  <2> QED
    BY <1>1, <1>2, <1>4, <1>5, <1>7, <2>1, VisitStep
<1> QED
  BY <1>8

(* A range clause or an address drops the binding of the variable it names. *)
LEMMA DropFits ==
  ASSUME IInv, Stable, NEW v \in Var, NEW s \in Stmt, s.var = v,
         s.op \in {"addr", "range"}, NEW w \in Var
  PROVE  Fits(w, Drop(bindings, v, s.paren)[w], s)
<1>0. s.paren \in BOOLEAN
  BY DEF Stmt
<1>1. CASE w # v \/ s.paren
  <2>1. Drop(bindings, v, s.paren)[w] = bindings[w]
    BY <1>1 DEF Drop, IInv, TypeOK
  <2> QED
    BY <1>1, <2>1, FitsSame DEF IInv
<1>2. CASE w = v /\ bindings[v] = NoBinding
  BY <1>2 DEF Drop, Fits
<1>3. CASE w = v /\ bindings[v] # NoBinding /\ ~s.paren
  <2>1. Drop(bindings, v, s.paren)[w] = Dropped(bindings[v])
    BY <1>3 DEF Drop, IInv, TypeOK
  <2>2. prog \in Seq(Stmt) /\ Len(prog) \in Nat /\ DOMAIN prog = 1..Len(prog)
    BY DEF IInv, TypeOK
  <2>3. WellMade(bindings[v], Len(prog) + 1)
    BY <1>3, <2>2 DEF WellMade, IInv, TypeOK, Evident
  <2>4. /\ WellMade(Dropped(bindings[v]), Len(prog) + 1)
        /\ Keeps(bindings[v], Dropped(bindings[v]))
        /\ Dropped(bindings[v]) # NoBinding /\ Dropped(bindings[v]).dropped
    BY <2>3, DroppedWellMade
  <2>5. /\ scope[v].fn \in Func /\ bindings[v].varType = scope[v].type
        /\ scope'[v] = scope[v]
    BY <1>3, NamesAssumption DEF IInv, Static, Stable
  <2> QED
    BY <1>3, <2>1, <2>4, <2>5 DEF Fits, Keeps
<1> QED
  BY <1>1, <1>2, <1>3

(* A range over an assigned name visits one statement, and drops the name. *)
LEMMA RangeSteps ==
  ASSUME IInv, NEW v \in Var, NEW fn \in Func, NEW p \in BOOLEAN,
         RangeOver(v, fn, p)
  PROVE  \E s : WalkStep(s)
<1> DEFINE s == NewStmt("range", v, fn, FALSE, Spread, Switch, p)
<1>1. /\ Visible(v, fn) /\ scope' = scope
      /\ Visit(s, Use(Drop(bindings, v, p), {v}, fn))
  BY DEF RangeOver
<1>2. s \in Stmt /\ s.op = "range" /\ s.var = v /\ s.paren = p /\ s.val = Spread /\ s.val \notin Exprs
  BY NamesAssumption DEF NewStmt, Stmt
<1>3. Stable /\ scope[v].fn # Unborn
  BY <1>1, VisibleBorn DEF Stable, IInv, TypeOK
<1> HIDE DEF s
<1>4. \A w \in Var : Fits(w, Drop(bindings, v, s.paren)[w], s)
  BY <1>2, <1>3, DropFits
<1>5. WalkStep(s)
  BY <1>1, <1>2, <1>3, <1>4, VisitStep
<1> QED
  BY <1>5

(* Taking an address visits one statement, and drops the variable.         *)
LEMMA AddressSteps ==
  ASSUME IInv, NEW v \in Var, NEW fn \in Func, NEW p \in BOOLEAN,
         AddressOf(v, fn, p)
  PROVE  \E s : WalkStep(s)
<1> DEFINE s == NewStmt("addr", v, fn, FALSE, Spread, Switch, p)
<1>1. /\ Visible(v, fn) /\ scope' = scope
      /\ Visit(s, Use(Drop(bindings, v, p), {v}, fn))
  BY DEF AddressOf
<1>2. s \in Stmt /\ s.op = "addr" /\ s.var = v /\ s.paren = p /\ s.val \notin Exprs
  BY NamesAssumption DEF NewStmt, Stmt
<1>3. Stable /\ scope[v].fn # Unborn
  BY <1>1, VisibleBorn DEF Stable, IInv, TypeOK
<1> HIDE DEF s
<1>4. \A w \in Var : Fits(w, Drop(bindings, v, s.paren)[w], s)
  BY <1>2, <1>3, DropFits
<1>5. WalkStep(s)
  BY <1>1, <1>2, <1>3, <1>4, VisitStep
<1> QED
  BY <1>5

(* A mention visits one statement, and writes nothing.                     *)
LEMMA MentionSteps ==
  ASSUME IInv, NEW v \in Var, NEW fn \in Func, Mention(v, fn)
  PROVE  \E s : WalkStep(s)
<1> DEFINE s == NewStmt("mention", v, fn, FALSE, Spread, Switch, FALSE)
<1>1. /\ Visible(v, fn) /\ scope' = scope
      /\ Visit(s, Use(bindings, {v}, fn))
  BY DEF Mention
<1>2. s \in Stmt /\ s.op = "mention" /\ s.var = v /\ s.val \notin Exprs
  BY NamesAssumption DEF NewStmt, Stmt
<1>3. Stable /\ scope[v].fn # Unborn
  BY <1>1, VisibleBorn DEF Stable, IInv, TypeOK
<1> HIDE DEF s
<1>4. \A w \in Var : Fits(w, bindings[w], s)
  BY <1>2, <1>3, FitsSame DEF IInv
<1>5. WalkStep(s)
  BY <1>1, <1>2, <1>3, <1>4, VisitStep
<1> QED
  BY <1>5

(* An assertion writes nothing and is attached to what is known of its     *)
(* operand.                                                                *)
LEMMA TypeAssertSteps ==
  ASSUME IInv, NEW e \in Exprs, NEW fn \in Func, NEW target \in Targets,
         TypeAssert(e, fn, target)
  PROVE  \E s : WalkStep(s)
<1> DEFINE s == NewStmt("assert", NoVar, fn, FALSE, e, target, FALSE)
           B == Attach(bindings, e, Pos)
<1>1. /\ ExprOK(e, fn) /\ scope' = scope
      /\ Visit(s, Use(B, Idents(e), fn))
  BY DEF TypeAssert
<1>2. s \in Stmt /\ s.op = "assert" /\ s.var = NoVar /\ s.val = e
  BY TypesAssumption DEF NewStmt, Stmt
<1>3. Stable /\ prog \in Seq(Stmt) /\ Len(prog) \in Nat
  BY <1>1 DEF Stable, IInv, TypeOK
<1>4. ASSUME NEW w \in Var PROVE Fits(w, B[w], s)
  <2>1. Fits(w, bindings[w], s)
    BY <1>2, <1>3, NamesAssumption, FitsSame DEF IInv
  <2>2. CASE B[w] = bindings[w]
    BY <2>1, <2>2
  <2>3. CASE bindings[w] # NoBinding
             /\ B[w] = [bindings[w] EXCEPT !.asserts = @ \cup {Pos}]
    <3> DEFINE b == bindings[w]
               c == [b EXCEPT !.asserts = @ \cup {Pos}]
    <3>1. b \in Binding /\ Pos \in Nat
      BY <2>3, <1>3 DEF IInv, TypeOK, Pos
    <3>2. /\ c \in Binding /\ c.widenings = b.widenings
          /\ c.dropped = b.dropped /\ c.varType = b.varType
      BY <3>1 DEF Binding
    <3>3. c # NoBinding
      BY <3>2, NamesAssumption DEF Binding, Widening
    <3> HIDE DEF c, s
    <3>4. WellMade(c, Len(prog) + 1)
      BY <2>1, <2>3, <3>2 DEF Fits, WellMade
    <3>5. B[w] = c
      BY <2>3 DEF c
    <3> HIDE DEF B
    <3> QED
      BY <1>2, <2>1, <2>3, <3>2, <3>3, <3>4, <3>5, NamesAssumption DEF Fits, Keeps
  <2>4. \/ B[w] = bindings[w]
        \/ bindings[w] # NoBinding /\ B[w] = [bindings[w] EXCEPT !.asserts = @ \cup {Pos}]
    BY DEF Attach, IInv, TypeOK
  <2> QED
    BY <2>2, <2>3, <2>4
<1>5. e.var # NoVar => scope[e.var].fn # Unborn
  BY <1>1, ExprBorn
<1> HIDE DEF B, s
<1>6. WalkStep(s)
  BY <1>1, <1>2, <1>3, <1>4, <1>5, VisitStep
<1> QED
  BY <1>6

(* Every step of the inspector visits one statement.                       *)
LEMMA WalkSteps ==
  ASSUME IInv, Walk
  PROVE  \E s : WalkStep(s)
<1>1. CASE \E v \in Var, fn \in Func \cup {Pkg}, t \in DeclTypes,
              val \in Exprs \cup {Zero, Spread} : Declare(v, fn, t, val)
  BY <1>1, DeclareSteps
<1>2. CASE \E v \in Var, fn \in Func, val \in Exprs \cup {Spread}, p \in BOOLEAN :
              Assign(v, fn, val, p)
  BY <1>2, AssignSteps
<1>3. CASE \E v \in Var, fn \in Func, p \in BOOLEAN : RangeOver(v, fn, p)
  BY <1>3, RangeSteps
<1>4. CASE \E v \in Var, fn \in Func, p \in BOOLEAN : AddressOf(v, fn, p)
  BY <1>4, AddressSteps
<1>5. CASE \E v \in Var, fn \in Func : Mention(v, fn)
  BY <1>5, MentionSteps
<1>6. CASE \E e \in Exprs, fn \in Func, target \in Targets : TypeAssert(e, fn, target)
  BY <1>6, TypeAssertSteps
<1> QED
  BY <1>1, <1>2, <1>3, <1>4, <1>5, <1>6 DEF Walk, WalkOver

(* So every step of the inspector keeps the invariant.                     *)
LEMMA WalkInv ==
  ASSUME IInv, Walk
  PROVE  IInv'
BY WalkSteps, WalkStepInv
--------------------------------------------------------------------------------
(* The walk ends, and the program runs.                                    *)

(* What is said of the file stays true while the file does.                *)
LEMMA FileStays ==
  ASSUME Static, Evident, UNCHANGED fileVars
  PROVE  Static' /\ Evident'
<1>1. prog' = prog /\ scope' = scope /\ bindings' = bindings
  BY DEF fileVars
<1>2. Static'
  BY <1>1 DEF Static, Assignable, TypeOf, BaseType, TypeAt, Implements
<1>3. \A e \in Exprs : SourceType(e)' = SourceType(e)
  <2> TAKE e \in Exprs
  <2>1. BaseType(e)' = BaseType(e)
    BY <1>1 DEF BaseType
  <2> QED BY <2>1 DEF SourceType
<1>4. Evident'
  BY <1>1, <1>3 DEF Evident, Agrees
<1> QED
  BY <1>2, <1>4

(* The end of the walk keeps the invariant: the reports are those of the   *)
(* collected bindings.                                                     *)
LEMMA FinishInv ==
  ASSUME IInv, NEW g \in BOOLEAN, Finish(g)
  PROVE  IInv'
<1>1. /\ phase = "walk" /\ phase' = "run" /\ generated' = g
      /\ prog' = prog /\ scope' = scope /\ bindings' = bindings
      /\ heap' = heap /\ aliased' = aliased
      /\ reports' = IF g THEN {} ELSE AllReports
  BY DEF Finish
<1>2. /\ heap = [v \in Var |-> Unset] /\ aliased = {}
  BY <1>1 DEF IInv, Quiet
<1>3. prog \in Seq(Stmt) /\ DOMAIN prog \subseteq Nat
  BY DEF IInv, TypeOK
<1>4. \A r \in ChainReports : r \in Report /\ r.shape = "chain"
  <2>1. ASSUME NEW i \in DOMAIN prog, TakesBack(i)
        PROVE  SourceType(prog[i].val) \in Type
    <3>1. prog[i].val \in Exprs
      BY <2>1 DEF TakesBack, IInv, Static
    <3> QED
      BY <3>1, ExprTypes DEF IInv
  <2> QED
    BY <1>3, <2>1 DEF ChainReports, Report
<1>5. ASSUME NEW v \in Var, Laundered(v), NEW r \in BindingReportsOf(v)
      PROVE  /\ r \in Report /\ r.shape = "binding" /\ r.var = v
             /\ r.from = bindings[v].widenings[1].from
  <2>1. /\ bindings[v] \in Binding /\ bindings[v].widenings # <<>>
    BY <1>5 DEF Laundered, IInv, TypeOK
  <2>2. bindings[v].widenings \in Seq(Widening)
    BY <2>1 DEF Binding
  <2>3. bindings[v].widenings[1] \in Widening
    BY <2>1, <2>2, EmptySeq, ElementOfSeq
  <2> QED
    BY <1>3, <2>3 DEF BindingReportsOf, Report, Widening
<1>6. \A r \in reports' :
        /\ r \in Report
        /\ r.shape = "binding" => /\ r.var \in Var /\ Laundered(r.var)
                                 /\ r.from = bindings[r.var].widenings[1].from
  BY <1>1, <1>4, <1>5 DEF AllReports
<1>7. TypeOK'
  BY <1>1, <1>6 DEF IInv, TypeOK, Values
<1>8. Static' /\ Evident'
  BY <1>1, FileStays DEF IInv, fileVars
<1>9. Reported'
  BY <1>1, <1>6 DEF Reported, Laundered
<1>10. Quiet' /\ Pointed'
  BY <1>1, <1>2 DEF Quiet, Pointed
<1>11. Holds'
  BY <1>1, <1>2 DEF Holds, Laundered
<1> QED
  BY <1>7, <1>8, <1>9, <1>10, <1>11 DEF IInv

(* A set of numbers that is not empty has a least one.                     *)
LEMMA LeastNumber ==
  ASSUME NEW S, S \subseteq Nat, S # {}
  PROVE  \E m \in S : \A n \in S : m <= n
<1> DEFINE R == OpToRel(<, Nat)
<1>1. IsWellFoundedOn(R, Nat)
  BY NatLessThanWellFounded
<1> HIDE DEF R
<1>2. PICK m \in S : \A n \in S : <<n, m>> \notin R
  BY <1>1, WFMin
<1>3. \A n \in S : ~(n < m)
  BY <1>2 DEF R, OpToRel
<1> QED
  BY <1>2, <1>3

(* source() follows exactly the widening steps at the end of an expression. *)
LEMMA SourceEnds ==
  ASSUME NEW t, NEW e \in Exprs
  PROVE  /\ SourceLen(t, e) \in 0..Len(e.steps)
         /\ \A j \in (SourceLen(t, e) + 1)..Len(e.steps) : WideningStep(t, e, j)
<1>1. Len(e.steps) \in Nat
  BY ExprsAssumption
<1> DEFINE S == {k \in 0..Len(e.steps) :
                   \A j \in (k + 1)..Len(e.steps) : WideningStep(t, e, j)}
<1>2. Len(e.steps) \in S /\ S \subseteq Nat
  BY <1>1
<1>3. PICK m \in S : \A n \in S : m <= n
  <2> HIDE DEF S
  <2> QED
    BY <1>2, LeastNumber
<1>4. m = 0 \/ ~WideningStep(t, e, m)
  <2>1. SUFFICES ASSUME m # 0, WideningStep(t, e, m) PROVE FALSE
    OBVIOUS
  <2>2. m - 1 \in 0..Len(e.steps) /\ m \in Nat
    BY <1>1, <2>1
  <2>3. ASSUME NEW j \in ((m - 1) + 1)..Len(e.steps) PROVE WideningStep(t, e, j)
    <3>1. j = m \/ j \in (m + 1)..Len(e.steps)
      BY <1>1, <2>2
    <3> QED
      BY <2>1, <3>1
  <2>4. m - 1 \in S
    BY <2>2, <2>3
  <2> HIDE DEF S
  <2>5. m <= m - 1
    BY <1>3, <2>4
  <2> QED
    BY <2>2, <2>5
<1>5. \E k \in 0..Len(e.steps) :
        /\ \A j \in (k + 1)..Len(e.steps) : WideningStep(t, e, j)
        /\ k = 0 \/ ~WideningStep(t, e, k)
  BY <1>3, <1>4
<1> QED
  BY <1>5 DEF SourceLen

(* A value of an expression is a value of its static type and, unless it   *)
(* has been turned into a type parameter, of the type of its source: the   *)
(* steps that source() follows move the value and nothing else.            *)
LEMMA EvalTyped ==
  ASSUME TypeOK, NEW e \in Exprs, NEW d \in Eval(e)
  PROVE  /\ d \in Values(TypeOf(e))
         /\ ~ThroughParam(e) => d \in Values(SourceType(e))
<1> DEFINE N == Len(e.steps)
           t == BaseType(e)
           k0 == SourceLen(BaseType(e), e)
<1>1. /\ e.var \in Var \cup {NoVar} /\ e.type \in Type /\ N \in Nat
      /\ e.steps \in Seq([to : Iface, how : {"conv", "assert"}])
  <2>1. /\ e.var \in Var \cup {NoVar} /\ e.type \in Type
        /\ e.steps \in Seq([to : Iface, how : {"conv", "assert"}])
    BY ExprsAssumption
  <2> QED
    BY <2>1
<1>2. PICK c \in [0..N -> Dyn \cup {Nil}] :
        /\ c[0] \in BaseValues(e) /\ d = c[N]
        /\ \A k \in 1..N : Becomes(c[k - 1], e.steps[k], c[k])
  <2> DEFINE Courses == {c \in [0..N -> Dyn \cup {Nil}] :
                           /\ c[0] \in BaseValues(e)
                           /\ \A k \in 1..N : Becomes(c[k - 1], e.steps[k], c[k])}
  <2>1. Eval(e) = {c[N] : c \in Courses}
    BY DEF Eval
  <2>2. PICK c \in Courses : d = c[N]
    BY <2>1
  <2> QED
    BY <2>2
<1>3. BaseValues(e) \subseteq Values(t)
  BY <1>1 DEF BaseValues, BaseType, TypeOK
<1>4. k0 \in 0..N /\ TypeOf(e) = TypeAt(t, e, N) /\ SourceType(e) = TypeAt(t, e, k0)
  BY SourceEnds DEF TypeOf, SourceType
<1>5. ~ThroughParam(e) => \A k \in (k0 + 1)..N : e.steps[k].to \notin TypeParam
  BY DEF ThroughParam
<1> HIDE DEF N, t, k0
<1>6. ASSUME NEW k \in 0..N
      PROVE  c[k] \in Values(TypeAt(t, e, k))
  <2>1. CASE k = 0
    BY <1>1, <1>2, <1>3, <2>1 DEF TypeAt
  <2>2. CASE k \in 1..N
    <3>1. e.steps[k] \in [to : Iface, how : {"conv", "assert"}]
      BY <1>1, <2>2, ElementOfSeq DEF N
    <3>2. TypeAt(t, e, k) = e.steps[k].to /\ e.steps[k].to \in Iface
      BY <2>2, <3>1 DEF TypeAt, N
    <3>3. c[k] \in Inst[e.steps[k].to] \cup {Nil}
      BY <1>2, <2>2 DEF Becomes
    <3> QED
      BY <3>2, <3>3 DEF Values
  <2> QED
    BY <1>1, <2>1, <2>2
<1>7. ASSUME ~ThroughParam(e) PROVE c[N] = c[k0]
  <2> DEFINE Moved == {n \in Nat : k0 + n <= N /\ c[k0 + n] # c[k0]}
  <2>1. SUFFICES ASSUME Moved # {} PROVE FALSE
    <3>1. N - k0 \in Nat /\ k0 + (N - k0) = N /\ N <= N
      BY <1>1, <1>4 DEF N
    <3>2. N - k0 \notin Moved
      BY <2>1
    <3> QED
      BY <3>1, <3>2
  <2>2. PICK m \in Moved : \A n \in Moved : m <= n
    <3>1. Moved \subseteq Nat
      OBVIOUS
    <3> HIDE DEF Moved
    <3> QED
      BY <2>1, <3>1, LeastNumber
  <2>3. m # 0
    BY <1>4, <2>2
  <2>4. PICK j : j = k0 + m
    OBVIOUS
  <2>5. /\ m - 1 \in Nat /\ j \in (k0 + 1)..N /\ j \in 1..N
        /\ j - 1 = k0 + (m - 1) /\ j - 1 <= N
    BY <1>1, <1>4, <2>2, <2>3, <2>4
  <2>6. c[j - 1] = c[k0]
    <3>1. m - 1 \notin Moved
      BY <2>2, <2>5
    <3> QED
      BY <2>5, <3>1
  <2>7. c[j] = c[j - 1]
    BY <1>2, <1>5, <1>7, <2>5 DEF Becomes
  <2> QED
    BY <2>2, <2>4, <2>6, <2>7
<1> QED
  BY <1>1, <1>2, <1>4, <1>6, <1>7

(* What a statement stores is a value of the type of the variable.         *)
LEMMA ResultsTyped ==
  ASSUME IInv, NEW i \in DOMAIN prog, prog[i].op \in {"declare", "assign", "range"},
         NEW d \in Results(prog[i].var, prog[i].val)
  PROVE  d \in Values(scope[prog[i].var].type)
<1> DEFINE t == scope[prog[i].var].type
<1>1. prog[i].var \in Var /\ t \in Type /\ prog[i] \in Stmt
  BY DEF IInv, Static, TypeOK
<1>2. CASE prog[i].val = Zero
  BY <1>2 DEF Results, ZeroValues, Values
<1>3. CASE prog[i].val = Spread
  BY <1>3, NamesAssumption DEF Results
<1>4. CASE prog[i].val \in Exprs
  <2>1. d \in Eval(prog[i].val)
    BY <1>4, NamesAssumption DEF Results
  <2>2. d \in Values(TypeOf(prog[i].val)) /\ TypeOf(prog[i].val) \in Type
    BY <1>4, <2>1, EvalTyped, ExprTypes DEF IInv
  <2>3. Assignable(prog[i].val, t)
    BY <1>4, NamesAssumption DEF IInv, Static
  <2>4. CASE TypeOf(prog[i].val) = t
    BY <2>2, <2>4
  <2>5. CASE t \in Iface \ TypeParam /\ Implements(TypeOf(prog[i].val), t)
    <3>1. Inst[TypeOf(prog[i].val)] \subseteq Inst[t]
      BY <2>2, <2>5, InstAssumption DEF Implements
    <3> QED
      BY <2>2, <2>5, <3>1 DEF Values
  <2> QED
    BY <2>3, <2>4, <2>5 DEF Assignable
<1> QED
  BY <1>1, <1>2, <1>3, <1>4 DEF Stmt

(* Which variables are filled through a type parameter is read off the     *)
(* file alone.                                                             *)
LEMMA FilledStays ==
  ASSUME UNCHANGED fileVars
  PROVE  /\ \A e : ThroughParam(e)' = ThroughParam(e)
         /\ \A v : FilledThroughParam(v)' = FilledThroughParam(v)
<1>1. prog' = prog /\ scope' = scope
  BY DEF fileVars
<1>2. ASSUME NEW e PROVE ThroughParam(e)' = ThroughParam(e)
  <2>1. BaseType(e)' = BaseType(e)
    BY <1>1 DEF BaseType
  <2> QED BY <2>1 DEF ThroughParam
<1>3. \A v : WritesTo(v)' = WritesTo(v)
  BY <1>1 DEF WritesTo
<1> QED
  BY <1>1, <1>2, <1>3 DEF FilledThroughParam

(* An assignment that the program executes keeps the invariant: what it    *)
(* stores is of the one type that the binding holds.                       *)
LEMMA StoreInv ==
  ASSUME IInv, NEW i \in DOMAIN prog, Store(i)
  PROVE  IInv'
<1>1. /\ phase = "run" /\ prog[i].op \in {"declare", "assign", "range"}
      /\ UNCHANGED <<phase, fileVars, generated, reports>>
      /\ aliased' \subseteq aliased
  BY DEF Store, Running
<1>2. PICK d \in Results(prog[i].var, prog[i].val) :
        heap' = [heap EXCEPT ![prog[i].var] = d]
  BY DEF Store
<1>3. prog[i].var \in Var /\ prog[i] \in Stmt
  BY <1>1 DEF IInv, Static, TypeOK
<1>4. d \in Values(scope[prog[i].var].type)
  BY <1>1, ResultsTyped
<1>5. \A v \in Var : heap'[v] = IF v = prog[i].var THEN d ELSE heap[v]
  BY <1>2 DEF IInv, TypeOK
<1>6. TypeOK'
  <2>1. d \in Dyn \cup {Nil}
    BY <1>3, <1>4, TypesAssumption DEF Values, IInv, TypeOK
  <2>2. heap' \in [Var -> Dyn \cup {Nil, Unset}]
    BY <1>2, <2>1 DEF IInv, TypeOK
  <2> QED
    BY <1>1, <1>4, <1>5, <2>2 DEF IInv, TypeOK, fileVars, Values
<1>7. Static' /\ Evident'
  BY <1>1, FileStays DEF IInv
<1>8. Quiet' /\ Pointed' /\ Reported'
  BY <1>1 DEF IInv, Quiet, Pointed, Reported, Laundered, fileVars
<1>9. Holds'
  <2> SUFFICES ASSUME NEW v \in Var, Laundered(v), ~Parenthesised(v), ~FilledThroughParam(v)
               PROVE  heap'[v] \in Inst[bindings[v].widenings[1].from] \cup {Nil, Unset}
    BY <1>1, FilledStays DEF Holds, Laundered, Parenthesised, fileVars
  <2>1. CASE v # prog[i].var
    BY <1>5, <2>1 DEF IInv, Holds
  <2>2. CASE v = prog[i].var
    <3>1. /\ bindings[v] # NoBinding /\ ~bindings[v].dropped
          /\ bindings[v].widenings # <<>> /\ bindings[v] \in Binding
      BY DEF Laundered, IInv, TypeOK
    <3>2. /\ Agrees(bindings[v], prog[i])
          /\ bindings[v].varType \in Iface /\ bindings[v].varType = scope[v].type
      BY <2>2, <3>1 DEF IInv, Evident, Static, Parenthesised
    <3>3. bindings[v].widenings[1].from \in Type \ Iface
      <4>1. bindings[v].widenings \in Seq(Widening)
        BY <3>1 DEF Binding
      <4>2. 1 \in DOMAIN bindings[v].widenings
        BY <3>1, <4>1, EmptySeq
      <4> QED
        BY <3>1, <4>2 DEF IInv, TypeOK
    <3>4. CASE prog[i].val = Zero
      <4>1. Results(v, Zero) = ZeroValues(scope[v].type)
        BY NamesAssumption DEF Results
      <4>2. ZeroValues(scope[v].type) = {Nil}
        BY <3>2 DEF ZeroValues
      <4>3. d \in Results(v, Zero)
        BY <1>2, <2>2, <3>4
      <4> QED
        BY <1>5, <2>2, <4>1, <4>2, <4>3
    <3>5. CASE prog[i].val # Zero
      <4>1. /\ prog[i].val \in Exprs
            /\ SourceType(prog[i].val) = bindings[v].widenings[1].from
        BY <1>1, <3>2, <3>5 DEF Agrees
      <4>2. ~ThroughParam(prog[i].val)
        BY <1>1, <2>2, <3>5, <4>1 DEF FilledThroughParam, WritesTo
      <4>3. d \in Eval(prog[i].val)
        BY <4>1, NamesAssumption DEF Results
      <4>4. d \in Values(bindings[v].widenings[1].from)
        BY <4>1, <4>2, <4>3, EvalTyped DEF IInv
      <4> QED
        BY <1>5, <2>2, <4>4 DEF Values
    <3> QED
      BY <3>4, <3>5
  <2> QED
    BY <2>1, <2>2
<1> QED
  BY <1>6, <1>7, <1>8, <1>9 DEF IInv

(* The execution of &v keeps the invariant: the binding of v is dropped.   *)
LEMMA TakeAddressInv ==
  ASSUME IInv, NEW i \in DOMAIN prog, TakeAddress(i)
  PROVE  IInv'
<1>1. /\ phase = "run" /\ prog[i].op = "addr"
      /\ UNCHANGED <<phase, fileVars, generated, reports, heap>>
      /\ aliased' = aliased \cup {prog[i].var}
  BY DEF TakeAddress, Running
<1>2. prog[i].var \in Var
  BY <1>1 DEF IInv, Static
<1>3. TypeOK'
  BY <1>1, <1>2 DEF IInv, TypeOK, fileVars, Values
<1>4. Static' /\ Evident'
  BY <1>1, FileStays DEF IInv
<1>5. Quiet' /\ Pointed' /\ Reported' /\ Holds'
  BY <1>1, FilledStays DEF IInv, Quiet, Pointed, Reported, Holds, Laundered, Parenthesised, fileVars
<1> QED
  BY <1>3, <1>4, <1>5 DEF IInv

(* No pointer, and no other function, reaches a variable that a report     *)
(* of the binding shape names.                                             *)
LEMMA ForeignWriteInv ==
  ASSUME IInv, NEW v \in Var, ForeignWrite(v)
  PROVE  IInv'
<1>1. /\ phase = "run"
      /\ v \in aliased \/ scope[v].fn = Pkg
      /\ UNCHANGED <<phase, fileVars, generated, reports, aliased>>
  BY DEF ForeignWrite, Running
<1>2. PICK d \in Values(scope[v].type) : heap' = [heap EXCEPT ![v] = d]
  BY DEF ForeignWrite
<1>3. \A w \in Var : heap'[w] = IF w = v THEN d ELSE heap[w]
  BY <1>2 DEF IInv, TypeOK
<1>4. ~(Laundered(v) /\ ~Parenthesised(v))
  <2>1. CASE v \in aliased
    BY <2>1 DEF Laundered, IInv, Pointed, Evident, Agrees, Parenthesised
  <2>2. CASE scope[v].fn = Pkg
    BY <2>2, NamesAssumption DEF Laundered, IInv, Static
  <2> QED
    BY <1>1, <2>1, <2>2
<1>5. TypeOK'
  <2>1. d \in Dyn \cup {Nil}
    BY <1>2, TypesAssumption DEF Values, IInv, TypeOK
  <2>2. heap' \in [Var -> Dyn \cup {Nil, Unset}]
    BY <1>2, <2>1 DEF IInv, TypeOK
  <2> QED
    BY <1>1, <1>3, <2>2 DEF IInv, TypeOK, fileVars, Values
<1>6. Static' /\ Evident'
  BY <1>1, FileStays DEF IInv
<1>7. Quiet' /\ Pointed' /\ Reported'
  <2>1. phase' = "run" /\ prog' = prog /\ bindings' = bindings
        /\ reports' = reports /\ aliased' = aliased
    BY <1>1 DEF fileVars
  <2>2. Quiet' /\ Pointed'
    BY <2>1 DEF IInv, Quiet, Pointed
  <2>3. Reported'
    BY <2>1 DEF IInv, Reported, Laundered
  <2> QED
    BY <2>2, <2>3
<1>8. Holds'
  <2> SUFFICES ASSUME NEW w \in Var, Laundered(w), ~Parenthesised(w), ~FilledThroughParam(w)
               PROVE  heap'[w] \in Inst[bindings[w].widenings[1].from] \cup {Nil, Unset}
    BY <1>1, FilledStays DEF Holds, Laundered, Parenthesised, fileVars
  <2>1. heap'[w] = heap[w]
    BY <1>3, <1>4
  <2> QED
    BY <2>1 DEF IInv, Holds
<1> QED
  BY <1>5, <1>6, <1>7, <1>8 DEF IInv
--------------------------------------------------------------------------------
(* An untouched file satisfies the invariant.                              *)
LEMMA InitInv == Init => IInv
<1> SUFFICES ASSUME Init PROVE IInv
  OBVIOUS
<1>1. TypeOK
  <2>1. <<>> \in Seq(Stmt)
    BY EmptySeq
  <2>2. UntypedNil \in Type
    BY TypesAssumption
  <2> QED
    BY <2>1, <2>2 DEF Init, TypeOK
<1>2. Static /\ Quiet /\ Evident /\ Pointed /\ Reported /\ Holds
  BY DEF Init, Static, Quiet, Evident, Pointed, Reported, Holds, Laundered
<1> QED
  BY <1>1, <1>2 DEF IInv

(* Every step of the walk and of the program keeps the invariant.          *)
LEMMA NextInv ==
  ASSUME IInv, [Next]_vars
  PROVE  IInv'
<1>1. CASE Walk
  BY <1>1, WalkInv
<1>2. CASE \E g \in BOOLEAN : Finish(g)
  BY <1>2, FinishInv
<1>3. CASE Run
  BY <1>3, StoreInv, TakeAddressInv, ForeignWriteInv DEF Run
<1>4. CASE UNCHANGED vars
  <2>1. Static' /\ Evident'
    BY <1>4, FileStays DEF IInv, vars, fileVars
  <2>2. UNCHANGED fileVars
    BY <1>4 DEF vars, fileVars
  <2>3. TypeOK' /\ Quiet' /\ Pointed' /\ Reported'
    BY <1>4 DEF IInv, TypeOK, Quiet, Pointed, Reported, Laundered, Values, vars
  <2>4. Holds'
    BY <1>4, <2>2, FilledStays DEF IInv, Holds, Laundered, Parenthesised, vars
  <2> QED
    BY <2>1, <2>3, <2>4 DEF IInv
<1> QED
  BY <1>1, <1>2, <1>3, <1>4 DEF Next

(* The inductive invariant holds in every file.                            *)
THEOREM Invariant == Spec => []IInv
<1>1. Init => IInv
  BY InitInv
<1>2. IInv /\ [Next]_vars => IInv'
  BY NextInv
<1> QED
  BY <1>1, <1>2, PTL DEF Spec

(* Type correctness of the walk, of the reports and of the program: the    *)
(* collector records concrete types only, at positions of the file, and    *)
(* the compiler's checks keep every variable to the values of its type.    *)
THEOREM TypeCorrect == Spec => []TypeOK
<1>1. IInv => TypeOK
  BY DEF IInv
<1> QED
  BY <1>1, Invariant, PTL

(* A report of the binding shape is right about the program, for any file  *)
(* of any length over any types, unless it names a variable that an        *)
(* assignment or an & names in parentheses or one that takes a value which *)
(* has been turned into a type parameter.                                  *)
THEOREM BindingSound == Spec => []Sound
<1>1. IInv => Sound
  BY DEF IInv, Sound, Reported, Holds
<1> QED
  BY <1>1, Invariant, PTL
--------------------------------------------------------------------------------
(* The tracker implements the ledger of evidence.                          *)

(* What the collector knows of a variable is nothing, a type, or open.     *)
LEMMA KnownTyped == TypeOK => \A v \in Var : Known(v) \in Type \cup {"nothing", "open"}
<1> SUFFICES ASSUME TypeOK, NEW v \in Var
             PROVE  Known(v) \in Type \cup {"nothing", "open"}
  OBVIOUS
<1>1. CASE bindings[v] = NoBinding
  BY <1>1 DEF Known
<1>2. CASE bindings[v] # NoBinding
  <2>1. bindings[v].widenings \in Seq(Widening) /\ bindings[v].dropped \in BOOLEAN
    BY <1>2 DEF TypeOK, Binding
  <2>2. bindings[v].widenings # <<>> => bindings[v].widenings[1].from \in Type
    <3>1. bindings[v].widenings # <<>> => bindings[v].widenings[1] \in Widening
      BY <2>1, EmptySeq, ElementOfSeq
    <3> QED
      BY <3>1 DEF Widening
  <2> QED
    BY <1>2, <2>1, <2>2 DEF Known
<1> QED
  BY <1>1, <1>2

(* A statement adds evidence or opens the variable.                        *)
LEMMA KnownGrows ==
  ASSUME IInv, NEW s, WalkStep(s), NEW v \in Var
  PROVE  Known(v)' = Known(v) \/ Known(v) = "nothing" \/ Known(v)' = "open"
<1>1. Fits(v, bindings'[v], s)
  BY DEF WalkStep
<1>2. CASE bindings[v] = NoBinding
  BY <1>2 DEF Known
<1>3. CASE bindings[v] # NoBinding
  <2>1. bindings'[v] # NoBinding /\ Keeps(bindings[v], bindings'[v])
    BY <1>1, <1>3 DEF Fits
  <2> QED
    BY <1>3, <2>1 DEF Known, Keeps
<1> QED
  BY <1>2, <1>3

(* The abstract variables of a state that has the same bindings, phase and *)
(* reports.                                                                *)
LEMMA LedgerStays ==
  ASSUME UNCHANGED <<bindings, phase, reports>>
  PROVE  UNCHANGED Ledger!vars
<1>1. \A v \in Var : Known(v)' = Known(v)
  BY DEF Known
<1>2. [v \in Var |-> Known(v)]' = [v \in Var |-> Known(v)]
  BY <1>1
<1> QED
  BY <1>2 DEF Ledger!vars

LEMMA LedgerInit == Init => Ledger!Init
  BY DEF Init, Ledger!Init, Known

LEMMA LedgerObserve ==
  ASSUME IInv, IInv', NEW s, WalkStep(s)
  PROVE  Ledger!Observe
<1>1. phase = "walk" /\ phase' = phase /\ reports' = reports
  BY DEF WalkStep
<1>2. [v \in Var |-> Known(v)]' \in [Var -> Type \cup {"nothing", "open"}]
  <2>1. TypeOK' => (\A v \in Var : Known(v) \in Type \cup {"nothing", "open"})'
    BY KnownTyped, PTL
  <2> QED
    BY <2>1 DEF IInv
<1>3. \A v \in Var : Known(v)' = Known(v) \/ Known(v) = "nothing" \/ Known(v)' = "open"
  BY KnownGrows
<1> QED
  BY <1>1, <1>2, <1>3 DEF Ledger!Observe, Ledger!Grows

LEMMA LedgerDecide ==
  ASSUME IInv, IInv', NEW g \in BOOLEAN, Finish(g)
  PROVE  Ledger!Decide
<1>1. phase = "walk" /\ phase' = "run" /\ bindings' = bindings
  BY DEF Finish
<1>2. \A v \in Var : Known(v)' = Known(v)
  BY <1>1 DEF Known
<1>3. ASSUME NEW r \in reports', r.shape = "binding"
      PROVE  r.var \in Var /\ r.from \in Type /\ Known(r.var) = r.from
  <2>1. /\ r.var \in Var /\ r \in Report
        /\ bindings'[r.var] # NoBinding /\ ~bindings'[r.var].dropped
        /\ bindings'[r.var].widenings # <<>>
        /\ r.from = bindings'[r.var].widenings[1].from
    BY <1>3 DEF IInv, TypeOK, Reported, Laundered
  <2> QED
    BY <1>1, <2>1 DEF Known, Report
<1>4. {<<r.var, r.from>> : r \in {q \in reports : q.shape = "binding"}}'
        \subseteq {p \in Var \X Type : [v \in Var |-> Known(v)][p[1]] = p[2]}
  BY <1>3
<1>5. [v \in Var |-> Known(v)]' = [v \in Var |-> Known(v)]
  BY <1>2
<1> QED
  BY <1>1, <1>4, <1>5 DEF Ledger!Decide

(* Every step of the tracker, the rest of the file and the run of the      *)
(* program after it, is one of the ledger or leaves the ledger alone.      *)
LEMMA LedgerNext ==
  ASSUME IInv, [Next]_vars
  PROVE  [Ledger!Next]_(Ledger!vars)
<1>1. IInv'
  BY NextInv
<1>2. CASE Walk
  BY <1>1, <1>2, WalkSteps, LedgerObserve DEF Ledger!Next
<1>3. CASE \E g \in BOOLEAN : Finish(g)
  BY <1>1, <1>3, LedgerDecide DEF Ledger!Next
<1>4. CASE Run
  BY <1>4, LedgerStays DEF Run, Store, TakeAddress, ForeignWrite, fileVars
<1>5. CASE UNCHANGED vars
  BY <1>5, LedgerStays DEF vars
<1> QED
  BY <1>2, <1>3, <1>4, <1>5 DEF Next

(* The collector, with its bindings, drops and order of the statements,    *)
(* implements the accumulation of evidence of module Evidence.             *)
THEOREM RefinesEvidence == Spec => ImplementsEvidence
<1>1. Init => Ledger!Init
  BY LedgerInit
<1>2. IInv /\ [Next]_vars => [Ledger!Next]_(Ledger!vars)
  BY LedgerNext
<1>3. Spec => []IInv
  BY Invariant
<1> QED
  BY <1>1, <1>2, <1>3, PTL DEF Spec, ImplementsEvidence, Ledger!Spec
--------------------------------------------------------------------------------
(* The reports of the binding shape are those of the documented rule: what *)
(* the collector has in its book for a variable is what the file, read as  *)
(* a whole, says of it.                                                    *)

(* Every statement that names w is in the function f, and none of them     *)
(* takes its address.                                                      *)
Clean(w, f) ==
  \A j \in DOMAIN prog : NamesVar(j, w) => prog[j].op # "addr" /\ prog[j].fn = f

(* Every value that w takes is of the type t.                              *)
AllOf(w, t) ==
  \A j \in WritesTo(w) : prog[j].val \in Exprs /\ SourceType(prog[j].val) = t

(* The assertions whose source is w.                                       *)
AssertsOn(w) ==
  {j \in DOMAIN prog : prog[j].op = "assert" /\ SourceVar(prog[j].val) = w}

(* Nothing in the file so far keeps w, declared as d, from hiding t.       *)
Could(w, t, d) ==
  StrictlyBroader(d.type, t) /\ t \notin Iface /\ AllOf(w, t) /\ Clean(w, d.fn)

(* The binding b is a true account of the variable w, declared as d.       *)
Account(b, w, d) ==
  /\ b.asserts = AssertsOn(w)
  /\ b.dropped => \A t \in Type : ~Could(w, t, d)
  /\ ~b.dropped =>
       /\ Clean(w, d.fn)
       /\ b.widenings = <<>> => WritesTo(w) = {}
       /\ b.widenings # <<>> =>
            /\ Could(w, b.widenings[1].from, d)
            /\ b.widenings[1].pos \in WritesTo(w)
            /\ \A j \in WritesTo(w) : b.widenings[1].pos <= j

Books ==
  \A w \in Var :
    /\ bindings[w] # NoBinding <=> scope[w].fn \in Func
    /\ bindings[w] # NoBinding =>
         /\ bindings[w].declFunc = scope[w].fn
         /\ ~Parenthesised(w) => Account(bindings[w], w, scope[w])

(* How the statement s changes the binding of w: a declaration makes one,  *)
(* s does with it what its kind does, unless the name is in parentheses,   *)
(* and use() drops it when s is of another function.                       *)
Base(w) ==
  IF scope[w].fn = Unborn /\ scope'[w].fn \in Func
  THEN NewBinding(scope'[w].fn, scope'[w].type)
  ELSE bindings[w]

NamedIn(s, w) == s.var = w \/ (s.val \in Exprs /\ s.val.var = w)

Handled(b, w, s) ==
  CASE s.var = w /\ ~s.paren /\ s.op \in {"declare", "assign"} ->
         Take(b, s.val, Len(prog) + 1)
    [] s.var = w /\ ~s.paren /\ s.op \in {"range", "addr"} -> Dropped(b)
    [] s.op = "assert" /\ SourceVar(s.val) = w     -> [b EXCEPT !.asserts = @ \cup {Len(prog) + 1}]
    [] OTHER                                       -> b

Used(c, w, s) == IF NamedIn(s, w) /\ c.declFunc # s.fn THEN Dropped(c) ELSE c

Moves(s) ==
  /\ prog' = Append(prog, s)
  /\ s.op = "assert" => s.var = NoVar
  /\ s.op \in {"range", "addr"} => s.val = Spread
  /\ \A w \in Var : bindings'[w] = IF Base(w) = NoBinding THEN NoBinding
                                   ELSE Used(Handled(Base(w), w, s), w, s)

(* An expression whose variable was declared keeps its source.             *)
LEMMA SourceStable ==
  ASSUME Stable, NEW e \in Exprs, e.var # NoVar => scope[e.var].fn # Unborn
  PROVE  SourceType(e)' = SourceType(e) /\ SourceVar(e)' = SourceVar(e)
<1>1. e.var \in Var \cup {NoVar}
  BY ExprsAssumption
<1>2. BaseType(e)' = BaseType(e)
  BY <1>1 DEF BaseType, Stable
<1> QED
  BY <1>2 DEF SourceType, SourceVar

(* What the file says of w after one more statement s.                     *)
LEMMA OneMore ==
  ASSUME TypeOK, Static, NEW s, WalkStep(s), NEW w \in Var,
         NEW wr, wr = (s.var = w /\ s.op \in {"declare", "assign", "range"} /\ s.val # Zero)
  PROVE  /\ WritesTo(w)' = WritesTo(w) \cup (IF wr THEN {Len(prog) + 1} ELSE {})
         /\ \A t : AllOf(w, t)' <=> /\ AllOf(w, t)
                                    /\ wr => s.val \in Exprs /\ SourceType(s.val) = t
         /\ \A f : Clean(w, f)' <=> /\ Clean(w, f)
                                    /\ NamedIn(s, w) => s.op # "addr" /\ s.fn = f
         /\ AssertsOn(w)' = AssertsOn(w) \cup (IF s.op = "assert" /\ SourceVar(s.val) = w
                                               THEN {Len(prog) + 1} ELSE {})
<1>0. PICK n : n = Len(prog) + 1
  OBVIOUS
<1>1. /\ prog \in Seq(Stmt) /\ prog' \in Seq(Stmt) /\ Len(prog) \in Nat
      /\ DOMAIN prog = 1..Len(prog) /\ DOMAIN prog' = 1..n
      /\ \A j \in DOMAIN prog : prog'[j] = prog[j]
      /\ prog'[n] = s
      /\ n \notin DOMAIN prog
  BY <1>0 DEF WalkStep, TypeOK
<1>2. DOMAIN prog' = DOMAIN prog \cup {n}
  BY <1>0, <1>1
<1>3. ASSUME NEW e \in Exprs, e.var # NoVar => scope[e.var].fn # Unborn
      PROVE  SourceType(e)' = SourceType(e) /\ SourceVar(e)' = SourceVar(e)
  BY <1>3, SourceStable DEF WalkStep
<1>4. s.val \in Exprs => SourceType(s.val)' = SourceType(s.val) /\ SourceVar(s.val)' = SourceVar(s.val)
  BY <1>3 DEF WalkStep
<1>5. \A j \in DOMAIN prog : prog[j].val \in Exprs =>
        SourceType(prog[j].val)' = SourceType(prog[j].val) /\ SourceVar(prog[j].val)' = SourceVar(prog[j].val)
  <2> SUFFICES ASSUME NEW j \in DOMAIN prog, prog[j].val \in Exprs
               PROVE  /\ SourceType(prog[j].val)' = SourceType(prog[j].val)
                      /\ SourceVar(prog[j].val)' = SourceVar(prog[j].val)
    OBVIOUS
  <2> DEFINE e == prog[j].val
  <2>1. prog'[j].val = e
    BY <1>1
  <2>2. e.var # NoVar => scope[e.var].fn # Unborn
    BY DEF Static
  <2> QED
    BY <1>1, <1>3, <2>2
<1>6. WritesTo(w)' = WritesTo(w) \cup (IF wr THEN {n} ELSE {})
  BY <1>1, <1>2 DEF WritesTo
<1>7. ASSUME NEW t
      PROVE AllOf(w, t)' <=> /\ AllOf(w, t)
                             /\ wr => s.val \in Exprs /\ SourceType(s.val) = t
  <2>1. WritesTo(w) \subseteq DOMAIN prog
    BY DEF WritesTo
  <2>2. \A j \in WritesTo(w) : (prog[j].val \in Exprs /\ SourceType(prog[j].val) = t)'
                                 <=> prog[j].val \in Exprs /\ SourceType(prog[j].val) = t
    BY <1>1, <1>5, <2>1
  <2>3. (prog[n].val \in Exprs /\ SourceType(prog[n].val) = t)'
           <=> s.val \in Exprs /\ SourceType(s.val) = t
    BY <1>1, <1>4
  <2> QED
    BY <1>6, <2>2, <2>3 DEF AllOf
<1>8. ASSUME NEW f
      PROVE Clean(w, f)' <=> /\ Clean(w, f)
                             /\ NamedIn(s, w) => s.op # "addr" /\ s.fn = f
  BY <1>1, <1>2 DEF Clean, NamesVar, NamedIn
<1>9. AssertsOn(w)' = AssertsOn(w) \cup (IF s.op = "assert" /\ SourceVar(s.val) = w
                                         THEN {n} ELSE {})
  <2>1. \A j \in DOMAIN prog : prog[j].op = "assert" =>
          (SourceVar(prog[j].val)' = w <=> SourceVar(prog[j].val) = w)
    BY <1>5 DEF Static
  <2>2. s.op = "assert" => (SourceVar(prog[n].val)' = w <=> SourceVar(s.val) = w)
    BY <1>1, <1>4 DEF WalkStep
  <2> QED
    BY <1>1, <1>2, <2>1, <2>2 DEF AssertsOn
<1> QED
  BY <1>0, <1>6, <1>7, <1>8, <1>9

(* A binding that a statement works on gives a true account of the file    *)
(* before it.                                                              *)
LEMMA BaseAccount ==
  ASSUME IInv, Books, NEW s, WalkStep(s), NEW w \in Var, Base(w) # NoBinding
  PROVE  /\ WellMade(Base(w), Len(prog))
         /\ scope'[w].fn \in Func /\ Base(w).varType = scope'[w].type
         /\ Base(w).declFunc = scope'[w].fn
         /\ ~Parenthesised(w) => Account(Base(w), w, scope'[w])
<1> USE DEF IInv
<1>0. /\ prog \in Seq(Stmt) /\ Len(prog) \in Nat /\ DOMAIN prog = 1..Len(prog)
      /\ scope' \in [Var -> [fn : Func \cup {Pkg, Unborn}, type : Type]]
  BY DEF TypeOK, WalkStep, Stable
<1>1. CASE scope[w].fn = Unborn /\ scope'[w].fn \in Func
  <2>1. Base(w) = NewBinding(scope'[w].fn, scope'[w].type)
    BY <1>1 DEF Base
  <2>2. /\ Base(w).declFunc = scope'[w].fn /\ Base(w).asserts = {}
        /\ Base(w).widenings = <<>> /\ Base(w).dropped = FALSE
    BY <2>1 DEF NewBinding
  <2>3. scope'[w].type \in Type
    BY <1>0
  <2>4. WellMade(Base(w), Len(prog)) /\ Base(w).varType = scope'[w].type
    BY <1>0, <1>1, <2>1, <2>3, NewBindingWellMade
  <2>5. \A j \in DOMAIN prog : ~NamesVar(j, w)
    BY <1>1, NamesAssumption DEF NamesVar, Static
  <2>6. WritesTo(w) = {} /\ Clean(w, scope'[w].fn)
    BY <2>5 DEF WritesTo, Clean, NamesVar
  <2>7. AssertsOn(w) = {}
    <3>1. ASSUME NEW j \in AssertsOn(w) PROVE FALSE
      <4>1. prog[j].val \in Exprs /\ SourceVar(prog[j].val) = w /\ j \in DOMAIN prog
        BY DEF AssertsOn, Static
      <4>2. prog[j].val.var = w
        BY <4>1, NamesAssumption DEF SourceVar
      <4> QED
        BY <2>5, <4>1, <4>2 DEF NamesVar
    <3> QED BY <3>1
  <2> QED
    BY <1>1, <2>2, <2>4, <2>6, <2>7 DEF Account
<1>2. CASE ~(scope[w].fn = Unborn /\ scope'[w].fn \in Func)
  <2>1. Base(w) = bindings[w] /\ bindings[w] # NoBinding
    BY <1>2 DEF Base
  <2>2. scope[w].fn \in Func /\ scope'[w] = scope[w]
    BY <2>1, NamesAssumption DEF Books, WalkStep, Stable
  <2>3. WellMade(bindings[w], Len(prog))
    BY <1>0, <2>1 DEF WellMade, TypeOK, Evident
  <2>4. bindings[w].varType = scope[w].type
    BY <2>1 DEF Static
  <2>5. /\ bindings[w].declFunc = scope[w].fn
        /\ ~Parenthesised(w) => Account(bindings[w], w, scope[w])
    BY <2>1 DEF Books
  <2> QED
    BY <2>1, <2>2, <2>3, <2>4, <2>5
<1> QED
  BY <1>1, <1>2

(* What a statement does with a binding keeps where the variable is        *)
(* declared and adds the statement to the assertions when it is one.       *)
LEMMA HandledKeeps ==
  ASSUME TypeOK, NEW s, WalkStep(s), s.op = "assert" => s.var = NoVar, NEW w \in Var, NEW b, WellMade(b, Len(prog)),
         NEW c, c = Handled(b, w, s)
  PROVE  /\ c \in Binding /\ Dropped(c) \in Binding
         /\ c.declFunc = b.declFunc
         /\ c.asserts = b.asserts \cup (IF s.op = "assert" /\ SourceVar(s.val) = w
                                        THEN {Len(prog) + 1} ELSE {})
         /\ b.dropped => c.dropped
         /\ Dropped(c).declFunc = c.declFunc /\ Dropped(c).asserts = c.asserts
         /\ Dropped(c).dropped
<1>0. b \in Binding /\ Len(prog) \in Nat /\ s.val \in Exprs \cup {Zero, Spread}
  BY DEF WellMade, TypeOK, WalkStep, Stmt
<1>1. /\ Dropped(b) \in Binding /\ Dropped(b).declFunc = b.declFunc
      /\ Dropped(b).asserts = b.asserts /\ Dropped(b).dropped
  BY <1>0 DEF Dropped, Binding
<1>2. ASSUME NEW from \in Type
      PROVE  LET r == Record(b, from, Len(prog) + 1) IN
               /\ r \in Binding /\ r.declFunc = b.declFunc /\ r.asserts = b.asserts
               /\ b.dropped => r.dropped
  <2> DEFINE e == [from |-> from, pos |-> Len(prog) + 1]
  <2>1. b.widenings \in Seq(Widening) /\ e \in Widening
    BY <1>0 DEF Binding, Widening
  <2>2. Append(b.widenings, e) \in Seq(Widening)
    BY <2>1
  <2> QED
    BY <1>0, <1>1, <2>2 DEF Record, Binding
<1>3. CASE s.var = w /\ ~s.paren /\ s.op \in {"declare", "assign"}
  <2>1. c = Take(b, s.val, Len(prog) + 1)
    BY <1>3 DEF Handled
  <2>2. s.val \in Exprs => SourceType(s.val) \in Type
    BY ExprTypes
  <2>3. /\ c \in Binding /\ c.declFunc = b.declFunc /\ c.asserts = b.asserts
        /\ b.dropped => c.dropped
    BY <1>0, <1>1, <1>2, <2>1, <2>2, NamesAssumption DEF Take
  <2> QED
    BY <1>3, <2>3 DEF Dropped, Binding
<1>4. CASE s.var = w /\ ~s.paren /\ s.op \in {"range", "addr"}
  <2>1. c = Dropped(b)
    BY <1>4 DEF Handled
  <2> QED
    BY <1>1, <1>4, <2>1 DEF Dropped, Binding
<1>5. CASE s.op = "assert" /\ SourceVar(s.val) = w
  <2>1. c = [b EXCEPT !.asserts = @ \cup {Len(prog) + 1}]
    BY <1>5 DEF Handled
  <2>2. b.asserts \cup {Len(prog) + 1} \in SUBSET Nat
    BY <1>0 DEF Binding
  <2>3. /\ c \in Binding /\ c.declFunc = b.declFunc /\ c.dropped = b.dropped
        /\ c.asserts = b.asserts \cup {Len(prog) + 1}
    BY <1>0, <2>1, <2>2 DEF Binding
  <2>4. /\ Dropped(c) \in Binding /\ Dropped(c).dropped
        /\ Dropped(c).declFunc = c.declFunc /\ Dropped(c).asserts = c.asserts
    BY <2>3 DEF Dropped, Binding
  <2> QED
    BY <1>5, <2>3, <2>4
<1>6. CASE /\ ~(s.var = w /\ ~s.paren /\ s.op \in {"declare", "assign"})
           /\ ~(s.var = w /\ ~s.paren /\ s.op \in {"range", "addr"})
           /\ ~(s.op = "assert" /\ SourceVar(s.val) = w)
  <2>1. c = b
    BY <1>6 DEF Handled
  <2> QED
    BY <1>0, <1>6, <2>1 DEF Dropped, Binding
<1> QED
  BY <1>3, <1>4, <1>5, <1>6

(* After the statement the binding gives a true account of the file with   *)
(* it: it is dropped when no type can be hidden any more, and else its     *)
(* first widening is the first write.                                      *)
LEMMA AccountAfter ==
  ASSUME IInv, Books, NEW s, WalkStep(s), Moves(s), NEW w \in Var, Base(w) # NoBinding,
         ~Parenthesised(w)'
  PROVE  Account(bindings[w], w, scope[w])'
<1>0. PICK b, c, d, n, wr :
        /\ b = Base(w) /\ c = Handled(b, w, s) /\ d = scope'[w] /\ n = Len(prog) + 1
        /\ wr = (s.var = w /\ s.op \in {"declare", "assign", "range"} /\ s.val # Zero)
  OBVIOUS
<1>p. ~Parenthesised(w) /\ (s.var = w => ~s.paren)
  <2>1. /\ prog' = Append(prog, s) /\ prog \in Seq(Stmt) /\ prog' \in Seq(Stmt)
        /\ s \in Stmt
    BY DEF WalkStep, IInv, TypeOK
  <2>2. /\ DOMAIN prog' = 1..(Len(prog) + 1) /\ prog'[Len(prog) + 1] = s
        /\ DOMAIN prog = 1..Len(prog) /\ Len(prog) \in Nat
        /\ \A j \in DOMAIN prog : prog'[j] = prog[j]
    BY <2>1
  <2> QED
    BY <2>2 DEF Parenthesised
<1>1. WellMade(b, Len(prog)) /\ d.fn \in Func /\ b.varType = d.type /\ Account(b, w, d)
  BY <1>0, <1>p, BaseAccount
<1>2. /\ TypeOK /\ Static /\ Len(prog) \in Nat /\ DOMAIN prog = 1..Len(prog)
      /\ s.val \in Exprs \cup {Zero, Spread}
      /\ s.val \in Exprs => SourceType(s.val) \in Type
  BY ExprTypes DEF IInv, TypeOK, WalkStep, Stmt
<1>3. bindings'[w] = Used(c, w, s) /\ (s.op \in {"range", "addr"} => s.val = Spread)
  BY <1>0 DEF Moves
<1>4. /\ WritesTo(w)' = WritesTo(w) \cup (IF wr THEN {n} ELSE {})
      /\ \A t : AllOf(w, t)' <=> AllOf(w, t) /\ (wr => s.val \in Exprs /\ SourceType(s.val) = t)
      /\ \A f : Clean(w, f)' <=> Clean(w, f) /\ (NamedIn(s, w) => s.op # "addr" /\ s.fn = f)
      /\ AssertsOn(w)' = AssertsOn(w) \cup (IF s.op = "assert" /\ SourceVar(s.val) = w
                                            THEN {n} ELSE {})
  BY <1>0, <1>2, OneMore
<1>5. \A t : Could(w, t, scope[w])' <=>
              /\ Could(w, t, d)
              /\ wr => s.val \in Exprs /\ SourceType(s.val) = t
              /\ NamedIn(s, w) => s.op # "addr" /\ s.fn = d.fn
  BY <1>0, <1>4 DEF Could
<1>6. /\ c \in Binding /\ Dropped(c) \in Binding
      /\ c.declFunc = d.fn /\ c.asserts = AssertsOn(w)'
      /\ b.dropped => c.dropped
      /\ Dropped(c).declFunc = c.declFunc /\ Dropped(c).asserts = c.asserts
      /\ Dropped(c).dropped
  <2>1. b.declFunc = d.fn /\ (s.op = "assert" => s.var = NoVar)
    BY <1>0, BaseAccount DEF Moves
  <2> QED
    BY <1>0, <1>1, <1>2, <1>4, <2>1, HandledKeeps DEF Account
<1>7. /\ b \in Binding /\ b.widenings \in Seq(Widening) /\ Dropped(b).dropped
  BY <1>1 DEF WellMade, Binding, Dropped
<1>8. NoBinding \notin Binding
  BY NamesAssumption DEF Binding, Widening
<1>9. CASE NamedIn(s, w) /\ s.fn # d.fn
  <2>1. bindings'[w] = Dropped(c)
    BY <1>3, <1>6, <1>9 DEF Used
  <2>2. \A t : ~Could(w, t, scope[w])'
    BY <1>5, <1>9
  <2> QED
    BY <1>0, <1>1, <1>6, <1>8, <2>1, <2>2 DEF Account
<1>10. CASE NamedIn(s, w) => s.fn = d.fn
  <2>1. bindings'[w] = c
    BY <1>3, <1>6, <1>10 DEF Used
  <2>2. SUFFICES /\ c.dropped => \A t \in Type : ~Could(w, t, scope[w])'
                 /\ ~c.dropped =>
                      /\ Clean(w, d.fn)'
                      /\ c.widenings = <<>> => WritesTo(w)' = {}
                      /\ c.widenings # <<>> =>
                           /\ \A f : f = c.widenings[1].from => Could(w, f, scope[w])'
                           /\ c.widenings[1].pos \in WritesTo(w)'
                           /\ \A j \in WritesTo(w)' : c.widenings[1].pos <= j
    BY <1>0, <1>1, <1>6, <1>8, <2>1 DEF Account
  <2>3. ASSUME c.dropped = b.dropped, c.widenings = b.widenings, ~wr,
               NamedIn(s, w) => s.op # "addr"
        PROVE  /\ c.dropped => \A t \in Type : ~Could(w, t, scope[w])'
               /\ ~c.dropped =>
                    /\ Clean(w, d.fn)'
                    /\ c.widenings = <<>> => WritesTo(w)' = {}
                    /\ c.widenings # <<>> =>
                         /\ \A f : f = c.widenings[1].from => Could(w, f, scope[w])'
                         /\ c.widenings[1].pos \in WritesTo(w)'
                         /\ \A j \in WritesTo(w)' : c.widenings[1].pos <= j
    BY <1>1, <1>4, <1>5, <1>10, <2>3 DEF Account
  <2>4. CASE s.var = w /\ s.op \in {"declare", "assign"}
    <3>0. NamedIn(s, w) /\ c = Take(b, s.val, n)
      BY <1>0, <1>p, <2>4 DEF Handled, NamedIn
    <3>1. CASE s.val = Zero
      <4>1. c = b /\ ~wr
        BY <1>0, <3>0, <3>1, NamesAssumption DEF Take
      <4> QED
        BY <2>3, <2>4, <4>1
    <3>2. CASE s.val = Spread
      <4>1. c.dropped /\ wr /\ s.val \notin Exprs
        BY <1>0, <1>7, <2>4, <3>0, <3>2, NamesAssumption DEF Take
      <4> QED
        BY <1>5, <4>1
    <3>3. CASE s.val \in Exprs
      <4> DEFINE u == SourceType(s.val)
      <4>1. c = Record(b, u, n) /\ wr
        BY <1>0, <2>4, <3>0, <3>3, NamesAssumption DEF Take
      <4>2. CASE \/ ~StrictlyBroader(d.type, u)
                 \/ u \in Iface
                 \/ b.widenings # <<>> /\ b.widenings[1].from # u
        <5>1. c = Dropped(b)
          BY <1>1, <4>1, <4>2 DEF Record
        <5>2. ASSUME NEW t \in Type, Could(w, t, scope[w])' PROVE FALSE
          <6>1. Could(w, t, d) /\ t = u
            BY <1>5, <4>1, <5>2
          <6>2. StrictlyBroader(d.type, u) /\ u \notin Iface /\ AllOf(w, u)
            BY <6>1 DEF Could
          <6>3. b.widenings # <<>> /\ b.widenings[1].from # u /\ ~b.dropped
            BY <1>1, <4>2, <6>1, <6>2 DEF Account
          <6>4. AllOf(w, b.widenings[1].from) /\ b.widenings[1].pos \in WritesTo(w)
            BY <1>1, <6>3 DEF Account, Could
          <6> QED
            BY <6>2, <6>3, <6>4 DEF AllOf
        <5> QED
          BY <1>7, <5>1, <5>2
      <4>3. CASE /\ StrictlyBroader(d.type, u) /\ u \notin Iface
                 /\ b.widenings # <<>> => b.widenings[1].from = u
        <5> DEFINE e == [from |-> u, pos |-> n]
        <5>1. c = [b EXCEPT !.widenings = Append(@, e)]
          BY <1>1, <4>1, <4>3 DEF Record
        <5>2. e \in Widening /\ e.from = u /\ e.pos = n
          BY <1>0, <1>2, <3>3 DEF Widening
        <5>3. c.dropped = b.dropped /\ c.widenings = Append(b.widenings, e)
          BY <1>7, <5>1 DEF Binding
        <5>4. /\ c.widenings # <<>>
              /\ b.widenings = <<>> => c.widenings[1] = e
              /\ b.widenings # <<>> => c.widenings[1] = b.widenings[1]
          <6> HIDE DEF e
          <6> QED
            BY <1>7, <5>2, <5>3, EmptySeq
        <5>5. CASE c.dropped
          BY <1>1, <1>5, <5>3, <5>5 DEF Account
        <5>6. CASE ~c.dropped /\ b.widenings = <<>>
          <6>1. Clean(w, d.fn) /\ WritesTo(w) = {}
            BY <1>1, <5>3, <5>6 DEF Account
          <6>2. Clean(w, d.fn)' /\ WritesTo(w)' = {n}
            BY <1>4, <1>10, <2>4, <4>1, <6>1
          <6>3. Could(w, u, d)
            <7>1. AllOf(w, u)
              BY <6>1 DEF AllOf
            <7> QED
              BY <4>3, <6>1, <7>1 DEF Could
          <6>4. \A f : f = u => Could(w, f, scope[w])'
            BY <1>5, <1>10, <2>4, <3>3, <6>3
          <6> QED
            BY <1>0, <1>2, <5>2, <5>4, <5>6, <6>2, <6>4
        <5>7. CASE ~c.dropped /\ b.widenings # <<>>
          <6>1. /\ Clean(w, d.fn) /\ Could(w, u, d)
                /\ b.widenings[1].from = u
                /\ b.widenings[1].pos \in WritesTo(w)
                /\ \A j \in WritesTo(w) : b.widenings[1].pos <= j
            BY <1>1, <4>3, <5>3, <5>7 DEF Account
          <6>2. Clean(w, d.fn)' /\ WritesTo(w)' = WritesTo(w) \cup {n}
            BY <1>4, <1>10, <2>4, <4>1, <6>1
          <6>3. \A f : f = u => Could(w, f, scope[w])'
            BY <1>5, <1>10, <2>4, <3>3, <6>1
          <6>4. b.widenings[1].pos <= n
            BY <1>0, <1>2, <6>1 DEF WritesTo
          <6> QED
            BY <5>4, <5>7, <6>1, <6>2, <6>3, <6>4
        <5> QED
          BY <5>5, <5>6, <5>7
      <4> QED
        BY <4>2, <4>3
    <3> QED
      BY <1>2, <3>1, <3>2, <3>3
  <2>5. CASE s.var = w /\ s.op \in {"range", "addr"}
    <3>1. c.dropped
      BY <1>0, <1>p, <1>7, <2>5 DEF Handled
    <3>2. s.op = "range" => wr /\ s.val \notin Exprs
      BY <1>0, <1>3, <2>5, NamesAssumption
    <3> QED
      BY <1>5, <2>5, <3>1, <3>2 DEF NamedIn
  <2>6. CASE ~(s.var = w /\ s.op \in {"declare", "assign", "range", "addr"})
    <3>1. ~wr /\ (NamedIn(s, w) => s.op # "addr")
      BY <1>0, <1>3, <2>6, NamesAssumption DEF NamedIn
    <3>2. c = b \/ c = [b EXCEPT !.asserts = @ \cup {Len(prog) + 1}]
      BY <1>0, <2>6 DEF Handled
    <3>3. c.dropped = b.dropped /\ c.widenings = b.widenings
      BY <1>7, <3>2 DEF Binding
    <3> QED
      BY <2>3, <3>1, <3>3
  <2> QED
    BY <2>4, <2>5, <2>6
<1> QED
  BY <1>9, <1>10

(* A variable that the statement does not declare starts from the binding  *)
(* it has.                                                                 *)
LEMMA BaseSame ==
  ASSUME NEW w, scope'[w] = scope[w]
  PROVE  Base(w) = bindings[w]
BY NamesAssumption DEF Base

(* A statement whose bindings are handled one by one, and then used, moves *)
(* the books.                                                              *)
LEMMA MovesOf ==
  ASSUME IInv, Books, NEW s, NEW s0, WalkStep(s0), NEW B, NEW names,
         Visit(s, Use(B, names, s.fn)),
         s.op \in {"range", "addr"} => s.val = Spread,
         s.op = "assert" => s.var = NoVar,
         \A w \in Var : B[w] = IF Base(w) = NoBinding THEN NoBinding
                               ELSE Handled(Base(w), w, s),
         \A w \in Var : \/ s.op = "declare" /\ w = s.var /\ s.fn = scope'[w].fn
                        \/ w \in names <=> NamedIn(s, w)
  PROVE  WalkStep(s) /\ Moves(s)
<1>1. /\ prog' = Append(prog, s) /\ prog' = Append(prog, s0) /\ prog \in Seq(Stmt)
      /\ bindings' = Use(B, names, s.fn)
  BY DEF Visit, WalkStep, IInv, TypeOK
<1>2. s0 = s
  <2>1. prog \in Seq(Stmt \cup {s, s0})
    BY <1>1
  <2>2. /\ Append(prog, s)[Len(prog) + 1] = s
        /\ Append(prog, s0)[Len(prog) + 1] = s0
    BY <2>1
  <2> QED
    BY <1>1, <2>2
<1>3. WalkStep(s)
  BY <1>2
<1>4. ASSUME NEW w \in Var
      PROVE  bindings'[w] = IF Base(w) = NoBinding THEN NoBinding
                            ELSE Used(Handled(Base(w), w, s), w, s)
  <2>1. CASE Base(w) = NoBinding
    BY <1>1, <2>1 DEF Use
  <2>2. CASE Base(w) # NoBinding
    <3>1. PICK c : c = Handled(Base(w), w, s)
      OBVIOUS
    <3>2. B[w] = c
      BY <2>2, <3>1
    <3>3. WellMade(Base(w), Len(prog)) /\ Base(w).declFunc = scope'[w].fn
      BY <1>3, <2>2, BaseAccount
    <3>4. c \in Binding /\ c.declFunc = scope'[w].fn
      BY <1>3, <3>1, <3>3, HandledKeeps DEF IInv
    <3>5. c # NoBinding
      BY <3>4, NamesAssumption DEF Binding, Widening
    <3>6. w \in names /\ c.declFunc # s.fn <=> NamedIn(s, w) /\ c.declFunc # s.fn
      BY <3>4
    <3>7. bindings'[w] = IF w \in names /\ c.declFunc # s.fn THEN Dropped(c) ELSE c
      BY <1>1, <3>2, <3>5 DEF Use
    <3> QED
      BY <2>2, <3>1, <3>6, <3>7 DEF Used
  <2> QED
    BY <2>1, <2>2
<1> QED
  BY <1>1, <1>3, <1>4 DEF Moves

(* Every action of the walk moves the books by its statement.              *)
LEMMA DeclareMoves ==
  ASSUME IInv, Books, NEW v \in Var, NEW fn \in Func \cup {Pkg}, NEW t \in DeclTypes,
         NEW val \in Exprs \cup {Zero, Spread}, Declare(v, fn, t, val)
  PROVE  \E s : WalkStep(s) /\ Moves(s)
<1> DEFINE s == NewStmt("declare", v, fn, TRUE, val, Switch, FALSE)
           B == Declare1(bindings, v, fn, t, val, Pos)
<1>1. /\ scope[v].fn = Unborn /\ scope' = [scope EXCEPT ![v] = [fn |-> fn, type |-> t]]
      /\ Visit(s, Use(B, Idents(val), fn))
  BY DEF Declare
<1>2. s.op = "declare" /\ s.var = v /\ s.val = val /\ s.fn = fn /\ ~s.paren
  BY DEF NewStmt
<1>3. PICK s0 : WalkStep(s0)
  BY DeclareSteps
<1>4. /\ scope'[v] = [fn |-> fn, type |-> t]
      /\ \A w \in Var \ {v} : scope'[w] = scope[w]
  BY <1>1 DEF IInv, TypeOK
<1>5. ASSUME NEW w \in Var
      PROVE  B[w] = IF Base(w) = NoBinding THEN NoBinding ELSE Handled(Base(w), w, s)
  <2>1. CASE w # v
    <3>1. B[w] = bindings[w] /\ Base(w) = bindings[w]
      BY <1>4, <2>1, BaseSame DEF Declare1, IInv, TypeOK
    <3>2. Handled(bindings[w], w, s) = bindings[w]
      BY <1>2, <2>1 DEF Handled
    <3> QED
      BY <3>1, <3>2
  <2>2. CASE w = v /\ fn = Pkg
    <3>1. bindings[v] = NoBinding
      BY <1>1, NamesAssumption DEF IInv, Static
    <3>2. Base(w) = bindings[v] /\ B[w] = bindings[v]
      BY <1>4, <2>2, NamesAssumption DEF Base, Declare1
    <3> QED
      BY <3>1, <3>2
  <2>3. CASE w = v /\ fn \in Func
    <3>1. Base(w) = NewBinding(fn, t)
      BY <1>1, <1>4, <2>3 DEF Base
    <3>2. t \in Type
      BY TypesAssumption
    <3>3. Base(w) # NoBinding
      <4>1. NewBinding(fn, t) # NoBinding
        BY <2>3, <3>2, NewBindingWellMade
      <4> QED BY <3>1, <4>1
    <3>4. B[w] = Take(NewBinding(fn, t), val, Len(prog) + 1)
      BY <2>3, NamesAssumption DEF Declare1, Pos, IInv, TypeOK
    <3>5. Handled(Base(w), w, s) = Take(Base(w), val, Len(prog) + 1)
      BY <1>2, <2>3 DEF Handled
    <3> QED
      BY <3>1, <3>3, <3>4, <3>5
  <2> QED
    BY <2>1, <2>2, <2>3
<1>6. \A w \in Var : w = v \/ (w \in Idents(val) <=> NamedIn(s, w))
  BY <1>2, NamesAssumption DEF Idents, NamedIn
<1> HIDE DEF s, B
<1> QED
  BY <1>1, <1>2, <1>3, <1>4, <1>5, <1>6, MovesOf

LEMMA AssignMoves ==
  ASSUME IInv, Books, NEW v \in Var, NEW fn \in Func,
         NEW val \in Exprs \cup {Spread}, NEW p \in BOOLEAN, Assign(v, fn, val, p)
  PROVE  \E s : WalkStep(s) /\ Moves(s)
<1> DEFINE s == NewStmt("assign", v, fn, FALSE, val, Switch, p)
           B == Assign1(bindings, v, val, Pos, p)
<1>1. scope' = scope /\ Visit(s, Use(B, {v} \cup Idents(val), fn))
  BY DEF Assign
<1>2. s.op = "assign" /\ s.var = v /\ s.val = val /\ s.fn = fn /\ s.paren = p
  BY DEF NewStmt
<1>3. PICK s0 : WalkStep(s0)
  BY AssignSteps
<1>5. ASSUME NEW w \in Var
      PROVE  B[w] = IF Base(w) = NoBinding THEN NoBinding ELSE Handled(Base(w), w, s)
  <2>0. Base(w) = bindings[w]
    BY <1>1, BaseSame
  <2>1. CASE w # v \/ p = TRUE
    <3>1. B[w] = bindings[w] /\ Handled(bindings[w], w, s) = bindings[w]
      BY <1>2, <2>1 DEF Assign1, IInv, TypeOK, Handled
    <3> QED
      BY <2>0, <3>1
  <2>2. CASE w = v /\ p = FALSE
    <3>1. B[w] = IF bindings[w] = NoBinding THEN NoBinding
                 ELSE Take(bindings[w], val, Len(prog) + 1)
      BY <1>1, <2>2 DEF Assign1, Pos, IInv, TypeOK
    <3>2. Handled(bindings[w], w, s) = Take(bindings[w], val, Len(prog) + 1)
      BY <1>2, <2>2 DEF Handled
    <3> QED
      BY <2>0, <3>1, <3>2
  <2> QED
    BY <2>1, <2>2
<1>6. \A w \in Var : w \in {v} \cup Idents(val) <=> NamedIn(s, w)
  BY <1>2, NamesAssumption DEF Idents, NamedIn
<1> HIDE DEF s, B
<1> QED
  BY <1>1, <1>2, <1>3, <1>5, <1>6, MovesOf

(* A range clause and an address do the same to the books.                 *)
LEMMA DropMoves ==
  ASSUME IInv, Books, NEW v \in Var, NEW s, NEW s0, WalkStep(s0), scope' = scope,
         s.op \in {"range", "addr"}, s.var = v, s.val = Spread, s.paren \in BOOLEAN,
         Visit(s, Use(Drop(bindings, v, s.paren), {v}, s.fn))
  PROVE  WalkStep(s) /\ Moves(s)
<1> DEFINE B == Drop(bindings, v, s.paren)
<1>1. ASSUME NEW w \in Var
      PROVE  B[w] = IF Base(w) = NoBinding THEN NoBinding ELSE Handled(Base(w), w, s)
  <2>1. Base(w) = bindings[w]
    BY BaseSame
  <2>2. CASE w # v \/ s.paren
    BY <2>1, <2>2 DEF Drop, IInv, TypeOK, Handled
  <2>3. CASE w = v /\ ~s.paren
    <3>1. B[w] = IF bindings[w] = NoBinding THEN NoBinding ELSE Dropped(bindings[w])
      BY <2>3 DEF Drop, IInv, TypeOK
    <3>2. Handled(bindings[w], w, s) = Dropped(bindings[w])
      BY <2>3 DEF Handled
    <3> QED
      BY <2>1, <3>1, <3>2
  <2> QED
    BY <2>2, <2>3
<1>2. \A w \in Var : w \in {v} <=> NamedIn(s, w)
  BY NamesAssumption DEF NamedIn
<1> HIDE DEF B
<1>3. Visit(s, Use(B, {v}, s.fn))
  BY DEF B
<1> QED
  BY <1>1, <1>2, <1>3, MovesOf

LEMMA RangeMoves ==
  ASSUME IInv, Books, NEW v \in Var, NEW fn \in Func, NEW p \in BOOLEAN,
         RangeOver(v, fn, p)
  PROVE  \E s : WalkStep(s) /\ Moves(s)
<1> DEFINE s == NewStmt("range", v, fn, FALSE, Spread, Switch, p)
<1>1. scope' = scope /\ Visit(s, Use(Drop(bindings, v, p), {v}, fn))
  BY DEF RangeOver
<1>2. s.op = "range" /\ s.var = v /\ s.val = Spread /\ s.fn = fn /\ s.paren = p
  BY DEF NewStmt
<1>3. PICK s0 : WalkStep(s0)
  BY RangeSteps
<1> HIDE DEF s
<1> QED
  BY <1>1, <1>2, <1>3, DropMoves

LEMMA AddressMoves ==
  ASSUME IInv, Books, NEW v \in Var, NEW fn \in Func, NEW p \in BOOLEAN,
         AddressOf(v, fn, p)
  PROVE  \E s : WalkStep(s) /\ Moves(s)
<1> DEFINE s == NewStmt("addr", v, fn, FALSE, Spread, Switch, p)
<1>1. scope' = scope /\ Visit(s, Use(Drop(bindings, v, p), {v}, fn))
  BY DEF AddressOf
<1>2. s.op = "addr" /\ s.var = v /\ s.val = Spread /\ s.fn = fn /\ s.paren = p
  BY DEF NewStmt
<1>3. PICK s0 : WalkStep(s0)
  BY AddressSteps
<1> HIDE DEF s
<1> QED
  BY <1>1, <1>2, <1>3, DropMoves

LEMMA MentionMoves ==
  ASSUME IInv, Books, NEW v \in Var, NEW fn \in Func, Mention(v, fn)
  PROVE  \E s : WalkStep(s) /\ Moves(s)
<1> DEFINE s == NewStmt("mention", v, fn, FALSE, Spread, Switch, FALSE)
<1>1. scope' = scope /\ Visit(s, Use(bindings, {v}, fn))
  BY DEF Mention
<1>2. s.op = "mention" /\ s.var = v /\ s.val = Spread /\ s.fn = fn
  BY DEF NewStmt
<1>3. PICK s0 : WalkStep(s0)
  BY MentionSteps
<1> HIDE DEF s
<1>4. \A w \in Var : Base(w) = bindings[w] /\ Handled(bindings[w], w, s) = bindings[w]
  BY <1>1, <1>2, BaseSame DEF Handled
<1>5. \A w \in Var : w \in {v} <=> NamedIn(s, w)
  BY <1>2, NamesAssumption DEF NamedIn
<1> QED
  BY <1>1, <1>2, <1>3, <1>4, <1>5, MovesOf

LEMMA TypeAssertMoves ==
  ASSUME IInv, Books, NEW e \in Exprs, NEW fn \in Func, NEW target \in Targets,
         TypeAssert(e, fn, target)
  PROVE  \E s : WalkStep(s) /\ Moves(s)
<1> DEFINE s == NewStmt("assert", NoVar, fn, FALSE, e, target, FALSE)
           B == Attach(bindings, e, Pos)
<1>1. scope' = scope /\ Visit(s, Use(B, Idents(e), fn))
  BY DEF TypeAssert
<1>2. s.op = "assert" /\ s.var = NoVar /\ s.val = e /\ s.fn = fn
  BY DEF NewStmt
<1>3. PICK s0 : WalkStep(s0)
  BY TypeAssertSteps
<1>4. ASSUME NEW w \in Var
      PROVE  B[w] = IF Base(w) = NoBinding THEN NoBinding ELSE Handled(Base(w), w, s)
  <2>1. Base(w) = bindings[w]
    BY <1>1, BaseSame
  <2>2. Handled(bindings[w], w, s) = IF SourceVar(e) = w
          THEN [bindings[w] EXCEPT !.asserts = @ \cup {Len(prog) + 1}] ELSE bindings[w]
    BY <1>2, NamesAssumption DEF Handled
  <2>3. B[w] = IF SourceVar(e) = w /\ bindings[w] # NoBinding
               THEN [bindings[w] EXCEPT !.asserts = @ \cup {Len(prog) + 1}] ELSE bindings[w]
    BY NamesAssumption DEF Attach, Pos, IInv, TypeOK
  <2> QED
    BY <2>1, <2>2, <2>3
<1>5. \A w \in Var : w \in Idents(e) <=> NamedIn(s, w)
  BY <1>2, NamesAssumption DEF Idents, NamedIn
<1> HIDE DEF s, B
<1> QED
  BY <1>1, <1>2, <1>3, <1>4, <1>5, MovesOf

LEMMA WalkMoves ==
  ASSUME IInv, Books, Walk
  PROVE  \E s : WalkStep(s) /\ Moves(s)
<1>1. CASE \E v \in Var, fn \in Func \cup {Pkg}, t \in DeclTypes,
              val \in Exprs \cup {Zero, Spread} : Declare(v, fn, t, val)
  BY <1>1, DeclareMoves
<1>2. CASE \E v \in Var, fn \in Func, val \in Exprs \cup {Spread}, p \in BOOLEAN :
              Assign(v, fn, val, p)
  BY <1>2, AssignMoves
<1>3. CASE \E v \in Var, fn \in Func, p \in BOOLEAN : RangeOver(v, fn, p)
  BY <1>3, RangeMoves
<1>4. CASE \E v \in Var, fn \in Func, p \in BOOLEAN : AddressOf(v, fn, p)
  BY <1>4, AddressMoves
<1>5. CASE \E v \in Var, fn \in Func : Mention(v, fn)
  BY <1>5, MentionMoves
<1>6. CASE \E e \in Exprs, fn \in Func, target \in Targets : TypeAssert(e, fn, target)
  BY <1>6, TypeAssertMoves
<1> QED
  BY <1>1, <1>2, <1>3, <1>4, <1>5, <1>6 DEF Walk, WalkOver

(* So the books stay true during the walk.                                 *)
LEMMA WalkBooks ==
  ASSUME IInv, Books, Walk
  PROVE  Books'
<1>1. PICK s : WalkStep(s) /\ Moves(s)
  BY WalkMoves
<1>2. ASSUME NEW w \in Var, Base(w) # NoBinding
      PROVE  /\ bindings'[w] # NoBinding /\ scope'[w].fn \in Func
             /\ bindings'[w].declFunc = scope'[w].fn
             /\ ~Parenthesised(w)' => Account(bindings[w], w, scope[w])'
  <2>1. PICK c : c = Handled(Base(w), w, s)
    OBVIOUS
  <2>2. /\ WellMade(Base(w), Len(prog)) /\ scope'[w].fn \in Func
        /\ Base(w).declFunc = scope'[w].fn
    BY <1>1, <1>2, BaseAccount
  <2>3. s.op = "assert" => s.var = NoVar
    BY <1>1 DEF Moves
  <2>4. /\ c \in Binding /\ Dropped(c) \in Binding /\ c.declFunc = scope'[w].fn
        /\ Dropped(c).declFunc = c.declFunc
    BY <1>1, <2>1, <2>2, <2>3, HandledKeeps DEF IInv
  <2>5. bindings'[w] = c \/ bindings'[w] = Dropped(c)
    BY <1>1, <1>2, <2>1 DEF Moves, Used
  <2>6. NoBinding \notin Binding
    BY NamesAssumption DEF Binding, Widening
  <2>7. ~Parenthesised(w)' => Account(bindings[w], w, scope[w])'
    BY <1>1, <1>2, AccountAfter
  <2> QED
    BY <2>2, <2>4, <2>5, <2>6, <2>7
<1>3. ASSUME NEW w \in Var, Base(w) = NoBinding
      PROVE  bindings'[w] = NoBinding /\ scope'[w].fn \notin Func
  <2>1. bindings'[w] = NoBinding
    BY <1>1, <1>3 DEF Moves
  <2>2. CASE scope[w].fn = Unborn /\ scope'[w].fn \in Func
    <3>1. scope'[w].type \in Type
      BY <1>1 DEF WalkStep, Stable
    <3> QED
      BY <1>3, <2>2, <3>1, NewBindingWellMade DEF Base, IInv, TypeOK
  <2>3. CASE ~(scope[w].fn = Unborn /\ scope'[w].fn \in Func)
    BY <1>1, <1>3, <2>1, <2>3, NamesAssumption DEF Base, Books, WalkStep, Stable
  <2> QED
    BY <2>1, <2>2, <2>3
<1> QED
  BY <1>2, <1>3 DEF Books

(* The rule of the document and the books of the collector say the same of *)
(* every variable for which the code does not depart from the document.    *)
LEMMA HidesBooked ==
  ASSUME IInv, Books, NEW v \in Var, NEW t \in Type,
         ~Parenthesised(v), ~FilledFromParam(v)
  PROVE  Hides(v, t) <=> Laundered(v) /\ bindings[v].widenings[1].from = t
<1>1. ASSUME Hides(v, t)
      PROVE  Laundered(v) /\ bindings[v].widenings[1].from = t
  <2>1. bindings[v] # NoBinding /\ Account(bindings[v], v, scope[v])
    BY <1>1 DEF Hides, Books
  <2>2. Could(v, t, scope[v]) /\ WritesTo(v) # {}
    BY <1>1 DEF Hides, Could, AllOf, Clean
  <2>3. ~bindings[v].dropped /\ bindings[v].widenings # <<>>
    BY <2>1, <2>2 DEF Account
  <2>4. /\ AllOf(v, bindings[v].widenings[1].from)
        /\ bindings[v].widenings[1].pos \in WritesTo(v)
    BY <2>1, <2>3 DEF Account, Could
  <2>5. bindings[v].widenings[1].from = t
    BY <2>2, <2>4 DEF AllOf, Could
  <2> QED
    BY <2>1, <2>3, <2>5 DEF Laundered
<1>2. ASSUME Laundered(v), bindings[v].widenings[1].from = t
      PROVE  Hides(v, t)
  <2>1. /\ bindings[v] # NoBinding /\ Account(bindings[v], v, scope[v])
        /\ scope[v].fn \in Func
    BY <1>2 DEF Laundered, Books
  <2>2. Could(v, t, scope[v]) /\ bindings[v].widenings[1].pos \in WritesTo(v)
    BY <1>2, <2>1 DEF Laundered, Account
  <2> QED
    BY <2>1, <2>2 DEF Hides, Could, AllOf, Clean, FilledFromParam
<1> QED
  BY <1>1, <1>2

(* The reports on v that the document asks for, and the variables for      *)
(* which the code departs from it.                                         *)
Excepted(v) == Parenthesised(v) \/ FilledFromParam(v)

Documented(v) ==
  {r \in [site : DOMAIN prog, shape : {"binding"}, var : {v}, from : Type,
          line : DOMAIN prog] :
     /\ TakesBack(r.site) /\ ~ChainWidening(prog[r.site].val)
     /\ SourceVar(prog[r.site].val) = v
     /\ Hides(v, r.from)
     /\ r.line \in WritesTo(v)
     /\ \A j \in WritesTo(v) : r.line <= j}

LEMMA ReportsDocumented ==
  ASSUME IInv, Books, NEW v \in Var, ~Excepted(v)
  PROVE  {r \in AllReports : r.shape = "binding" /\ r.var = v} = Documented(v)
<1>0. /\ prog \in Seq(Stmt) /\ DOMAIN prog = 1..Len(prog) /\ Len(prog) \in Nat
  BY DEF IInv, TypeOK
<1>e. ~Parenthesised(v) /\ ~FilledFromParam(v)
  BY DEF Excepted
<1>1. ASSUME Laundered(v)
      PROVE  /\ bindings[v].asserts = AssertsOn(v)
             /\ bindings[v].widenings[1].from \in Type
             /\ bindings[v].widenings[1].pos \in WritesTo(v)
             /\ \A j \in WritesTo(v) : bindings[v].widenings[1].pos <= j
             /\ WritesTo(v) \subseteq DOMAIN prog
             /\ Hides(v, bindings[v].widenings[1].from)
  <2>1. bindings[v] # NoBinding /\ Account(bindings[v], v, scope[v])
    BY <1>1, <1>e DEF Laundered, Books
  <2>2. bindings[v].widenings[1].from \in Type
    <3>1. bindings[v].widenings \in Seq(Widening)
      BY <2>1 DEF IInv, TypeOK, Binding
    <3>2. bindings[v].widenings[1] \in Widening
      BY <1>1, <3>1, EmptySeq, ElementOfSeq DEF Laundered
    <3> QED
      BY <3>2 DEF Widening
  <2>3. Hides(v, bindings[v].widenings[1].from)
    BY <1>1, <1>e, <2>2, HidesBooked
  <2>4. WritesTo(v) \subseteq DOMAIN prog
    BY DEF WritesTo
  <2> QED
    BY <1>1, <2>1, <2>2, <2>3, <2>4 DEF Account, Laundered
<1>2. ASSUME NEW r \in AllReports, r.shape = "binding", r.var = v
      PROVE  r \in Documented(v)
  <2>1. r \notin ChainReports
    BY <1>2 DEF ChainReports
  <2>2. Laundered(v) /\ r \in BindingReportsOf(v)
    BY <1>2, <2>1 DEF AllReports, BindingReportsOf
  <2>3. PICK i \in DOMAIN prog :
          /\ TakesBack(i) /\ ~ChainWidening(prog[i].val) /\ i \in bindings[v].asserts
          /\ r = [site |-> i, shape |-> "binding", var |-> v,
                  from |-> bindings[v].widenings[1].from,
                  line |-> bindings[v].widenings[1].pos]
    BY <2>2 DEF BindingReportsOf
  <2>4. SourceVar(prog[i].val) = v
    BY <1>1, <2>2, <2>3 DEF AssertsOn
  <2>5. bindings[v].widenings[1].pos \in DOMAIN prog
    BY <1>1, <2>2
  <2> QED
    BY <1>1, <2>2, <2>3, <2>4, <2>5 DEF Documented
<1>3. ASSUME NEW r \in Documented(v)
      PROVE  r \in AllReports /\ r.shape = "binding" /\ r.var = v
  <2>1. /\ r \in [site : DOMAIN prog, shape : {"binding"}, var : {v}, from : Type,
                  line : DOMAIN prog]
        /\ TakesBack(r.site) /\ ~ChainWidening(prog[r.site].val)
        /\ SourceVar(prog[r.site].val) = v
        /\ Hides(v, r.from)
        /\ r.line \in WritesTo(v)
        /\ \A j \in WritesTo(v) : r.line <= j
    BY DEF Documented
  <2>2. r.var = v
    BY <2>1
  <2>3. Laundered(v) /\ bindings[v].widenings[1].from = r.from
    BY <1>e, <2>1, <2>2, HidesBooked
  <2>4. r.site \in bindings[v].asserts
    BY <1>1, <2>1, <2>2, <2>3 DEF AssertsOn, TakesBack
  <2>5. r.line = bindings[v].widenings[1].pos
    <3>1. /\ r.line <= bindings[v].widenings[1].pos
          /\ bindings[v].widenings[1].pos <= r.line
          /\ r.line \in Nat /\ bindings[v].widenings[1].pos \in Nat
      BY <1>0, <1>1, <2>1, <2>2, <2>3
    <3> QED
      BY <3>1
  <2>6. r = [site |-> r.site, shape |-> "binding", var |-> v,
             from |-> bindings[v].widenings[1].from,
             line |-> bindings[v].widenings[1].pos]
    BY <2>1, <2>2, <2>3, <2>5
  <2>7. r \in BindingReportsOf(v)
    BY <2>1, <2>4, <2>6 DEF BindingReportsOf
  <2> QED
    BY <2>1, <2>3, <2>7 DEF AllReports
<1> QED
  BY <1>2, <1>3

(* The document and the books look at nothing but the file.                *)
LEMMA FileSays ==
  ASSUME UNCHANGED fileVars
  PROVE  /\ Books => Books'
         /\ \A v : Excepted(v)' = Excepted(v) /\ Documented(v)' = Documented(v)
<1>1. prog' = prog /\ scope' = scope /\ bindings' = bindings
  BY DEF fileVars
<1>2. ASSUME NEW e
      PROVE  /\ SourceType(e)' = SourceType(e) /\ SourceVar(e)' = SourceVar(e)
             /\ ChainWidening(e)' = ChainWidening(e)
             /\ HidesParam(e)' = HidesParam(e)
  <2>1. BaseType(e)' = BaseType(e)
    BY <1>1 DEF BaseType
  <2> QED
    BY <2>1 DEF SourceType, SourceVar, ChainWidening, TypeOf, HidesParam, ThroughParam
<1>3. ASSUME NEW v
      PROVE  /\ WritesTo(v)' = WritesTo(v)
             /\ \A j : NamesVar(j, v)' = NamesVar(j, v)
             /\ AssertsOn(v)' = AssertsOn(v)
             /\ \A t : AllOf(v, t)' = AllOf(v, t)
             /\ \A f : Clean(v, f)' = Clean(v, f)
             /\ \A t, d : Could(v, t, d)' = Could(v, t, d)
  <2>1. WritesTo(v)' = WritesTo(v) /\ (\A j : NamesVar(j, v)' = NamesVar(j, v))
    BY <1>1 DEF WritesTo, NamesVar
  <2>2. AssertsOn(v)' = AssertsOn(v) /\ (\A t : AllOf(v, t)' = AllOf(v, t))
    BY <1>1, <1>2, <2>1 DEF AssertsOn, AllOf
  <2>3. \A f : Clean(v, f)' = Clean(v, f)
    BY <1>1, <2>1 DEF Clean
  <2> QED
    BY <2>1, <2>2, <2>3 DEF Could
<1>4. Books => Books'
  BY <1>1, <1>3 DEF Books, Account, Parenthesised
<1>5. \A v, t : Hides(v, t)' = Hides(v, t)
  BY <1>1, <1>2, <1>3 DEF Hides
<1>6. \A i : TakesBack(i)' = TakesBack(i)
  BY <1>1 DEF TakesBack
<1>7. \A v : Documented(v)' = Documented(v)
  BY <1>1, <1>2, <1>3, <1>5, <1>6 DEF Documented
<1>8. \A v : Excepted(v)' = Excepted(v)
  BY <1>1, <1>2, <1>3 DEF Excepted, Parenthesised, FilledFromParam
<1> QED
  BY <1>4, <1>7, <1>8

LEMMA ExactSays ==
  Exact <=> (phase = "run" =>
               \A v \in Var : ~Excepted(v) =>
                 {r \in reports : r.shape = "binding" /\ r.var = v} =
                   IF generated THEN {} ELSE Documented(v))
BY DEF Exact, Documented, Excepted

(* The end of the walk makes the reports of the document.                  *)
LEMMA FinishExact ==
  ASSUME IInv, Books, NEW g \in BOOLEAN, Finish(g)
  PROVE  Books' /\ Exact'
<1>1. UNCHANGED fileVars /\ reports' = (IF g THEN {} ELSE AllReports) /\ generated' = g
  BY DEF Finish, fileVars
<1>2. Books' /\ \A v : Excepted(v)' = Excepted(v) /\ Documented(v)' = Documented(v)
  BY <1>1, FileSays
<1>3. ASSUME NEW v \in Var, ~Excepted(v)'
      PROVE  {r \in reports' : r.shape = "binding" /\ r.var = v} =
               IF generated' THEN {} ELSE Documented(v)'
  <2>1. ~Excepted(v)
    BY <1>2, <1>3
  <2>2. {r \in AllReports : r.shape = "binding" /\ r.var = v} = Documented(v)
    BY <2>1, ReportsDocumented
  <2> QED
    BY <1>1, <1>2, <2>2
<1>4. (Exact <=> (phase = "run" =>
                    \A v \in Var : ~Excepted(v) =>
                      {r \in reports : r.shape = "binding" /\ r.var = v} =
                        IF generated THEN {} ELSE Documented(v)))'
  BY ExactSays, PTL
<1> QED
  BY <1>2, <1>3, <1>4

LEMMA ExactNext ==
  ASSUME IInv, Books, Exact, [Next]_vars
  PROVE  Books' /\ Exact'
<1>1. CASE Walk
  <2>1. phase' = "walk"
    BY <1>1 DEF Walk, WalkOver, Declare, Assign, RangeOver, AddressOf, Mention, TypeAssert, Visit
  <2> QED
    BY <1>1, <2>1, WalkBooks DEF Exact
<1>2. CASE \E g \in BOOLEAN : Finish(g)
  BY <1>2, FinishExact
<1>3. CASE Run \/ UNCHANGED vars
  <2>1. UNCHANGED fileVars /\ phase' = phase /\ reports' = reports /\ generated' = generated
    BY <1>3 DEF Run, Store, TakeAddress, ForeignWrite, vars, fileVars
  <2>2. Books' /\ \A v : Excepted(v)' = Excepted(v) /\ Documented(v)' = Documented(v)
    BY <2>1, FileSays
  <2>3. (Exact <=> (phase = "run" =>
                      \A v \in Var : ~Excepted(v) =>
                        {r \in reports : r.shape = "binding" /\ r.var = v} =
                          IF generated THEN {} ELSE Documented(v)))'
    BY ExactSays, PTL
  <2> QED
    BY <2>1, <2>2, <2>3, ExactSays
<1> QED
  BY <1>1, <1>2, <1>3 DEF Next

(* On every variable but two kinds, rule G05 reports exactly what          *)
(* docs/spec/002-rules.md asks for, whatever the statements of the file    *)
(* are and in whatever order they come.  The two kinds are those for which *)
(* the code departs from the document: variables that a statement names in *)
(* parentheses, and variables whose hidden type has a type parameter.      *)
THEOREM ExactlyDocumented == Spec => []Exact
<1>1. Init => Books /\ Exact
  <2>1. Init => Books
    BY NamesAssumption DEF Init, Books
  <2> QED
    BY <2>1 DEF Init, Exact
<1>2. IInv /\ Books /\ Exact /\ [Next]_vars => Books' /\ Exact'
  BY ExactNext
<1>3. Spec => []IInv
  BY Invariant
<1> QED
  BY <1>1, <1>2, <1>3, PTL DEF Spec
--------------------------------------------------------------------------------
(* The chained shape: what the steps of an operand forget.                 *)

(* The type of an operand that no step turns into a type parameter         *)
(* promises no method that its source does not have.                       *)
LEMMA ChainWidens ==
  ASSUME NEW e \in Exprs, NEW fn, ExprOK(e, fn), ~ThroughParam(e)
  PROVE  Implements(SourceType(e), TypeOf(e))
<1> DEFINE t == BaseType(e)
           N == Len(e.steps)
           k0 == SourceLen(t, e)
           Short == {n \in Nat : /\ k0 + n <= N
                                 /\ ~Implements(SourceType(e), TypeAt(t, e, k0 + n))}
<1>1. N \in Nat /\ k0 \in 0..N /\ \A j \in (k0 + 1)..N : WideningStep(t, e, j)
  BY ExprsAssumption, SourceEnds
<1>2. SourceType(e) = TypeAt(t, e, k0) /\ TypeOf(e) = TypeAt(t, e, N)
  BY DEF SourceType, TypeOf
<1>p. \A j \in (k0 + 1)..N : e.steps[j].to \notin TypeParam
  BY DEF ThroughParam
<1> HIDE DEF k0, t
<1>3. Short = {}
  <2>1. SUFFICES ASSUME Short # {} PROVE FALSE
    OBVIOUS
  <2>2. PICK m \in Short : \A n \in Short : m <= n
    <3>1. Short \subseteq Nat
      OBVIOUS
    <3> HIDE DEF Short
    <3> QED
      BY <2>1, <3>1, LeastNumber
  <2>3. m # 0
    BY <1>1, <1>2, <2>2 DEF Implements
  <2>4. PICK j : j = k0 + m
    OBVIOUS
  <2>5. /\ m - 1 \in Nat /\ j \in (k0 + 1)..N /\ j \in 1..N
        /\ j - 1 = k0 + (m - 1) /\ j - 1 <= N
    BY <1>1, <2>2, <2>3, <2>4
  <2>6. Implements(SourceType(e), TypeAt(t, e, j - 1))
    <3>1. m - 1 \notin Short
      BY <2>2, <2>5
    <3> QED
      BY <2>5, <3>1
  <2>7. TypeAt(t, e, j) = e.steps[j].to
    BY <2>5 DEF TypeAt
  <2>8. Implements(TypeAt(t, e, j - 1), TypeAt(t, e, j))
    <3>1. WideningStep(t, e, j)
      BY <1>1, <2>5
    <3>2. CASE e.steps[j].how = "conv"
      BY <1>p, <2>5, <2>7, <3>2 DEF ExprOK, t
    <3>3. CASE Implements(TypeAt(t, e, j - 1), e.steps[j].to)
      BY <2>7, <3>3
    <3> QED
      BY <3>1, <3>2, <3>3 DEF WideningStep
  <2> QED
    BY <2>2, <2>4, <2>6, <2>8 DEF Implements
<1>4. N - k0 \in Nat /\ k0 + (N - k0) = N /\ N <= N
  BY <1>1
<1> QED
  BY <1>2, <1>3, <1>4

(* The operands of the visited assertions are of a plain interface type,   *)
(* and their sources implement it, if no step has gone through a type      *)
(* parameter.                                                              *)
Widened(e) ==
  /\ TypeOf(e) \in Iface \ TypeParam
  /\ ThroughParam(e) \/ Implements(SourceType(e), TypeOf(e))

Operands ==
  \A j \in DOMAIN prog : prog[j].op = "assert" => Widened(prog[j].val)

LEMMA WidenedStable ==
  ASSUME Stable, NEW e \in Exprs, e.var # NoVar => scope[e.var].fn # Unborn, Widened(e)
  PROVE  Widened(e)'
<1>1. e.var \in Var \cup {NoVar}
  BY ExprsAssumption
<1>2. BaseType(e)' = BaseType(e)
  BY <1>1 DEF BaseType, Stable
<1> QED
  BY <1>2 DEF Widened, SourceType, TypeOf, ThroughParam

(* An assertion adds such an operand, and no other statement is one.       *)
LEMMA AddsOperand ==
  ASSUME IInv, Walk, NEW s, WalkStep(s), s.op = "assert"
  PROVE  Widened(s.val)
<1>1. prog \in Seq(Stmt \cup {s}) /\ prog' = Append(prog, s) /\ Len(prog) \in Nat
  BY DEF WalkStep, IInv, TypeOK
<1>2. prog'[Len(prog) + 1] = s
  BY <1>1
<1>3. ASSUME NEW u, prog' = Append(prog, u)
      PROVE  u = s
  <2>1. prog \in Seq(Stmt \cup {u})
    BY DEF IInv, TypeOK
  <2>2. Append(prog, u)[Len(prog) + 1] = u
    BY <2>1
  <2> QED
    BY <1>2, <1>3, <2>2
<1>4. PICK e \in Exprs, fn \in Func, target \in Targets :
        TypeAssert(e, fn, target) /\ s = NewStmt("assert", NoVar, fn, FALSE, e, target, FALSE)
  <2>1. ASSUME NEW v \in Var, NEW fn \in Func \cup {Pkg}, NEW t \in DeclTypes,
               NEW val \in Exprs \cup {Zero, Spread}, Declare(v, fn, t, val)
        PROVE  FALSE
    BY <1>3, <2>1 DEF Declare, Visit, NewStmt
  <2>2. ASSUME NEW v \in Var, NEW fn \in Func, NEW val \in Exprs \cup {Spread},
               NEW p \in BOOLEAN, Assign(v, fn, val, p)
        PROVE  FALSE
    BY <1>3, <2>2 DEF Assign, Visit, NewStmt
  <2>3. ASSUME NEW v \in Var, NEW fn \in Func, NEW p \in BOOLEAN,
               RangeOver(v, fn, p) \/ AddressOf(v, fn, p) \/ Mention(v, fn)
        PROVE  FALSE
    BY <1>3, <2>3 DEF RangeOver, AddressOf, Mention, Visit, NewStmt
  <2>4. ASSUME NEW v \in Var, NEW fn \in Func, Mention(v, fn)
        PROVE  FALSE
    BY <1>3, <2>4 DEF Mention, Visit, NewStmt
  <2>5. ASSUME NEW e \in Exprs, NEW fn \in Func, NEW target \in Targets,
               TypeAssert(e, fn, target)
        PROVE  s = NewStmt("assert", NoVar, fn, FALSE, e, target, FALSE)
    BY <1>3, <2>5 DEF TypeAssert, Visit
  <2> QED
    BY <2>1, <2>2, <2>3, <2>4, <2>5 DEF Walk, WalkOver
<1>5. s.val = e
  BY <1>4 DEF NewStmt
<1>6. ExprOK(e, fn) /\ TypeOf(e) \in Iface \ TypeParam
  BY <1>4 DEF TypeAssert
<1> QED
  BY <1>5, <1>6, ChainWidens DEF Widened

LEMMA WalkOperands ==
  ASSUME IInv, Operands, Walk
  PROVE  Operands'
<1>1. PICK s : WalkStep(s)
  BY WalkSteps
<1>2. PICK n : n = Len(prog) + 1
  OBVIOUS
<1>3. /\ DOMAIN prog' = DOMAIN prog \cup {n} /\ prog'[n] = s
      /\ \A j \in DOMAIN prog : prog'[j] = prog[j]
  BY <1>1, <1>2 DEF WalkStep, IInv, TypeOK
<1>4. ASSUME NEW j \in DOMAIN prog', prog'[j].op = "assert"
      PROVE  Widened(prog[j].val)'
  <2>1. CASE j \in DOMAIN prog
    <3>1. PICK e \in Exprs : e = prog[j].val
      BY <1>3, <1>4, <2>1 DEF IInv, Static
    <3>2. e.var # NoVar => scope[e.var].fn # Unborn
      BY <2>1, <3>1 DEF IInv, Static
    <3>3. Widened(e)'
      BY <1>1, <1>3, <1>4, <2>1, <3>1, <3>2, WidenedStable DEF Operands, WalkStep
    <3> QED
      BY <1>3, <2>1, <3>1, <3>3
  <2>2. CASE j = n
    <3>1. PICK e \in Exprs : e = s.val
      BY <1>1, <1>3, <1>4, <2>2 DEF WalkStep
    <3>2. e.var # NoVar => scope[e.var].fn # Unborn
      BY <1>1, <3>1 DEF WalkStep
    <3>3. Widened(e)
      BY <1>1, <1>3, <1>4, <2>2, <3>1, AddsOperand
    <3>4. Widened(e)'
      BY <1>1, <3>2, <3>3, WidenedStable DEF WalkStep
    <3> QED
      BY <1>3, <2>2, <3>1, <3>4
  <2> QED
    BY <1>3, <2>1, <2>2
<1> QED
  BY <1>4 DEF Operands

(* Such an operand forgets values exactly when its type is strictly        *)
(* broader than that of its source.                                        *)
LEMMA BroaderForgets ==
  ASSUME OpenWorld, NEW e, SourceType(e) \in Type \ Parametric, Widened(e),
         ~ThroughParam(e)
  PROVE  ChainWidening(e) <=> /\ SourceType(e) # UntypedNil
                              /\ Inst[SourceType(e)] # Inst[TypeOf(e)]
<1> DEFINE f == SourceType(e)
           i == TypeOf(e)
<1>1. /\ f \in Type /\ f \notin Parametric /\ f \notin TypeParam
      /\ i \in Iface /\ i \notin TypeParam /\ i \in Type /\ Implements(f, i)
  BY TypesAssumption DEF Widened
<1> HIDE DEF f, i
<1>2. ASSUME f # UntypedNil, Inst[f] = Inst[i]
      PROVE  f \in Iface /\ Implements(i, f)
  BY <1>1, <1>2 DEF OpenWorld
<1>3. ASSUME f \in Iface, Implements(i, f)
      PROVE  Inst[f] = Inst[i]
  <2>1. Inst[f] \subseteq Inst[i] /\ Inst[i] \subseteq Inst[f]
    BY <1>1, <1>3, InstAssumption DEF Implements
  <2> QED
    BY <2>1
<1> QED
  BY <1>1, <1>2, <1>3 DEF ChainWidening, StrictlyBroader, f, i

(* What the chained shape promises of the file.                            *)
Forgets(i) ==
  /\ TakesBack(i)
  /\ SourceType(prog[i].val) \notin Parametric \cup {UntypedNil}
  /\ Inst[SourceType(prog[i].val)] # Inst[TypeOf(prog[i].val)]

(* The statements on which the chained shape does not depart from it.      *)
Sites == {j \in DOMAIN prog : TakesBack(j) => ~ThroughParam(prog[j].val)}

LEMMA ChainSays ==
  ASSUME IInv, Operands, OpenWorld, NEW i \in Sites
  PROVE  (\E r \in AllReports : r.site = i /\ r.shape = "chain") <=> Forgets(i)
<1>0. i \in DOMAIN prog /\ (TakesBack(i) => ~ThroughParam(prog[i].val))
  BY DEF Sites
<1>1. (\E r \in AllReports : r.site = i /\ r.shape = "chain")
        <=> \E r \in ChainReports : r.site = i
  <2>1. \A r \in ChainReports : r.shape = "chain"
    BY DEF ChainReports
  <2>2. \A v \in Var : \A r \in BindingReportsOf(v) : r.shape # "chain"
    BY DEF BindingReportsOf
  <2> QED
    BY <2>1, <2>2 DEF AllReports
<1>2. (\E r \in ChainReports : r.site = i)
        <=> /\ TakesBack(i) /\ ChainWidening(prog[i].val)
            /\ SourceType(prog[i].val) \notin Parametric
  <2> DEFINE r == [site |-> i, shape |-> "chain", var |-> NoVar,
                   from |-> SourceType(prog[i].val), line |-> i]
             Here == /\ TakesBack(i) /\ ChainWidening(prog[i].val)
                     /\ SourceType(prog[i].val) \notin Parametric
  <2>1. Here => r \in ChainReports /\ r.site = i
    BY <1>0 DEF ChainReports
  <2>2. ASSUME NEW q \in ChainReports, q.site = i
        PROVE  Here
    BY <2>2 DEF ChainReports
  <2> HIDE DEF Here, r
  <2>3. (\E q \in ChainReports : q.site = i) <=> Here
    BY <2>1, <2>2
  <2> QED
    BY <2>3 DEF Here
<1>3. ASSUME TakesBack(i), SourceType(prog[i].val) \notin Parametric
      PROVE  ChainWidening(prog[i].val) <=>
               /\ SourceType(prog[i].val) # UntypedNil
               /\ Inst[SourceType(prog[i].val)] # Inst[TypeOf(prog[i].val)]
  <2>1. prog[i].val \in Exprs /\ Widened(prog[i].val)
    BY <1>0, <1>3 DEF TakesBack, IInv, Static, Operands
  <2>2. SourceType(prog[i].val) \in Type
    BY <2>1, ExprTypes DEF IInv
  <2> QED
    BY <1>0, <1>3, <2>1, <2>2, BroaderForgets
<1> QED
  BY <1>1, <1>2, <1>3 DEF Forgets

(* The end of the walk reports the chains that forget something.           *)
LEMMA FileForgets ==
  ASSUME UNCHANGED fileVars
  PROVE  /\ Operands => Operands'
         /\ \A i : Forgets(i)' = Forgets(i)
         /\ Sites' = Sites
<1>1. prog' = prog /\ scope' = scope
  BY DEF fileVars
<1>2. ASSUME NEW e
      PROVE  /\ SourceType(e)' = SourceType(e) /\ TypeOf(e)' = TypeOf(e)
             /\ ThroughParam(e)' = ThroughParam(e)
  <2>1. BaseType(e)' = BaseType(e)
    BY <1>1 DEF BaseType
  <2> QED
    BY <2>1 DEF SourceType, TypeOf, ThroughParam
<1>3. Operands => Operands'
  BY <1>1, <1>2 DEF Operands, Widened
<1>4. \A i : TakesBack(i)' = TakesBack(i)
  BY <1>1 DEF TakesBack
<1>5. \A i : Forgets(i)' = Forgets(i)
  BY <1>1, <1>2, <1>4 DEF Forgets
<1>6. Sites' = Sites
  BY <1>1, <1>2, <1>4 DEF Sites
<1> QED
  BY <1>3, <1>5, <1>6

LEMMA ChainExactSays ==
  ChainLosesEvidence <=>
    (phase = "run" /\ ~generated =>
       \A i \in Sites :
         (\E r \in reports : r.site = i /\ r.shape = "chain") <=> Forgets(i))
BY DEF ChainLosesEvidence, Forgets, Sites

LEMMA ChainNext ==
  ASSUME IInv, OpenWorld, Operands, ChainLosesEvidence, [Next]_vars
  PROVE  Operands' /\ ChainLosesEvidence'
<1>0. ChainLosesEvidence' <=>
        (phase' = "run" /\ ~generated' =>
           \A i \in Sites' :
             (\E r \in reports' : r.site = i /\ r.shape = "chain") <=> Forgets(i)')
  <2>1. (ChainLosesEvidence <=>
           (phase = "run" /\ ~generated =>
              \A i \in Sites :
                (\E r \in reports : r.site = i /\ r.shape = "chain") <=> Forgets(i)))'
    BY ChainExactSays, PTL
  <2> QED
    BY <2>1
<1>1. CASE Walk
  <2>1. phase' = "walk"
    BY <1>1 DEF Walk, WalkOver, Declare, Assign, RangeOver, AddressOf, Mention, TypeAssert, Visit
  <2> QED
    BY <1>0, <1>1, <2>1, WalkOperands
<1>2. ASSUME NEW g \in BOOLEAN, Finish(g)
      PROVE  Operands' /\ ChainLosesEvidence'
  <2>1. UNCHANGED fileVars /\ reports' = (IF g THEN {} ELSE AllReports) /\ generated' = g
    BY <1>2 DEF Finish, fileVars
  <2>2. Operands' /\ Sites' = Sites /\ \A i : Forgets(i)' = Forgets(i)
    BY <2>1, FileForgets
  <2>3. ~g => \A i \in Sites :
                (\E r \in reports' : r.site = i /\ r.shape = "chain") <=> Forgets(i)
    BY <2>1, ChainSays
  <2> QED
    BY <1>0, <2>1, <2>2, <2>3
<1>3. CASE Run \/ UNCHANGED vars
  <2>1. UNCHANGED fileVars /\ phase' = phase /\ reports' = reports /\ generated' = generated
    BY <1>3 DEF Run, Store, TakeAddress, ForeignWrite, vars, fileVars
  <2>2. Operands' /\ Sites' = Sites /\ \A i : Forgets(i)' = Forgets(i)
    BY <2>1, FileForgets
  <2> QED
    BY <1>0, <2>1, <2>2, ChainExactSays
<1> QED
  BY <1>1, <1>2, <1>3 DEF Next

(* The chained shape reports the assertions whose operand, through any     *)
(* number of conversions and assertions, forgets values that its source    *)
(* cannot have, when the program has a value for every such difference and *)
(* no step of the operand goes through a type parameter.                   *)
THEOREM ChainExact ==
  ASSUME OpenWorld
  PROVE  Spec => []ChainLosesEvidence
<1>1. Init => Operands /\ ChainLosesEvidence
  BY DEF Init, Operands, ChainLosesEvidence
<1>2. IInv /\ Operands /\ ChainLosesEvidence /\ [Next]_vars
        => Operands' /\ ChainLosesEvidence'
  BY ChainNext
<1>3. Spec => []IInv
  BY Invariant
<1> QED
  BY <1>1, <1>2, <1>3, PTL DEF Spec
================================================================================
