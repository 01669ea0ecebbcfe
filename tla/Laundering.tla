------------------------------ MODULE Laundering ------------------------------
(***************************************************************************)
(* Rule G05, src/analyzers/nolaundering: the walk that tracks the local    *)
(* variables of a file, the reports that follow from it, and the program   *)
(* the file is, so that what a report says can be held against what the    *)
(* program does.                                                           *)
(*                                                                         *)
(* Phase "walk" visits one statement per step, in source order, as         *)
(* inspector.WithStack does; every program of at most MaxStmts statements  *)
(* over the expressions in Exprs is visited.  Phase "run" executes the     *)
(* statements of that program, in every order that loops, branches, jumps  *)
(* and closures can produce.                                               *)
(***************************************************************************)
EXTENDS Integers, Sequences

CONSTANTS
  Var,          (* the variables of the file                               *)
  NoVar,        (* the absence of one                                      *)
  Func,         (* function declarations and function literals             *)
  Outer,        (* Outer[f]: the functions that enclose the literal f      *)
  Pkg, Unborn,  (* the package level; a variable not declared yet          *)
  Type,         (* the static types of the file                            *)
  Iface,        (* those that interfaceOf answers: interfaces, type params *)
  TypeParam,    (* the type parameters among Iface                         *)
  Parametric,   (* the types in which a type parameter appears             *)
  Methods,      (* Methods[t]: what Implements compares, the method set of *)
                (* t and the terms of a constraint that it satisfies       *)
  Converts,     (* Converts[p]: the types that convert to every type in    *)
                (* the type set of the type parameter p                    *)
  UntypedNil,   (* the type of nil                                         *)
  Dyn,          (* the run-time types of values                            *)
  Inst,         (* Inst[t]: the run-time types a t can hold                *)
  Nil, Unset,   (* the nil interface; a variable not initialised yet       *)
  Exprs,        (* the expressions statements are built from               *)
  DeclTypes,    (* the types that declarations spell or infer              *)
  Targets,      (* the types that assertions name, and Switch              *)
  Zero, Spread, (* no initialiser; one call that fills several names       *)
  Switch,       (* the missing target of x.(type)                          *)
  NoBinding,    (* the collector tracks no such variable                   *)
  MaxStmts      (* bound on the length of a program                        *)

ASSUME TypesAssumption ==
  /\ Iface \subseteq Type /\ TypeParam \subseteq Iface
  /\ Parametric \subseteq Type /\ TypeParam \subseteq Parametric
  /\ UntypedNil \in Type \ Iface
  /\ DeclTypes \subseteq Type \ {UntypedNil} /\ Targets \subseteq Type \cup {Switch}
  /\ Inst \in [Type -> SUBSET Dyn]
  /\ Converts \in [TypeParam -> SUBSET Type]
  /\ Outer \in [Func -> SUBSET Func]

(* What the type checker guarantees of the values of a type: a value of a  *)
(* type that implements an interface is one the interface can hold.        *)
ASSUME InstAssumption ==
  \A t \in Type, i \in Iface \ TypeParam :
    Methods[i] \subseteq Methods[t] => Inst[t] \subseteq Inst[i]

(* An expression is a base, a variable or a value of a static type, under  *)
(* a list of conversions and assertions to interfaces and type parameters. *)
ASSUME ExprsAssumption ==
  Exprs \subseteq [var   : Var \cup {NoVar},
                   type  : Type,
                   steps : Seq([to : Iface, how : {"conv", "assert"}])]

ASSUME NamesAssumption ==
  /\ NoVar \notin Var
  /\ Pkg \notin Func /\ Unborn \notin Func /\ Pkg # Unborn
  /\ Nil \notin Dyn /\ Unset \notin Dyn /\ Nil # Unset
  /\ Zero \notin Exprs /\ Spread \notin Exprs /\ Zero # Spread
  /\ Switch \notin Type
  /\ NoBinding \notin [declFunc : Func, varType : Type,
                       widenings : Seq([from : Type, pos : Nat]),
                       asserts : SUBSET Nat, dropped : BOOLEAN]
  /\ MaxStmts \in Nat

VARIABLES
  phase,      (* "walk", then "run"                                        *)
  prog,       (* the statements visited, in source order                   *)
  scope,      (* where each variable is declared, and its type             *)
  bindings,   (* collector.bindings                                        *)
  generated,  (* whether the file carries a generated header               *)
  reports,    (* the diagnostics                                           *)
  heap,       (* run time: what each variable holds                        *)
  aliased     (* run time: the variables a live pointer names              *)

vars == <<phase, prog, scope, bindings, generated, reports, heap, aliased>>
fileVars == <<prog, scope, bindings>>

Stmt == [op : {"declare", "assign", "range", "addr", "mention", "assert"},
         var : Var \cup {NoVar}, fn : Func \cup {Pkg}, fresh : BOOLEAN,
         val : Exprs \cup {Zero, Spread}, target : Type \cup {Switch},
         paren : BOOLEAN]

Widening == [from : Type, pos : Nat]

Binding == [declFunc : Func, varType : Type, widenings : Seq(Widening),
            asserts : SUBSET Nat, dropped : BOOLEAN]

Report == [site : Nat, shape : {"chain", "binding"}, var : Var \cup {NoVar},
           from : Type, line : Nat]
-------------------------------------------------------------------------------
(* Types.                                                                  *)

Implements(t, i) == Methods[i] \subseteq Methods[t]

StrictlyBroader(to, from) ==
  /\ to \in Iface
  /\ from # UntypedNil
  /\ Implements(from, to)
  /\ from \in Iface => ~Implements(to, from)

BaseType(e) == IF e.var = NoVar THEN e.type ELSE scope[e.var].type

(* The static type of e under its first k steps, over a base of type t.    *)
TypeAt(t, e, k) == IF k \in 1..Len(e.steps) THEN e.steps[k].to ELSE t

TypeOf(e) == TypeAt(BaseType(e), e, Len(e.steps))

(* interfaceOf answers the constraint of a type parameter, so that a step  *)
(* to one counts as widening like a step to an interface.                  *)
WideningStep(t, e, k) ==
  e.steps[k].how = "conv" \/ Implements(TypeAt(t, e, k - 1), e.steps[k].to)

(* How many steps are left when source() has followed the widening ones.   *)
SourceLen(t, e) ==
  CHOOSE k \in 0..Len(e.steps) :
    /\ \A j \in (k + 1)..Len(e.steps) : WideningStep(t, e, j)
    /\ k = 0 \/ ~WideningStep(t, e, k)

SourceType(e) == TypeAt(BaseType(e), e, SourceLen(BaseType(e), e))

(* The variable that the source of e is, if it is one.                     *)
SourceVar(e) == IF SourceLen(BaseType(e), e) = 0 THEN e.var ELSE NoVar

Idents(val) == IF val \in Exprs THEN {val.var} \ {NoVar} ELSE {}
-------------------------------------------------------------------------------
(* The collector.                                                          *)

NewBinding(fn, t) ==
  [declFunc |-> fn, varType |-> t, widenings |-> <<>>, asserts |-> {},
   dropped |-> FALSE]

Dropped(b) == [b EXCEPT !.dropped = TRUE]

(* Mutant: the guards of record are gone.                                  *)
RecordAnything(b, from, pos) ==
  [b EXCEPT !.widenings = Append(@, [from |-> from, pos |-> pos])]

(* Mutant: a second concrete type replaces the first.                      *)
RecordLast(b, from, pos) ==
  IF ~StrictlyBroader(b.varType, from) \/ from \in Iface
  THEN Dropped(b)
  ELSE [b EXCEPT !.widenings = <<[from |-> from, pos |-> pos]>>]

Record(b, from, pos) ==
  IF \/ ~StrictlyBroader(b.varType, from)
     \/ from \in Iface
     \/ b.widenings # <<>> /\ b.widenings[1].from # from
  THEN Dropped(b)
  ELSE [b EXCEPT !.widenings = Append(@, [from |-> from, pos |-> pos])]

(* Mutant: the zero value of a declaration counts as an unknown value.     *)
TakeZero(b, val, pos) ==
  IF val \in {Zero, Spread} THEN Dropped(b) ELSE Record(b, SourceType(val), pos)

(* A variable takes the value val at position pos.                         *)
Take(b, val, pos) ==
  CASE val = Zero   -> b
    [] val = Spread -> Dropped(b)
    [] OTHER        -> Record(b, SourceType(val), pos)

(* Every identifier of a statement in fn is visited by use().              *)
Use(B, names, fn) ==
  [v \in Var |-> IF v \in names /\ B[v] # NoBinding /\ B[v].declFunc # fn
                 THEN Dropped(B[v]) ELSE B[v]]

(* Mutant: nothing is dropped for a range clause or an address.            *)
DropNothing(B, v, paren) == B

(* drop(e): only a bare identifier names a binding.                        *)
Drop(B, v, paren) ==
  IF paren \/ B[v] = NoBinding THEN B ELSE [B EXCEPT ![v] = Dropped(@)]

Declare1(B, v, fn, t, val, pos) ==
  IF fn = Pkg THEN B ELSE [B EXCEPT ![v] = Take(NewBinding(fn, t), val, pos)]

Assign1(B, v, val, pos, paren) ==
  IF paren \/ B[v] = NoBinding THEN B ELSE [B EXCEPT ![v] = Take(@, val, pos)]

Attach(B, e, pos) ==
  LET v == SourceVar(e) IN
  IF v = NoVar \/ B[v] = NoBinding THEN B
  ELSE [B EXCEPT ![v].asserts = @ \cup {pos}]
-------------------------------------------------------------------------------
(* What the compiler accepts, so that prog is a program.                   *)

Visible(v, fn) == scope[v].fn \in {Pkg, fn} \cup (IF fn = Pkg THEN {} ELSE Outer[fn])

(* The body of a function is one stretch of the file, inner literals       *)
(* included: once the walk has left it, no statement of it follows.        *)
Inside(fn) == {fn} \cup {g \in Func : fn \in Outer[g]}

Unclosed(fn) ==
  \A j, k \in DOMAIN prog :
    j < k /\ prog[j].fn \in Inside(fn) => prog[k].fn \in Inside(fn)

ExprOK(e, fn) ==
  /\ e.var # NoVar => Visible(e.var, fn)
  /\ \A k \in 1..Len(e.steps) :
       LET operand == TypeAt(BaseType(e), e, k - 1)
           to      == e.steps[k].to
       IN
       CASE e.steps[k].how = "assert" -> operand \in Iface \ TypeParam
         [] e.steps[k].how = "conv" /\ to \in TypeParam -> operand \in Converts[to]
         [] OTHER -> Implements(operand, to) /\ operand # UntypedNil

Assignable(e, t) ==
  \/ TypeOf(e) = t /\ t # UntypedNil
  \/ t \in Iface \ TypeParam /\ Implements(TypeOf(e), t)

NewStmt(op, v, fn, fresh, val, target, paren) ==
  [op |-> op, var |-> v, fn |-> fn, fresh |-> fresh, val |-> val,
   target |-> target, paren |-> paren]

Pos == Len(prog) + 1

(* One more statement of the file is visited and leaves the bindings B.    *)
Visit(s, B) ==
  /\ phase = "walk"
  /\ Len(prog) < MaxStmts
  /\ s.fn # Pkg => Unclosed(s.fn)
  /\ prog' = Append(prog, s)
  /\ bindings' = B
  /\ UNCHANGED <<phase, generated, reports, heap, aliased>>
-------------------------------------------------------------------------------
(* The walk.                                                               *)

(* var v t, var v t = val, var v, w t = call(); v := val is a declaration  *)
(* whose type is the type of val.                                          *)
Declare(v, fn, t, val) ==
  /\ scope[v].fn = Unborn
  /\ val \in Exprs => ExprOK(val, fn) /\ Assignable(val, t)
  /\ scope' = [scope EXCEPT ![v] = [fn |-> fn, type |-> t]]
  /\ Visit(NewStmt("declare", v, fn, TRUE, val, Switch, FALSE),
           Use(Declare1(bindings, v, fn, t, val, Pos), Idents(val), fn))

(* v = val, or one call, map read or receive that fills v and another name. *)
Assign(v, fn, val, paren) ==
  /\ Visible(v, fn)
  /\ val # Zero
  /\ val \in Exprs => ExprOK(val, fn) /\ Assignable(val, scope[v].type)
  /\ UNCHANGED scope
  /\ Visit(NewStmt("assign", v, fn, FALSE, val, Switch, paren),
           Use(Assign1(bindings, v, val, Pos, paren), {v} \cup Idents(val), fn))

(* for v = range ch                                                        *)
RangeOver(v, fn, paren) ==
  /\ Visible(v, fn)
  /\ UNCHANGED scope
  /\ Visit(NewStmt("range", v, fn, FALSE, Spread, Switch, paren),
           Use(Drop(bindings, v, paren), {v}, fn))

(* p := &v                                                                 *)
AddressOf(v, fn, paren) ==
  /\ Visible(v, fn)
  /\ UNCHANGED scope
  /\ Visit(NewStmt("addr", v, fn, FALSE, Spread, Switch, paren),
           Use(Drop(bindings, v, paren), {v}, fn))

(* A statement that only reads v, such as f(v).                            *)
Mention(v, fn) ==
  /\ Visible(v, fn)
  /\ UNCHANGED scope
  /\ Visit(NewStmt("mention", v, fn, FALSE, Spread, Switch, FALSE),
           Use(bindings, {v}, fn))

(* e.(target), or switch e.(type)                                          *)
TypeAssert(e, fn, target) ==
  /\ ExprOK(e, fn)
  /\ TypeOf(e) \in Iface \ TypeParam
  /\ target # Switch => \/ target \in Iface
                        \/ target # UntypedNil /\ Implements(target, TypeOf(e))
  /\ UNCHANGED scope
  /\ Visit(NewStmt("assert", NoVar, fn, FALSE, e, target, FALSE),
           Use(Attach(bindings, e, Pos), Idents(e), fn))
-------------------------------------------------------------------------------
(* The reports.                                                            *)

Laundered(v) ==
  /\ bindings[v] # NoBinding
  /\ ~bindings[v].dropped
  /\ bindings[v].widenings # <<>>

(* The assertions that take a concrete type back.                          *)
TakesBack(i) ==
  /\ prog[i].op = "assert"
  /\ \/ prog[i].target = Switch
     \/ prog[i].target \notin Iface \cup Parametric

(* Mutant: an interface of the same width counts as broader.               *)
ChainImplements(e) == TypeOf(e) \in Iface /\ Implements(SourceType(e), TypeOf(e))

ChainWidening(e) == StrictlyBroader(TypeOf(e), SourceType(e))

ChainReports ==
  {[site |-> i, shape |-> "chain", var |-> NoVar,
    from |-> SourceType(prog[i].val), line |-> i] :
     i \in {j \in DOMAIN prog : /\ TakesBack(j)
                                /\ ChainWidening(prog[j].val)
                                /\ SourceType(prog[j].val) \notin Parametric}}

BindingReportsOf(v) ==
  {[site |-> i, shape |-> "binding", var |-> v,
    from |-> bindings[v].widenings[1].from, line |-> bindings[v].widenings[1].pos] :
     i \in {j \in DOMAIN prog : /\ TakesBack(j)
                                /\ ~ChainWidening(prog[j].val)
                                /\ j \in bindings[v].asserts}}

AllReports ==
  ChainReports \cup UNION {BindingReportsOf(v) : v \in {w \in Var : Laundered(w)}}

Finish(g) ==
  /\ phase = "walk"
  /\ phase' = "run"
  /\ generated' = g
  /\ reports' = IF g THEN {} ELSE AllReports
  /\ UNCHANGED <<prog, scope, bindings, heap, aliased>>
-------------------------------------------------------------------------------
(* The program at run time.                                                *)

Values(t) == Inst[t] \cup (IF t \in Iface \cup {UntypedNil} THEN {Nil} ELSE {})

(* The value d that a step makes of the value c.  A conversion to a type   *)
(* parameter gives a value of a type that the parameter stands for.  Every *)
(* other step keeps the value: the compiler has checked a conversion, and  *)
(* an assertion that fails panics, so that the statement has no effect.    *)
Becomes(c, step, d) ==
  IF step.how = "conv" /\ step.to \in TypeParam
  THEN d \in Inst[step.to]
  ELSE d = c /\ (d \in Inst[step.to] \/ (step.how = "conv" /\ d = Nil))

BaseValues(e) == IF e.var = NoVar THEN Values(e.type) ELSE {heap[e.var]} \ {Unset}

(* The values e can have: course[k] is the value after the first k steps.  *)
Eval(e) ==
  {course[Len(e.steps)] :
     course \in {c \in [0..Len(e.steps) -> Dyn \cup {Nil}] :
                  /\ c[0] \in BaseValues(e)
                  /\ \A k \in 1..Len(e.steps) : Becomes(c[k - 1], e.steps[k], c[k])}}

ZeroValues(t) == IF t \in Iface THEN {Nil} ELSE Inst[t]

Results(v, val) ==
  CASE val = Zero   -> ZeroValues(scope[v].type)
    [] val = Spread -> Values(scope[v].type)
    [] OTHER        -> Eval(val)

Live(v) == heap[v] # Unset

(* Bound: a program with no report is not executed.                        *)
Running == phase = "run" /\ reports # {}

(* A declaration makes a new variable, which no pointer names yet.         *)
Store(i) ==
  LET s == prog[i] IN
  /\ Running
  /\ s.op \in {"declare", "assign", "range"}
  /\ s.fresh \/ Live(s.var)
  /\ \E d \in Results(s.var, s.val) : heap' = [heap EXCEPT ![s.var] = d]
  /\ aliased' = IF s.fresh THEN aliased \ {s.var} ELSE aliased
  /\ UNCHANGED <<phase, fileVars, generated, reports>>

TakeAddress(i) ==
  /\ Running
  /\ prog[i].op = "addr"
  /\ Live(prog[i].var)
  /\ aliased' = aliased \cup {prog[i].var}
  /\ UNCHANGED <<phase, fileVars, generated, reports, heap>>

(* *p = x through a live pointer, or another function of the package that  *)
(* assigns a package variable.                                             *)
ForeignWrite(v) ==
  /\ Running
  /\ v \in aliased \/ scope[v].fn = Pkg
  /\ Live(v)
  /\ \E d \in Values(scope[v].type) : heap' = [heap EXCEPT ![v] = d]
  /\ UNCHANGED <<phase, fileVars, generated, reports, aliased>>
-------------------------------------------------------------------------------
Init ==
  /\ phase = "walk"
  /\ prog = <<>>
  /\ scope = [v \in Var |-> [fn |-> Unborn, type |-> UntypedNil]]
  /\ bindings = [v \in Var |-> NoBinding]
  /\ generated = FALSE
  /\ reports = {}
  /\ heap = [v \in Var |-> Unset]
  /\ aliased = {}

(* The walk visits a statement built from the expressions given.           *)
WalkOver(exprs) ==
  /\ phase = "walk"
  /\ \/ \E v \in Var, fn \in Func \cup {Pkg}, t \in DeclTypes, val \in exprs \cup {Zero, Spread} :
          Declare(v, fn, t, val)
     \/ \E v \in Var, fn \in Func, val \in exprs \cup {Spread}, p \in BOOLEAN :
          Assign(v, fn, val, p)
     \/ \E v \in Var, fn \in Func, p \in BOOLEAN : RangeOver(v, fn, p)
     \/ \E v \in Var, fn \in Func, p \in BOOLEAN : AddressOf(v, fn, p)
     \/ \E v \in Var, fn \in Func : Mention(v, fn)
     \/ \E e \in exprs, fn \in Func, target \in Targets : TypeAssert(e, fn, target)

Walk == WalkOver(Exprs)

Run ==
  \/ \E i \in DOMAIN prog : Store(i)
  \/ \E i \in DOMAIN prog : TakeAddress(i)
  \/ \E v \in Var : ForeignWrite(v)

Next == Walk \/ (\E g \in BOOLEAN : Finish(g)) \/ Run

Spec == Init /\ [][Next]_vars
-------------------------------------------------------------------------------
(* Type correctness: bindings only record concrete types, at positions of  *)
(* the file, and at run time every variable holds a value of its type.     *)
TypeOK ==
  /\ phase \in {"walk", "run"}
  /\ prog \in Seq(Stmt)
  /\ scope \in [Var -> [fn : Func \cup {Pkg, Unborn}, type : Type]]
  /\ bindings \in [Var -> Binding \cup {NoBinding}]
  /\ generated \in BOOLEAN
  /\ reports \subseteq Report
  /\ heap \in [Var -> Dyn \cup {Nil, Unset}]
  /\ aliased \subseteq Var
  /\ \A v \in Var :
       /\ heap[v] \in Values(scope[v].type) \cup {Unset}
       /\ bindings[v] # NoBinding =>
            \A k \in DOMAIN bindings[v].widenings :
              /\ bindings[v].widenings[k].from \in Type \ Iface
              /\ bindings[v].widenings[k].pos \in DOMAIN prog

(* The places of the file that give v a value, and those that name it.     *)
WritesTo(v) ==
  {j \in DOMAIN prog : /\ prog[j].var = v
                       /\ prog[j].op \in {"declare", "assign", "range"}
                       /\ prog[j].val # Zero}

NamesVar(j, v) ==
  prog[j].var = v \/ (prog[j].val \in Exprs /\ prog[j].val.var = v)

(* Between its source and its value, e is turned into a type parameter.    *)
ThroughParam(e) ==
  \E k \in (SourceLen(BaseType(e), e) + 1)..Len(e.steps) : e.steps[k].to \in TypeParam

(* A type parameter appears in a type that the steps of e hide.            *)
HidesParam(e) == SourceType(e) \in Parametric \/ ThroughParam(e)

(* v takes a value that has been a type parameter; one whose hidden type   *)
(* mentions one.                                                           *)
FilledThroughParam(v) ==
  \E j \in WritesTo(v) : prog[j].val \in Exprs /\ ThroughParam(prog[j].val)

FilledFromParam(v) ==
  \E j \in WritesTo(v) : prog[j].val \in Exprs /\ HidesParam(prog[j].val)

(* A statement assigns (v) or takes &(v), which assign and drop do not see. *)
Parenthesised(v) == \E j \in DOMAIN prog : prog[j].var = v /\ prog[j].paren

(* A report of the binding shape says that the variable hides one concrete *)
(* type.  Whatever the program does next, with closures, jumps, pointers   *)
(* and the other functions of the package, the variable holds a value of   *)
(* that type or has not been assigned: the assertion asks no question.     *)
(* Two kinds of variables are excepted, for which the code departs from    *)
(* the document: one whose name a statement writes in parentheses, and one *)
(* that takes a value which has been converted to a type parameter, and so *)
(* may have another type (see ParametersStop).                             *)
Sound ==
  \A r \in reports :
    r.shape = "binding" /\ ~Parenthesised(r.var) /\ ~FilledThroughParam(r.var) =>
      heap[r.var] \in Inst[r.from] \cup {Nil, Unset}

(* docs/spec/002-rules.md: "A type parameter also stops a report. The rule *)
(* leaves a widening alone when a type parameter appears in the type that  *)
(* the widening hides."  The code asks that of the chained shape only, and *)
(* of the source only, where a conversion to a type parameter was stripped. *)
ParametersStop ==
  \A r \in reports :
    IF r.shape = "chain" THEN ~HidesParam(prog[r.site].val)
                         ELSE ~FilledFromParam(r.var)

(* The rule of docs/spec/002-rules.md, read off the file as a whole: every *)
(* assignment of the function widens t, no type parameter appears in what  *)
(* is hidden, nothing else fills the variable, no address of it is taken   *)
(* and no other function names it.                                         *)
Hides(v, t) ==
  /\ scope[v].fn \in Func
  /\ StrictlyBroader(scope[v].type, t) /\ t \notin Iface
  /\ WritesTo(v) # {}
  /\ \A j \in WritesTo(v) : /\ prog[j].val \in Exprs /\ SourceType(prog[j].val) = t
                            /\ ~HidesParam(prog[j].val)
  /\ \A j \in DOMAIN prog :
       NamesVar(j, v) => prog[j].op # "addr" /\ prog[j].fn = scope[v].fn

(* The reports of the binding shape on a variable are those of the         *)
(* documented rule, no fewer and no more, whatever the order of the        *)
(* statements; each one names the hidden type and the first widening in    *)
(* the order of the source.  Excepted are the variables for which the code *)
(* is known to depart from the document: a name in parentheses, and a      *)
(* hidden type with a type parameter, which the document leaves alone and  *)
(* the code reports (ParametersStop).                                      *)
Exact ==
  phase = "run" =>
    \A v \in Var : ~Parenthesised(v) /\ ~FilledFromParam(v) =>
      {r \in reports : r.shape = "binding" /\ r.var = v} =
        {r \in [site : DOMAIN prog, shape : {"binding"}, var : {v}, from : Type,
                line : DOMAIN prog] :
           /\ ~generated
           /\ TakesBack(r.site) /\ ~ChainWidening(prog[r.site].val)
           /\ SourceVar(prog[r.site].val) = v
           /\ Hides(v, r.from)
           /\ r.line \in WritesTo(v)
           /\ \A j \in WritesTo(v) : r.line <= j}

(* An interface type holds more than any other type that implements it and *)
(* does not promise the same methods: the program has a value for each     *)
(* difference of two types.                                                *)
OpenWorld ==
  \A i \in Iface \ TypeParam, t \in Type \ (Parametric \cup {UntypedNil}) :
    Implements(t, i) /\ Inst[t] = Inst[i] => t \in Iface /\ Implements(i, t)

(* A report of the chained shape is made exactly where the operand forgets *)
(* something: its type holds values that the type of its source cannot.    *)
(* Operands that were turned into a type parameter on the way are those of *)
(* ParametersStop.                                                         *)
ChainLosesEvidence ==
  phase = "run" /\ ~generated =>
    \A i \in {j \in DOMAIN prog : TakesBack(j) => ~ThroughParam(prog[j].val)} :
      (\E r \in reports : r.site = i /\ r.shape = "chain")
        <=> /\ TakesBack(i)
            /\ SourceType(prog[i].val) \notin Parametric \cup {UntypedNil}
            /\ Inst[SourceType(prog[i].val)] # Inst[TypeOf(prog[i].val)]

(* What the tracker knows of the value of a variable.                      *)
Known(v) ==
  CASE bindings[v] = NoBinding       -> "nothing"
    [] bindings[v] # NoBinding /\ bindings[v].dropped -> "open"
    [] OTHER -> IF bindings[v].widenings = <<>> THEN "nothing"
                ELSE bindings[v].widenings[1].from

(* The tracker implements an accumulation of evidence that never forgets.  *)
Ledger == INSTANCE Evidence
  WITH Nothing <- "nothing", Open <- "open",
       known   <- [v \in Var |-> Known(v)],
       decided <- phase = "run",
       verdict <- {<<r.var, r.from>> : r \in {q \in reports : q.shape = "binding"}}

ImplementsEvidence == Ledger!Spec
===============================================================================
