------------------------------- MODULE Contracts ------------------------------
(***************************************************************************)
(* The rules that read a signature: G03 noanyparam, G04 noanyreturn, G06   *)
(* noadhoctypeswitch and G09 nointerfacereturn, with the evidence that     *)
(* they share (internal/signature, Contracts), and a developer who does    *)
(* what the reports say and runs the rules again.                          *)
(***************************************************************************)
EXTENDS Integers, Sequences, FiniteSets, SequencesExt

CONSTANTS
  Concrete,        (* types that are no interface                          *)
  Nillable,        (* those of them that have a nil                        *)
  Interface,       (* interface types, the following four among them       *)
  AnyType, Error,
  Payload,         (* a defined type whose underlying type is any          *)
  Generic,         (* an interface type that mentions a type parameter     *)
  Nil, NoType,
  String,          (* the predeclared string, one of the concrete types    *)
  Packages         (* the packages to consider, see below                  *)

(***************************************************************************)
(* A package p has                                                         *)
(*   fn         the signatures, by number, each with its kind:             *)
(*     "decl"     a function, or a method of the type owner                *)
(*     "lit"      a function literal                                       *)
(*     "method"   a method of the interface owner                          *)
(*     "extern"   the same, of an interface that is imported               *)
(*              the name, whether it ends in f, whether the file is        *)
(*              generated, and the return statements of its own body: the  *)
(*              expressions, or one call for all the results               *)
(*   embeds     of each type, the types that it embeds                     *)
(*   ifaces     the named interfaces: whether of this package, exported,   *)
(*              at the level of the package, and free of type sets         *)
(*   boundary   whether boundary-packages names the package                *)
(* and at first the parameters and results by field, the comment above     *)
(* each signature, and the operands of its type switches.                  *)
(***************************************************************************)
ASSUME TypeAssumption ==
  /\ Concrete \cap Interface = {} /\ Nillable \subseteq Concrete /\ String \in Concrete
  /\ {AnyType, Error, Payload, Generic} \subseteq Interface /\ Cardinality({AnyType, Error, Payload, Generic}) = 4
  /\ Nil \notin Concrete \cup Interface /\ NoType \notin Concrete \cup Interface \cup {Nil}

ASSUME PackageAssumption ==
  \A p \in Packages :
    /\ p.fn \in Seq([kind : {"decl", "lit", "method", "extern"}, owner : STRING, name : STRING,
                     endsInF : BOOLEAN, generated : BOOLEAN,
                     returns : Seq(Seq([kind : {"value"}, type : Concrete \cup Interface]
                                       \cup [kind : {"call"}, callee : DOMAIN p.fn] \cup [kind : {"nil"}]))])
    /\ p.params \in [DOMAIN p.fn -> Seq([names : Seq(STRING), type : Concrete \cup Interface, variadic : BOOLEAN])]
    /\ p.results \in [DOMAIN p.fn -> Seq([span : Nat \ {0}, type : Concrete \cup Interface])]
    /\ p.comment \in [DOMAIN p.fn -> [above : BOOLEAN, doc : BOOLEAN, marker : BOOLEAN]]
    /\ p.operands \in [DOMAIN p.fn ->
         Seq([kind : {"param"}, of : DOMAIN p.fn, field : Nat, name : Nat, type : Concrete \cup Interface]
             \cup [kind : {"value", "typeparam"}, type : Concrete \cup Interface])]
    /\ "" \notin DOMAIN p.embeds

(* The methods of a type have different names, but for blank ones, which   *)
(* an interface does not have.                                             *)
ASSUME MethodAssumption ==
  \A p \in Packages : \A f, g \in DOMAIN p.fn :
    /\ p.fn[f].kind \in {"method", "extern"} => p.fn[f].name # "_"
    /\ (/\ p.fn[f].kind = "decl" /\ p.fn[g].kind = "decl" /\ p.fn[f].owner # ""
        /\ p.fn[f].owner = p.fn[g].owner /\ p.fn[f].name = p.fn[g].name /\ p.fn[f].name # "_")
       => f = g

(* Go groups names in a field.                                             *)
NameCount(field) == IF field.names = <<>> THEN 1 ELSE Len(field.names)

(* A switch on a parameter stands in the body that the parameter belongs   *)
(* to, or in a literal there.                                              *)
ASSUME OperandAssumption ==
  \A p \in Packages : \A f \in DOMAIN p.fn : \A s \in DOMAIN p.operands[f] :
    LET operand == p.operands[f][s] IN
    /\ p.fn[f].kind \in {"decl", "lit"}
    /\ operand.kind = "param" =>
         /\ p.fn[operand.of].kind \in {"decl", "lit"}
         /\ p.fn[operand.of].generated = p.fn[f].generated
         /\ operand.field \in DOMAIN p.params[operand.of]
         /\ operand.name \in 1..NameCount(p.params[operand.of][operand.field])

(* A return statement gives nothing, a value for each result, or one call  *)
(* for all of them.                                                        *)
Count(fields) == Len(FlattenSeq([k \in DOMAIN fields |-> [i \in 1..fields[k].span |-> k]]))

ASSUME ReturnAssumption ==
  \A p \in Packages : \A f \in DOMAIN p.fn : \A i \in DOMAIN p.fn[f].returns :
    LET ret == p.fn[f].returns[i] IN
    \/ ret = <<>>
    \/ /\ Len(ret) = Count(p.results[f])
       /\ \A j \in DOMAIN ret : ret[j].kind = "call" => Count(p.results[ret[j].callee]) = 1
    \/ /\ Len(ret) = 1 /\ ret[1].kind = "call"
       /\ Count(p.results[ret[1].callee]) = Count(p.results[f])

VARIABLES
  pkg,
  params, results, comment, operands,   (* what the developer edits        *)
  phase,
  next,       (* the signatures that the run has visited                   *)
  reports,
  held        (* history: which types implemented what when it began       *)

source == <<params, results, comment, operands>>
vars == <<pkg, source, phase, next, reports, held>>

Func == DOMAIN pkg.fn
Iface == DOMAIN pkg.ifaces
-------------------------------------------------------------------------------
(* Types by position.                                                      *)
ParamTypes(f) == FlattenSeq([k \in DOMAIN params[f] |-> [i \in 1..NameCount(params[f][k]) |-> params[f][k].type]])

ResultTypes(f) == FlattenSeq([k \in DOMAIN results[f] |-> [i \in 1..results[f][k].span |-> results[f][k].type]])

(* The positions of the first k fields of results come before.             *)
Before(f, k) == Len(FlattenSeq([j \in 1..k |-> [i \in 1..results[f][j].span |-> j]]))

Positions(f, k) == Before(f, k - 1) + 1..Before(f, k)

ParamsBefore(f, k) == Len(FlattenSeq([j \in 1..(k - 1) |-> [i \in 1..NameCount(params[f][j]) |-> j]]))

(* IsEmptyInterface takes no underlying type: Payload is a domain type.    *)
IsEmptyInterface(t) == t = AnyType
-------------------------------------------------------------------------------
(* The method set of a type or of the pointer to it.                       *)
MethodSet(t) ==
  LET Own(u) == {f \in Func : pkg.fn[f].kind = "decl" /\ pkg.fn[f].owner = u} IN
  Own(t) \cup {f \in UNION {Own(u) : u \in pkg.embeds[t]} : \A g \in Own(t) : pkg.fn[g].name # pkg.fn[f].name}

MethodsOf(iface) == {m \in Func : pkg.fn[m].kind \in {"method", "extern"} /\ pkg.fn[m].owner = iface}

Variadic(f) == params[f] # <<>> /\ Last(params[f]).variadic

Satisfies(t, iface) ==
  \A m \in MethodsOf(iface) :
    \E f \in MethodSet(t) :
      /\ pkg.fn[f].name = pkg.fn[m].name
      /\ ParamTypes(f) = ParamTypes(m) /\ Variadic(f) = Variadic(m)
      /\ ResultTypes(f) = ResultTypes(m)

(* Mutant: the interfaces of the package itself are not read.              *)
ScannedImports(home) ==
  {i \in Iface : pkg.ifaces[i].package /\ pkg.ifaces[i].methodSet /\ ~pkg.ifaces[i].home /\ pkg.ifaces[i].exported}

(* Contracts.interfaces: by the scope of each package.                     *)
Scanned(home) ==
  {i \in Iface :
     /\ pkg.ifaces[i].package /\ pkg.ifaces[i].methodSet /\ MethodsOf(i) # {}
     /\ IF pkg.ifaces[i].home THEN home ELSE pkg.ifaces[i].exported}

(* Mutant: a method that shares a name with one of an interface is exempt. *)
ImplementsByName(f, home, matches) ==
  /\ pkg.fn[f].kind = "decl" /\ pkg.fn[f].owner # ""
  /\ \E i \in Scanned(home) : \E m \in MethodsOf(i) \cap matches : pkg.fn[m].name = pkg.fn[f].name

(* Contracts.Implements: matches are the declared methods that ask for the *)
(* type in question at the position in question.                           *)
Implements(f, home, matches) ==
  /\ pkg.fn[f].kind = "decl" /\ pkg.fn[f].owner # ""
  /\ \E i \in Scanned(home) :
       /\ \E m \in MethodsOf(i) \cap matches : pkg.fn[m].name = pkg.fn[f].name
       /\ Satisfies(pkg.fn[f].owner, i)

(* A doc comment starts with a declared name; it needs the marker.         *)
Justified(f) == comment[f].above /\ (~comment[f].doc \/ comment[f].marker)
-------------------------------------------------------------------------------
(* G03.                                                                    *)
WrapsCause(field) == field.names # <<>> /\ \A i \in DOMAIN field.names : field.names[i] = "cause"

FormatStyle(f, k) ==
  /\ params[f][k].variadic
  /\ \E j \in 1..(k - 1) :
       /\ params[f][j].type = String
       /\ "format" \in Range(params[f][j].names) \/ pkg.fn[f].endsInF

AnyAt(types, from, to) == to <= Len(types) /\ \A i \in from..to : IsEmptyInterface(types[i])

(* A report names what it is about: a parameter field or a switch by its   *)
(* number, a field of results by its positions.                            *)
Report(rule, f, at) == [rule |-> rule, fn |-> f, at |-> at, built |-> NoType, orNil |-> FALSE]

AnyParams(f) ==
  LET Mandatory(k) ==
        {m \in Func : AnyAt(ParamTypes(m), ParamsBefore(f, k) + 1, ParamsBefore(f, k) + NameCount(params[f][k]))}
  IN {Report("noanyparam", f, {k}) : k \in {k \in DOMAIN params[f] :
        /\ IsEmptyInterface(params[f][k].type)
        /\ ~WrapsCause(params[f][k]) /\ ~FormatStyle(f, k)
        /\ ~Justified(f)
        /\ ~Implements(f, FALSE, Mandatory(k))}}

(* G04.                                                                    *)
AnyReturns(f) ==
  LET Mandatory(k) == {m \in Func : AnyAt(ResultTypes(m), Before(f, k - 1) + 1, Before(f, k))}
  IN {Report("noanyreturn", f, Positions(f, k)) : k \in {k \in DOMAIN results[f] :
        /\ IsEmptyInterface(results[f][k].type)
        /\ ~Justified(f)
        /\ ~Implements(f, FALSE, Mandatory(k))}}
-------------------------------------------------------------------------------
(* G09.  Mutant: a result that is concrete already is read as well.        *)
JudgedConcrete(t) == t \notin {Error, Generic} /\ ~IsEmptyInterface(t)

Judged(t) == t \in Interface /\ t \notin {Error, Generic} /\ ~IsEmptyInterface(t)

TypeOf(expr) ==
  CASE expr.kind = "value" -> expr.type
    [] expr.kind = "nil"   -> Nil
    [] expr.kind = "call"  -> ResultTypes(expr.callee)[1]

(* A naked return carries no evidence; one call can stand for all.         *)
ReturnedType(f, ret, pos) ==
  CASE ret = <<>>                    -> NoType
    [] Len(ret) = Len(ResultTypes(f)) -> TypeOf(ret[pos])
    [] OTHER                          -> ResultTypes(ret[1].callee)[pos]

(* Mutant: the first return decides.                                       *)
SingleConcreteFirst(f, pos) ==
  LET returned == {ReturnedType(f, pkg.fn[f].returns[1], pos)} IN
  IF pkg.fn[f].returns = <<>> \/ returned \cap Concrete = {} THEN NoType ELSE CHOOSE t \in returned : t \in Concrete

(* Mutant: nil is a type like the others.                                  *)
SingleConcreteNil(f, pos) ==
  LET returned == {ReturnedType(f, pkg.fn[f].returns[i], pos) : i \in DOMAIN pkg.fn[f].returns}
  IN IF returned \cap Interface = {} /\ Cardinality(returned) = 1 THEN CHOOSE t \in returned : TRUE ELSE NoType

(* Mutant: a naked return is skipped like one of nil.                      *)
SingleConcreteNaked(f, pos) ==
  LET returned == {ReturnedType(f, pkg.fn[f].returns[i], pos) : i \in DOMAIN pkg.fn[f].returns}
      built    == returned \ {Nil, NoType}
  IN IF built \subseteq Concrete /\ Cardinality(built) = 1 THEN CHOOSE t \in built : TRUE ELSE NoType

(* The one type that every return builds, besides nil, or NoType.          *)
SingleConcrete(f, pos) ==
  LET returned == {ReturnedType(f, pkg.fn[f].returns[i], pos) : i \in DOMAIN pkg.fn[f].returns}
      built    == returned \ {Nil}
  IN IF built \subseteq Concrete /\ Cardinality(built) = 1 THEN CHOOSE t \in built : TRUE ELSE NoType

OrNil(f, pos) == \E i \in DOMAIN pkg.fn[f].returns : ReturnedType(f, pkg.fn[f].returns[i], pos) = Nil

FixesResult(pos, declared) == {m \in Func : pos <= Len(ResultTypes(m)) /\ ResultTypes(m)[pos] = declared}

(* One report for each message of a field.                                 *)
InterfaceReturns(f) ==
  IF pkg.fn[f].kind # "decl" \/ Justified(f) THEN {} ELSE
  UNION {{[rule |-> "nointerfacereturn", fn |-> f, at |-> Positions(f, k),
     built |-> SingleConcrete(f, pos), orNil |-> OrNil(f, pos)] :
            pos \in {pos \in Positions(f, k) :
                       /\ SingleConcrete(f, pos) # NoType
                       /\ ~Implements(f, TRUE, FixesResult(pos, results[f][k].type))}} :
         k \in {k \in DOMAIN results[f] : Judged(results[f][k].type)}}
-------------------------------------------------------------------------------
(* Mutant: a comment without the marker is never read.                     *)
AdmittedByMarker(operand) == comment[operand.of].marker

(* G06.  The signature that declares the operand answers for it.           *)
Admitted(operand) ==
  LET index == ParamsBefore(operand.of, operand.field) + operand.name IN
  \/ Justified(operand.of)
  \/ Implements(operand.of, FALSE, {m \in Func : AnyAt(ParamTypes(m), index, index)})

OperandType(operand) ==
  IF operand.kind # "param" THEN operand.type
  ELSE LET field == params[operand.of][operand.field] IN IF field.variadic THEN NoType ELSE field.type

AdHocSwitches(f) ==
  {Report("noadhoctypeswitch", f, {s}) : s \in {s \in DOMAIN operands[f] :
     LET operand == operands[f][s] IN
     /\ ~pkg.boundary /\ IsEmptyInterface(OperandType(operand))
     /\ operand.kind # "typeparam"
     /\ ~(operand.kind = "param" /\ Admitted(operand))}}
-------------------------------------------------------------------------------
(* The handlers of the four rules at one signature.                        *)
Found(f) ==
  IF pkg.fn[f].kind = "extern" \/ pkg.fn[f].generated THEN {}
  ELSE AnyParams(f) \cup AnyReturns(f) \cup InterfaceReturns(f) \cup AdHocSwitches(f)

Implementing == {pair \in (DOMAIN pkg.embeds) \X Iface : Satisfies(pair[1], pair[2])}

Visit ==
  /\ phase = "run" /\ next < Len(pkg.fn)
  /\ next' = next + 1
  /\ reports' = reports \cup Found(next + 1)
  /\ UNCHANGED <<pkg, source, phase, held>>

Finish ==
  /\ phase = "run" /\ next = Len(pkg.fn)
  /\ phase' = "ran"
  /\ UNCHANGED <<pkg, source, next, reports, held>>

(* The developer runs the rules again, having done some of what they said. *)
Rerun ==
  /\ phase = "edited"
  /\ phase' = "run" /\ next' = 0 /\ reports' = {} /\ held' = Implementing
  /\ UNCHANGED <<pkg, source>>

Edited(r) == phase \in {"ran", "edited"} /\ r \in reports /\ phase' = "edited" /\ reports' = reports \ {r}

(* "Return the concrete type": the positions of the field that build it.   *)
Narrow(r) ==
  /\ Edited(r) /\ r.rule = "nointerfacereturn"
  /\ LET Narrowed(k) ==
           [i \in 1..results[r.fn][k].span |->
              [span |-> 1, type |-> IF SingleConcrete(r.fn, Before(r.fn, k - 1) + i) = r.built
                                    THEN r.built ELSE results[r.fn][k].type]]
     IN results' = [results EXCEPT ![r.fn] =
          FlattenSeq([k \in DOMAIN @ |-> IF Positions(r.fn, k) \subseteq r.at THEN Narrowed(k) ELSE <<@[k]>>])]
  /\ UNCHANGED <<pkg, params, comment, operands, next, held>>

(* A named domain type in the place of any.                                *)
RetypeParam(f, k) ==
  /\ params' = [params EXCEPT ![f][k].type = Payload]
  /\ UNCHANGED <<pkg, results, comment, operands, next, held>>

RetypeResult(f, at) ==
  /\ results' = [results EXCEPT ![f] =
       [k \in DOMAIN @ |-> IF Positions(f, k) \subseteq at THEN [@[k] EXCEPT !.type = Payload] ELSE @[k]]]
  /\ UNCHANGED <<pkg, params, comment, operands, next, held>>

RetypeOperand(f, s) ==
  /\ operands' = [operands EXCEPT ![f][s].type = Payload]
  /\ UNCHANGED <<pkg, params, results, comment, next, held>>

OperandOf(r) == operands[r.fn][CHOOSE s \in r.at : TRUE]

Retype(r) ==
  /\ Edited(r)
  /\ \/ r.rule = "noanyparam" /\ \E k \in r.at : RetypeParam(r.fn, k)
     \/ r.rule = "noanyreturn" /\ RetypeResult(r.fn, r.at)
     \/ /\ r.rule = "noadhoctypeswitch"
        /\ \/ OperandOf(r).kind = "param" /\ RetypeParam(OperandOf(r).of, OperandOf(r).field)
           \/ OperandOf(r).kind # "param" /\ \E s \in r.at : RetypeOperand(r.fn, s)

(* A comment that names the API.  Above a documented declaration it joins  *)
(* the doc comment, and then only the marker helps.                        *)
Comment(r) ==
  /\ Edited(r)
  /\ r.rule = "noadhoctypeswitch" => OperandOf(r).kind = "param"
  /\ LET f == IF r.rule = "noadhoctypeswitch" THEN OperandOf(r).of ELSE r.fn IN
     \E marker \in {comment[f].marker, TRUE} :
       comment' = [comment EXCEPT ![f] = [above |-> TRUE, doc |-> @.doc, marker |-> marker]]
  /\ comment' # comment
  /\ UNCHANGED <<pkg, params, results, operands, next, held>>

Init ==
  /\ pkg \in Packages
  /\ params = pkg.params /\ results = pkg.results
  /\ comment = pkg.comment /\ operands = pkg.operands
  /\ phase = "run" /\ next = 0 /\ reports = {}
  /\ held = Implementing

Obey(r) == Narrow(r) \/ Retype(r) \/ Comment(r)

Next == Visit \/ Finish \/ Rerun \/ \E r \in reports : Obey(r)

(* The rules run to their end, and the developer who has reports acts on   *)
(* one of them and runs the rules again.                                   *)
Fairness == WF_vars(Visit \/ Finish) /\ WF_vars(Rerun) /\ WF_vars(\E r \in reports : Obey(r))

Spec == Init /\ [][Next]_vars /\ Fairness
-------------------------------------------------------------------------------
TypeOK ==
  /\ phase \in {"run", "ran", "edited"} /\ next \in 0..Len(pkg.fn)
  /\ \A r \in reports :
       /\ r.fn \in 1..next /\ r.built \in Concrete \cup {NoType}
       /\ r.rule = "nointerfacereturn" <=> r.built # NoType
  /\ \A f \in Func :
       /\ Len(ResultTypes(f)) = Count(pkg.results[f])
       /\ \A k \in DOMAIN results[f] : results[f][k].type \in Concrete \cup Interface
  /\ held \subseteq (DOMAIN pkg.embeds) \X Iface

(* What the type at one position must be, if one thing is changed.         *)
WithResult(f, pos, t, g) == IF f = g THEN [ResultTypes(g) EXCEPT ![pos] = t] ELSE ResultTypes(g)

StillSatisfies(t, iface, f, pos, type) ==
  \A m \in MethodsOf(iface) :
    \E g \in MethodSet(t) :
      /\ pkg.fn[g].name = pkg.fn[m].name
      /\ ParamTypes(g) = ParamTypes(m) /\ Variadic(g) = Variadic(m)
      /\ WithResult(f, pos, type, g) = ResultTypes(m)

(* "An interface of the package under analysis fixes the result too", an   *)
(* unexported one as well; of an imported package, an exported one.        *)
FixesResults(i) ==
  pkg.ifaces[i].package /\ pkg.ifaces[i].methodSet /\ (pkg.ifaces[i].home \/ pkg.ifaces[i].exported)

(* Narrowing this result takes an interface that the rule reads from the   *)
(* type of the method.                                                     *)
Breaks(f, pos, type) ==
  \E i \in {i \in Iface : FixesResults(i)} :
    /\ pkg.fn[f].owner # "" /\ Satisfies(pkg.fn[f].owner, i)
    /\ ~StillSatisfies(pkg.fn[f].owner, i, f, pos, type)

(* Every value that a statement gives is one of the declared type.         *)
Assignable(from, to) ==
  \/ from = to
  \/ from = Nil /\ to \in Nillable \cup Interface
  \/ from \in Concrete /\ to \in Interface
  \/ from \in Interface /\ to \in {AnyType, Payload}

(* The value that a return statement writes down or gets from a call.      *)
GivenType(f, ret, pos) == IF ret = <<>> THEN ResultTypes(f)[pos] ELSE ReturnedType(f, ret, pos)
-------------------------------------------------------------------------------
(* The values of a place: a naked return gives the result variable, whose  *)
(* type is the declared one.                                               *)
Given(f, pos) == {GivenType(f, pkg.fn[f].returns[i], pos) : i \in DOMAIN pkg.fn[f].returns}

Builds(f, pos, type) == type \in Given(f, pos) /\ Given(f, pos) \subseteq {type, Nil}

(* The body proves that the k-th field of results can name the type, and   *)
(* neither a comment nor an interface stands against it.                   *)
Warranted(f, k, pos, type) ==
  /\ pkg.fn[f].kind = "decl" /\ ~pkg.fn[f].generated
  /\ results[f][k].type \in Interface \ {AnyType, Error, Generic}
  /\ Builds(f, pos, type)
  /\ comment[f].above => comment[f].doc /\ ~comment[f].marker
  /\ ~Breaks(f, pos, type)

Advice(f, k, pos, type) ==
  [rule |-> "nointerfacereturn", fn |-> f, at |-> Positions(f, k),
   built |-> type, orNil |-> Nil \in Given(f, pos)]

(* After a run G09 has reported a field of results with a type (or nil)    *)
(* exactly if the body gives values of that one concrete type at a place   *)
(* of the field, nothing justifies the signature, and narrowing the result *)
(* would take no interface that the rule reads from the receiver           *)
(* (nointerfacereturn.go:187 and :208, signature.go:189 together): "it     *)
(* reports a result only when the body proves the conclusion", and the     *)
(* exemption is given where the author cannot follow the advice, and       *)
(* nowhere else.                                                           *)
ReportsExact ==
  phase = "ran" =>
    /\ \A r \in reports : r.rule = "nointerfacereturn" =>
         \E k \in DOMAIN results[r.fn] : \E pos \in Positions(r.fn, k) :
           Warranted(r.fn, k, pos, r.built) /\ r = Advice(r.fn, k, pos, r.built)
    /\ \A f \in Func : \A k \in DOMAIN results[f] : \A pos \in Positions(f, k), type \in Concrete :
         Warranted(f, k, pos, type) => Advice(f, k, pos, type) \in reports

(* A body compiles whichever reports the developer has followed, and in    *)
(* whichever order, stale ones of the same run among them: a result that   *)
(* was narrowed takes what every return gives, the results of other        *)
(* functions that were narrowed before included.  The one exception is nil *)
(* for a type that has none (nointerfacereturn.go:216).                    *)
BodyBuilds ==
  \A f \in Func : pkg.fn[f].kind = "decl" =>
    \A i \in DOMAIN pkg.fn[f].returns : \A pos \in DOMAIN ResultTypes(f) :
      LET given == GivenType(f, pkg.fn[f].returns[i], pos)
          type  == ResultTypes(f)[pos]
      IN Assignable(given, type) \/ (given = Nil /\ type \in Concrete \ Nillable)

(* A narrowed method keeps every interface that the rule reads and that    *)
(* its receiver implemented when the run began, also after other reports   *)
(* of that run were followed: "The advice of the rule must compile".       *)
NarrowKeeps ==
  [][\A r \in reports : Narrow(r) =>
       \A pair \in held :
         (pair[1] = pkg.fn[r.fn].owner /\ FixesResults(pair[2]) /\ Satisfies(pair[1], pair[2])) =>
           Satisfies(pair[1], pair[2])']_vars

(* A type switch on a parameter of type any is reported exactly if G03     *)
(* reports the parameter, or would but for its name (002: "The two other   *)
(* exemptions of G03 are no evidence here"): group by group and index by   *)
(* index, a literal and its surroundings, the two rules answer alike.      *)
SwitchAgrees ==
  phase = "ran" =>
    \A f \in Func : \A s \in DOMAIN operands[f] :
      LET operand == operands[f][s] IN
      (operand.kind = "param" /\ OperandType(operand) = AnyType /\ ~pkg.boundary
         /\ ~pkg.fn[f].generated) =>
        (Report("noadhoctypeswitch", f, {s}) \in reports <=>
           \/ Report("noanyparam", operand.of, {operand.field}) \in reports
           \/ WrapsCause(params[operand.of][operand.field]) /\ ~Admitted(operand))

(* Whoever does what the reports say comes to an end, whichever of them he *)
(* follows and however he mixes the answers: the advice of one rule raises *)
(* a report of another one finitely often, and the rules then stay silent. *)
Settles == <>[](phase = "ran" /\ reports = {})
===============================================================================
