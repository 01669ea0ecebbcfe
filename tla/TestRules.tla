------------------------------- MODULE TestRules ------------------------------
(***************************************************************************)
(* The rules that read the code of tests: G07 noreflect, G08               *)
(* nomonkeypatch, G13 errsemantics and G14 separategotwant                 *)
(* (src/analyzers), over the test-packages setting they share.             *)
(*                                                                         *)
(* A developer writes the nodes of a package, one after another; an        *)
(* analyzer visits those of its kind, in source order or, where it ranges  *)
(* over a map, in any order; then the test statements run, in any order.   *)
(* The index of a node is its position.                                    *)
(***************************************************************************)
EXTENDS PathMatch, FiniteSets

CONSTANTS
  File, TestNamed,  (* the files; those whose names end in _test.go        *)
  Confs,            (* the package paths and settings to consider          *)
  Nodes,            (* the nodes a developer writes                        *)
  Most,             (* Most[k]: bound on the nodes of a package of kind k  *)
  Var, NoVar,       (* the variables, and the absence of one               *)
  Decl,             (* Decl[v]: the scope, package and file of v           *)
  Type,             (* Type[v]                                             *)
  Elem,             (* Elem[t][s]: the type that step s leads to from t    *)
  Own, Fake,        (* behaviour of production, behaviour of a test        *)
  Boot,             (* the memory when the tests start                     *)
  Holds,            (* Holds[p]: the type of what p holds: a cell, a struct*)
  Seam,             (* the behaviour that production reads, as targets     *)
  Word              (* the messages an error can carry                     *)

Behaviour == {"func", "interface"}

ASSUME DeclAssumption ==
  /\ NoVar \notin Var
  /\ Decl \in [Var -> [scope : {"package", "block"}, path : Seq(Char), test : BOOLEAN]]
  /\ TestNamed \subseteq File
  /\ Own # Fake

ASSUME ConfAssumption ==
  /\ Confs # {}
  /\ \A c \in Confs :
       /\ c.path \in Seq(Char) /\ c.equality \in BOOLEAN
       /\ {c.allow, c.testPackages} \subseteq Seq(Seq(Char \cup {Star, Dots}))

(* A call stands below an earlier one of the walk; 0 is for the first.     *)
Calls == {calls \in Seq([callee : STRING, takes : BOOLEAN, up : Nat, slot : Nat, lit : BOOLEAN]) :
            \A k \in DOMAIN calls : calls[k].up < k}

ASSUME NodeAssumption ==
  \A n \in Nodes :
    /\ n.kind \in {"import", "use", "assign", "check", "calls"} /\ n.file \in File
    /\ n.kind = "calls" => n.calls \in Calls

VARIABLES
  phase,      (* "write", then "pass", then "run"                          *)
  nodes,
  conf,       (* the package path and the settings of the pass             *)
  generated,  (* the files with a generated header                         *)
  unread,     (* the visits the pass has still to make                     *)
  first,      (* noreflect: the earliest use beyond DeepEqual, 0 for none  *)
  reported,   (* separategotwant: the positions reported                   *)
  reports,
  mem,        (* run time: what each cell holds                            *)
  ran         (* run time: the statements that have run                    *)

vars == <<phase, nodes, conf, generated, unread, first, reported, reports, mem, ran>>

At(kind) == {i \in DOMAIN nodes : nodes[i].kind = kind}

TestFile(f) == IsTestPackage(conf.testPackages, conf.path) \/ f \in TestNamed

(* The files that G08, G13 and G14 read, and whose uses G07 reads.         *)
Judged(f) == TestFile(f) /\ f \notin generated
-------------------------------------------------------------------------------
(* G07: the import is the decision; in a test file, the use is.            *)

Allowed == MatchAny(conf.allow, Trimmed(conf.path))

ReflectImports(f) == {i \in At("import") : nodes[i].file = f}

(* tests: the test files that import reflect, or none after a return.      *)
ReflectTests ==
  IF Allowed THEN {} ELSE {f \in File : Judged(f) /\ ReflectImports(f) # {}}

ImportReports ==
  IF Allowed THEN {}
  ELSE {[rule |-> "noreflect", at |-> <<i, 1>>, by |-> <<i, 1>>] :
          i \in {j \in At("import") : ~TestFile(nodes[j].file) /\ nodes[j].file \notin generated}}

(* Mutant: the first identifier that the map yields stays.                 *)
StaysAnyway(f, i) == nodes[i].name = "DeepEqual" \/ first[f] # 0

(* Mutant: DeepEqual is a use like any other.                              *)
StaysEarlier(f, i) == first[f] # 0 /\ first[f] <= i

Stays(f, i) == nodes[i].name = "DeepEqual" \/ (first[f] # 0 /\ first[f] <= i)

(* for ident, object := range pass.TypesInfo.Uses, in the order of a map.  *)
ReadUse(i) ==
  LET f == nodes[i].file IN
  /\ phase = "pass" /\ nodes[i].kind = "use" /\ <<i, 1>> \in unread
  /\ first' = IF Stays(f, i) THEN first ELSE [first EXCEPT ![f] = i]
  /\ unread' = unread \ {<<i, 1>>}
  /\ UNCHANGED <<phase, nodes, conf, generated, reported, reports, mem, ran>>

BeyondReports ==
  {[rule |-> "noreflect", at |-> <<first[f], 1>>, by |-> <<first[f], 1>>] :
     f \in {g \in ReflectTests : first[g] # 0}}
-------------------------------------------------------------------------------
(* G08.  A target is a variable under a list of steps: "star", "index",    *)
(* the name of a field, or "call" for *addressOf(&x), the place of x again.*)

(* Mutant: the walk from a target to its variable stops at an index.       *)
RootNoIndex(t) ==
  IF \E k \in DOMAIN t.steps : t.steps[k] \in {"call", "index"} THEN NoVar ELSE t.root

RootVariable(t) == IF \E k \in DOMAIN t.steps : t.steps[k] = "call" THEN NoVar ELSE t.root

PackageLevel(v) == Decl[v].scope = "package"

(* The variable is production state: no test file declares it, and no      *)
(* pattern names its package.                                              *)
ProductionIn(c, v) ==
  /\ PackageLevel(v)
  /\ ~Decl[v].test
  /\ ~IsTestPackage(c.testPackages, Decl[v].path)

Production(v) == ProductionIn(conf, v)

(* The types on the way to a target.                                       *)
TypesTo(t) ==
  LET walk[k \in 0..Len(t.steps)] ==
        IF k = 0 THEN Type[t.root]
        ELSE IF t.steps[k] = "call" THEN walk[k - 1]
        ELSE Elem[walk[k - 1]][t.steps[k]]
  IN walk

TypeAt(t) == TypesTo(t)[Len(t.steps)]

HoldsBehaviour(t) == TypeAt(t) \in Behaviour

Patches(t) ==
  /\ RootVariable(t) # NoVar
  /\ Production(RootVariable(t))
  /\ HoldsBehaviour(t)

InOrder(i, k) == \A v \in unread : v[1] > i \/ (v[1] = i /\ v[2] >= k)

(* One target of an assignment, or of a range clause with "=".             *)
ReadAssign(i) ==
  /\ phase = "pass" /\ nodes[i].kind = "assign"
  /\ <<i, 1>> \in unread /\ InOrder(i, 1)
  /\ reports' = IF Judged(nodes[i].file) /\ Patches(nodes[i])
                THEN reports \cup {[rule |-> "nomonkeypatch", at |-> <<i, 1>>, by |-> <<i, 1>>]}
                ELSE reports
  /\ unread' = unread \ {<<i, 1>>}
  /\ UNCHANGED <<phase, nodes, conf, generated, first, reported, mem, ran>>

(* A cell is a variable or an object, and the fields on the way to a leaf; *)
(* a leaf holds behaviour, data or the object that it refers to.           *)
Object(m, c) == IF c \in DOMAIN m THEN m[c] ELSE c

Place(m, t) ==
  LET walk[k \in 0..Len(t.steps)] ==
        IF k = 0 THEN <<t.root>>
        ELSE IF t.steps[k] = "call" THEN walk[k - 1]
        ELSE Append(Object(m, walk[k - 1]), t.steps[k])
  IN walk[Len(t.steps)]

(* What the statement assigns: a value, or what a variable holds.          *)
Assigned(m, n) == IF n.from = NoVar THEN n.value ELSE m[<<n.from>>]

(* A leaf is overwritten; a struct is copied leaf by leaf.                 *)
Stored(m, n) ==
  LET c == Place(m, n) IN
  IF c \in DOMAIN m THEN [m EXCEPT ![c] = Assigned(m, n)]
  ELSE [d \in DOMAIN m |->
          IF IsPrefix(c, d) THEN m[Assigned(m, n) \o SubSeq(d, Len(c) + 1, Len(d))] ELSE m[d]]

(* A value of type t: where a step of t leads, there is what t says.       *)
Fits(x, t) ==
  t \in DOMAIN Elem =>
    \A s \in DOMAIN Elem[t] : Append(x, s) \in DOMAIN Holds /\ Holds[Append(x, s)] = Elem[t][s]

(* The names of variables, objects and steps; a path is made of them.      *)
Symbol == STRING
Path == Seq(Symbol) \ {<<>>}

(* The variables and the objects.                                          *)
Heads == {p[1] : p \in DOMAIN Holds}

(* The memory is typed, as the compiler has it: the structs of a type have *)
(* the same cells, and behaviour is a value and refers to no container.    *)
ASSUME MemoryAssumption ==
  /\ DOMAIN Boot \subseteq DOMAIN Holds /\ DOMAIN Holds \subseteq Path
  /\ \A d \in DOMAIN Boot : Boot[d] \in Path
  /\ \A p \in DOMAIN Holds : Fits(Object(Boot, p), Holds[p])
  /\ \A p, q \in DOMAIN Holds : Holds[p] = Holds[q] =>
       \A d \in DOMAIN Boot : IsPrefix(p, d) =>
         LET e == q \o SubSeq(d, Len(p) + 1, Len(d)) IN e \in DOMAIN Boot /\ Holds[e] = Holds[d]
  /\ \A v \in Var : <<v>> \in DOMAIN Holds /\ Holds[<<v>>] = Type[v]
  /\ {Own, Fake} \subseteq Path /\ Own[1] \notin Heads /\ Fake[1] \notin Heads
  /\ Behaviour \cap DOMAIN Elem = {}
  /\ \A p \in DOMAIN Holds : Holds[p] \in Behaviour => p \in DOMAIN Boot /\ Boot[p] \in {Own, Fake}

(* Targets are typed too; a test assigns values of the target's type, and  *)
(* to the behaviour of production, which the seam covers, that of a test.  *)
IsTarget(t) ==
  /\ t.root \in Var /\ t.steps \in Seq(Symbol)
  /\ \A k \in DOMAIN t.steps : t.steps[k] # "call" =>
       LET u == TypesTo(t)[k - 1] IN u \in DOMAIN Elem /\ t.steps[k] \in DOMAIN Elem[u]

Assigns == {n \in Nodes : n.kind = "assign"}

ASSUME TargetAssumption ==
  /\ \A t \in Seam : IsTarget(t) /\ TypeAt(t) \in Behaviour
  /\ \A n \in Assigns :
       /\ IsTarget(n) /\ n.from \in Var \cup {NoVar} /\ n.value \in Path
       /\ IF n.from # NoVar
          THEN /\ <<n.from>> \in DOMAIN Boot
               /\ Type[n.from] = TypeAt(n) \/ {Type[n.from], TypeAt(n)} \subseteq Behaviour
          ELSE /\ TypeAt(n) \in Behaviour => n.value \in {Own, Fake}
               /\ Fits(n.value, TypeAt(n))
               /\ (\E p \in DOMAIN Holds \ DOMAIN Boot : Holds[p] = TypeAt(n)) =>
                    n.value \in DOMAIN Holds /\ Holds[n.value] = TypeAt(n)
       /\ PackageLevel(n.root) /\ ~Decl[n.root].test
          /\ RootVariable(n) # NoVar /\ HoldsBehaviour(n) =>
            [root |-> n.root, steps |-> n.steps] \in Seam /\ Assigned(Boot, n) = Fake

(* What production owns, under the settings c: when the tests start, no    *)
(* container passes between it and the rest, and it does what is its own.  *)
(* A statement names an object only where it makes one.                    *)
Owned(c, held) ==
  /\ \A v \in Var : v \in held <=> ProductionIn(c, v)
  /\ \A d \in DOMAIN Boot :
       /\ Boot[d][1] \in Heads => (d[1] \in held <=> Boot[d][1] \in held)
       /\ d[1] \in held /\ Holds[d] \in Behaviour => Boot[d] = Own
  /\ \A n \in Assigns : n.value[1] \in held => n.value[1] \in Var

ASSUME OwnedAssumption == \A c \in Confs : \E held \in SUBSET Heads : Owned(c, held)

Execute(i) ==
  /\ phase = "run" /\ nodes[i].kind = "assign"
  /\ Judged(nodes[i].file)
  /\ mem' = Stored(mem, nodes[i])
  /\ ran' = ran \cup {i}
  /\ UNCHANGED <<phase, nodes, conf, generated, unread, first, reported, reports>>
-------------------------------------------------------------------------------
(* G13.  An argument is the testing value, an Error call ("text"), an      *)
(* error, or another string; a message in a variable is another string.    *)

FormOf(n) ==
  CASE n.fn \in {"strings.Contains", "regexp.MatchString"} -> "text"
    [] n.fn \in {"ErrorContains", "Regexp"}                -> "errorText"
    [] n.fn = "EqualError"                                 -> "equalityValue"
    [] n.fn = "Equal"                                      -> "equalityText"
    [] n.fn \in {"==", "Errorf"}                           -> "none"

(* Mutant: the receiver form keeps the width of the package form.          *)
AssertArgsWide(n) ==
  IF FormOf(n) \in {"none", "text"} THEN n.args
  ELSE SubSeq(n.args, 1, IF Len(n.args) < 3 THEN Len(n.args) ELSE 3)

AssertArgs(n) ==
  LET positions == IF n.method THEN 2 ELSE 3 IN
  IF FormOf(n) \in {"none", "text"} THEN n.args
  ELSE SubSeq(n.args, 1, IF Len(n.args) < positions THEN Len(n.args) ELSE positions)

HasErrorText(args) == "text" \in Range(args)
HasErrorValue(args) == "error" \in Range(args)

CheckCall(n) ==
  LET args == AssertArgs(n) IN
  CASE FormOf(n) = "text"          -> HasErrorText(args)
    [] FormOf(n) = "errorText"     -> HasErrorText(args) \/ HasErrorValue(args)
    [] FormOf(n) = "equalityValue" -> conf.equality /\ (HasErrorText(args) \/ HasErrorValue(args))
    [] FormOf(n) = "equalityText"  -> conf.equality /\ HasErrorText(args)
    [] FormOf(n) = "none"          -> FALSE

CheckComparison(n) == n.fn = "==" /\ conf.equality /\ HasErrorText(n.args)

ReadCheck(i) ==
  /\ phase = "pass" /\ nodes[i].kind = "check"
  /\ <<i, 1>> \in unread /\ InOrder(i, 1)
  /\ reports' = IF Judged(nodes[i].file) /\ (CheckCall(nodes[i]) \/ CheckComparison(nodes[i]))
                THEN reports \cup {[rule |-> "errsemantics", at |-> <<i, 1>>, by |-> <<i, 1>>]}
                ELSE reports
  /\ unread' = unread \ {<<i, 1>>}
  /\ UNCHANGED <<phase, nodes, conf, generated, first, reported, mem, ran>>

(* What the check compares, where the error of argument k has message w[k]:*)
(* testify asks an error for its message, and Equal and == do not.         *)
Operand(n, k, w) ==
  IF k > Len(n.args) THEN "pattern"
  ELSE CASE n.args[k] = "text"                  -> w[k]
         [] n.args[k] = "error"                 -> IF n.fn \in {"Equal", "=="} THEN "value" ELSE w[k]
         [] n.args[k] \in {"string", "testing"} -> "pattern"

Testify == {"ErrorContains", "Regexp", "EqualError", "Equal"}

(* The first of the two arguments that the check compares.                 *)
Left(n) == IF n.fn \in Testify /\ ~n.method THEN 2 ELSE 1

Outcome(n, w) == n.fn # "Errorf" /\ Operand(n, Left(n), w) = Operand(n, Left(n) + 1, w)

(* Equal takes values of any type, and never finds an error equal to a     *)
(* message: such a check fails whatever the message is.                    *)
NeverEqual(n) == n.fn = "Equal" /\ {n.args[Left(n)], n.args[Left(n) + 1]} = {"error", "text"}

(* The arguments that the Go types of these functions admit: the testing   *)
(* value comes first, a function of strings takes no error, and == has no  *)
(* error beside a string.                                                  *)
ASSUME CheckAssumption ==
  /\ "pattern" \in Word /\ "value" \notin Word /\ Word # {"pattern"}
  /\ \A n \in {m \in Nodes : m.kind = "check"} :
       LET a == Left(n) IN
       /\ n.fn \in Testify \cup {"strings.Contains", "regexp.MatchString", "==", "Errorf"}
       /\ n.method \in BOOLEAN /\ n.args \in Seq({"testing", "text", "error", "string"})
       /\ n.fn \in Testify =>
            /\ Len(n.args) > a
            /\ a = 2 => n.args[1] = "testing"
            /\ {n.args[a], n.args[a + 1]} \subseteq {"text", "error", "string"}
       /\ n.fn \in {"strings.Contains", "regexp.MatchString"} =>
            Len(n.args) <= 2 /\ Range(n.args) \subseteq {"text", "string"}
       /\ n.fn = "==" => Len(n.args) = 2 /\ "testing" \notin Range(n.args)
       /\ n.fn = "==" => (n.args[a] = "error" <=> n.args[a + 1] = "error")
-------------------------------------------------------------------------------
(* G14.  A node of nested calls lists them in the order of the walk: call  *)
(* k stands in argument `slot` of call `up`, or in its callee where slot   *)
(* is 0, and in the body of a function literal there where `lit` holds.    *)

(* The position of a call is that of its callee.                           *)
StartOf(calls, k) ==
  LET start[j \in 1..Len(calls)] ==
        IF j < Len(calls) /\ calls[j + 1].up = j /\ calls[j + 1].slot = 0 /\ ~calls[j + 1].lit
        THEN start[j + 1] ELSE j
  IN start[k]

IsAssertion(call) == call.callee \in {"require.Equal", "Assertions.Equal", "cmp.Diff"}

(* The testing value of a package-level testify function is no value.      *)
ValueSlot(call, slot) == IF call.callee = "require.Equal" THEN slot > 1 ELSE slot > 0

(* ast.Inspect of the value arguments of call k, to the function literals. *)
Reached(calls, k) ==
  LET reach[j \in 1..Len(calls)] ==
        /\ j > k /\ ~calls[j].lit
        /\ \/ calls[j].up = k /\ ValueSlot(calls[k], calls[j].slot)
           \/ calls[j].up > k /\ reach[calls[j].up]
  IN IF IsAssertion(calls[k]) THEN {j \in 1..Len(calls) : reach[j]} ELSE {}

TakesTestingValue(call) == call.callee # "conversion" /\ call.takes

(* The positions of the calls below assertion k that take a testing value. *)
Found(i, k) ==
  LET calls == nodes[i].calls IN
  {<<i, StartOf(calls, j)>> : j \in {l \in Reached(calls, k) : TakesTestingValue(calls[l])}}

(* Mutant: a call that two assertions hold is reported by each.            *)
FoundAgain(i, k) == Found(i, k)

Fresh(i, k) == Found(i, k) \ reported

(* reportArguments, for the call expression that insp.Preorder is at.      *)
ReadCall(i, k) ==
  LET fresh == IF Judged(nodes[i].file) THEN Fresh(i, k) ELSE {} IN
  /\ phase = "pass" /\ nodes[i].kind = "calls"
  /\ <<i, k>> \in unread /\ InOrder(i, k)
  /\ reports' = reports \cup {[rule |-> "separategotwant", at |-> p, by |-> <<i, k>>] : p \in fresh}
  /\ reported' = reported \cup fresh
  /\ unread' = unread \ {<<i, k>>}
  /\ UNCHANGED <<phase, nodes, conf, generated, first, mem, ran>>
-------------------------------------------------------------------------------
KindOf(n) == IF n.kind \in {"import", "use"} THEN "reflect" ELSE n.kind

(* Bound: the nodes of a package are of one kind, that one rule reads.  A  *)
(* use of reflect stands in a file that imports it.                        *)
Write(n) ==
  /\ phase = "write"
  /\ Len(nodes) < Most[KindOf(n)]
  /\ nodes # <<>> => KindOf(nodes[1]) = KindOf(n)
  /\ n.kind = "use" => \E j \in DOMAIN nodes : nodes[j].kind = "import" /\ nodes[j].file = n.file
  /\ nodes' = Append(nodes, n)
  /\ UNCHANGED <<phase, conf, generated, unread, first, reported, reports, mem, ran>>

Visits(i) == IF nodes[i].kind = "calls" THEN DOMAIN nodes[i].calls ELSE {1}

(* The pass of the rule starts, under one configuration; G07 ranges over   *)
(* the files, and over the uses only where a test file imports reflect.    *)
StartPass(c, g) ==
  /\ phase = "write" /\ nodes # <<>>
  /\ UNCHANGED <<nodes, first, reported, mem, ran>>
  /\ phase' = "pass"
  /\ conf' = c /\ generated' = g
  /\ unread' = {v \in UNION {{i} \X Visits(i) : i \in DOMAIN nodes} :
                  /\ nodes[v[1]].kind # "import"
                  /\ nodes[v[1]].kind = "use" => ReflectTests' # {}}
  /\ reports' = ImportReports'

Conclude ==
  /\ phase = "pass" /\ unread = {}
  /\ phase' = "run"
  /\ reports' = reports \cup BeyondReports
  /\ UNCHANGED <<nodes, conf, generated, unread, first, reported, mem, ran>>

Init ==
  /\ phase = "write" /\ nodes = <<>>
  /\ conf = CHOOSE c \in Confs : TRUE
  /\ generated = {} /\ unread = {} /\ reported = {} /\ reports = {} /\ ran = {}
  /\ first = [f \in File |-> 0]
  /\ mem = Boot

Next ==
  \/ \E n \in Nodes : Write(n)
  \/ \E c \in Confs, g \in SUBSET File : StartPass(c, g)
  \/ \E i \in DOMAIN nodes : ReadUse(i)
  \/ \E i \in DOMAIN nodes : ReadAssign(i)
  \/ \E i \in DOMAIN nodes : ReadCheck(i)
  \/ \E i \in DOMAIN nodes : \E k \in Visits(i) : ReadCall(i, k)
  \/ Conclude
  \/ \E i \in DOMAIN nodes : Execute(i)

Spec == Init /\ [][Next]_vars
-------------------------------------------------------------------------------
(* The pass is well formed: what it remembers are uses and calls of the    *)
(* package it has visited, and every report names a visit it has made.     *)
TypeOK ==
  /\ phase \in {"write", "pass", "run"}
  /\ conf \in Confs /\ generated \subseteq File
  /\ \A f \in File : first[f] # 0 =>
       /\ first[f] \in At("use") /\ nodes[first[f]].file = f
       /\ nodes[first[f]].name # "DeepEqual" /\ <<first[f], 1>> \notin unread
  /\ \A p \in reported : p[1] \in At("calls")
  /\ \A r \in reports : r.at[1] \in DOMAIN nodes /\ r.by \notin unread
  /\ ran \subseteq At("assign")
  /\ DOMAIN mem = DOMAIN Boot

(* docs/spec/002-rules.md of G07: a production file reports at each import *)
(* of reflect, a test file once, "at the first use that is not DeepEqual", *)
(* whatever the order in which the driver walked; a package that a pattern *)
(* allows, and a generated file, do not report.                            *)
ReflectDocumented ==
  LET test(f) == f \in TestNamed \/ ServesTests(conf.testPackages, conf.path)
      beyond(f) == {i \in At("use") : nodes[i].file = f /\ nodes[i].name # "DeepEqual"}
  IN phase = "run" =>
       {r.at[1] : r \in {q \in reports : q.rule = "noreflect"}} =
         {i \in At("import") \cup At("use") :
            LET f == nodes[i].file IN
            /\ ~ServesTests(conf.allow, conf.path) /\ f \notin generated
            /\ IF test(f) THEN i \in beyond(f) /\ \A j \in beyond(f) : i <= j
               ELSE i \in At("import")}

(* What production reads, under those variables that no test owns.         *)
Observed(m) == [t \in {s \in Seam : Production(s.root)} |-> m[Place(m, t)]]

(* A container passes between production and the tests: one of production  *)
(* is replaced, its address is taken, or a variable of a test takes it.    *)
HandsOver(n) ==
  \/ "call" \in Range(n.steps)
  \/ /\ TypeAt(n) \notin Behaviour
     /\ \E v \in {n.root, n.from, n.value[1]} \cap Var : Production(v)

(* "A test must not rewire production code through a mutable global": as   *)
(* long as no container passes between production and the tests, what      *)
(* production reads changes only by a statement that G08 reports, in every *)
(* order of the statements; and each of those does change it.              *)
SeamsKept ==
  LET patches == {r.at[1] : r \in {q \in reports : q.rule = "nomonkeypatch"}} IN
  phase = "run" /\ At("assign") # {} =>
    /\ Observed(mem) # Observed(Boot) =>
         \E i \in ran : i \in patches \/ HandsOver(nodes[i])
    /\ \A i \in patches : Observed(Stored(Boot, nodes[i])) # Observed(Boot)

(* "A test that matches the message of an error fails after a reword": a   *)
(* check is reported exactly where its outcome changes with the message of *)
(* an error, the two equality forms only under the equality setting, and a *)
(* message that is printed with the failure decides nothing.  The          *)
(* exception is a check that can never pass, Equal of an error and of a    *)
(* message, which is reported as well (errsemantics.go:255).               *)
TextDecides ==
  phase = "run" =>
    \A i \in {j \in At("check") : ~NeverEqual(nodes[j])} :
      (\E r \in reports : r.at[1] = i) <=>
        /\ Judged(nodes[i].file)
        /\ \E w, u \in [1..4 -> Word] : Outcome(nodes[i], w) # Outcome(nodes[i], u)
        /\ nodes[i].fn \in {"Equal", "EqualError", "=="} => conf.equality

(* Call j is a nested call of an assertion of docs/spec/002-rules.md: the  *)
(* calls on the way up from j lead to a value argument of it, and no       *)
(* function literal lies between.                                          *)
Nested(calls, j) ==
  \E k \in 1..Len(calls) : \E way \in SUBSET (1..Len(calls)) :
    /\ IsAssertion(calls[k]) /\ j \in way
    /\ \A x \in way :
         /\ ~calls[x].lit
         /\ \/ calls[x].up \in way
            \/ /\ calls[x].up = k
               /\ calls[x].slot >= IF calls[k].callee = "require.Equal" THEN 2 ELSE 1

(* The nested calls that take a testing value.                             *)
NestedCalls(calls) ==
  {j \in 1..Len(calls) : calls[j].takes /\ calls[j].callee # "conversion" /\ Nested(calls, j)}

(* Those that start where another of them does: the calls of a chain, such *)
(* as a(t).b(t).                                                           *)
Chained(calls) ==
  {j \in NestedCalls(calls) : \E l \in NestedCalls(calls) \ {j} : StartOf(calls, l) = StartOf(calls, j)}

(* An expression without a chain gets as many reports of G14 as it has     *)
(* nested calls that take a testing value, one at each, also where two     *)
(* assertions reach a call, and there is none anywhere else.  For a chain, *)
(* whose calls share a position and the one report there                   *)
(* (separategotwant.go:208), it says only that the position is reported:   *)
(* see EachCallReported.                                                   *)
NestedOnce ==
  phase = "run" =>
    \A i \in At("calls") :
      LET calls == nodes[i].calls
          nested == NestedCalls(calls)
          at(j) == {r \in reports : r.at = <<i, StartOf(calls, j)>>}
          here == {r \in reports : r.at[1] = i}
      IN IF Judged(nodes[i].file)
         THEN /\ Chained(calls) = {} => Cardinality(here) = Cardinality(nested)
              /\ \A j \in nested : Cardinality(at(j)) = 1
              /\ \A r \in here : \E j \in nested : r \in at(j)
         ELSE here = {}

(* docs/spec/002-rules.md: "Each nested call gets one report, at the call, *)
(* also where two assertions reach it": there are as many reports as       *)
(* nested calls, chains included.                                          *)
EachCallReported ==
  phase = "run" =>
    \A i \in {j \in At("calls") : Judged(nodes[j].file)} :
      Cardinality({r \in reports : r.at[1] = i}) = Cardinality(NestedCalls(nodes[i].calls))
===============================================================================
