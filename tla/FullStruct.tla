------------------------------- MODULE FullStruct -------------------------------
(***************************************************************************)
(* Rule G12, fullstructcomp: the assertions of one test function name the  *)
(* fields of one value one at a time, and one comparison of the whole      *)
(* value would state them all (analyzers/fullstructcomp).                  *)
(*                                                                         *)
(* The inspector visits the sites of a function in the order of the        *)
(* source; its end reads what they left, iterating over the fields of a    *)
(* base in an order that Go leaves open.                                   *)
(***************************************************************************)
EXTENDS Integers, Sequences, FiniteSets, SequencesExt

CONSTANTS
  Type, NoType,
  Kind,       (* Kind[t]: what go/types says the type is                   *)
  Of,         (* Of[t]: what a named type stands for, what a container     *)
              (* holds; NoType for the others                              *)
  Fields,     (* Fields[t]: the fields of a struct, in order               *)
  HasEqual,   (* the types with an Equal method that cmp can call          *)
  Name,       (* the names of fields                                       *)
  Var, VarType,
  Site,       (* the statements that a function may hold                   *)
  MinFields, MaxIgnore,  (* the settings of the rule                       *)
  MaxDepth,
  InlineFieldThreshold,
  MaxSites    (* bound on the statements of a function                     *)

Container == {"pointer", "slice", "array", "map"}

ASSUME TypeGraphAssumption ==
  /\ NoType \notin Type
  /\ Kind \in [Type -> {"named", "struct", "basic"} \cup Container]
  /\ Of \in [Type -> Type \cup {NoType}]
  /\ \A t \in Type : Of[t] # NoType <=> Kind[t] \in {"named"} \cup Container
  /\ Fields \in [Type -> Seq([name : Name, type : Type, exported : BOOLEAN, embedded : BOOLEAN])]
  /\ \A t \in Type : Fields[t] # <<>> => Kind[t] = "struct"
  /\ HasEqual \subseteq Type
  /\ VarType \in [Var -> Type]
  /\ {MinFields, MaxIgnore, MaxDepth, InlineFieldThreshold, MaxSites} \subseteq Nat

VARIABLES
  fn,       (* the statements of the function, as far as it is inspected   *)
  runs,     (* byBase: the run of each base                                *)
  order,    (* the bases, as they first appear                             *)
  elements, (* the elementRuns: for each collection its count and its      *)
            (* first site                                                  *)
  elementOrder,
  reports,
  phase

vars == <<fn, runs, order, elements, elementOrder, reports, phase>>
-------------------------------------------------------------------------------
(* The graph of types.                                                     *)

(* Below[t][k]: the type k steps of Of below t.                            *)
Below ==
  [t \in Type |->
     LET chain[k \in 0..MaxDepth] ==
           IF k = 0 THEN t ELSE IF chain[k - 1] = NoType THEN NoType ELSE Of[chain[k - 1]] IN
     chain]

(* The struct that cmp opens under each type, unless an Equal method stops *)
(* it first; `open` ignores the methods.                                   *)
Structs ==
  [t \in Type |-> [open \in BOOLEAN |->
     LET found == {k \in 0..(MaxDepth - 1) :
                     /\ Below[t][k] # NoType /\ Kind[Below[t][k]] = "struct"
                     /\ open \/ \A j \in 0..k : Below[t][j] \notin HasEqual} IN
     IF found = {} THEN NoType ELSE Below[t][CHOOSE k \in found : TRUE]]]

StructUnder(t, open) == Structs[t][open]

(* cmp calls an Equal method and reads no field.                           *)
EqualStop(t) == StructUnder(t, FALSE) = NoType /\ StructUnder(t, TRUE) # NoType

(* The fields that a selector on a value of the type may name.             *)
Selectable ==
  [t \in Type |-> IF StructUnder(t, TRUE) = NoType THEN {} ELSE Range(Fields[StructUnder(t, TRUE)])]

(* The type at the path of fields p below t; containers are indexed away.  *)
TypeAt(t, p) ==
  LET at[k \in 0..Len(p)] ==
        IF k = 0 THEN t
        ELSE (CHOOSE f \in Selectable[at[k - 1]] : f.name = p[k]).type IN
  at[Len(p)]

(* The type without its containers.                                        *)
Stripped(t) ==
  LET bare[k \in 0..MaxDepth] ==
        IF k = 0 THEN t
        ELSE IF Kind[bare[k - 1]] \in Container THEN Of[bare[k - 1]] ELSE bare[k - 1] IN
  bare[MaxDepth]

SameShape(t, u) == Stripped(t) = Stripped(u)

(* A selector n on a value of type t names a field of t, or one that an    *)
(* embedded struct promotes: the route through those structs.              *)
Promoted(t, n) ==
  LET embedded(s) == {f \in Selectable[s] : f.embedded}
      has(s) == \E f \in Selectable[s] : f.name = n
      middle == {f \in embedded(t) : has(f.type)} IN
  IF has(t) THEN <<n>> ELSE <<(CHOOSE f \in middle : TRUE).name, n>>

(* The path that a chain of selectors on a value of type t names.          *)
PathOf(t, selectors) ==
  FoldLeft(LAMBDA path, n : path \o Promoted(TypeAt(t, path), n), <<>>, selectors)

(* The fields of t that a comparison of values of type t comes to, and     *)
(* those that it panics on; walkType looks under no named container.       *)
Walked(t, all) ==
  LET next(u) ==
        IF u \in HasEqual THEN {}
        ELSE CASE Kind[u] = "struct" -> {f.type : f \in {g \in Range(Fields[u]) : g.exported}}
               [] Kind[u] \in Container -> {Of[u]}
               [] Kind[u] = "named" ->
                    {s \in {Of[u]} : all \/ Kind[s] = "struct"}
               [] OTHER -> {}
      reach[k \in 0..Cardinality(Type)] ==
        IF k = 0 THEN {t}
        ELSE LET before == reach[k - 1] IN before \cup UNION {next(u) : u \in before} IN
  reach[Cardinality(Type)]

Hidden(t, all) ==
  {u \in Walked(t, all) \ HasEqual : \E f \in Range(Fields[u]) : ~f.exported}

(* unexportedField: the message names the option for a hidden field.       *)
NamesOption(t) == Hidden(t, FALSE) # {}

NonTrivial(t) ==
  LET exported == {f \in Selectable[t] : f.exported} IN
  \/ \E f \in exported : StructUnder(f.type, FALSE) # NoType
  \/ Cardinality(exported) >= InlineFieldThreshold

(* The element of a slice or an array, through its name.                   *)
Elem(t) ==
  LET u == IF Kind[t] = "named" THEN Of[t] ELSE t IN
  IF Kind[u] \in {"slice", "array"} THEN Of[u] ELSE NoType

NonTrivialElem(t) == Elem(t) # NoType /\ NonTrivial(Elem(t))
-------------------------------------------------------------------------------
(* Statements: a testify call or a failing if statement with its operands, *)
(* a range clause with the variables it fills, a cmp.Diff call.  The       *)
(* operands that matter are chains of selectors on a variable, constant    *)
(* elements of a variable, and composite literals.                         *)

Sites == DOMAIN fn

Chains(site) == {i \in DOMAIN site.operands : site.operands[i].form = "chain"}
Indexed(site) == {i \in DOMAIN site.operands : site.operands[i].form = "element"}
Literals(site) == {i \in DOMAIN site.operands : site.operands[i].form = "literal"}

(* baseField: the path under its base that an operand names.               *)
Path(operand) == PathOf(VarType[operand.base], operand.selectors)

(* The functions compile: a selector names a field.                        *)
ASSUME SiteAssumption ==
  \A site \in Site :
    /\ site.operands \in Seq([form : {"chain"}, base : Var, selectors : Seq(Name)]
                             \cup [form : {"element"}, base : Var]
                             \cup [form : {"literal"}, type : Type, size : Nat])
    /\ \A i \in Chains(site) :
         LET p == Path(site.operands[i]) IN
         /\ p \in Seq(Name) \ {<<>>}
         /\ \A k \in 1..Len(p) :
              \E f \in Selectable[TypeAt(VarType[site.operands[i].base], SubSeq(p, 1, k - 1))] :
                f.name = p[k]

(* named: the paths under each variable that one site names.               *)
NamedBy ==
  [site \in Site |-> [v \in Var |->
     {Path(site.operands[i]) : i \in {j \in Chains(site) : site.operands[j].base = v}}]]

Named(site) == NamedBy[site]

(* Another variable of the same shape stands beside v with the same path.  *)
Roundtrip(named, v, path) ==
  \E w \in Var \ {v} : named[w] = {path} /\ SameShape(VarType[v], VarType[w])

NoRun == [fields |-> {}, first |-> 0, roundtrip |-> 0]

(* Mutant: every path of a site counts, however many it names of one base. *)
EveryPath(site, n) ==
  LET named == Named(site) IN
  [v \in Var |->
     IF named[v] = {} THEN runs[v]
     ELSE [fields    |-> runs[v].fields \cup named[v],
           first     |-> IF runs[v].first = 0 THEN n ELSE runs[v].first,
           roundtrip |-> runs[v].roundtrip]]

(* addSite: a site that names one field of a base contributes that field.  *)
AddSite(site, n) ==
  LET named == Named(site)
      path(v) == CHOOSE p \in named[v] : TRUE IN
  [v \in Var |->
     IF Cardinality(named[v]) # 1 THEN runs[v]
     ELSE [fields    |-> runs[v].fields \cup {path(v)},
           first     |-> IF runs[v].first = 0 THEN n ELSE runs[v].first,
           roundtrip |-> runs[v].roundtrip
                           + (IF Roundtrip(named, v, path(v)) THEN 1 ELSE 0)]]

(* Mutant: a variable is listed once for each operand.                     *)
JoinedRepeated(seq, site, which, new) ==
  LET out[i \in 0..Len(site.operands)] ==
        IF i = 0 THEN seq
        ELSE IF i \in which /\ site.operands[i].base \in new
        THEN Append(out[i - 1], site.operands[i].base) ELSE out[i - 1] IN
  out[Len(site.operands)]

(* The order in which bases appear, with the new ones of a site, each once.*)
Joined(seq, site, which, new) ==
  LET out[i \in 0..Len(site.operands)] ==
        IF i = 0 THEN seq
        ELSE IF /\ i \in which /\ site.operands[i].base \in new
                /\ ~Contains(out[i - 1], site.operands[i].base)
        THEN Append(out[i - 1], site.operands[i].base) ELSE out[i - 1] IN
  out[Len(site.operands)]

(* Mutant: a site counts once for each of its elements.                    *)
AddEachElement(site, n) ==
  LET mine(v) == {i \in Indexed(site) : site.operands[i].base = v} IN
  [v \in Var |->
     IF Cardinality(Indexed(site)) < 2 \/ mine(v) = {} THEN elements[v]
     ELSE [count |-> elements[v].count + Cardinality(mine(v)),
           first |-> IF elements[v].count = 0 THEN n ELSE elements[v].first]]

(* addElement: two bare elements of variables stand against each other.    *)
AddElement(site, n) ==
  [v \in Var |->
     IF Cardinality(Indexed(site)) < 2 \/ \A i \in Indexed(site) : site.operands[i].base # v
     THEN elements[v]
     ELSE [count |-> elements[v].count + 1,
           first |-> IF elements[v].count = 0 THEN n ELSE elements[v].first]]

(* reportInlineCollection: the first literal of a collection of structs.   *)
InlineReports(site, n) ==
  LET found == {i \in Literals(site) :
                  site.operands[i].size > 0 /\ NonTrivialElem(site.operands[i].type)} IN
  IF site.kind # "call" \/ found = {} THEN {}
  ELSE LET i == CHOOSE i \in found : \A j \in found : i <= j IN
       {[shape |-> "inline", pos |-> n, type |-> site.operands[i].type,
         option |-> NamesOption(Elem(site.operands[i].type))]}
-------------------------------------------------------------------------------
(* The end of reportRuns.                                                  *)

(* cases: the variables that a range clause fills.                         *)
Cases == UNION {fn[i].vars : i \in {j \in Sites : fn[j].kind = "range"}}

(* Mutant: the loop keeps the type at the parent of the first field.       *)
NarrowFirst(v, acc, path) ==
  LET names == IF acc.first THEN Front(path)
               ELSE LongestCommonPrefix({acc.names, Front(path)}) IN
  [first |-> FALSE, names |-> names,
   at |-> IF acc.first THEN TypeAt(VarType[v], Front(path)) ELSE acc.at]

(* One turn of the loop of anchor: the names that the parents of the       *)
(* fields so far share, and the type there.                                *)
Narrow(v, acc, path) ==
  LET names == IF acc.first THEN Front(path)
               ELSE LongestCommonPrefix({acc.names, Front(path)}) IN
  [first |-> FALSE,
   names |-> names,
   at    |-> IF names = <<>> THEN VarType[v] ELSE TypeAt(VarType[v], SubSeq(path, 1, Len(names)))]

(* anchor: the map of the fields is walked in some order.                  *)
AnchorAlong(v, walk) ==
  LET acc[k \in 0..Len(walk)] ==
        IF k = 0 THEN [first |-> TRUE, names |-> <<>>, at |-> VarType[v]]
        ELSE Narrow(v, acc[k - 1], walk[k]) IN
  acc[Len(walk)]

Under(paths, prefix) == \E p \in paths : IsStrictPrefix(prefix, p)

(* Mutant: cut opens a field that no asserted path lies under.             *)
OpensAnyway(v, anchor, paths, prefix) ==
  prefix \notin paths /\ StructUnder(TypeAt(VarType[v], prefix), prefix = anchor) # NoType

(* cut opens the field at `prefix`.                                        *)
Opens(v, anchor, paths, prefix) ==
  /\ prefix \notin paths
  /\ prefix = <<>> \/ Under(paths, prefix)
  /\ StructUnder(TypeAt(VarType[v], prefix), prefix = anchor) # NoType

(* The fields that the walk of cut comes to: the anchor, and every field   *)
(* of what it opens.                                                       *)
CutVisits(v, anchor, paths) ==
  LET roads == UNION {Prefixes(p) : p \in paths}
      beside == UNION {{Append(q, f.name) : f \in Selectable[TypeAt(VarType[v], q)]} :
                         q \in {r \in roads : IsPrefix(anchor, r) /\ r \notin paths}} IN
  {p \in {anchor} \cup beside :
     \A q \in Prefixes(p) : IsPrefix(anchor, q) /\ q # p => Opens(v, anchor, paths, q)}

(* Mutant: the fix also names the fields that the walk opens.              *)
IgnoreVisited(v, anchor, paths) ==
  {p \in CutVisits(v, anchor, paths) : p \notin paths /\ p # anchor}

(* cut: the names of the fix, those of the fields it visits that are not   *)
(* asserted and that it does not open.                                     *)
IgnoreNames(v, anchor, paths) ==
  {p \in CutVisits(v, anchor, paths) : p \notin paths /\ ~Opens(v, anchor, paths, p)}

Cut(v, anchor, paths) == Cardinality(IgnoreNames(v, anchor, paths))

(* reports: the second condition, on the cost of the fix.                  *)
Reports(run, at, cost) ==
  IF EqualStop(at) THEN cost = 0 ELSE run.roundtrip >= MinFields \/ cost <= MaxIgnore

RunReport(v, walk) ==
  LET found == AnchorAlong(v, walk) IN
  IF v \in Cases \/ Cardinality(runs[v].fields) < MinFields
     \/ ~Reports(runs[v], found.at, Cut(v, found.names, runs[v].fields))
  THEN <<>>
  ELSE <<[shape |-> "run", pos |-> runs[v].first, base |-> v,
          count |-> Cardinality(runs[v].fields), anchor |-> found.names, at |-> found.at,
          option |-> ~EqualStop(found.at) /\ NamesOption(found.at)]>>

ElementReport(v) ==
  IF v \in Cases \/ elements[v].count < MinFields \/ ~NonTrivialElem(VarType[v])
  THEN <<>>
  ELSE <<[shape |-> "element", pos |-> elements[v].first, base |-> v,
          count |-> elements[v].count, option |-> NamesOption(Elem(VarType[v]))]>>

(* reportOneField: the exported fields that the ignore lists leave.        *)
Unpointer(t) == IF Kind[t] = "pointer" THEN Of[t] ELSE t

DiffReport(site, n) ==
  LET t == Unpointer(site.want)
      u == IF Kind[t] = "named" THEN Of[t] ELSE t
      exported == {f.name : f \in {g \in Range(Fields[u]) : g.exported}}
      lists == {o \in site.options : o.type = t}
      dropped == UNION {o.names : o \in lists}
      counted == \A o \in lists : o.constant /\ \A p \in o.names :
                   Len(p) = 1 => \E f \in Range(Fields[u]) : f.name = p[1]
      left == {f \in exported : <<f>> \notin dropped} IN
  IF /\ Unpointer(site.got) = t /\ Kind[u] = "struct" /\ site.options # {}
     /\ counted /\ left # exported /\ Cardinality(left) <= 1
  THEN <<[shape |-> "diff", pos |-> n, left |-> left]>>
  ELSE <<>>
-------------------------------------------------------------------------------
Visit(site) ==
  /\ phase = "inspect"
  /\ Len(fn) < MaxSites
  /\ LET n == Len(fn) + 1
         asserts == site.kind \in {"call", "if"} IN
     /\ fn' = Append(fn, site)
     /\ runs' = IF asserts THEN AddSite(site, n) ELSE runs
     /\ order' = IF asserts
                 THEN Joined(order, site, Chains(site),
                             {v \in Var : runs[v] = NoRun /\ runs'[v] # NoRun})
                 ELSE order
     /\ elements' = IF asserts THEN AddElement(site, n) ELSE elements
     /\ elementOrder' = IF asserts
                        THEN Joined(elementOrder, site, Indexed(site),
                                    {v \in Var : elements[v].count = 0 /\ elements'[v].count > 0})
                        ELSE elementOrder
     /\ reports' = IF asserts THEN reports \o SetToSeq(InlineReports(site, n)) ELSE reports
  /\ UNCHANGED phase

(* The orders in which the fields of a base may be walked.                 *)
Walks(v) == {w \in [1..Cardinality(runs[v].fields) -> runs[v].fields] : IsInjective(w)}

(* The inspection ends: reportRuns, reportElements and reportOneField.     *)
Finish ==
  /\ phase = "inspect"
  /\ \E walk \in {w \in [Range(order) -> UNION {Walks(v) : v \in Var}] :
                    \A v \in Range(order) : w[v] \in Walks(v)} :
       reports' = reports
                  \o FlattenSeq([i \in DOMAIN order |-> RunReport(order[i], walk[order[i]])])
                  \o FlattenSeq([i \in DOMAIN elementOrder |-> ElementReport(elementOrder[i])])
                  \o FlattenSeq([n \in Sites |-> IF fn[n].kind = "diff" THEN DiffReport(fn[n], n)
                                                 ELSE <<>>])
  /\ phase' = "done"
  /\ UNCHANGED <<fn, runs, order, elements, elementOrder>>

Init ==
  /\ fn = <<>> /\ order = <<>> /\ elementOrder = <<>> /\ reports = <<>>
  /\ runs = [v \in Var |-> NoRun]
  /\ elements = [v \in Var |-> [count |-> 0, first |-> 0]]
  /\ phase = "inspect"

Next == (\E site \in Site : Visit(site)) \/ Finish

Spec == Init /\ [][Next]_vars
-------------------------------------------------------------------------------
TypeOK ==
  /\ fn \in Seq(Site) /\ Len(fn) <= MaxSites
  /\ runs \in [Var -> [fields : SUBSET Seq(Name), first : 0..MaxSites, roundtrip : 0..MaxSites]]
  /\ elements \in [Var -> [count : 0..MaxSites, first : 0..MaxSites]]
  /\ {order, elementOrder} \subseteq Seq(Var) /\ IsInjective(order) /\ IsInjective(elementOrder)
  /\ phase \in {"inspect", "done"}

Reported(shape) == {r \in Range(reports) : r.shape = shape}
Asserting == {n \in Sites : fn[n].kind \in {"call", "if"}}

(* "The anchor of a group is the deepest field path that holds every       *)
(* asserted path": whichever field the map yields first, the loop ends at  *)
(* the longest path that all parents share, with the type of that path.    *)
AnchorDeepest ==
  \A v \in Range(order) : \A walk \in Walks(v) :
    LET shared == LongestCommonPrefix({Front(p) : p \in runs[v].fields}) IN
    /\ AnchorAlong(v, walk).names = shared
    /\ AnchorAlong(v, walk).at = TypeAt(VarType[v], shared)

(* What cmp reads of a value at the anchor, no deeper than d names.        *)
ReadAt(v, anchor, d) ==
  LET level[k \in Len(anchor)..d] ==
        IF k = Len(anchor) THEN {anchor}
        ELSE UNION {{Append(q, f.name) : f \in Selectable[TypeAt(VarType[v], q)]} :
                      q \in {r \in level[k - 1] :
                               StructUnder(TypeAt(VarType[v], r), r = anchor) # NoType}} IN
  UNION {level[k] : k \in Len(anchor)..d}

(* The list of ignored paths makes the comparison state what the test      *)
(* asserts, no less and no more.                                           *)
States(ignored, asserted, leaves) ==
  \A x \in leaves :
    (\E i \in ignored : IsPrefix(i, x)) <=> ~\E p \in asserted : IsPrefix(p, x)

Leaves(read) == {x \in read : ~\E y \in read : IsStrictPrefix(x, y)}

(* The paths under v that sites may name.                                  *)
Paths == [v \in Var |-> UNION {Named(site)[v] : site \in Site}]

(* What the comparison reads, one name deeper than the asserted fields.    *)
ReadFor(v, anchor, asserted) == ReadAt(v, anchor, Max({Len(p) : p \in asserted}) + 1)

(* The least number of ignored paths, for every group of asserted fields.  *)
LeastCost ==
  [v \in Var |-> [asserted \in UNION {kSubset(k, Paths[v]) : k \in 1..MaxSites} |->
     LET anchor == LongestCommonPrefix({Front(p) : p \in asserted})
         read == ReadFor(v, anchor, asserted)
         fit(n) == \E ignored \in kSubset(n, read \ {anchor}) : States(ignored, asserted, Leaves(read)) IN
     IF ~(asserted \subseteq read) THEN 0
     ELSE CHOOSE n \in 0..Cardinality(read) : fit(n) /\ \A m \in 0..(n - 1) : ~fit(m)]]

(* "The cut counts the cmpopts.IgnoreFields names that one comparison at   *)
(* the anchor needs": with its names the comparison states exactly the     *)
(* asserted fields, and no shorter list does.  No field below an Equal     *)
(* method counts: cmp reads none there.                                    *)
CutLeast ==
  phase = "done" =>
    \A v \in Range(order) :
      LET asserted == runs[v].fields
          anchor == LongestCommonPrefix({Front(p) : p \in asserted})
          read == ReadFor(v, anchor, asserted)
          names == IgnoreNames(v, anchor, asserted) IN
      asserted \subseteq read =>
        /\ States(names, asserted, Leaves(read))
        /\ Cardinality(names) = LeastCost[v][asserted]

(* The count of docs/spec/002-rules.md: "a site that names exactly one     *)
(* field of a base contributes that field; a site that names two or more   *)
(* fields of one base contributes nothing", a range variable stays clean,  *)
(* the report sits at the first contributing site, and a group passes the  *)
(* gate by its cost, or as a roundtrip, "when min sites or more pair the   *)
(* base with one other base", or, where an Equal method answers, only at a *)
(* cost of zero.  Excepted are the bases for which the code departs from   *)
(* that: its counter adds up the sites of all other bases, so it also lets *)
(* a base pass that enough sites pair with some other base and too few     *)
(* with any single one (scattered).                                        *)
RunsDocumented ==
  phase = "done" =>
    LET at(v) == {n \in Asserting : Cardinality(Named(fn[n])[v]) = 1}
        asserted(v) == UNION {Named(fn[n])[v] : n \in at(v)}
        anchor(v) == LongestCommonPrefix({Front(p) : p \in asserted(v)})
        type(v) == TypeAt(VarType[v], anchor(v))
        cost(v) == Cut(v, anchor(v), asserted(v))
        paired(v, w) == {n \in at(v) : SameShape(VarType[v], VarType[w])
                                       /\ Named(fn[n])[w] = Named(fn[n])[v]}
        roundtrip(v) == \E w \in Var \ {v} : Cardinality(paired(v, w)) >= MinFields
        scattered(v) == /\ ~roundtrip(v)
                        /\ Cardinality(UNION {paired(v, w) : w \in Var \ {v}}) >= MinFields
        group == {v \in Var : /\ Cardinality(asserted(v)) >= MinFields
                              /\ at(v) # {}
                              /\ \A n \in Sites : fn[n].kind = "range" => v \notin fn[n].vars} IN
    {[base |-> r.base, pos |-> r.pos, count |-> r.count, anchor |-> r.anchor] :
       r \in {q \in Reported("run") : ~scattered(q.base)}}
    = {[base |-> v, pos |-> CHOOSE n \in at(v) : \A m \in at(v) : n <= m,
        count |-> Cardinality(asserted(v)), anchor |-> anchor(v)] :
         v \in {w \in group :
                  /\ ~scattered(w)
                  /\ IF EqualStop(type(w)) THEN cost(w) = 0
                     ELSE cost(w) <= MaxIgnore \/ roundtrip(w)}}

(* Sites that compare two bare elements count once for each collection,    *)
(* and a spot check of one element counts for nothing.                     *)
ElementsDocumented ==
  phase = "done" =>
    LET at(v) == {n \in Asserting :
                    /\ \E i \in Indexed(fn[n]) : fn[n].operands[i].base = v
                    /\ \E i, j \in Indexed(fn[n]) : i # j} IN
    {[base |-> r.base, pos |-> r.pos, count |-> r.count] : r \in Reported("element")}
    = {[base |-> v, pos |-> CHOOSE n \in at(v) : \A m \in at(v) : n <= m,
        count |-> Cardinality(at(v))] :
         v \in {w \in Var \ Cases : /\ Cardinality(at(w)) >= MinFields /\ at(w) # {}
                                    /\ NonTrivialElem(VarType[w])}}

(* "The rule asks for a want value and a diff when a test asserts two      *)
(* fields or more.  It stays silent on one field": the diff that a report  *)
(* asks for, with the names of the cut, is none that the rule reports in   *)
(* its turn, where no asserted field lies in another, or below an Equal    *)
(* method, and the fields of the anchor that lead to them are exported.    *)
FixStays ==
  \A r \in Reported("run") :
    LET asserted == runs[r.base].fields
        below(p) == SubSeq(p, Len(r.anchor) + 1, Len(p))
        heads == {below(p)[1] : p \in asserted}
        fix == [kind |-> "diff", want |-> r.at, got |-> r.at,
                options |-> {[type |-> Unpointer(r.at), constant |-> TRUE,
                              names |-> {below(p) : p \in IgnoreNames(r.base, r.anchor, asserted)}]}] IN
    /\ ~EqualStop(r.at) /\ asserted \subseteq ReadFor(r.base, r.anchor, asserted)
    /\ \A p, q \in asserted : ~IsStrictPrefix(p, q)
    /\ \A f \in Selectable[r.at] : f.name \in heads => f.exported
    => DiffReport(fix, 0) = <<>>

(* "The test of the type graph follows cmp.  It walks a pointer, a slice,  *)
(* an array, a map, and the fields of a structure": a report names the     *)
(* option exactly where the comparison meets an unexported field.          *)
OptionNamed ==
  \A r \in Reported("run") :
    ~EqualStop(r.at) => (r.option <=> Hidden(r.at, TRUE) # {})
===============================================================================
