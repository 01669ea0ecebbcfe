------------------------------ MODULE MCContracts -----------------------------
(***************************************************************************)
(* Small instances of Contracts: packages of constructors that call each   *)
(* other, of methods behind interfaces of this package and of imported     *)
(* ones, of any parameters with switches on them, and of results of type   *)
(* any that become interfaces and then concrete types.                     *)
(***************************************************************************)
EXTENDS Contracts

Store == "Store"
Concretes == {"A", "B", "V", String}
Interfaces == {AnyType, Error, Payload, Generic, Store}

Value(t) == [kind |-> "value", type |-> t]
NilValue == [kind |-> "nil"]
CallOf(f) == [kind |-> "call", callee |-> f]

P(names, t) == [names |-> names, type |-> t, variadic |-> FALSE]
Rest(names, t) == [names |-> names, type |-> t, variadic |-> TRUE]
R(t) == [span |-> 1, type |-> t]

Fn(kind, owner, name, returns) ==
  [kind |-> kind, owner |-> owner, name |-> name, endsInF |-> name = "Logf", generated |-> FALSE, returns |-> returns]

Bare == [above |-> FALSE, doc |-> FALSE, marker |-> FALSE]
Doc == [above |-> TRUE, doc |-> TRUE, marker |-> FALSE]
Plain == [above |-> TRUE, doc |-> FALSE, marker |-> FALSE]
Contract == [above |-> TRUE, doc |-> TRUE, marker |-> TRUE]

NoIfaces == [i \in {} |-> {}]
NoEmbeds == [t \in {} |-> {}]
Home == [home |-> TRUE, exported |-> FALSE, package |-> TRUE, methodSet |-> TRUE]
Imported == [home |-> FALSE, exported |-> TRUE, package |-> TRUE, methodSet |-> TRUE]
Hidden == [home |-> FALSE, exported |-> FALSE, package |-> TRUE, methodSet |-> TRUE]
Local == [home |-> TRUE, exported |-> FALSE, package |-> FALSE, methodSet |-> TRUE]
Constraint == [home |-> TRUE, exported |-> TRUE, package |-> TRUE, methodSet |-> FALSE]

Package(fns, prms, res, cmt, ops) ==
  [fn |-> fns, params |-> prms, results |-> res, comment |-> cmt, operands |-> ops,
   embeds |-> NoEmbeds, ifaces |-> NoIfaces, boundary |-> FALSE]

None(n) == [f \in 1..n |-> <<>>]

(* New() Store; Open() (Store, Store), its names grouped or not, which     *)
(* returns two values or calls Pair(); Pair() (Store, Store).              *)
Exprs == {Value("A"), Value("B"), Value("V"), NilValue, Value(Store), CallOf(1)}
Returns1 == {<<>>, <<<<>>>>, <<<<>>, <<Value("A")>>>>} \cup {<<<<e>>>> : e \in Exprs \ {CallOf(1)}}
             \cup {<<<<e>>, <<g>>>> : e \in {Value("A"), Value("V")}, g \in {Value("A"), Value("B"), NilValue, CallOf(1)}}
Returns2 == {<<<<e, g>>>> : e, g \in {Value("A"), CallOf(1)}}
             \cup {<<<<CallOf(3)>>>>, <<<<CallOf(3)>>, <<Value("A"), NilValue>>>>, <<<<>>>>,
                   <<<<Value("A"), Value("B")>>, <<NilValue, Value("B")>>>>, <<<<CallOf(1), Value("A")>>, <<Value("A"), CallOf(1)>>>>}
Returns3 == {<<<<CallOf(1), Value("A")>>>>, <<<<Value("A"), Value("A")>>>>}

Grouped == <<[span |-> 2, type |-> Store]>>
Apart == <<R(Store), R(Store)>>

Constructors ==
  {Package(<<Fn("decl", "", "New", r1), Fn("decl", "", "Open", r2), Fn("decl", "", "Pair", r3)>>,
           None(3), <<<<R(Store)>>, way[1], Apart>>, <<Bare, way[2], Bare>>, None(3)) :
     r1 \in Returns1, r2 \in Returns2, r3 \in Returns3,
     way \in {<<Grouped, Bare>>, <<Apart, Doc>>}}
  \cup {Package(<<Fn("decl", "", "New", <<<<Value("A")>>>>), Fn("decl", "", "Open", <<<<CallOf(1), NilValue>>>>), Fn("decl", "", "Pair", <<<<CallOf(1), NilValue>>>>)>>,
           None(3), <<<<R(t)>>, <<R(t), R(Error)>>, <<R(AnyType), R(Error)>>>>, <<cmt, Bare, Doc>>, None(3)) :
     t \in {Store, AnyType, Generic, Payload}, cmt \in {Bare, Doc, Plain, Contract}}

(* T.Get() Store and T.Two() Store beside an interface with Get and with   *)
(* or without Two, which declares the interface or the type; U embeds T.   *)
Methods ==
  {[Package(<<Fn("decl", "T", "Get", <<<<Value("A")>>>>), Fn("decl", "T", two, <<<<CallOf(1)>>>>),
              Fn(kind, "I", "Get", <<>>), Fn(kind, "I", "Two", <<>>)>>,
            None(4), <<<<R(Store)>>, <<R(Store)>>, <<R(Store)>>, <<R(want)>>>>, <<Bare, Bare, Bare, Bare>>, None(4))
     EXCEPT !.embeds = [t \in {"T", "U"} |-> IF t = "U" THEN {"T"} ELSE {}],
            !.ifaces = [i \in {"I"} |-> iface]] :
     two \in {"Two", "Other"}, want \in {Store, "A"}, kind \in {"method", "extern"},
     iface \in {Home, Imported, Hidden, Local, Constraint}}

(* T.Value(key any) any, of an interface of either kind that asks for the  *)
(* same, for another result or for a variadic parameter.                   *)
Values ==
  {[Package(<<Fn("decl", "T", "Value", <<<<Value("A")>>>>), Fn("decl", "", "Load", <<<<CallOf(1)>>>>),
              Fn(of[1], "I", "Value", <<>>)>>,
            <<<<P(<<"key">>, AnyType)>>, <<>>, <<want>>>>, <<<<R(AnyType)>>, <<R(AnyType)>>, <<R(t)>>>>, <<cmt, Bare, Bare>>, None(3))
     EXCEPT !.embeds = [u \in {"T"} |-> {}], !.ifaces = [i \in {"I"} |-> of[2]]] :
     want \in {P(<<>>, AnyType), Rest(<<>>, AnyType)}, t \in {AnyType, "A"}, cmt \in {Bare, Doc, Plain},
     of \in {<<"method", Home>>, <<"extern", Imported>>, <<"extern", Hidden>>}}

(* Handle(a, b any) of T, and of an interface or not, with a switch in the *)
(* body and in a literal, on the parameter of each.                        *)
Switches ==
  {[Package(<<Fn("decl", "T", "Handle", <<>>), Fn("lit", "", "", <<>>), Fn(of[1], "I", "Handle", <<>>)>>,
            <<ps, <<P(<<"x">>, AnyType)>>, want>>, None(3), cmts,
            <<<<[kind |-> "param", of |-> 1, field |-> Len(ps), name |-> NameCount(ps[Len(ps)]), type |-> AnyType],
                [kind |-> "value", type |-> AnyType]>>,
              <<[kind |-> "param", of |-> 1, field |-> Len(ps), name |-> 1, type |-> AnyType],
                [kind |-> "param", of |-> 2, field |-> 1, name |-> 1, type |-> AnyType],
                [kind |-> "typeparam", type |-> AnyType]>>, <<>>>>)
     EXCEPT !.embeds = [t \in {"T"} |-> {}], !.ifaces = [i \in {"I"} |-> of[2]]] :
     ps \in {<<P(<<"a", "b">>, AnyType)>>, <<P(<<"cause">>, AnyType)>>, <<P(<<"a">>, AnyType), P(<<"b">>, AnyType)>>},
     want \in {<<P(<<>>, AnyType), P(<<>>, AnyType)>>, <<P(<<>>, AnyType)>>}, cmts \in {<<Bare, Bare, Bare>>, <<Doc, Plain, Bare>>, <<Contract, Bare, Bare>>},
     of \in {<<"method", Home>>, <<"extern", Imported>>}}
  \cup
  {[Package(<<[Fn("decl", "T", name, <<>>) EXCEPT !.generated = generated]>>,
            <<<<P(<<first>>, t), last>>>>, None(1), <<Bare>>, <<<<[kind |-> "value", type |-> AnyType]>>>>)
     EXCEPT !.boundary = boundary] :
     name \in {"Log", "Logf"}, first \in {"format", "x"}, t \in {String, "A"}, last \in {Rest(<<"args">>, AnyType), P(<<"args">>, AnyType)},
     boundary, generated \in BOOLEAN}

AllPackages == Constructors \cup Methods \cup Values \cup Switches
===============================================================================
