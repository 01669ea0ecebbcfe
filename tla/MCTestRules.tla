------------------------------ MODULE MCTestRules -----------------------------
(***************************************************************************)
(* Small instances of TestRules.  Package a keeps behaviour in variables   *)
(* of every shape; package s serves tests; a test file of a declares stub. *)
(***************************************************************************)
EXTENDS TestRules

Files == {"a.go", "a_test.go"}

Conf(path, allow, tests, equality) ==
  [path |-> path, allow |-> allow, testPackages |-> tests, equality |-> equality]

Configurations ==
  {Conf(<<"a">>, <<>>, <<>>, FALSE),
   Conf(<<"a">>, <<>>, << <<"s">> >>, TRUE),
   Conf(<<"a">>, << <<"s">>, <<"a", "/", "...">> >>, <<>>, FALSE),
   Conf(<<"a", "_test">>, << <<"a", "_test">> >>, << <<"a">> >>, FALSE),
   Conf(<<"a", "_test">>, << <<"*">> >>, << <<"a", "_test">> >>, TRUE)}

(* Reflection.                                                             *)
ReflectNodes ==
  {[kind |-> "import", file |-> f] : f \in Files}
  \cup {[kind |-> "use", file |-> f, name |-> x] : f \in Files, x \in {"DeepEqual", "TypeOf"}}

(* Variables: behaviour, a struct that holds some, a map and a pointer.    *)
At2(path, test) == [scope |-> "package", path |-> path, test |-> test]
Local == [scope |-> "block", path |-> <<"a">>, test |-> TRUE]

Declared ==
  [Hook |-> At2(<<"a">>, FALSE), Reader |-> At2(<<"a">>, FALSE), Options |-> At2(<<"a">>, FALSE),
   Registry |-> At2(<<"a">>, FALSE), Fallback |-> At2(<<"a">>, FALSE),
   Clock |-> At2(<<"s">>, FALSE), stub |-> At2(<<"a">>, TRUE), opts |-> Local, table |-> Local]

Types ==
  [Hook |-> "func", Reader |-> "interface", Options |-> "Opts", Registry |-> "map",
   Fallback |-> "*func", Clock |-> "func", stub |-> "func", opts |-> "*Opts", table |-> "map"]

Fields == [Now |-> "func", N |-> "int", Table |-> "map"]
Elements == [Opts |-> Fields, map |-> [index |-> "func"]]
            @@ ("*Opts" :> Fields) @@ ("*func" :> [star |-> "func"])

OwnBehaviour == <<"own">>
FakeBehaviour == <<"fake">>

(* R are maps, F function cells and S1 a struct; R1, F1 and S1 are tests'. *)
Memory ==
  [c \in {<<"Hook">>, <<"Reader">>, <<"Clock">>, <<"Options", "Now">>, <<"R0", "index">>,
          <<"R2", "index">>, <<"F0", "star">>} |-> Own]
  @@ [c \in {<<"stub">>, <<"S1", "Now">>, <<"R1", "index">>, <<"F1", "star">>} |-> Fake]
  @@ [c \in {<<"Options", "N">>, <<"S1", "N">>} |-> <<"0">>]
  @@ (<<"Options", "Table">> :> <<"R2">>) @@ (<<"S1", "Table">> :> <<"R1">>)
  @@ (<<"Registry">> :> <<"R0">>) @@ (<<"Fallback">> :> <<"F0">>)
  @@ (<<"opts">> :> <<"S1">>) @@ (<<"table">> :> <<"R1">>)

PlaceTypes ==
  [p \in {<<v>> : v \in DOMAIN Types} |-> Types[p[1]]] @@ (<<"S1">> :> "Opts")
  @@ [p \in {<<c, f>> : c \in {"Options", "S1"}, f \in DOMAIN Fields} |-> Fields[p[2]]]
  @@ [p \in {<<"R0", "index">>, <<"R1", "index">>, <<"R2", "index">>, <<"F0", "star">>, <<"F1", "star">>} |-> "func"]

Under(root, steps) == [root |-> root, steps |-> steps]
Read == {Under("Hook", <<>>), Under("Reader", <<>>), Under("Clock", <<>>), Under("Options", <<"Now">>),
         Under("Options", <<"Table", "index">>), Under("Registry", <<"index">>),
         Under("Fallback", <<"star">>)}

Sets(file, root, steps, value, from) ==
  [kind |-> "assign", file |-> file, root |-> root, steps |-> steps, value |-> value, from |-> from]
InTest(root, steps, value) == Sets("a_test.go", root, steps, value, NoVar)

AssignNodes ==
  {InTest(v, <<>>, Fake) : v \in {"Hook", "Reader", "Clock", "stub"}}
  \cup {InTest(v, <<"Now">>, Fake) : v \in {"Options", "opts"}}
  \cup {InTest(v, <<"Table", "index">>, Fake) : v \in {"Options", "opts"}}
  \cup {InTest(v, <<"index">>, Fake) : v \in {"Registry", "table"}}
  \cup {InTest("Fallback", <<"star">>, Fake), InTest("Hook", <<"call">>, Fake)}
  \cup {InTest("Options", <<"N">>, <<"1">>), InTest("Options", <<>>, <<"S1">>),
        InTest("Registry", <<>>, <<"R1">>), InTest("Fallback", <<>>, <<"F1">>),
        InTest("opts", <<>>, <<"Options">>), InTest("opts", <<>>, <<"S1">>)}
  \cup {Sets("a_test.go", "Registry", <<>>, <<"R1">>, "table"),
        Sets("a_test.go", "table", <<>>, <<"R1">>, "Registry"),
        Sets("a.go", "Hook", <<>>, Fake, NoVar)}

(* Checks: the values a function compares, and at most one message.        *)
Strings == {"text", "string"}
Values == Strings \cup {"error"}
Messages == {<<>>} \cup {<<m>> : m \in Values}
Compared(fn) ==
  CASE fn \in {"ErrorContains", "EqualError"} -> {"error"} \X Strings
    [] fn \in {"Regexp", "Equal"}             -> Values \X Values

Check(fn, method, args) ==
  [kind |-> "check", file |-> "a_test.go", fn |-> fn, method |-> method, args |-> args]

CheckNodes ==
  {Check(fn, FALSE, p) : fn \in {"strings.Contains", "regexp.MatchString", "=="}, p \in Strings \X Strings}
  \cup {Check("regexp.MatchString", TRUE, <<s>>) : s \in Strings}
  \cup {Check("==", FALSE, <<"error", "error">>)}
  \cup {Check("Errorf", TRUE, <<"string", v>>) : v \in Values}
  \cup UNION {{Check(fn, m, (IF m THEN <<>> ELSE <<"testing">>) \o p \o rest) :
                 m \in BOOLEAN, p \in Compared(fn), rest \in Messages} :
                fn \in {"ErrorContains", "EqualError", "Regexp", "Equal"}}
  \cup {[Check("strings.Contains", FALSE, <<"text", "string">>) EXCEPT !.file = "a.go"]}

(* Nested calls: an assertion, and two calls somewhere below it.           *)
Callees ==
  {<<"require.Equal", TRUE>>, <<"Assertions.Equal", FALSE>>, <<"cmp.Diff", FALSE>>,
   <<"helper", TRUE>>, <<"helper", FALSE>>, <<"conversion", FALSE>>}

Slots(callee) ==
  CASE callee \in {"require.Equal", "cmp.Diff"}       -> {1, 2}
    [] callee \in {"Assertions.Equal", "helper"}      -> {0, 1}
    [] callee = "conversion"                          -> {1}

Call(c, up, slot, lit) == [callee |-> c[1], takes |-> c[2], up |-> up, slot |-> slot, lit |-> lit]

Below(calls, up) ==
  {Append(calls, Call(c, up, s, l)) : c \in Callees, s \in Slots(calls[up].callee), l \in BOOLEAN}

Roots == {<<Call(c, 0, 0, FALSE)>> : c \in {d \in Callees : d[1] \notin {"helper", "conversion"}}}
Twos == UNION {Below(r, 1) : r \in Roots}
Threes == UNION {Below(t, 2) \cup {u \in Below(t, 1) : u[3].slot > u[2].slot} : t \in Twos}

CallNodes ==
  {[kind |-> "calls", file |-> "a_test.go", calls |-> t] : t \in Twos \cup Threes}

(* Below the assertion there are calls of a helper only, such as           *)
(* get(t).parse(t).                                                        *)
HelperNodes ==
  {n \in CallNodes : \A k \in 2..Len(n.calls) : n.calls[k].callee = "helper"}

AllNodes == ReflectNodes \cup AssignNodes \cup CheckNodes \cup CallNodes

Bounds == [reflect |-> 4, assign |-> 2, check |-> 1, calls |-> 1]
===============================================================================
