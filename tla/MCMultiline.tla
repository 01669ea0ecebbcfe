------------------------------ MODULE MCMultiline -----------------------------
(***************************************************************************)
(* Small instances of Multiline.  A package of two files holds a table in  *)
(* a range expression of the first file and one that a variable of either  *)
(* file declares; the first holds a case with keys and an element that is  *)
(* no literal, the second a case of four fields, a short one, {} and one   *)
(* without keys.  To check the patterns a package has one loop and one of  *)
(* many paths.                                                             *)
(***************************************************************************)
EXTENDS Multiline

FileOrder == <<"one", "two">>
EltsOf == [t \in {"inline", "shared"} |->
             IF t = "inline" THEN <<"c1", NoCase>> ELSE <<"c2", "short", "empty", "bare">>]
CaseNames == {"c1", "c2", "short", "empty", "bare"}
FieldsOf == [c \in CaseNames |-> CASE c = "c2" -> 4 [] c = "short" -> 2 [] c = "empty" -> 0 [] OTHER -> 3]
KeyedCases == [c \in CaseNames |-> c # "bare"]

Inline == [kind |-> "literal", table |-> "inline"]
Shared == [kind |-> "literal", table |-> "shared"]
NameOf == [kind |-> "name", var |-> "v"]

Marker(above) == [above |-> above, marker |-> TRUE]
Plain == [above |-> TRUE, marker |-> FALSE]

(* The range statements of the two files; only the first holds `inline`.   *)
LoopsOne == {<<>>, <<Inline>>, <<NameOf>>, <<NameOf, Inline>>, <<NameOf, NameOf>>}
LoopsTwo == {<<>>, <<NameOf>>, <<NoTable, NameOf>>}

Inits == {[file |-> f, value |-> e] : f \in File, e \in {Shared, NoTable}}

Headers ==
  {[f \in File |-> <<>>], [f \in File |-> IF f = "two" THEN <<Plain, Marker(TRUE)>> ELSE <<Plain>>],
   [f \in File |-> IF f = "one" THEN <<Marker(FALSE)>> ELSE <<>>]}

TestNames == {[f \in File |-> TRUE], [f \in File |-> f = "one"]}

App == <<"a", "/", "b">>

Tables ==
  {[path |-> App, min |-> min, patterns |-> patterns, testName |-> names, header |-> header,
    ranges |-> [f \in File |-> IF f = "one" THEN one ELSE two],
    init |-> [v \in {"v"} |-> init]] :
     min \in {0, 3}, patterns \in {<<>>, <<<<"a", "/", "...">>>>}, names \in TestNames, header \in Headers, one \in LoopsOne,
     two \in LoopsTwo, init \in Inits}

(* Paths of up to three characters, with slashes between two of them.      *)
Paths ==
  {<<x>> : x \in {"a", "b"}} \cup {<<x, "_test">> : x \in {"a", "b"}}
  \cup {<<x, y>> : x, y \in {"a", "b"}} \cup {<<x, "/", y>> : x, y \in {"a", "b"}}
  \cup {<<"a", "/", "b", "_test">>, <<"a", "/", "a", "/", "b">>}

Looped(path, patterns) ==
  [path |-> path, min |-> 3, patterns |-> patterns,
   testName |-> [f \in File |-> FALSE], header |-> [f \in File |-> <<>>],
   ranges |-> [f \in File |-> IF f = "one" THEN <<Inline>> ELSE <<>>],
   init |-> [v \in {"v"} |-> [file |-> "two", value |-> NoTable]]]

Elements == {"a", "b", "/", "*", "..."}
AllPatterns ==
  {<<>>} \cup {<<p>> : p \in UNION {[1..n -> Elements] : n \in 0..3}}
  \cup {<<<<"a", "/", "...", "/", "...">>>>, <<<<"*", "/", "*", "/", "...">>>>, <<<<"b">>, <<"a", "_test">>>>}

AllPackages == Tables \cup {Looped(path, patterns) : path \in Paths, patterns \in AllPatterns}

SomeComments == {{}, {"c2"}, {"c1", "c2"}}
===============================================================================
