-------------------------------- MODULE MCGate --------------------------------
(***************************************************************************)
(* Small instances of Gate.  b imports a, and the test of c imports b; one *)
(* version of the code of b imports nothing, and one of the code of c      *)
(* imports a.  a embeds a template, b has test data.                       *)
(***************************************************************************)
EXTENDS Gate, FiniteSets

Packages == {"a", "b", "c"}

KindAt(f) ==
  CASE f \in {"a.go", "b.go", "c.go"}  -> "code"
    [] f = "c_test.go"                 -> "test"
    [] f = "b/testdata/x/x.go"         -> "fixture"
    [] f \in {"a.tmpl", "b/sub.tmpl"}  -> "embed"
    [] f = "b/testdata/in"             -> "data"
    [] f = "README.md"                 -> "doc"
    [] f = "Makefile"                  -> "gate"

DirsAt(f) ==
  CASE f \in {"a.go", "a.tmpl"}         -> <<"a">>
    [] f \in {"b.go", "b/testdata/in"}  -> <<"b">>
    [] f = "b/testdata/x/x.go"          -> <<"b/testdata/x", "b">>
    [] f = "b/sub.tmpl"                 -> <<"b", "a">>
    [] f \in {"c.go", "c_test.go"}      -> <<"c">>
    [] OTHER                            -> <<>>

ViewerAt(f) ==
  CASE f \in {"a.tmpl", "b/sub.tmpl"}                -> "a"
    [] f \in {"b/testdata/in", "b/testdata/x/x.go"}  -> "b"
    [] OTHER                                         -> NoPkg

ImportsAt(f, v) ==
  CASE f = "b.go" /\ v = "v0"             -> {"a"}
    [] f = "c_test.go" /\ v # "gone"      -> {"b"}
    [] f = "c.go" /\ v = "v1"             -> {"a"}
    [] OTHER                              -> {}

KindOf == [f \in File |-> KindAt(f)]
DirsOf == [f \in File |-> DirsAt(f)]
ViewerOf == [f \in File |-> ViewerAt(f)]
ImportsOfVersion == [f \in File |-> [v \in Version |-> ImportsAt(f, v)]]

(* The files that some version of the package and of its tests reads.      *)
ReadableBy(p) ==
  CASE p = "a" -> {"a.go", "a.tmpl", "b/sub.tmpl"}
    [] p = "b" -> {"a.go", "a.tmpl", "b/sub.tmpl", "b.go", "b/testdata/in", "b/testdata/x/x.go"}
    [] p = "c" -> {"a.go", "a.tmpl", "b/sub.tmpl", "b.go", "c.go", "c_test.go"}

(* The tests that fail on one change, or on at most n changes together.    *)
Tests(n) ==
  {t \in [pkg : Packages,
          when : UNION {[D -> Version \ {Base}] :
                          D \in {E \in SUBSET File : Cardinality(E) \in 1..n}}] :
     DOMAIN t.when \subseteq ReadableBy(t.pkg)}

OneChange == Tests(1)
TwoChanges == Tests(2)
===============================================================================
