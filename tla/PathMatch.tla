------------------------------- MODULE PathMatch ------------------------------
(***************************************************************************)
(* The package path patterns of every setting (internal/pathmatch), and    *)
(* the test-packages setting that seven rules read (internal/signature).   *)
(*                                                                         *)
(* A path is a sequence of characters; the suffix _test of an external     *)
(* test package is one of them.  A pattern may hold two wildcards as well. *)
(***************************************************************************)
EXTENDS Integers, Sequences, SequencesExt

CONSTANTS Char, Slash, Test, Star, Dots

ASSUME CharAssumption ==
  {Slash, Test} \subseteq Char /\ Slash # Test /\ {Star, Dots} \cap Char = {} /\ Star # Dots

(* A wildcard as an expression: * is [^/]*, and ... is .*                  *)
Crosses(wildcard, char) == wildcard = Dots \/ char # Slash

(* The expression of one element matches the characters from k + 1 to j.   *)
Takes(element, path, k, j) ==
  IF element \in Char THEN j = k + 1 /\ path[j] = element
  ELSE k <= j /\ \A m \in (k + 1)..j : Crosses(element, path[m])

(* The anchored expression: ends[i] holds the places of the path where a   *)
(* match of the first i elements of the pattern can end.                   *)
MatchString(pattern, path) ==
  LET ends[i \in 0..Len(pattern)] ==
        IF i = 0 THEN {0}
        ELSE {j \in 0..Len(path) : \E k \in ends[i - 1] : Takes(pattern[i], path, k, j)}
  IN Len(path) \in ends[Len(pattern)]

(* Mutant: the package above a subtree is not in it.                       *)
MatchBelow(pattern, path) == MatchString(pattern, path)

(* A subtree pattern matches the package above it as well.                 *)
Match(pattern, path) ==
  LET above[n \in 0..Len(pattern)] == SubSeq(pattern, 1, n)
      Try[n \in 0..Len(pattern)] ==
        \/ n > 1 /\ above[n][n - 1] = Slash /\ above[n][n] = Dots /\ Try[n - 2]
        \/ MatchString(above[n], path)
  IN Try[Len(pattern)]

MatchAny(patterns, path) == \E i \in DOMAIN patterns : Match(patterns[i], path)

(* strings.TrimSuffix(path, "_test")                                       *)
Trimmed(path) == IF path # <<>> /\ Last(path) = Test THEN Front(path) ELSE path

IsTestPackage(patterns, path) == MatchAny(patterns, Trimmed(path))
-------------------------------------------------------------------------------
(* The same, as docs/spec/003-implementation.md states it: the path falls  *)
(* into one run of characters for each element of the pattern.             *)
Stands(element, run) ==
  CASE element \in Char -> run = <<element>>
    [] element = Star   -> \A k \in DOMAIN run : run[k] # Slash
    [] element = Dots   -> TRUE

Whole(pattern, path) ==
  \E cuts \in [0..Len(pattern) -> 0..Len(path)] :
    /\ cuts[0] = 0 /\ cuts[Len(pattern)] = Len(path)
    /\ \A i \in 1..Len(pattern) :
         /\ cuts[i - 1] <= cuts[i]
         /\ Stands(pattern[i], SubSeq(path, cuts[i - 1] + 1, cuts[i]))

(* "A pattern that ends in /... matches the package above that suffix as   *)
(* well", and what is above is a pattern again.                            *)
Names(pattern, path) ==
  \E n \in 0..Len(pattern) :
    /\ Whole(SubSeq(pattern, 1, n), path)
    /\ \E k \in 0..Len(pattern) :
         /\ Len(pattern) = n + 2 * k
         /\ \A i \in 1..k : pattern[n + 2 * i - 1] = Slash /\ pattern[n + 2 * i] = Dots

(* "One entry covers a package and its external test package."             *)
ServesTests(patterns, path) ==
  \E i \in DOMAIN patterns :
    \E production \in {SubSeq(path, 1, n) : n \in 0..Len(path)} :
      /\ path = production \o <<Test>> \/ (path = production /\ (path = <<>> \/ Last(path) # Test))
      /\ Names(patterns[i], production)
===============================================================================
