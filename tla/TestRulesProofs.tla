---------------------------- MODULE TestRulesProofs ----------------------------
(***************************************************************************)
(* Proofs about TestRules: for every package that a developer can write,   *)
(* every setting, every order of the walk over the uses, and every memory  *)
(* and order of the statements when the tests run.                         *)
(***************************************************************************)
EXTENDS TestRules, PathMatchProofs, FiniteSetTheorems
--------------------------------------------------------------------------------
(* The settings.                                                           *)

LEMMA ConfTyped ==
  ASSUME conf \in Confs
  PROVE  /\ conf.path \in Seq(Char) /\ conf.equality \in BOOLEAN
         /\ conf.allow \in Seq(Pattern) /\ conf.testPackages \in Seq(Pattern)
  BY ConfAssumption DEF Pattern

LEMMA SettingsNamed ==
  ASSUME conf \in Confs
  PROVE  /\ Allowed <=> ServesTests(conf.allow, conf.path)
         /\ \A f : TestFile(f) <=> f \in TestNamed \/ ServesTests(conf.testPackages, conf.path)
<1>1. /\ IsTestPackage(conf.allow, conf.path) <=> ServesTests(conf.allow, conf.path)
      /\ IsTestPackage(conf.testPackages, conf.path) <=> ServesTests(conf.testPackages, conf.path)
  BY ConfTyped, TestPackages
<1> QED
  BY <1>1 DEF Allowed, IsTestPackage, TestFile
--------------------------------------------------------------------------------
(* G13: what makes the outcome of a check depend on a message.             *)

(* Argument k of a check has a message in it that the check compares.      *)
Reads(n, k) ==
  /\ k \in DOMAIN n.args
  /\ \/ n.args[k] = "text"
     \/ n.args[k] = "error" /\ n.fn \notin {"Equal", "=="}

Asserts(n) == CheckCall(n) \/ CheckComparison(n)

LEMMA OperandReads ==
  ASSUME NEW n \in Nodes, n.kind = "check", NEW k \in {Left(n), Left(n) + 1}, n.fn # "Errorf",
         NEW w \in [1..4 -> Word]
  PROVE  /\ k \in 1..4
         /\ Reads(n, k) => Operand(n, k, w) = w[k]
         /\ ~Reads(n, k) => Operand(n, k, w) =
              IF k \in DOMAIN n.args /\ n.args[k] = "error" THEN "value" ELSE "pattern"
<1>1. /\ n.args \in Seq({"testing", "text", "error", "string"})
      /\ DOMAIN n.args = 1..Len(n.args) /\ Len(n.args) \in Nat
      /\ \A i \in DOMAIN n.args : n.args[i] \in {"testing", "text", "error", "string"}
  <2> DEFINE T == {"testing", "text", "error", "string"}
  <2>1. n.args \in Seq(T)
    BY CheckAssumption
  <2> HIDE DEF T
  <2>2. /\ DOMAIN n.args = 1..Len(n.args) /\ Len(n.args) \in Nat
        /\ \A i \in DOMAIN n.args : n.args[i] \in T
    BY <2>1, LenProperties, ElementOfSeq
  <2> QED
    BY <2>1, <2>2 DEF T
<1>2. k \in 1..3
  BY DEF Left
<1>3. CASE k > Len(n.args)
  BY <1>1, <1>2, <1>3 DEF Reads, Operand
<1>4. CASE ~(k > Len(n.args))
  <2>1. k \in DOMAIN n.args /\ n.args[k] \in {"testing", "text", "error", "string"}
    BY <1>1, <1>2, <1>4
  <2>2. CASE n.args[k] = "text"
    BY <1>2, <1>4, <2>1, <2>2 DEF Reads, Operand
  <2>3. CASE n.args[k] = "error"
    BY <1>2, <1>4, <2>1, <2>3 DEF Reads, Operand
  <2>4. CASE n.args[k] \in {"testing", "string"}
    BY <1>2, <1>4, <2>1, <2>4 DEF Reads, Operand
  <2> QED
    BY <2>1, <2>2, <2>3, <2>4
<1> QED
  BY <1>2, <1>3, <1>4

(* The outcome of a check varies exactly where it reads a message.         *)
LEMMA OutcomeVaries ==
  ASSUME NEW n \in Nodes, n.kind = "check", ~NeverEqual(n)
  PROVE  (\E w, u \in [1..4 -> Word] : Outcome(n, w) # Outcome(n, u))
           <=> n.fn # "Errorf" /\ (Reads(n, Left(n)) \/ Reads(n, Left(n) + 1))
<1>1. CASE n.fn = "Errorf"
  BY <1>1 DEF Outcome
<1>2. CASE n.fn # "Errorf"
  <2> DEFINE a == Left(n)
             b == Left(n) + 1
  <2>1. \A w \in [1..4 -> Word] : Outcome(n, w) <=> Operand(n, a, w) = Operand(n, b, w)
    BY <1>2 DEF Outcome
  <2>2. \A w \in [1..4 -> Word] : Outcome(n, w) \in BOOLEAN
    BY DEF Outcome
  <2>3. a \in 1..4 /\ b \in 1..4 /\ a # b
    BY DEF Left
  <2>4. \A k \in {a, b} : \A w \in [1..4 -> Word] :
          /\ Reads(n, k) => Operand(n, k, w) = w[k]
          /\ ~Reads(n, k) => Operand(n, k, w) =
               IF k \in DOMAIN n.args /\ n.args[k] = "error" THEN "value" ELSE "pattern"
    BY <1>2, OperandReads
  <2>5. ASSUME ~Reads(n, a), ~Reads(n, b), NEW w \in [1..4 -> Word], NEW u \in [1..4 -> Word]
        PROVE  Outcome(n, w) = Outcome(n, u)
    <3>1. Operand(n, a, w) = Operand(n, a, u) /\ Operand(n, b, w) = Operand(n, b, u)
      BY <2>4, <2>5
    <3> QED
      BY <2>1, <2>2, <3>1
  <2>6. ASSUME NEW k \in {a, b}, Reads(n, k)
        PROVE  \E w, u \in [1..4 -> Word] : Outcome(n, w) # Outcome(n, u)
    <3>1. PICK other \in Word : other # "pattern"
      BY CheckAssumption
    <3> DEFINE w == [i \in 1..4 |-> "pattern"]
               u == [i \in 1..4 |-> IF i = k THEN other ELSE "pattern"]
    <3>2. w \in [1..4 -> Word] /\ u \in [1..4 -> Word]
      BY <3>1, CheckAssumption
    <3>3. \A i \in 1..4 : w[i] = "pattern" /\ u[i] = IF i = k THEN other ELSE "pattern"
      OBVIOUS
    <3> HIDE DEF w, u
    <3>4. PICK j \in {a, b} : j # k /\ {a, b} = {k, j}
      BY <2>3
    <3>5. ASSUME ~Reads(n, j) PROVE ~(j \in DOMAIN n.args /\ n.args[j] = "error")
      <4> SUFFICES ASSUME j \in DOMAIN n.args, n.args[j] = "error" PROVE FALSE
        OBVIOUS
      <4>1. n.fn \in {"Equal", "=="}
        BY <3>5 DEF Reads
      <4>2. n.args[k] = "text"
        BY <2>6, <4>1 DEF Reads
      <4>3. CASE n.fn = "=="
        <5>1. n.args[a] = "error" <=> n.args[b] = "error"
          BY <4>3, CheckAssumption
        <5> QED
          BY <3>4, <4>2, <5>1
      <4>4. CASE n.fn = "Equal"
        <5>1. {n.args[a], n.args[b]} = {"error", "text"}
          BY <3>4, <4>2
        <5> QED
          BY <4>4, <5>1 DEF NeverEqual
      <4> QED
        BY <4>1, <4>3, <4>4
    <3>6. Operand(n, k, w) = "pattern" /\ Operand(n, k, u) = other
      BY <2>3, <2>4, <2>6, <3>2, <3>3
    <3>7. Operand(n, j, w) = "pattern" /\ Operand(n, j, u) = "pattern"
      <4>1. CASE Reads(n, j)
        BY <2>3, <2>4, <3>2, <3>3, <3>4, <4>1
      <4>2. CASE ~Reads(n, j)
        BY <2>4, <3>2, <3>5, <4>2
      <4> QED
        BY <4>1, <4>2
    <3>8. Outcome(n, w) /\ ~Outcome(n, u)
      <4>1. CASE k = a /\ j = b
        BY <2>1, <3>1, <3>2, <3>6, <3>7, <4>1
      <4>2. CASE k = b /\ j = a
        BY <2>1, <3>1, <3>2, <3>6, <3>7, <4>2
      <4> QED
        BY <3>4, <4>1, <4>2
    <3> QED
      BY <2>2, <3>2, <3>8
  <2> HIDE DEF a, b
  <2>7. (\E w, u \in [1..4 -> Word] : Outcome(n, w) # Outcome(n, u)) <=> Reads(n, a) \/ Reads(n, b)
    BY <2>5, <2>6
  <2> QED
    BY <1>2, <2>7 DEF a, b
<1> QED
  BY <1>1, <1>2

(* What stands in the arguments of the assertion: the two that the check   *)
(* compares, and never a message.                                          *)
LEMMA AssertedArguments ==
  ASSUME NEW n \in Nodes, n.kind = "check", FormOf(n) # "none" \/ n.fn = "==", NEW x \in {"text", "error"}
  PROVE  x \in Range(AssertArgs(n))
           <=> \E k \in {Left(n), Left(n) + 1} : k \in DOMAIN n.args /\ n.args[k] = x
<1> DEFINE T == {"testing", "text", "error", "string"}
           a == Left(n)
<1>1. /\ n.fn \in Testify \cup {"strings.Contains", "regexp.MatchString", "==", "Errorf"}
      /\ n.args \in Seq(T)
      /\ n.fn \in Testify => /\ Len(n.args) > a
                             /\ a = 2 => n.args[1] = "testing"
      /\ n.fn \in {"strings.Contains", "regexp.MatchString"} => Len(n.args) <= 2
      /\ n.fn = "==" => Len(n.args) = 2
  BY CheckAssumption
<1> HIDE DEF T
<1>2. DOMAIN n.args = 1..Len(n.args) /\ Len(n.args) \in Nat /\ \A i \in DOMAIN n.args : n.args[i] \in T
  BY <1>1, LenProperties, ElementOfSeq
<1>3. CASE n.fn \in Testify
  <2>1. FormOf(n) \notin {"none", "text"} /\ (IF n.method THEN 2 ELSE 3) = a + 1
    BY <1>3 DEF FormOf, Testify, Left
  <2>2. a \in {1, 2} /\ AssertArgs(n) = SubSeq(n.args, 1, a + 1)
    BY <1>1, <1>2, <1>3, <2>1 DEF AssertArgs, Left
  <2>3. \A i \in 1..(a + 1) : n.args[i] \in T
    BY <1>1, <1>2, <1>3, <2>2
  <2>4. /\ AssertArgs(n) \in Seq(T) /\ Len(AssertArgs(n)) = a + 1
        /\ \A i \in 1..(a + 1) : AssertArgs(n)[i] = n.args[i]
    <3> HIDE DEF a
    <3>1. /\ SubSeq(n.args, 1, a + 1) \in Seq(T)
          /\ Len(SubSeq(n.args, 1, a + 1)) = IF 1 <= a + 1 THEN a + 1 - 1 + 1 ELSE 0
          /\ \A i \in 1..(a + 1 - 1 + 1) : SubSeq(n.args, 1, a + 1)[i] = n.args[1 + i - 1]
      BY <2>2, <2>3, SubSeqProperties
    <3> QED
      BY <2>2, <3>1
  <2>5. DOMAIN AssertArgs(n) = 1..(a + 1)
    BY <2>4, LenProperties
  <2>6. x \in Range(AssertArgs(n)) <=> \E i \in 1..(a + 1) : n.args[i] = x
    BY <2>4, <2>5 DEF Range
  <2>7. 1..(a + 1) = {1, a, a + 1} /\ (a # 1 => n.args[1] = "testing")
    BY <1>1, <1>3, <2>2
  <2>8. a \in DOMAIN n.args /\ a + 1 \in DOMAIN n.args
    BY <1>1, <1>2, <1>3, <2>2
  <2> QED
    BY <2>6, <2>7, <2>8
<1>4. CASE n.fn \notin Testify
  <2>1. FormOf(n) \in {"none", "text"} /\ a = 1 /\ n.fn # "Errorf"
    BY <1>1, <1>4 DEF FormOf, Testify, Left
  <2>2. AssertArgs(n) = n.args
    BY <2>1 DEF AssertArgs
  <2>3. Len(n.args) <= 2
    BY <1>1, <1>2, <1>4, <2>1
  <2>4. \A i \in DOMAIN n.args : i \in {a, a + 1}
    BY <1>2, <2>1, <2>3
  <2> QED
    BY <2>2, <2>4 DEF Range
<1> QED
  BY <1>3, <1>4

(* G13 reports a check exactly where its outcome varies with a message,    *)
(* the two equality forms only under the setting.                          *)
LEMMA AssertsText ==
  ASSUME conf \in Confs, NEW n \in Nodes, n.kind = "check", ~NeverEqual(n)
  PROVE  Asserts(n) <=>
           /\ \E w, u \in [1..4 -> Word] : Outcome(n, w) # Outcome(n, u)
           /\ n.fn \in {"Equal", "EqualError", "=="} => conf.equality
<1> DEFINE Given(x) == \E k \in {Left(n), Left(n) + 1} : k \in DOMAIN n.args /\ n.args[k] = x
<1>1. n.fn \in Testify \cup {"strings.Contains", "regexp.MatchString", "==", "Errorf"}
  BY CheckAssumption
<1>2. (\E w, u \in [1..4 -> Word] : Outcome(n, w) # Outcome(n, u))
        <=> n.fn # "Errorf" /\ (Given("text") \/ (Given("error") /\ n.fn \notin {"Equal", "=="}))
  BY OutcomeVaries DEF Reads
<1>3. FormOf(n) # "none" \/ n.fn = "==" =>
        /\ HasErrorText(AssertArgs(n)) <=> Given("text")
        /\ HasErrorValue(AssertArgs(n)) <=> Given("error")
  BY AssertedArguments DEF HasErrorText, HasErrorValue
<1> HIDE DEF Given
<1>4. CASE n.fn \in {"strings.Contains", "regexp.MatchString"}
  <2>1. FormOf(n) = "text" /\ n.fn # "=="
    BY <1>4 DEF FormOf
  <2>2. ~Given("error")
    <3>1. Range(n.args) \subseteq {"text", "string"}
      BY <1>4, CheckAssumption
    <3> QED
      BY <3>1 DEF Given, Range
  <2> QED
    BY <1>2, <1>3, <1>4, <2>1, <2>2 DEF Asserts, CheckCall, CheckComparison
<1>5. CASE n.fn \in {"ErrorContains", "Regexp"}
  <2>1. FormOf(n) = "errorText" /\ n.fn # "=="
    BY <1>5 DEF FormOf
  <2> QED
    BY <1>2, <1>3, <1>5, <2>1 DEF Asserts, CheckCall, CheckComparison
<1>6. CASE n.fn = "EqualError"
  <2>1. FormOf(n) = "equalityValue" /\ n.fn # "=="
    BY <1>6 DEF FormOf
  <2> QED
    BY <1>2, <1>3, <1>6, <2>1 DEF Asserts, CheckCall, CheckComparison
<1>7. CASE n.fn = "Equal"
  <2>1. FormOf(n) = "equalityText" /\ n.fn # "=="
    BY <1>7 DEF FormOf
  <2> QED
    BY <1>2, <1>3, <1>7, <2>1 DEF Asserts, CheckCall, CheckComparison
<1>8. CASE n.fn = "=="
  <2>1. FormOf(n) = "none" /\ AssertArgs(n) = n.args
    BY <1>8 DEF FormOf, AssertArgs
  <2> QED
    BY <1>2, <1>3, <1>8, <2>1 DEF Asserts, CheckCall, CheckComparison
<1>9. CASE n.fn = "Errorf"
  <2>1. FormOf(n) = "none"
    BY <1>9 DEF FormOf
  <2> QED
    BY <1>2, <1>9, <2>1 DEF Asserts, CheckCall, CheckComparison
<1> QED
  BY <1>1, <1>4, <1>5, <1>6, <1>7, <1>8, <1>9 DEF Testify
--------------------------------------------------------------------------------
(* G14: the calls that the walk below an assertion reaches.                *)

LEMMA CallsTyped ==
  ASSUME NEW calls \in Calls
  PROVE  /\ Len(calls) \in Nat /\ Len(calls) \in 0..Len(calls) /\ DOMAIN calls = 1..Len(calls)
         /\ \A j \in 1..Len(calls) : calls[j].up \in Nat /\ calls[j].up < j /\ calls[j].slot \in Nat
<1> DEFINE Call == [callee : STRING, takes : BOOLEAN, up : Nat, slot : Nat, lit : BOOLEAN]
<1>1. calls \in Seq(Call)
  BY DEF Calls
<1> HIDE DEF Call
<1>2. DOMAIN calls = 1..Len(calls) /\ Len(calls) \in Nat
  BY <1>1, LenProperties
<1>3. \A j \in 1..Len(calls) : calls[j] \in Call
  BY <1>1, ElementOfSeq
<1>4. \A j \in 1..Len(calls) : calls[j].up \in Nat /\ calls[j].slot \in Nat
  BY <1>3 DEF Call
<1> QED
  BY <1>2, <1>4 DEF Calls

(* Whether call j, if the calls before it are decided by g, is reached.    *)
Enters(g, calls, k, j) ==
  /\ j > k /\ ~calls[j].lit
  /\ \/ calls[j].up = k /\ ValueSlot(calls[k], calls[j].slot)
     \/ calls[j].up > k /\ g[calls[j].up]

IsReach(g, calls, k, n) == g = [j \in 1..n |-> Enters(g, calls, k, j)]

LEMMA ReachExists ==
  ASSUME NEW calls \in Calls, NEW k \in 1..Len(calls), NEW n \in 0..Len(calls)
  PROVE  \E g : IsReach(g, calls, k, n)
<1> DEFINE S == {m \in Nat : m <= Len(calls) => \E g : IsReach(g, calls, k, m)}
<1>0. Len(calls) \in Nat /\ \A j \in 1..Len(calls) : calls[j].up \in Nat /\ calls[j].up < j
  BY CallsTyped
<1>1. 0 \in S
  <2>1. IsReach([j \in 1..0 |-> FALSE], calls, k, 0)
    BY DEF IsReach
  <2> QED
    BY <2>1
<1>2. ASSUME NEW m \in S PROVE m + 1 \in S
  <2> SUFFICES ASSUME m + 1 <= Len(calls) PROVE \E g : IsReach(g, calls, k, m + 1)
    OBVIOUS
  <2>0. m \in Nat /\ \E g : IsReach(g, calls, k, m)
    BY <1>0, <1>2
  <2> HIDE DEF S
  <2>1. PICK g : IsReach(g, calls, k, m)
    BY <2>0
  <2> DEFINE h == [j \in 1..(m + 1) |-> Enters(g, calls, k, j)]
  <2>2. ASSUME NEW j \in 1..m PROVE h[j] = g[j]
    <3>1. g[j] = Enters(g, calls, k, j)
      BY <2>1 DEF IsReach
    <3>2. j \in 1..(m + 1)
      BY <2>0
    <3> QED
      BY <3>1, <3>2
  <2>3. ASSUME NEW j \in 1..(m + 1) PROVE Enters(h, calls, k, j) = Enters(g, calls, k, j)
    <3>1. CASE calls[j].up > k
      <4>1. calls[j].up \in 1..m
        BY <1>0, <2>0, <3>1
      <4>2. h[calls[j].up] = g[calls[j].up]
        BY <2>2, <4>1
      <4> HIDE DEF h
      <4> QED
        BY <4>2 DEF Enters
    <3>2. CASE ~(calls[j].up > k)
      <4> HIDE DEF h
      <4> QED
        BY <3>2 DEF Enters
    <3> QED
      BY <3>1, <3>2
  <2>4. h = [j \in 1..(m + 1) |-> Enters(h, calls, k, j)]
    <3>1. h = [j \in 1..(m + 1) |-> Enters(g, calls, k, j)]
      OBVIOUS
    <3> HIDE DEF h
    <3> QED
      BY <2>3, <3>1
  <2> HIDE DEF h
  <2> QED
    BY <2>4 DEF IsReach
<1>3. n \in S
  <2>1. S \subseteq Nat
    OBVIOUS
  <2> HIDE DEF S
  <2>2. \A m \in Nat : m \in S
    BY <1>1, <1>2, <2>1, SetInduction
  <2> QED
    BY <1>0, <2>2
<1>4. n <= Len(calls)
  BY <1>0
<1> QED
  BY <1>3, <1>4

LEMMA ReachedCalls ==
  ASSUME NEW calls \in Calls, NEW k \in 1..Len(calls)
  PROVE  /\ Reached(calls, k) \subseteq 1..Len(calls)
         /\ \A j \in 1..Len(calls) :
              j \in Reached(calls, k) <=>
                /\ IsAssertion(calls[k]) /\ j > k /\ ~calls[j].lit
                /\ \/ calls[j].up = k /\ ValueSlot(calls[k], calls[j].slot)
                   \/ calls[j].up > k /\ calls[j].up \in Reached(calls, k)
<1> DEFINE G == CHOOSE g : IsReach(g, calls, k, Len(calls))
<1>0. Len(calls) \in Nat /\ Len(calls) \in 0..Len(calls)
      /\ \A j \in 1..Len(calls) : calls[j].up \in Nat /\ calls[j].up < j
  BY CallsTyped
<1>1. IsReach(G, calls, k, Len(calls))
  BY <1>0, ReachExists
<1>2. Reached(calls, k) = IF IsAssertion(calls[k]) THEN {j \in 1..Len(calls) : G[j]} ELSE {}
  BY DEF Reached, IsReach, Enters
<1> HIDE DEF G
<1>3. \A j \in 1..Len(calls) : G[j] <=> Enters(G, calls, k, j)
  BY <1>1 DEF IsReach
<1>4. ASSUME NEW j \in 1..Len(calls), IsAssertion(calls[k])
      PROVE  /\ j \in Reached(calls, k) <=> Enters(G, calls, k, j)
             /\ calls[j].up > k => (G[calls[j].up] <=> calls[j].up \in Reached(calls, k))
  <2>1. j \in Reached(calls, k) <=> Enters(G, calls, k, j)
    BY <1>2, <1>3, <1>4
  <2>2. ASSUME calls[j].up > k PROVE G[calls[j].up] <=> calls[j].up \in Reached(calls, k)
    <3>1. calls[j].up \in 1..Len(calls)
      BY <1>0, <2>2
    <3> QED
      BY <1>2, <1>4, <3>1
  <2> QED
    BY <2>1, <2>2
<1>5. CASE IsAssertion(calls[k])
  BY <1>2, <1>4, <1>5 DEF Enters
<1>6. CASE ~IsAssertion(calls[k])
  BY <1>2, <1>6
<1> QED
  BY <1>5, <1>6

(* A call is nested in an assertion of the documentation exactly where the *)
(* walk of some assertion reaches it.                                      *)
LEMMA NestedReached ==
  ASSUME NEW calls \in Calls, NEW j \in 1..Len(calls)
  PROVE  Nested(calls, j) <=> \E k \in 1..Len(calls) : j \in Reached(calls, k)
<1>0. Len(calls) \in Nat
      /\ \A i \in 1..Len(calls) : calls[i].up \in Nat /\ calls[i].up < i /\ calls[i].slot \in Nat
  BY CallsTyped
<1>1. \A k, i \in 1..Len(calls) :
        ValueSlot(calls[k], calls[i].slot)
          <=> calls[i].slot >= IF calls[k].callee = "require.Equal" THEN 2 ELSE 1
  BY <1>0 DEF ValueSlot
<1>2. ASSUME NEW k \in 1..Len(calls), j \in Reached(calls, k) PROVE Nested(calls, j)
  <2> DEFINE way == Reached(calls, k)
  <2>1. /\ way \subseteq 1..Len(calls)
        /\ \A x \in way : /\ IsAssertion(calls[k]) /\ ~calls[x].lit
                          /\ \/ calls[x].up \in way
                             \/ calls[x].up = k /\ ValueSlot(calls[k], calls[x].slot)
    BY ReachedCalls
  <2> HIDE DEF way
  <2>2. j \in way
    BY <1>2 DEF way
  <2>3. way \in SUBSET (1..Len(calls))
    BY <2>1
  <2>4. \A x \in way : /\ ~calls[x].lit
                       /\ \/ calls[x].up \in way
                          \/ /\ calls[x].up = k
                             /\ calls[x].slot >= IF calls[k].callee = "require.Equal" THEN 2 ELSE 1
    BY <1>1, <2>1
  <2> QED
    BY <2>1, <2>2, <2>3, <2>4 DEF Nested
<1>3. ASSUME Nested(calls, j) PROVE \E k \in 1..Len(calls) : j \in Reached(calls, k)
  <2>1. PICK k \in 1..Len(calls), way \in SUBSET (1..Len(calls)) :
          /\ IsAssertion(calls[k]) /\ j \in way
          /\ \A x \in way :
               /\ ~calls[x].lit
               /\ \/ calls[x].up \in way
                  \/ /\ calls[x].up = k
                     /\ calls[x].slot >= IF calls[k].callee = "require.Equal" THEN 2 ELSE 1
    BY <1>3 DEF Nested
  <2> DEFINE missed == way \ Reached(calls, k)
  <2>2. missed = {}
    <3> SUFFICES ASSUME missed # {} PROVE FALSE
      OBVIOUS
    <3>1. missed \subseteq Nat
      <4>1. 1..Len(calls) \subseteq Nat
        BY <1>0
      <4>2. missed \subseteq 1..Len(calls)
        OBVIOUS
      <4> HIDE DEF missed
      <4> QED
        BY <4>1, <4>2
    <3> HIDE DEF missed
    <3>2. PICK x \in missed : \A y \in missed : x <= y
      BY <3>1, LeastNumber
    <3>3. x \in way /\ x \in 1..Len(calls) /\ x \notin Reached(calls, k)
      BY <3>2 DEF missed
    <3>4. CASE calls[x].up \in way
      <4>1. calls[x].up \in 1..Len(calls) /\ calls[x].up < x
        BY <1>0, <3>3, <3>4
      <4>2. calls[x].up \notin missed
        BY <1>0, <3>2, <3>3, <4>1
      <4>3. calls[x].up \in Reached(calls, k)
        BY <3>4, <4>2 DEF missed
      <4>4. calls[x].up > k
        <5>1. \A i \in 1..Len(calls) : i \in Reached(calls, k) => i > k
          BY ReachedCalls
        <5> QED
          BY <4>1, <4>3, <5>1
      <4>5. x > k
        BY <1>0, <3>3, <4>1, <4>4
      <4> QED
        BY <2>1, <3>3, <4>3, <4>4, <4>5, ReachedCalls
    <3>5. CASE /\ calls[x].up = k
               /\ calls[x].slot >= IF calls[k].callee = "require.Equal" THEN 2 ELSE 1
      <4>1. x > k
        BY <1>0, <3>3, <3>5
      <4>2. ValueSlot(calls[k], calls[x].slot)
        BY <1>1, <3>3, <3>5
      <4> QED
        BY <2>1, <3>3, <3>5, <4>1, <4>2, ReachedCalls
    <3> QED
      BY <2>1, <3>3, <3>4, <3>5
  <2> QED
    BY <2>1, <2>2
<1> QED
  BY <1>2, <1>3
--------------------------------------------------------------------------------
(* The inductive invariant.                                                *)

Rule(kind) ==
  IF kind \in {"import", "use"} THEN "noreflect"
  ELSE IF kind = "assign" THEN "nomonkeypatch"
  ELSE IF kind = "check" THEN "errsemantics" ELSE "separategotwant"

ReportsOf(rule) == {r \in reports : r.rule = rule}

Typed ==
  /\ phase \in {"write", "pass", "run"}
  /\ nodes \in Seq(Nodes) /\ conf \in Confs /\ generated \subseteq File
  /\ first \in [File -> Nat]
  /\ ran \subseteq At("assign") /\ DOMAIN mem = DOMAIN Boot

(* Before the pass nothing is read, and at its end everything is.          *)
Started ==
  phase = "write" =>
    /\ unread = {} /\ reported = {} /\ reports = {} /\ ran = {}
    /\ \A f \in File : first[f] = 0

Finished == phase = "run" => unread = {}

Imported ==
  \A i \in At("use") : \E j \in At("import") : nodes[j].file = nodes[i].file

(* What the pass remembers of a file is its first use beyond DeepEqual,    *)
(* among those that it has read.                                           *)
FirstRead ==
  \A f \in File : first[f] # 0 =>
    /\ first[f] \in At("use") /\ nodes[first[f]].file = f
    /\ nodes[first[f]].name # "DeepEqual" /\ <<first[f], 1>> \notin unread

FirstLeast ==
  phase # "write" /\ ReflectTests # {} =>
    \A i \in At("use") :
      nodes[i].name # "DeepEqual" /\ <<i, 1>> \notin unread =>
        first[nodes[i].file] # 0 /\ first[nodes[i].file] <= i

(* A report stands at a node that its rule reads, by a visit that is over. *)
Placed ==
  \A r \in reports :
    /\ r.at[1] \in DOMAIN nodes /\ r.rule = Rule(nodes[r.at[1]].kind) /\ r.by \notin unread

Reflects ==
  phase # "write" =>
    ReportsOf("noreflect") = IF phase = "run" THEN ImportReports \cup BeyondReports ELSE ImportReports

Checked ==
  phase # "write" =>
    \A i \in At("check") :
      (\E r \in reports : r.at[1] = i) <=>
        <<i, 1>> \notin unread /\ Judged(nodes[i].file) /\ Asserts(nodes[i])

(* The positions that separategotwant has reported, each with one report:  *)
(* those that the walks of the calls it has read have found.               *)
Recorded ==
  /\ reported = {r.at : r \in ReportsOf("separategotwant")}
  /\ \A r, s \in ReportsOf("separategotwant") : r.at = s.at => r = s
  /\ \A p \in reported : p = <<p[1], p[2]>>

Walked ==
  phase # "write" =>
    \A i \in At("calls") : \A x :
      <<i, x>> \in reported <=>
        /\ Judged(nodes[i].file)
        /\ \E k \in DOMAIN nodes[i].calls : <<i, k>> \notin unread /\ <<i, x>> \in Found(i, k)

IInv ==
  /\ Typed /\ Started /\ Finished /\ Imported
  /\ FirstRead /\ FirstLeast /\ Placed /\ Reflects /\ Checked /\ Recorded /\ Walked

LEMMA NodesTyped ==
  ASSUME Typed
  PROVE  /\ Len(nodes) \in Nat /\ DOMAIN nodes = 1..Len(nodes)
         /\ \A i \in DOMAIN nodes :
              /\ i \in Nat /\ i # 0 /\ nodes[i] \in Nodes /\ nodes[i].file \in File
              /\ nodes[i].kind \in {"import", "use", "assign", "check", "calls"}
              /\ nodes[i].kind = "calls" => nodes[i].calls \in Calls
<1>1. Len(nodes) \in Nat /\ DOMAIN nodes = 1..Len(nodes) /\ \A i \in DOMAIN nodes : nodes[i] \in Nodes
  BY LenProperties, ElementOfSeq DEF Typed
<1> QED
  BY <1>1, NodeAssumption

(* What depends on the package and the configuration only.                 *)
LEMMA Unmoved ==
  ASSUME UNCHANGED <<nodes, conf, generated>>
  PROVE  /\ \A kind : At(kind)' = At(kind)
         /\ \A f : Judged(f)' <=> Judged(f)
         /\ ReflectTests' = ReflectTests /\ ImportReports' = ImportReports
         /\ \A n : Asserts(n)' <=> Asserts(n)
         /\ \A i, k : Found(i, k)' = Found(i, k)
<1>1. \A kind : At(kind)' = At(kind)
  BY DEF At
<1>2. (\A f : TestFile(f)' <=> TestFile(f)) /\ (\A f : Judged(f)' <=> Judged(f)) /\ (Allowed' <=> Allowed)
  BY DEF TestFile, Judged, Allowed
<1>3. ReflectTests' = ReflectTests
  BY DEF ReflectTests, ReflectImports, At, Judged, TestFile, Allowed
<1>4. ImportReports' = ImportReports
  BY DEF ImportReports, At, TestFile, Allowed
<1>5. \A n : Asserts(n)' <=> Asserts(n)
  BY DEF Asserts, CheckCall, CheckComparison
<1>6. \A i, k : Found(i, k)' = Found(i, k)
  BY DEF Found
<1> QED
  BY <1>1, <1>2, <1>3, <1>4, <1>5, <1>6

(* A visit of the pass to node i, that adds the reports added.             *)
Visited(i, k, added) ==
  /\ phase = "pass" /\ i \in DOMAIN nodes /\ <<i, k>> \in unread
  /\ \A r \in added : /\ r.at[1] = i /\ r.by = <<i, k>> /\ r.rule = Rule(nodes[i].kind)
                      /\ r.rule # "noreflect"
  /\ reports' = reports \cup added
  /\ unread' = unread \ {<<i, k>>}
  /\ UNCHANGED <<phase, nodes, conf, generated, mem, ran>>

LEMMA VisitKeeps ==
  ASSUME IInv, NEW i, NEW k, NEW added, Visited(i, k, added), first' \in [File -> Nat]
  PROVE  Typed' /\ Started' /\ Finished' /\ Imported' /\ Placed' /\ Reflects'
<1>1. UNCHANGED <<nodes, conf, generated>> /\ UNCHANGED <<phase, mem, ran>> /\ phase = "pass"
      /\ reports' = reports \cup added /\ unread' = unread \ {<<i, k>>}
  BY DEF Visited
<1>2. /\ \A kind : At(kind)' = At(kind)
      /\ ImportReports' = ImportReports
  BY <1>1, Unmoved
<1>3. Typed'
  BY <1>1, <1>2 DEF IInv, Typed
<1>4. Started' /\ Finished'
  BY <1>1 DEF Started, Finished
<1>5. Imported'
  BY <1>1, <1>2 DEF IInv, Imported
<1>6. Placed'
  <2> SUFFICES ASSUME NEW r \in reports'
               PROVE  r.at[1] \in DOMAIN nodes /\ r.rule = Rule(nodes[r.at[1]].kind) /\ r.by \notin unread'
    BY <1>1 DEF Placed
  <2>1. CASE r \in reports
    BY <1>1, <2>1 DEF IInv, Placed
  <2>2. CASE r \in added
    BY <1>1, <2>2 DEF Visited
  <2> QED
    BY <1>1, <2>1, <2>2
<1>7. Reflects'
  <2>1. ReportsOf("noreflect")' = ReportsOf("noreflect")
    BY <1>1 DEF ReportsOf, Visited
  <2>2. ReportsOf("noreflect") = ImportReports
    BY <1>1 DEF IInv, Reflects
  <2> QED
    BY <1>1, <1>2, <2>1, <2>2 DEF Reflects
<1> QED
  BY <1>3, <1>4, <1>5, <1>6, <1>7

(* A visit to a node of another kind changes nothing that a rule knows.    *)
LEMMA VisitElsewhere ==
  ASSUME IInv, NEW i, NEW k, NEW added, Visited(i, k, added)
  PROVE  /\ nodes[i].kind # "use" /\ first' = first => FirstRead' /\ FirstLeast'
         /\ nodes[i].kind # "check" => Checked'
         /\ nodes[i].kind # "calls" /\ reported' = reported => Recorded' /\ Walked'
<1>1. UNCHANGED <<nodes, conf, generated>> /\ phase' = phase /\ phase = "pass"
      /\ reports' = reports \cup added /\ unread' = unread \ {<<i, k>>}
      /\ \A r \in added : r.at[1] = i /\ r.rule = Rule(nodes[i].kind)
  BY DEF Visited
<1>2. /\ \A kind : At(kind)' = At(kind)
      /\ \A f : Judged(f)' <=> Judged(f)
      /\ ReflectTests' = ReflectTests
      /\ \A n : Asserts(n)' <=> Asserts(n)
      /\ \A j, m : Found(j, m)' = Found(j, m)
  BY <1>1, Unmoved
<1>3. ASSUME NEW j, NEW m, j # i PROVE <<j, m>> \in unread' <=> <<j, m>> \in unread
  BY <1>1, <1>3
<1>4. \A kind : \A j \in At(kind) : nodes[j].kind = kind
  BY DEF At
<1>5. ASSUME nodes[i].kind # "use", first' = first PROVE FirstRead' /\ FirstLeast'
  <2>1. FirstRead'
    BY <1>1, <1>2, <1>5 DEF IInv, FirstRead
  <2>2. \A j \in At("use") : j # i
    BY <1>4, <1>5
  <2>3. FirstLeast'
    BY <1>1, <1>2, <1>3, <1>5, <2>2 DEF IInv, FirstLeast
  <2> QED
    BY <2>1, <2>3
<1>6. ASSUME nodes[i].kind # "check" PROVE Checked'
  <2>1. \A j \in At("check") : j # i
    BY <1>4, <1>6
  <2>2. ASSUME NEW j \in At("check")
        PROVE  (\E r \in reports' : r.at[1] = j) <=>
                 <<j, 1>> \notin unread' /\ Judged(nodes[j].file) /\ Asserts(nodes[j])
    <3>1. (\E r \in reports' : r.at[1] = j) <=> (\E r \in reports : r.at[1] = j)
      BY <1>1, <2>1
    <3>2. (\E r \in reports : r.at[1] = j) <=>
            <<j, 1>> \notin unread /\ Judged(nodes[j].file) /\ Asserts(nodes[j])
      BY <1>1 DEF IInv, Checked
    <3> QED
      BY <1>3, <2>1, <3>1, <3>2
  <2> QED
    BY <1>1, <1>2, <2>2 DEF Checked
<1>7. ASSUME nodes[i].kind # "calls", reported' = reported PROVE Recorded' /\ Walked'
  <2>1. ReportsOf("separategotwant")' = ReportsOf("separategotwant")
    <3>1. i \in DOMAIN nodes /\ Typed
      BY DEF Visited, IInv
    <3>2. Rule(nodes[i].kind) # "separategotwant"
      BY <1>7, <3>1, NodesTyped DEF Rule
    <3> QED
      BY <1>1, <3>2 DEF ReportsOf
  <2>2. Recorded'
    BY <1>7, <2>1 DEF IInv, Recorded
  <2>3. \A j \in At("calls") : j # i
    BY <1>4, <1>7
  <2>4. Walked'
    <3> SUFFICES ASSUME NEW j \in At("calls"), NEW x
                 PROVE  <<j, x>> \in reported <=>
                          /\ Judged(nodes[j].file)
                          /\ \E m \in DOMAIN nodes[j].calls : <<j, m>> \notin unread' /\ <<j, x>> \in Found(j, m)
      BY <1>1, <1>2, <1>7 DEF Walked
    <3>1. <<j, x>> \in reported <=>
            /\ Judged(nodes[j].file)
            /\ \E m \in DOMAIN nodes[j].calls : <<j, m>> \notin unread /\ <<j, x>> \in Found(j, m)
      BY <1>1 DEF IInv, Walked
    <3> QED
      BY <1>3, <2>3, <3>1
  <2> QED
    BY <2>2, <2>4
<1> QED
  BY <1>5, <1>6, <1>7

LEMMA ReadUseIInv ==
  ASSUME IInv, NEW i \in DOMAIN nodes, ReadUse(i)
  PROVE  IInv'
<1> DEFINE f == nodes[i].file
<1>1. /\ phase = "pass" /\ nodes[i].kind = "use" /\ <<i, 1>> \in unread
      /\ first' = IF Stays(f, i) THEN first ELSE [first EXCEPT ![f] = i]
      /\ unread' = unread \ {<<i, 1>>}
      /\ UNCHANGED <<phase, nodes, conf, generated, reported, reports, mem, ran>>
  BY DEF ReadUse
<1>2. Typed /\ f \in File /\ i \in Nat /\ i # 0 /\ i \in At("use") /\ first \in [File -> Nat]
  BY <1>1, NodesTyped DEF IInv, Typed, At
<1> HIDE DEF f
<1>3. Visited(i, 1, {})
  BY <1>1 DEF Visited
<1>4. first' \in [File -> Nat]
  BY <1>1, <1>2
<1>5. Typed' /\ Started' /\ Finished' /\ Imported' /\ Placed' /\ Reflects'
  BY <1>3, <1>4, VisitKeeps
<1>6. Checked' /\ Recorded' /\ Walked'
  BY <1>1, <1>3, VisitElsewhere
<1>7. /\ \A kind : At(kind)' = At(kind)
      /\ ReflectTests' = ReflectTests
  BY <1>1, Unmoved
<1>8. \A g \in File : first'[g] = IF g = f /\ ~Stays(f, i) THEN i ELSE first[g]
  BY <1>1, <1>2
<1>9. Stays(f, i) <=> nodes[i].name = "DeepEqual" \/ (first[f] # 0 /\ first[f] <= i)
  BY DEF Stays
<1>10. FirstRead'
  <2> SUFFICES ASSUME NEW g \in File, first'[g] # 0
               PROVE  /\ first'[g] \in At("use") /\ nodes[first'[g]].file = g
                      /\ nodes[first'[g]].name # "DeepEqual" /\ <<first'[g], 1>> \notin unread'
    BY <1>1, <1>7 DEF FirstRead
  <2>1. CASE g = f /\ ~Stays(f, i)
    BY <1>1, <1>2, <1>8, <1>9, <2>1 DEF f
  <2>2. CASE ~(g = f /\ ~Stays(f, i))
    BY <1>1, <1>8, <2>2 DEF IInv, FirstRead
  <2> QED
    BY <2>1, <2>2
<1>11. FirstLeast'
  <2> SUFFICES ASSUME ReflectTests # {}, NEW j \in At("use"), nodes[j].name # "DeepEqual", <<j, 1>> \notin unread'
               PROVE  first'[nodes[j].file] # 0 /\ first'[nodes[j].file] <= j
    BY <1>1, <1>7 DEF FirstLeast
  <2>1. j \in DOMAIN nodes /\ j \in Nat /\ nodes[j].file \in File
    BY <1>2, NodesTyped DEF At
  <2>2. CASE j = i
    BY <1>2, <1>8, <1>9, <2>2 DEF f
  <2>3. CASE j # i
    <3>1. first[nodes[j].file] # 0 /\ first[nodes[j].file] <= j
      BY <1>1, <2>3 DEF IInv, FirstLeast
    <3>2. CASE nodes[j].file = f /\ ~Stays(f, i)
      <4>1. nodes[i].name # "DeepEqual" /\ ~(first[f] <= i) /\ first[f] <= j
        BY <1>9, <3>1, <3>2
      <4>2. i <= j
        BY <1>2, <2>1, <4>1
      <4> QED
        BY <1>2, <1>8, <2>1, <3>2, <4>2
    <3>3. CASE ~(nodes[j].file = f /\ ~Stays(f, i))
      BY <1>8, <2>1, <3>1, <3>3
    <3> QED
      BY <3>2, <3>3
  <2> QED
    BY <2>2, <2>3
<1> QED
  BY <1>5, <1>6, <1>10, <1>11 DEF IInv

LEMMA ReadAssignIInv ==
  ASSUME IInv, NEW i \in DOMAIN nodes, ReadAssign(i)
  PROVE  IInv'
<1> DEFINE added == IF Judged(nodes[i].file) /\ Patches(nodes[i])
                    THEN {[rule |-> "nomonkeypatch", at |-> <<i, 1>>, by |-> <<i, 1>>]} ELSE {}
<1>1. /\ phase = "pass" /\ nodes[i].kind = "assign" /\ <<i, 1>> \in unread
      /\ reports' = reports \cup added
      /\ unread' = unread \ {<<i, 1>>}
      /\ UNCHANGED <<phase, nodes, conf, generated, first, reported, mem, ran>>
  BY DEF ReadAssign
<1>2. Visited(i, 1, added)
  <2>1. \A r \in added : r.at[1] = i /\ r.by = <<i, 1>> /\ r.rule = "nomonkeypatch"
    OBVIOUS
  <2> HIDE DEF added
  <2> QED
    BY <1>1, <2>1 DEF Visited, Rule
<1> HIDE DEF added
<1>3. first' \in [File -> Nat]
  BY <1>1 DEF IInv, Typed
<1>4. Typed' /\ Started' /\ Finished' /\ Imported' /\ Placed' /\ Reflects'
  BY <1>2, <1>3, VisitKeeps
<1>5. FirstRead' /\ FirstLeast' /\ Checked' /\ Recorded' /\ Walked'
  BY <1>1, <1>2, VisitElsewhere
<1> QED
  BY <1>4, <1>5 DEF IInv

LEMMA ReadCheckIInv ==
  ASSUME IInv, NEW i \in DOMAIN nodes, ReadCheck(i)
  PROVE  IInv'
<1> DEFINE added == IF Judged(nodes[i].file) /\ Asserts(nodes[i])
                    THEN {[rule |-> "errsemantics", at |-> <<i, 1>>, by |-> <<i, 1>>]} ELSE {}
<1>1. /\ phase = "pass" /\ nodes[i].kind = "check" /\ <<i, 1>> \in unread
      /\ reports' = reports \cup added
      /\ unread' = unread \ {<<i, 1>>}
      /\ UNCHANGED <<phase, nodes, conf, generated, first, reported, mem, ran>>
  BY DEF ReadCheck, Asserts
<1>2. /\ \A r \in added : r.at[1] = i /\ r.by = <<i, 1>> /\ r.rule = "errsemantics"
      /\ (\E r \in added : r.at[1] = i) <=> Judged(nodes[i].file) /\ Asserts(nodes[i])
  <2> DEFINE new == [rule |-> "errsemantics", at |-> <<i, 1>>, by |-> <<i, 1>>]
  <2>1. new.at[1] = i /\ new.by = <<i, 1>> /\ new.rule = "errsemantics"
    OBVIOUS
  <2>2. added = IF Judged(nodes[i].file) /\ Asserts(nodes[i]) THEN {new} ELSE {}
    OBVIOUS
  <2> HIDE DEF new, added
  <2> QED
    BY <2>1, <2>2
<1> HIDE DEF added
<1>3. Visited(i, 1, added)
  BY <1>1, <1>2 DEF Visited, Rule
<1>4. first' \in [File -> Nat]
  BY <1>1 DEF IInv, Typed
<1>5. Typed' /\ Started' /\ Finished' /\ Imported' /\ Placed' /\ Reflects'
  BY <1>3, <1>4, VisitKeeps
<1>6. FirstRead' /\ FirstLeast' /\ Recorded' /\ Walked'
  BY <1>1, <1>3, VisitElsewhere
<1>7. /\ \A kind : At(kind)' = At(kind)
      /\ \A f : Judged(f)' <=> Judged(f)
      /\ \A n : Asserts(n)' <=> Asserts(n)
  BY <1>1, Unmoved
<1>8. Checked'
  <2> SUFFICES ASSUME NEW j \in At("check")
               PROVE  (\E r \in reports' : r.at[1] = j) <=>
                        <<j, 1>> \notin unread' /\ Judged(nodes[j].file) /\ Asserts(nodes[j])
    BY <1>1, <1>7 DEF Checked
  <2>1. (\E r \in reports : r.at[1] = j) <=>
          <<j, 1>> \notin unread /\ Judged(nodes[j].file) /\ Asserts(nodes[j])
    BY <1>1 DEF IInv, Checked
  <2>2. CASE j = i
    BY <1>1, <1>2, <2>1, <2>2
  <2>3. CASE j # i
    BY <1>1, <1>2, <2>1, <2>3
  <2> QED
    BY <2>2, <2>3
<1> QED
  BY <1>5, <1>6, <1>8 DEF IInv

LEMMA ReadCallIInv ==
  ASSUME IInv, NEW i \in DOMAIN nodes, NEW k \in Visits(i), ReadCall(i, k)
  PROVE  IInv'
<1> DEFINE fresh == IF Judged(nodes[i].file) THEN Fresh(i, k) ELSE {}
           added == {[rule |-> "separategotwant", at |-> p, by |-> <<i, k>>] : p \in fresh}
<1>1. /\ phase = "pass" /\ nodes[i].kind = "calls" /\ <<i, k>> \in unread
      /\ reports' = reports \cup added
      /\ reported' = reported \cup fresh
      /\ unread' = unread \ {<<i, k>>}
      /\ UNCHANGED <<phase, nodes, conf, generated, first, mem, ran>>
  BY DEF ReadCall
<1>2. /\ \A p \in Found(i, k) : p[1] = i /\ p = <<p[1], p[2]>>
      /\ fresh = IF Judged(nodes[i].file) THEN Found(i, k) \ reported ELSE {}
  <2>1. \A p \in Found(i, k) : \E x : p = <<i, x>>
    BY DEF Found
  <2>2. fresh = IF Judged(nodes[i].file) THEN Found(i, k) \ reported ELSE {}
    BY DEF Fresh
  <2> HIDE DEF fresh
  <2>3. \A p \in Found(i, k) : p[1] = i /\ p = <<p[1], p[2]>>
    BY <2>1
  <2> QED
    BY <2>2, <2>3
<1> HIDE DEF fresh
<1>3. /\ \A r \in added : r.rule = "separategotwant" /\ r.at \in fresh /\ r.by = <<i, k>>
      /\ \A p \in fresh : \E r \in added : r.at = p
      /\ \A r, q \in added : r.at = q.at => r = q
  <2> DEFINE new(p) == [rule |-> "separategotwant", at |-> p, by |-> <<i, k>>]
  <2>1. \A p : new(p).at = p /\ new(p).by = <<i, k>> /\ new(p).rule = "separategotwant"
    OBVIOUS
  <2>2. \A r : r \in added <=> \E p \in fresh : r = new(p)
    OBVIOUS
  <2> HIDE DEF new, added
  <2> QED
    BY <2>1, <2>2
<1> HIDE DEF added
<1>4. Visited(i, k, added)
  <2>1. \A r \in added : r.at[1] = i
    BY <1>2, <1>3
  <2> QED
    BY <1>1, <1>3, <2>1 DEF Visited, Rule
<1>5. first' \in [File -> Nat]
  BY <1>1 DEF IInv, Typed
<1>6. Typed' /\ Started' /\ Finished' /\ Imported' /\ Placed' /\ Reflects'
  BY <1>4, <1>5, VisitKeeps
<1>7. FirstRead' /\ FirstLeast' /\ Checked'
  BY <1>1, <1>4, VisitElsewhere
<1>8. /\ \A kind : At(kind)' = At(kind)
      /\ \A f : Judged(f)' <=> Judged(f)
      /\ \A j, m : Found(j, m)' = Found(j, m)
  BY <1>1, Unmoved
<1>9. Recorded'
  <2>1. \A r : r \in ReportsOf("separategotwant")' <=> r \in ReportsOf("separategotwant") \/ r \in added
    BY <1>1, <1>3 DEF ReportsOf
  <2>2. \A r \in ReportsOf("separategotwant") : r.at \in reported
    BY DEF IInv, Recorded
  <2>3. \A r \in added : r.at \notin reported
    BY <1>2, <1>3
  <2>4. reported' = {r.at : r \in ReportsOf("separategotwant")'}
    <3>1. \A p : p \in reported <=> \E r \in ReportsOf("separategotwant") : p = r.at
      BY DEF IInv, Recorded
    <3>2. \A p : p \in reported' <=> \E r \in ReportsOf("separategotwant")' : p = r.at
      BY <1>1, <1>3, <2>1, <3>1
    <3> QED
      BY <3>2
  <2>5. ASSUME NEW r \in ReportsOf("separategotwant")', NEW q \in ReportsOf("separategotwant")', r.at = q.at
        PROVE  r = q
    <3>1. CASE r \in ReportsOf("separategotwant") /\ q \in ReportsOf("separategotwant")
      BY <2>5, <3>1 DEF IInv, Recorded
    <3>2. CASE r \in added /\ q \in added
      BY <1>3, <2>5, <3>2
    <3> QED
      BY <2>1, <2>2, <2>3, <2>5, <3>1, <3>2
  <2>6. \A p \in reported' : p = <<p[1], p[2]>>
    BY <1>1, <1>2 DEF IInv, Recorded
  <2> QED
    BY <2>4, <2>5, <2>6 DEF Recorded
<1>10. Walked'
  <2> SUFFICES ASSUME NEW j \in At("calls"), NEW x
               PROVE  <<j, x>> \in reported' <=>
                        /\ Judged(nodes[j].file)
                        /\ \E m \in DOMAIN nodes[j].calls : <<j, m>> \notin unread' /\ <<j, x>> \in Found(j, m)
    BY <1>1, <1>8 DEF Walked
  <2>1. <<j, x>> \in reported <=>
          /\ Judged(nodes[j].file)
          /\ \E m \in DOMAIN nodes[j].calls : <<j, m>> \notin unread /\ <<j, x>> \in Found(j, m)
    BY <1>1 DEF IInv, Walked
  <2>2. CASE j = i
    <3>1. k \in DOMAIN nodes[i].calls
      BY <1>1 DEF Visits
    <3>2. \A m : <<i, m>> \notin unread' <=> <<i, m>> \notin unread \/ m = k
      BY <1>1
    <3>3. <<i, x>> \in reported' <=> <<i, x>> \in reported \/ (Judged(nodes[i].file) /\ <<i, x>> \in Found(i, k))
      BY <1>1, <1>2
    <3> QED
      BY <2>1, <2>2, <3>1, <3>2, <3>3
  <2>3. CASE j # i
    <3>1. <<j, x>> \in reported' <=> <<j, x>> \in reported
      <4>1. <<j, x>> \notin fresh
        BY <1>2, <2>3
      <4> QED
        BY <1>1, <4>1
    <3>2. \A m : <<j, m>> \notin unread' <=> <<j, m>> \notin unread
      BY <1>1, <2>3
    <3> QED
      BY <2>1, <3>1, <3>2
  <2> QED
    BY <2>2, <2>3
<1> QED
  BY <1>6, <1>7, <1>9, <1>10 DEF IInv

LEMMA InitIInv == Init => IInv
<1> SUFFICES ASSUME Init PROVE IInv
  OBVIOUS
<1>1. /\ phase = "write" /\ nodes = <<>> /\ generated = {} /\ unread = {} /\ reported = {}
      /\ reports = {} /\ ran = {} /\ first = [f \in File |-> 0] /\ mem = Boot
  BY DEF Init
<1>2. conf \in Confs
  <2>1. Confs # {} /\ conf = CHOOSE c \in Confs : TRUE
    BY ConfAssumption DEF Init
  <2> QED
    BY <2>1
<1>3. nodes \in Seq(Nodes) /\ \A kind : At(kind) = {}
  BY <1>1, EmptySeq DEF At
<1>4. Typed /\ Started /\ Finished /\ Imported
  BY <1>1, <1>2, <1>3 DEF Typed, Started, Finished, Imported
<1>5. FirstRead /\ FirstLeast /\ Placed /\ Reflects /\ Checked /\ Walked
  BY <1>1 DEF FirstRead, FirstLeast, Placed, Reflects, Checked, Walked
<1>6. Recorded
  BY <1>1 DEF Recorded, ReportsOf
<1> QED
  BY <1>4, <1>5, <1>6 DEF IInv

LEMMA WriteIInv ==
  ASSUME IInv, NEW n \in Nodes, Write(n)
  PROVE  IInv'
<1>1. /\ phase = "write" /\ nodes' = Append(nodes, n)
      /\ n.kind = "use" => \E j \in DOMAIN nodes : nodes[j].kind = "import" /\ nodes[j].file = n.file
      /\ UNCHANGED <<phase, conf, generated, unread, first, reported, reports, mem, ran>>
  BY DEF Write
<1>2. /\ Typed /\ unread = {} /\ reported = {} /\ reports = {} /\ ran = {} /\ \A f \in File : first[f] = 0
      /\ nodes \in Seq(Nodes)
  BY <1>1 DEF IInv, Started, Typed
<1>3. /\ Len(nodes) \in Nat /\ DOMAIN nodes = 1..Len(nodes)
      /\ nodes' \in Seq(Nodes) /\ DOMAIN nodes' = 1..(Len(nodes) + 1)
      /\ nodes'[Len(nodes) + 1] = n /\ \A i \in DOMAIN nodes : nodes'[i] = nodes[i]
  <2>1. Len(nodes) \in Nat /\ DOMAIN nodes = 1..Len(nodes)
    BY <1>2, LenProperties
  <2>2. /\ Append(nodes, n) \in Seq(Nodes) /\ Len(Append(nodes, n)) = Len(nodes) + 1
        /\ \A i \in 1..Len(nodes) : Append(nodes, n)[i] = nodes[i]
        /\ Append(nodes, n)[Len(nodes) + 1] = n
    BY <1>2, AppendProperties
  <2>3. DOMAIN Append(nodes, n) = 1..(Len(nodes) + 1)
    BY <2>2, LenProperties
  <2> QED
    BY <1>1, <2>1, <2>2, <2>3
<1>4. Typed'
  BY <1>1, <1>2, <1>3 DEF Typed
<1>5. Started' /\ Finished'
  BY <1>1, <1>2 DEF Started, Finished
<1>6. Imported'
  <2> SUFFICES ASSUME NEW i \in At("use")'
               PROVE  \E j \in At("import")' : nodes'[j].file = nodes'[i].file
    BY DEF Imported
  <2>1. ASSUME NEW j \in DOMAIN nodes, nodes[j].kind = "import"
        PROVE  j \in At("import")' /\ nodes'[j].file = nodes[j].file
    BY <1>3, <2>1 DEF At
  <2>2. i \in DOMAIN nodes' /\ nodes'[i].kind = "use"
    BY DEF At
  <2>3. CASE i \in DOMAIN nodes
    <3>1. i \in At("use") /\ nodes'[i].file = nodes[i].file
      BY <1>3, <2>2, <2>3 DEF At
    <3>2. PICK j \in At("import") : nodes[j].file = nodes[i].file
      BY <3>1 DEF IInv, Imported
    <3> QED
      BY <2>1, <3>1, <3>2 DEF At
  <2>4. CASE i \notin DOMAIN nodes
    <3>1. nodes'[i] = n
      BY <1>3, <2>2, <2>4
    <3> QED
      BY <1>1, <2>1, <2>2, <3>1
  <2> QED
    BY <2>3, <2>4
<1>7. FirstRead' /\ FirstLeast' /\ Placed' /\ Reflects' /\ Checked' /\ Walked'
  BY <1>1, <1>2 DEF FirstRead, FirstLeast, Placed, Reflects, Checked, Walked
<1>8. Recorded'
  BY <1>1, <1>2 DEF Recorded, ReportsOf
<1> QED
  BY <1>4, <1>5, <1>6, <1>7, <1>8 DEF IInv

LEMMA StartPassIInv ==
  ASSUME IInv, NEW c \in Confs, NEW g \in SUBSET File, StartPass(c, g)
  PROVE  IInv'
<1>1. /\ phase = "write" /\ phase' = "pass" /\ conf' = c /\ generated' = g
      /\ UNCHANGED <<nodes, first, reported, mem, ran>>
      /\ unread' = {v \in UNION {{i} \X Visits(i) : i \in DOMAIN nodes} :
                      /\ nodes[v[1]].kind # "import"
                      /\ nodes[v[1]].kind = "use" => ReflectTests' # {}}
      /\ reports' = ImportReports'
  BY DEF StartPass
<1>2. /\ Typed /\ reported = {} /\ ran = {} /\ \A f \in File : first[f] = 0
  BY <1>1 DEF IInv, Started
<1>3. \A kind : At(kind)' = At(kind)
  BY <1>1 DEF At
<1>4. \A i, k : <<i, k>> \in unread' <=>
        /\ i \in DOMAIN nodes /\ k \in Visits(i) /\ nodes[i].kind # "import"
        /\ nodes[i].kind = "use" => ReflectTests' # {}
  <2> DEFINE All == UNION {{i} \X Visits(i) : i \in DOMAIN nodes}
  <2>1. \A i, k : <<i, k>> \in All <=> i \in DOMAIN nodes /\ k \in Visits(i)
    OBVIOUS
  <2> HIDE DEF All
  <2>2. unread' = {v \in All : /\ nodes[v[1]].kind # "import"
                               /\ nodes[v[1]].kind = "use" => ReflectTests' # {}}
    BY <1>1 DEF All
  <2> QED
    BY <2>1, <2>2
<1>5. ASSUME NEW r \in reports'
      PROVE  /\ r.rule = "noreflect" /\ r.at[1] \in At("import") /\ r.by = <<r.at[1], 1>>
  <2>1. PICK i \in At("import") : r = [rule |-> "noreflect", at |-> <<i, 1>>, by |-> <<i, 1>>]
    BY <1>1, <1>3, <1>5 DEF ImportReports
  <2> QED
    BY <2>1
<1>6. Typed'
  BY <1>1, <1>2, <1>3 DEF Typed
<1>7. Started' /\ Finished' /\ FirstRead'
  BY <1>1, <1>2 DEF Started, Finished, FirstRead
<1>8. Imported'
  BY <1>1, <1>3 DEF IInv, Imported
<1>9. FirstLeast'
  <2> SUFFICES ASSUME ReflectTests' # {}, NEW i \in At("use") PROVE <<i, 1>> \in unread'
    BY <1>3 DEF FirstLeast
  <2>1. i \in DOMAIN nodes /\ nodes[i].kind = "use"
    BY DEF At
  <2> QED
    BY <1>4, <2>1 DEF Visits
<1>10. Placed'
  <2> SUFFICES ASSUME NEW r \in reports'
               PROVE  r.at[1] \in DOMAIN nodes /\ r.rule = Rule(nodes[r.at[1]].kind) /\ r.by \notin unread'
    BY <1>1 DEF Placed
  <2>1. r.rule = "noreflect" /\ r.at[1] \in DOMAIN nodes /\ nodes[r.at[1]].kind = "import" /\ r.by = <<r.at[1], 1>>
    BY <1>5 DEF At
  <2> QED
    BY <1>4, <2>1 DEF Rule
<1>11. Reflects'
  <2>1. ReportsOf("noreflect")' = reports'
    BY <1>5 DEF ReportsOf
  <2> QED
    BY <1>1, <2>1 DEF Reflects
<1>12. Checked'
  <2> SUFFICES ASSUME NEW i \in At("check")
               PROVE  <<i, 1>> \in unread' /\ \A r \in reports' : r.at[1] # i
    BY <1>1, <1>3 DEF Checked
  <2>1. i \in DOMAIN nodes /\ nodes[i].kind = "check"
    BY DEF At
  <2>2. <<i, 1>> \in unread'
    BY <1>4, <2>1 DEF Visits
  <2>3. ASSUME NEW r \in reports' PROVE r.at[1] # i
    BY <1>5, <2>1 DEF At
  <2> QED
    BY <2>2, <2>3
<1>13. Recorded'
  <2>1. ReportsOf("separategotwant")' = {}
    BY <1>5 DEF ReportsOf
  <2> QED
    BY <1>1, <1>2, <2>1 DEF Recorded
<1>14. Walked'
  <2> SUFFICES ASSUME NEW i \in At("calls"), NEW k \in DOMAIN nodes[i].calls
               PROVE  <<i, k>> \in unread'
    BY <1>1, <1>2, <1>3 DEF Walked
  <2>1. i \in DOMAIN nodes /\ nodes[i].kind = "calls"
    BY DEF At
  <2> QED
    BY <1>4, <2>1 DEF Visits
<1> QED
  BY <1>6, <1>7, <1>8, <1>9, <1>10, <1>11, <1>12, <1>13, <1>14 DEF IInv

LEMMA ConcludeIInv ==
  ASSUME IInv, Conclude
  PROVE  IInv'
<1>1. /\ phase = "pass" /\ unread = {} /\ phase' = "run" /\ reports' = reports \cup BeyondReports
      /\ UNCHANGED <<nodes, conf, generated, unread, first, reported, mem, ran>>
  BY DEF Conclude
<1>2. /\ \A kind : At(kind)' = At(kind)
      /\ \A f : Judged(f)' <=> Judged(f)
      /\ ReflectTests' = ReflectTests /\ ImportReports' = ImportReports
      /\ \A n : Asserts(n)' <=> Asserts(n)
      /\ \A i, k : Found(i, k)' = Found(i, k)
  BY <1>1, Unmoved
<1>3. ASSUME NEW r \in BeyondReports
      PROVE  r.rule = "noreflect" /\ r.at[1] \in At("use")
  <2>1. PICK f \in ReflectTests : first[f] # 0 /\ r = [rule |-> "noreflect", at |-> <<first[f], 1>>, by |-> <<first[f], 1>>]
    BY <1>3 DEF BeyondReports
  <2>2. f \in File
    BY DEF ReflectTests
  <2>3. first[f] \in At("use")
    BY <2>1, <2>2 DEF IInv, FirstRead
  <2> QED
    BY <2>1, <2>3
<1>4. Typed' /\ Started' /\ Finished' /\ Imported'
  BY <1>1, <1>2 DEF IInv, Typed, Started, Finished, Imported
<1>5. FirstRead' /\ FirstLeast'
  BY <1>1, <1>2 DEF IInv, FirstRead, FirstLeast
<1>6. Placed'
  <2> SUFFICES ASSUME NEW r \in reports'
               PROVE  r.at[1] \in DOMAIN nodes /\ r.rule = Rule(nodes[r.at[1]].kind)
    BY <1>1 DEF Placed
  <2>1. CASE r \in reports
    BY <2>1 DEF IInv, Placed
  <2>2. CASE r \in BeyondReports
    BY <1>3, <2>2 DEF Rule, At
  <2> QED
    BY <1>1, <2>1, <2>2
<1>7. Reflects'
  <2>1. ReportsOf("noreflect") = ImportReports
    BY <1>1 DEF IInv, Reflects
  <2>2. ReportsOf("noreflect")' = ImportReports \cup BeyondReports
    BY <1>1, <1>3, <2>1 DEF ReportsOf
  <2>3. BeyondReports' = BeyondReports
    BY <1>1, <1>2 DEF BeyondReports
  <2> QED
    BY <1>1, <1>2, <2>2, <2>3 DEF Reflects
<1>8. Checked'
  <2>1. ASSUME NEW i \in At("check")
        PROVE  (\E r \in reports' : r.at[1] = i) <=> (\E r \in reports : r.at[1] = i)
    BY <1>1, <1>3 DEF At
  <2> QED
    BY <1>1, <1>2, <2>1 DEF IInv, Checked
<1>9. Recorded'
  <2>1. ReportsOf("separategotwant")' = ReportsOf("separategotwant")
    BY <1>1, <1>3 DEF ReportsOf
  <2> QED
    BY <1>1, <2>1 DEF IInv, Recorded
<1>10. Walked'
  BY <1>1, <1>2 DEF IInv, Walked
<1> QED
  BY <1>4, <1>5, <1>6, <1>7, <1>8, <1>9, <1>10 DEF IInv

(* The tests run, or nothing happens: no report comes or goes.             *)
LEMMA QuietIInv ==
  ASSUME IInv, UNCHANGED <<phase, nodes, conf, generated, unread, first, reported, reports>>,
         ran' \subseteq At("assign"), DOMAIN mem' = DOMAIN Boot, phase = "write" => ran' = {}
  PROVE  IInv'
<1>1. /\ \A kind : At(kind)' = At(kind)
      /\ \A f : Judged(f)' <=> Judged(f)
      /\ ReflectTests' = ReflectTests /\ ImportReports' = ImportReports
      /\ \A n : Asserts(n)' <=> Asserts(n)
      /\ \A i, k : Found(i, k)' = Found(i, k)
  BY Unmoved
<1>2. BeyondReports' = BeyondReports /\ \A rule : ReportsOf(rule)' = ReportsOf(rule)
  BY <1>1 DEF BeyondReports, ReportsOf
<1>3. Typed' /\ Started' /\ Finished' /\ Imported'
  BY <1>1 DEF IInv, Typed, Started, Finished, Imported
<1>4. FirstRead' /\ FirstLeast' /\ Placed' /\ Reflects'
  BY <1>1, <1>2 DEF IInv, FirstRead, FirstLeast, Placed, Reflects
<1>5. Checked' /\ Recorded' /\ Walked'
  BY <1>1, <1>2 DEF IInv, Checked, Recorded, Walked
<1> QED
  BY <1>3, <1>4, <1>5 DEF IInv

LEMMA ExecuteIInv ==
  ASSUME IInv, NEW i \in DOMAIN nodes, Execute(i)
  PROVE  IInv'
<1>1. /\ phase = "run" /\ nodes[i].kind = "assign" /\ mem' = Stored(mem, nodes[i]) /\ ran' = ran \cup {i}
      /\ UNCHANGED <<phase, nodes, conf, generated, unread, first, reported, reports>>
  BY DEF Execute
<1>2. ran' \subseteq At("assign") /\ DOMAIN mem = DOMAIN Boot
  BY <1>1 DEF IInv, Typed, At
<1>3. DOMAIN mem' = DOMAIN mem
  <2> DEFINE c == Place(mem, nodes[i])
             value == Assigned(mem, nodes[i])
  <2>1. Stored(mem, nodes[i]) =
          IF c \in DOMAIN mem THEN [mem EXCEPT ![c] = value]
          ELSE [d \in DOMAIN mem |->
                  IF IsPrefix(c, d) THEN mem[value \o SubSeq(d, Len(c) + 1, Len(d))] ELSE mem[d]]
    BY DEF Stored
  <2> HIDE DEF c, value
  <2> QED
    BY <1>1, <2>1
<1> QED
  BY <1>1, <1>2, <1>3, QuietIInv

(* Every step keeps the invariant, in every order of the visits.           *)
THEOREM Inductive == Spec => []IInv
<1>1. ASSUME IInv, [Next]_vars PROVE IInv'
  <2>1. CASE \E n \in Nodes : Write(n)
    BY <1>1, <2>1, WriteIInv
  <2>2. CASE \E c \in Confs, g \in SUBSET File : StartPass(c, g)
    BY <1>1, <2>2, StartPassIInv
  <2>3. CASE \E i \in DOMAIN nodes : ReadUse(i)
    BY <1>1, <2>3, ReadUseIInv
  <2>4. CASE \E i \in DOMAIN nodes : ReadAssign(i)
    BY <1>1, <2>4, ReadAssignIInv
  <2>5. CASE \E i \in DOMAIN nodes : ReadCheck(i)
    BY <1>1, <2>5, ReadCheckIInv
  <2>6. CASE \E i \in DOMAIN nodes : \E k \in Visits(i) : ReadCall(i, k)
    BY <1>1, <2>6, ReadCallIInv
  <2>7. CASE Conclude
    BY <1>1, <2>7, ConcludeIInv
  <2>8. CASE \E i \in DOMAIN nodes : Execute(i)
    BY <1>1, <2>8, ExecuteIInv
  <2>9. CASE UNCHANGED vars
    <3>1. UNCHANGED <<phase, nodes, conf, generated, unread, first, reported, reports>> /\ UNCHANGED <<mem, ran>>
      BY <2>9 DEF vars
    <3>2. ran' \subseteq At("assign") /\ DOMAIN mem' = DOMAIN Boot /\ (phase = "write" => ran' = {})
      BY <1>1, <3>1 DEF IInv, Typed, Started
    <3> QED
      BY <1>1, <3>1, <3>2, QuietIInv
  <2> QED
    BY <1>1, <2>1, <2>2, <2>3, <2>4, <2>5, <2>6, <2>7, <2>8, <2>9 DEF Next
<1> QED
  BY <1>1, InitIInv, PTL DEF Spec
--------------------------------------------------------------------------------
(* The properties.                                                         *)

(* The pass remembers only what it has visited, and each report names a    *)
(* visit that is over.                                                     *)
THEOREM TypeCorrect == Spec => []TypeOK
<1>1. IInv => TypeOK
  <2> SUFFICES ASSUME IInv PROVE TypeOK
    OBVIOUS
  <2>1. ASSUME NEW p \in reported PROVE p[1] \in At("calls")
    <3>1. PICK r \in reports : r.rule = "separategotwant" /\ r.at = p
      BY <2>1 DEF IInv, Recorded, ReportsOf
    <3>2. p[1] \in DOMAIN nodes /\ Rule(nodes[p[1]].kind) = "separategotwant"
      BY <3>1 DEF IInv, Placed
    <3>3. nodes[p[1]].kind \in {"import", "use", "assign", "check", "calls"}
      BY <3>2, NodesTyped DEF IInv
    <3> QED
      BY <3>2, <3>3 DEF Rule, At
  <2> QED
    BY <2>1 DEF IInv, Typed, FirstRead, Placed, TypeOK
<1> QED
  BY <1>1, Inductive, PTL

(* What G07 reports of a package, when its pass is over.                   *)
LEMMA ReflectReported ==
  ASSUME IInv, phase = "run"
  PROVE  {r.at[1] : r \in {q \in reports : q.rule = "noreflect"}} =
           {i \in At("import") \cup At("use") :
              LET f == nodes[i].file IN
              /\ ~Allowed /\ f \notin generated
              /\ IF TestFile(f)
                 THEN /\ i \in At("use") /\ nodes[i].name # "DeepEqual"
                      /\ \A j \in At("use") : nodes[j].file = f /\ nodes[j].name # "DeepEqual" => i <= j
                 ELSE i \in At("import")}
<1> DEFINE Reported == {r.at[1] : r \in {q \in reports : q.rule = "noreflect"}}
           Sole(i) == /\ i \in At("use") /\ nodes[i].name # "DeepEqual"
                      /\ \A j \in At("use") : nodes[j].file = nodes[i].file /\ nodes[j].name # "DeepEqual" => i <= j
           Due(i) == /\ ~Allowed /\ nodes[i].file \notin generated
                     /\ IF TestFile(nodes[i].file) THEN Sole(i) ELSE i \in At("import")
<1>1. \A i : i \in Reported <=> \E r \in ImportReports \cup BeyondReports : r.at[1] = i
  <2>1. {q \in reports : q.rule = "noreflect"} = ImportReports \cup BeyondReports
    BY DEF IInv, Reflects, ReportsOf
  <2> QED
    BY <2>1
<1>2. unread = {}
  BY DEF IInv, Finished
<1>3. \A i \in At("import") \cup At("use") : i \in DOMAIN nodes /\ i \in Nat /\ nodes[i].file \in File
  BY NodesTyped DEF IInv, At
<1>4. \A i : (\E r \in ImportReports : r.at[1] = i) <=>
               /\ i \in At("import") /\ ~Allowed
               /\ ~TestFile(nodes[i].file) /\ nodes[i].file \notin generated
  <2> DEFINE report(i) == [rule |-> "noreflect", at |-> <<i, 1>>, by |-> <<i, 1>>]
             due == {j \in At("import") : ~TestFile(nodes[j].file) /\ nodes[j].file \notin generated}
  <2>1. ImportReports = IF Allowed THEN {} ELSE {report(i) : i \in due}
    BY DEF ImportReports
  <2>2. \A i : report(i).at[1] = i
    OBVIOUS
  <2> HIDE DEF report
  <2> QED
    BY <2>1, <2>2
<1>5. \A i : (\E r \in BeyondReports : r.at[1] = i) <=>
               \E f \in ReflectTests : first[f] # 0 /\ i = first[f]
  <2> DEFINE report(f) == [rule |-> "noreflect", at |-> <<first[f], 1>>, by |-> <<first[f], 1>>]
  <2>1. BeyondReports = {report(f) : f \in {g \in ReflectTests : first[g] # 0}}
    BY DEF BeyondReports
  <2>2. \A f : report(f).at[1] = first[f]
    OBVIOUS
  <2> HIDE DEF report
  <2> QED
    BY <2>1, <2>2
<1>6. \A f : f \in ReflectTests <=>
               /\ f \in File /\ ~Allowed /\ TestFile(f) /\ f \notin generated
               /\ \E j \in At("import") : nodes[j].file = f
  BY DEF ReflectTests, Judged, ReflectImports
<1>7. ASSUME NEW i, \E r \in BeyondReports : r.at[1] = i
      PROVE  i \in At("use") /\ Due(i) /\ TestFile(nodes[i].file)
  <2>1. PICK f \in ReflectTests : first[f] # 0 /\ i = first[f]
    BY <1>5, <1>7
  <2>2. f \in File /\ ~Allowed /\ TestFile(f) /\ f \notin generated
    BY <1>6
  <2>3. i \in At("use") /\ nodes[i].file = f /\ nodes[i].name # "DeepEqual"
    BY <2>1, <2>2 DEF IInv, FirstRead
  <2>4. \A j \in At("use") : nodes[j].file = f /\ nodes[j].name # "DeepEqual" => i <= j
    BY <1>2, <2>1 DEF IInv, FirstLeast
  <2> QED
    BY <2>2, <2>3, <2>4
<1>8. ASSUME NEW i \in At("import") \cup At("use"), Due(i), TestFile(nodes[i].file)
      PROVE  \E r \in BeyondReports : r.at[1] = i
  <2> DEFINE f == nodes[i].file
  <2>1. f \in File /\ i \in Nat /\ i \in At("use") /\ nodes[i].name # "DeepEqual" /\ ~Allowed /\ f \notin generated
    BY <1>3, <1>8
  <2>2. \E j \in At("import") : nodes[j].file = f
    BY <2>1 DEF IInv, Imported
  <2>3. f \in ReflectTests
    BY <1>6, <1>8, <2>1, <2>2
  <2>4. first[f] # 0 /\ first[f] <= i
    BY <1>2, <2>1, <2>3 DEF IInv, FirstLeast
  <2>5. first[f] \in At("use") /\ nodes[first[f]].file = f /\ nodes[first[f]].name # "DeepEqual"
    BY <2>1, <2>4 DEF IInv, FirstRead
  <2>6. i <= first[f]
    BY <1>8, <2>5
  <2>7. i = first[f]
    <3>1. first[f] \in Nat
      BY <2>1 DEF IInv, Typed
    <3> QED
      BY <2>1, <2>4, <2>6, <3>1
  <2> QED
    BY <1>5, <2>3, <2>4, <2>7
<1>9. \A i : i \in Reported <=> i \in At("import") \cup At("use") /\ Due(i)
  <2> SUFFICES ASSUME NEW i PROVE i \in Reported <=> i \in At("import") \cup At("use") /\ Due(i)
    OBVIOUS
  <2>1. i \in Reported <=> \/ \E r \in ImportReports : r.at[1] = i
                           \/ \E r \in BeyondReports : r.at[1] = i
    BY <1>1
  <2>2. i \in At("use") => i \notin At("import")
    BY DEF At
  <2>3. CASE TestFile(nodes[i].file)
    BY <1>4, <1>7, <1>8, <2>1, <2>3
  <2>4. CASE ~TestFile(nodes[i].file)
    BY <1>4, <1>7, <2>1, <2>4
  <2> QED
    BY <2>3, <2>4
<1> QED
  BY <1>9

(* G07 reports what its documentation says, in every order of the map of   *)
(* uses.                                                                   *)
THEOREM ReflectDecided == Spec => []ReflectDocumented
<1>1. IInv => ReflectDocumented
  <2> SUFFICES ASSUME IInv, phase = "run" PROVE ReflectDocumented
    BY DEF ReflectDocumented
  <2>1. /\ Allowed <=> ServesTests(conf.allow, conf.path)
        /\ \A f : TestFile(f) <=> f \in TestNamed \/ ServesTests(conf.testPackages, conf.path)
    BY SettingsNamed DEF IInv, Typed
  <2> DEFINE beyond(f) == {i \in At("use") : nodes[i].file = f /\ nodes[i].name # "DeepEqual"}
             Said(i) == LET f == nodes[i].file IN
                        /\ ~ServesTests(conf.allow, conf.path) /\ f \notin generated
                        /\ IF f \in TestNamed \/ ServesTests(conf.testPackages, conf.path)
                           THEN i \in beyond(f) /\ \A j \in beyond(f) : i <= j
                           ELSE i \in At("import")
             Found1(i) == LET f == nodes[i].file IN
                         /\ ~Allowed /\ f \notin generated
                         /\ IF TestFile(f)
                            THEN /\ i \in At("use") /\ nodes[i].name # "DeepEqual"
                                 /\ \A j \in At("use") : nodes[j].file = f /\ nodes[j].name # "DeepEqual" => i <= j
                            ELSE i \in At("import")
  <2>2. ASSUME NEW i PROVE Said(i) <=> Found1(i)
    BY <2>1
  <2>3. {r.at[1] : r \in {q \in reports : q.rule = "noreflect"}} =
          {i \in At("import") \cup At("use") : Found1(i)}
    BY ReflectReported
  <2> HIDE DEF Found1
  <2>4. {i \in At("import") \cup At("use") : Found1(i)} = {i \in At("import") \cup At("use") : Said(i)}
    BY <2>2
  <2> QED
    BY <2>3, <2>4 DEF ReflectDocumented
<1> QED
  BY <1>1, Inductive, PTL

(* G13 reports a check exactly where a reworded message changes what the   *)
(* check decides.                                                          *)
THEOREM TextDecided == Spec => []TextDecides
<1>1. IInv => TextDecides
  <2> SUFFICES ASSUME IInv, phase = "run", NEW i \in At("check"), ~NeverEqual(nodes[i])
               PROVE  (\E r \in reports : r.at[1] = i) <=>
                        /\ Judged(nodes[i].file)
                        /\ \E w, u \in [1..4 -> Word] : Outcome(nodes[i], w) # Outcome(nodes[i], u)
                        /\ nodes[i].fn \in {"Equal", "EqualError", "=="} => conf.equality
    BY DEF TextDecides
  <2>1. nodes[i] \in Nodes /\ nodes[i].kind = "check" /\ conf \in Confs
    BY NodesTyped DEF IInv, Typed, At
  <2>2. Asserts(nodes[i]) <=>
          /\ \E w, u \in [1..4 -> Word] : Outcome(nodes[i], w) # Outcome(nodes[i], u)
          /\ nodes[i].fn \in {"Equal", "EqualError", "=="} => conf.equality
    BY <2>1, AssertsText
  <2>3. (\E r \in reports : r.at[1] = i) <=> Judged(nodes[i].file) /\ Asserts(nodes[i])
    BY DEF IInv, Finished, Checked
  <2> QED
    BY <2>2, <2>3
<1> QED
  BY <1>1, Inductive, PTL

(* G14 reports each nested call once, also where the walks of two          *)
(* assertions reach it, and as many calls as there are, unless they chain. *)
THEOREM NestedReported == Spec => []NestedOnce
<1>1. ASSUME IInv, phase = "run", NEW i \in At("calls")
      PROVE  LET calls == nodes[i].calls
                 nested == NestedCalls(calls)
                 at(j) == {r \in reports : r.at = <<i, StartOf(calls, j)>>}
                 here == {r \in reports : r.at[1] = i}
             IN IF Judged(nodes[i].file)
                THEN /\ Chained(calls) = {} => Cardinality(here) = Cardinality(nested)
                     /\ \A j \in nested : Cardinality(at(j)) = 1
                     /\ \A r \in here : \E j \in nested : r \in at(j)
                ELSE here = {}
  <2> DEFINE calls == nodes[i].calls
             nested == NestedCalls(calls)
             at(j) == {r \in reports : r.at = <<i, StartOf(calls, j)>>}
             here == {r \in reports : r.at[1] = i}
  <2>1. i \in DOMAIN nodes /\ nodes[i].kind = "calls" /\ calls \in Calls /\ Len(calls) \in Nat /\ DOMAIN calls = 1..Len(calls)
    BY <1>1, NodesTyped, CallsTyped DEF IInv, At
  <2>2. \A r \in here : r \in ReportsOf("separategotwant") /\ r.at \in reported /\ r.at = <<i, r.at[2]>>
    <3> SUFFICES ASSUME NEW r \in here
                 PROVE  r \in ReportsOf("separategotwant") /\ r.at \in reported /\ r.at = <<i, r.at[2]>>
      OBVIOUS
    <3>1. r \in ReportsOf("separategotwant")
      BY <1>1, <2>1 DEF IInv, Placed, Rule, ReportsOf
    <3>2. r.at \in reported
      BY <1>1, <3>1 DEF IInv, Recorded
    <3> QED
      BY <1>1, <3>1, <3>2 DEF IInv, Recorded
  <2>3. \A x : <<i, x>> \in reported <=>
                 Judged(nodes[i].file) /\ \E k \in DOMAIN calls : <<i, x>> \in Found(i, k)
    BY <1>1 DEF IInv, Finished, Walked
  <2>4. \A x : (\E k \in DOMAIN calls : <<i, x>> \in Found(i, k)) <=> \E j \in nested : x = StartOf(calls, j)
    <3>1. \A k \in DOMAIN calls : Reached(calls, k) \subseteq 1..Len(calls)
      BY <2>1, ReachedCalls
    <3>2. \A j \in 1..Len(calls) : Nested(calls, j) <=> \E k \in 1..Len(calls) : j \in Reached(calls, k)
      BY <2>1, NestedReached
    <3>3. \A x, k : <<i, x>> \in Found(i, k) <=>
            \E j \in Reached(calls, k) : /\ calls[j].takes /\ calls[j].callee # "conversion"
                                         /\ x = StartOf(calls, j)
      BY DEF Found, TakesTestingValue
    <3>4. \A j : j \in nested <=> /\ j \in 1..Len(calls) /\ Nested(calls, j)
                                 /\ calls[j].takes /\ calls[j].callee # "conversion"
      BY DEF NestedCalls
    <3> HIDE DEF calls, nested
    <3> QED
      BY <2>1, <3>1, <3>2, <3>3, <3>4
  <2>7. IsFiniteSet(nested)
    <3>1. nested \subseteq 1..Len(calls) /\ IsFiniteSet(1..Len(calls))
      BY <2>1, FS_Interval DEF NestedCalls
    <3> QED
      BY <3>1, FS_Subset
  <2>8. Chained(calls) = {} =>
          \A j, l \in nested : StartOf(calls, j) = StartOf(calls, l) => j = l
    BY DEF Chained
  <2> HIDE DEF calls, nested
  <2>5. CASE Judged(nodes[i].file)
    <3>4. ASSUME NEW j \in nested PROVE Cardinality(at(j)) = 1 /\ IsFiniteSet(at(j))
      <4>1. <<i, StartOf(calls, j)>> \in reported
        BY <2>3, <2>4, <2>5
      <4>2. PICK r \in ReportsOf("separategotwant") : r.at = <<i, StartOf(calls, j)>>
        BY <1>1, <4>1 DEF IInv, Recorded
      <4>3. \A q \in at(j) : q \in ReportsOf("separategotwant")
        BY <2>2
      <4>4. r \in at(j) /\ \A q \in at(j) : q = r
        BY <1>1, <4>2, <4>3 DEF IInv, Recorded, ReportsOf
      <4>5. at(j) = {r}
        BY <4>4
      <4> QED
        BY <4>5, FS_Singleton
    <3>1. \A j \in nested : Cardinality(at(j)) = 1
      BY <3>4
    <3>2. ASSUME NEW r \in here PROVE \E j \in nested : r \in at(j)
      <4>1. <<i, r.at[2]>> \in reported /\ r.at = <<i, r.at[2]>> /\ r \in reports
        BY <2>2
      <4>2. PICK j \in nested : r.at[2] = StartOf(calls, j)
        BY <2>3, <2>4, <4>1
      <4> QED
        BY <4>1, <4>2
    <3>3. ASSUME Chained(calls) = {} PROVE Cardinality(here) = Cardinality(nested)
      <4> DEFINE of == [j \in nested |-> CHOOSE r \in at(j) : TRUE]
      <4>1. ASSUME NEW j \in nested PROVE at(j) = {of[j]}
        <5>1. IsFiniteSet(at(j))
          BY <3>4
        <5>2. PICK r : at(j) = {r}
          BY <3>1, <5>1, FS_Singleton
        <5> QED
          BY <5>2
      <4>2. \A j \in nested : of[j] \in reports /\ of[j].at = <<i, StartOf(calls, j)>>
        BY <4>1
      <4>3. \A r \in here : \E j \in nested : of[j] = r
        BY <3>2, <4>1
      <4>4. of \in [nested -> here]
        <5>1. ASSUME NEW j \in nested PROVE of[j] \in here
          <6> HIDE DEF of, at
          <6>1. of[j] \in reports /\ of[j].at = <<i, StartOf(calls, j)>>
            BY <4>2
          <6>2. of[j].at[1] = i
            BY <6>1
          <6> QED
            BY <6>1, <6>2
        <5> HIDE DEF here, at
        <5>2. of = [j \in nested |-> of[j]]
          OBVIOUS
        <5> QED
          BY <5>1, <5>2
      <4> HIDE DEF of
      <4>5. \A j, l \in nested : of[j] = of[l] => j = l
        <5>1. \A j, l \in nested : of[j] = of[l] => StartOf(calls, j) = StartOf(calls, l)
          BY <4>2
        <5> QED
          BY <2>8, <3>3, <5>1
      <4> HIDE DEF here, at
      <4>6. of \in Bijection(nested, here)
        BY <4>3, <4>4, <4>5 DEF Bijection, Injection, Surjection, IsInjective
      <4> QED
        BY <2>7, <4>6, FS_Bijection DEF ExistsBijection
    <3> QED
      BY <2>5, <3>1, <3>2, <3>3 DEF calls, nested
  <2>6. CASE ~Judged(nodes[i].file)
    <3>1. here = {}
      BY <2>2, <2>3, <2>6
    <3> QED
      BY <2>6, <3>1
  <2> QED
    BY <2>5, <2>6
<1>2. IInv => NestedOnce
  BY <1>1 DEF NestedOnce
<1> QED
  BY <1>2, Inductive, PTL
--------------------------------------------------------------------------------
(* G08: the types and the places on the way to a target.                   *)

IsTypes(g, t, n) ==
  g = [k \in 0..n |-> IF k = 0 THEN Type[t.root]
                      ELSE IF t.steps[k] = "call" THEN g[k - 1] ELSE Elem[g[k - 1]][t.steps[k]]]

Stepped(m, c, s) == Append(Object(m, c), s)

IsPlaces(g, m, t, n) ==
  g = [k \in 0..n |-> IF k = 0 THEN <<t.root>>
                      ELSE IF t.steps[k] = "call" THEN g[k - 1]
                      ELSE Stepped(m, g[k - 1], t.steps[k])]

LEMMA TypesExist ==
  ASSUME NEW t, NEW n \in Nat
  PROVE  \E g : IsTypes(g, t, n)
<1> DEFINE S == {k \in Nat : \E g : IsTypes(g, t, k)}
<1>1. 0 \in S
  <2>1. IsTypes([k \in 0..0 |-> Type[t.root]], t, 0)
    BY DEF IsTypes
  <2> QED
    BY <2>1
<1>2. ASSUME NEW j \in S PROVE j + 1 \in S
  <2>0. j \in Nat
    OBVIOUS
  <2>1. PICK f : IsTypes(f, t, j)
    OBVIOUS
  <2> DEFINE step(x, k) == IF k = 0 THEN Type[t.root]
                           ELSE IF t.steps[k] = "call" THEN x[k - 1] ELSE Elem[x[k - 1]][t.steps[k]]
             g == [k \in 0..(j + 1) |-> step(f, k)]
  <2> HIDE DEF S
  <2>2. ASSUME NEW k \in 0..j PROVE g[k] = f[k]
    <3>1. f[k] = step(f, k)
      BY <2>1 DEF IsTypes
    <3>2. k \in 0..(j + 1)
      BY <2>0
    <3> QED
      BY <3>1, <3>2
  <2>3. ASSUME NEW k \in 0..(j + 1), k # 0 PROVE g[k - 1] = f[k - 1]
    <3>1. k - 1 \in 0..j
      BY <2>0, <2>3
    <3> HIDE DEF g
    <3> QED
      BY <2>2, <3>1
  <2>4. \A k \in 0..(j + 1) : g[k] = step(g, k)
    BY <2>3
  <2>5. IsTypes(g, t, j + 1)
    <3>1. g = [k \in 0..(j + 1) |-> g[k]]
      OBVIOUS
    <3> HIDE DEF g
    <3> QED
      BY <2>4, <3>1 DEF IsTypes
  <2> HIDE DEF g
  <2> QED
    BY <2>0, <2>5 DEF S
<1> HIDE DEF S
<1>3. S \subseteq Nat
  BY DEF S
<1>4. n \in S
  BY <1>1, <1>2, <1>3, SetInduction
<1> QED
  BY <1>4 DEF S

LEMMA PlacesExist ==
  ASSUME NEW m, NEW t, NEW n \in Nat
  PROVE  \E g : IsPlaces(g, m, t, n)
<1> DEFINE S == {k \in Nat : \E g : IsPlaces(g, m, t, k)}
<1>1. 0 \in S
  <2>1. IsPlaces([k \in 0..0 |-> <<t.root>>], m, t, 0)
    BY DEF IsPlaces
  <2> QED
    BY <2>1
<1>2. ASSUME NEW j \in S PROVE j + 1 \in S
  <2>0. j \in Nat
    OBVIOUS
  <2>1. PICK f : IsPlaces(f, m, t, j)
    OBVIOUS
  <2> DEFINE step(x, k) == IF k = 0 THEN <<t.root>>
                           ELSE IF t.steps[k] = "call" THEN x[k - 1]
                           ELSE Stepped(m, x[k - 1], t.steps[k])
             g == [k \in 0..(j + 1) |-> step(f, k)]
  <2> HIDE DEF S
  <2>2. ASSUME NEW k \in 0..j PROVE g[k] = f[k]
    <3>1. f[k] = step(f, k)
      BY <2>1 DEF IsPlaces
    <3>2. k \in 0..(j + 1)
      BY <2>0
    <3> QED
      BY <3>1, <3>2
  <2>3. ASSUME NEW k \in 0..(j + 1), k # 0 PROVE g[k - 1] = f[k - 1]
    <3>1. k - 1 \in 0..j
      BY <2>0, <2>3
    <3> HIDE DEF g
    <3> QED
      BY <2>2, <3>1
  <2>4. \A k \in 0..(j + 1) : g[k] = step(g, k)
    BY <2>3
  <2>5. IsPlaces(g, m, t, j + 1)
    <3>1. g = [k \in 0..(j + 1) |-> g[k]]
      OBVIOUS
    <3> HIDE DEF g
    <3> QED
      BY <2>4, <3>1 DEF IsPlaces
  <2> HIDE DEF g
  <2> QED
    BY <2>0, <2>5 DEF S
<1> HIDE DEF S
<1>3. S \subseteq Nat
  BY DEF S
<1>4. n \in S
  BY <1>1, <1>2, <1>3, SetInduction
<1> QED
  BY <1>4 DEF S

LEMMA TypesIs ==
  ASSUME NEW t, t.steps \in Seq(Symbol)
  PROVE  /\ IsTypes(TypesTo(t), t, Len(t.steps))
         /\ TypeAt(t) = TypesTo(t)[Len(t.steps)]
<1>1. Len(t.steps) \in Nat
  BY LenProperties
<1>2. \E g : IsTypes(g, t, Len(t.steps))
  BY <1>1, TypesExist
<1>3. TypesTo(t) = CHOOSE g : IsTypes(g, t, Len(t.steps))
  BY DEF TypesTo, IsTypes
<1> QED
  BY <1>2, <1>3 DEF TypeAt

LEMMA PlaceIs ==
  ASSUME NEW m, NEW t, t.steps \in Seq(Symbol)
  PROVE  \E g : IsPlaces(g, m, t, Len(t.steps)) /\ Place(m, t) = g[Len(t.steps)]
<1> DEFINE g == CHOOSE f : IsPlaces(f, m, t, Len(t.steps))
<1>1. Len(t.steps) \in Nat
  BY LenProperties
<1>2. \E f : IsPlaces(f, m, t, Len(t.steps))
  BY <1>1, PlacesExist
<1>3. IsPlaces(g, m, t, Len(t.steps))
  BY <1>2
<1>4. Place(m, t) = g[Len(t.steps)]
  BY DEF Place, IsPlaces, Stepped
<1> HIDE DEF g
<1> QED
  BY <1>3, <1>4

(* A walk through the memory follows the types, and keeps to the variables *)
(* and objects that it started from and that nothing refers out of.        *)
WellTyped(m) ==
  /\ DOMAIN m = DOMAIN Boot /\ \A d \in DOMAIN m : m[d] \in Path
  /\ \A p \in DOMAIN Holds : Fits(Object(m, p), Holds[p])

Closed(m, part) ==
  \A d \in DOMAIN m : d[1] \in part /\ m[d][1] \in Heads => m[d][1] \in part

LEMMA PathTyped ==
  ASSUME NEW x \in Path
  PROVE  /\ x \in Seq(Symbol) /\ Len(x) \in Nat /\ Len(x) >= 1 /\ DOMAIN x = 1..Len(x)
         /\ x[1] \in Symbol
         /\ \A s \in Symbol : Append(x, s) \in Path /\ Append(x, s)[1] = x[1]
<1>1. x \in Seq(Symbol) /\ x # <<>>
  BY DEF Path
<1>2. Len(x) \in Nat /\ DOMAIN x = 1..Len(x) /\ Len(x) >= 1
  BY <1>1, LenProperties, EmptySeq
<1>3. x[1] \in Symbol
  BY <1>1, <1>2, ElementOfSeq
<1>4. ASSUME NEW s \in Symbol PROVE Append(x, s) \in Path /\ Append(x, s)[1] = x[1]
  <2>1. /\ Append(x, s) \in Seq(Symbol) /\ Len(Append(x, s)) = Len(x) + 1
        /\ \A i \in 1..Len(x) : Append(x, s)[i] = x[i]
    BY <1>1, AppendProperties
  <2>2. Append(x, s) # <<>>
    BY <1>2, <2>1, EmptySeq
  <2> QED
    BY <1>2, <2>1, <2>2 DEF Path
<1> QED
  BY <1>1, <1>2, <1>3, <1>4

LEMMA ObjectIs ==
  ASSUME NEW m, WellTyped(m), NEW p \in DOMAIN Holds
  PROVE  Object(m, p) \in Path
<1>1. p \in Path
  BY MemoryAssumption
<1> QED
  BY <1>1 DEF WellTyped, Object

LEMMA WalkTyped ==
  ASSUME NEW m, WellTyped(m), NEW part, Closed(m, part), NEW t, IsTarget(t), t.root \in part,
         NEW g, IsPlaces(g, m, t, Len(t.steps))
  PROVE  \A k \in 0..Len(t.steps) :
           g[k] \in DOMAIN Holds /\ Holds[g[k]] = TypesTo(t)[k] /\ g[k][1] \in part
<1> DEFINE n == Len(t.steps)
           good(k) == g[k] \in DOMAIN Holds /\ Holds[g[k]] = TypesTo(t)[k] /\ g[k][1] \in part
           S == {k \in Nat : k <= n => good(k)}
<1>0. n \in Nat /\ t.steps \in Seq(Symbol) /\ t.root \in Var /\ DOMAIN t.steps = 1..n
  BY LenProperties DEF IsTarget
<1>1. \A k \in 0..n : TypesTo(t)[k] = IF k = 0 THEN Type[t.root]
                      ELSE IF t.steps[k] = "call" THEN TypesTo(t)[k - 1] ELSE Elem[TypesTo(t)[k - 1]][t.steps[k]]
  BY <1>0, TypesIs DEF IsTypes
<1>2. \A k \in 0..n : g[k] = IF k = 0 THEN <<t.root>>
                      ELSE IF t.steps[k] = "call" THEN g[k - 1]
                      ELSE Stepped(m, g[k - 1], t.steps[k])
  BY DEF IsPlaces
<1> HIDE DEF n
<1>3. good(0)
  <2>1. <<t.root>> \in DOMAIN Holds /\ Holds[<<t.root>>] = Type[t.root] /\ <<t.root>>[1] = t.root
    BY <1>0, MemoryAssumption
  <2>2. 0 \in 0..n
    BY <1>0
  <2>3. g[0] = <<t.root>> /\ TypesTo(t)[0] = Type[t.root]
    BY <1>1, <1>2, <2>2
  <2> QED
    BY <2>1, <2>3
<1>4. ASSUME NEW k \in Nat, k + 1 <= n, good(k) PROVE good(k + 1)
  <2>0. k + 1 \in 0..n /\ k \in 0..n /\ k + 1 # 0 /\ k + 1 - 1 = k /\ k + 1 \in DOMAIN t.steps
    BY <1>0, <1>4
  <2>1. CASE t.steps[k + 1] = "call"
    BY <1>1, <1>2, <1>4, <2>0, <2>1
  <2>2. CASE t.steps[k + 1] # "call"
    <3> DEFINE x == Object(m, g[k])
               s == t.steps[k + 1]
               u == TypesTo(t)[k]
    <3>1. u \in DOMAIN Elem /\ s \in DOMAIN Elem[u]
      BY <2>0, <2>2 DEF IsTarget
    <3>2. g[k + 1] = Append(x, s) /\ TypesTo(t)[k + 1] = Elem[u][s]
      <4>1. g[k + 1] = Append(x, s)
        <5>1. g[k + 1] = Stepped(m, g[k], s)
          BY <1>2, <2>0, <2>2
        <5> QED
          BY <5>1 DEF Stepped
      <4>2. TypesTo(t)[k + 1] = Elem[u][s]
        BY <1>1, <2>0, <2>2
      <4> QED
        BY <4>1, <4>2
    <3>3. Fits(x, u)
      BY <1>4 DEF WellTyped
    <3>4. x \in Path
      BY <1>4, ObjectIs
    <3>5. s \in Symbol
      BY <1>0, <2>0, ElementOfSeq
    <3>6. g[k] \in DOMAIN Holds /\ g[k][1] \in part
      BY <1>4
    <3> HIDE DEF s, u
    <3>7. g[k + 1] \in DOMAIN Holds /\ Holds[g[k + 1]] = TypesTo(t)[k + 1]
      BY <3>1, <3>2, <3>3 DEF Fits
    <3>8. g[k + 1][1] = x[1]
      BY <3>2, <3>4, <3>5, PathTyped
    <3>9. x[1] \in Heads
      BY <3>7, <3>8 DEF Heads
    <3>10. x[1] \in part
      BY <3>6, <3>9 DEF Object, Closed
    <3> QED
      BY <3>7, <3>8, <3>10
  <2> QED
    BY <2>1, <2>2
<1> HIDE DEF good
<1>5. 0 \in S
  BY <1>3
<1>6. ASSUME NEW k \in S PROVE k + 1 \in S
  <2>1. k \in Nat /\ (k <= n => good(k))
    OBVIOUS
  <2>2. k + 1 <= n => good(k + 1)
    BY <1>0, <1>4, <2>1
  <2> QED
    BY <2>1, <2>2
<1>7. S \subseteq Nat
  OBVIOUS
<1> HIDE DEF S
<1>8. \A k \in Nat : k \in S
  BY <1>5, <1>6, <1>7, SetInduction
<1>9. \A k \in 0..n : good(k)
  BY <1>0, <1>8 DEF S
<1> QED
  BY <1>9 DEF good, n

LEMMA PlaceTyped ==
  ASSUME NEW m, WellTyped(m), NEW part, Closed(m, part), NEW t, IsTarget(t), t.root \in part
  PROVE  Place(m, t) \in DOMAIN Holds /\ Holds[Place(m, t)] = TypeAt(t) /\ Place(m, t)[1] \in part
<1>1. t.steps \in Seq(Symbol) /\ Len(t.steps) \in Nat /\ Len(t.steps) \in 0..Len(t.steps)
  BY LenProperties DEF IsTarget
<1>2. PICK g : IsPlaces(g, m, t, Len(t.steps)) /\ Place(m, t) = g[Len(t.steps)]
  BY <1>1, PlaceIs
<1> QED
  BY <1>1, <1>2, WalkTyped, TypesIs

(* Two memories with the same containers in a part lead to the same place. *)
LEMMA PlaceAgrees ==
  ASSUME NEW m, WellTyped(m), NEW part, Closed(m, part), NEW t, IsTarget(t), t.root \in part,
         NEW w, DOMAIN w = DOMAIN m,
         \A d \in DOMAIN m : d[1] \in part /\ Holds[d] \in DOMAIN Elem => w[d] = m[d]
  PROVE  Place(w, t) = Place(m, t)
<1> DEFINE n == Len(t.steps)
<1>0. n \in Nat /\ t.steps \in Seq(Symbol) /\ DOMAIN t.steps = 1..n
  BY LenProperties DEF IsTarget
<1>1. PICK g : IsPlaces(g, m, t, n) /\ Place(m, t) = g[n]
  BY <1>0, PlaceIs
<1>2. PICK h : IsPlaces(h, w, t, n) /\ Place(w, t) = h[n]
  BY <1>0, PlaceIs
<1>3. \A k \in 0..n : g[k] = IF k = 0 THEN <<t.root>>
                      ELSE IF t.steps[k] = "call" THEN g[k - 1]
                      ELSE Stepped(m, g[k - 1], t.steps[k])
  BY <1>1 DEF IsPlaces
<1>4. \A k \in 0..n : h[k] = IF k = 0 THEN <<t.root>>
                      ELSE IF t.steps[k] = "call" THEN h[k - 1]
                      ELSE Stepped(w, h[k - 1], t.steps[k])
  BY <1>2 DEF IsPlaces
<1>5. \A k \in 0..n : g[k] \in DOMAIN Holds /\ Holds[g[k]] = TypesTo(t)[k] /\ g[k][1] \in part
  BY <1>1, WalkTyped
<1> HIDE DEF n
<1> DEFINE S == {k \in Nat : k <= n => h[k] = g[k]}
<1>6. 0 \in S
  BY <1>0, <1>3, <1>4
<1>7. ASSUME NEW k \in S PROVE k + 1 \in S
  <2> SUFFICES ASSUME k + 1 <= n PROVE h[k + 1] = g[k + 1]
    OBVIOUS
  <2>1. k \in Nat /\ k \in 0..n /\ k + 1 \in 0..n /\ k + 1 # 0 /\ k + 1 - 1 = k /\ k + 1 \in DOMAIN t.steps
    BY <1>0
  <2>2. h[k] = g[k]
    BY <1>0, <2>1
  <2>3. CASE t.steps[k + 1] = "call"
    BY <1>3, <1>4, <2>1, <2>2, <2>3
  <2>4. CASE t.steps[k + 1] # "call"
    <3>1. Holds[g[k]] \in DOMAIN Elem
      BY <1>5, <2>1, <2>4 DEF IsTarget
    <3>2. Stepped(w, g[k], t.steps[k + 1]) = Stepped(m, g[k], t.steps[k + 1])
      BY <1>5, <2>1, <3>1 DEF Object, Stepped
    <3> QED
      BY <1>3, <1>4, <2>1, <2>2, <2>4, <3>2
  <2> QED
    BY <2>3, <2>4
<1>8. S \subseteq Nat
  OBVIOUS
<1> HIDE DEF S
<1>9. n \in S
  BY <1>0, <1>6, <1>7, <1>8, SetInduction
<1>10. h[n] = g[n]
  BY <1>0, <1>9 DEF S
<1> QED
  BY <1>1, <1>2, <1>10
--------------------------------------------------------------------------------
(* G08: what a statement that is neither reported nor hands a container    *)
(* over leaves alone.                                                      *)

Harmless(n) == ~Patches(n) /\ ~HandsOver(n)

(* Production has all that it had, and nothing else refers to it.          *)
Kept(held, m) ==
  /\ WellTyped(m)
  /\ \A d \in DOMAIN m : d[1] \in held => m[d] = Boot[d]
  /\ \A d \in DOMAIN m : d[1] \notin held => m[d][1] \notin held

LEMMA BootTyped == WellTyped(Boot)
  BY MemoryAssumption DEF WellTyped

LEMMA BootKept ==
  ASSUME NEW held \in SUBSET Heads, Owned(conf, held)
  PROVE  Kept(held, Boot)
<1>1. \A d \in DOMAIN Boot : Boot[d][1] \in Heads => (d[1] \in held <=> Boot[d][1] \in held)
  BY DEF Owned
<1> QED
  BY <1>1, BootTyped DEF Kept

LEMMA PartsClosed ==
  ASSUME NEW held \in SUBSET Heads, Owned(conf, held), NEW m, Kept(held, m)
  PROVE  Closed(m, held) /\ Closed(m, Heads \ held)
<1>1. DOMAIN m = DOMAIN Boot
  BY DEF Kept, WellTyped
<1>2. \A d \in DOMAIN Boot : Boot[d][1] \in Heads => (d[1] \in held <=> Boot[d][1] \in held)
  BY DEF Owned
<1>3. Closed(m, held)
  BY <1>1, <1>2 DEF Closed, Kept
<1>4. Closed(m, Heads \ held)
  BY DEF Closed, Kept
<1> QED
  BY <1>3, <1>4

LEMMA VarHead ==
  ASSUME NEW v \in Var
  PROVE  <<v>> \in DOMAIN Holds /\ <<v>>[1] = v /\ v \in Heads
<1>1. <<v>> \in DOMAIN Holds
  BY MemoryAssumption
<1>2. <<v>>[1] = v
  OBVIOUS
<1> QED
  BY <1>1, <1>2 DEF Heads

LEMMA BehaviourValue ==
  ASSUME NEW x \in {Own, Fake}, NEW held \in SUBSET Heads
  PROVE  x \in Path /\ x[1] \notin held
  BY MemoryAssumption

(* A place with the type of a cell is a cell.                              *)
LEMMA OwnCell ==
  ASSUME NEW p \in Path, NEW q \in Path
  PROVE  IsPrefix(p, p) /\ q \o SubSeq(p, Len(p) + 1, Len(p)) = q
<1>1. p \in Seq(Symbol) /\ q \in Seq(Symbol)
  BY DEF Path
<1>2. Len(p) \in Nat
  BY <1>1, LenProperties
<1>3. SubSeq(p, 1, Len(p)) = p
  BY <1>1, SubSeqFull
<1>4. SubSeq(p, Len(p) + 1, Len(p)) = <<>>
  BY <1>1, <1>2, SubSeqEmpty
<1> QED
  BY <1>1, <1>3, <1>4, ConcatEmptySeq DEF IsPrefix

LEMMA CellsAgree ==
  ASSUME NEW c \in DOMAIN Boot, NEW p \in DOMAIN Holds, Holds[c] = Holds[p]
  PROVE  p \in DOMAIN Boot
<1>1. c \in DOMAIN Holds /\ c \in Path /\ p \in Path
  BY MemoryAssumption
<1>2. IsPrefix(c, c) /\ p \o SubSeq(c, Len(c) + 1, Len(c)) = p
  BY <1>1, OwnCell
<1>3. p \o SubSeq(c, Len(c) + 1, Len(c)) \in DOMAIN Boot
  BY <1>1, <1>2, MemoryAssumption
<1> QED
  BY <1>2, <1>3

LEMMA OutsideRoot ==
  ASSUME NEW held \in SUBSET Heads, Owned(conf, held), NEW n \in Assigns, Harmless(n)
  PROVE  n.root \in Heads \ held
<1>1. IsTarget(n) /\ n.root \in Var
  BY TargetAssumption DEF IsTarget
<1>2. RootVariable(n) = n.root
  BY DEF Harmless, HandsOver, RootVariable, Range
<1>3. n.root # NoVar
  BY <1>1, DeclAssumption
<1>4. ~Production(n.root)
  <2>1. CASE TypeAt(n) \in Behaviour
    BY <1>2, <1>3, <2>1 DEF Harmless, Patches, HoldsBehaviour
  <2>2. CASE TypeAt(n) \notin Behaviour
    BY <1>1, <2>2 DEF Harmless, HandsOver
  <2> QED
    BY <2>1, <2>2
<1> QED
  BY <1>1, <1>4, VarHead DEF Owned, Production

(* The value that such a statement assigns fits, and refers to nothing     *)
(* that production owns.                                                   *)
LEMMA ValueOutside ==
  ASSUME NEW held \in SUBSET Heads, Owned(conf, held), NEW m, Kept(held, m),
         NEW n \in Assigns, Harmless(n)
  PROVE  LET x == Assigned(m, n) IN
         /\ x \in Path /\ x[1] \notin held /\ Fits(x, TypeAt(n))
         /\ \A p \in DOMAIN Holds \ DOMAIN Boot :
              Holds[p] = TypeAt(n) => x \in DOMAIN Holds /\ Holds[x] = TypeAt(n)
<1> DEFINE x == Assigned(m, n)
           t == TypeAt(n)
<1>1. n.from \in Var \cup {NoVar} /\ n.value \in Path
  BY TargetAssumption
<1>2. t \notin Behaviour => \A v \in {n.root, n.from, n.value[1]} \cap Var : ~Production(v)
  BY DEF Harmless, HandsOver
<1>3. \A v \in Var : v \in held <=> Production(v)
  BY DEF Owned, Production
<1>4. CASE n.from = NoVar
  <2>1. x = n.value
    BY <1>4 DEF Assigned
  <2>2. /\ t \in Behaviour => n.value \in {Own, Fake}
        /\ Fits(n.value, t)
        /\ (\E p \in DOMAIN Holds \ DOMAIN Boot : Holds[p] = t) => n.value \in DOMAIN Holds /\ Holds[n.value] = t
    BY <1>4, TargetAssumption
  <2>3. n.value[1] \notin held
    <3>1. CASE t \in Behaviour
      BY <2>2, <3>1, BehaviourValue
    <3>2. CASE t \notin Behaviour
      <4>1. n.value[1] \in held => n.value[1] \in Var
        BY DEF Owned
      <4> QED
        BY <1>2, <1>3, <3>2, <4>1
    <3> QED
      BY <3>1, <3>2
  <2> HIDE DEF x, t
  <2> QED
    BY <1>1, <2>1, <2>2, <2>3 DEF x, t
<1>5. CASE n.from # NoVar
  <2> DEFINE c == <<n.from>>
  <2>1. x = m[c] /\ n.from \in Var
    BY <1>1, <1>5 DEF Assigned
  <2>2. c \in DOMAIN Boot /\ (Type[n.from] = t \/ {Type[n.from], t} \subseteq Behaviour)
    BY <1>5, TargetAssumption
  <2>3. c \in DOMAIN Holds /\ Holds[c] = Type[n.from] /\ c[1] = n.from
    BY <2>1, VarHead, MemoryAssumption
  <2> HIDE DEF c
  <2>4. DOMAIN m = DOMAIN Boot /\ m[c] \in Path /\ Fits(Object(m, c), Holds[c])
    BY <2>2, <2>3 DEF Kept, WellTyped
  <2>5. m[c][1] \notin held
    <3>1. CASE n.from \notin held
      BY <2>2, <2>3, <2>4, <3>1 DEF Kept
    <3>2. CASE n.from \in held
      <4>1. t \in Behaviour
        BY <1>2, <1>3, <2>1, <3>2
      <4>2. Holds[c] \in Behaviour
        BY <2>2, <2>3, <4>1
      <4>3. m[c] = Boot[c]
        BY <2>2, <2>3, <2>4, <3>2 DEF Kept
      <4>4. Boot[c] \in {Own, Fake}
        BY <2>3, <4>2, MemoryAssumption
      <4> QED
        BY <4>3, <4>4, BehaviourValue
    <3> QED
      BY <3>1, <3>2
  <2>6. Fits(m[c], t)
    <3>1. CASE Type[n.from] = t
      BY <2>2, <2>3, <2>4, <3>1 DEF Object
    <3>2. CASE t \in Behaviour
      BY <3>2, MemoryAssumption DEF Fits
    <3> QED
      BY <2>2, <3>1, <3>2
  <2>7. ASSUME NEW p \in DOMAIN Holds \ DOMAIN Boot, Holds[p] = t PROVE FALSE
    <3>1. t \notin Behaviour
      BY <2>7, MemoryAssumption
    <3>2. Holds[c] = Holds[p]
      BY <2>2, <2>3, <2>7, <3>1
    <3> QED
      BY <2>2, <2>3, <3>2, CellsAgree
  <2> HIDE DEF x, t
  <2> QED
    BY <2>1, <2>4, <2>5, <2>6, <2>7 DEF x, t
<1> QED
  BY <1>4, <1>5

(* A struct and the cell of it that the same suffix leads to.              *)
LEMMA StructCells ==
  ASSUME NEW p \in DOMAIN Holds, NEW x \in DOMAIN Holds, Holds[p] = Holds[x],
         NEW d \in DOMAIN Boot, IsPrefix(p, d)
  PROVE  LET e == x \o SubSeq(d, Len(p) + 1, Len(d)) IN
         /\ e \in DOMAIN Boot /\ Holds[e] = Holds[d]
         /\ e[1] = x[1] /\ d[1] = p[1]
<1> DEFINE e == x \o SubSeq(d, Len(p) + 1, Len(d))
<1>1. e \in DOMAIN Boot /\ Holds[e] = Holds[d]
  BY MemoryAssumption
<1>2. /\ p \in Seq(Symbol) /\ d \in Seq(Symbol) /\ x \in Seq(Symbol)
      /\ Len(p) \in Nat /\ Len(p) >= 1 /\ Len(x) \in Nat /\ Len(x) >= 1 /\ Len(d) \in Nat
  <2>1. p \in Path /\ d \in Path /\ x \in Path
    BY MemoryAssumption
  <2> QED
    BY <2>1, PathTyped
<1>3. d[1] = p[1]
  <2>1. SubSeq(p, 1, Len(p)) = SubSeq(d, 1, Len(p)) /\ Len(p) <= Len(d)
    BY DEF IsPrefix
  <2>2. SubSeq(d, 1, Len(p)) = [i \in 1..Len(p) |-> d[i]] /\ SubSeq(p, 1, Len(p)) = [i \in 1..Len(p) |-> p[i]]
    BY <1>2
  <2>3. 1 \in 1..Len(p)
    BY <1>2
  <2> QED
    BY <2>1, <2>2, <2>3
<1>4. e[1] = x[1]
  <2> DEFINE s == SubSeq(d, Len(p) + 1, Len(d))
  <2>1. s \in Seq(Symbol)
    <3>1. \A i \in (Len(p) + 1)..Len(d) : d[i] \in Symbol
      BY <1>2, ElementOfSeq
    <3>2. Len(p) + 1 \in Int /\ Len(d) \in Int
      BY <1>2
    <3> QED
      BY <1>2, <3>1, <3>2, SubSeqProperties
  <2> HIDE DEF s
  <2>2. \A i \in 1..Len(x) : (x \o s)[i] = x[i]
    BY <1>2, <2>1, ConcatProperties
  <2> QED
    BY <1>2, <2>2 DEF s
<1> QED
  BY <1>1, <1>3, <1>4

LEMMA StoreKept ==
  ASSUME NEW held \in SUBSET Heads, Owned(conf, held), NEW m, Kept(held, m),
         NEW n \in Assigns, Harmless(n)
  PROVE  Kept(held, Stored(m, n))
<1> DEFINE c == Place(m, n)
           x == Assigned(m, n)
           w == Stored(m, n)
           t == TypeAt(n)
           from(d) == x \o SubSeq(d, Len(c) + 1, Len(d))
<1>1. WellTyped(m) /\ DOMAIN m = DOMAIN Boot
  BY DEF Kept, WellTyped
<1>2. c \in DOMAIN Holds /\ Holds[c] = t /\ c[1] \in Heads \ held
  <2>1. IsTarget(n)
    BY TargetAssumption
  <2> QED
    BY <1>1, <2>1, PartsClosed, OutsideRoot, PlaceTyped
<1>3. /\ x \in Path /\ x[1] \notin held /\ Fits(x, t)
      /\ \A p \in DOMAIN Holds \ DOMAIN Boot : Holds[p] = t => x \in DOMAIN Holds /\ Holds[x] = t
  BY ValueOutside
<1>4. w = IF c \in DOMAIN m THEN [m EXCEPT ![c] = x]
          ELSE [d \in DOMAIN m |-> IF IsPrefix(c, d) THEN m[from(d)] ELSE m[d]]
  BY DEF Stored
<1> HIDE DEF w, c, x, t, from
<1>5. CASE c \in DOMAIN m
  <2>1. DOMAIN w = DOMAIN m /\ \A d \in DOMAIN m : w[d] = IF d = c THEN x ELSE m[d]
    BY <1>4, <1>5
  <2>2. \A d \in DOMAIN w : w[d] \in Path
    BY <1>1, <1>3, <2>1 DEF WellTyped
  <2>3. ASSUME NEW p \in DOMAIN Holds PROVE Fits(Object(w, p), Holds[p])
    <3>1. CASE p = c
      BY <1>2, <1>3, <1>5, <2>1, <3>1 DEF Object
    <3>2. CASE p # c
      <4>1. Object(w, p) = Object(m, p)
        BY <2>1, <3>2 DEF Object
      <4> QED
        BY <1>1, <4>1 DEF WellTyped
    <3> QED
      BY <3>1, <3>2
  <2>4. WellTyped(w)
    BY <1>1, <2>1, <2>2, <2>3 DEF WellTyped
  <2>5. \A d \in DOMAIN w : d[1] \in held => w[d] = Boot[d]
    BY <1>2, <2>1 DEF Kept
  <2>6. \A d \in DOMAIN w : d[1] \notin held => w[d][1] \notin held
    BY <1>3, <2>1 DEF Kept
  <2> QED
    BY <2>4, <2>5, <2>6 DEF Kept, w
<1>6. CASE c \notin DOMAIN m
  <2>1. DOMAIN w = DOMAIN m /\ \A d \in DOMAIN m : w[d] = IF IsPrefix(c, d) THEN m[from(d)] ELSE m[d]
    BY <1>4, <1>6
  <2>2. x \in DOMAIN Holds /\ Holds[x] = Holds[c]
    BY <1>1, <1>2, <1>3, <1>6
  <2>3. ASSUME NEW d \in DOMAIN m, IsPrefix(c, d)
        PROVE  /\ from(d) \in DOMAIN m /\ from(d) \in DOMAIN Holds /\ Holds[from(d)] = Holds[d]
               /\ from(d)[1] \notin held /\ d[1] \notin held
    <3>1. /\ from(d) \in DOMAIN Boot /\ Holds[from(d)] = Holds[d]
          /\ from(d)[1] = x[1] /\ d[1] = c[1]
      <4>1. c \in DOMAIN Holds /\ x \in DOMAIN Holds /\ Holds[c] = Holds[x] /\ d \in DOMAIN Boot
        BY <1>1, <1>2, <2>2
      <4>2. LET e == x \o SubSeq(d, Len(c) + 1, Len(d)) IN
            /\ e \in DOMAIN Boot /\ Holds[e] = Holds[d]
            /\ e[1] = x[1] /\ d[1] = c[1]
        BY ONLY <2>3, <4>1, StructCells
      <4> QED
        BY <4>2 DEF from
    <3> QED
      BY <1>1, <1>2, <1>3, <3>1, MemoryAssumption
  <2>4. \A d \in DOMAIN w : w[d] \in Path
    BY <1>1, <2>1, <2>3 DEF WellTyped
  <2>5. ASSUME NEW p \in DOMAIN Holds PROVE Fits(Object(w, p), Holds[p])
    <3>1. CASE p \in DOMAIN m /\ IsPrefix(c, p)
      <4>1. Fits(Object(m, from(p)), Holds[from(p)])
        BY <1>1, <2>3, <3>1 DEF WellTyped
      <4>2. Object(w, p) = m[from(p)] /\ Object(m, from(p)) = m[from(p)]
        BY <2>1, <2>3, <3>1 DEF Object
      <4> QED
        BY <2>3, <3>1, <4>1, <4>2
    <3>2. CASE ~(p \in DOMAIN m /\ IsPrefix(c, p))
      <4>1. Object(w, p) = Object(m, p)
        BY <2>1, <3>2 DEF Object
      <4> QED
        BY <1>1, <4>1 DEF WellTyped
    <3> QED
      BY <3>1, <3>2
  <2>6. WellTyped(w)
    BY <1>1, <2>1, <2>4, <2>5 DEF WellTyped
  <2>7. \A d \in DOMAIN w : d[1] \in held => w[d] = Boot[d]
    BY <2>1, <2>3 DEF Kept
  <2>8. \A d \in DOMAIN w : d[1] \notin held => w[d][1] \notin held
    BY <2>1, <2>3 DEF Kept
  <2> QED
    BY <2>6, <2>7, <2>8 DEF Kept, w
<1> QED
  BY <1>5, <1>6

(* What production reads is then what it read at first.                    *)
LEMMA SeamCell ==
  ASSUME NEW held \in SUBSET Heads, Owned(conf, held), NEW t, IsTarget(t), TypeAt(t) \in Behaviour,
         Production(t.root)
  PROVE  LET c == Place(Boot, t) IN
         /\ c \in DOMAIN Boot /\ c[1] \in held /\ Holds[c] = TypeAt(t) /\ Boot[c] = Own
         /\ t.root \in held
<1> DEFINE c == Place(Boot, t)
<1>1. t.root \in held
  BY DEF Owned, Production, IsTarget
<1>2. c \in DOMAIN Holds /\ Holds[c] = TypeAt(t) /\ c[1] \in held
  <2>1. Closed(Boot, held)
    BY BootKept, PartsClosed
  <2> QED
    BY <1>1, <2>1, BootTyped, PlaceTyped
<1> HIDE DEF c
<1>3. c \in DOMAIN Boot
  BY <1>2, MemoryAssumption
<1>4. Boot[c] = Own
  BY <1>2, <1>3 DEF Owned
<1> QED
  BY <1>1, <1>2, <1>3, <1>4 DEF c

LEMMA ObservedKept ==
  ASSUME NEW held \in SUBSET Heads, Owned(conf, held), NEW m, Kept(held, m)
  PROVE  Observed(m) = Observed(Boot)
<1>1. ASSUME NEW t \in Seam, Production(t.root) PROVE m[Place(m, t)] = Boot[Place(Boot, t)]
  <2>1. IsTarget(t) /\ TypeAt(t) \in Behaviour
    BY TargetAssumption
  <2>2. /\ Place(Boot, t) \in DOMAIN Boot /\ Place(Boot, t)[1] \in held /\ t.root \in held
    BY <1>1, <2>1, SeamCell
  <2>3. DOMAIN m = DOMAIN Boot /\ \A d \in DOMAIN m : d[1] \in held => m[d] = Boot[d]
    BY DEF Kept, WellTyped
  <2>4. Closed(Boot, held)
    BY BootKept, PartsClosed
  <2>5. Place(m, t) = Place(Boot, t)
    BY <2>1, <2>2, <2>3, <2>4, BootTyped, PlaceAgrees
  <2> QED
    BY <2>2, <2>3, <2>5
<1> QED
  BY <1>1 DEF Observed

(* A statement that is reported does change what production reads.         *)
LEMMA PatchSeen ==
  ASSUME NEW held \in SUBSET Heads, Owned(conf, held), NEW n \in Assigns, Patches(n)
  PROVE  Observed(Stored(Boot, n)) # Observed(Boot)
<1> DEFINE t == [root |-> n.root, steps |-> n.steps]
           c == Place(Boot, n)
           w == Stored(Boot, n)
<1>1. IsTarget(n)
  BY TargetAssumption
<1>2. /\ RootVariable(n) = n.root /\ RootVariable(n) # NoVar /\ Production(n.root)
      /\ TypeAt(n) \in Behaviour
  <2>1. RootVariable(n) # NoVar /\ Production(RootVariable(n)) /\ TypeAt(n) \in Behaviour
    BY DEF Patches, HoldsBehaviour
  <2> QED
    BY <2>1 DEF RootVariable
<1>3. t \in Seam /\ Assigned(Boot, n) = Fake
  BY <1>2, TargetAssumption DEF Production, ProductionIn, HoldsBehaviour
<1>4. c \in DOMAIN Boot /\ c[1] \in held /\ Holds[c] \in Behaviour /\ Boot[c] = Own /\ n.root \in held
  BY <1>1, <1>2, SeamCell
<1>5. w = [Boot EXCEPT ![c] = Fake]
  BY <1>3, <1>4 DEF Stored
<1> HIDE DEF w, c
<1>6. DOMAIN w = DOMAIN Boot /\ w[c] = Fake /\ \A d \in DOMAIN Boot : d # c => w[d] = Boot[d]
  BY <1>4, <1>5
<1>7. Place(w, n) = c
  <2>1. \A d \in DOMAIN Boot : Holds[d] \in DOMAIN Elem => w[d] = Boot[d]
    BY <1>4, <1>6, MemoryAssumption
  <2>2. Closed(Boot, held)
    BY BootKept, PartsClosed
  <2>3. Place(w, n) = Place(Boot, n)
    BY <1>1, <1>4, <1>6, <2>1, <2>2, BootTyped, PlaceAgrees
  <2> QED
    BY <2>3 DEF c
<1>8. Place(w, t) = c /\ Place(Boot, t) = c /\ t.root = n.root
  BY <1>7 DEF Place, c
<1> HIDE DEF t
<1>9. Observed(w)[t] = Fake /\ Observed(Boot)[t] = Own
  BY <1>2, <1>3, <1>4, <1>6, <1>8 DEF Observed
<1> QED
  BY <1>9, DeclAssumption DEF w
--------------------------------------------------------------------------------
(* G08: its reports, and the memory while the tests run.                   *)

Reported == {r.at[1] : r \in ReportsOf("nomonkeypatch")}

Patched ==
  phase # "write" =>
    \A i \in At("assign") :
      i \in Reported <=> <<i, 1>> \notin unread /\ Judged(nodes[i].file) /\ Patches(nodes[i])

Waiting == phase # "run" => mem = Boot /\ ran = {}

Tested == \A i \in ran : i \in At("assign") /\ Judged(nodes[i].file)

Held ==
  phase = "run" =>
    \A held \in SUBSET Heads :
      Owned(conf, held) /\ (\A i \in ran : Harmless(nodes[i])) => Kept(held, mem)

SInv == Patched /\ Waiting /\ Tested /\ Held

LEMMA PatchUnmoved ==
  ASSUME UNCHANGED conf
  PROVE  /\ \A n : Patches(n)' <=> Patches(n)
         /\ \A n : Harmless(n)' <=> Harmless(n)
         /\ \A held : Owned(conf, held)' <=> Owned(conf, held)
<1>1. \A v : Production(v)' <=> Production(v)
  BY DEF Production
<1>2. \A n : Patches(n)' <=> Patches(n)
  BY DEF Patches, Production
<1>3. \A n : HandsOver(n)' <=> HandsOver(n)
  BY DEF HandsOver, Production
<1>4. \A held : Owned(conf, held)' <=> Owned(conf, held)
  OBVIOUS
<1> QED
  BY <1>2, <1>3, <1>4 DEF Harmless

LEMMA SamePatched ==
  ASSUME Patched, UNCHANGED <<nodes, conf, generated>>, phase # "write",
         \A i \in At("assign") : <<i, 1>> \in unread' <=> <<i, 1>> \in unread,
         ReportsOf("nomonkeypatch")' = ReportsOf("nomonkeypatch")
  PROVE  Patched'
<1>1. At("assign")' = At("assign") /\ \A f : Judged(f)' <=> Judged(f)
  BY Unmoved
<1>2. \A n : Patches(n)' <=> Patches(n)
  BY PatchUnmoved
<1>3. Reported' = Reported
  BY DEF Reported
<1>4. \A i \in At("assign") :
        i \in Reported <=> <<i, 1>> \notin unread /\ Judged(nodes[i].file) /\ Patches(nodes[i])
  BY DEF Patched
<1>5. \A i \in At("assign") :
        i \in Reported <=> <<i, 1>> \notin unread' /\ Judged(nodes[i].file)' /\ Patches(nodes[i])'
  BY <1>1, <1>2, <1>4
<1> QED
  BY <1>1, <1>3, <1>5 DEF Patched

LEMMA SameMemory ==
  ASSUME Waiting, Tested, Held, UNCHANGED <<phase, nodes, conf, generated, mem, ran>>
  PROVE  Waiting' /\ Tested' /\ Held'
<1>1. At("assign")' = At("assign") /\ \A f : Judged(f)' <=> Judged(f)
  BY Unmoved
<1>2. /\ \A n : Harmless(n)' <=> Harmless(n)
      /\ \A held : Owned(conf, held)' <=> Owned(conf, held)
  BY PatchUnmoved
<1>3. Waiting'
  BY DEF Waiting
<1>4. Tested'
  BY <1>1 DEF Tested
<1>5. Held'
  <2> SUFFICES ASSUME phase = "run", NEW held \in SUBSET Heads, Owned(conf, held),
                      \A i \in ran : Harmless(nodes[i])'
               PROVE  Kept(held, mem)
    BY <1>2 DEF Held
  <2> QED
    BY <1>2 DEF Held
<1> QED
  BY <1>3, <1>4, <1>5

LEMMA InitSInv == Init => SInv
<1> SUFFICES ASSUME Init PROVE SInv
  OBVIOUS
<1>1. phase = "write" /\ mem = Boot /\ ran = {}
  BY DEF Init
<1> QED
  BY <1>1 DEF SInv, Patched, Waiting, Tested, Held

LEMMA WriteSInv ==
  ASSUME SInv, NEW n \in Nodes, Write(n)
  PROVE  SInv'
<1>1. phase = "write" /\ phase' = "write" /\ mem' = mem /\ ran' = ran
  BY DEF Write
<1>2. mem = Boot /\ ran = {}
  BY <1>1 DEF SInv, Waiting
<1> QED
  BY <1>1, <1>2 DEF SInv, Patched, Waiting, Tested, Held

LEMMA StartPassSInv ==
  ASSUME SInv, NEW c \in Confs, NEW g \in SUBSET File, StartPass(c, g)
  PROVE  SInv'
<1>1. /\ phase = "write" /\ phase' = "pass" /\ UNCHANGED <<nodes, mem, ran>>
      /\ unread' = {v \in UNION {{i} \X Visits(i) : i \in DOMAIN nodes} :
                      /\ nodes[v[1]].kind # "import"
                      /\ nodes[v[1]].kind = "use" => ReflectTests' # {}}
      /\ reports' = ImportReports'
  BY DEF StartPass
<1>2. mem = Boot /\ ran = {}
  BY <1>1 DEF SInv, Waiting
<1>3. Reported' = {}
  <2>1. \A r \in ImportReports' : r.rule = "noreflect"
    BY DEF ImportReports
  <2> QED
    BY <1>1, <2>1 DEF Reported, ReportsOf
<1>4. ASSUME NEW i \in At("assign")' PROVE <<i, 1>> \in unread'
  <2>1. i \in DOMAIN nodes /\ nodes[i].kind = "assign"
    BY <1>1 DEF At
  <2>2. 1 \in Visits(i)
    BY <2>1 DEF Visits
  <2>3. <<i, 1>> \in UNION {{j} \X Visits(j) : j \in DOMAIN nodes} /\ <<i, 1>>[1] = i
    BY <2>1, <2>2
  <2> QED
    BY <1>1, <2>1, <2>3
<1>5. Patched'
  BY <1>3, <1>4 DEF Patched
<1> QED
  BY <1>1, <1>2, <1>5 DEF SInv, Waiting, Tested, Held

LEMMA ReadAssignSInv ==
  ASSUME IInv, SInv, NEW i \in DOMAIN nodes, ReadAssign(i)
  PROVE  SInv'
<1> DEFINE new == [rule |-> "nomonkeypatch", at |-> <<i, 1>>, by |-> <<i, 1>>]
           hit == Judged(nodes[i].file) /\ Patches(nodes[i])
<1>1. /\ phase = "pass" /\ nodes[i].kind = "assign" /\ <<i, 1>> \in unread
      /\ reports' = IF hit THEN reports \cup {new} ELSE reports
      /\ unread' = unread \ {<<i, 1>>}
      /\ UNCHANGED <<phase, nodes, conf, generated, mem, ran>>
  BY DEF ReadAssign
<1>2. new.at[1] = i /\ new.rule = "nomonkeypatch"
  OBVIOUS
<1>3. (At("assign")' = At("assign") /\ \A f : Judged(f)' <=> Judged(f)) /\ \A n : Patches(n)' <=> Patches(n)
  BY <1>1, Unmoved, PatchUnmoved
<1> HIDE DEF new, hit
<1>4. ASSUME NEW j \in At("assign")
      PROVE  j \in Reported' <=> <<j, 1>> \notin unread' /\ Judged(nodes[j].file) /\ Patches(nodes[j])
  <2>1. j \in Reported <=> <<j, 1>> \notin unread /\ Judged(nodes[j].file) /\ Patches(nodes[j])
    BY <1>1 DEF SInv, Patched
  <2>2. j \in Reported' <=> j \in Reported \/ (hit /\ j = i)
    BY <1>1, <1>2 DEF Reported, ReportsOf
  <2>3. CASE j = i
    BY <1>1, <2>1, <2>2, <2>3 DEF hit
  <2>4. CASE j # i
    <3>1. <<j, 1>> \in unread' <=> <<j, 1>> \in unread
      BY <1>1, <2>4
    <3> QED
      BY <2>1, <2>2, <2>4, <3>1
  <2> QED
    BY <2>3, <2>4
<1>5. Patched'
  <2>1. \A j \in At("assign") :
          j \in Reported' <=> <<j, 1>> \notin unread' /\ Judged(nodes[j].file)' /\ Patches(nodes[j])'
    BY <1>1, <1>3, <1>4
  <2> QED
    BY <1>3, <2>1 DEF Patched
<1>6. Waiting' /\ Tested' /\ Held'
  BY <1>1, SameMemory DEF SInv
<1> QED
  BY <1>5, <1>6 DEF SInv

(* A visit to a node of another kind.                                      *)
LEMMA OtherSInv ==
  ASSUME SInv, UNCHANGED <<phase, nodes, conf, generated, mem, ran>>, phase # "write",
         NEW i \in DOMAIN nodes, NEW k, nodes[i].kind # "assign", unread' = unread \ {<<i, k>>},
         NEW added, \A r \in added : r.rule # "nomonkeypatch", reports' = reports \cup added
  PROVE  SInv'
<1>1. ReportsOf("nomonkeypatch")' = ReportsOf("nomonkeypatch")
  BY DEF ReportsOf
<1>2. ASSUME NEW j \in At("assign") PROVE <<j, 1>> \in unread' <=> <<j, 1>> \in unread
  <2>1. j # i
    BY DEF At
  <2> QED
    BY <2>1
<1>3. Patched'
  BY <1>1, <1>2, SamePatched DEF SInv
<1>4. Waiting' /\ Tested' /\ Held'
  BY SameMemory DEF SInv
<1> QED
  BY <1>3, <1>4 DEF SInv

LEMMA ReadOtherSInv ==
  ASSUME SInv, NEW i \in DOMAIN nodes,
         ReadUse(i) \/ ReadCheck(i) \/ \E k \in Visits(i) : ReadCall(i, k)
  PROVE  SInv'
<1>1. CASE ReadUse(i)
  <2> DEFINE added == {}
  <2>1. /\ phase = "pass" /\ nodes[i].kind = "use" /\ unread' = unread \ {<<i, 1>>}
        /\ reports' = reports \cup added /\ UNCHANGED <<phase, nodes, conf, generated, mem, ran>>
    BY <1>1 DEF ReadUse
  <2>2. nodes[i].kind # "assign" /\ phase # "write"
    BY <2>1
  <2>3. \A r \in added : r.rule # "nomonkeypatch"
    OBVIOUS
  <2> HIDE DEF added
  <2> QED
    BY <2>1, <2>2, <2>3, OtherSInv
<1>2. CASE ReadCheck(i)
  <2> DEFINE new == [rule |-> "errsemantics", at |-> <<i, 1>>, by |-> <<i, 1>>]
             added == IF Judged(nodes[i].file) /\ (CheckCall(nodes[i]) \/ CheckComparison(nodes[i]))
                      THEN {new} ELSE {}
  <2>1. /\ phase = "pass" /\ nodes[i].kind = "check" /\ unread' = unread \ {<<i, 1>>}
        /\ reports' = reports \cup added /\ UNCHANGED <<phase, nodes, conf, generated, mem, ran>>
    BY <1>2 DEF ReadCheck
  <2>2. nodes[i].kind # "assign" /\ phase # "write"
    BY <2>1
  <2>3. \A r \in added : r.rule # "nomonkeypatch"
    OBVIOUS
  <2> HIDE DEF added
  <2> QED
    BY <2>1, <2>2, <2>3, OtherSInv
<1>3. CASE \E k \in Visits(i) : ReadCall(i, k)
  <2>0. PICK k \in Visits(i) : ReadCall(i, k)
    BY <1>3
  <2> DEFINE fresh == IF Judged(nodes[i].file) THEN Fresh(i, k) ELSE {}
             added == {[rule |-> "separategotwant", at |-> p, by |-> <<i, k>>] : p \in fresh}
  <2>1. /\ phase = "pass" /\ nodes[i].kind = "calls" /\ unread' = unread \ {<<i, k>>}
        /\ reports' = reports \cup added /\ UNCHANGED <<phase, nodes, conf, generated, mem, ran>>
    BY <2>0 DEF ReadCall
  <2>2. nodes[i].kind # "assign" /\ phase # "write"
    BY <2>1
  <2>3. \A r \in added : r.rule # "nomonkeypatch"
    OBVIOUS
  <2> HIDE DEF added
  <2> QED
    BY <2>1, <2>2, <2>3, OtherSInv
<1> QED
  BY <1>1, <1>2, <1>3

LEMMA ConcludeSInv ==
  ASSUME SInv, Conclude
  PROVE  SInv'
<1>1. /\ phase = "pass" /\ phase' = "run" /\ reports' = reports \cup BeyondReports
      /\ UNCHANGED <<nodes, conf, generated, unread, mem, ran>>
  BY DEF Conclude
<1>2. mem = Boot /\ ran = {}
  BY <1>1 DEF SInv, Waiting
<1>3. ReportsOf("nomonkeypatch")' = ReportsOf("nomonkeypatch")
  <2>1. \A r \in BeyondReports : r.rule = "noreflect"
    BY DEF BeyondReports
  <2> QED
    BY <1>1, <2>1 DEF ReportsOf
<1>4. Patched'
  BY <1>1, <1>3, SamePatched DEF SInv
<1>5. Held'
  <2> SUFFICES ASSUME NEW held \in SUBSET Heads, Owned(conf, held) PROVE Kept(held, mem)
    BY <1>1 DEF Held
  <2> QED
    BY <1>2, BootKept
<1> QED
  BY <1>1, <1>2, <1>4, <1>5 DEF SInv, Waiting, Tested

(* A statement runs: it keeps what production has, or it is one of those   *)
(* that the property excepts.                                              *)
LEMMA ExecuteSInv ==
  ASSUME IInv, SInv, NEW i \in DOMAIN nodes, Execute(i)
  PROVE  SInv'
<1>1. /\ phase = "run" /\ phase' = "run" /\ nodes[i].kind = "assign" /\ Judged(nodes[i].file)
      /\ mem' = Stored(mem, nodes[i]) /\ ran' = ran \cup {i}
      /\ UNCHANGED <<nodes, conf, generated, unread, reports>>
  BY DEF Execute
<1>2. /\ At("assign")' = At("assign") /\ \A f : Judged(f)' <=> Judged(f)
  BY <1>1, Unmoved
<1>3. /\ \A n : Harmless(n)' <=> Harmless(n)
      /\ \A held : Owned(conf, held)' <=> Owned(conf, held)
  BY <1>1, PatchUnmoved
<1>4. Patched'
  <2>1. ReportsOf("nomonkeypatch")' = ReportsOf("nomonkeypatch")
    BY <1>1 DEF ReportsOf
  <2> QED
    BY <1>1, <2>1, SamePatched DEF SInv
<1>5. Tested'
  BY <1>1, <1>2 DEF SInv, Tested, At
<1>6. Held'
  <2> SUFFICES ASSUME NEW held \in SUBSET Heads, Owned(conf, held), \A j \in ran' : Harmless(nodes[j])'
               PROVE  Kept(held, mem')
    BY <1>1, <1>3 DEF Held
  <2>1. \A j \in ran \cup {i} : Harmless(nodes[j])
    BY <1>1, <1>3
  <2>2. Kept(held, mem)
    BY <1>1, <2>1 DEF SInv, Held
  <2>3. nodes[i] \in Assigns
    BY <1>1, NodesTyped DEF IInv, Assigns
  <2>4. Harmless(nodes[i])
    BY <2>1
  <2> QED
    BY <1>1, <2>2, <2>3, <2>4, StoreKept
<1> QED
  BY <1>1, <1>4, <1>5, <1>6 DEF SInv, Waiting

LEMMA Seamless == Spec => []SInv
<1>1. ASSUME IInv, SInv, [Next]_vars PROVE SInv'
  <2>1. CASE \E n \in Nodes : Write(n)
    BY <1>1, <2>1, WriteSInv
  <2>2. CASE \E c \in Confs, g \in SUBSET File : StartPass(c, g)
    BY <1>1, <2>2, StartPassSInv
  <2>3. CASE \E i \in DOMAIN nodes : ReadUse(i) \/ ReadCheck(i) \/ \E k \in Visits(i) : ReadCall(i, k)
    BY <1>1, <2>3, ReadOtherSInv
  <2>4. CASE \E i \in DOMAIN nodes : ReadAssign(i)
    BY <1>1, <2>4, ReadAssignSInv
  <2>5. CASE Conclude
    BY <1>1, <2>5, ConcludeSInv
  <2>6. CASE \E i \in DOMAIN nodes : Execute(i)
    BY <1>1, <2>6, ExecuteSInv
  <2>7. CASE UNCHANGED vars
    <3>1. UNCHANGED <<phase, nodes, conf, generated, mem, ran>> /\ unread' = unread /\ reports' = reports
      BY <2>7 DEF vars
    <3>2. Waiting' /\ Tested' /\ Held'
      BY <1>1, <3>1, SameMemory DEF SInv
    <3>3. Patched'
      <4>1. CASE phase = "write"
        BY <3>1, <4>1 DEF Patched
      <4>2. CASE phase # "write"
        BY <1>1, <3>1, <4>2, SamePatched DEF SInv, ReportsOf
      <4> QED
        BY <4>1, <4>2
    <3> QED
      BY <3>2, <3>3 DEF SInv
  <2> QED
    BY <1>1, <2>1, <2>2, <2>3, <2>4, <2>5, <2>6, <2>7 DEF Next
<1> QED
  BY <1>1, InitSInv, Inductive, PTL DEF Spec

(* "A test must not rewire production code through a mutable global": in   *)
(* every order of the statements, and for any memory, what production      *)
(* reads changes only by a statement that G08 reports or one that hands a  *)
(* container over, and each statement that is reported does change it.     *)
THEOREM SeamsProtected == Spec => []SeamsKept
<1>1. IInv /\ SInv => SeamsKept
  <2> SUFFICES ASSUME IInv, SInv, phase = "run"
               PROVE  LET patches == {r.at[1] : r \in {q \in reports : q.rule = "nomonkeypatch"}} IN
                      /\ Observed(mem) # Observed(Boot) =>
                           \E i \in ran : i \in patches \/ HandsOver(nodes[i])
                      /\ \A i \in patches : Observed(Stored(Boot, nodes[i])) # Observed(Boot)
    BY DEF SeamsKept
  <2>1. Reported = {r.at[1] : r \in {q \in reports : q.rule = "nomonkeypatch"}}
    BY DEF Reported, ReportsOf
  <2>2. \A i \in At("assign") : i \in Reported <=> Judged(nodes[i].file) /\ Patches(nodes[i])
    BY DEF IInv, Finished, SInv, Patched
  <2>3. ASSUME NEW i \in Reported PROVE i \in At("assign")
    <3>1. PICK r \in reports : r.rule = "nomonkeypatch" /\ r.at[1] = i
      BY DEF Reported, ReportsOf
    <3>2. i \in DOMAIN nodes /\ Rule(nodes[i].kind) = "nomonkeypatch"
      BY <3>1 DEF IInv, Placed
    <3>3. nodes[i].kind \in {"import", "use", "assign", "check", "calls"}
      BY <3>2, NodesTyped DEF IInv
    <3> QED
      BY <3>2, <3>3 DEF Rule, At
  <2>4. PICK held \in SUBSET Heads : Owned(conf, held)
    BY OwnedAssumption DEF IInv, Typed
  <2>5. ASSUME Observed(mem) # Observed(Boot)
        PROVE  \E i \in ran : i \in Reported \/ HandsOver(nodes[i])
    <3>1. ~Kept(held, mem)
      BY <2>4, <2>5, ObservedKept
    <3>2. PICK i \in ran : ~Harmless(nodes[i])
      BY <2>4, <3>1 DEF SInv, Held
    <3>3. i \in At("assign") /\ Judged(nodes[i].file)
      BY DEF SInv, Tested
    <3> QED
      BY <2>2, <3>2, <3>3 DEF Harmless
  <2>6. ASSUME NEW i \in Reported PROVE Observed(Stored(Boot, nodes[i])) # Observed(Boot)
    <3>1. i \in At("assign") /\ Patches(nodes[i])
      BY <2>2, <2>3
    <3>2. nodes[i] \in Assigns
      BY <3>1, NodesTyped DEF IInv, At, Assigns
    <3> QED
      BY <2>4, <3>1, <3>2, PatchSeen
  <2> QED
    BY <2>1, <2>5, <2>6
<1> QED
  BY <1>1, Inductive, Seamless, PTL
================================================================================
