---------------------------- MODULE PathMatchProofs ----------------------------
(***************************************************************************)
(* Proofs about the package path patterns: for every pattern and every     *)
(* path, of any length, the code matches what the document says that the   *)
(* pattern names.                                                          *)
(***************************************************************************)
EXTENDS PathMatch, SequenceTheorems, WellFoundedInduction, TLAPS

Pattern == Seq(Char \cup {Star, Dots})
--------------------------------------------------------------------------------
(* Induction over the numbers, for a set instead of a property.            *)
LEMMA LeastNumber ==
  ASSUME NEW S, S \subseteq Nat, S # {}
  PROVE  \E m \in S : \A n \in S : m <= n
<1> DEFINE R == OpToRel(<, Nat)
<1>1. IsWellFoundedOn(R, Nat)
  BY NatLessThanWellFounded
<1> HIDE DEF R
<1>2. PICK m \in S : \A n \in S : <<n, m>> \notin R
  BY <1>1, WFMin
<1>3. \A n \in S : ~(n < m)
  BY <1>2 DEF R, OpToRel
<1> QED
  BY <1>2, <1>3

LEMMA SetInduction ==
  ASSUME NEW S, S \subseteq Nat, 0 \in S, \A n \in S : n + 1 \in S
  PROVE  \A n \in Nat : n \in S
<1> SUFFICES ASSUME NEW n \in Nat, n \notin S PROVE FALSE
  OBVIOUS
<1>1. PICK m \in Nat \ S : \A k \in Nat \ S : m <= k
  <2>1. Nat \ S \subseteq Nat /\ Nat \ S # {}
    OBVIOUS
  <2> QED
    BY <2>1, LeastNumber
<1>2. m # 0 /\ m - 1 \in Nat
  BY <1>1
<1>3. m - 1 \in S
  BY <1>1, <1>2
<1> QED
  BY <1>1, <1>3

--------------------------------------------------------------------------------
(* The expression of a pattern.                                            *)

(* Where one more element ends after the places K.                         *)
After(K, element, path) == {j \in 0..Len(path) : \E k \in K : Takes(element, path, k, j)}

(* The places where a match of the first i elements ends, for i up to n.   *)
IsEnds(ends, pattern, path, n) ==
  ends = [i \in 0..n |-> IF i = 0 THEN {0} ELSE After(ends[i - 1], pattern[i], path)]

LEMMA EndsExist ==
  ASSUME NEW pattern, NEW path, NEW n \in Nat
  PROVE  \E ends : IsEnds(ends, pattern, path, n)
<1> DEFINE S == {m \in Nat : \E ends : IsEnds(ends, pattern, path, m)}
<1>1. 0 \in S
  <2> DEFINE g == [i \in 0..0 |-> {0}]
  <2>1. IsEnds(g, pattern, path, 0)
    BY DEF IsEnds
  <2> QED
    BY <2>1
<1>2. ASSUME NEW m \in S PROVE m + 1 \in S
  <2>1. PICK g : IsEnds(g, pattern, path, m)
    BY <1>2
  <2> DEFINE h == [i \in 0..(m + 1) |->
                     IF i = 0 THEN {0} ELSE After(g[i - 1], pattern[i], path)]
  <2>0. m \in Nat
    BY <1>2
  <2> HIDE DEF S
  <2>2. ASSUME NEW i \in 0..m PROVE h[i] = g[i]
    <3>1. g[i] = IF i = 0 THEN {0} ELSE After(g[i - 1], pattern[i], path)
      BY <2>1 DEF IsEnds
    <3>2. i \in 0..(m + 1)
      BY <2>0
    <3> QED
      BY <3>1, <3>2
  <2>3. ASSUME NEW i \in 0..(m + 1), i # 0 PROVE h[i - 1] = g[i - 1]
    <3>1. i - 1 \in 0..m
      BY <2>0, <2>3
    <3> HIDE DEF h
    <3> QED
      BY <2>2, <3>1
  <2>4. IsEnds(h, pattern, path, m + 1)
    BY <2>3 DEF IsEnds
  <2> HIDE DEF h
  <2> QED
    BY <2>0, <2>4 DEF S
<1> HIDE DEF S
<1>3. n \in S
  <2>1. S \subseteq Nat
    BY DEF S
  <2> QED
    BY <1>1, <1>2, <2>1, SetInduction
<1> QED
  BY <1>3 DEF S

LEMMA MatchStringEnds ==
  ASSUME NEW pattern, NEW path, Len(pattern) \in Nat
  PROVE  \E ends : /\ IsEnds(ends, pattern, path, Len(pattern))
                   /\ MatchString(pattern, path) <=> Len(path) \in ends[Len(pattern)]
<1> DEFINE G == CHOOSE g : IsEnds(g, pattern, path, Len(pattern))
<1>1. IsEnds(G, pattern, path, Len(pattern))
  BY EndsExist
<1>2. MatchString(pattern, path) <=> Len(path) \in G[Len(pattern)]
  BY DEF MatchString, IsEnds, After
<1> HIDE DEF G
<1> QED
  BY <1>1, <1>2

(* What the expression of an element takes is a run of characters that the *)
(* element stands for.                                                     *)
LEMMA TakesStands ==
  ASSUME NEW element \in Char \cup {Star, Dots}, NEW path \in Seq(Char),
         NEW k \in 0..Len(path), NEW j \in 0..Len(path)
  PROVE  Takes(element, path, k, j) <=> k <= j /\ Stands(element, SubSeq(path, k + 1, j))
<1> DEFINE run == SubSeq(path, k + 1, j)
<1>1. Len(path) \in Nat /\ \A i \in (k + 1)..j : path[i] \in Char
  BY ElementOfSeq
<1>2. /\ run \in Seq(Char)
      /\ Len(run) = IF k + 1 <= j THEN j - k ELSE 0
      /\ DOMAIN run = 1..Len(run)
      /\ \A i \in 1..(j - k) : run[i] = path[k + i]
  <2>1. /\ run \in Seq(Char)
        /\ Len(run) = IF k + 1 <= j THEN j - (k + 1) + 1 ELSE 0
        /\ \A i \in 1..(j - (k + 1) + 1) : run[i] = path[(k + 1) + i - 1]
    BY <1>1, SubSeqProperties
  <2> QED
    BY <1>1, <2>1, LenProperties
<1> HIDE DEF run
<1>3. CASE element \in Char
  <2>1. Takes(element, path, k, j) <=> j = k + 1 /\ path[j] = element
    BY <1>3 DEF Takes
  <2>2. Stands(element, run) <=> run = <<element>>
    BY <1>3, CharAssumption DEF Stands
  <2>3. ASSUME run = <<element>> PROVE j = k + 1 /\ path[j] = element
    BY <1>1, <1>2, <2>3
  <2>4. ASSUME j = k + 1, path[j] = element PROVE run = <<element>>
    <3>1. Len(run) = 1 /\ run[1] = element
      BY <1>1, <1>2, <2>4
    <3>2. <<element>> \in Seq(Char) /\ Len(<<element>>) = 1 /\ <<element>>[1] = element
      BY <1>3
    <3>3. \A i \in 1..Len(run) : run[i] = <<element>>[i]
      BY <3>1, <3>2
    <3> QED
      BY <1>2, <3>1, <3>2, <3>3, SeqEqual
  <2> QED
    BY <1>1, <2>1, <2>2, <2>3, <2>4 DEF run
<1>4. CASE element = Star
  <2>1. Takes(element, path, k, j) <=> k <= j /\ \A m \in (k + 1)..j : path[m] # Slash
    BY <1>4, CharAssumption DEF Takes, Crosses
  <2>2. Stands(element, run) <=> \A i \in DOMAIN run : run[i] # Slash
    BY <1>4, CharAssumption DEF Stands
  <2>3. ASSUME k <= j
        PROVE (\A m \in (k + 1)..j : path[m] # Slash) <=> \A i \in DOMAIN run : run[i] # Slash
    <3>1. DOMAIN run = 1..(j - k)
      BY <1>1, <1>2, <2>3
    <3>2. ASSUME \A m \in (k + 1)..j : path[m] # Slash, NEW i \in 1..(j - k)
          PROVE  run[i] # Slash
      BY <1>1, <1>2, <3>2
    <3>3. ASSUME \A i \in 1..(j - k) : run[i] # Slash, NEW m \in (k + 1)..j
          PROVE  path[m] # Slash
      <4>1. m - k \in 1..(j - k) /\ k + (m - k) = m
        BY <1>1
      <4> QED
        BY <1>2, <3>3, <4>1
    <3> QED
      BY <3>1, <3>2, <3>3
  <2> QED
    BY <2>1, <2>2, <2>3 DEF run
<1>5. CASE element = Dots
  BY <1>5, CharAssumption DEF Takes, Crosses, Stands
<1> QED
  BY <1>3, <1>4, <1>5

(* The first i elements of the pattern divide the first j characters of    *)
(* the path.                                                               *)
Cut(cuts, pattern, path, i, j) ==
  /\ cuts \in [0..i -> 0..Len(path)]
  /\ cuts[0] = 0 /\ cuts[i] = j
  /\ \A h \in 1..i : cuts[h - 1] <= cuts[h] /\ Stands(pattern[h], SubSeq(path, cuts[h - 1] + 1, cuts[h]))

LEMMA EndsCut ==
  ASSUME NEW pattern \in Pattern, NEW path \in Seq(Char),
         NEW ends, IsEnds(ends, pattern, path, Len(pattern))
  PROVE  \A i \in 0..Len(pattern) :
           ends[i] = {j \in 0..Len(path) : \E cuts : Cut(cuts, pattern, path, i, j)}
<1> DEFINE Told(i) == ends[i] = {j \in 0..Len(path) : \E cuts : Cut(cuts, pattern, path, i, j)}
           S == {i \in Nat : i <= Len(pattern) => Told(i)}
<1>0. Len(pattern) \in Nat /\ Len(path) \in Nat
  BY DEF Pattern
<1>1. 0 \in S
  <2>1. ends[0] = {0}
    BY <1>0 DEF IsEnds
  <2>2. ASSUME NEW j \in 0..Len(path), NEW cuts, Cut(cuts, pattern, path, 0, j)
        PROVE  j = 0
    BY <2>2 DEF Cut
  <2>3. Cut([h \in 0..0 |-> 0], pattern, path, 0, 0)
    BY <1>0 DEF Cut
  <2>4. Told(0)
    BY <1>0, <2>1, <2>2, <2>3
  <2> QED
    BY <2>4
<1>2. ASSUME NEW i \in S PROVE i + 1 \in S
  <2> SUFFICES ASSUME i + 1 <= Len(pattern) PROVE Told(i + 1)
    OBVIOUS
  <2>1. i \in Nat /\ Told(i) /\ i + 1 \in 1..Len(pattern)
    BY <1>0, <1>2
  <2>2. pattern[i + 1] \in Char \cup {Star, Dots}
    BY <2>1, ElementOfSeq DEF Pattern
  <2>3. ends[i + 1] = {j \in 0..Len(path) : \E k \in ends[i] : Takes(pattern[i + 1], path, k, j)}
    <3>1. (i + 1) - 1 = i /\ i + 1 \in 0..Len(pattern) /\ i + 1 # 0
      BY <1>0, <2>1
    <3>2. ends[i + 1] = After(ends[i], pattern[i + 1], path)
      BY <3>1 DEF IsEnds
    <3> QED
      BY <3>2 DEF After
  <2>4. \A k, j \in 0..Len(path) :
          Takes(pattern[i + 1], path, k, j)
            <=> k <= j /\ Stands(pattern[i + 1], SubSeq(path, k + 1, j))
    BY <2>2, TakesStands
  <2>5. ASSUME NEW j \in 0..Len(path), NEW k \in ends[i], Takes(pattern[i + 1], path, k, j)
        PROVE  \E cuts : Cut(cuts, pattern, path, i + 1, j)
    <3>1. k \in 0..Len(path) /\ k <= j /\ Stands(pattern[i + 1], SubSeq(path, k + 1, j))
      BY <2>1, <2>4, <2>5
    <3>2. PICK cuts : Cut(cuts, pattern, path, i, k)
      BY <2>1, <2>5
    <3> DEFINE more == [h \in 0..(i + 1) |-> IF h = i + 1 THEN j ELSE cuts[h]]
    <3>3. /\ more \in [0..(i + 1) -> 0..Len(path)]
          /\ more[i + 1] = j /\ more[i] = k /\ more[0] = 0
          /\ \A h \in 0..i : more[h] = cuts[h]
      BY <2>1, <3>2 DEF Cut
    <3> HIDE DEF more
    <3>4. ASSUME NEW h \in 1..(i + 1)
          PROVE  more[h - 1] <= more[h] /\ Stands(pattern[h], SubSeq(path, more[h - 1] + 1, more[h]))
      <4>1. CASE h = i + 1
        <5>1. h - 1 = i
          BY <2>1, <4>1
        <5> QED
          BY <3>1, <3>3, <4>1, <5>1
      <4>2. CASE h \in 1..i
        <5>1. h - 1 \in 0..i /\ h \in 0..i
          BY <2>1, <4>2
        <5> QED
          BY <3>2, <3>3, <4>2, <5>1 DEF Cut
      <4> QED
        BY <2>1, <4>1, <4>2
    <3>5. Cut(more, pattern, path, i + 1, j)
      BY <3>3, <3>4 DEF Cut
    <3> QED
      BY <3>5
  <2>6. ASSUME NEW j \in 0..Len(path), NEW cuts, Cut(cuts, pattern, path, i + 1, j)
        PROVE  \E k \in ends[i] : Takes(pattern[i + 1], path, k, j)
    <3> DEFINE less == [h \in 0..i |-> cuts[h]]
               k == cuts[i]
    <3>1. k \in 0..Len(path) /\ k <= j /\ Stands(pattern[i + 1], SubSeq(path, k + 1, j))
      <4>1. (i + 1) - 1 = i /\ i \in 0..(i + 1) /\ i + 1 \in 1..(i + 1)
        BY <2>1
      <4> QED
        BY <2>6, <4>1 DEF Cut
    <3>2. Cut(less, pattern, path, i, k)
      <4>1. less \in [0..i -> 0..Len(path)] /\ less[0] = 0 /\ less[i] = k
        BY <2>1, <2>6 DEF Cut
      <4>2. ASSUME NEW h \in 1..i
            PROVE  less[h - 1] = cuts[h - 1] /\ less[h] = cuts[h] /\ h \in 1..(i + 1)
        BY <2>1
      <4> HIDE DEF less
      <4> QED
        BY <2>6, <4>1, <4>2 DEF Cut
    <3> HIDE DEF k, less
    <3>3. k \in ends[i]
      BY <2>1, <3>1, <3>2
    <3> QED
      BY <2>4, <3>1, <3>3
  <2> QED
    BY <2>3, <2>5, <2>6
<1>3. S \subseteq Nat
  OBVIOUS
<1>4. \A i \in Nat : i \in S
  <2> HIDE DEF S
  <2> QED
    BY <1>1, <1>2, <1>3, SetInduction
<1> QED
  BY <1>0, <1>4

(* The anchored expression matches what the elements of the pattern, one   *)
(* after another, stand for.                                               *)
LEMMA MatchStringWhole ==
  ASSUME NEW pattern \in Pattern, NEW path \in Seq(Char)
  PROVE  MatchString(pattern, path) <=> Whole(pattern, path)
<1>0. Len(pattern) \in Nat /\ Len(path) \in Nat
  BY DEF Pattern
<1>1. PICK ends : /\ IsEnds(ends, pattern, path, Len(pattern))
                  /\ MatchString(pattern, path) <=> Len(path) \in ends[Len(pattern)]
  BY <1>0, MatchStringEnds
<1>2. Len(path) \in ends[Len(pattern)]
        <=> \E cuts : Cut(cuts, pattern, path, Len(pattern), Len(path))
  BY <1>0, <1>1, EndsCut
<1> QED
  BY <1>1, <1>2 DEF Whole, Cut

--------------------------------------------------------------------------------
(* The package above a subtree, and the package above that.                *)

(* One step of the test of a pattern: its expression, or the pattern above *)
(* the suffix, which `up` says.                                            *)
Tries(up, pattern, path, n) ==
  LET above == [m \in 0..Len(pattern) |-> SubSeq(pattern, 1, m)] IN
  \/ n > 1 /\ above[n][n - 1] = Slash /\ above[n][n] = Dots /\ up
  \/ MatchString(above[n], path)

IsTry(try, pattern, path, N) ==
  try = [n \in 0..N |-> Tries(try[n - 2], pattern, path, n)]

LEMMA TryExists ==
  ASSUME NEW pattern, NEW path, NEW N \in Nat
  PROVE  \E try : IsTry(try, pattern, path, N)
<1> DEFINE S == {m \in Nat : \E try : IsTry(try, pattern, path, m)}
<1>1. 0 \in S
  <2> DEFINE g == [n \in 0..0 |-> Tries(FALSE, pattern, path, n)]
  <2>1. ASSUME NEW n \in 0..0
        PROVE  Tries(FALSE, pattern, path, n) = Tries(g[n - 2], pattern, path, n)
    <3>1. ~(n > 1)
      OBVIOUS
    <3> HIDE DEF g
    <3> QED
      BY <3>1 DEF Tries
  <2>2. IsTry(g, pattern, path, 0)
    BY <2>1 DEF IsTry
  <2> HIDE DEF g
  <2> QED
    BY <2>2
<1>2. ASSUME NEW m \in S PROVE m + 1 \in S
  <2>1. PICK g : IsTry(g, pattern, path, m)
    BY <1>2
  <2>2. m \in Nat
    BY <1>2
  <2> HIDE DEF S
  <2> DEFINE h == [n \in 0..(m + 1) |-> Tries(g[n - 2], pattern, path, n)]
  <2>3. ASSUME NEW n \in 0..m PROVE h[n] = g[n]
    <3>1. g[n] = Tries(g[n - 2], pattern, path, n)
      BY <2>1 DEF IsTry
    <3>2. n \in 0..(m + 1)
      BY <2>2
    <3> QED
      BY <3>1, <3>2
  <2>4. ASSUME NEW n \in 0..(m + 1)
        PROVE  Tries(g[n - 2], pattern, path, n) = Tries(h[n - 2], pattern, path, n)
    <3>1. CASE n > 1
      <4>1. n - 2 \in 0..m
        BY <2>2, <3>1
      <4> HIDE DEF h
      <4> QED
        BY <2>3, <4>1
    <3>2. CASE ~(n > 1)
      <4> HIDE DEF h
      <4> QED
        BY <3>2 DEF Tries
    <3> QED
      BY <3>1, <3>2
  <2>5. IsTry(h, pattern, path, m + 1)
    BY <2>4 DEF IsTry
  <2> HIDE DEF h
  <2> QED
    BY <2>2, <2>5 DEF S
<1> HIDE DEF S
<1>3. N \in S
  <2>1. S \subseteq Nat
    BY DEF S
  <2> QED
    BY <1>1, <1>2, <2>1, SetInduction
<1> QED
  BY <1>3 DEF S

LEMMA MatchTry ==
  ASSUME NEW pattern, NEW path, Len(pattern) \in Nat
  PROVE  \E try : /\ IsTry(try, pattern, path, Len(pattern))
                  /\ Match(pattern, path) = try[Len(pattern)]
<1> DEFINE G == CHOOSE g : IsTry(g, pattern, path, Len(pattern))
<1>1. IsTry(G, pattern, path, Len(pattern))
  BY TryExists
<1>2. Match(pattern, path) = G[Len(pattern)]
  BY DEF Match, IsTry, Tries
<1> HIDE DEF G
<1> QED
  BY <1>1, <1>2

(* Nothing but suffixes /... stands between m and n.                       *)
Peels(pattern, m, n) ==
  \E k \in 0..Len(pattern) :
    /\ n = m + 2 * k
    /\ \A i \in 1..k : pattern[m + 2 * i - 1] = Slash /\ pattern[m + 2 * i] = Dots

LEMMA PeelsStep ==
  ASSUME NEW pattern, Len(pattern) \in Nat,
         NEW n \in 0..Len(pattern), NEW m \in 0..n
  PROVE  Peels(pattern, m, n) <=>
           \/ m = n
           \/ /\ n > 1 /\ m <= n - 2 /\ pattern[n - 1] = Slash /\ pattern[n] = Dots
              /\ Peels(pattern, m, n - 2)
<1>0. m \in Nat /\ n \in Nat /\ n <= Len(pattern)
  OBVIOUS
<1>1. ASSUME Peels(pattern, m, n), m # n
      PROVE  /\ n > 1 /\ m <= n - 2 /\ pattern[n - 1] = Slash /\ pattern[n] = Dots
             /\ Peels(pattern, m, n - 2)
  <2>1. PICK k \in 0..Len(pattern) :
          /\ n = m + 2 * k
          /\ \A i \in 1..k : pattern[m + 2 * i - 1] = Slash /\ pattern[m + 2 * i] = Dots
    BY <1>1 DEF Peels
  <2>2. /\ k >= 1 /\ k \in 1..k /\ k - 1 \in 0..Len(pattern)
        /\ m + 2 * k = n /\ m + 2 * k - 1 = n - 1 /\ n - 2 = m + 2 * (k - 1)
        /\ \A i \in 1..(k - 1) : i \in 1..k
    BY <1>0, <1>1, <2>1
  <2>3. Peels(pattern, m, n - 2)
    BY <2>1, <2>2 DEF Peels
  <2> QED
    BY <1>0, <2>1, <2>2, <2>3
<1>2. ASSUME m = n
      PROVE  Peels(pattern, m, n)
  <2>1. n = m + 2 * 0 /\ 0 \in 0..Len(pattern) /\ 1..0 = {}
    BY <1>0, <1>2
  <2> QED
    BY <2>1 DEF Peels
<1>3. ASSUME n > 1, m <= n - 2, pattern[n - 1] = Slash, pattern[n] = Dots,
             Peels(pattern, m, n - 2)
      PROVE  Peels(pattern, m, n)
  <2>1. PICK k \in 0..Len(pattern) :
          /\ n - 2 = m + 2 * k
          /\ \A i \in 1..k : pattern[m + 2 * i - 1] = Slash /\ pattern[m + 2 * i] = Dots
    BY <1>3 DEF Peels
  <2>2. /\ k + 1 \in 0..Len(pattern) /\ n = m + 2 * (k + 1)
        /\ m + 2 * (k + 1) - 1 = n - 1
        /\ \A i \in 1..(k + 1) : i = k + 1 \/ i \in 1..k
    BY <1>0, <2>1
  <2>3. \A i \in 1..(k + 1) : pattern[m + 2 * i - 1] = Slash /\ pattern[m + 2 * i] = Dots
    <3> TAKE i \in 1..(k + 1)
    <3>1. CASE i = k + 1
      BY <1>3, <2>2, <3>1
    <3>2. CASE i \in 1..k
      BY <2>1, <3>2
    <3> QED
      BY <2>2, <3>1, <3>2
  <2> QED
    BY <2>2, <2>3 DEF Peels
<1> QED
  BY <1>1, <1>2, <1>3

(* A pattern matches when its expression does, or that of what is left     *)
(* when suffixes /... are taken off.                                       *)
LEMMA TryNames ==
  ASSUME NEW pattern \in Pattern, NEW path \in Seq(Char),
         NEW try, IsTry(try, pattern, path, Len(pattern))
  PROVE  \A n \in 0..Len(pattern) :
           try[n] <=> \E m \in 0..n : /\ Whole(SubSeq(pattern, 1, m), path)
                                     /\ Peels(pattern, m, n)
<1> DEFINE W(m) == Whole(SubSeq(pattern, 1, m), path)
           Told(n) == try[n] <=> \E m \in 0..n : W(m) /\ Peels(pattern, m, n)
           Wrong == {n \in 0..Len(pattern) : ~Told(n)}
<1>0. Len(pattern) \in Nat
  BY DEF Pattern
<1>1. ASSUME NEW n \in 0..Len(pattern)
      PROVE  try[n] <=> \/ n > 1 /\ pattern[n - 1] = Slash /\ pattern[n] = Dots /\ try[n - 2]
                        \/ W(n)
  <2> DEFINE a == SubSeq(pattern, 1, n)
  <2>1. try[n] = Tries(try[n - 2], pattern, path, n)
    BY DEF IsTry
  <2>2. a \in Pattern /\ Len(a) = n /\ \A i \in 1..n : a[i] = pattern[i]
    <3>1. \A i \in 1..n : pattern[i] \in Char \cup {Star, Dots}
      BY <1>0, ElementOfSeq DEF Pattern
    <3>2. /\ a \in Seq(Char \cup {Star, Dots})
          /\ Len(a) = IF 1 <= n THEN n - 1 + 1 ELSE 0
          /\ \A i \in 1..(n - 1 + 1) : a[i] = pattern[1 + i - 1]
      BY <1>0, <3>1, SubSeqProperties
    <3> HIDE DEF a
    <3> QED
      BY <1>0, <3>2 DEF Pattern
  <2>3. MatchString(a, path) <=> W(n)
    BY <2>2, MatchStringWhole
  <2>4. n > 1 => a[n - 1] = pattern[n - 1] /\ a[n] = pattern[n]
    BY <1>0, <2>2
  <2> HIDE DEF W
  <2> QED
    BY <2>1, <2>3, <2>4 DEF Tries
<1>2. Wrong = {}
  <2> SUFFICES ASSUME Wrong # {} PROVE FALSE
    OBVIOUS
  <2>1. PICK n \in Wrong : \A l \in Wrong : n <= l
    <3>1. Wrong \subseteq Nat
      BY <1>0
    <3> HIDE DEF Wrong
    <3> QED
      BY <3>1, LeastNumber
  <2>2. n \in 0..Len(pattern) /\ ~Told(n)
    BY <2>1
  <2> HIDE DEF W
  <2>3. n > 1 => Told(n - 2)
    <3> SUFFICES ASSUME n > 1 PROVE Told(n - 2)
      OBVIOUS
    <3>1. n - 2 \in 0..Len(pattern) /\ ~(n <= n - 2)
      BY <1>0, <2>2
    <3>2. n - 2 \notin Wrong
      <4> HIDE DEF Wrong
      <4> QED
        BY <2>1, <3>1
    <3> QED
      BY <3>1, <3>2
  <2>4. \A m \in 0..n : Peels(pattern, m, n) <=>
           \/ m = n
           \/ /\ n > 1 /\ m <= n - 2 /\ pattern[n - 1] = Slash /\ pattern[n] = Dots
              /\ Peels(pattern, m, n - 2)
    BY <1>0, <2>2, PeelsStep
  <2>5. \A m \in 0..n : n > 1 => (m <= n - 2 <=> m \in 0..(n - 2))
    BY <1>0, <2>2
  <2>6. n \in 0..n /\ (n > 1 => \A m \in 0..(n - 2) : m \in 0..n)
    BY <1>0, <2>2
  <2>7. Told(n)
    BY <1>1, <2>2, <2>3, <2>4, <2>5, <2>6
  <2> QED
    BY <2>2, <2>7
<1> QED
  BY <1>2

(* For every pattern and every path, Match finds what docs/spec/           *)
(* 003-implementation.md says that a pattern names.                        *)
THEOREM MatchNames ==
  ASSUME NEW pattern \in Pattern, NEW path \in Seq(Char)
  PROVE  Match(pattern, path) <=> Names(pattern, path)
<1>0. Len(pattern) \in Nat
  BY DEF Pattern
<1>1. PICK try : /\ IsTry(try, pattern, path, Len(pattern))
                 /\ Match(pattern, path) = try[Len(pattern)]
  BY <1>0, MatchTry
<1>2. try[Len(pattern)] <=>
        \E m \in 0..Len(pattern) : /\ Whole(SubSeq(pattern, 1, m), path)
                                   /\ Peels(pattern, m, Len(pattern))
  BY <1>0, <1>1, TryNames
<1> QED
  BY <1>1, <1>2 DEF Names, Peels

(* The test-packages setting covers a package and its external test        *)
(* package, whatever the patterns are.                                     *)
THEOREM TestPackages ==
  ASSUME NEW patterns \in Seq(Pattern), NEW path \in Seq(Char)
  PROVE  IsTestPackage(patterns, path) <=> ServesTests(patterns, path)
<1> DEFINE Production(p) ==
             /\ p \in {SubSeq(path, 1, n) : n \in 0..Len(path)}
             /\ path = p \o <<Test>> \/ (path = p /\ (path = <<>> \/ Last(path) # Test))
<1>0. Len(path) \in Nat /\ \A n \in 1..Len(path) : path[n] \in Char
  BY ElementOfSeq
<1>1. Trimmed(path) \in Seq(Char) /\ Production(Trimmed(path))
  <2>1. CASE path # <<>> /\ Last(path) = Test
    <3>1. Len(path) >= 1 /\ path[Len(path)] = Test
      BY <1>0, <2>1, EmptySeq DEF Last
    <3>2. Trimmed(path) = SubSeq(path, 1, Len(path) - 1)
      BY <2>1 DEF Trimmed, Front
    <3>3. SubSeq(path, 1, Len(path) - 1) \in Seq(Char)
      BY <1>0, SubSeqProperties
    <3>4. path = SubSeq(path, 1, Len(path) - 1) \o <<path[Len(path)]>>
      <4>1. 1 \in 1..Len(path) /\ Len(path) \in 1..Len(path)
        BY <1>0, <3>1
      <4> QED
        BY <4>1, SubSeqRecursiveSecond, SubSeqFull
    <3>5. Len(path) - 1 \in 0..Len(path)
      BY <1>0, <3>1
    <3> QED
      BY <3>1, <3>2, <3>3, <3>4, <3>5
  <2>2. CASE ~(path # <<>> /\ Last(path) = Test)
    <3>1. Trimmed(path) = path
      BY <2>2 DEF Trimmed
    <3>2. path = SubSeq(path, 1, Len(path)) /\ Len(path) \in 0..Len(path)
      BY <1>0, SubSeqFull
    <3> QED
      BY <2>2, <3>1, <3>2
  <2> QED
    BY <2>1, <2>2
<1>2. ASSUME NEW p, Production(p)
      PROVE  p = Trimmed(path)
  <2>1. PICK n \in 0..Len(path) : p = SubSeq(path, 1, n)
    BY <1>2
  <2>2. p \in Seq(Char) /\ Len(p) = n
    BY <1>0, <2>1, SubSeqProperties
  <2>3. CASE path = p \o <<Test>>
    <3>1. Len(path) = n + 1 /\ path[n + 1] = Test
      <4>1. <<Test>> \in Seq(Char) /\ Len(<<Test>>) = 1 /\ <<Test>>[1] = Test
        BY CharAssumption
      <4>2. /\ Len(p \o <<Test>>) = Len(p) + 1
            /\ \A i \in 1..(Len(p) + 1) :
                 (p \o <<Test>>)[i] = IF i <= Len(p) THEN p[i] ELSE <<Test>>[i - Len(p)]
        BY <2>2, <4>1, ConcatProperties
      <4>3. n + 1 \in 1..(n + 1) /\ ~(n + 1 <= n) /\ (n + 1) - n = 1
        BY <1>0
      <4>4. (p \o <<Test>>)[n + 1] = <<Test>>[1]
        BY <2>2, <4>2, <4>3
      <4> QED
        BY <2>2, <2>3, <4>1, <4>2, <4>4
    <3>2. path # <<>> /\ Last(path) = Test /\ n = Len(path) - 1
      BY <1>0, <3>1 DEF Last
    <3> QED
      BY <2>1, <3>2 DEF Trimmed, Front
  <2>4. CASE path = p /\ (path = <<>> \/ Last(path) # Test)
    BY <2>4 DEF Trimmed
  <2> QED
    BY <1>2, <2>3, <2>4
<1>3. \A i \in DOMAIN patterns : Match(patterns[i], Trimmed(path)) <=> Names(patterns[i], Trimmed(path))
  <2>1. \A i \in DOMAIN patterns : patterns[i] \in Pattern
    BY ElementOfSeq, LenProperties
  <2> QED
    BY <1>1, <2>1, MatchNames
<1>4. ServesTests(patterns, path) <=>
        \E i \in DOMAIN patterns : \E p : Production(p) /\ Names(patterns[i], p)
  BY DEF ServesTests
<1> HIDE DEF Production
<1> QED
  BY <1>1, <1>2, <1>3, <1>4 DEF IsTestPackage, MatchAny
================================================================================
