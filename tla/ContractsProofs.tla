---------------------------- MODULE ContractsProofs ----------------------------
(***************************************************************************)
(* Proofs about the rules that read a signature: what they report for any  *)
(* package, and what is left of the package after any of the edits that    *)
(* the reports ask for.                                                    *)
(***************************************************************************)
EXTENDS Contracts, SequenceTheorems, FiniteSetTheorems, FunctionTheorems, WellFoundedInduction, TLAPS

Types == Concrete \cup Interface
Field == [span : Nat \ {0}, type : Types]
Param == [names : Seq(STRING), type : Types, variadic : BOOLEAN]
--------------------------------------------------------------------------------
(* Induction over the numbers, for a set instead of a property.            *)
LEMMA SetInduction ==
  ASSUME NEW S, S \subseteq Nat, 0 \in S, \A n \in S : n + 1 \in S
  PROVE  \A n \in Nat : n \in S
<1> SUFFICES ASSUME NEW n \in Nat, n \notin S PROVE FALSE
  OBVIOUS
<1> DEFINE R == OpToRel(<, Nat)
<1>1. IsWellFoundedOn(R, Nat)
  BY NatLessThanWellFounded
<1> HIDE DEF R
<1>2. PICK m \in Nat \ S : \A k \in Nat \ S : <<k, m>> \notin R
  <2>1. Nat \ S \subseteq Nat /\ Nat \ S # {}
    OBVIOUS
  <2> QED
    BY <1>1, <2>1, WFMin
<1>3. \A k \in Nat \ S : ~(k < m)
  BY <1>2 DEF R, OpToRel
<1>4. m # 0 /\ m - 1 \in Nat
  BY <1>2
<1>5. m - 1 \in S
  BY <1>2, <1>3, <1>4
<1> QED
  BY <1>2, <1>4, <1>5
--------------------------------------------------------------------------------
(* FlattenSeq: the function that computes it, for the first n members.     *)
IsFlat(flat, s, n) ==
  flat = [i \in 1..n |-> IF i = 1 THEN s[i] ELSE flat[i - 1] \o s[i]]

LEMMA FlatExists ==
  ASSUME NEW s, NEW n \in Nat
  PROVE  \E flat : IsFlat(flat, s, n)
<1> DEFINE S == {m \in Nat : \E flat : IsFlat(flat, s, m)}
<1>1. 0 \in S
  <2> DEFINE g == [i \in 1..0 |-> s[i]]
  <2>1. IsFlat(g, s, 0)
    BY DEF IsFlat
  <2> QED
    BY <2>1
<1>2. ASSUME NEW m \in S PROVE m + 1 \in S
  <2>1. PICK g : IsFlat(g, s, m)
    BY <1>2
  <2>2. m \in Nat
    BY <1>2
  <2> DEFINE h == [i \in 1..(m + 1) |-> IF i = 1 THEN s[i] ELSE g[i - 1] \o s[i]]
  <2> HIDE DEF S
  <2>3. ASSUME NEW i \in 1..m PROVE h[i] = g[i]
    <3>1. g[i] = IF i = 1 THEN s[i] ELSE g[i - 1] \o s[i]
      BY <2>1 DEF IsFlat
    <3>2. i \in 1..(m + 1)
      BY <2>2
    <3> QED
      BY <3>1, <3>2
  <2>4. ASSUME NEW i \in 1..(m + 1), i # 1 PROVE h[i - 1] = g[i - 1]
    <3>1. i - 1 \in 1..m
      BY <2>2, <2>4
    <3> QED
      BY <3>1, <2>3
  <2>5. h = [i \in 1..(m + 1) |-> IF i = 1 THEN s[i] ELSE h[i - 1] \o s[i]]
    <3> HIDE DEF h
    <3>1. \A i \in 1..(m + 1) : i # 1 => g[i - 1] = h[i - 1]
      BY <2>4
    <3> QED
      BY <3>1 DEF h
  <2> HIDE DEF h
  <2>6. IsFlat(h, s, m + 1)
    BY <2>5 DEF IsFlat
  <2> QED
    BY <2>2, <2>6 DEF S
<1> HIDE DEF S
<1>3. \A m \in Nat : m \in S
  BY <1>1, <1>2, SetInduction DEF S
<1> QED
  BY <1>3 DEF S

(* Two such functions agree where their sequences do.                      *)
LEMMA FlatAgrees ==
  ASSUME NEW s, NEW t, NEW g, NEW h, NEW n \in Nat, NEW m \in Nat, n <= m,
         IsFlat(g, s, n), IsFlat(h, t, m), \A i \in 1..n : s[i] = t[i]
  PROVE  \A i \in 1..n : g[i] = h[i]
<1> DEFINE S == {i \in Nat : i \in 1..n => g[i] = h[i]}
<1>1. 0 \in S
  OBVIOUS
<1>2. ASSUME NEW i \in S PROVE i + 1 \in S
  <2> SUFFICES ASSUME i + 1 \in 1..n PROVE g[i + 1] = h[i + 1]
    BY <1>2
  <2>1. i \in Nat /\ i + 1 \in 1..m /\ (i + 1) - 1 = i
    BY <1>2
  <2>2. g[i + 1] = IF i + 1 = 1 THEN s[i + 1] ELSE g[i] \o s[i + 1]
    BY <2>1 DEF IsFlat
  <2>3. h[i + 1] = IF i + 1 = 1 THEN t[i + 1] ELSE h[i] \o t[i + 1]
    BY <2>1 DEF IsFlat
  <2>4. i + 1 # 1 => g[i] = h[i]
    BY <1>2, <2>1
  <2> QED
    BY <2>2, <2>3, <2>4
<1> HIDE DEF S
<1>3. \A i \in Nat : i \in S
  BY <1>1, <1>2, SetInduction DEF S
<1> QED
  BY <1>3 DEF S

LEMMA FlattenIs ==
  ASSUME NEW s, Len(s) \in Nat \ {0}
  PROVE  \E flat : IsFlat(flat, s, Len(s)) /\ FlattenSeq(s) = flat[Len(s)]
<1> DEFINE flatten[i \in 1..Len(s)] == IF i = 1 THEN s[i] ELSE flatten[i - 1] \o s[i]
<1>1. FlattenSeq(s) = flatten[Len(s)]
  BY DEF FlattenSeq
<1>2. \E flat : flat = [i \in 1..Len(s) |-> IF i = 1 THEN s[i] ELSE flat[i - 1] \o s[i]]
  BY FlatExists DEF IsFlat
<1>3. flatten = CHOOSE flat : flat = [i \in 1..Len(s) |-> IF i = 1 THEN s[i] ELSE flat[i - 1] \o s[i]]
  OBVIOUS
<1> HIDE DEF flatten
<1>4. flatten = [i \in 1..Len(s) |-> IF i = 1 THEN s[i] ELSE flatten[i - 1] \o s[i]]
  BY <1>2, <1>3
<1>5. IsFlat(flatten, s, Len(s))
  BY <1>4 DEF IsFlat
<1> QED
  BY <1>1, <1>5

LEMMA FlattenEmpty ==
  ASSUME NEW T, NEW s \in Seq(T), Len(s) = 0
  PROVE  s = <<>> /\ FlattenSeq(s) = <<>>
BY EmptySeq DEF FlattenSeq

(* The flattened sequence grows by the last member.                        *)
LEMMA FlattenStep ==
  ASSUME NEW T, NEW r \in Seq(Seq(T)), NEW s \in Seq(Seq(T)),
         Len(s) = Len(r) + 1, \A i \in 1..Len(r) : s[i] = r[i]
  PROVE  FlattenSeq(s) = FlattenSeq(r) \o s[Len(s)]
<1>1. Len(r) \in Nat /\ Len(s) \in Nat \ {0} /\ s[Len(s)] \in Seq(T)
  BY ElementOfSeq, LenProperties
<1>2. PICK h : IsFlat(h, s, Len(s)) /\ FlattenSeq(s) = h[Len(s)]
  BY <1>1, FlattenIs
<1>3. h[Len(s)] = IF Len(s) = 1 THEN s[Len(s)] ELSE h[Len(r)] \o s[Len(s)]
  <2>1. Len(s) \in 1..Len(s) /\ Len(s) - 1 = Len(r)
    BY <1>1
  <2> QED
    BY <1>2, <2>1 DEF IsFlat
<1>4. CASE Len(r) = 0
  <2>1. FlattenSeq(r) = <<>>
    BY <1>4, FlattenEmpty
  <2>2. <<>> \o s[Len(s)] = s[Len(s)]
    BY <1>1, ConcatEmptySeq
  <2> QED
    BY <1>2, <1>3, <1>4, <2>1, <2>2
<1>5. CASE Len(r) # 0
  <2>1. PICK g : IsFlat(g, r, Len(r)) /\ FlattenSeq(r) = g[Len(r)]
    BY <1>1, <1>5, FlattenIs
  <2>2. \A i \in 1..Len(r) : g[i] = h[i]
    <3>1. Len(r) <= Len(s) /\ \A i \in 1..Len(r) : r[i] = s[i]
      BY <1>1
    <3> DEFINE n == Len(r)
               m == Len(s)
    <3>2. n \in Nat /\ m \in Nat /\ n <= m /\ \A i \in 1..n : r[i] = s[i]
      BY <1>1, <3>1
    <3>3. IsFlat(g, r, n) /\ IsFlat(h, s, m)
      BY <1>2, <2>1
    <3> HIDE DEF n, m
    <3>4. n \in Nat /\ m \in Nat /\ n <= m
      BY <3>2
    <3>5. \A i \in 1..n : r[i] = s[i]
      BY <3>2
    <3>6. \A i \in 1..n : g[i] = h[i]
      BY ONLY <3>3, <3>4, <3>5, FlatAgrees
    <3> QED
      BY <3>6 DEF n
  <2>3. g[Len(r)] = h[Len(r)]
    BY <1>1, <1>5, <2>2
  <2>4. Len(s) # 1
    BY <1>1, <1>5
  <2> QED
    BY <1>2, <1>3, <2>1, <2>3, <2>4
<1> QED
  BY <1>4, <1>5

--------------------------------------------------------------------------------
(* The first k members of s, and the length that they make.                *)
Pre(s, k) == [j \in 1..k |-> s[j]]
Off(s, k) == Len(FlattenSeq(Pre(s, k)))

LEMMA PreIs ==
  ASSUME NEW T, NEW s \in Seq(T), NEW k \in 0..Len(s)
  PROVE  Pre(s, k) \in Seq(T) /\ Len(Pre(s, k)) = k /\ Pre(s, Len(s)) = s
<1>1. Len(s) \in Nat /\ s = [j \in 1..Len(s) |-> s[j]] /\ \A j \in 1..Len(s) : s[j] \in T
  BY LenProperties, ElementOfSeq
<1>2. \A j \in 1..k : s[j] \in T
  BY <1>1
<1>3. Pre(s, k) \in Seq(T) /\ Len(Pre(s, k)) = k
  BY <1>1, <1>2 DEF Pre
<1> QED
  BY <1>1, <1>3 DEF Pre

(* The flattened prefixes, one member after the other.                     *)
LEMMA PreStep ==
  ASSUME NEW T, NEW s \in Seq(Seq(T)), NEW k \in 1..Len(s)
  PROVE  FlattenSeq(Pre(s, k)) = FlattenSeq(Pre(s, k - 1)) \o s[k]
<1>1. Len(s) \in Nat /\ k \in Nat /\ k \in 0..Len(s) /\ k - 1 \in 0..Len(s)
  BY LenProperties
<1> DEFINE p == Pre(s, k)
           q == Pre(s, k - 1)
<1>2. p \in Seq(Seq(T)) /\ Len(p) = k
  BY <1>1, PreIs
<1>3. q \in Seq(Seq(T)) /\ Len(q) = k - 1
  BY <1>1, PreIs
<1>4. \A i \in 1..Len(q) : p[i] = q[i]
  BY <1>1, <1>3 DEF Pre
<1>5. p[Len(p)] = s[k]
  BY <1>1, <1>2 DEF Pre
<1> HIDE DEF p, q
<1>6. Len(p) = Len(q) + 1
  BY <1>1, <1>2, <1>3
<1>7. FlattenSeq(p) = FlattenSeq(q) \o p[Len(p)]
  BY <1>2, <1>3, <1>4, <1>6, FlattenStep
<1> QED
  BY <1>5, <1>7 DEF p, q

LEMMA PreTyped ==
  ASSUME NEW T, NEW s \in Seq(Seq(T))
  PROVE  /\ Off(s, 0) = 0 /\ FlattenSeq(Pre(s, 0)) = <<>>
         /\ \A k \in 0..Len(s) : FlattenSeq(Pre(s, k)) \in Seq(T) /\ Off(s, k) \in Nat
         /\ \A k \in 1..Len(s) : Len(s[k]) \in Nat /\ Off(s, k) = Off(s, k - 1) + Len(s[k])
<1>1. Len(s) \in Nat /\ \A k \in 1..Len(s) : s[k] \in Seq(T) /\ Len(s[k]) \in Nat
  BY LenProperties, ElementOfSeq
<1>2. FlattenSeq(Pre(s, 0)) = <<>> /\ Off(s, 0) = 0
  <2>1. Pre(s, 0) \in Seq(Seq(T)) /\ Len(Pre(s, 0)) = 0
    BY <1>1, PreIs
  <2>2. FlattenSeq(Pre(s, 0)) = <<>>
    BY <2>1, FlattenEmpty
  <2> QED
    BY <2>2, EmptySeq DEF Off
<1> DEFINE S == {k \in Nat : k <= Len(s) => FlattenSeq(Pre(s, k)) \in Seq(T)}
<1>3. 0 \in S
  BY <1>2, EmptySeq
<1>4. ASSUME NEW k \in S PROVE k + 1 \in S
  <2> SUFFICES ASSUME k + 1 <= Len(s) PROVE FlattenSeq(Pre(s, k + 1)) \in Seq(T)
    BY <1>4
  <2>1. k \in Nat /\ k + 1 \in 1..Len(s) /\ (k + 1) - 1 = k
    BY <1>1, <1>4
  <2>2. FlattenSeq(Pre(s, k)) \in Seq(T)
    BY <1>1, <1>4, <2>1
  <2>3. FlattenSeq(Pre(s, k + 1)) = FlattenSeq(Pre(s, k)) \o s[k + 1]
    BY <2>1, PreStep
  <2> QED
    BY <1>1, <2>1, <2>2, <2>3, ConcatProperties
<1> HIDE DEF S
<1>5. \A k \in Nat : k \in S
  BY <1>3, <1>4, SetInduction DEF S
<1>6. ASSUME NEW k \in 0..Len(s) PROVE FlattenSeq(Pre(s, k)) \in Seq(T) /\ Off(s, k) \in Nat
  <2>1. FlattenSeq(Pre(s, k)) \in Seq(T)
    BY <1>1, <1>5 DEF S
  <2> QED
    BY <2>1, LenProperties DEF Off
<1>7. ASSUME NEW k \in 1..Len(s) PROVE Off(s, k) = Off(s, k - 1) + Len(s[k])
  <2>1. k - 1 \in 0..Len(s)
    BY <1>1
  <2>2. FlattenSeq(Pre(s, k - 1)) \in Seq(T)
    BY <1>6, <2>1
  <2>3. FlattenSeq(Pre(s, k)) = FlattenSeq(Pre(s, k - 1)) \o s[k]
    BY PreStep
  <2> QED
    BY <1>1, <2>2, <2>3, ConcatProperties DEF Off
<1> QED
  BY <1>1, <1>2, <1>6, <1>7

(* Member j fills the places Off(s, j - 1) + 1 to Off(s, j), and between   *)
(* them the members fill every place.                                      *)
LEMMA FlattenAt ==
  ASSUME NEW T, NEW s \in Seq(Seq(T))
  PROVE  /\ FlattenSeq(s) \in Seq(T) /\ Len(FlattenSeq(s)) = Off(s, Len(s))
         /\ \A j \in 1..Len(s) : \A i \in 1..Len(s[j]) :
              /\ Off(s, j - 1) + i \in 1..Len(FlattenSeq(s))
              /\ FlattenSeq(s)[Off(s, j - 1) + i] = s[j][i]
         /\ \A pos \in 1..Len(FlattenSeq(s)) : \E j \in 1..Len(s) :
              pos \in Off(s, j - 1) + 1..Off(s, j)
         /\ \A j, k \in 0..Len(s) : j <= k => Off(s, j) <= Off(s, k)
<1> DEFINE flat(k) == FlattenSeq(Pre(s, k))
           Holds(k) ==
             /\ \A j \in 0..k : Off(s, j) <= Off(s, k)
             /\ \A j \in 1..k : \A i \in 1..Len(s[j]) :
                  Off(s, j - 1) + i \in 1..Off(s, k) /\ flat(k)[Off(s, j - 1) + i] = s[j][i]
             /\ \A pos \in 1..Off(s, k) : \E j \in 1..k : pos \in Off(s, j - 1) + 1..Off(s, j)
           S == {k \in Nat : k <= Len(s) => Holds(k)}
<1>1. Len(s) \in Nat /\ \A k \in 1..Len(s) : s[k] \in Seq(T) /\ Len(s[k]) \in Nat
  BY LenProperties, ElementOfSeq
<1>2. /\ Off(s, 0) = 0
      /\ \A k \in 0..Len(s) : flat(k) \in Seq(T) /\ Off(s, k) \in Nat
      /\ \A k \in 1..Len(s) : Off(s, k) = Off(s, k - 1) + Len(s[k])
  BY PreTyped
<1>3. \A k \in 0..Len(s) : Len(flat(k)) = Off(s, k)
  BY DEF Off
<1>4. \A k \in 1..Len(s) : flat(k) = flat(k - 1) \o s[k]
  BY PreStep
<1> HIDE DEF flat
<1>5. 0 \in S
  BY <1>2
<1>6. ASSUME NEW k \in S PROVE k + 1 \in S
  <2> SUFFICES ASSUME k + 1 <= Len(s) PROVE Holds(k + 1)
    BY <1>6
  <2>1. k \in Nat /\ k + 1 \in 1..Len(s) /\ (k + 1) - 1 = k /\ k \in 0..Len(s) /\ k + 1 \in 0..Len(s)
    BY <1>1, <1>6
  <2>2. Holds(k)
    BY <1>1, <1>6, <2>1
  <2>3. Off(s, k + 1) = Off(s, k) + Len(s[k + 1]) /\ Len(s[k + 1]) \in Nat /\ Off(s, k) \in Nat
    BY <1>1, <1>2, <2>1
  <2>4. flat(k + 1) = flat(k) \o s[k + 1] /\ flat(k) \in Seq(T) /\ s[k + 1] \in Seq(T)
    BY <1>1, <1>2, <1>4, <2>1
  <2>5. \A i \in 1..Off(s, k) + Len(s[k + 1]) :
          flat(k + 1)[i] = IF i <= Off(s, k) THEN flat(k)[i] ELSE s[k + 1][i - Off(s, k)]
    <3> DEFINE a == flat(k)
               b == s[k + 1]
    <3>1. Len(a) = Off(s, k)
      BY <1>3, <2>1
    <3>2. a \in Seq(T) /\ b \in Seq(T) /\ flat(k + 1) = a \o b
      BY <2>4
    <3> HIDE DEF a, b
    <3>3. \A i \in 1..Len(a) + Len(b) : (a \o b)[i] = IF i <= Len(a) THEN a[i] ELSE b[i - Len(a)]
      BY <3>2, ConcatProperties
    <3> QED
      BY <3>1, <3>2, <3>3 DEF a, b
  <2>6. ASSUME NEW j \in 0..(k + 1) PROVE Off(s, j) <= Off(s, k + 1)
    <3>1. CASE j = k + 1
      BY <1>2, <2>1, <3>1
    <3>2. CASE j \in 0..k
      <4>1. Off(s, j) <= Off(s, k) /\ Off(s, j) \in Nat
        BY <1>1, <1>2, <2>1, <2>2, <3>2
      <4> QED
        BY <2>3, <4>1
    <3> QED
      BY <2>1, <3>1, <3>2
  <2>7. ASSUME NEW j \in 1..(k + 1), NEW i \in 1..Len(s[j])
        PROVE  Off(s, j - 1) + i \in 1..Off(s, k + 1) /\ flat(k + 1)[Off(s, j - 1) + i] = s[j][i]
    <3>1. CASE j = k + 1
      <4>1. Off(s, j - 1) = Off(s, k) /\ i \in 1..Len(s[k + 1])
        BY <2>1, <2>7, <3>1
      <4>2. Off(s, k) + i \in 1..Off(s, k) + Len(s[k + 1]) /\ ~(Off(s, k) + i <= Off(s, k)) /\ (Off(s, k) + i) - Off(s, k) = i
        BY <2>3, <4>1
      <4> QED
        BY <2>3, <2>5, <3>1, <4>1, <4>2
    <3>2. CASE j \in 1..k
      <4>1. Off(s, j - 1) + i \in 1..Off(s, k) /\ flat(k)[Off(s, j - 1) + i] = s[j][i]
        BY <2>2, <2>7, <3>2
      <4>2. Off(s, j - 1) + i \in 1..Off(s, k) + Len(s[k + 1]) /\ Off(s, j - 1) + i <= Off(s, k)
        BY <2>3, <4>1
      <4> QED
        BY <2>3, <2>5, <4>1, <4>2
    <3> QED
      BY <2>1, <3>1, <3>2
  <2>8. ASSUME NEW pos \in 1..Off(s, k + 1)
        PROVE  \E j \in 1..(k + 1) : pos \in Off(s, j - 1) + 1..Off(s, j)
    <3>1. CASE pos <= Off(s, k)
      <4>1. pos \in 1..Off(s, k)
        BY <2>3, <3>1
      <4>2. PICK j \in 1..k : pos \in Off(s, j - 1) + 1..Off(s, j)
        BY <2>2, <4>1
      <4> QED
        BY <2>1, <4>2
    <3>2. CASE ~(pos <= Off(s, k))
      <4>1. pos \in Off(s, k) + 1..Off(s, k + 1)
        BY <2>3, <3>2
      <4>2. k + 1 \in 1..(k + 1) /\ Off(s, (k + 1) - 1) = Off(s, k)
        BY <2>1
      <4> QED
        BY <4>1, <4>2
    <3> QED
      BY <3>1, <3>2
  <2> QED
    BY <2>6, <2>7, <2>8
<1> HIDE DEF S
<1>7. \A k \in Nat : k \in S
  BY <1>5, <1>6, SetInduction DEF S
<1>8. \A k \in 0..Len(s) : Holds(k)
  BY <1>1, <1>7 DEF S
<1>9. FlattenSeq(s) = flat(Len(s)) /\ Len(s) \in 0..Len(s)
  BY <1>1, PreIs DEF flat
<1>10. FlattenSeq(s) \in Seq(T) /\ Len(FlattenSeq(s)) = Off(s, Len(s))
  BY <1>2, <1>3, <1>9
<1>11. Holds(Len(s))
  BY <1>8, <1>9
<1>12. \A j, k \in 0..Len(s) : j <= k => Off(s, j) <= Off(s, k)
  <2> SUFFICES ASSUME NEW k \in 0..Len(s), NEW j \in 0..Len(s), j <= k PROVE Off(s, j) <= Off(s, k)
    OBVIOUS
  <2>1. j \in 0..k
    BY <1>1
  <2> QED
    BY <1>8, <2>1
<1> QED
  BY <1>9, <1>10, <1>11, <1>12

(* The places depend on the lengths of the members only.                   *)
LEMMA SamePlaces ==
  ASSUME NEW T, NEW U, NEW s \in Seq(Seq(T)), NEW t \in Seq(Seq(U)),
         Len(s) = Len(t), \A j \in 1..Len(s) : Len(s[j]) = Len(t[j])
  PROVE  \A k \in 0..Len(s) : Off(s, k) = Off(t, k)
<1> DEFINE S == {k \in Nat : k <= Len(s) => Off(s, k) = Off(t, k)}
<1>1. Len(s) \in Nat
  BY LenProperties
<1>2. 0 \in S
  BY PreTyped
<1>3. ASSUME NEW k \in S PROVE k + 1 \in S
  <2> SUFFICES ASSUME k + 1 <= Len(s) PROVE Off(s, k + 1) = Off(t, k + 1)
    BY <1>3
  <2>1. k \in Nat /\ k + 1 \in 1..Len(s) /\ (k + 1) - 1 = k
    BY <1>1, <1>3
  <2>2. Off(s, k) = Off(t, k)
    BY <1>1, <1>3, <2>1
  <2>3. Off(s, k + 1) = Off(s, k) + Len(s[k + 1])
    BY <2>1, PreTyped
  <2>4. Off(t, k + 1) = Off(t, k) + Len(t[k + 1])
    BY <2>1, PreTyped
  <2> QED
    BY <2>1, <2>2, <2>3, <2>4
<1> HIDE DEF S
<1>4. \A k \in Nat : k \in S
  BY <1>2, <1>3, SetInduction DEF S
<1> QED
  BY <1>1, <1>4 DEF S
--------------------------------------------------------------------------------
(* Types by position: each field fills the places of its block.            *)
Spans(fields) == [k \in DOMAIN fields |-> [i \in 1..fields[k].span |-> fields[k].type]]
TypesOf(fields) == FlattenSeq(Spans(fields))
Upto(fields, k) == Off(Spans(fields), k)
Block(fields, k) == Upto(fields, k - 1) + 1..Upto(fields, k)

LEMMA SpansTyped ==
  ASSUME NEW fields \in Seq(Field)
  PROVE  /\ Spans(fields) \in Seq(Seq(Types)) /\ Len(Spans(fields)) = Len(fields)
         /\ Len(fields) \in Nat /\ DOMAIN fields = 1..Len(fields)
         /\ \A k \in 1..Len(fields) :
              /\ fields[k] \in Field /\ fields[k].span \in Nat \ {0} /\ fields[k].type \in Types
              /\ Len(Spans(fields)[k]) = fields[k].span
              /\ \A i \in 1..fields[k].span : Spans(fields)[k][i] = fields[k].type
<1>1. Len(fields) \in Nat /\ DOMAIN fields = 1..Len(fields) /\ \A k \in 1..Len(fields) : fields[k] \in Field
  BY LenProperties, ElementOfSeq
<1>2. \A k \in 1..Len(fields) : fields[k].span \in Nat \ {0} /\ fields[k].type \in Types
  BY <1>1 DEF Field
<1> DEFINE s == Spans(fields)
<1>3. s = [k \in 1..Len(fields) |-> [i \in 1..fields[k].span |-> fields[k].type]]
  BY <1>1 DEF Spans
<1>4. ASSUME NEW k \in 1..Len(fields)
      PROVE  /\ s[k] \in Seq(Types) /\ Len(s[k]) = fields[k].span
             /\ \A i \in 1..fields[k].span : s[k][i] = fields[k].type
  <2> DEFINE n == fields[k].span
             t == fields[k].type
  <2>1. n \in Nat /\ t \in Types
    BY <1>2
  <2>2. s[k] = [i \in 1..n |-> t]
    BY <1>3
  <2> HIDE DEF n, t, s
  <2>3. s[k] \in Seq(Types) /\ Len(s[k]) = n /\ \A i \in 1..n : s[k][i] = t
    BY <2>1, <2>2
  <2> QED
    BY <2>3 DEF n, t
<1> HIDE DEF s
<1>5. s \in Seq(Seq(Types)) /\ Len(s) = Len(fields)
  BY <1>1, <1>3, <1>4
<1> QED
  BY <1>1, <1>2, <1>4, <1>5 DEF s

LEMMA Places ==
  ASSUME NEW fields \in Seq(Field)
  PROVE  /\ TypesOf(fields) \in Seq(Types)
         /\ Len(TypesOf(fields)) \in Nat /\ DOMAIN TypesOf(fields) = 1..Len(TypesOf(fields))
         /\ Len(TypesOf(fields)) = Upto(fields, Len(fields))
         /\ Upto(fields, 0) = 0
         /\ \A k \in 0..Len(fields) : Upto(fields, k) \in Nat
         /\ \A k \in 1..Len(fields) :
              /\ Upto(fields, k) = Upto(fields, k - 1) + fields[k].span
              /\ Block(fields, k) # {} /\ Block(fields, k) \subseteq 1..Len(TypesOf(fields))
              /\ \A pos \in Block(fields, k) : TypesOf(fields)[pos] = fields[k].type
         /\ \A pos \in 1..Len(TypesOf(fields)) : \E k \in 1..Len(fields) : pos \in Block(fields, k)
         /\ \A j, k \in 1..Len(fields) : \A pos \in Block(fields, j) \cap Block(fields, k) : j = k
<1> DEFINE s == Spans(fields)
           up(k) == Upto(fields, k)
           types == TypesOf(fields)
           n == Len(fields)
<1>1. /\ s \in Seq(Seq(Types)) /\ Len(s) = n /\ n \in Nat
      /\ \A k \in 1..n : fields[k].span \in Nat \ {0} /\ Len(s[k]) = fields[k].span
      /\ \A k \in 1..n : \A i \in 1..fields[k].span : s[k][i] = fields[k].type
  BY SpansTyped
<1>10. types = FlattenSeq(s) /\ \A k : up(k) = Off(s, k)
  BY DEF TypesOf, Upto
<1> HIDE DEF n, s, up, types
<1>11. /\ Off(s, 0) = 0 /\ \A k \in 0..Len(s) : Off(s, k) \in Nat
       /\ \A k \in 1..Len(s) : Off(s, k) = Off(s, k - 1) + Len(s[k])
  BY <1>1, PreTyped
<1>2. /\ up(0) = 0 /\ \A k \in 0..n : up(k) \in Nat
      /\ \A k \in 1..n : up(k) = up(k - 1) + fields[k].span
  BY <1>1, <1>10, <1>11
<1>12. /\ FlattenSeq(s) \in Seq(Types) /\ Len(FlattenSeq(s)) = Off(s, Len(s))
       /\ \A j \in 1..Len(s) : \A i \in 1..Len(s[j]) : FlattenSeq(s)[Off(s, j - 1) + i] = s[j][i]
       /\ \A pos \in 1..Len(FlattenSeq(s)) : \E j \in 1..Len(s) : pos \in Off(s, j - 1) + 1..Off(s, j)
       /\ \A j, k \in 0..Len(s) : j <= k => Off(s, j) <= Off(s, k)
  <2>1. s \in Seq(Seq(Types))
    BY <1>1
  <2>2. /\ FlattenSeq(s) \in Seq(Types) /\ Len(FlattenSeq(s)) = Off(s, Len(s))
        /\ \A j \in 1..Len(s) : \A i \in 1..Len(s[j]) :
             /\ Off(s, j - 1) + i \in 1..Len(FlattenSeq(s))
             /\ FlattenSeq(s)[Off(s, j - 1) + i] = s[j][i]
        /\ \A pos \in 1..Len(FlattenSeq(s)) : \E j \in 1..Len(s) : pos \in Off(s, j - 1) + 1..Off(s, j)
        /\ \A j, k \in 0..Len(s) : j <= k => Off(s, j) <= Off(s, k)
    BY ONLY <2>1, FlattenAt, Zenon
  <2> QED
    BY ONLY <2>2
<1>3. /\ types \in Seq(Types) /\ Len(types) = up(n)
      /\ \A j \in 1..n : \A i \in 1..Len(s[j]) : types[up(j - 1) + i] = s[j][i]
      /\ \A pos \in 1..Len(types) : \E j \in 1..n : pos \in up(j - 1) + 1..up(j)
      /\ \A j, k \in 0..n : j <= k => up(j) <= up(k)
  BY <1>1, <1>10, <1>12
<1>4. \A k \in 1..n : k - 1 \in 0..n /\ k \in 0..n /\ n \in 0..n
  BY <1>1
<1>5. ASSUME NEW k \in 1..n
      PROVE  up(k - 1) + 1..up(k) # {} /\ up(k - 1) + 1..up(k) \subseteq 1..Len(types)
  <2>1. up(k - 1) \in Nat /\ up(k) \in Nat /\ up(n) \in Nat /\ up(k) <= up(n) /\ up(k) = up(k - 1) + fields[k].span
    BY <1>2, <1>3, <1>4, <1>5
  <2>2. fields[k].span \in Nat \ {0}
    BY <1>1
  <2>3. up(k - 1) + 1 \in up(k - 1) + 1..up(k)
    BY <2>1, <2>2
  <2> QED
    BY <1>3, <2>1, <2>3
<1>6. ASSUME NEW k \in 1..n, NEW pos \in up(k - 1) + 1..up(k) PROVE types[pos] = fields[k].type
  <2>1. up(k - 1) \in Nat /\ up(k) = up(k - 1) + fields[k].span /\ fields[k].span \in Nat
    BY <1>1, <1>2, <1>4
  <2>2. pos - up(k - 1) \in 1..fields[k].span /\ up(k - 1) + (pos - up(k - 1)) = pos
    BY <2>1
  <2>3. types[up(k - 1) + (pos - up(k - 1))] = s[k][pos - up(k - 1)]
    BY <1>1, <1>3, <2>2
  <2>4. s[k][pos - up(k - 1)] = fields[k].type
    BY <1>1, <2>2
  <2> QED
    BY <2>2, <2>3, <2>4
<1>7. ASSUME NEW j \in 1..n, NEW k \in 1..n, j < k,
             NEW pos \in (up(j - 1) + 1..up(j)) \cap (up(k - 1) + 1..up(k))
      PROVE  FALSE
  <2>1. j \in 0..n /\ k - 1 \in 0..n /\ j <= k - 1
    BY <1>1, <1>7
  <2>2. up(j) <= up(k - 1) /\ up(j) \in Nat /\ up(k - 1) \in Nat
    BY <1>2, <1>3, <2>1
  <2> QED
    BY <2>2
<1>8. \A j, k \in 1..n : \A pos \in (up(j - 1) + 1..up(j)) \cap (up(k - 1) + 1..up(k)) : j = k
  <2> SUFFICES ASSUME NEW j \in 1..n, NEW k \in 1..n, j # k,
                      NEW pos \in (up(j - 1) + 1..up(j)) \cap (up(k - 1) + 1..up(k))
               PROVE  FALSE
    OBVIOUS
  <2>1. j < k \/ k < j
    BY <1>1
  <2> QED
    BY <1>7, <2>1
<1>9. Len(types) \in Nat /\ DOMAIN types = 1..Len(types)
  BY <1>3, LenProperties
<1> QED
  BY <1>2, <1>3, <1>5, <1>6, <1>8, <1>9 DEF up, types, n, Block

(* The code counts the places of a prefix without their types.             *)
LEMMA CountPlaces ==
  ASSUME NEW fields \in Seq(Field), NEW k \in 0..Len(fields)
  PROVE  /\ Len(FlattenSeq([j \in 1..k |-> [i \in 1..fields[j].span |-> j]])) = Upto(fields, k)
         /\ Count(fields) = Len(TypesOf(fields))
<1> DEFINE t == [j \in 1..Len(fields) |-> [i \in 1..fields[j].span |-> j]]
<1>1. /\ Spans(fields) \in Seq(Seq(Types)) /\ Len(Spans(fields)) = Len(fields)
      /\ Len(fields) \in Nat /\ DOMAIN fields = 1..Len(fields)
      /\ \A j \in 1..Len(fields) : fields[j].span \in Nat \ {0} /\ Len(Spans(fields)[j]) = fields[j].span
  BY SpansTyped
<1>2. ASSUME NEW j \in 1..Len(fields) PROVE t[j] \in Seq(Nat) /\ Len(t[j]) = fields[j].span
  <2> DEFINE n == fields[j].span
  <2>1. n \in Nat /\ j \in Nat
    BY <1>1
  <2>2. t[j] = [i \in 1..n |-> j]
    OBVIOUS
  <2> HIDE DEF n, t
  <2>3. t[j] \in Seq(Nat) /\ Len(t[j]) = n
    BY <2>1, <2>2
  <2> QED
    BY <2>3 DEF n
<1>3. t \in Seq(Seq(Nat)) /\ Len(t) = Len(fields)
  <2>1. t = [j \in 1..Len(fields) |-> t[j]]
    OBVIOUS
  <2> HIDE DEF t
  <2> QED
    BY <1>1, <1>2, <2>1
<1>4. Pre(t, k) = [j \in 1..k |-> [i \in 1..fields[j].span |-> j]]
  BY <1>1 DEF Pre
<1>5. Pre(t, Len(t)) = t
  BY <1>1, <1>3, PreIs
<1>6. Count(fields) = Len(FlattenSeq(t))
  BY <1>1 DEF Count
<1> HIDE DEF t
<1>7. \A m \in 0..Len(fields) : Off(Spans(fields), m) = Off(t, m)
  <2> DEFINE s == Spans(fields)
  <2>1. s \in Seq(Seq(Types)) /\ Len(s) = Len(t) /\ \A j \in 1..Len(s) : Len(s[j]) = Len(t[j])
    BY <1>1, <1>2, <1>3
  <2>2. Len(s) = Len(fields)
    BY <1>1
  <2> HIDE DEF s
  <2>3. \A m \in 0..Len(s) : Off(s, m) = Off(t, m)
    BY <1>3, <2>1, SamePlaces
  <2> QED
    BY <2>2, <2>3 DEF s
<1>8. Off(t, k) = Upto(fields, k)
  BY <1>7 DEF Upto
<1>9. Off(t, Len(fields)) = Upto(fields, Len(fields))
  BY <1>1, <1>7 DEF Upto
<1>10. Len(TypesOf(fields)) = Upto(fields, Len(fields))
  BY Places
<1> QED
  BY <1>3, <1>4, <1>5, <1>6, <1>8, <1>9, <1>10 DEF Off

(* Fields of the same sizes fill the same blocks.                          *)
LEMMA SameBlocks ==
  ASSUME NEW fields \in Seq(Field), NEW other \in Seq(Field),
         Len(fields) = Len(other), \A k \in 1..Len(fields) : fields[k].span = other[k].span
  PROVE  /\ \A k \in 0..Len(fields) : Upto(fields, k) = Upto(other, k)
         /\ \A k \in 1..Len(fields) : Block(fields, k) = Block(other, k)
         /\ Len(TypesOf(fields)) = Len(TypesOf(other))
<1> DEFINE s == Spans(fields)
           t == Spans(other)
<1>1. /\ s \in Seq(Seq(Types)) /\ Len(s) = Len(fields) /\ Len(fields) \in Nat
      /\ \A k \in 1..Len(fields) : Len(s[k]) = fields[k].span
  BY SpansTyped
<1>2. /\ t \in Seq(Seq(Types)) /\ Len(t) = Len(other)
      /\ \A k \in 1..Len(other) : Len(t[k]) = other[k].span
  BY SpansTyped
<1> HIDE DEF s, t
<1>3. Len(s) = Len(t) /\ \A j \in 1..Len(s) : Len(s[j]) = Len(t[j])
  BY <1>1, <1>2
<1>4. \A k \in 0..Len(s) : Off(s, k) = Off(t, k)
  BY <1>1, <1>2, <1>3, SamePlaces
<1>5. \A k \in 0..Len(fields) : Upto(fields, k) = Upto(other, k)
  BY <1>1, <1>4 DEF Upto, s, t
<1>6. Len(TypesOf(fields)) = Upto(fields, Len(fields)) /\ Len(TypesOf(other)) = Upto(other, Len(other))
  BY Places
<1>7. \A k \in 1..Len(fields) : k - 1 \in 0..Len(fields) /\ k \in 0..Len(fields)
  BY <1>1
<1>8. Len(fields) \in 0..Len(fields)
  BY <1>1
<1> QED
  BY <1>5, <1>6, <1>7, <1>8 DEF Block

(* A field more adds its types at the end.                                 *)
LEMMA TypesGrow ==
  ASSUME NEW less \in Seq(Field), NEW more \in Seq(Field),
         Len(more) = Len(less) + 1, \A i \in 1..Len(less) : more[i] = less[i]
  PROVE  TypesOf(more) = TypesOf(less) \o [i \in 1..more[Len(more)].span |-> more[Len(more)].type]
<1> DEFINE r == Spans(less)
           s == Spans(more)
<1>1. r \in Seq(Seq(Types)) /\ Len(r) = Len(less) /\ Len(less) \in Nat /\ DOMAIN less = 1..Len(less)
  BY SpansTyped
<1>2. s \in Seq(Seq(Types)) /\ Len(s) = Len(more) /\ DOMAIN more = 1..Len(more)
  BY SpansTyped
<1>7. ASSUME NEW k \in 1..Len(less) PROVE r[k] = [i \in 1..less[k].span |-> less[k].type]
  BY <1>1 DEF Spans
<1>8. ASSUME NEW k \in 1..Len(more) PROVE s[k] = [i \in 1..more[k].span |-> more[k].type]
  BY <1>2 DEF Spans
<1>3. \A i \in 1..Len(r) : s[i] = r[i]
  <2> SUFFICES ASSUME NEW k \in 1..Len(less) PROVE s[k] = r[k]
    BY <1>1
  <2>1. k \in 1..Len(more) /\ more[k] = less[k]
    BY <1>1
  <2> HIDE DEF r, s
  <2> QED
    BY <1>7, <1>8, <2>1
<1>4. s[Len(s)] = [i \in 1..more[Len(more)].span |-> more[Len(more)].type]
  <2>1. Len(more) \in 1..Len(more) /\ Len(s) = Len(more)
    BY <1>1, <1>2
  <2> HIDE DEF r, s
  <2> QED
    BY <1>8, <2>1
<1> HIDE DEF r, s
<1>5. Len(s) = Len(r) + 1
  BY <1>1, <1>2
<1>6. FlattenSeq(s) = FlattenSeq(r) \o s[Len(s)]
  BY <1>1, <1>2, <1>3, <1>5, FlattenStep
<1> QED
  BY <1>4, <1>6 DEF TypesOf, r, s

LEMMA TypesAssociative ==
  \A u, v, w \in Seq(Types) : (u \o v) \o w = u \o (v \o w)
BY ConcatAssociative

LEMMA TypesConcat ==
  ASSUME NEW a \in Seq(Field), NEW b \in Seq(Field)
  PROVE  TypesOf(a \o b) = TypesOf(a) \o TypesOf(b)
<1> DEFINE S == {k \in Nat : k <= Len(b) => TypesOf(a \o Pre(b, k)) = TypesOf(a) \o TypesOf(Pre(b, k))}
<1>1. Len(a) \in Nat /\ Len(b) \in Nat
  BY LenProperties
<1>2. 0 \in S
  <2>1. Pre(b, 0) \in Seq(Field) /\ Len(Pre(b, 0)) = 0
    BY <1>1, PreIs
  <2>2. Pre(b, 0) = <<>>
    BY <2>1, EmptySeq
  <2>3. TypesOf(Pre(b, 0)) = <<>>
    <3>1. Spans(Pre(b, 0)) \in Seq(Seq(Types)) /\ Len(Spans(Pre(b, 0))) = 0
      BY <2>1, SpansTyped
    <3> QED
      BY <3>1, FlattenEmpty DEF TypesOf
  <2>4. a \o <<>> = a
    BY ConcatEmptySeq
  <2>5. TypesOf(a) \in Seq(Types)
    BY Places
  <2>6. TypesOf(a) \o <<>> = TypesOf(a)
    BY <2>5, ConcatEmptySeq
  <2> QED
    BY <2>2, <2>3, <2>4, <2>6
<1>3. ASSUME NEW k \in S PROVE k + 1 \in S
  <2> SUFFICES ASSUME k + 1 <= Len(b)
               PROVE  TypesOf(a \o Pre(b, k + 1)) = TypesOf(a) \o TypesOf(Pre(b, k + 1))
    BY <1>3
  <2> DEFINE p == Pre(b, k)
             q == Pre(b, k + 1)
             x == q[Len(q)]
             last == [i \in 1..x.span |-> x.type]
  <2>1. k \in Nat /\ k \in 0..Len(b) /\ k + 1 \in 0..Len(b)
    BY <1>1, <1>3
  <2>2. p \in Seq(Field) /\ Len(p) = k /\ q \in Seq(Field) /\ Len(q) = k + 1
    BY <2>1, PreIs
  <2>3. \A i \in 1..Len(p) : q[i] = p[i]
    BY <2>1, <2>2 DEF Pre
  <2>4. TypesOf(a \o p) = TypesOf(a) \o TypesOf(p)
    BY <1>1, <1>3, <2>1
  <2> HIDE DEF p, q
  <2>5. TypesOf(q) = TypesOf(p) \o last
    <3>1. Len(q) = Len(p) + 1
      BY <2>2
    <3> QED
      BY <2>2, <2>3, <3>1, TypesGrow
  <2>6. /\ a \o p \in Seq(Field) /\ Len(a \o p) = Len(a) + k
        /\ a \o q \in Seq(Field) /\ Len(a \o q) = Len(a) + k + 1
        /\ \A i \in 1..Len(a) + k : (a \o p)[i] = IF i <= Len(a) THEN a[i] ELSE p[i - Len(a)]
        /\ \A i \in 1..Len(a) + k + 1 : (a \o q)[i] = IF i <= Len(a) THEN a[i] ELSE q[i - Len(a)]
    <3>0. a \in Seq(Field) /\ p \in Seq(Field) /\ q \in Seq(Field)
      BY <2>2
    <3>1. /\ a \o p \in Seq(Field) /\ Len(a \o p) = Len(a) + Len(p)
          /\ \A i \in 1..Len(a) + Len(p) : (a \o p)[i] = IF i <= Len(a) THEN a[i] ELSE p[i - Len(a)]
      BY ONLY <3>0, ConcatProperties, Zenon
    <3>2. /\ a \o q \in Seq(Field) /\ Len(a \o q) = Len(a) + Len(q)
          /\ \A i \in 1..Len(a) + Len(q) : (a \o q)[i] = IF i <= Len(a) THEN a[i] ELSE q[i - Len(a)]
      BY ONLY <3>0, ConcatProperties, Zenon
    <3>3. Len(a) + Len(q) = Len(a) + k + 1
      BY <1>1, <2>1, <2>2
    <3> QED
      BY <2>2, <3>1, <3>2, <3>3
  <2>7. \A i \in 1..Len(a \o p) : (a \o q)[i] = (a \o p)[i]
    <3> SUFFICES ASSUME NEW i \in 1..Len(a) + k PROVE (a \o q)[i] = (a \o p)[i]
      BY <2>6
    <3>1. i \in 1..Len(a) + k + 1
      BY <1>1, <2>1
    <3>2. ~(i <= Len(a)) => i - Len(a) \in 1..k
      BY <1>1, <2>1
    <3>3. ~(i <= Len(a)) => q[i - Len(a)] = p[i - Len(a)]
      BY <2>2, <2>3, <3>2
    <3>4. (a \o p)[i] = IF i <= Len(a) THEN a[i] ELSE p[i - Len(a)]
      BY <2>6
    <3>5. (a \o q)[i] = IF i <= Len(a) THEN a[i] ELSE q[i - Len(a)]
      BY <2>6, <3>1
    <3> QED
      BY <3>3, <3>4, <3>5
  <2>8. (a \o q)[Len(a \o q)] = x
    <3>1. Len(a) + k + 1 \in 1..Len(a) + k + 1 /\ ~(Len(a) + k + 1 <= Len(a)) /\ (Len(a) + k + 1) - Len(a) = k + 1
      BY <1>1, <2>1
    <3> QED
      BY <2>2, <2>6, <3>1
  <2>9. TypesOf(a \o q) = TypesOf(a \o p) \o last
    <3> DEFINE u == a \o p
               v == a \o q
    <3>1. u \in Seq(Field) /\ v \in Seq(Field) /\ Len(v) = Len(u) + 1 /\ v[Len(v)] = x
          /\ \A i \in 1..Len(u) : v[i] = u[i]
      BY <2>6, <2>7, <2>8
    <3> HIDE DEF u, v, x
    <3>2. TypesOf(v) = TypesOf(u) \o [i \in 1..v[Len(v)].span |-> v[Len(v)].type]
      BY <3>1, TypesGrow
    <3> QED
      BY <3>1, <3>2 DEF u, v
  <2>10. last \in Seq(Types)
    <3>1. k + 1 \in 1..Len(q)
      BY <2>1, <2>2
    <3>2. x \in Field
      BY <2>2, <3>1, ElementOfSeq
    <3> DEFINE n == x.span
               t == x.type
    <3>3. n \in Nat /\ t \in Types
      BY <3>2 DEF Field
    <3> HIDE DEF x, n, t
    <3>4. [i \in 1..n |-> t] \in Seq(Types)
      BY <3>3
    <3> QED
      BY <3>4 DEF n, t
  <2>11. TypesOf(a) \in Seq(Types) /\ TypesOf(p) \in Seq(Types)
    BY <2>2, Places
  <2> HIDE DEF last, x
  <2>12. (TypesOf(a) \o TypesOf(p)) \o last = TypesOf(a) \o (TypesOf(p) \o last)
    BY <2>10, <2>11, TypesAssociative, Zenon
  <2> QED
    BY <2>4, <2>5, <2>9, <2>12 DEF q
<1> HIDE DEF S
<1>4. \A k \in Nat : k \in S
  BY <1>2, <1>3, SetInduction DEF S
<1>5. Pre(b, Len(b)) = b
  BY <1>1, PreIs
<1> QED
  BY <1>1, <1>4, <1>5 DEF S

(* The types of a flattened list of fields.                                *)
LEMMA TypesFlatten ==
  ASSUME NEW g \in Seq(Seq(Field)), NEW h \in Seq(Seq(Types)),
         Len(h) = Len(g), \A k \in 1..Len(g) : h[k] = TypesOf(g[k])
  PROVE  FlattenSeq(g) \in Seq(Field) /\ TypesOf(FlattenSeq(g)) = FlattenSeq(h)
<1> DEFINE S == {k \in Nat : k <= Len(g) => TypesOf(FlattenSeq(Pre(g, k))) = FlattenSeq(Pre(h, k))}
<1>1. Len(g) \in Nat /\ \A k \in 1..Len(g) : g[k] \in Seq(Field)
  BY LenProperties, ElementOfSeq
<1>2. \A k \in 0..Len(g) : FlattenSeq(Pre(g, k)) \in Seq(Field)
  BY PreTyped
<1>3. FlattenSeq(Pre(g, 0)) = <<>> /\ FlattenSeq(Pre(h, 0)) = <<>>
  BY PreTyped
<1>4. 0 \in S
  <2>1. <<>> \in Seq(Field) /\ Len(<<>>) = 0
    BY EmptySeq
  <2>2. Spans(<<>>) \in Seq(Seq(Types)) /\ Len(Spans(<<>>)) = 0
    BY <2>1, SpansTyped
  <2>3. TypesOf(<<>>) = <<>>
    BY <2>2, FlattenEmpty DEF TypesOf
  <2> QED
    BY <1>3, <2>3
<1>5. ASSUME NEW k \in S PROVE k + 1 \in S
  <2> SUFFICES ASSUME k + 1 <= Len(g)
               PROVE  TypesOf(FlattenSeq(Pre(g, k + 1))) = FlattenSeq(Pre(h, k + 1))
    BY <1>5
  <2>1. k \in Nat /\ k \in 0..Len(g) /\ k + 1 \in 1..Len(g) /\ (k + 1) - 1 = k
    BY <1>1, <1>5
  <2>2. FlattenSeq(Pre(g, k + 1)) = FlattenSeq(Pre(g, k)) \o g[k + 1]
    BY <2>1, PreStep
  <2>3. FlattenSeq(Pre(h, k + 1)) = FlattenSeq(Pre(h, k)) \o h[k + 1]
    BY <2>1, PreStep
  <2>4. TypesOf(FlattenSeq(Pre(g, k))) = FlattenSeq(Pre(h, k))
    BY <1>1, <1>5, <2>1
  <2>5. TypesOf(FlattenSeq(Pre(g, k)) \o g[k + 1]) = TypesOf(FlattenSeq(Pre(g, k))) \o TypesOf(g[k + 1])
    BY <1>1, <1>2, <2>1, TypesConcat
  <2> QED
    BY <2>1, <2>2, <2>3, <2>4, <2>5
<1> HIDE DEF S
<1>6. \A k \in Nat : k \in S
  BY <1>4, <1>5, SetInduction DEF S
<1>7. Len(g) \in 0..Len(g) /\ Len(h) \in 0..Len(h)
  BY <1>1
<1>8. Pre(g, Len(g)) = g /\ Pre(h, Len(h)) = h
  BY <1>7, PreIs
<1> QED
  BY <1>1, <1>2, <1>6, <1>7, <1>8 DEF S

(* Fields of one name each are their types.                                *)
LEMMA SingleTypes ==
  ASSUME NEW fields \in Seq(Field), \A k \in 1..Len(fields) : fields[k].span = 1
  PROVE  /\ Len(TypesOf(fields)) = Len(fields)
         /\ \A k \in 1..Len(fields) : TypesOf(fields)[k] = fields[k].type
<1> DEFINE S == {k \in Nat : k <= Len(fields) => Upto(fields, k) = k}
<1>1. Len(fields) \in Nat
  BY LenProperties
<1>2. 0 \in S
  BY Places
<1>3. ASSUME NEW k \in S PROVE k + 1 \in S
  <2> SUFFICES ASSUME k + 1 <= Len(fields) PROVE Upto(fields, k + 1) = k + 1
    BY <1>3
  <2>1. k \in Nat /\ k + 1 \in 1..Len(fields) /\ (k + 1) - 1 = k
    BY <1>1, <1>3
  <2>2. Upto(fields, k) = k
    BY <1>1, <1>3, <2>1
  <2>3. Upto(fields, k + 1) = Upto(fields, k) + fields[k + 1].span
    BY <2>1, Places
  <2> QED
    BY <2>1, <2>2, <2>3
<1> HIDE DEF S
<1>4. \A k \in Nat : k \in S
  BY <1>2, <1>3, SetInduction DEF S
<1>5. \A k \in 0..Len(fields) : Upto(fields, k) = k
  BY <1>1, <1>4 DEF S
<1>6. Len(TypesOf(fields)) = Upto(fields, Len(fields)) /\ Len(fields) \in 0..Len(fields)
  BY <1>1, Places
<1>7. ASSUME NEW k \in 1..Len(fields) PROVE TypesOf(fields)[k] = fields[k].type
  <2>1. k - 1 \in 0..Len(fields) /\ k \in 0..Len(fields)
    BY <1>1
  <2>2. k \in Block(fields, k)
    BY <1>5, <2>1 DEF Block
  <2> QED
    BY <2>2, Places
<1> QED
  BY <1>5, <1>6, <1>7

(* Splitting some of the fields keeps the places, and changes the types    *)
(* there where `given` says `type`.                                        *)
Split(fields, at, given, type) ==
  [k \in DOMAIN fields |->
     IF Block(fields, k) \subseteq at
     THEN [i \in 1..fields[k].span |->
             [span |-> 1, type |-> IF given[Upto(fields, k - 1) + i] = type THEN type ELSE fields[k].type]]
     ELSE <<fields[k]>>]

LEMMA SplitTypes ==
  ASSUME NEW fields \in Seq(Field), NEW at, NEW given, NEW type \in Types
  PROVE  LET new == FlattenSeq(Split(fields, at, given, type)) IN
         /\ new \in Seq(Field) /\ Len(TypesOf(new)) = Len(TypesOf(fields))
         /\ \A k \in 1..Len(fields) : \A pos \in Block(fields, k) :
              TypesOf(new)[pos] =
                IF Block(fields, k) \subseteq at /\ given[pos] = type THEN type ELSE fields[k].type
<1> DEFINE g == Split(fields, at, given, type)
           n == Len(fields)
           h == [k \in 1..n |-> TypesOf(g[k])]
           new == FlattenSeq(g)
           s == Spans(fields)
<1>1. /\ s \in Seq(Seq(Types)) /\ Len(s) = n /\ n \in Nat /\ DOMAIN fields = 1..n
      /\ \A k \in 1..n : /\ fields[k] \in Field /\ fields[k].span \in Nat \ {0} /\ fields[k].type \in Types
                         /\ Len(s[k]) = fields[k].span
  BY SpansTyped
<1> HIDE DEF n, s
<1>2. ASSUME NEW k \in 1..n
      PROVE  /\ g[k] \in Seq(Field) /\ h[k] = TypesOf(g[k])
             /\ h[k] \in Seq(Types) /\ Len(h[k]) = fields[k].span
             /\ \A i \in 1..fields[k].span :
                  h[k][i] = IF Block(fields, k) \subseteq at /\ given[Upto(fields, k - 1) + i] = type
                            THEN type ELSE fields[k].type
  <2> DEFINE m == fields[k].span
             u == fields[k].type
             to(i) == IF given[Upto(fields, k - 1) + i] = type THEN type ELSE u
  <2>1. m \in Nat \ {0} /\ u \in Types /\ fields[k] \in Field /\ \A i \in 1..m : to(i) \in Types
    BY <1>1
  <2>2. h[k] = TypesOf(g[k])
    OBVIOUS
  <2> HIDE DEF h
  <2>3. CASE Block(fields, k) \subseteq at
    <3>1. g[k] = [i \in 1..m |-> [span |-> 1, type |-> to(i)]]
      BY <1>1, <2>3 DEF Split
    <3> HIDE DEF g, m, u, to
    <3>2. \A i \in 1..m : [span |-> 1, type |-> to(i)] \in Field
      BY <2>1 DEF Field
    <3>3. g[k] \in Seq(Field) /\ Len(g[k]) = m
      BY <2>1, <3>1, <3>2
    <3>4. \A i \in 1..Len(g[k]) : g[k][i].span = 1 /\ g[k][i].type = to(i)
      <4> SUFFICES ASSUME NEW i \in 1..m PROVE g[k][i].span = 1 /\ g[k][i].type = to(i)
        BY <3>3
      <4>1. g[k][i] = [span |-> 1, type |-> to(i)]
        BY <3>1
      <4> QED
        BY <4>1
    <3>5. Len(TypesOf(g[k])) = m /\ \A i \in 1..m : TypesOf(g[k])[i] = to(i)
      BY <3>3, <3>4, SingleTypes
    <3>6. TypesOf(g[k]) \in Seq(Types)
      BY <3>3, Places
    <3> QED
      BY <2>2, <2>3, <3>3, <3>5, <3>6 DEF m, to, u
  <2>4. CASE ~(Block(fields, k) \subseteq at)
    <3>1. g[k] = <<fields[k]>>
      BY <1>1, <2>4 DEF Split
    <3> DEFINE x == fields[k]
               one == <<x>>
    <3>2. one \in Seq(Field) /\ Len(one) = 1 /\ one[1] = x
      BY <2>1
    <3> HIDE DEF g, x, one
    <3>8. /\ Upto(one, 0) = 0 /\ Len(TypesOf(one)) = Upto(one, Len(one))
          /\ \A j \in 1..Len(one) :
               /\ Upto(one, j) = Upto(one, j - 1) + one[j].span
               /\ \A pos \in Block(one, j) : TypesOf(one)[pos] = one[j].type
      BY <3>2, Places
    <3>3. Upto(one, 0) = 0 /\ Upto(one, 1) = Upto(one, 1 - 1) + one[1].span /\ Len(TypesOf(one)) = Upto(one, 1)
          /\ \A pos \in Block(one, 1) : TypesOf(one)[pos] = one[1].type
      <4>1. 1 \in 1..Len(one)
        BY <3>2
      <4> QED
        BY <3>2, <3>8, <4>1
    <3>4. Upto(one, 1) = m /\ Block(one, 1) = 1..m
      BY <2>1, <3>2, <3>3 DEF Block, x
    <3>5. Len(TypesOf(one)) = m /\ \A i \in 1..m : TypesOf(one)[i] = u
      BY <3>2, <3>3, <3>4 DEF x
    <3>6. TypesOf(one) \in Seq(Types)
      BY <3>2, Places
    <3>7. g[k] = one
      BY <3>1 DEF one, x
    <3> QED
      BY <2>2, <2>4, <3>2, <3>5, <3>6, <3>7
  <2> QED
    BY <2>3, <2>4
<1>3. g \in Seq(Seq(Field)) /\ Len(g) = n
  <2>1. g = [k \in 1..n |-> g[k]]
    BY <1>1 DEF Split
  <2>2. \A k \in 1..n : g[k] \in Seq(Field)
    BY <1>2
  <2>3. n \in Nat
    BY <1>1
  <2> HIDE DEF g, h
  <2> QED
    BY ONLY <2>1, <2>2, <2>3
<1>4. h \in Seq(Seq(Types)) /\ Len(h) = n
  <2>1. h = [k \in 1..n |-> h[k]]
    OBVIOUS
  <2>2. \A k \in 1..n : h[k] \in Seq(Types)
    BY <1>2
  <2>3. n \in Nat
    BY <1>1
  <2> HIDE DEF g, h
  <2> QED
    BY ONLY <2>1, <2>2, <2>3
<1> HIDE DEF g, h
<1>5. new \in Seq(Field) /\ TypesOf(new) = FlattenSeq(h)
  <2>1. Len(h) = Len(g) /\ \A k \in 1..Len(g) : h[k] = TypesOf(g[k])
    BY <1>2, <1>3, <1>4
  <2> QED
    BY <1>3, <1>4, <2>1, TypesFlatten
<1>6. \A k \in 0..n : Off(h, k) = Upto(fields, k)
  <2>1. Len(h) = Len(s) /\ \A k \in 1..Len(h) : Len(h[k]) = Len(s[k])
    BY <1>1, <1>2, <1>4
  <2>3. h \in Seq(Seq(Types)) /\ s \in Seq(Seq(Types))
    BY <1>1, <1>4
  <2>2. \A k \in 0..Len(h) : Off(h, k) = Off(s, k)
    BY ONLY <2>1, <2>3, SamePlaces
  <2> QED
    BY <1>4, <2>2 DEF Upto, s
<1>7. /\ Len(FlattenSeq(h)) = Off(h, Len(h))
      /\ \A j \in 1..Len(h) : \A i \in 1..Len(h[j]) :
           /\ Off(h, j - 1) + i \in 1..Len(FlattenSeq(h))
           /\ FlattenSeq(h)[Off(h, j - 1) + i] = h[j][i]
  <2>1. h \in Seq(Seq(Types))
    BY <1>4
  <2>2. /\ FlattenSeq(h) \in Seq(Types) /\ Len(FlattenSeq(h)) = Off(h, Len(h))
        /\ \A j \in 1..Len(h) : \A i \in 1..Len(h[j]) :
             /\ Off(h, j - 1) + i \in 1..Len(FlattenSeq(h))
             /\ FlattenSeq(h)[Off(h, j - 1) + i] = h[j][i]
        /\ \A pos \in 1..Len(FlattenSeq(h)) : \E j \in 1..Len(h) : pos \in Off(h, j - 1) + 1..Off(h, j)
        /\ \A j, k \in 0..Len(h) : j <= k => Off(h, j) <= Off(h, k)
    BY ONLY <2>1, FlattenAt, Zenon
  <2> QED
    BY <2>2
<1>8. Len(TypesOf(new)) = Len(TypesOf(fields))
  <2>1. Len(TypesOf(fields)) = Upto(fields, n)
    BY Places DEF n
  <2> QED
    BY <1>1, <1>4, <1>5, <1>6, <1>7, <2>1
<1>9. ASSUME NEW k \in 1..n, NEW pos \in Block(fields, k)
      PROVE  TypesOf(new)[pos] =
               IF Block(fields, k) \subseteq at /\ given[pos] = type THEN type ELSE fields[k].type
  <2>1. k - 1 \in 0..n
    BY <1>1
  <2>2. Upto(fields, k - 1) \in Nat /\ Upto(fields, k) = Upto(fields, k - 1) + fields[k].span
    BY <2>1, Places DEF n
  <2> DEFINE i == pos - Upto(fields, k - 1)
  <2>3. i \in 1..fields[k].span /\ Upto(fields, k - 1) + i = pos
    BY <1>1, <2>2 DEF Block
  <2> HIDE DEF i
  <2>4. TypesOf(new)[pos] = h[k][i]
    BY <1>2, <1>4, <1>5, <1>6, <1>7, <2>1, <2>3
  <2> QED
    BY <1>2, <2>3, <2>4
<1> QED
  BY <1>5, <1>8, <1>9 DEF n, g
--------------------------------------------------------------------------------
(* The places of the results and parameters of a signature.                *)
Operand ==
  [kind : {"param"}, of : Func, field : Nat, name : Nat, type : Types]
  \cup [kind : {"value", "typeparam"}, type : Types]

(* The developer changes types and comments, and no shape.                 *)
Typed ==
  /\ pkg \in Packages
  /\ params \in [Func -> Seq(Param)] /\ results \in [Func -> Seq(Field)]
  /\ comment \in [Func -> [above : BOOLEAN, doc : BOOLEAN, marker : BOOLEAN]]
  /\ operands \in [Func -> Seq(Operand)]
  /\ \A f \in Func :
       /\ Len(params[f]) = Len(pkg.params[f])
       /\ \A k \in 1..Len(params[f]) : params[f][k].names = pkg.params[f][k].names
       /\ Len(TypesOf(results[f])) = Count(pkg.results[f])
       /\ Len(operands[f]) = Len(pkg.operands[f])
       /\ \A s \in 1..Len(operands[f]) :
            LET now == operands[f][s] then == pkg.operands[f][s] IN
            /\ now.kind = then.kind
            /\ now.kind = "param" => now.of = then.of /\ now.field = then.field /\ now.name = then.name
  /\ phase \in {"run", "ran", "edited"} /\ next \in 0..Len(pkg.fn)
  /\ held \subseteq (DOMAIN pkg.embeds) \X Iface

LEMMA Functions ==
  ASSUME Typed
  PROVE  Len(pkg.fn) \in Nat /\ Func = 1..Len(pkg.fn) /\ "" \notin DOMAIN pkg.embeds
<1>1. /\ pkg.fn \in Seq([kind : {"decl", "lit", "method", "extern"}, owner : STRING, name : STRING,
                     endsInF : BOOLEAN, generated : BOOLEAN,
                     returns : Seq(Seq([kind : {"value"}, type : Concrete \cup Interface]
                                       \cup [kind : {"call"}, callee : DOMAIN pkg.fn] \cup [kind : {"nil"}]))])
      /\ "" \notin DOMAIN pkg.embeds
  BY PackageAssumption DEF Typed
<1> QED
  BY <1>1, LenProperties DEF Func

LEMMA ResultPlaces ==
  ASSUME Typed, NEW f \in Func
  PROVE  /\ results[f] \in Seq(Field) /\ ResultTypes(f) = TypesOf(results[f])
         /\ Len(ResultTypes(f)) = Count(pkg.results[f])
         /\ \A k \in 0..Len(results[f]) : Before(f, k) = Upto(results[f], k)
         /\ \A k \in 1..Len(results[f]) : Positions(f, k) = Block(results[f], k)
<1>1. results[f] \in Seq(Field) /\ ResultTypes(f) = TypesOf(results[f])
  BY DEF Typed, ResultTypes, TypesOf, Spans
<1>2. Len(ResultTypes(f)) = Count(pkg.results[f])
  BY <1>1 DEF Typed
<1>3. \A k \in 0..Len(results[f]) : Before(f, k) = Upto(results[f], k)
  BY <1>1, CountPlaces DEF Before
<1>4. \A k \in 1..Len(results[f]) : k - 1 \in 0..Len(results[f]) /\ k \in 0..Len(results[f])
  BY <1>1, LenProperties
<1> QED
  BY <1>1, <1>2, <1>3, <1>4 DEF Positions, Block

(* A parameter field of n names has the places of a field of span n.       *)
Counted(list) == [k \in DOMAIN list |-> [span |-> NameCount(list[k]), type |-> list[k].type]]

LEMMA ParamPlaces ==
  ASSUME Typed, NEW f \in Func
  PROVE  /\ Counted(params[f]) \in Seq(Field) /\ Len(Counted(params[f])) = Len(params[f])
         /\ Len(params[f]) \in Nat /\ DOMAIN params[f] = 1..Len(params[f])
         /\ \A k \in 1..Len(params[f]) :
              /\ params[f][k] \in Param
              /\ Counted(params[f])[k] = [span |-> NameCount(params[f][k]), type |-> params[f][k].type]
         /\ ParamTypes(f) = TypesOf(Counted(params[f]))
         /\ \A k \in 1..Len(params[f]) : ParamsBefore(f, k) = Upto(Counted(params[f]), k - 1)
<1> DEFINE list == params[f]
           fields == Counted(list)
<1>1. list \in Seq(Param)
  BY DEF Typed
<1> HIDE DEF list
<1>2. Len(list) \in Nat /\ DOMAIN list = 1..Len(list) /\ \A k \in 1..Len(list) : list[k] \in Param
  BY <1>1, LenProperties, ElementOfSeq
<1>3. \A k \in 1..Len(list) : NameCount(list[k]) \in Nat \ {0} /\ list[k].type \in Types
  <2> SUFFICES ASSUME NEW k \in 1..Len(list) PROVE NameCount(list[k]) \in Nat \ {0} /\ list[k].type \in Types
    OBVIOUS
  <2>1. list[k].names \in Seq(STRING) /\ list[k].type \in Types
    BY <1>2 DEF Param
  <2>2. list[k].names # <<>> => Len(list[k].names) \in Nat \ {0}
    BY <2>1, EmptySeq
  <2> QED
    BY <2>1, <2>2 DEF NameCount
<1>4. fields = [k \in 1..Len(list) |-> [span |-> NameCount(list[k]), type |-> list[k].type]]
  BY <1>2 DEF Counted
<1>5. \A k \in 1..Len(list) : [span |-> NameCount(list[k]), type |-> list[k].type] \in Field
  BY <1>3 DEF Field
<1> HIDE DEF fields
<1>6. fields \in Seq(Field) /\ Len(fields) = Len(list) /\ DOMAIN fields = 1..Len(list)
  BY <1>2, <1>4, <1>5
<1>7. \A k \in 1..Len(list) : fields[k] = [span |-> NameCount(list[k]), type |-> list[k].type]
  BY <1>4
<1>10. \A k \in 1..Len(list) : fields[k].span = NameCount(list[k]) /\ fields[k].type = list[k].type
  <2> SUFFICES ASSUME NEW k \in 1..Len(list)
               PROVE  fields[k].span = NameCount(list[k]) /\ fields[k].type = list[k].type
    OBVIOUS
  <2> DEFINE n == NameCount(list[k])
             t == list[k].type
  <2>1. fields[k] = [span |-> n, type |-> t]
    BY <1>7
  <2> HIDE DEF n, t
  <2>2. fields[k].span = n /\ fields[k].type = t
    BY <2>1
  <2> QED
    BY <2>2 DEF n, t
<1>8. ParamTypes(f) = TypesOf(fields)
  <2>1. ParamTypes(f) = FlattenSeq([k \in 1..Len(list) |-> [i \in 1..NameCount(list[k]) |-> list[k].type]])
    BY <1>2 DEF ParamTypes, list
  <2>2. Spans(fields) = [k \in 1..Len(list) |-> [i \in 1..fields[k].span |-> fields[k].type]]
    BY <1>6 DEF Spans
  <2>3. \A k \in 1..Len(list) :
          [i \in 1..fields[k].span |-> fields[k].type] = [i \in 1..NameCount(list[k]) |-> list[k].type]
    BY ONLY <1>10
  <2>4. Spans(fields) = [k \in 1..Len(list) |-> [i \in 1..NameCount(list[k]) |-> list[k].type]]
    BY <2>2, <2>3
  <2> QED
    BY <2>1, <2>4 DEF TypesOf
<1>9. ASSUME NEW k \in 1..Len(list) PROVE ParamsBefore(f, k) = Upto(fields, k - 1)
  <2>1. k - 1 \in 0..Len(fields) /\ \A j \in 1..(k - 1) : j \in 1..Len(list)
    BY <1>2, <1>6
  <2>2. Len(FlattenSeq([j \in 1..(k - 1) |-> [i \in 1..fields[j].span |-> j]])) = Upto(fields, k - 1)
    BY <1>6, <2>1, CountPlaces
  <2>3. \A j \in 1..(k - 1) : [i \in 1..fields[j].span |-> j] = [i \in 1..NameCount(list[j]) |-> j]
    <3>1. \A j \in 1..(k - 1) : fields[j].span = NameCount(list[j])
      BY <1>10, <2>1
    <3> QED
      BY ONLY <3>1
  <2>4. [j \in 1..(k - 1) |-> [i \in 1..fields[j].span |-> j]]
        = [j \in 1..(k - 1) |-> [i \in 1..NameCount(list[j]) |-> j]]
    BY <2>3
  <2>5. ParamsBefore(f, k) = Len(FlattenSeq([j \in 1..(k - 1) |-> [i \in 1..NameCount(list[j]) |-> j]]))
    BY DEF ParamsBefore, list
  <2> QED
    BY <2>2, <2>4, <2>5
<1> QED
  BY <1>2, <1>6, <1>7, <1>8, <1>9 DEF list, fields

(* A switch stands in a body, and a parameter that it switches on is one   *)
(* of a signature of the same file.                                        *)
LEMMA OperandPlaces ==
  ASSUME Typed, NEW f \in Func, NEW s \in 1..Len(operands[f])
  PROVE  /\ operands[f][s] \in Operand /\ pkg.fn[f].kind \in {"decl", "lit"}
         /\ operands[f][s].kind = "param" =>
              LET operand == operands[f][s] IN
              /\ operand.of \in Func /\ pkg.fn[operand.of].kind \in {"decl", "lit"}
              /\ pkg.fn[operand.of].generated = pkg.fn[f].generated
              /\ operand.field \in 1..Len(params[operand.of])
              /\ operand.name \in 1..NameCount(params[operand.of][operand.field])
<1>1. /\ pkg \in Packages /\ operands[f] \in Seq(Operand) /\ Len(operands[f]) = Len(pkg.operands[f])
      /\ operands[f][s].kind = pkg.operands[f][s].kind
      /\ operands[f][s].kind = "param" =>
           /\ operands[f][s].of = pkg.operands[f][s].of
           /\ operands[f][s].field = pkg.operands[f][s].field
           /\ operands[f][s].name = pkg.operands[f][s].name
  BY DEF Typed
<1>2. operands[f][s] \in Operand
  BY <1>1, ElementOfSeq
<1>3. s \in DOMAIN pkg.operands[f]
  <2>1. pkg.operands[f] \in Seq([kind : {"param"}, of : DOMAIN pkg.fn, field : Nat, name : Nat, type : Concrete \cup Interface]
             \cup [kind : {"value", "typeparam"}, type : Concrete \cup Interface])
    BY <1>1, PackageAssumption DEF Func
  <2>2. DOMAIN pkg.operands[f] = 1..Len(pkg.operands[f])
    BY <2>1, LenProperties
  <2> QED
    BY <1>1, <2>2
<1>4. /\ pkg.fn[f].kind \in {"decl", "lit"}
      /\ pkg.operands[f][s].kind = "param" =>
           /\ pkg.fn[pkg.operands[f][s].of].kind \in {"decl", "lit"}
           /\ pkg.fn[pkg.operands[f][s].of].generated = pkg.fn[f].generated
           /\ pkg.operands[f][s].field \in DOMAIN pkg.params[pkg.operands[f][s].of]
           /\ pkg.operands[f][s].name \in 1..NameCount(pkg.params[pkg.operands[f][s].of][pkg.operands[f][s].field])
  BY <1>1, <1>3, OperandAssumption DEF Func
<1>5. ASSUME operands[f][s].kind = "param"
      PROVE  /\ operands[f][s].of \in Func
             /\ operands[f][s].field \in 1..Len(params[operands[f][s].of])
             /\ operands[f][s].name \in 1..NameCount(params[operands[f][s].of][operands[f][s].field])
  <2> DEFINE g == operands[f][s].of
             k == operands[f][s].field
  <2>1. g \in Func
    BY <1>2, <1>5 DEF Operand
  <2>2. pkg.params[g] \in Seq(Param)
    BY <1>1, <2>1, PackageAssumption DEF Func, Param, Types
  <2>3. DOMAIN pkg.params[g] = 1..Len(pkg.params[g])
    BY <2>2, LenProperties
  <2>4. Len(params[g]) = Len(pkg.params[g]) /\ \A j \in 1..Len(params[g]) : params[g][j].names = pkg.params[g][j].names
    BY <2>1 DEF Typed
  <2>5. k \in 1..Len(params[g])
    BY <1>1, <1>4, <1>5, <2>3, <2>4
  <2>6. NameCount(params[g][k]) = NameCount(pkg.params[g][k])
    BY <2>4, <2>5 DEF NameCount
  <2>7. operands[f][s].name \in 1..NameCount(pkg.params[g][k])
    BY <1>1, <1>4, <1>5
  <2> HIDE DEF g, k
  <2>8. operands[f][s].name \in 1..NameCount(params[g][k])
    BY <2>6, <2>7
  <2> QED
    BY <2>1, <2>5, <2>8 DEF g, k
<1> QED
  BY <1>1, <1>2, <1>4, <1>5

(* What a report names.                                                    *)
Listed ==
  \A r \in reports :
    /\ r.fn \in 1..next /\ r.fn \in Func
    /\ r.rule \in {"noanyparam", "noanyreturn", "nointerfacereturn", "noadhoctypeswitch"}
    /\ r.built \in Concrete \cup {NoType}
    /\ r.rule = "nointerfacereturn" <=> r.built # NoType
    /\ r.rule = "noanyparam" => \E k \in 1..Len(params[r.fn]) : r.at = {k}
    /\ r.rule = "noadhoctypeswitch" => \E s \in 1..Len(operands[r.fn]) : r.at = {s}

(* The results of a signature after an edit.                               *)
LEMMA NarrowEffect ==
  ASSUME Typed, NEW r, r.fn \in Func, r.built \in Types, Narrow(r)
  PROVE  /\ results' \in [Func -> Seq(Field)]
         /\ \A g \in Func : g # r.fn => results'[g] = results[g]
         /\ Len(TypesOf(results'[r.fn])) = Len(ResultTypes(r.fn))
         /\ \A k \in 1..Len(results[r.fn]) : \A pos \in Positions(r.fn, k) :
              TypesOf(results'[r.fn])[pos] =
                IF Positions(r.fn, k) \subseteq r.at /\ SingleConcrete(r.fn, pos) = r.built
                THEN r.built ELSE ResultTypes(r.fn)[pos]
<1> DEFINE f == r.fn
           fields == results[f]
           given == [pos \in Nat |-> SingleConcrete(f, pos)]
           new == FlattenSeq(Split(fields, r.at, given, r.built))
<1>1. /\ fields \in Seq(Field) /\ ResultTypes(f) = TypesOf(fields)
      /\ \A k \in 0..Len(fields) : Before(f, k) = Upto(fields, k)
      /\ \A k \in 1..Len(fields) : Positions(f, k) = Block(fields, k)
  BY ResultPlaces
<1>2. Len(fields) \in Nat /\ DOMAIN fields = 1..Len(fields)
  BY <1>1, LenProperties
<1>3. \A k \in 0..Len(fields) : Upto(fields, k) \in Nat
  BY <1>1, Places
<1>4. results' = [results EXCEPT ![f] = new]
  <2> DEFINE body(k) ==
        IF Positions(f, k) \subseteq r.at
        THEN [i \in 1..fields[k].span |->
                [span |-> 1, type |-> IF SingleConcrete(f, Before(f, k - 1) + i) = r.built
                                      THEN r.built ELSE fields[k].type]]
        ELSE <<fields[k]>>
  <2>1. results' = [results EXCEPT ![f] = FlattenSeq([k \in DOMAIN fields |-> body(k)])]
    BY DEF Narrow, Typed
  <2>2. ASSUME NEW k \in DOMAIN fields PROVE body(k) = Split(fields, r.at, given, r.built)[k]
    <3>1. k \in 1..Len(fields) /\ k - 1 \in 0..Len(fields)
      BY <1>2
    <3>2. Positions(f, k) = Block(fields, k) /\ Before(f, k - 1) = Upto(fields, k - 1) /\ Upto(fields, k - 1) \in Nat
      BY <1>1, <1>3, <3>1
    <3>3. \A i \in 1..fields[k].span : given[Upto(fields, k - 1) + i] = SingleConcrete(f, Before(f, k - 1) + i)
      BY <3>2
    <3> HIDE DEF given
    <3>4. [i \in 1..fields[k].span |->
             [span |-> 1, type |-> IF SingleConcrete(f, Before(f, k - 1) + i) = r.built
                                   THEN r.built ELSE fields[k].type]]
          = [i \in 1..fields[k].span |->
             [span |-> 1, type |-> IF given[Upto(fields, k - 1) + i] = r.built
                                   THEN r.built ELSE fields[k].type]]
      BY <3>3
    <3>5. Split(fields, r.at, given, r.built)[k] =
            IF Block(fields, k) \subseteq r.at
            THEN [i \in 1..fields[k].span |->
                    [span |-> 1, type |-> IF given[Upto(fields, k - 1) + i] = r.built
                                          THEN r.built ELSE fields[k].type]]
            ELSE <<fields[k]>>
      BY DEF Split
    <3> HIDE DEF fields
    <3> QED
      BY <3>2, <3>4, <3>5
  <2> DEFINE list == Split(fields, r.at, given, r.built)
  <2>3. list = [k \in DOMAIN fields |-> list[k]]
    BY DEF Split
  <2> HIDE DEF body, list, given, fields
  <2>4. [k \in DOMAIN fields |-> body(k)] = list
    BY <2>2, <2>3 DEF list
  <2> QED
    BY <2>1, <2>4 DEF list
<1> HIDE DEF given
<1>5. /\ new \in Seq(Field) /\ Len(TypesOf(new)) = Len(TypesOf(fields))
      /\ \A k \in 1..Len(fields) : \A pos \in Block(fields, k) :
           TypesOf(new)[pos] =
             IF Block(fields, k) \subseteq r.at /\ given[pos] = r.built THEN r.built ELSE fields[k].type
  BY <1>1, SplitTypes
<1> HIDE DEF new
<1>6. results \in [Func -> Seq(Field)]
  BY DEF Typed
<1>7. /\ results' \in [Func -> Seq(Field)] /\ results'[f] = new
      /\ \A g \in Func : g # f => results'[g] = results[g]
  BY <1>4, <1>5, <1>6
<1>8. ASSUME NEW k \in 1..Len(fields), NEW pos \in Positions(f, k)
      PROVE  TypesOf(new)[pos] =
               IF Positions(f, k) \subseteq r.at /\ SingleConcrete(f, pos) = r.built
               THEN r.built ELSE ResultTypes(f)[pos]
  <2>1. pos \in Block(fields, k)
    BY <1>1
  <2>2. ResultTypes(f)[pos] = fields[k].type /\ pos \in 1..Len(TypesOf(fields))
    BY <1>1, <2>1, Places
  <2>3. pos \in Nat
    BY <2>2
  <2>4. given[pos] = SingleConcrete(f, pos)
    BY <2>3 DEF given
  <2> QED
    BY <1>1, <1>5, <2>1, <2>2, <2>4
<1> QED
  BY <1>1, <1>5, <1>7, <1>8

LEMMA RetypeEffect ==
  ASSUME Typed, NEW f \in Func, NEW at, RetypeResult(f, at)
  PROVE  /\ results' \in [Func -> Seq(Field)]
         /\ \A g \in Func : g # f => results'[g] = results[g]
         /\ Len(TypesOf(results'[f])) = Len(ResultTypes(f))
         /\ \A k \in 1..Len(results[f]) : \A pos \in Positions(f, k) :
              TypesOf(results'[f])[pos] = IF Positions(f, k) \subseteq at THEN Payload ELSE ResultTypes(f)[pos]
<1> DEFINE fields == results[f]
           new == [k \in DOMAIN fields |->
                     IF Positions(f, k) \subseteq at THEN [fields[k] EXCEPT !.type = Payload] ELSE fields[k]]
<1>1. /\ fields \in Seq(Field) /\ ResultTypes(f) = TypesOf(fields)
      /\ \A k \in 1..Len(fields) : Positions(f, k) = Block(fields, k)
  BY ResultPlaces
<1>2. Len(fields) \in Nat /\ DOMAIN fields = 1..Len(fields) /\ \A k \in 1..Len(fields) : fields[k] \in Field
  BY <1>1, LenProperties, ElementOfSeq
<1>3. results' = [results EXCEPT ![f] = new]
  BY DEF RetypeResult, Typed
<1>4. Payload \in Types
  BY TypeAssumption DEF Types
<1> HIDE DEF fields
<1>5. ASSUME NEW k \in 1..Len(fields)
      PROVE  /\ new[k] \in Field /\ new[k].span = fields[k].span
             /\ new[k].type = IF Positions(f, k) \subseteq at THEN Payload ELSE fields[k].type
  <2>1. new[k] = IF Positions(f, k) \subseteq at THEN [fields[k] EXCEPT !.type = Payload] ELSE fields[k]
    BY <1>2
  <2>2. fields[k] \in Field
    BY <1>2
  <2> HIDE DEF new
  <2> QED
    BY <1>4, <2>1, <2>2 DEF Field
<1>6. new \in Seq(Field) /\ Len(new) = Len(fields)
  <2>1. new = [k \in 1..Len(fields) |-> new[k]]
    BY <1>2
  <2>2. \A k \in 1..Len(fields) : new[k] \in Field
    BY <1>5
  <2> HIDE DEF new
  <2> QED
    BY ONLY <1>2, <2>1, <2>2
<1> HIDE DEF new
<1>7. \A k \in 1..Len(new) : new[k].span = fields[k].span
  BY <1>5, <1>6
<1>8. /\ \A k \in 1..Len(new) : Block(new, k) = Block(fields, k)
      /\ Len(TypesOf(new)) = Len(TypesOf(fields))
  BY <1>1, <1>6, <1>7, SameBlocks
<1>9. results \in [Func -> Seq(Field)]
  BY DEF Typed
<1>10. /\ results' \in [Func -> Seq(Field)] /\ results'[f] = new
       /\ \A g \in Func : g # f => results'[g] = results[g]
  BY <1>3, <1>6, <1>9
<1>11. ASSUME NEW k \in 1..Len(fields), NEW pos \in Positions(f, k)
       PROVE  TypesOf(new)[pos] = IF Positions(f, k) \subseteq at THEN Payload ELSE ResultTypes(f)[pos]
  <2>1. pos \in Block(fields, k) /\ pos \in Block(new, k) /\ k \in 1..Len(new)
    BY <1>1, <1>6, <1>8
  <2>2. ResultTypes(f)[pos] = fields[k].type
    BY <1>1, <2>1, Places
  <2>3. TypesOf(new)[pos] = new[k].type
    BY <1>6, <2>1, Places
  <2> QED
    BY <1>5, <2>2, <2>3
<1> QED
  BY <1>1, <1>8, <1>10, <1>11 DEF fields

LEMMA ParamEffect ==
  ASSUME Typed, NEW f \in Func, NEW k \in 1..Len(params[f]), RetypeParam(f, k)
  PROVE  /\ params' \in [Func -> Seq(Param)]
         /\ \A g \in Func : g # f => params'[g] = params[g]
         /\ Len(params'[f]) = Len(params[f])
         /\ \A j \in 1..Len(params[f]) :
              params'[f][j] = IF j = k THEN [params[f][k] EXCEPT !.type = Payload] ELSE params[f][j]
<1> DEFINE list == params[f]
           field == [list[k] EXCEPT !.type = Payload]
           new == [list EXCEPT ![k] = field]
<1>1. /\ params \in [Func -> Seq(Param)] /\ list \in Seq(Param) /\ Payload \in Types
      /\ params' = [params EXCEPT ![f] = new]
  BY TypeAssumption DEF Typed, RetypeParam, Types
<1> HIDE DEF list
<1>2. Len(list) \in Nat /\ DOMAIN list = 1..Len(list) /\ k \in 1..Len(list) /\ list[k] \in Param
  BY <1>1, LenProperties, ElementOfSeq DEF list
<1>3. field \in Param
  BY <1>1, <1>2 DEF Param
<1> HIDE DEF field
<1>4. /\ new \in Seq(Param) /\ Len(new) = Len(list)
      /\ \A j \in 1..Len(list) : new[j] = IF j = k THEN field ELSE list[j]
  BY <1>1, <1>2, <1>3, ExceptSeq
<1> HIDE DEF new
<1>5. /\ params' \in [Func -> Seq(Param)] /\ params'[f] = new
      /\ \A g \in Func : g # f => params'[g] = params[g]
  BY <1>1, <1>4
<1> QED
  BY <1>4, <1>5 DEF field, list

LEMMA OperandEffect ==
  ASSUME Typed, NEW f \in Func, NEW s \in 1..Len(operands[f]), operands[f][s].kind # "param",
         RetypeOperand(f, s)
  PROVE  /\ operands' \in [Func -> Seq(Operand)]
         /\ \A g \in Func : g # f => operands'[g] = operands[g]
         /\ Len(operands'[f]) = Len(operands[f])
         /\ \A i \in 1..Len(operands[f]) : i # s => operands'[f][i] = operands[f][i]
         /\ operands'[f][s].kind = operands[f][s].kind
<1> DEFINE list == operands[f]
           new == [list EXCEPT ![s].type = Payload]
<1>1. /\ operands \in [Func -> Seq(Operand)] /\ list \in Seq(Operand) /\ Payload \in Types
      /\ operands' = [operands EXCEPT ![f] = new]
  BY TypeAssumption DEF Typed, RetypeOperand, Types
<1>2. s \in 1..Len(list) /\ list[s].kind # "param"
  OBVIOUS
<1> HIDE DEF list
<1>3. Len(list) \in Nat /\ DOMAIN list = 1..Len(list) /\ list[s] \in Operand
  BY <1>1, <1>2, LenProperties, ElementOfSeq
<1> DEFINE x == [list[s] EXCEPT !.type = Payload]
<1>4. x \in Operand /\ x.kind = list[s].kind
  <2>1. list[s] \in [kind : {"value", "typeparam"}, type : Types]
    BY <1>2, <1>3 DEF Operand
  <2>2. x \in [kind : {"value", "typeparam"}, type : Types] /\ x.kind = list[s].kind
    BY <1>1, <2>1
  <2> QED
    BY <2>2 DEF Operand
<1> HIDE DEF x
<1>5. /\ new \in Seq(Operand) /\ Len(new) = Len(list)
      /\ \A j \in 1..Len(list) : new[j] = IF j = s THEN x ELSE list[j]
  <2>1. new = [list EXCEPT ![s] = x]
    BY DEF x
  <2> HIDE DEF new
  <2> QED
    BY <1>1, <1>2, <1>3, <1>4, <2>1, ExceptSeq
<1> HIDE DEF new
<1>6. /\ operands' \in [Func -> Seq(Operand)] /\ operands'[f] = new
      /\ \A g \in Func : g # f => operands'[g] = operands[g]
  BY <1>1, <1>5
<1> QED
  BY <1>2, <1>4, <1>5, <1>6 DEF list

LEMMA OperandIs ==
  ASSUME Typed, Listed, NEW r \in reports, r.rule = "noadhoctypeswitch"
  PROVE  \E s \in 1..Len(operands[r.fn]) :
           /\ r.at = {s} /\ OperandOf(r) = operands[r.fn][s]
           /\ operands[r.fn][s].kind = "param" =>
                /\ operands[r.fn][s].of \in Func
                /\ operands[r.fn][s].field \in 1..Len(params[operands[r.fn][s].of])
<1>1. r.fn \in Func /\ \E s \in 1..Len(operands[r.fn]) : r.at = {s}
  BY DEF Listed
<1>2. PICK s \in 1..Len(operands[r.fn]) : r.at = {s}
  BY <1>1
<1>3. OperandOf(r) = operands[r.fn][s]
  BY <1>2 DEF OperandOf
<1>4. operands[r.fn][s].kind = "param" =>
        /\ operands[r.fn][s].of \in Func
        /\ operands[r.fn][s].field \in 1..Len(params[operands[r.fn][s].of])
  BY <1>1, OperandPlaces
<1> QED
  BY <1>2, <1>3, <1>4

LEMMA InitTyped ==
  ASSUME Init
  PROVE  Typed /\ Listed
<1>1. /\ pkg \in Packages /\ params = pkg.params /\ results = pkg.results
      /\ comment = pkg.comment /\ operands = pkg.operands
      /\ phase = "run" /\ next = 0 /\ reports = {} /\ held = Implementing
  BY DEF Init
<1>2. /\ pkg.fn \in Seq([kind : {"decl", "lit", "method", "extern"}, owner : STRING, name : STRING,
                     endsInF : BOOLEAN, generated : BOOLEAN,
                     returns : Seq(Seq([kind : {"value"}, type : Concrete \cup Interface]
                                       \cup [kind : {"call"}, callee : DOMAIN pkg.fn] \cup [kind : {"nil"}]))])
      /\ pkg.params \in [DOMAIN pkg.fn -> Seq([names : Seq(STRING), type : Concrete \cup Interface, variadic : BOOLEAN])]
      /\ pkg.results \in [DOMAIN pkg.fn -> Seq([span : Nat \ {0}, type : Concrete \cup Interface])]
      /\ pkg.comment \in [DOMAIN pkg.fn -> [above : BOOLEAN, doc : BOOLEAN, marker : BOOLEAN]]
      /\ pkg.operands \in [DOMAIN pkg.fn ->
           Seq([kind : {"param"}, of : DOMAIN pkg.fn, field : Nat, name : Nat, type : Concrete \cup Interface]
               \cup [kind : {"value", "typeparam"}, type : Concrete \cup Interface])]
  BY <1>1, PackageAssumption
<1>3. params \in [Func -> Seq(Param)]
  BY <1>1, <1>2 DEF Func, Param, Types
<1>4. results \in [Func -> Seq(Field)]
  BY <1>1, <1>2 DEF Func, Field, Types
<1>5. comment \in [Func -> [above : BOOLEAN, doc : BOOLEAN, marker : BOOLEAN]]
  BY <1>1, <1>2 DEF Func
<1>6. operands \in [Func -> Seq(Operand)]
  BY <1>1, <1>2 DEF Func, Operand, Types
<1>7. \A f \in Func : Len(TypesOf(results[f])) = Count(pkg.results[f])
  <2> SUFFICES ASSUME NEW f \in Func PROVE Len(TypesOf(results[f])) = Count(pkg.results[f])
    OBVIOUS
  <2>1. results[f] \in Seq(Field) /\ 0 \in 0..Len(results[f])
    BY <1>4, LenProperties
  <2> QED
    BY <1>1, <2>1, CountPlaces
<1>8. Len(pkg.fn) \in Nat /\ next \in 0..Len(pkg.fn)
  BY <1>1, <1>2, LenProperties
<1>9. held \subseteq (DOMAIN pkg.embeds) \X Iface
  BY <1>1 DEF Implementing
<1>10. \A f \in Func :
       /\ Len(params[f]) = Len(pkg.params[f])
       /\ \A k \in 1..Len(params[f]) : params[f][k].names = pkg.params[f][k].names
       /\ Len(TypesOf(results[f])) = Count(pkg.results[f])
       /\ Len(operands[f]) = Len(pkg.operands[f])
       /\ \A s \in 1..Len(operands[f]) :
            LET now == operands[f][s] then == pkg.operands[f][s] IN
            /\ now.kind = then.kind
            /\ now.kind = "param" => now.of = then.of /\ now.field = then.field /\ now.name = then.name
  BY <1>1, <1>7
<1>11. Typed
  BY <1>1, <1>3, <1>4, <1>5, <1>6, <1>8, <1>9, <1>10 DEF Typed
<1>12. Listed
  BY <1>1 DEF Listed
<1> QED
  BY <1>11, <1>12

(* Which part of the package each step changes, and how.                   *)
LEMMA Edits ==
  ASSUME Typed, Listed, Next
  PROVE  \/ UNCHANGED source
         \/ \E r \in reports : Narrow(r) /\ r.fn \in Func /\ r.built \in Concrete /\ UNCHANGED <<params, comment, operands>>
         \/ \E f \in Func : \E k \in 1..Len(params[f]) :
              RetypeParam(f, k) /\ UNCHANGED <<results, comment, operands>>
         \/ \E r \in reports : r.rule = "noanyreturn" /\ r.fn \in Func /\ RetypeResult(r.fn, r.at) /\ UNCHANGED <<params, comment, operands>>
         \/ \E f \in Func : \E s \in 1..Len(operands[f]) :
              operands[f][s].kind # "param" /\ RetypeOperand(f, s) /\ UNCHANGED <<params, results, comment>>
         \/ /\ \E f \in Func : \E marker \in BOOLEAN :
                 comment' = [comment EXCEPT ![f] = [above |-> TRUE, doc |-> @.doc, marker |-> marker]]
            /\ UNCHANGED <<params, results, operands>>
<1>1. CASE Visit \/ Finish \/ Rerun
  BY <1>1 DEF Visit, Finish, Rerun, source
<1>2. ASSUME NEW r \in reports, Narrow(r)
      PROVE  r.fn \in Func /\ r.built \in Concrete /\ UNCHANGED <<params, comment, operands>>
  BY <1>2 DEF Narrow, Listed
<1>3. ASSUME NEW r \in reports, Retype(r)
      PROVE  \/ \E f \in Func : \E k \in 1..Len(params[f]) :
                  RetypeParam(f, k) /\ UNCHANGED <<results, comment, operands>>
             \/ r.rule = "noanyreturn" /\ r.fn \in Func /\ RetypeResult(r.fn, r.at) /\ UNCHANGED <<params, comment, operands>>
             \/ \E f \in Func : \E s \in 1..Len(operands[f]) :
                  operands[f][s].kind # "param" /\ RetypeOperand(f, s) /\ UNCHANGED <<params, results, comment>>
  <2>1. r.fn \in Func
    BY DEF Listed
  <2>2. CASE r.rule = "noanyparam" /\ \E k \in r.at : RetypeParam(r.fn, k)
    <3>1. \E k \in 1..Len(params[r.fn]) : RetypeParam(r.fn, k)
      BY <2>2 DEF Listed
    <3> QED
      BY <2>1, <3>1 DEF RetypeParam
  <2>3. CASE r.rule = "noanyreturn" /\ RetypeResult(r.fn, r.at)
    BY <2>1, <2>3 DEF RetypeResult
  <2>4. CASE /\ r.rule = "noadhoctypeswitch"
             /\ OperandOf(r).kind = "param" /\ RetypeParam(OperandOf(r).of, OperandOf(r).field)
    <3>1. OperandOf(r).of \in Func /\ OperandOf(r).field \in 1..Len(params[OperandOf(r).of])
      BY <2>4, OperandIs
    <3> QED
      BY <2>4, <3>1 DEF RetypeParam
  <2>5. CASE /\ r.rule = "noadhoctypeswitch"
             /\ OperandOf(r).kind # "param" /\ \E s \in r.at : RetypeOperand(r.fn, s)
    <3>1. PICK s \in 1..Len(operands[r.fn]) : r.at = {s} /\ OperandOf(r) = operands[r.fn][s]
      BY <2>5, OperandIs
    <3>2. RetypeOperand(r.fn, s) /\ operands[r.fn][s].kind # "param"
      BY <2>5, <3>1
    <3> QED
      BY <2>1, <3>2 DEF RetypeOperand
  <2> QED
    BY <1>3, <2>2, <2>3, <2>4, <2>5 DEF Retype
<1>4. ASSUME NEW r \in reports, Comment(r)
      PROVE  /\ \E f \in Func : \E marker \in BOOLEAN :
                  comment' = [comment EXCEPT ![f] = [above |-> TRUE, doc |-> @.doc, marker |-> marker]]
             /\ UNCHANGED <<params, results, operands>>
  <2> DEFINE f == IF r.rule = "noadhoctypeswitch" THEN OperandOf(r).of ELSE r.fn
  <2>1. f \in Func
    <3>1. CASE r.rule = "noadhoctypeswitch"
      BY <1>4, <3>1, OperandIs DEF Comment
    <3>2. CASE r.rule # "noadhoctypeswitch"
      BY <3>2 DEF Listed
    <3> QED
      BY <3>1, <3>2
  <2>2. /\ \E marker \in {comment[f].marker, TRUE} :
             comment' = [comment EXCEPT ![f] = [above |-> TRUE, doc |-> @.doc, marker |-> marker]]
        /\ UNCHANGED <<params, results, operands>>
    BY <1>4 DEF Comment
  <2>3. comment[f] \in [above : BOOLEAN, doc : BOOLEAN, marker : BOOLEAN]
    BY <2>1 DEF Typed
  <2> HIDE DEF f
  <2>4. {comment[f].marker, TRUE} \subseteq BOOLEAN
    BY <2>3
  <2> QED
    BY <2>1, <2>2, <2>4
<1> QED
  BY <1>1, <1>2, <1>3, <1>4 DEF Next, Obey

LEMMA Steps ==
  ASSUME Typed, Next
  PROVE  /\ pkg' = pkg /\ Func' = Func
         /\ phase' \in {"run", "ran", "edited"} /\ next' \in 0..Len(pkg.fn)
         /\ held' \subseteq (DOMAIN pkg.embeds) \X Iface
<1>1. Len(pkg.fn) \in Nat /\ next \in 0..Len(pkg.fn)
  BY Functions DEF Typed
<1>2. ASSUME NEW r \in reports, Obey(r)
      PROVE  pkg' = pkg /\ phase' = "edited" /\ next' = next /\ held' = held
  BY <1>2 DEF Obey, Narrow, Retype, Comment, Edited, RetypeParam, RetypeResult, RetypeOperand
<1>3. CASE Visit
  BY <1>1, <1>3 DEF Visit, Typed, Func
<1>4. CASE Finish
  BY <1>1, <1>4 DEF Finish, Typed, Func
<1>5. CASE Rerun
  BY <1>1, <1>5 DEF Rerun, Implementing, Func
<1>6. CASE \E r \in reports : Obey(r)
  BY <1>1, <1>2, <1>6 DEF Typed, Func
<1> QED
  BY <1>3, <1>4, <1>5, <1>6 DEF Next

LEMMA TypedStep ==
  ASSUME Typed, Listed, Next
  PROVE  Typed'
<1>0. pkg' = pkg /\ Func' = Func /\ Operand' = Operand
  BY Steps DEF Operand, Func
<1>1. /\ pkg \in Packages
      /\ params \in [Func -> Seq(Param)] /\ results \in [Func -> Seq(Field)]
      /\ comment \in [Func -> [above : BOOLEAN, doc : BOOLEAN, marker : BOOLEAN]]
      /\ operands \in [Func -> Seq(Operand)]
      /\ \A f \in Func :
           /\ Len(params[f]) = Len(pkg.params[f])
           /\ \A k \in 1..Len(params[f]) : params[f][k].names = pkg.params[f][k].names
      /\ \A f \in Func : Len(TypesOf(results[f])) = Count(pkg.results[f])
      /\ \A f \in Func :
           /\ Len(operands[f]) = Len(pkg.operands[f])
           /\ \A s \in 1..Len(operands[f]) :
                LET now == operands[f][s] then == pkg.operands[f][s] IN
                /\ now.kind = then.kind
                /\ now.kind = "param" => now.of = then.of /\ now.field = then.field /\ now.name = then.name
  BY DEF Typed
<1>2. SUFFICES
        /\ params' \in [Func -> Seq(Param)] /\ results' \in [Func -> Seq(Field)]
        /\ comment' \in [Func -> [above : BOOLEAN, doc : BOOLEAN, marker : BOOLEAN]]
        /\ operands' \in [Func -> Seq(Operand)]
        /\ \A f \in Func :
             /\ Len(params'[f]) = Len(pkg.params[f])
             /\ \A k \in 1..Len(params'[f]) : params'[f][k].names = pkg.params[f][k].names
        /\ \A f \in Func : Len(TypesOf(results'[f])) = Count(pkg.results[f])
        /\ \A f \in Func :
             /\ Len(operands'[f]) = Len(pkg.operands[f])
             /\ \A s \in 1..Len(operands'[f]) :
                  LET now == operands'[f][s] then == pkg.operands[f][s] IN
                  /\ now.kind = then.kind
                  /\ now.kind = "param" => now.of = then.of /\ now.field = then.field /\ now.name = then.name
  <2>1. /\ pkg' \in Packages /\ phase' \in {"run", "ran", "edited"} /\ next' \in 0..Len(pkg'.fn)
        /\ held' \subseteq (DOMAIN pkg'.embeds) \X Iface'
    BY <1>0, <1>1, Steps DEF Iface
  <2> QED
    BY <1>0, <2>1 DEF Typed
<1>3. CASE UNCHANGED source
  BY <1>1, <1>3 DEF source
<1>4. ASSUME NEW r \in reports, Narrow(r), r.fn \in Func, r.built \in Concrete, UNCHANGED <<params, comment, operands>>
      PROVE  results' \in [Func -> Seq(Field)] /\ \A f \in Func : Len(TypesOf(results'[f])) = Count(pkg.results[f])
  <2>1. /\ results' \in [Func -> Seq(Field)]
        /\ \A g \in Func : g # r.fn => results'[g] = results[g]
        /\ Len(TypesOf(results'[r.fn])) = Len(ResultTypes(r.fn))
    BY <1>4, NarrowEffect DEF Types
  <2>2. Len(ResultTypes(r.fn)) = Count(pkg.results[r.fn])
    BY <1>4, ResultPlaces
  <2>3. ASSUME NEW f \in Func PROVE Len(TypesOf(results'[f])) = Count(pkg.results[f])
    <3>1. CASE f = r.fn
      BY <2>1, <2>2, <3>1
    <3>2. CASE f # r.fn
      <4>1. results'[f] = results[f]
        BY <2>1, <3>2
      <4> QED
        BY <1>1, <4>1
    <3> QED
      BY <3>1, <3>2
  <2> QED
    BY <2>1, <2>3
<1>5. ASSUME NEW h \in Func, NEW at, RetypeResult(h, at), UNCHANGED <<params, comment, operands>>
      PROVE  results' \in [Func -> Seq(Field)] /\ \A f \in Func : Len(TypesOf(results'[f])) = Count(pkg.results[f])
  <2>1. /\ results' \in [Func -> Seq(Field)]
        /\ \A g \in Func : g # h => results'[g] = results[g]
        /\ Len(TypesOf(results'[h])) = Len(ResultTypes(h))
    BY <1>5, RetypeEffect
  <2>2. Len(ResultTypes(h)) = Count(pkg.results[h])
    BY <1>5, ResultPlaces
  <2>3. ASSUME NEW f \in Func PROVE Len(TypesOf(results'[f])) = Count(pkg.results[f])
    <3>1. CASE f = h
      BY <2>1, <2>2, <3>1
    <3>2. CASE f # h
      <4>1. results'[f] = results[f]
        BY <2>1, <3>2
      <4> QED
        BY <1>1, <4>1
    <3> QED
      BY <3>1, <3>2
  <2> QED
    BY <2>1, <2>3
<1>6. ASSUME NEW h \in Func, NEW k \in 1..Len(params[h]), RetypeParam(h, k), UNCHANGED <<results, comment, operands>>
      PROVE  /\ params' \in [Func -> Seq(Param)]
             /\ \A f \in Func :
                  /\ Len(params'[f]) = Len(pkg.params[f])
                  /\ \A j \in 1..Len(params'[f]) : params'[f][j].names = pkg.params[f][j].names
  <2>1. /\ params' \in [Func -> Seq(Param)]
        /\ \A g \in Func : g # h => params'[g] = params[g]
        /\ Len(params'[h]) = Len(params[h])
        /\ \A j \in 1..Len(params[h]) :
             params'[h][j] = IF j = k THEN [params[h][k] EXCEPT !.type = Payload] ELSE params[h][j]
    BY <1>6, ParamEffect
  <2>2. params[h][k] \in Param
    BY <1>1, <1>6, ElementOfSeq
  <2>3. \A j \in 1..Len(params[h]) : params'[h][j].names = params[h][j].names
    <3>1. [params[h][k] EXCEPT !.type = Payload].names = params[h][k].names
      BY <2>2 DEF Param
    <3> QED
      BY <2>1, <3>1
  <2>4. ASSUME NEW f \in Func
        PROVE  /\ Len(params'[f]) = Len(pkg.params[f])
               /\ \A j \in 1..Len(params'[f]) : params'[f][j].names = pkg.params[f][j].names
    <3>1. CASE f = h
      BY <1>1, <2>1, <2>3, <3>1
    <3>2. CASE f # h
      BY <1>1, <2>1, <3>2
    <3> QED
      BY <3>1, <3>2
  <2> QED
    BY <2>1, <2>4
<1>7. ASSUME NEW h \in Func, NEW i \in 1..Len(operands[h]), operands[h][i].kind # "param", RetypeOperand(h, i),
             UNCHANGED <<params, results, comment>>
      PROVE  /\ operands' \in [Func -> Seq(Operand)]
             /\ \A f \in Func :
                  /\ Len(operands'[f]) = Len(pkg.operands[f])
                  /\ \A s \in 1..Len(operands'[f]) :
                       LET now == operands'[f][s] then == pkg.operands[f][s] IN
                       /\ now.kind = then.kind
                       /\ now.kind = "param" => now.of = then.of /\ now.field = then.field /\ now.name = then.name
  <2>1. /\ operands' \in [Func -> Seq(Operand)]
        /\ \A g \in Func : g # h => operands'[g] = operands[g]
        /\ Len(operands'[h]) = Len(operands[h])
        /\ \A s \in 1..Len(operands[h]) : s # i => operands'[h][s] = operands[h][s]
        /\ operands'[h][i].kind = operands[h][i].kind
    BY <1>7, OperandEffect
  <2>2. ASSUME NEW f \in Func, NEW s \in 1..Len(operands'[f])
        PROVE  LET now == operands'[f][s] then == pkg.operands[f][s] IN
               /\ now.kind = then.kind
               /\ now.kind = "param" => now.of = then.of /\ now.field = then.field /\ now.name = then.name
    <3>1. CASE f = h /\ s = i
      BY <1>1, <1>7, <2>1, <3>1
    <3>2. CASE ~(f = h /\ s = i)
      <4>1. s \in 1..Len(operands[f]) /\ operands'[f][s] = operands[f][s]
        BY <2>1, <2>2, <3>2
      <4> QED
        BY <1>1, <4>1
    <3> QED
      BY <3>1, <3>2
  <2>3. ASSUME NEW f \in Func PROVE Len(operands'[f]) = Len(pkg.operands[f])
    BY <1>1, <2>1
  <2> QED
    BY <2>1, <2>2, <2>3
<1>8. ASSUME NEW h \in Func, NEW marker \in BOOLEAN,
             comment' = [comment EXCEPT ![h] = [above |-> TRUE, doc |-> @.doc, marker |-> marker]]
      PROVE  comment' \in [Func -> [above : BOOLEAN, doc : BOOLEAN, marker : BOOLEAN]]
  <2>1. comment[h].doc \in BOOLEAN
    BY <1>1
  <2> QED
    BY <1>1, <1>8, <2>1
<1>9. CASE \E r \in reports : Narrow(r) /\ r.fn \in Func /\ r.built \in Concrete /\ UNCHANGED <<params, comment, operands>>
  BY <1>1, <1>4, <1>9
<1>10. CASE \E f \in Func : \E k \in 1..Len(params[f]) : RetypeParam(f, k) /\ UNCHANGED <<results, comment, operands>>
  BY <1>1, <1>6, <1>10
<1>11. CASE \E r \in reports : r.rule = "noanyreturn" /\ r.fn \in Func /\ RetypeResult(r.fn, r.at) /\ UNCHANGED <<params, comment, operands>>
  BY <1>1, <1>5, <1>11
<1>12. CASE \E f \in Func : \E s \in 1..Len(operands[f]) :
              operands[f][s].kind # "param" /\ RetypeOperand(f, s) /\ UNCHANGED <<params, results, comment>>
  BY <1>1, <1>7, <1>12
<1>13. CASE /\ \E f \in Func : \E marker \in BOOLEAN :
                 comment' = [comment EXCEPT ![f] = [above |-> TRUE, doc |-> @.doc, marker |-> marker]]
            /\ UNCHANGED <<params, results, operands>>
  BY <1>1, <1>8, <1>13
<1> QED
  BY <1>3, <1>9, <1>10, <1>11, <1>12, <1>13, Edits
--------------------------------------------------------------------------------
(* What a return statement gives is written down in it, or comes from a    *)
(* place of the results: of the signature itself or of one that it calls.  *)
Written(f, i, pos) ==
  LET ret == pkg.fn[f].returns[i]
  IN ret # <<>> /\ Len(ret) = Count(pkg.results[f]) /\ ret[pos].kind # "call"

Expression(f, i, pos) ==
  LET ret == pkg.fn[f].returns[i] IN IF ret[pos].kind = "nil" THEN Nil ELSE ret[pos].type

Origin(f, i, pos) ==
  LET ret == pkg.fn[f].returns[i] IN
  IF ret = <<>> THEN <<f, pos>>
  ELSE IF Len(ret) = Count(pkg.results[f]) THEN <<ret[pos].callee, 1>> ELSE <<ret[1].callee, pos>>

GivenAt(f, i, pos) == GivenType(f, pkg.fn[f].returns[i], pos)

LEMMA ResultsTyped ==
  ASSUME Typed, NEW f \in Func
  PROVE  /\ ResultTypes(f) \in Seq(Types) /\ Len(ResultTypes(f)) \in Nat
         /\ DOMAIN ResultTypes(f) = 1..Len(ResultTypes(f))
         /\ Len(ResultTypes(f)) = Count(pkg.results[f])
         /\ \A pos \in 1..Len(ResultTypes(f)) : ResultTypes(f)[pos] \in Types
         /\ Len(results[f]) \in Nat /\ DOMAIN results[f] = 1..Len(results[f])
         /\ \A k \in 1..Len(results[f]) :
              /\ Positions(f, k) # {} /\ Positions(f, k) \subseteq 1..Len(ResultTypes(f))
              /\ \A pos \in Positions(f, k) : ResultTypes(f)[pos] = results[f][k].type
         /\ \A pos \in 1..Len(ResultTypes(f)) : \E k \in 1..Len(results[f]) : pos \in Positions(f, k)
         /\ \A j, k \in 1..Len(results[f]) : \A pos \in Positions(f, j) \cap Positions(f, k) : j = k
<1>1. /\ results[f] \in Seq(Field) /\ ResultTypes(f) = TypesOf(results[f])
      /\ Len(ResultTypes(f)) = Count(pkg.results[f])
      /\ \A k \in 1..Len(results[f]) : Positions(f, k) = Block(results[f], k)
  BY ResultPlaces
<1>2. /\ TypesOf(results[f]) \in Seq(Types)
      /\ Len(TypesOf(results[f])) \in Nat /\ DOMAIN TypesOf(results[f]) = 1..Len(TypesOf(results[f]))
      /\ \A k \in 1..Len(results[f]) :
           /\ Block(results[f], k) # {} /\ Block(results[f], k) \subseteq 1..Len(TypesOf(results[f]))
           /\ \A pos \in Block(results[f], k) : TypesOf(results[f])[pos] = results[f][k].type
      /\ \A pos \in 1..Len(TypesOf(results[f])) : \E k \in 1..Len(results[f]) : pos \in Block(results[f], k)
      /\ \A j, k \in 1..Len(results[f]) : \A pos \in Block(results[f], j) \cap Block(results[f], k) : j = k
  BY <1>1, Places
<1>3. \A pos \in 1..Len(TypesOf(results[f])) : TypesOf(results[f])[pos] \in Types
  BY <1>2, ElementOfSeq
<1>4. Len(results[f]) \in Nat /\ DOMAIN results[f] = 1..Len(results[f])
  BY <1>1, LenProperties
<1> QED
  BY <1>1, <1>2, <1>3, <1>4

Expr == [kind : {"value"}, type : Types] \cup [kind : {"call"}, callee : Func] \cup [kind : {"nil"}]

LEMMA SignatureIs ==
  ASSUME Typed, NEW f \in Func
  PROVE  /\ pkg.fn[f].kind \in {"decl", "lit", "method", "extern"} /\ pkg.fn[f].generated \in BOOLEAN
         /\ pkg.fn[f].returns \in Seq(Seq(Expr)) /\ IsFiniteSet(DOMAIN pkg.fn[f].returns)
<1>1. pkg.fn \in Seq([kind : {"decl", "lit", "method", "extern"}, owner : STRING, name : STRING,
                   endsInF : BOOLEAN, generated : BOOLEAN,
                   returns : Seq(Seq([kind : {"value"}, type : Concrete \cup Interface]
                                     \cup [kind : {"call"}, callee : DOMAIN pkg.fn] \cup [kind : {"nil"}]))])
  BY PackageAssumption DEF Typed
<1>2. f \in 1..Len(pkg.fn)
  BY Functions
<1>3. pkg.fn[f] \in [kind : {"decl", "lit", "method", "extern"}, owner : STRING, name : STRING,
                    endsInF : BOOLEAN, generated : BOOLEAN, returns : Seq(Seq(Expr))]
  BY <1>1, <1>2, ElementOfSeq DEF Expr, Types, Func
<1>4. pkg.fn[f].returns \in Seq(Seq(Expr))
  BY <1>3
<1>5. DOMAIN pkg.fn[f].returns = 1..Len(pkg.fn[f].returns) /\ Len(pkg.fn[f].returns) \in Nat
  BY <1>4, LenProperties
<1>6. IsFiniteSet(1..Len(pkg.fn[f].returns))
  BY <1>5, FS_Interval
<1> QED
  BY <1>3, <1>4, <1>5, <1>6

LEMMA GivenIs ==
  ASSUME Typed, NEW f \in Func, NEW i \in DOMAIN pkg.fn[f].returns, NEW pos \in 1..Count(pkg.results[f])
  PROVE  /\ Written(f, i, pos) => GivenAt(f, i, pos) = Expression(f, i, pos) /\ Expression(f, i, pos) \in Types \cup {Nil}
         /\ ~Written(f, i, pos) =>
              /\ Origin(f, i, pos)[1] \in Func
              /\ Origin(f, i, pos)[2] \in 1..Count(pkg.results[Origin(f, i, pos)[1]])
              /\ GivenAt(f, i, pos) = ResultTypes(Origin(f, i, pos)[1])[Origin(f, i, pos)[2]]
         /\ pkg.fn[f].returns[i] # <<>> => GivenAt(f, i, pos) = ReturnedType(f, pkg.fn[f].returns[i], pos)
         /\ pkg.fn[f].returns[i] = <<>> =>
              /\ GivenAt(f, i, pos) = ResultTypes(f)[pos] /\ ReturnedType(f, pkg.fn[f].returns[i], pos) = NoType
<1> DEFINE ret == pkg.fn[f].returns[i]
           n == Count(pkg.results[f])
<1>1. ret \in Seq(Expr) /\ n = Len(ResultTypes(f)) /\ n \in Nat
  <2>3. pkg.fn[f].returns \in Seq(Seq(Expr))
    BY SignatureIs
  <2>4. ret \in Seq(Expr)
    <3> DEFINE rets == pkg.fn[f].returns
    <3>1. rets \in Seq(Seq(Expr)) /\ i \in DOMAIN rets
      BY <2>3
    <3> HIDE DEF rets
    <3>2. i \in 1..Len(rets)
      BY <3>1, LenProperties
    <3>3. rets[i] \in Seq(Expr)
      BY <3>1, <3>2, ElementOfSeq
    <3> QED
      BY <3>3 DEF rets
  <2> QED
    BY <2>3, <2>4, ResultsTyped
<1>2. /\ DOMAIN ret = 1..Len(ret) /\ Len(ret) \in Nat /\ \A j \in 1..Len(ret) : ret[j] \in Expr
      /\ (ret = <<>>) <=> (Len(ret) = 0)
  <2> HIDE DEF ret
  <2> QED
    BY <1>1, LenProperties, ElementOfSeq, EmptySeq
<1>3. \/ ret = <<>>
      \/ /\ Len(ret) = n
         /\ \A j \in DOMAIN ret : ret[j].kind = "call" => Count(pkg.results[ret[j].callee]) = 1
      \/ /\ Len(ret) = 1 /\ ret[1].kind = "call"
         /\ Count(pkg.results[ret[1].callee]) = n
  BY ReturnAssumption DEF Typed, Func
<1> HIDE DEF ret, n
<1>4. \A j \in 1..Len(ret) :
        /\ ret[j].kind \in {"value", "call", "nil"}
        /\ ret[j].kind = "value" => ret[j].type \in Types
        /\ ret[j].kind = "call" => ret[j].callee \in Func
  BY <1>2 DEF Expr
<1>5. /\ Written(f, i, pos) <=> ret # <<>> /\ Len(ret) = n /\ ret[pos].kind # "call"
      /\ Expression(f, i, pos) = IF ret[pos].kind = "nil" THEN Nil ELSE ret[pos].type
      /\ Origin(f, i, pos) = IF ret = <<>> THEN <<f, pos>>
           ELSE IF Len(ret) = n THEN <<ret[pos].callee, 1>> ELSE <<ret[1].callee, pos>>
      /\ GivenAt(f, i, pos) = IF ret = <<>> THEN ResultTypes(f)[pos] ELSE ReturnedType(f, ret, pos)
  BY DEF Written, Expression, Origin, GivenAt, GivenType, ret, n
<1>6. pos \in 1..n
  BY DEF n
<1>7. CASE ret = <<>>
  <2>1. ReturnedType(f, ret, pos) = NoType
    <3>1. Len(ret) # Len(ResultTypes(f))
      BY <1>1, <1>2, <1>6, <1>7
    <3> QED
      BY <1>7, <3>1 DEF ReturnedType
  <2> QED
    BY <1>5, <1>6, <1>7, <2>1 DEF ret, n
<1>8. CASE ret # <<>> /\ Len(ret) = n /\ \A j \in DOMAIN ret : ret[j].kind = "call" => Count(pkg.results[ret[j].callee]) = 1
  <2>1. ReturnedType(f, ret, pos) = TypeOf(ret[pos])
    BY <1>1, <1>8 DEF ReturnedType
  <2>2. pos \in 1..Len(ret) /\ pos \in DOMAIN ret
    BY <1>2, <1>6, <1>8
  <2>3. CASE ret[pos].kind = "call"
    <3>1. TypeOf(ret[pos]) = ResultTypes(ret[pos].callee)[1]
      BY <2>3 DEF TypeOf
    <3>2. Count(pkg.results[ret[pos].callee]) = 1 /\ ret[pos].callee \in Func
      BY <1>4, <1>8, <2>2, <2>3
    <3>3. Origin(f, i, pos) = <<ret[pos].callee, 1>> /\ ~Written(f, i, pos)
      BY <1>5, <1>8, <2>3
    <3>4. GivenAt(f, i, pos) = ResultTypes(ret[pos].callee)[1] /\ GivenAt(f, i, pos) = ReturnedType(f, ret, pos)
      BY <1>5, <1>8, <2>1, <3>1
    <3>5. Origin(f, i, pos)[1] = ret[pos].callee /\ Origin(f, i, pos)[2] = 1
      BY <3>3
    <3>6. 1 \in 1..Count(pkg.results[ret[pos].callee])
      BY <3>2
    <3> QED
      BY <1>8, <3>2, <3>3, <3>4, <3>5, <3>6 DEF ret
  <2>4. CASE ret[pos].kind # "call"
    <3>1. TypeOf(ret[pos]) = Expression(f, i, pos)
      BY <1>4, <1>5, <2>2, <2>4 DEF TypeOf
    <3>2. Expression(f, i, pos) \in Types \cup {Nil}
      BY <1>4, <1>5, <2>2, <2>4
    <3> QED
      BY <1>5, <1>8, <2>1, <2>4, <3>1, <3>2 DEF ret
  <2> QED
    BY <2>3, <2>4
<1>9. CASE ret # <<>> /\ Len(ret) # n /\ Len(ret) = 1 /\ ret[1].kind = "call" /\ Count(pkg.results[ret[1].callee]) = n
  <2>1. ReturnedType(f, ret, pos) = ResultTypes(ret[1].callee)[pos]
    BY <1>1, <1>9 DEF ReturnedType
  <2>2. ret[1].callee \in Func
    <3>1. 1 \in 1..Len(ret)
      BY <1>9
    <3> QED
      BY <1>4, <1>9, <3>1
  <2> QED
    BY <1>5, <1>6, <1>9, <2>1, <2>2 DEF ret
<1>10. CASE ret # <<>> /\ Len(ret) = n /\ Len(ret) = 1 /\ ret[1].kind = "call" /\ Count(pkg.results[ret[1].callee]) = n
  <2>1. \A j \in DOMAIN ret : j = 1
    BY <1>2, <1>10
  <2> QED
    BY <1>8, <1>10, <2>1
<1> QED
  BY <1>3, <1>7, <1>8, <1>9, <1>10

(* The type that all returns build.                                        *)
LEMMA SingleIs ==
  ASSUME Typed, NEW f \in Func, NEW pos, SingleConcrete(f, pos) # NoType
  PROVE  /\ SingleConcrete(f, pos) \in Concrete
         /\ \E i \in DOMAIN pkg.fn[f].returns : ReturnedType(f, pkg.fn[f].returns[i], pos) = SingleConcrete(f, pos)
         /\ \A i \in DOMAIN pkg.fn[f].returns :
              ReturnedType(f, pkg.fn[f].returns[i], pos) \in {SingleConcrete(f, pos), Nil}
<1> DEFINE returned == {ReturnedType(f, pkg.fn[f].returns[i], pos) : i \in DOMAIN pkg.fn[f].returns}
           built == returned \ {Nil}
<1>1. SingleConcrete(f, pos) = IF built \subseteq Concrete /\ Cardinality(built) = 1 THEN CHOOSE t \in built : TRUE ELSE NoType
  BY DEF SingleConcrete
<1> HIDE DEF built
<1>2. built \subseteq Concrete /\ Cardinality(built) = 1 /\ SingleConcrete(f, pos) = CHOOSE t \in built : TRUE
  BY <1>1
<1>3. IsFiniteSet(built)
  <2> DEFINE D == DOMAIN pkg.fn[f].returns
             of == [i \in D |-> ReturnedType(f, pkg.fn[f].returns[i], pos)]
  <2>1. IsFiniteSet(D)
    BY SignatureIs
  <2>2. \A t \in returned : \E i \in D : of[i] = t
    OBVIOUS
  <2>3. of \in [D -> returned]
    OBVIOUS
  <2> HIDE DEF D, of
  <2>4. IsFiniteSet(returned)
    <3> HIDE DEF returned
    <3>1. of \in Surjection(D, returned)
      BY <2>2, <2>3, Fun_IsSurj
    <3> QED
      BY <2>1, <3>1, FS_Surjection
  <2> HIDE DEF returned
  <2> QED
    BY <2>4, FS_Subset DEF built
<1>4. PICK t : built = {t}
  BY <1>2, <1>3, FS_Singleton
<1>5. SingleConcrete(f, pos) = t /\ t \in Concrete
  BY <1>2, <1>4
<1>6. t \in returned /\ returned \subseteq {t, Nil}
  BY <1>4 DEF built
<1> QED
  BY <1>5, <1>6
--------------------------------------------------------------------------------
(* What is found at a signature.                                           *)
LEMMA FoundIs ==
  ASSUME Typed, NEW f \in Func, NEW r \in Found(f)
  PROVE  /\ r.fn = f /\ pkg.fn[f].kind # "extern" /\ ~pkg.fn[f].generated
         /\ r.rule \in {"noanyparam", "noanyreturn", "nointerfacereturn", "noadhoctypeswitch"}
         /\ r.rule # "nointerfacereturn" => r.built = NoType
         /\ r.rule = "noanyparam" => r \in AnyParams(f) /\ \E k \in 1..Len(params[f]) : r.at = {k}
         /\ r.rule = "noadhoctypeswitch" => r \in AdHocSwitches(f) /\ \E s \in 1..Len(operands[f]) : r.at = {s}
         /\ r.rule = "noanyreturn" =>
              \E k \in 1..Len(results[f]) : r.at = Positions(f, k) /\ results[f][k].type = AnyType
         /\ r.rule = "nointerfacereturn" =>
              /\ pkg.fn[f].kind = "decl" /\ ~Justified(f)
              /\ \E k \in 1..Len(results[f]) : \E pos \in Positions(f, k) :
                   /\ r.at = Positions(f, k) /\ Judged(results[f][k].type)
                   /\ r.built = SingleConcrete(f, pos) /\ r.built # NoType
                   /\ r.orNil = OrNil(f, pos)
                   /\ ~Implements(f, TRUE, FixesResult(pos, results[f][k].type))
<1>1. /\ pkg.fn[f].kind # "extern" /\ ~pkg.fn[f].generated
      /\ r \in AnyParams(f) \cup AnyReturns(f) \cup InterfaceReturns(f) \cup AdHocSwitches(f)
  BY DEF Found
<1>2. /\ DOMAIN params[f] = 1..Len(params[f]) /\ DOMAIN results[f] = 1..Len(results[f])
      /\ DOMAIN operands[f] = 1..Len(operands[f])
  <2>1. operands[f] \in Seq(Operand)
    BY DEF Typed
  <2> QED
    BY <2>1, ParamPlaces, ResultsTyped, LenProperties
<1>3. CASE r \in AnyParams(f)
  <2>1. \E k \in DOMAIN params[f] : r = Report("noanyparam", f, {k})
    BY <1>3 DEF AnyParams
  <2> QED
    BY <1>1, <1>2, <1>3, <2>1 DEF Report
<1>4. CASE r \in AdHocSwitches(f)
  <2>1. \E s \in DOMAIN operands[f] : r = Report("noadhoctypeswitch", f, {s})
    BY <1>4 DEF AdHocSwitches
  <2> QED
    BY <1>1, <1>2, <1>4, <2>1 DEF Report
<1>5. CASE r \in AnyReturns(f)
  <2>1. \E k \in DOMAIN results[f] : r = Report("noanyreturn", f, Positions(f, k)) /\ IsEmptyInterface(results[f][k].type)
    BY <1>5 DEF AnyReturns
  <2> QED
    BY <1>1, <1>2, <1>5, <2>1 DEF Report, IsEmptyInterface
<1>6. CASE r \in InterfaceReturns(f)
  <2>1. pkg.fn[f].kind = "decl" /\ ~Justified(f)
    BY <1>6 DEF InterfaceReturns
  <2>2. PICK k \in {k \in DOMAIN results[f] : Judged(results[f][k].type)} :
          r \in {[rule |-> "nointerfacereturn", fn |-> f, at |-> Positions(f, k),
                  built |-> SingleConcrete(f, pos), orNil |-> OrNil(f, pos)] :
                 pos \in {pos \in Positions(f, k) :
                            /\ SingleConcrete(f, pos) # NoType
                            /\ ~Implements(f, TRUE, FixesResult(pos, results[f][k].type))}}
    BY <1>6, <2>1 DEF InterfaceReturns
  <2>3. PICK pos \in Positions(f, k) :
          /\ SingleConcrete(f, pos) # NoType
          /\ ~Implements(f, TRUE, FixesResult(pos, results[f][k].type))
          /\ r = [rule |-> "nointerfacereturn", fn |-> f, at |-> Positions(f, k),
                  built |-> SingleConcrete(f, pos), orNil |-> OrNil(f, pos)]
    BY <2>2
  <2>4. /\ r.rule = "nointerfacereturn" /\ r.fn = f /\ r.at = Positions(f, k)
        /\ r.built = SingleConcrete(f, pos) /\ r.orNil = OrNil(f, pos)
    BY <2>3
  <2>5. k \in 1..Len(results[f]) /\ Judged(results[f][k].type)
    BY <1>2, <2>2
  <2> QED
    BY <1>1, <2>1, <2>3, <2>4, <2>5
<1> QED
  BY <1>1, <1>3, <1>4, <1>5, <1>6

LEMMA FoundForm ==
  ASSUME Typed, NEW f \in Func, NEW r \in Found(f), r.rule = "nointerfacereturn"
  PROVE  \E k \in DOMAIN results[f] : \E pos \in Positions(f, k) :
           r = [rule |-> "nointerfacereturn", fn |-> f, at |-> Positions(f, k),
                built |-> SingleConcrete(f, pos), orNil |-> OrNil(f, pos)]
<1>1. r \in AnyParams(f) \cup AnyReturns(f) \cup InterfaceReturns(f) \cup AdHocSwitches(f)
  BY DEF Found
<1>2. /\ \A x \in AnyParams(f) : x.rule = "noanyparam"
      /\ \A x \in AnyReturns(f) : x.rule = "noanyreturn"
      /\ \A x \in AdHocSwitches(f) : x.rule = "noadhoctypeswitch"
  <2>1. \A x \in AnyParams(f) : x.rule = "noanyparam"
    <3>1. \A x \in AnyParams(f) : \E k \in DOMAIN params[f] : x = Report("noanyparam", f, {k})
      BY DEF AnyParams
    <3> QED
      BY <3>1 DEF Report
  <2>2. \A x \in AnyReturns(f) : x.rule = "noanyreturn"
    <3>1. \A x \in AnyReturns(f) : \E k \in DOMAIN results[f] : x = Report("noanyreturn", f, Positions(f, k))
      BY DEF AnyReturns
    <3> QED
      BY <3>1 DEF Report
  <2>3. \A x \in AdHocSwitches(f) : x.rule = "noadhoctypeswitch"
    <3>1. \A x \in AdHocSwitches(f) : \E k \in DOMAIN operands[f] : x = Report("noadhoctypeswitch", f, {k})
      BY DEF AdHocSwitches
    <3> QED
      BY <3>1 DEF Report
  <2> QED
    BY <2>1, <2>2, <2>3
<1>3. r \in InterfaceReturns(f)
  BY <1>1, <1>2
<1>4. ~(pkg.fn[f].kind # "decl" \/ Justified(f))
  BY <1>3 DEF InterfaceReturns
<1> QED
  BY <1>3, <1>4 DEF InterfaceReturns

LEMMA FoundBuilt ==
  ASSUME Typed, NEW f \in Func, NEW r \in Found(f)
  PROVE  r.built \in Concrete \cup {NoType} /\ (r.rule = "nointerfacereturn" <=> r.built # NoType)
<1>1. CASE r.rule = "nointerfacereturn"
  <2>0. PICK k \in 1..Len(results[f]) : \E pos \in Positions(f, k) :
          r.built = SingleConcrete(f, pos) /\ r.built # NoType
    BY <1>1, FoundIs
  <2>1. PICK pos \in Positions(f, k) : r.built = SingleConcrete(f, pos) /\ r.built # NoType
    BY <2>0
  <2>2. r.built \in Concrete
    BY <2>1, SingleIs
  <2> QED
    BY <1>1, <2>1, <2>2
<1>2. CASE r.rule # "nointerfacereturn"
  BY <1>2, FoundIs
<1> QED
  BY <1>1, <1>2

(* Steps that leave a signature and what it names as they are.             *)
LEMMA ReportsStep ==
  ASSUME Typed, Next
  PROVE  \/ Visit
         \/ Finish /\ reports' = reports /\ phase' = "ran" /\ held' = held
         \/ Rerun /\ reports' = {} /\ phase' = "run"
         \/ reports' \subseteq reports /\ next' = next /\ phase' = "edited" /\ held' = held
<1>1. ASSUME NEW r \in reports, Obey(r)
      PROVE  reports' \subseteq reports /\ next' = next /\ phase' = "edited" /\ held' = held
  BY <1>1 DEF Obey, Narrow, Retype, Comment, Edited, RetypeParam, RetypeResult, RetypeOperand
<1> QED
  BY <1>1 DEF Next, Finish, Rerun

LEMMA ListedStep ==
  ASSUME Typed, Listed, Next
  PROVE  Listed'
<1>1. Typed' /\ pkg' = pkg /\ Func' = Func
  BY TypedStep, Steps
<1>2. \A f \in Func : Len(params'[f]) = Len(params[f]) /\ Len(operands'[f]) = Len(operands[f])
  BY <1>1 DEF Typed
<1>3. SUFFICES ASSUME NEW r \in reports'
               PROVE  /\ r.fn \in 1..next' /\ r.fn \in Func
                      /\ r.rule \in {"noanyparam", "noanyreturn", "nointerfacereturn", "noadhoctypeswitch"}
                      /\ r.built \in Concrete \cup {NoType}
                      /\ r.rule = "nointerfacereturn" <=> r.built # NoType
                      /\ r.rule = "noanyparam" => \E k \in 1..Len(params[r.fn]) : r.at = {k}
                      /\ r.rule = "noadhoctypeswitch" => \E s \in 1..Len(operands[r.fn]) : r.at = {s}
  <2>1. \A r \in reports' : r.fn \in Func => Len(params'[r.fn]) = Len(params[r.fn]) /\ Len(operands'[r.fn]) = Len(operands[r.fn])
    BY <1>2
  <2> QED
    BY <1>1, <2>1 DEF Listed
<1>4. next \in Nat /\ Len(pkg.fn) \in Nat /\ Func = 1..Len(pkg.fn)
  <2>1. Len(pkg.fn) \in Nat /\ Func = 1..Len(pkg.fn)
    BY Functions
  <2>2. next \in 0..Len(pkg.fn)
    BY DEF Typed
  <2> QED
    BY <2>1, <2>2
<1>5. CASE r \in reports /\ next' \in Nat /\ next <= next'
  BY <1>4, <1>5 DEF Listed
<1>6. CASE Visit
  <2>1. next + 1 \in Func /\ next' = next + 1 /\ reports' = reports \cup Found(next + 1)
    BY <1>4, <1>6 DEF Visit
  <2>2. CASE r \in reports
    BY <1>4, <1>5, <2>1, <2>2
  <2>3. CASE r \in Found(next + 1)
    <3> DEFINE f == next + 1
    <3>1. f \in Func /\ r \in Found(f)
      BY <2>1, <2>3
    <3> HIDE DEF f
    <3>2. /\ r.fn = f
          /\ r.rule \in {"noanyparam", "noanyreturn", "nointerfacereturn", "noadhoctypeswitch"}
          /\ r.rule = "noanyparam" => \E k \in 1..Len(params[f]) : r.at = {k}
          /\ r.rule = "noadhoctypeswitch" => \E s \in 1..Len(operands[f]) : r.at = {s}
      BY <3>1, FoundIs
    <3>3. r.built \in Concrete \cup {NoType} /\ (r.rule = "nointerfacereturn" <=> r.built # NoType)
      BY <3>1, FoundBuilt
    <3>4. f \in 1..next'
      BY <1>4, <2>1 DEF f
    <3> QED
      BY <3>1, <3>2, <3>3, <3>4
  <2> QED
    BY <2>1, <2>2, <2>3
<1>7. CASE Finish /\ reports' = reports
  BY <1>4, <1>5, <1>7 DEF Finish
<1>8. CASE reports' = {}
  BY <1>8
<1>9. CASE reports' \subseteq reports /\ next' = next
  BY <1>4, <1>5, <1>9
<1> QED
  BY <1>6, <1>7, <1>8, <1>9, ReportsStep

(* Type correctness, for any package and however it is edited: no step     *)
(* moves a result to another place (signature.go:98,                       *)
(* nointerfacereturn.go:191), and only the rule on interface results names *)
(* a type that the body builds.                                            *)
THEOREM TypeCorrect == Spec => []TypeOK
<1>1. Init => Typed /\ Listed
  BY InitTyped
<1>2. Typed /\ Listed /\ [Next]_vars => Typed' /\ Listed'
  <2> SUFFICES ASSUME Typed, Listed, [Next]_vars PROVE Typed' /\ Listed'
    OBVIOUS
  <2>1. CASE Next
    BY <2>1, TypedStep, ListedStep
  <2>2. CASE UNCHANGED vars
    BY <2>2 DEF vars, source, Typed, Listed, Func, Iface, Operand
  <2> QED
    BY <2>1, <2>2
<1>3. Typed /\ Listed => TypeOK
  <2> SUFFICES ASSUME Typed, Listed PROVE TypeOK
    OBVIOUS
  <2>1. ASSUME NEW f \in Func
        PROVE  /\ Len(ResultTypes(f)) = Count(pkg.results[f])
               /\ \A k \in DOMAIN results[f] : results[f][k].type \in Concrete \cup Interface
    <3>1. Len(ResultTypes(f)) = Count(pkg.results[f])
      BY ResultsTyped
    <3>2. results[f] \in Seq(Field)
      BY DEF Typed
    <3>3. \A k \in DOMAIN results[f] : results[f][k] \in Field
      BY <3>2, LenProperties, ElementOfSeq
    <3>4. \A k \in DOMAIN results[f] : results[f][k].type \in Concrete \cup Interface
      BY <3>3 DEF Field, Types
    <3> QED
      BY <3>1, <3>4
  <2> QED
    BY <2>1 DEF TypeOK, Typed, Listed
<1> QED
  BY <1>1, <1>2, <1>3, PTL DEF Spec
--------------------------------------------------------------------------------
(* What the rules read is the same as long as nobody edits.                *)
LEMMA SamePlacesNow ==
  ASSUME pkg' = pkg, UNCHANGED source
  PROVE  /\ Func' = Func /\ Iface' = Iface
         /\ \A f : ParamTypes(f)' = ParamTypes(f) /\ ResultTypes(f)' = ResultTypes(f)
         /\ \A f, k : /\ Before(f, k)' = Before(f, k) /\ Positions(f, k)' = Positions(f, k)
                      /\ ParamsBefore(f, k)' = ParamsBefore(f, k)
         /\ \A f : Variadic(f)' = Variadic(f) /\ Justified(f)' = Justified(f)
<1>1. params' = params /\ results' = results /\ comment' = comment /\ operands' = operands
  BY DEF source
<1>2. Func' = Func /\ Iface' = Iface
  BY DEF Func, Iface
<1>3. ASSUME NEW f PROVE ParamTypes(f)' = ParamTypes(f) /\ ResultTypes(f)' = ResultTypes(f)
  BY <1>1 DEF ParamTypes, ResultTypes
<1>4. ASSUME NEW f, NEW k
      PROVE  Before(f, k)' = Before(f, k) /\ ParamsBefore(f, k)' = ParamsBefore(f, k)
  BY <1>1 DEF Before, ParamsBefore
<1>5. ASSUME NEW f, NEW k PROVE Positions(f, k)' = Positions(f, k)
  BY <1>4 DEF Positions
<1>6. ASSUME NEW f PROVE Variadic(f)' = Variadic(f) /\ Justified(f)' = Justified(f)
  BY <1>1 DEF Variadic, Justified
<1> QED
  BY <1>2, <1>3, <1>4, <1>5, <1>6

LEMMA SameContracts ==
  ASSUME pkg' = pkg, UNCHANGED source
  PROVE  /\ \A t, i : Satisfies(t, i)' = Satisfies(t, i)
         /\ Implementing' = Implementing
         /\ \A f, home, matches : Implements(f, home, matches)' = Implements(f, home, matches)
<1>1. /\ Func' = Func /\ Iface' = Iface
      /\ \A f : ParamTypes(f)' = ParamTypes(f) /\ ResultTypes(f)' = ResultTypes(f)
      /\ \A f : Variadic(f)' = Variadic(f)
  BY SamePlacesNow
<1>2. ASSUME NEW t PROVE MethodsOf(t)' = MethodsOf(t) /\ MethodSet(t)' = MethodSet(t)
  BY <1>1 DEF MethodsOf, MethodSet
<1>3. ASSUME NEW t, NEW i PROVE Satisfies(t, i)' = Satisfies(t, i)
  BY <1>1, <1>2 DEF Satisfies
<1>4. Implementing' = Implementing
  BY <1>1, <1>3 DEF Implementing
<1>5. ASSUME NEW home PROVE Scanned(home)' = Scanned(home)
  BY <1>1, <1>2 DEF Scanned
<1>6. ASSUME NEW f, NEW home, NEW matches
      PROVE  Implements(f, home, matches)' = Implements(f, home, matches)
  <2> DEFINE own == pkg.fn[f].owner
  <2>1. \A i : MethodsOf(i)' = MethodsOf(i)
    BY <1>2
  <2>2. \A i : Satisfies(own, i)' = Satisfies(own, i)
    BY <1>1, <1>2 DEF Satisfies, MethodSet
  <2> QED
    BY <1>5, <2>1, <2>2 DEF Implements
<1> QED
  BY <1>3, <1>4, <1>6

LEMMA SameFound ==
  ASSUME pkg' = pkg, UNCHANGED source, NEW f
  PROVE  Found(f)' = Found(f)
<1>1. params' = params /\ results' = results /\ comment' = comment /\ operands' = operands
  BY DEF source
<1>2. /\ Func' = Func
      /\ \A g : ParamTypes(g)' = ParamTypes(g) /\ ResultTypes(g)' = ResultTypes(g)
      /\ \A g, k : /\ Before(g, k)' = Before(g, k) /\ Positions(g, k)' = Positions(g, k)
                   /\ ParamsBefore(g, k)' = ParamsBefore(g, k)
      /\ \A g : Justified(g)' = Justified(g)
      /\ \A g, home, matches : Implements(g, home, matches)' = Implements(g, home, matches)
  BY SamePlacesNow, SameContracts
<1>3. AnyParams(f)' = AnyParams(f)
  <2>1. ASSUME NEW k PROVE FormatStyle(f, k)' = FormatStyle(f, k)
    BY <1>1 DEF FormatStyle
  <2> DEFINE mandatory(k) ==
        {m \in Func : AnyAt(ParamTypes(m), ParamsBefore(f, k) + 1, ParamsBefore(f, k) + NameCount(params[f][k]))}
  <2>2. ASSUME NEW k PROVE mandatory(k)' = mandatory(k)
    BY <1>1, <1>2
  <2>3. ASSUME NEW k PROVE Implements(f, FALSE, mandatory(k))' = Implements(f, FALSE, mandatory(k))
    <3> HIDE DEF mandatory
    <3>1. \A matches : Implements(f, FALSE, matches)' = Implements(f, FALSE, matches)
      BY <1>2
    <3> QED
      BY <2>2, <3>1 DEF Implements
  <2> DEFINE hit(k) ==
        /\ IsEmptyInterface(params[f][k].type)
        /\ ~WrapsCause(params[f][k]) /\ ~FormatStyle(f, k)
        /\ ~Justified(f)
        /\ ~Implements(f, FALSE, mandatory(k))
  <2>4. ASSUME NEW k PROVE hit(k)' = hit(k)
    BY <1>1, <1>2, <2>1, <2>3
  <2> HIDE DEF mandatory
  <2>5. {Report("noanyparam", f, {k}) : k \in {k \in DOMAIN params[f] : hit(k)}}'
        = {Report("noanyparam", f, {k}) : k \in {k \in DOMAIN params[f] : hit(k)}}
    <3> HIDE DEF hit
    <3> QED
      BY <1>1, <2>4
  <2> QED
    BY <2>5 DEF AnyParams, mandatory
<1>4. AnyReturns(f)' = AnyReturns(f)
  <2> DEFINE mandatory(k) == {m \in Func : AnyAt(ResultTypes(m), Before(f, k - 1) + 1, Before(f, k))}
             hit(k) ==
               /\ IsEmptyInterface(results[f][k].type)
               /\ ~Justified(f)
               /\ ~Implements(f, FALSE, mandatory(k))
  <2>1. ASSUME NEW k PROVE mandatory(k)' = mandatory(k)
    BY <1>1, <1>2
  <2>2. ASSUME NEW k PROVE Implements(f, FALSE, mandatory(k))' = Implements(f, FALSE, mandatory(k))
    <3> HIDE DEF mandatory
    <3>1. \A matches : Implements(f, FALSE, matches)' = Implements(f, FALSE, matches)
      BY <1>2
    <3> QED
      BY <2>1, <3>1 DEF Implements
  <2>3. ASSUME NEW k PROVE hit(k)' = hit(k)
    BY <1>1, <1>2, <2>2
  <2> HIDE DEF mandatory
  <2>4. {Report("noanyreturn", f, Positions(f, k)) : k \in {k \in DOMAIN results[f] : hit(k)}}'
        = {Report("noanyreturn", f, Positions(f, k)) : k \in {k \in DOMAIN results[f] : hit(k)}}
    <3> HIDE DEF hit
    <3>1. \A k : Report("noanyreturn", f, Positions(f, k))' = Report("noanyreturn", f, Positions(f, k))
      BY <1>2 DEF Report
    <3> QED
      BY <1>1, <2>3, <3>1
  <2> QED
    BY <2>4 DEF AnyReturns, mandatory
<1>5. InterfaceReturns(f)' = InterfaceReturns(f)
  <2>1. ASSUME NEW ret, NEW pos PROVE ReturnedType(f, ret, pos)' = ReturnedType(f, ret, pos)
    BY <1>2 DEF ReturnedType, TypeOf
  <2>2. ASSUME NEW pos PROVE SingleConcrete(f, pos)' = SingleConcrete(f, pos) /\ OrNil(f, pos)' = OrNil(f, pos)
    <3> DEFINE returned == {ReturnedType(f, pkg.fn[f].returns[i], pos) : i \in DOMAIN pkg.fn[f].returns}
    <3>1. returned' = returned
      BY <1>2 DEF ReturnedType, TypeOf
    <3>2. SingleConcrete(f, pos) =
            IF returned \ {Nil} \subseteq Concrete /\ Cardinality(returned \ {Nil}) = 1
            THEN CHOOSE t \in returned \ {Nil} : TRUE ELSE NoType
      BY DEF SingleConcrete
    <3>3. SingleConcrete(f, pos)' =
            IF returned' \ {Nil} \subseteq Concrete /\ Cardinality(returned' \ {Nil}) = 1
            THEN CHOOSE t \in returned' \ {Nil} : TRUE ELSE NoType
      BY DEF SingleConcrete
    <3>4. (OrNil(f, pos) <=> Nil \in returned) /\ (OrNil(f, pos)' <=> Nil \in returned')
      BY DEF OrNil
    <3>5. OrNil(f, pos) \in BOOLEAN /\ OrNil(f, pos)' \in BOOLEAN
      BY DEF OrNil
    <3> HIDE DEF returned
    <3> QED
      BY <3>1, <3>2, <3>3, <3>4, <3>5
  <2> DEFINE fixes(k, pos) == FixesResult(pos, results[f][k].type)
             from(k) ==
               {[rule |-> "nointerfacereturn", fn |-> f, at |-> Positions(f, k),
                 built |-> SingleConcrete(f, pos), orNil |-> OrNil(f, pos)] :
                 pos \in {pos \in Positions(f, k) :
                            /\ SingleConcrete(f, pos) # NoType
                            /\ ~Implements(f, TRUE, fixes(k, pos))}}
  <2>3. ASSUME NEW k, NEW pos PROVE fixes(k, pos)' = fixes(k, pos)
    BY <1>1, <1>2 DEF FixesResult
  <2>4. ASSUME NEW k, NEW pos PROVE Implements(f, TRUE, fixes(k, pos))' = Implements(f, TRUE, fixes(k, pos))
    <3> HIDE DEF fixes
    <3>1. \A matches : Implements(f, TRUE, matches)' = Implements(f, TRUE, matches)
      BY <1>2
    <3> QED
      BY <2>3, <3>1 DEF Implements
  <2>5. ASSUME NEW k PROVE from(k)' = from(k)
    <3> HIDE DEF fixes
    <3> QED
      BY <1>2, <2>2, <2>4
  <2>6. (IF pkg.fn[f].kind # "decl" \/ Justified(f) THEN {} ELSE
          UNION {from(k) : k \in {k \in DOMAIN results[f] : Judged(results[f][k].type)}})'
        = IF pkg.fn[f].kind # "decl" \/ Justified(f) THEN {} ELSE
          UNION {from(k) : k \in {k \in DOMAIN results[f] : Judged(results[f][k].type)}}
    <3> HIDE DEF from
    <3> QED
      BY <1>1, <1>2, <2>5
  <2> QED
    BY <2>6 DEF InterfaceReturns
<1>6. AdHocSwitches(f)' = AdHocSwitches(f)
  <2>1. ASSUME NEW s PROVE Admitted(operands[f][s])' = Admitted(operands[f][s])
    <3> DEFINE x == operands[f][s]
               own == pkg.fn[x.of].owner
               index == ParamsBefore(x.of, x.field) + x.name
               matches == {m \in Func : AnyAt(ParamTypes(m), index, index)}
    <3>1. x' = x /\ own' = own
      BY <1>1
    <3>2. index' = index
      BY <1>1 DEF ParamsBefore
    <3>3. matches' = matches
      <4> HIDE DEF index
      <4> QED
        BY <1>2, <3>2
    <3>4. \A i : Satisfies(own, i)' = Satisfies(own, i) /\ MethodsOf(i)' = MethodsOf(i)
      <4>1. \A i : MethodsOf(i)' = MethodsOf(i)
        BY <1>2 DEF MethodsOf
      <4>2. MethodSet(own)' = MethodSet(own)
        BY <1>1, <1>2 DEF MethodSet
      <4>3. \A i : Satisfies(own, i)' = Satisfies(own, i)
        <5> SUFFICES ASSUME NEW i PROVE Satisfies(own, i)' = Satisfies(own, i)
          OBVIOUS
        <5> DEFINE meets(m, g) ==
              /\ pkg.fn[g].name = pkg.fn[m].name
              /\ ParamTypes(g) = ParamTypes(m) /\ Variadic(g) = Variadic(m)
              /\ ResultTypes(g) = ResultTypes(m)
        <5>1. \A m, g : meets(m, g)' = meets(m, g)
          BY <1>2, SamePlacesNow
        <5>2. Satisfies(own, i) = \A m \in MethodsOf(i) : \E g \in MethodSet(own) : meets(m, g)
          BY DEF Satisfies
        <5>3. Satisfies(own, i)' = \A m \in MethodsOf(i)' : \E g \in MethodSet(own)' : meets(m, g)'
          BY DEF Satisfies
        <5> HIDE DEF meets, own
        <5> QED
          BY <4>1, <4>2, <5>1, <5>2, <5>3
      <4> QED
        BY <4>1, <4>3
    <3>5. Scanned(FALSE)' = Scanned(FALSE)
      BY <1>2 DEF Scanned, Iface, MethodsOf
    <3>6. Implements(x.of, FALSE, matches)' = Implements(x.of, FALSE, matches)
      <4> HIDE DEF matches
      <4> QED
        BY <1>1, <3>3, <3>4, <3>5 DEF Implements
    <3>7. Justified(x.of)' = Justified(x.of)
      BY <1>1 DEF Justified
    <3>8. (Justified(x.of) \/ Implements(x.of, FALSE, matches))' = (Justified(x.of) \/ Implements(x.of, FALSE, matches))
      <4> HIDE DEF matches, x
      <4> QED
        BY <3>6, <3>7
    <3> QED
      BY <3>8 DEF Admitted
  <2>2. ASSUME NEW s PROVE OperandType(operands[f][s])' = OperandType(operands[f][s])
    BY <1>1 DEF OperandType
  <2> DEFINE hit(s) ==
        /\ ~pkg.boundary /\ IsEmptyInterface(OperandType(operands[f][s]))
        /\ operands[f][s].kind # "typeparam"
        /\ ~(operands[f][s].kind = "param" /\ Admitted(operands[f][s]))
  <2>3. ASSUME NEW s PROVE hit(s)' = hit(s)
    BY <1>1, <2>1, <2>2 DEF IsEmptyInterface
  <2>4. {Report("noadhoctypeswitch", f, {s}) : s \in {s \in DOMAIN operands[f] : hit(s)}}'
        = {Report("noadhoctypeswitch", f, {s}) : s \in {s \in DOMAIN operands[f] : hit(s)}}
    <3> HIDE DEF hit
    <3> QED
      BY <1>1, <2>3
  <2> QED
    BY <2>4 DEF AdHocSwitches
<1> QED
  BY <1>3, <1>4, <1>5, <1>6 DEF Found
--------------------------------------------------------------------------------
(* The method that an interface names is the one that the type declares,   *)
(* and it has the types that the interface asks for.                       *)
LEMMA OwnMethod ==
  ASSUME Typed, NEW f \in Func, NEW i, NEW m \in MethodsOf(i),
         pkg.fn[f].kind = "decl", pkg.fn[f].owner # "", pkg.fn[f].name = pkg.fn[m].name
  PROVE  \A g \in MethodSet(pkg.fn[f].owner) : pkg.fn[g].name = pkg.fn[m].name => g = f
<1> SUFFICES ASSUME NEW g \in MethodSet(pkg.fn[f].owner), pkg.fn[g].name = pkg.fn[m].name PROVE g = f
  OBVIOUS
<1> DEFINE t == pkg.fn[f].owner
           Own(u) == {h \in Func : pkg.fn[h].kind = "decl" /\ pkg.fn[h].owner = u}
<1>1. f \in Own(t)
  OBVIOUS
<1>2. g \in Own(t) \cup {h \in UNION {Own(u) : u \in pkg.embeds[t]} : \A e \in Own(t) : pkg.fn[e].name # pkg.fn[h].name}
  BY DEF MethodSet
<1>3. pkg.fn[f].name = pkg.fn[g].name
  OBVIOUS
<1> HIDE DEF Own, t
<1>4. g \in Own(t)
  BY <1>1, <1>2, <1>3
<1>5. g \in Func /\ pkg.fn[g].kind = "decl" /\ pkg.fn[g].owner = pkg.fn[f].owner
  BY <1>4 DEF Own, t
<1>6. m \in Func /\ pkg.fn[m].kind \in {"method", "extern"}
  BY DEF MethodsOf
<1>7. pkg \in Packages
  BY DEF Typed
<1>8. pkg.fn[m].name # "_"
  BY <1>6, <1>7, MethodAssumption DEF Func
<1> QED
  BY <1>3, <1>5, <1>7, <1>8, MethodAssumption DEF Func

LEMMA OwnTypes ==
  ASSUME Typed, NEW f \in Func, NEW i, NEW m \in MethodsOf(i),
         pkg.fn[f].kind = "decl", pkg.fn[f].owner # "", pkg.fn[f].name = pkg.fn[m].name,
         Satisfies(pkg.fn[f].owner, i)
  PROVE  ResultTypes(m) = ResultTypes(f) /\ ParamTypes(m) = ParamTypes(f)
<1>1. PICK g \in MethodSet(pkg.fn[f].owner) :
        /\ pkg.fn[g].name = pkg.fn[m].name
        /\ ParamTypes(g) = ParamTypes(m) /\ ResultTypes(g) = ResultTypes(m)
  BY DEF Satisfies
<1>2. g = f
  BY <1>1, OwnMethod
<1> QED
  BY <1>1, <1>2

(* Until somebody edits, the reports are those of the signatures that the  *)
(* run has visited, and who implements what is as it was.                  *)
Reported ==
  /\ phase \in {"run", "ran"} => reports = UNION {Found(f) : f \in 1..next} /\ held = Implementing
  /\ phase = "ran" => next = Len(pkg.fn)

(* No edit asks a result of an interface that is held for another type.    *)
Unfixed ==
  \A r \in reports : r.rule = "nointerfacereturn" =>
    /\ pkg.fn[r.fn].kind = "decl"
    /\ \A pair \in held :
         pair[1] = pkg.fn[r.fn].owner /\ FixesResults(pair[2]) =>
           \A m \in MethodsOf(pair[2]) : pkg.fn[m].name # pkg.fn[r.fn].name

(* A result that was reported as any is any, or what the developer has     *)
(* made of it; the other rule reports other results.                       *)
AnyKept ==
  \A r \in reports : r.rule = "noanyreturn" =>
    /\ r.at \subseteq 1..Len(ResultTypes(r.fn))
    /\ \A pos \in r.at : ResultTypes(r.fn)[pos] \in {AnyType, Payload}

Separate ==
  \A r, s \in reports :
    r.rule = "noanyreturn" /\ s.rule = "nointerfacereturn" /\ r.fn = s.fn => r.at \cap s.at = {}

LEMMA ReportedStep ==
  ASSUME Typed, Reported, Next
  PROVE  Reported'
<1>1. pkg' = pkg /\ next \in Nat
  <2>1. Len(pkg.fn) \in Nat /\ next \in 0..Len(pkg.fn)
    BY Functions DEF Typed
  <2> QED
    BY <2>1, Steps
<1>2. CASE Visit
  <2>1. /\ phase = "run" /\ phase' = "run" /\ next' = next + 1 /\ reports' = reports \cup Found(next + 1)
        /\ held' = held /\ UNCHANGED source
    BY <1>2 DEF Visit, source
  <2>2. Implementing' = Implementing /\ \A f : Found(f)' = Found(f)
    BY <1>1, <2>1, SameContracts, SameFound
  <2>3. UNION {Found(f)' : f \in 1..next'} = (UNION {Found(f) : f \in 1..next}) \cup Found(next + 1)
    <3>1. 1..next' = (1..next) \cup {next + 1}
      BY <1>1, <2>1
    <3> QED
      BY <2>2, <3>1
  <2> QED
    BY <1>1, <2>1, <2>2, <2>3 DEF Reported
<1>3. CASE Finish
  <2>1. /\ phase = "run" /\ next = Len(pkg.fn) /\ next' = next /\ reports' = reports
        /\ held' = held /\ UNCHANGED source
    BY <1>3 DEF Finish, source
  <2>2. Implementing' = Implementing /\ \A f : Found(f)' = Found(f)
    BY <1>1, <2>1, SameContracts, SameFound
  <2>3. UNION {Found(f)' : f \in 1..next'} = UNION {Found(f) : f \in 1..next}
    BY <2>1, <2>2
  <2> QED
    BY <1>1, <2>1, <2>2, <2>3 DEF Reported
<1>4. CASE Rerun
  <2>1. phase' = "run" /\ next' = 0 /\ reports' = {} /\ held' = Implementing /\ UNCHANGED source
    BY <1>4 DEF Rerun, source
  <2>2. Implementing' = Implementing
    BY <1>1, <2>1, SameContracts
  <2>3. UNION {Found(f)' : f \in 1..next'} = {}
    BY <2>1
  <2> QED
    BY <2>1, <2>2, <2>3 DEF Reported
<1>5. CASE phase' = "edited"
  BY <1>5 DEF Reported
<1> QED
  BY <1>2, <1>3, <1>4, <1>5, ReportsStep

LEMMA UnfixedStep ==
  ASSUME Typed, Listed, Reported, Unfixed, Next
  PROVE  Unfixed'
<1>1. pkg' = pkg /\ Func' = Func
  BY Steps
<1>2. \A i : MethodsOf(i)' = MethodsOf(i) /\ FixesResults(i)' = FixesResults(i)
  BY <1>1 DEF MethodsOf, FixesResults
<1> DEFINE safe(r) ==
      r.rule = "nointerfacereturn" =>
        /\ pkg.fn[r.fn].kind = "decl"
        /\ \A pair \in held :
             pair[1] = pkg.fn[r.fn].owner /\ FixesResults(pair[2]) =>
               \A m \in MethodsOf(pair[2]) : pkg.fn[m].name # pkg.fn[r.fn].name
<1>3. \A r \in reports : safe(r)
  BY DEF Unfixed
<1>4. CASE reports' = {}
  BY <1>4 DEF Unfixed
<1>5. ASSUME held' = held, \A r \in reports' : safe(r) PROVE Unfixed'
  <2>1. \A pair \in held : FixesResults(pair[2])' = FixesResults(pair[2]) /\ MethodsOf(pair[2])' = MethodsOf(pair[2])
    BY <1>1 DEF FixesResults, MethodsOf
  <2> QED
    BY <1>1, <1>5, <2>1 DEF Unfixed
<1>6. CASE reports' \subseteq reports /\ held' = held
  BY <1>3, <1>5, <1>6
<1>7. CASE Visit
  <2>1. /\ phase = "run" /\ next + 1 \in Func /\ reports' = reports \cup Found(next + 1) /\ held' = held
    <3>1. Len(pkg.fn) \in Nat /\ next \in 0..Len(pkg.fn) /\ Func = 1..Len(pkg.fn)
      BY Functions DEF Typed
    <3> QED
      BY <1>7, <3>1 DEF Visit
  <2>2. held = Implementing
    BY <2>1 DEF Reported
  <2>3. ASSUME NEW f \in Func, NEW r \in Found(f), r.rule = "nointerfacereturn",
               NEW pair \in held, pair[1] = pkg.fn[f].owner, FixesResults(pair[2]),
               NEW m \in MethodsOf(pair[2]), pkg.fn[m].name = pkg.fn[f].name
        PROVE  FALSE
    <3>1. PICK k \in 1..Len(results[f]) : \E pos \in Positions(f, k) :
            ~Implements(f, TRUE, FixesResult(pos, results[f][k].type))
      BY <2>3, FoundIs
    <3>2. PICK pos \in Positions(f, k) : ~Implements(f, TRUE, FixesResult(pos, results[f][k].type))
      BY <3>1
    <3>3. pkg.fn[f].kind = "decl"
      BY <2>3, FoundIs
    <3>4. /\ pair[1] \in DOMAIN pkg.embeds /\ pair[2] \in Iface /\ Satisfies(pair[1], pair[2])
      BY <2>2 DEF Implementing
    <3>5. pkg.fn[f].owner # "" /\ Satisfies(pkg.fn[f].owner, pair[2])
      <4>1. "" \notin DOMAIN pkg.embeds
        BY Functions
      <4>2. pkg.fn[f].owner # ""
        BY <2>3, <3>4, <4>1
      <4>3. \A t : t = pair[1] => Satisfies(t, pair[2])
        BY <3>4
      <4> QED
        BY <2>3, <4>2, <4>3
    <3>6. ResultTypes(m) = ResultTypes(f)
      BY <2>3, <3>3, <3>5, OwnTypes
    <3>7. pos \in 1..Len(ResultTypes(f)) /\ ResultTypes(f)[pos] = results[f][k].type /\ Len(ResultTypes(f)) \in Nat
      BY ResultsTyped
    <3>8. m \in FixesResult(pos, results[f][k].type)
      <4>1. m \in Func
        BY DEF MethodsOf
      <4> QED
        BY <3>6, <3>7, <4>1 DEF FixesResult
    <3>9. pair[2] \in Scanned(TRUE)
      BY <2>3, <3>4 DEF Scanned, FixesResults
    <3> QED
      BY <2>3, <3>2, <3>3, <3>5, <3>8, <3>9 DEF Implements
  <2>4. \A r \in Found(next + 1) : safe(r)
    <3> DEFINE f == next + 1
    <3>1. f \in Func
      BY <2>1
    <3> HIDE DEF f
    <3>2. \A r \in Found(f) : r.fn = f /\ (r.rule = "nointerfacereturn" => pkg.fn[f].kind = "decl")
      BY <3>1, FoundIs
    <3>3. \A r \in Found(f) : safe(r)
      BY <2>3, <3>1, <3>2
    <3> QED
      BY <3>3 DEF f
  <2> HIDE DEF safe
  <2>5. \A r \in reports' : safe(r)
    BY <1>3, <2>1, <2>4
  <2> QED
    BY <1>5, <2>1, <2>5
<1> QED
  BY <1>4, <1>6, <1>7, ReportsStep
--------------------------------------------------------------------------------
(* What the two edits of results do to the types by position.              *)
LEMMA TypesNow ==
  \A g : ResultTypes(g) = TypesOf(results[g]) /\ ResultTypes(g)' = TypesOf(results'[g])
BY DEF ResultTypes, TypesOf, Spans

LEMMA NarrowTypes ==
  ASSUME Typed, NEW r \in reports, r.fn \in Func, r.built \in Concrete, Narrow(r)
  PROVE  /\ \A g \in Func : Len(ResultTypes(g)') = Len(ResultTypes(g))
         /\ \A g \in Func : g # r.fn => ResultTypes(g)' = ResultTypes(g)
         /\ \A g \in Func : \A pos \in 1..Len(ResultTypes(g)) :
              \/ ResultTypes(g)'[pos] = ResultTypes(g)[pos]
              \/ /\ g = r.fn /\ pos \in r.at
                 /\ SingleConcrete(g, pos) = r.built /\ ResultTypes(g)'[pos] = r.built
<1>1. /\ \A g \in Func : g # r.fn => results'[g] = results[g]
      /\ Len(TypesOf(results'[r.fn])) = Len(ResultTypes(r.fn))
      /\ \A k \in 1..Len(results[r.fn]) : \A pos \in Positions(r.fn, k) :
           TypesOf(results'[r.fn])[pos] =
             IF Positions(r.fn, k) \subseteq r.at /\ SingleConcrete(r.fn, pos) = r.built
             THEN r.built ELSE ResultTypes(r.fn)[pos]
  BY NarrowEffect DEF Types
<1>2. \A g \in Func : g # r.fn => ResultTypes(g)' = ResultTypes(g)
  BY <1>1, TypesNow
<1>3. ASSUME NEW g \in Func PROVE Len(ResultTypes(g)') = Len(ResultTypes(g))
  <2>1. CASE g = r.fn
    BY <1>1, <2>1, TypesNow
  <2>2. CASE g # r.fn
    BY <1>2, <2>2
  <2> QED
    BY <2>1, <2>2
<1>4. ASSUME NEW pos \in 1..Len(ResultTypes(r.fn))
      PROVE  \/ TypesOf(results'[r.fn])[pos] = ResultTypes(r.fn)[pos]
             \/ pos \in r.at /\ SingleConcrete(r.fn, pos) = r.built /\ TypesOf(results'[r.fn])[pos] = r.built
  <2>1. PICK k \in 1..Len(results[r.fn]) : pos \in Positions(r.fn, k)
    BY ResultsTyped
  <2> QED
    BY <1>1, <2>1
<1>5. ASSUME NEW g \in Func, NEW pos \in 1..Len(ResultTypes(g))
      PROVE  \/ ResultTypes(g)'[pos] = ResultTypes(g)[pos]
             \/ /\ g = r.fn /\ pos \in r.at
                /\ SingleConcrete(g, pos) = r.built /\ ResultTypes(g)'[pos] = r.built
  <2>1. CASE g = r.fn
    <3>1. ResultTypes(g)' = TypesOf(results'[r.fn])
      BY <2>1, TypesNow
    <3> QED
      BY <1>4, <2>1, <3>1
  <2>2. CASE g # r.fn
    BY <1>2, <2>2
  <2> QED
    BY <2>1, <2>2
<1> QED
  BY <1>2, <1>3, <1>5

LEMMA RetypeTypes ==
  ASSUME Typed, NEW f \in Func, NEW at, RetypeResult(f, at)
  PROVE  /\ \A g \in Func : Len(ResultTypes(g)') = Len(ResultTypes(g))
         /\ \A g \in Func : \A pos \in 1..Len(ResultTypes(g)) :
              \/ ResultTypes(g)'[pos] = ResultTypes(g)[pos]
              \/ g = f /\ pos \in at /\ ResultTypes(g)'[pos] = Payload
<1>1. /\ \A g \in Func : g # f => results'[g] = results[g]
      /\ Len(TypesOf(results'[f])) = Len(ResultTypes(f))
      /\ \A k \in 1..Len(results[f]) : \A pos \in Positions(f, k) :
           TypesOf(results'[f])[pos] = IF Positions(f, k) \subseteq at THEN Payload ELSE ResultTypes(f)[pos]
  BY RetypeEffect
<1>2. \A g \in Func : g # f => ResultTypes(g)' = ResultTypes(g)
  BY <1>1, TypesNow
<1>3. ASSUME NEW g \in Func PROVE Len(ResultTypes(g)') = Len(ResultTypes(g))
  <2>1. CASE g = f
    BY <1>1, <2>1, TypesNow
  <2>2. CASE g # f
    BY <1>2, <2>2
  <2> QED
    BY <2>1, <2>2
<1>4. ASSUME NEW pos \in 1..Len(ResultTypes(f))
      PROVE  \/ TypesOf(results'[f])[pos] = ResultTypes(f)[pos]
             \/ pos \in at /\ TypesOf(results'[f])[pos] = Payload
  <2>1. PICK k \in 1..Len(results[f]) : pos \in Positions(f, k)
    BY ResultsTyped
  <2> QED
    BY <1>1, <2>1
<1>5. ASSUME NEW g \in Func, NEW pos \in 1..Len(ResultTypes(g))
      PROVE  \/ ResultTypes(g)'[pos] = ResultTypes(g)[pos]
             \/ g = f /\ pos \in at /\ ResultTypes(g)'[pos] = Payload
  <2>1. CASE g = f
    <3>1. ResultTypes(g)' = TypesOf(results'[f])
      BY <2>1, TypesNow
    <3> QED
      BY <1>4, <2>1, <3>1
  <2>2. CASE g # f
    BY <1>2, <2>2
  <2> QED
    BY <2>1, <2>2
<1> QED
  BY <1>3, <1>5

(* Whether a step changes the types of results, and by which report.       *)
LEMMA ResultSteps ==
  ASSUME Typed, Listed, Next
  PROVE  \/ results' = results /\ \A g : ResultTypes(g)' = ResultTypes(g)
         \/ \E r \in reports : Narrow(r) /\ r.fn \in Func /\ r.built \in Concrete
         \/ \E r \in reports : r.rule = "noanyreturn" /\ r.fn \in Func /\ RetypeResult(r.fn, r.at)
<1>1. results' = results => \A g : ResultTypes(g)' = ResultTypes(g)
  BY TypesNow
<1>2. UNCHANGED source => results' = results
  BY DEF source
<1> QED
  BY <1>1, <1>2, Edits

LEMMA SeparateStep ==
  ASSUME Typed, Listed, Separate, Next
  PROVE  Separate'
<1>1. CASE reports' \subseteq reports
  BY <1>1 DEF Separate
<1>2. CASE Visit
  <2> DEFINE f == next + 1
  <2>1. f \in Func /\ reports' = reports \cup Found(f) /\ next \in Nat
    <3>1. Len(pkg.fn) \in Nat /\ next \in 0..Len(pkg.fn) /\ Func = 1..Len(pkg.fn)
      BY Functions DEF Typed
    <3> QED
      BY <1>2, <3>1 DEF Visit
  <2>2. \A r \in reports : r.fn # f
    BY <2>1 DEF Listed
  <2> HIDE DEF f
  <2>3. \A r \in Found(f) : r.fn = f
    BY <2>1, FoundIs
  <2>4. ASSUME NEW r \in Found(f), NEW s \in Found(f), r.rule = "noanyreturn", s.rule = "nointerfacereturn"
        PROVE  r.at \cap s.at = {}
    <3>1. PICK j \in 1..Len(results[f]) : r.at = Positions(f, j) /\ results[f][j].type = AnyType
      BY <2>1, <2>4, FoundIs
    <3>2. PICK k \in 1..Len(results[f]) : s.at = Positions(f, k) /\ Judged(results[f][k].type)
      BY <2>1, <2>4, FoundIs
    <3>3. j # k
      BY <3>1, <3>2 DEF Judged, IsEmptyInterface
    <3>4. \A pos \in Positions(f, j) \cap Positions(f, k) : j = k
      BY <2>1, ResultsTyped
    <3> QED
      BY <3>1, <3>2, <3>3, <3>4
  <2>5. ASSUME NEW r \in reports', NEW s \in reports', r.rule = "noanyreturn", s.rule = "nointerfacereturn", r.fn = s.fn
        PROVE  r.at \cap s.at = {}
    <3>1. CASE r \in reports /\ s \in reports
      BY <2>5, <3>1 DEF Separate
    <3>2. CASE r \in Found(f) /\ s \in Found(f)
      BY <2>4, <2>5, <3>2
    <3> QED
      BY <2>1, <2>2, <2>3, <2>5, <3>1, <3>2
  <2> QED
    BY <2>5 DEF Separate
<1>3. CASE Finish /\ reports' = reports
  BY <1>1, <1>3
<1>4. CASE reports' = {}
  BY <1>1, <1>4
<1> QED
  BY <1>1, <1>2, <1>3, <1>4, ReportsStep

LEMMA AnyKeptStep ==
  ASSUME Typed, Listed, Separate, AnyKept, Next
  PROVE  AnyKept'
<1>1. SUFFICES ASSUME NEW q \in reports', q.rule = "noanyreturn"
               PROVE  /\ q.at \subseteq 1..Len(ResultTypes(q.fn)')
                      /\ \A pos \in q.at : ResultTypes(q.fn)'[pos] \in {AnyType, Payload}
  BY DEF AnyKept
<1>2. ASSUME q \in reports
      PROVE  /\ q.fn \in Func /\ q.at \subseteq 1..Len(ResultTypes(q.fn))
             /\ \A pos \in q.at : ResultTypes(q.fn)[pos] \in {AnyType, Payload}
  BY <1>1, <1>2 DEF AnyKept, Listed
<1>3. CASE q \in reports /\ \A g : ResultTypes(g)' = ResultTypes(g)
  BY <1>2, <1>3
<1>4. CASE q \in reports /\ \E r \in reports : Narrow(r) /\ r.fn \in Func /\ r.built \in Concrete
  <2>1. PICK r \in reports : Narrow(r) /\ r.fn \in Func /\ r.built \in Concrete
    BY <1>4
  <2>2. r.rule = "nointerfacereturn"
    BY <2>1 DEF Narrow
  <2>3. /\ \A g \in Func : Len(ResultTypes(g)') = Len(ResultTypes(g))
        /\ \A g \in Func : \A pos \in 1..Len(ResultTypes(g)) :
             \/ ResultTypes(g)'[pos] = ResultTypes(g)[pos]
             \/ g = r.fn /\ pos \in r.at
    BY <2>1, NarrowTypes
  <2>4. r.fn = q.fn => q.at \cap r.at = {}
    BY <1>1, <1>4, <2>2 DEF Separate
  <2> QED
    BY <1>2, <1>4, <2>3, <2>4
<1>5. CASE q \in reports /\ \E r \in reports : r.rule = "noanyreturn" /\ r.fn \in Func /\ RetypeResult(r.fn, r.at)
  <2>1. PICK r \in reports : r.fn \in Func /\ RetypeResult(r.fn, r.at)
    BY <1>5
  <2>2. /\ \A g \in Func : Len(ResultTypes(g)') = Len(ResultTypes(g))
        /\ \A g \in Func : \A pos \in 1..Len(ResultTypes(g)) :
             \/ ResultTypes(g)'[pos] = ResultTypes(g)[pos]
             \/ ResultTypes(g)'[pos] = Payload
    BY <2>1, RetypeTypes
  <2> QED
    BY <1>2, <1>5, <2>2
<1>6. CASE q \notin reports
  <2>1. Visit
    BY <1>1, <1>6, ReportsStep
  <2> DEFINE f == next + 1
  <2>2. f \in Func /\ q \in Found(f) /\ UNCHANGED source
    <3>1. Len(pkg.fn) \in Nat /\ next \in 0..Len(pkg.fn) /\ Func = 1..Len(pkg.fn)
      BY Functions DEF Typed
    <3> QED
      BY <1>1, <1>6, <2>1, <3>1 DEF Visit, source
  <2> HIDE DEF f
  <2>3. q.fn = f /\ \E k \in 1..Len(results[f]) : q.at = Positions(f, k) /\ results[f][k].type = AnyType
    BY <1>1, <2>2, FoundIs
  <2>4. PICK k \in 1..Len(results[f]) : q.at = Positions(f, k) /\ results[f][k].type = AnyType
    BY <2>3
  <2>5. /\ Positions(f, k) \subseteq 1..Len(ResultTypes(f))
        /\ \A pos \in Positions(f, k) : ResultTypes(f)[pos] = AnyType
    BY <2>2, <2>4, ResultsTyped
  <2>6. ResultTypes(q.fn)' = ResultTypes(q.fn)
    <3>1. results' = results
      BY <2>2 DEF source
    <3> QED
      BY <3>1, TypesNow
  <2>7. ResultTypes(q.fn)' = ResultTypes(f)
    <3>1. \A g : g = f => ResultTypes(g) = ResultTypes(f)
      OBVIOUS
    <3> QED
      BY <2>3, <2>6, <3>1
  <2> QED
    BY <2>3, <2>4, <2>5, <2>7
<1> QED
  BY <1>3, <1>4, <1>5, <1>6, ResultSteps
--------------------------------------------------------------------------------
(* What a statement gives, before and after a step.                        *)
GivenFrom ==
  \A f \in Func : \A i \in DOMAIN pkg.fn[f].returns : \A pos \in 1..Count(pkg.results[f]) :
    /\ Written(f, i, pos) => GivenAt(f, i, pos) = Expression(f, i, pos)
    /\ ~Written(f, i, pos) =>
         GivenAt(f, i, pos) = TypesOf(results[Origin(f, i, pos)[1]])[Origin(f, i, pos)[2]]

LEMMA GivenFact == Typed => GivenFrom
<1> SUFFICES ASSUME Typed, NEW f \in Func, NEW i \in DOMAIN pkg.fn[f].returns, NEW pos \in 1..Count(pkg.results[f])
             PROVE  /\ Written(f, i, pos) => GivenAt(f, i, pos) = Expression(f, i, pos)
                    /\ ~Written(f, i, pos) =>
                         GivenAt(f, i, pos) = TypesOf(results[Origin(f, i, pos)[1]])[Origin(f, i, pos)[2]]
  BY DEF GivenFrom
<1>1. /\ Written(f, i, pos) => GivenAt(f, i, pos) = Expression(f, i, pos)
      /\ ~Written(f, i, pos) => GivenAt(f, i, pos) = ResultTypes(Origin(f, i, pos)[1])[Origin(f, i, pos)[2]]
  BY GivenIs
<1>2. \A g : ResultTypes(g) = TypesOf(results[g])
  BY TypesNow
<1> QED
  BY <1>1, <1>2

LEMMA GivenStep ==
  ASSUME Typed, Typed', pkg' = pkg,
         NEW f \in Func, NEW i \in DOMAIN pkg.fn[f].returns, NEW pos \in 1..Count(pkg.results[f])
  PROVE  \/ GivenAt(f, i, pos)' = GivenAt(f, i, pos) /\ GivenAt(f, i, pos) \in Types \cup {Nil}
         \/ \E g \in Func : \E p \in 1..Len(ResultTypes(g)) :
              GivenAt(f, i, pos) = ResultTypes(g)[p] /\ GivenAt(f, i, pos)' = ResultTypes(g)'[p]
<1>1. /\ Written(f, i, pos)' = Written(f, i, pos) /\ Expression(f, i, pos)' = Expression(f, i, pos)
      /\ Origin(f, i, pos)' = Origin(f, i, pos) /\ Func' = Func
  BY DEF Written, Expression, Origin, Func
<1>2. Typed' => GivenFrom'
  BY GivenFact, PTL
<1>3. /\ Written(f, i, pos)' => GivenAt(f, i, pos)' = Expression(f, i, pos)'
      /\ ~Written(f, i, pos)' =>
           GivenAt(f, i, pos)' = TypesOf(results'[Origin(f, i, pos)'[1]])[Origin(f, i, pos)'[2]]
  <2>1. f \in Func' /\ i \in DOMAIN pkg'.fn[f].returns /\ pos \in 1..Count(pkg'.results[f])
    BY <1>1
  <2> QED
    BY <1>2, <2>1 DEF GivenFrom
<1>4. /\ Written(f, i, pos) => GivenAt(f, i, pos) = Expression(f, i, pos) /\ Expression(f, i, pos) \in Types \cup {Nil}
      /\ ~Written(f, i, pos) =>
           /\ Origin(f, i, pos)[1] \in Func
           /\ Origin(f, i, pos)[2] \in 1..Count(pkg.results[Origin(f, i, pos)[1]])
           /\ GivenAt(f, i, pos) = ResultTypes(Origin(f, i, pos)[1])[Origin(f, i, pos)[2]]
  BY GivenIs
<1>5. CASE Written(f, i, pos)
  BY <1>1, <1>3, <1>4, <1>5
<1>6. CASE ~Written(f, i, pos)
  <2>1. PICK g \in Func : g = Origin(f, i, pos)[1]
    BY <1>4, <1>6
  <2>2. PICK p : p = Origin(f, i, pos)[2]
    OBVIOUS
  <2>3. p \in 1..Len(ResultTypes(g))
    <3>1. Len(ResultTypes(g)) = Count(pkg.results[g])
      BY ResultsTyped
    <3> QED
      BY <1>4, <1>6, <2>1, <2>2, <3>1
  <2>4. GivenAt(f, i, pos) = ResultTypes(g)[p]
    BY <1>4, <1>6, <2>1, <2>2
  <2>5. GivenAt(f, i, pos)' = TypesOf(results'[g])[p]
    BY <1>1, <1>3, <1>6, <2>1, <2>2
  <2>6. ResultTypes(g)' = TypesOf(results'[g])
    BY TypesNow
  <2> QED
    BY <2>3, <2>4, <2>5, <2>6
<1> QED
  BY <1>5, <1>6

(* A body compiles at a place: nil is judged apart.                        *)
Fits(from, to) == Assignable(from, to) \/ (from = Nil /\ to \in Concrete \ Nillable)

LEMMA FitsBuilt ==
  ASSUME NEW built \in Concrete, NEW from \in Interface \cup {built}, NEW to \in Types, Fits(from, to)
  PROVE  Fits(built, to)
BY TypeAssumption DEF Fits, Assignable, Types

LEMMA FitsPayload ==
  /\ \A from \in {AnyType, Payload} : \A to \in Types : Fits(from, to) => Fits(Payload, to)
  /\ \A from \in Types \cup {Nil} : Fits(from, Payload)
BY TypeAssumption DEF Fits, Assignable, Types

Bodies ==
  \A f \in Func : pkg.fn[f].kind = "decl" =>
    \A i \in DOMAIN pkg.fn[f].returns : \A pos \in DOMAIN ResultTypes(f) :
      Fits(GivenAt(f, i, pos), ResultTypes(f)[pos])

LEMMA BodyIs == BodyBuilds <=> Bodies
BY DEF BodyBuilds, Bodies, Fits, GivenAt

LEMMA BodyStep ==
  ASSUME Typed, Listed, Unfixed, AnyKept, BodyBuilds, Next
  PROVE  BodyBuilds'
<1>1. Typed' /\ pkg' = pkg /\ Func' = Func
  BY TypedStep, Steps
<1>2. ASSUME NEW f \in Func
      PROVE  /\ DOMAIN ResultTypes(f) = 1..Len(ResultTypes(f))
             /\ Len(ResultTypes(f)) = Count(pkg.results[f])
             /\ \A pos \in 1..Len(ResultTypes(f)) : ResultTypes(f)[pos] \in Types
  BY ResultsTyped
<1>3. ASSUME NEW f \in Func
      PROVE  DOMAIN ResultTypes(f)' = 1..Len(ResultTypes(f)) /\ Len(ResultTypes(f)') = Len(ResultTypes(f))
  <2>1. ResultTypes(f)' = TypesOf(results'[f])
    BY TypesNow
  <2>2. results'[f] \in Seq(Field) /\ Len(TypesOf(results'[f])) = Count(pkg.results[f])
    BY <1>1 DEF Typed
  <2>3. DOMAIN TypesOf(results'[f]) = 1..Len(TypesOf(results'[f]))
    BY <2>2, Places
  <2> QED
    BY <1>2, <2>1, <2>2, <2>3
<1>4. \A f \in Func : pkg.fn[f].kind = "decl" =>
        \A i \in DOMAIN pkg.fn[f].returns : \A pos \in 1..Len(ResultTypes(f)) :
          Fits(GivenAt(f, i, pos), ResultTypes(f)[pos])
  BY <1>2, BodyIs DEF Bodies
<1>5. SUFFICES ASSUME NEW f \in Func, pkg.fn[f].kind = "decl",
                      NEW i \in DOMAIN pkg.fn[f].returns, NEW pos \in 1..Len(ResultTypes(f))
               PROVE  Fits(GivenAt(f, i, pos)', ResultTypes(f)'[pos])
  <2>1. BodyBuilds' <=> Bodies'
    BY BodyIs, PTL
  <2> QED
    BY <1>1, <1>3, <2>1 DEF Bodies
<1>6. /\ Fits(GivenAt(f, i, pos), ResultTypes(f)[pos]) /\ ResultTypes(f)[pos] \in Types
      /\ pos \in 1..Count(pkg.results[f])
  BY <1>2, <1>4, <1>5
<1>7. \/ GivenAt(f, i, pos)' = GivenAt(f, i, pos) /\ GivenAt(f, i, pos) \in Types \cup {Nil}
      \/ \E g \in Func : \E p \in 1..Len(ResultTypes(g)) :
           GivenAt(f, i, pos) = ResultTypes(g)[p] /\ GivenAt(f, i, pos)' = ResultTypes(g)'[p]
  BY <1>1, <1>6, GivenStep
<1>8. CASE \A g : ResultTypes(g)' = ResultTypes(g)
  BY <1>6, <1>7, <1>8
<1>9. CASE \E r \in reports : Narrow(r) /\ r.fn \in Func /\ r.built \in Concrete
  <2>1. PICK r \in reports : Narrow(r) /\ r.fn \in Func /\ r.built \in Concrete
    BY <1>9
  <2>2. \A g \in Func : \A p \in 1..Len(ResultTypes(g)) :
          \/ ResultTypes(g)'[p] = ResultTypes(g)[p]
          \/ g = r.fn /\ SingleConcrete(g, p) = r.built /\ ResultTypes(g)'[p] = r.built
    BY <2>1, NarrowTypes
  <2>3. pkg.fn[r.fn].kind = "decl" /\ r.built # NoType /\ r.built # Nil
    BY <2>1, TypeAssumption DEF Narrow, Unfixed
  <2>4. ASSUME NEW g \in Func, g = r.fn, NEW p \in 1..Len(ResultTypes(g)), SingleConcrete(g, p) = r.built
        PROVE  /\ ResultTypes(g)[p] \in Interface \cup {r.built}
               /\ \A j \in DOMAIN pkg.fn[g].returns : GivenAt(g, j, p) \in {r.built, Nil}
    <3>1. /\ \E j \in DOMAIN pkg.fn[g].returns : ReturnedType(g, pkg.fn[g].returns[j], p) = r.built
          /\ \A j \in DOMAIN pkg.fn[g].returns : ReturnedType(g, pkg.fn[g].returns[j], p) \in {r.built, Nil}
      BY <2>3, <2>4, SingleIs
    <3>2. NoType \notin {r.built, Nil}
      BY <2>3, TypeAssumption
    <3>3. p \in 1..Count(pkg.results[g])
      BY <1>2
    <3>4. \A j \in DOMAIN pkg.fn[g].returns : GivenAt(g, j, p) = ReturnedType(g, pkg.fn[g].returns[j], p)
      BY <3>1, <3>2, <3>3, GivenIs
    <3>5. PICK j \in DOMAIN pkg.fn[g].returns : GivenAt(g, j, p) = r.built
      BY <3>1, <3>4
    <3>6. Fits(r.built, ResultTypes(g)[p]) /\ ResultTypes(g)[p] \in Types
      BY <1>2, <1>4, <2>3, <2>4, <3>5
    <3>7. ResultTypes(g)[p] \in Interface \cup {r.built}
      BY <2>1, <2>3, <3>6, TypeAssumption DEF Fits, Assignable, Types
    <3> QED
      BY <3>1, <3>4, <3>7
  <2>5. \/ GivenAt(f, i, pos)' = GivenAt(f, i, pos)
        \/ GivenAt(f, i, pos)' = r.built /\ GivenAt(f, i, pos) \in Interface \cup {r.built}
    BY <1>7, <2>2, <2>4
  <2>6. CASE ResultTypes(f)'[pos] = ResultTypes(f)[pos]
    BY <1>6, <2>1, <2>5, <2>6, FitsBuilt
  <2>7. CASE ResultTypes(f)'[pos] = r.built /\ f = r.fn /\ SingleConcrete(f, pos) = r.built
    <3>1. GivenAt(f, i, pos) \in {r.built, Nil}
      BY <2>4, <2>7
    <3>2. GivenAt(f, i, pos)' \in {r.built, Nil}
      BY <2>5, <3>1
    <3> QED
      BY <2>1, <2>7, <3>2 DEF Fits, Assignable
  <2> QED
    BY <2>2, <2>6, <2>7
<1>10. CASE \E r \in reports : r.rule = "noanyreturn" /\ r.fn \in Func /\ RetypeResult(r.fn, r.at)
  <2>1. PICK r \in reports : r.rule = "noanyreturn" /\ r.fn \in Func /\ RetypeResult(r.fn, r.at)
    BY <1>10
  <2>2. \A g \in Func : \A p \in 1..Len(ResultTypes(g)) :
          \/ ResultTypes(g)'[p] = ResultTypes(g)[p]
          \/ ResultTypes(g)[p] \in {AnyType, Payload} /\ ResultTypes(g)'[p] = Payload
    <3>1. \A g \in Func : \A p \in 1..Len(ResultTypes(g)) :
            \/ ResultTypes(g)'[p] = ResultTypes(g)[p]
            \/ g = r.fn /\ p \in r.at /\ ResultTypes(g)'[p] = Payload
      BY <2>1, RetypeTypes
    <3>2. \A p \in r.at : ResultTypes(r.fn)[p] \in {AnyType, Payload}
      BY <2>1 DEF AnyKept
    <3> QED
      BY <3>1, <3>2
  <2>3. \/ GivenAt(f, i, pos)' = GivenAt(f, i, pos)
        \/ GivenAt(f, i, pos) \in {AnyType, Payload} /\ GivenAt(f, i, pos)' = Payload
    BY <1>7, <2>2
  <2>4. GivenAt(f, i, pos)' \in Types \cup {Nil}
    <3>1. GivenAt(f, i, pos) \in Types \cup {Nil} /\ Payload \in Types
      BY <1>2, <1>7, TypeAssumption DEF Types
    <3> QED
      BY <2>3, <3>1
  <2>5. CASE ResultTypes(f)'[pos] = ResultTypes(f)[pos]
    BY <1>6, <2>3, <2>5, FitsPayload
  <2>6. CASE ResultTypes(f)'[pos] = Payload
    BY <2>4, <2>6, FitsPayload
  <2> QED
    BY <2>2, <2>5, <2>6
<1> QED
  BY <1>8, <1>9, <1>10, ResultSteps
--------------------------------------------------------------------------------
(* The inductive invariant.                                                *)
IInv == Typed /\ Listed /\ Reported /\ Unfixed /\ Separate /\ AnyKept

LEMMA InitIInv == Init => IInv
<1> SUFFICES ASSUME Init PROVE IInv
  OBVIOUS
<1>1. Typed /\ Listed /\ reports = {} /\ phase = "run" /\ next = 0 /\ held = Implementing
  BY InitTyped DEF Init
<1>2. UNION {Found(f) : f \in 1..next} = {}
  BY <1>1
<1> QED
  BY <1>1, <1>2 DEF IInv, Reported, Unfixed, Separate, AnyKept

LEMMA NextIInv == IInv /\ [Next]_vars => IInv'
<1> SUFFICES ASSUME IInv, [Next]_vars PROVE IInv'
  OBVIOUS
<1>1. CASE Next
  BY <1>1, TypedStep, ListedStep, ReportedStep, UnfixedStep, SeparateStep, AnyKeptStep DEF IInv
<1>2. CASE UNCHANGED vars
  <2>1. /\ pkg' = pkg /\ UNCHANGED source /\ phase' = phase /\ next' = next
        /\ reports' = reports /\ held' = held
        /\ params' = params /\ results' = results /\ comment' = comment /\ operands' = operands
    BY <1>2 DEF vars, source
  <2>2. /\ Implementing' = Implementing /\ \A f : Found(f)' = Found(f)
        /\ \A g : ResultTypes(g)' = ResultTypes(g)
    BY <2>1, SameContracts, SameFound, SamePlacesNow
  <2>3. Typed' /\ Listed'
    BY <2>1 DEF IInv, Typed, Listed, Func, Iface, Operand
  <2>4. Reported'
    BY <2>1, <2>2 DEF IInv, Reported
  <2>5. Unfixed'
    BY <2>1 DEF IInv, Unfixed, MethodsOf, FixesResults, Func
  <2>6. Separate' /\ AnyKept'
    BY <2>1, <2>2 DEF IInv, Separate, AnyKept
  <2> QED
    BY <2>3, <2>4, <2>5, <2>6 DEF IInv
<1> QED
  BY <1>1, <1>2

LEMMA Invariant == Spec => []IInv
BY InitIInv, NextIInv, PTL DEF Spec

(* A package that compiles at first compiles ever after, whichever reports *)
(* the developer follows and in whichever order (nointerfacereturn.go:142, *)
(* 208, 216).                                                              *)
THEOREM StillBuilds == Spec /\ BodyBuilds => []BodyBuilds
<1>1. BodyBuilds /\ IInv /\ [Next]_vars => BodyBuilds'
  <2> SUFFICES ASSUME BodyBuilds, IInv, [Next]_vars PROVE BodyBuilds'
    OBVIOUS
  <2>1. CASE Next
    BY <2>1, BodyStep DEF IInv
  <2>2. CASE UNCHANGED vars
    <3>1. pkg' = pkg /\ results' = results
      BY <2>2 DEF vars, source
    <3>2. \A g : ResultTypes(g)' = ResultTypes(g)
      BY <3>1, TypesNow
    <3>3. ASSUME NEW f, NEW i, NEW pos PROVE GivenAt(f, i, pos)' = GivenAt(f, i, pos)
      BY <3>1 DEF GivenAt, GivenType, ReturnedType, TypeOf, ResultTypes
    <3>4. Bodies' <=> Bodies
      BY <3>1, <3>2, <3>3 DEF Bodies, Func
    <3>5. BodyBuilds' <=> Bodies'
      BY BodyIs, PTL
    <3> QED
      BY <3>4, <3>5, BodyIs
  <2> QED
    BY <2>1, <2>2
<1> QED
  BY <1>1, Invariant, PTL DEF Spec

(* A narrowed method keeps every interface that its receiver implemented   *)
(* when the run began, also after other reports of that run were followed: *)
(* the advice of the rule compiles (nointerfacereturn.go:208,              *)
(* signature.go:189).                                                      *)
THEOREM NarrowSafe == Spec => NarrowKeeps
<1>1. IInv /\ Next =>
        \A r \in reports : Narrow(r) =>
          \A pair \in held :
            (pair[1] = pkg.fn[r.fn].owner /\ FixesResults(pair[2]) /\ Satisfies(pair[1], pair[2])) =>
              Satisfies(pair[1], pair[2])'
  <2> SUFFICES ASSUME IInv, Next, NEW r \in reports, Narrow(r), NEW pair \in held,
                      pair[1] = pkg.fn[r.fn].owner, FixesResults(pair[2]), Satisfies(pair[1], pair[2])
               PROVE  Satisfies(pair[1], pair[2])'
    OBVIOUS
  <2>1. /\ Typed /\ r.fn \in Func /\ r.built \in Concrete /\ r.rule = "nointerfacereturn"
        /\ pkg' = pkg /\ params' = params
    BY TypeAssumption, Steps DEF IInv, Listed, Narrow
  <2>2. \A g \in Func : g # r.fn => ResultTypes(g)' = ResultTypes(g)
    BY <2>1, NarrowTypes
  <2>3. /\ pkg.fn[r.fn].kind = "decl"
        /\ \A m \in MethodsOf(pair[2]) : pkg.fn[m].name # pkg.fn[r.fn].name
    BY <2>1 DEF IInv, Unfixed
  <2>4. \A g : ParamTypes(g)' = ParamTypes(g) /\ Variadic(g)' = Variadic(g)
    BY <2>1 DEF ParamTypes, Variadic
  <2>5. MethodSet(pair[1])' = MethodSet(pair[1]) /\ MethodsOf(pair[2])' = MethodsOf(pair[2])
    BY <2>1 DEF MethodSet, MethodsOf, Func
  <2>6. MethodSet(pair[1]) \subseteq Func /\ MethodsOf(pair[2]) \subseteq Func
    BY DEF MethodSet, MethodsOf
  <2>7. ASSUME NEW m \in MethodsOf(pair[2]), NEW g \in MethodSet(pair[1]), pkg.fn[g].name = pkg.fn[m].name
        PROVE  ResultTypes(m)' = ResultTypes(m) /\ ResultTypes(g)' = ResultTypes(g)
    <3>1. pkg.fn[m].kind # "decl"
      BY DEF MethodsOf
    <3>2. m # r.fn /\ g # r.fn
      BY <2>3, <2>7, <3>1
    <3> QED
      BY <2>2, <2>6, <3>2
  <2>8. ASSUME NEW m \in MethodsOf(pair[2])
        PROVE  \E g \in MethodSet(pair[1]) :
                 /\ pkg'.fn[g].name = pkg'.fn[m].name
                 /\ ParamTypes(g)' = ParamTypes(m)' /\ Variadic(g)' = Variadic(m)'
                 /\ ResultTypes(g)' = ResultTypes(m)'
    <3>1. PICK g \in MethodSet(pair[1]) :
            /\ pkg.fn[g].name = pkg.fn[m].name
            /\ ParamTypes(g) = ParamTypes(m) /\ Variadic(g) = Variadic(m)
            /\ ResultTypes(g) = ResultTypes(m)
      BY DEF Satisfies
    <3> QED
      BY <2>1, <2>4, <2>7, <3>1
  <2> QED
    BY <2>5, <2>8 DEF Satisfies
<1>2. IInv /\ [Next]_vars =>
        [\A r \in reports : Narrow(r) =>
          \A pair \in held :
            (pair[1] = pkg.fn[r.fn].owner /\ FixesResults(pair[2]) /\ Satisfies(pair[1], pair[2])) =>
              Satisfies(pair[1], pair[2])']_vars
  BY <1>1
<1> QED
  BY <1>2, Invariant, PTL DEF Spec, NarrowKeeps
--------------------------------------------------------------------------------
(* The exemption of a result is that following the advice would take an    *)
(* interface, whichever result of the field one asks about.                *)
LEMMA ExemptIfBreaks ==
  ASSUME Typed, NEW f \in Func, pkg.fn[f].kind = "decl",
         NEW pos \in 1..Len(ResultTypes(f)), NEW other \in 1..Len(ResultTypes(f)), NEW type,
         NEW declared, ResultTypes(f)[pos] = declared, ResultTypes(f)[other] = declared, Breaks(f, pos, type)
  PROVE  Implements(f, TRUE, FixesResult(other, declared))
<1>1. PICK i \in Iface : /\ FixesResults(i) /\ pkg.fn[f].owner # ""
                         /\ Satisfies(pkg.fn[f].owner, i)
                         /\ ~StillSatisfies(pkg.fn[f].owner, i, f, pos, type)
  BY DEF Breaks
<1>2. PICK m \in MethodsOf(i) :
        ~ \E g \in MethodSet(pkg.fn[f].owner) :
            /\ pkg.fn[g].name = pkg.fn[m].name
            /\ ParamTypes(g) = ParamTypes(m) /\ Variadic(g) = Variadic(m)
            /\ WithResult(f, pos, type, g) = ResultTypes(m)
  BY <1>1 DEF StillSatisfies
<1>3. PICK g \in MethodSet(pkg.fn[f].owner) :
        /\ pkg.fn[g].name = pkg.fn[m].name
        /\ ParamTypes(g) = ParamTypes(m) /\ Variadic(g) = Variadic(m)
        /\ ResultTypes(g) = ResultTypes(m)
  BY <1>1 DEF Satisfies
<1>4. g = f
  BY <1>2, <1>3 DEF WithResult
<1>5. m \in Func /\ ResultTypes(m) = ResultTypes(f) /\ pkg.fn[m].name = pkg.fn[f].name
  BY <1>3, <1>4 DEF MethodsOf
<1>6. m \in FixesResult(other, declared)
  <2>1. Len(ResultTypes(f)) \in Nat
    BY ResultsTyped
  <2> QED
    BY <1>5, <2>1 DEF FixesResult
<1>7. i \in Scanned(TRUE)
  BY <1>1, <1>2 DEF Scanned, FixesResults
<1> QED
  BY <1>1, <1>5, <1>6, <1>7 DEF Implements

LEMMA BreaksIfExempt ==
  ASSUME Typed, NEW f \in Func, pkg.fn[f].kind = "decl",
         NEW pos \in 1..Len(ResultTypes(f)), NEW type, type # ResultTypes(f)[pos],
         Implements(f, TRUE, FixesResult(pos, ResultTypes(f)[pos]))
  PROVE  Breaks(f, pos, type)
<1>1. PICK i \in Scanned(TRUE) :
        /\ \E m \in MethodsOf(i) \cap FixesResult(pos, ResultTypes(f)[pos]) : pkg.fn[m].name = pkg.fn[f].name
        /\ pkg.fn[f].owner # "" /\ Satisfies(pkg.fn[f].owner, i)
  BY DEF Implements
<1>2. PICK m \in MethodsOf(i) : m \in FixesResult(pos, ResultTypes(f)[pos]) /\ pkg.fn[m].name = pkg.fn[f].name
  BY <1>1
<1>3. i \in Iface /\ FixesResults(i)
  BY DEF Scanned, FixesResults
<1>4. ResultTypes(m)[pos] = ResultTypes(f)[pos]
  BY <1>2 DEF FixesResult
<1>5. ASSUME NEW g \in MethodSet(pkg.fn[f].owner), pkg.fn[g].name = pkg.fn[m].name,
             WithResult(f, pos, type, g) = ResultTypes(m)
      PROVE  FALSE
  <2>1. g = f
    BY <1>1, <1>2, <1>5, OwnMethod
  <2>2. ResultTypes(m) = [ResultTypes(f) EXCEPT ![pos] = type]
    BY <1>5, <2>1 DEF WithResult
  <2>3. pos \in DOMAIN ResultTypes(f)
    BY ResultsTyped
  <2>4. [ResultTypes(f) EXCEPT ![pos] = type][pos] = type
    BY <2>3
  <2> QED
    BY <1>4, <2>2, <2>4
<1>6. ~StillSatisfies(pkg.fn[f].owner, i, f, pos, type)
  BY <1>2, <1>5 DEF StillSatisfies
<1> QED
  BY <1>1, <1>3, <1>6 DEF Breaks

LEMMA SameTruth ==
  ASSUME NEW a \in BOOLEAN, NEW b \in BOOLEAN, a <=> b
  PROVE  a = b
OBVIOUS

(* The type that the values of a place have is the one the rule finds.     *)
LEMMA SingleIfBuilds ==
  ASSUME Typed, NEW f \in Func, NEW pos \in 1..Len(ResultTypes(f)), NEW type \in Concrete,
         ResultTypes(f)[pos] \in Interface, Builds(f, pos, type)
  PROVE  /\ SingleConcrete(f, pos) = type
         /\ OrNil(f, pos) = (Nil \in Given(f, pos))
<1> DEFINE given == Given(f, pos)
           returned == {ReturnedType(f, pkg.fn[f].returns[i], pos) : i \in DOMAIN pkg.fn[f].returns}
<1>1. type \in given /\ given \subseteq {type, Nil}
  BY DEF Builds
<1>2. ASSUME NEW i \in DOMAIN pkg.fn[f].returns
      PROVE  GivenType(f, pkg.fn[f].returns[i], pos) = ReturnedType(f, pkg.fn[f].returns[i], pos)
  <2>1. pos \in 1..Count(pkg.results[f])
    BY ResultsTyped
  <2>2. ResultTypes(f)[pos] \notin {type, Nil}
    BY TypeAssumption
  <2>3. GivenAt(f, i, pos) \in {type, Nil}
    <3>1. GivenAt(f, i, pos) \in given
      BY DEF GivenAt, Given
    <3> QED
      BY <1>1, <3>1
  <2>4. /\ pkg.fn[f].returns[i] # <<>> => GivenAt(f, i, pos) = ReturnedType(f, pkg.fn[f].returns[i], pos)
        /\ pkg.fn[f].returns[i] = <<>> => GivenAt(f, i, pos) = ResultTypes(f)[pos]
    BY <2>1, GivenIs
  <2> QED
    BY <2>2, <2>3, <2>4 DEF GivenAt
<1>3. given = returned
  BY <1>2 DEF Given
<1> HIDE DEF given
<1>4. returned \ {Nil} = {type}
  BY <1>1, <1>3, TypeAssumption
<1>5. Cardinality({type}) = 1
  BY FS_Singleton
<1>6. SingleConcrete(f, pos) =
        IF returned \ {Nil} \subseteq Concrete /\ Cardinality(returned \ {Nil}) = 1
        THEN CHOOSE t \in returned \ {Nil} : TRUE ELSE NoType
  BY DEF SingleConcrete
<1>7. OrNil(f, pos) = (Nil \in returned)
  <2>1. OrNil(f, pos) <=> Nil \in returned
    BY DEF OrNil
  <2>2. OrNil(f, pos) \in BOOLEAN /\ (Nil \in returned) \in BOOLEAN
    BY DEF OrNil
  <2> QED
    BY <2>1, <2>2, SameTruth
<1> HIDE DEF returned
<1> QED
  BY <1>3, <1>4, <1>5, <1>6, <1>7 DEF given

(* The type that the rule finds is the one that the values of a place have. *)
LEMMA BuildsIfSingle ==
  ASSUME Typed, NEW f \in Func, NEW pos \in 1..Len(ResultTypes(f)), SingleConcrete(f, pos) # NoType
  PROVE  Builds(f, pos, SingleConcrete(f, pos)) /\ OrNil(f, pos) = (Nil \in Given(f, pos))
<1> DEFINE returned == {ReturnedType(f, pkg.fn[f].returns[i], pos) : i \in DOMAIN pkg.fn[f].returns}
           single == SingleConcrete(f, pos)
<1>1. /\ single \in Concrete
      /\ \E i \in DOMAIN pkg.fn[f].returns : ReturnedType(f, pkg.fn[f].returns[i], pos) = single
      /\ \A i \in DOMAIN pkg.fn[f].returns : ReturnedType(f, pkg.fn[f].returns[i], pos) \in {single, Nil}
  BY SingleIs
<1> HIDE DEF single
<1>2. single # NoType /\ Nil # NoType
  BY <1>1, TypeAssumption
<1>3. ASSUME NEW i \in DOMAIN pkg.fn[f].returns
      PROVE  GivenType(f, pkg.fn[f].returns[i], pos) = ReturnedType(f, pkg.fn[f].returns[i], pos)
  <2>1. pos \in 1..Count(pkg.results[f])
    BY ResultsTyped
  <2>2. /\ pkg.fn[f].returns[i] # <<>> => GivenAt(f, i, pos) = ReturnedType(f, pkg.fn[f].returns[i], pos)
        /\ pkg.fn[f].returns[i] = <<>> => ReturnedType(f, pkg.fn[f].returns[i], pos) = NoType
    BY <2>1, GivenIs
  <2>3. ReturnedType(f, pkg.fn[f].returns[i], pos) # NoType
    BY <1>1, <1>2
  <2> QED
    BY <2>2, <2>3 DEF GivenAt
<1>4. Given(f, pos) = returned
  BY <1>3 DEF Given
<1>5. single \in returned /\ returned \subseteq {single, Nil}
  BY <1>1
<1>6. OrNil(f, pos) = (Nil \in returned)
  <2>1. OrNil(f, pos) <=> Nil \in returned
    BY DEF OrNil
  <2>2. OrNil(f, pos) \in BOOLEAN /\ (Nil \in returned) \in BOOLEAN
    BY DEF OrNil
  <2> QED
    BY <2>1, <2>2, SameTruth
<1> HIDE DEF returned
<1> QED
  BY <1>4, <1>5, <1>6 DEF Builds, single

LEMMA JustifiedIs ==
  ASSUME Typed, NEW f \in Func
  PROVE  ~Justified(f) <=> (comment[f].above => comment[f].doc /\ ~comment[f].marker)
<1>1. comment[f] \in [above : BOOLEAN, doc : BOOLEAN, marker : BOOLEAN]
  BY DEF Typed
<1>2. comment[f].above \in BOOLEAN /\ comment[f].doc \in BOOLEAN /\ comment[f].marker \in BOOLEAN
  BY <1>1
<1> QED
  BY <1>2 DEF Justified

LEMMA Ran ==
  ASSUME Typed, Reported, phase = "ran"
  PROVE  reports = UNION {Found(f) : f \in Func}
<1>1. reports = UNION {Found(f) : f \in 1..next} /\ next = Len(pkg.fn)
  BY DEF Reported
<1> QED
  BY <1>1, Functions

(* After a run the reports of the rule on interface results are those of   *)
(* the fields whose body gives one concrete type at a place, where nothing *)
(* justifies the signature and narrowing it would take no interface that   *)
(* the rule reads from the receiver (nointerfacereturn.go:187 and :208,    *)
(* signature.go:189): no other report, and none of these is missing.       *)
THEOREM ReportsAreExact == Spec => []ReportsExact
<1>1. ASSUME IInv, phase = "ran", NEW r \in reports, r.rule = "nointerfacereturn"
      PROVE  \E k \in DOMAIN results[r.fn] : \E pos \in Positions(r.fn, k) :
               Warranted(r.fn, k, pos, r.built) /\ r = Advice(r.fn, k, pos, r.built)
  <2>1. Typed /\ reports = UNION {Found(g) : g \in Func}
    BY <1>1, Ran DEF IInv
  <2>2. PICK f \in Func : r \in Found(f)
    BY <1>1, <2>1
  <2>3. /\ r.fn = f /\ ~pkg.fn[f].generated /\ pkg.fn[f].kind = "decl" /\ ~Justified(f)
        /\ \E k \in 1..Len(results[f]) : \E pos \in Positions(f, k) :
             /\ r.at = Positions(f, k) /\ Judged(results[f][k].type)
             /\ r.built = SingleConcrete(f, pos) /\ r.built # NoType
             /\ r.orNil = OrNil(f, pos)
             /\ ~Implements(f, TRUE, FixesResult(pos, results[f][k].type))
    BY <1>1, <2>1, <2>2, FoundIs
  <2>4. PICK k \in 1..Len(results[f]) : \E pos \in Positions(f, k) :
          /\ r.at = Positions(f, k) /\ Judged(results[f][k].type)
          /\ r.built = SingleConcrete(f, pos) /\ r.built # NoType
          /\ r.orNil = OrNil(f, pos)
          /\ ~Implements(f, TRUE, FixesResult(pos, results[f][k].type))
    BY <2>3
  <2>5. PICK pos \in Positions(f, k) :
          /\ r.at = Positions(f, k) /\ Judged(results[f][k].type)
          /\ r.built = SingleConcrete(f, pos) /\ r.built # NoType
          /\ r.orNil = OrNil(f, pos)
          /\ ~Implements(f, TRUE, FixesResult(pos, results[f][k].type))
    BY <2>4
  <2>6. /\ k \in DOMAIN results[f] /\ pos \in 1..Len(ResultTypes(f))
        /\ ResultTypes(f)[pos] = results[f][k].type
    BY <2>1, ResultsTyped
  <2>7. Builds(f, pos, r.built) /\ r.orNil = (Nil \in Given(f, pos))
    BY <2>1, <2>5, <2>6, BuildsIfSingle
  <2>8. ~Breaks(f, pos, r.built)
    BY <2>1, <2>3, <2>5, <2>6, ExemptIfBreaks
  <2>9. Warranted(f, k, pos, r.built)
    <3>1. comment[f].above => comment[f].doc /\ ~comment[f].marker
      BY <2>1, <2>3, JustifiedIs
    <3>2. results[f][k].type \in Interface \ {AnyType, Error, Generic}
      BY <2>5 DEF Judged, IsEmptyInterface
    <3> QED
      BY <2>3, <2>7, <2>8, <3>1, <3>2 DEF Warranted
  <2>10. r = Advice(f, k, pos, r.built)
    <3>1. \E kk \in DOMAIN results[f] : \E p \in Positions(f, kk) :
            r = [rule |-> "nointerfacereturn", fn |-> f, at |-> Positions(f, kk),
                 built |-> SingleConcrete(f, p), orNil |-> OrNil(f, p)]
      BY <1>1, <2>1, <2>2, FoundForm
    <3> QED
      BY <2>5, <2>7, <3>1 DEF Advice
  <2> QED
    BY <2>3, <2>6, <2>9, <2>10
<1>2. ASSUME IInv, phase = "ran", NEW f \in Func, NEW k \in DOMAIN results[f],
             NEW pos \in Positions(f, k), NEW type \in Concrete, Warranted(f, k, pos, type)
      PROVE  Advice(f, k, pos, type) \in reports
  <2>1. Typed /\ reports = UNION {Found(g) : g \in Func}
    BY <1>2, Ran DEF IInv
  <2>2. /\ pkg.fn[f].kind = "decl" /\ ~pkg.fn[f].generated /\ Builds(f, pos, type)
        /\ results[f][k].type \in Interface \ {AnyType, Error, Generic} /\ ~Breaks(f, pos, type)
        /\ comment[f].above => comment[f].doc /\ ~comment[f].marker
    BY <1>2 DEF Warranted
  <2>3. /\ pos \in 1..Len(ResultTypes(f)) /\ ResultTypes(f)[pos] = results[f][k].type
    BY <1>2, <2>1, ResultsTyped
  <2>4. /\ SingleConcrete(f, pos) = type /\ type # NoType /\ type # ResultTypes(f)[pos]
        /\ OrNil(f, pos) = (Nil \in Given(f, pos))
    BY <1>2, <2>1, <2>2, <2>3, SingleIfBuilds, TypeAssumption
  <2>5. ~Implements(f, TRUE, FixesResult(pos, results[f][k].type))
    BY <2>1, <2>2, <2>3, <2>4, BreaksIfExempt
  <2>6. ~Justified(f) /\ Judged(results[f][k].type)
    BY <2>1, <2>2, JustifiedIs DEF Judged, IsEmptyInterface
  <2> DEFINE report(j, p) == [rule |-> "nointerfacereturn", fn |-> f, at |-> Positions(f, j),
                              built |-> SingleConcrete(f, p), orNil |-> OrNil(f, p)]
             good(j) == {p \in Positions(f, j) :
                           /\ SingleConcrete(f, p) # NoType
                           /\ ~Implements(f, TRUE, FixesResult(p, results[f][j].type))}
             fields == {j \in DOMAIN results[f] : Judged(results[f][j].type)}
  <2>7. InterfaceReturns(f) = UNION {{report(j, p) : p \in good(j)} : j \in fields}
    BY <2>2, <2>6 DEF InterfaceReturns
  <2>8. Advice(f, k, pos, type) = report(k, pos) /\ pos \in good(k) /\ k \in fields
    BY <1>2, <2>4, <2>5, <2>6 DEF Advice
  <2> HIDE DEF report, good, fields
  <2>9. Advice(f, k, pos, type) \in {report(k, p) : p \in good(k)}
    BY <2>8
  <2>10. Advice(f, k, pos, type) \in Found(f)
    BY <2>2, <2>7, <2>8, <2>9 DEF Found
  <2> QED
    BY <2>1, <2>10
<1>3. IInv => ReportsExact
  BY <1>1, <1>2 DEF ReportsExact
<1> QED
  BY <1>3, Invariant, PTL
--------------------------------------------------------------------------------
(* An interface that asks a method for its parameter types asks for any in *)
(* each place of a field that is any.                                      *)
LEMMA FieldIsAny ==
  ASSUME Typed, NEW f \in Func, NEW k \in 1..Len(params[f]), params[f][k].type = AnyType
  PROVE  LET from == ParamsBefore(f, k) IN
         /\ AnyAt(ParamTypes(f), from + 1, from + NameCount(params[f][k]))
         /\ \A name \in 1..NameCount(params[f][k]) : AnyAt(ParamTypes(f), from + name, from + name)
<1> DEFINE fields == Counted(params[f])
           n == NameCount(params[f][k])
           from == ParamsBefore(f, k)
<1>1. /\ fields \in Seq(Field) /\ k \in 1..Len(fields) /\ fields[k] = [span |-> n, type |-> params[f][k].type]
      /\ ParamTypes(f) = TypesOf(fields) /\ from = Upto(fields, k - 1)
  BY ParamPlaces
<1>2. fields[k].span = n /\ fields[k].type = AnyType
  <2> HIDE DEF fields, n
  <2> QED
    BY <1>1
<1> HIDE DEF fields, n, from
<1>3. /\ Len(TypesOf(fields)) \in Nat /\ Upto(fields, k) = Upto(fields, k - 1) + fields[k].span
      /\ Block(fields, k) \subseteq 1..Len(TypesOf(fields))
      /\ Block(fields, k) # {}
      /\ \A pos \in Block(fields, k) : TypesOf(fields)[pos] = fields[k].type
  BY <1>1, Places
<1>4. from \in Nat /\ n \in Nat \ {0}
  <2>1. k - 1 \in 0..Len(fields) /\ fields[k] \in Field
    BY <1>1, ElementOfSeq, LenProperties
  <2> QED
    BY <1>1, <1>2, <2>1, Places DEF Field
<1>5. Block(fields, k) = from + 1..from + n
  BY <1>1, <1>2, <1>3 DEF Block
<1>6. \A pos \in from + 1..from + n : pos <= Len(ParamTypes(f)) /\ ParamTypes(f)[pos] = AnyType
  BY <1>1, <1>2, <1>3, <1>4, <1>5
<1>7. AnyAt(ParamTypes(f), from + 1, from + n)
  <2>1. from + n \in from + 1..from + n
    BY <1>4
  <2> QED
    BY <1>6, <2>1 DEF AnyAt, IsEmptyInterface
<1>8. ASSUME NEW name \in 1..n PROVE AnyAt(ParamTypes(f), from + name, from + name)
  <2>1. from + name \in from + 1..from + n /\ \A pos \in from + name..from + name : pos = from + name
    BY <1>4
  <2> QED
    BY <1>6, <2>1 DEF AnyAt, IsEmptyInterface
<1> QED
  BY <1>7, <1>8 DEF n, from

LEMMA SameExemption ==
  ASSUME Typed, NEW f \in Func, NEW one, NEW two, Implements(f, FALSE, one),
         \A m \in Func : ParamTypes(m) = ParamTypes(f) => m \in two
  PROVE  Implements(f, FALSE, two)
<1>1. /\ pkg.fn[f].kind = "decl" /\ pkg.fn[f].owner # ""
      /\ \E i \in Scanned(FALSE) :
           /\ \E m \in MethodsOf(i) \cap one : pkg.fn[m].name = pkg.fn[f].name
           /\ Satisfies(pkg.fn[f].owner, i)
  BY DEF Implements
<1>2. PICK i \in Scanned(FALSE) :
           /\ \E m \in MethodsOf(i) \cap one : pkg.fn[m].name = pkg.fn[f].name
           /\ Satisfies(pkg.fn[f].owner, i)
  BY <1>1
<1>3. PICK m \in MethodsOf(i) : pkg.fn[m].name = pkg.fn[f].name
  BY <1>2
<1>4. ParamTypes(m) = ParamTypes(f)
  BY <1>1, <1>2, <1>3, OwnTypes
<1>5. m \in two
  BY <1>4 DEF MethodsOf
<1> QED
  BY <1>1, <1>2, <1>3, <1>5 DEF Implements

LEMMA InParams ==
  ASSUME Typed, Reported, phase = "ran", NEW f \in Func, NEW k \in 1..Len(params[f]),
         pkg.fn[f].kind \in {"decl", "lit"}, ~pkg.fn[f].generated
  PROVE  Report("noanyparam", f, {k}) \in reports <=>
           /\ IsEmptyInterface(params[f][k].type)
           /\ ~WrapsCause(params[f][k]) /\ ~FormatStyle(f, k)
           /\ ~Justified(f)
           /\ ~Implements(f, FALSE, {m \in Func : AnyAt(ParamTypes(m), ParamsBefore(f, k) + 1,
                                                        ParamsBefore(f, k) + NameCount(params[f][k]))})
<1> DEFINE r == Report("noanyparam", f, {k})
           hit(j) ==
             /\ IsEmptyInterface(params[f][j].type)
             /\ ~WrapsCause(params[f][j]) /\ ~FormatStyle(f, j)
             /\ ~Justified(f)
             /\ ~Implements(f, FALSE, {m \in Func : AnyAt(ParamTypes(m), ParamsBefore(f, j) + 1,
                                                          ParamsBefore(f, j) + NameCount(params[f][j]))})
<1>1. reports = UNION {Found(g) : g \in Func}
  BY Ran
<1>2. r.rule = "noanyparam" /\ r.fn = f /\ r.at = {k}
  BY DEF Report
<1>3. AnyParams(f) = {Report("noanyparam", f, {j}) : j \in {j \in DOMAIN params[f] : hit(j)}}
  BY DEF AnyParams
<1>4. k \in DOMAIN params[f]
  BY ParamPlaces
<1> HIDE DEF hit
<1>5. hit(k) => r \in Found(f)
  BY <1>3, <1>4 DEF Found
<1>6. ASSUME r \in reports PROVE hit(k)
  <2>1. PICK g \in Func : r \in Found(g)
    BY <1>1, <1>6
  <2>2. g = f
    BY <1>2, <2>1, FoundIs
  <2>3. r \in AnyParams(f)
    BY <1>2, <2>1, <2>2, FoundIs
  <2>4. PICK j \in {j \in DOMAIN params[f] : hit(j)} : r = Report("noanyparam", f, {j})
    BY <1>3, <2>3
  <2>5. r.at = {j}
    BY <2>4 DEF Report
  <2> QED
    BY <1>2, <2>4, <2>5
<1> QED
  BY <1>1, <1>5, <1>6 DEF hit

LEMMA InSwitches ==
  ASSUME Typed, Reported, phase = "ran", NEW f \in Func, NEW s \in 1..Len(operands[f]),
         pkg.fn[f].kind \in {"decl", "lit"}, ~pkg.fn[f].generated
  PROVE  Report("noadhoctypeswitch", f, {s}) \in reports <=>
           /\ ~pkg.boundary /\ IsEmptyInterface(OperandType(operands[f][s]))
           /\ operands[f][s].kind # "typeparam"
           /\ ~(operands[f][s].kind = "param" /\ Admitted(operands[f][s]))
<1> DEFINE r == Report("noadhoctypeswitch", f, {s})
           hit(j) ==
             /\ ~pkg.boundary /\ IsEmptyInterface(OperandType(operands[f][j]))
             /\ operands[f][j].kind # "typeparam"
             /\ ~(operands[f][j].kind = "param" /\ Admitted(operands[f][j]))
<1>1. reports = UNION {Found(g) : g \in Func}
  BY Ran
<1>2. r.rule = "noadhoctypeswitch" /\ r.fn = f /\ r.at = {s}
  BY DEF Report
<1>3. AdHocSwitches(f) = {Report("noadhoctypeswitch", f, {j}) : j \in {j \in DOMAIN operands[f] : hit(j)}}
  BY DEF AdHocSwitches
<1>4. s \in DOMAIN operands[f]
  <2>1. operands[f] \in Seq(Operand)
    BY DEF Typed
  <2> QED
    BY <2>1, LenProperties
<1> HIDE DEF hit
<1>5. hit(s) => r \in Found(f)
  BY <1>3, <1>4 DEF Found
<1>6. ASSUME r \in reports PROVE hit(s)
  <2>1. PICK g \in Func : r \in Found(g)
    BY <1>1, <1>6
  <2>2. g = f
    BY <1>2, <2>1, FoundIs
  <2>3. r \in AdHocSwitches(f)
    BY <1>2, <2>1, <2>2, FoundIs
  <2>4. PICK j \in {j \in DOMAIN operands[f] : hit(j)} : r = Report("noadhoctypeswitch", f, {j})
    BY <1>3, <2>3
  <2>5. r.at = {j}
    BY <2>4 DEF Report
  <2> QED
    BY <1>2, <2>4, <2>5
<1> QED
  BY <1>1, <1>5, <1>6 DEF hit

(* A type switch on a parameter of type any is reported exactly if the     *)
(* rule on parameters reports the parameter, or would but for its name:    *)
(* field by field and index by index they answer alike (signature.go:98,   *)
(* noadhoctypeswitch.go, noanyparam.go).                                   *)
THEOREM SwitchesAgree == Spec => []SwitchAgrees
<1>1. IInv => SwitchAgrees
  <2> SUFFICES ASSUME IInv, phase = "ran", NEW f \in Func, NEW s \in 1..Len(operands[f]),
                      operands[f][s].kind = "param", OperandType(operands[f][s]) = AnyType,
                      ~pkg.boundary, ~pkg.fn[f].generated
               PROVE  Report("noadhoctypeswitch", f, {s}) \in reports <=>
                        \/ Report("noanyparam", operands[f][s].of, {operands[f][s].field}) \in reports
                        \/ WrapsCause(params[operands[f][s].of][operands[f][s].field]) /\ ~Admitted(operands[f][s])
    <3>1. IInv => \A f \in Func : DOMAIN operands[f] = 1..Len(operands[f])
      <4>1. IInv => \A f \in Func : operands[f] \in Seq(Operand)
        BY DEF IInv, Typed
      <4> QED
        BY <4>1, LenProperties
    <3> QED
      BY <3>1 DEF SwitchAgrees
  <2> DEFINE x == operands[f][s]
             g == x.of
             k == x.field
             index == ParamsBefore(g, k) + x.name
             one == {m \in Func : AnyAt(ParamTypes(m), ParamsBefore(g, k) + 1, ParamsBefore(g, k) + NameCount(params[g][k]))}
             two == {m \in Func : AnyAt(ParamTypes(m), index, index)}
  <2>1. Typed /\ Reported
    BY DEF IInv
  <2>2. /\ pkg.fn[f].kind \in {"decl", "lit"} /\ g \in Func /\ pkg.fn[g].kind \in {"decl", "lit"}
        /\ ~pkg.fn[g].generated /\ k \in 1..Len(params[g]) /\ x.name \in 1..NameCount(params[g][k])
    BY <2>1, OperandPlaces
  <2>3. Admitted(x) <=> Justified(g) \/ Implements(g, FALSE, two)
    BY DEF Admitted
  <2>4. ~params[g][k].variadic /\ params[g][k].type = AnyType
    <3>1. OperandType(x) = IF params[g][k].variadic THEN NoType ELSE params[g][k].type
      BY DEF OperandType
    <3> QED
      BY <3>1, TypeAssumption
  <2> HIDE DEF x, g, k
  <2>5. Implements(g, FALSE, one) <=> Implements(g, FALSE, two)
    <3>1. /\ AnyAt(ParamTypes(g), ParamsBefore(g, k) + 1, ParamsBefore(g, k) + NameCount(params[g][k]))
          /\ AnyAt(ParamTypes(g), index, index)
      BY <2>1, <2>2, <2>4, FieldIsAny
    <3>2. \A m \in Func : ParamTypes(m) = ParamTypes(g) => m \in one /\ m \in two
      BY <3>1
    <3> HIDE DEF one, two
    <3> QED
      BY <2>1, <2>2, <3>2, SameExemption
  <2>6. Report("noadhoctypeswitch", f, {s}) \in reports <=> ~Admitted(x)
    <3>1. Report("noadhoctypeswitch", f, {s}) \in reports <=>
           /\ ~pkg.boundary /\ IsEmptyInterface(OperandType(x))
           /\ x.kind # "typeparam"
           /\ ~(x.kind = "param" /\ Admitted(x))
      BY <2>1, <2>2, InSwitches DEF x
    <3>2. OperandType(x) = AnyType /\ x.kind = "param"
      BY DEF x
    <3> QED
      BY <3>1, <3>2 DEF IsEmptyInterface
  <2>7. Report("noanyparam", g, {k}) \in reports <=>
          /\ ~WrapsCause(params[g][k]) /\ ~Justified(g) /\ ~Implements(g, FALSE, one)
    <3>1. Report("noanyparam", g, {k}) \in reports <=>
           /\ IsEmptyInterface(params[g][k].type)
           /\ ~WrapsCause(params[g][k]) /\ ~FormatStyle(g, k)
           /\ ~Justified(g)
           /\ ~Implements(g, FALSE, one)
      BY <2>1, <2>2, InParams
    <3>2. IsEmptyInterface(params[g][k].type) /\ ~FormatStyle(g, k)
      BY <2>4 DEF IsEmptyInterface, FormatStyle
    <3> HIDE DEF one
    <3> QED
      BY <3>1, <3>2
  <2> HIDE DEF one, two
  <2>8. Report("noadhoctypeswitch", f, {s}) \in reports <=>
          \/ Report("noanyparam", g, {k}) \in reports
          \/ WrapsCause(params[g][k]) /\ ~Admitted(x)
    BY <2>3, <2>5, <2>6, <2>7
  <2> QED
    BY <2>8 DEF x, g, k
<1> QED
  BY <1>1, Invariant, PTL
================================================================================
