---------------------------- MODULE MultilineProofs ----------------------------
(***************************************************************************)
(* Proofs about Multiline: for every package, every number of files,       *)
(* tables and cases, and every sequence of runs, fixes and edits.          *)
(***************************************************************************)
EXTENDS Multiline, PathMatchProofs, FiniteSetTheorems
--------------------------------------------------------------------------------
(* Sequences put one behind the other.                                     *)

LEMMA ConcatRange ==
  ASSUME NEW T, NEW s \in Seq(T), NEW t \in Seq(T)
  PROVE  \A x : x \in Range(s \o t) <=> x \in Range(s) \/ x \in Range(t)
<1>1. /\ s \o t \in Seq(T) /\ Len(s \o t) = Len(s) + Len(t)
      /\ \A i \in 1..(Len(s) + Len(t)) : (s \o t)[i] = IF i <= Len(s) THEN s[i] ELSE t[i - Len(s)]
  BY ConcatProperties
<1>2. /\ Len(s) \in Nat /\ DOMAIN s = 1..Len(s) /\ Len(t) \in Nat /\ DOMAIN t = 1..Len(t)
      /\ DOMAIN (s \o t) = 1..(Len(s) + Len(t))
  BY <1>1, LenProperties
<1>3. ASSUME NEW i \in DOMAIN s PROVE i \in DOMAIN (s \o t) /\ (s \o t)[i] = s[i]
  BY <1>1, <1>2
<1>4. ASSUME NEW i \in DOMAIN t PROVE Len(s) + i \in DOMAIN (s \o t) /\ (s \o t)[Len(s) + i] = t[i]
  <2>1. /\ i \in 1..Len(t) /\ Len(s) + i \in 1..(Len(s) + Len(t)) /\ ~(Len(s) + i <= Len(s))
        /\ (Len(s) + i) - Len(s) = i
    BY <1>2
  <2> QED
    BY <1>1, <1>2, <2>1
<1>5. ASSUME NEW k \in DOMAIN (s \o t) PROVE (s \o t)[k] \in Range(s) \/ (s \o t)[k] \in Range(t)
  <2>1. CASE k <= Len(s)
    BY <1>1, <1>2, <2>1 DEF Range
  <2>2. CASE ~(k <= Len(s))
    <3>1. k - Len(s) \in DOMAIN t /\ (s \o t)[k] = t[k - Len(s)]
      BY <1>1, <1>2, <2>2
    <3> QED
      BY <3>1 DEF Range
  <2> QED
    BY <2>1, <2>2
<1> QED
  BY <1>3, <1>4, <1>5 DEF Range

LEMMA ConcatInjective ==
  ASSUME NEW T, NEW s \in Seq(T), NEW t \in Seq(T), IsInjective(s), IsInjective(t),
         Range(s) \cap Range(t) = {}
  PROVE  IsInjective(s \o t)
<1>1. /\ s \o t \in Seq(T) /\ Len(s \o t) = Len(s) + Len(t)
      /\ \A i \in 1..(Len(s) + Len(t)) : (s \o t)[i] = IF i <= Len(s) THEN s[i] ELSE t[i - Len(s)]
  BY ConcatProperties
<1>2. /\ Len(s) \in Nat /\ DOMAIN s = 1..Len(s) /\ Len(t) \in Nat /\ DOMAIN t = 1..Len(t)
      /\ DOMAIN (s \o t) = 1..(Len(s) + Len(t))
  BY <1>1, LenProperties
<1> SUFFICES ASSUME NEW a \in DOMAIN (s \o t), NEW b \in DOMAIN (s \o t), (s \o t)[a] = (s \o t)[b]
             PROVE  a = b
  BY DEF IsInjective
<1>3. ASSUME NEW k \in DOMAIN (s \o t)
      PROVE  \/ k \in DOMAIN s /\ (s \o t)[k] = s[k] /\ (s \o t)[k] \in Range(s)
             \/ k - Len(s) \in DOMAIN t /\ (s \o t)[k] = t[k - Len(s)] /\ (s \o t)[k] \in Range(t)
  <2>1. CASE k <= Len(s)
    BY <1>1, <1>2, <2>1 DEF Range
  <2>2. CASE ~(k <= Len(s))
    <3>1. k - Len(s) \in DOMAIN t /\ (s \o t)[k] = t[k - Len(s)]
      BY <1>1, <1>2, <2>2
    <3> QED
      BY <3>1 DEF Range
  <2> QED
    BY <2>1, <2>2
<1>4. CASE a \in DOMAIN s /\ (s \o t)[a] = s[a] /\ (s \o t)[a] \in Range(s)
  <2>1. b \in DOMAIN s /\ (s \o t)[b] = s[b]
    BY <1>3, <1>4
  <2> QED
    BY <1>4, <2>1 DEF IsInjective
<1>5. CASE a - Len(s) \in DOMAIN t /\ (s \o t)[a] = t[a - Len(s)] /\ (s \o t)[a] \in Range(t)
  <2>1. b - Len(s) \in DOMAIN t /\ (s \o t)[b] = t[b - Len(s)]
    BY <1>3, <1>5
  <2>2. a - Len(s) = b - Len(s)
    BY <1>5, <2>1 DEF IsInjective
  <2> QED
    BY <1>2, <2>2
<1> QED
  BY <1>3, <1>4, <1>5

(* The pairs of R order s: what stands before stands before it in R.       *)
Ordered(s, R) == \A i, j \in DOMAIN s : i < j => <<s[i], s[j]>> \in R

LEMMA ConcatOrdered ==
  ASSUME NEW T, NEW s \in Seq(T), NEW t \in Seq(T), NEW R, Ordered(s, R), Ordered(t, R),
         \A x \in Range(s), y \in Range(t) : <<x, y>> \in R
  PROVE  Ordered(s \o t, R)
<1>1. /\ s \o t \in Seq(T) /\ Len(s \o t) = Len(s) + Len(t)
      /\ \A i \in 1..(Len(s) + Len(t)) : (s \o t)[i] = IF i <= Len(s) THEN s[i] ELSE t[i - Len(s)]
  BY ConcatProperties
<1>2. /\ Len(s) \in Nat /\ DOMAIN s = 1..Len(s) /\ Len(t) \in Nat /\ DOMAIN t = 1..Len(t)
      /\ DOMAIN (s \o t) = 1..(Len(s) + Len(t))
  BY <1>1, LenProperties
<1> SUFFICES ASSUME NEW a \in DOMAIN (s \o t), NEW b \in DOMAIN (s \o t), a < b
             PROVE  <<(s \o t)[a], (s \o t)[b]>> \in R
  BY DEF Ordered
<1>3. CASE b <= Len(s)
  <2>1. a \in DOMAIN s /\ b \in DOMAIN s /\ (s \o t)[a] = s[a] /\ (s \o t)[b] = s[b]
    BY <1>1, <1>2, <1>3
  <2> QED
    BY <2>1 DEF Ordered
<1>4. CASE a <= Len(s) /\ ~(b <= Len(s))
  <2>1. /\ a \in DOMAIN s /\ b - Len(s) \in DOMAIN t
        /\ (s \o t)[a] = s[a] /\ (s \o t)[b] = t[b - Len(s)]
    BY <1>1, <1>2, <1>4
  <2>2. (s \o t)[a] \in Range(s) /\ (s \o t)[b] \in Range(t)
    BY <2>1 DEF Range
  <2> QED
    BY <2>2
<1>5. CASE ~(a <= Len(s))
  <2>1. /\ a - Len(s) \in DOMAIN t /\ b - Len(s) \in DOMAIN t /\ a - Len(s) < b - Len(s)
        /\ (s \o t)[a] = t[a - Len(s)] /\ (s \o t)[b] = t[b - Len(s)]
    BY <1>1, <1>2, <1>5
  <2> QED
    BY <2>1 DEF Ordered
<1> QED
  BY <1>2, <1>3, <1>4, <1>5

(* What FlattenSeq computes, for the first n sequences.                    *)
IsFlat(g, seqs, n) ==
  g = [i \in 1..n |-> IF i = 1 THEN seqs[i] ELSE g[i - 1] \o seqs[i]]

LEMMA FlatExists ==
  ASSUME NEW seqs, NEW n \in Nat
  PROVE  \E g : IsFlat(g, seqs, n)
<1> DEFINE S == {m \in Nat : \E g : IsFlat(g, seqs, m)}
<1>1. 0 \in S
  <2>1. IsFlat([i \in 1..0 |-> seqs[i]], seqs, 0)
    BY DEF IsFlat
  <2> QED
    BY <2>1
<1>2. ASSUME NEW m \in S PROVE m + 1 \in S
  <2>1. PICK g : IsFlat(g, seqs, m)
    BY <1>2
  <2> DEFINE h == [i \in 1..(m + 1) |-> IF i = 1 THEN seqs[i] ELSE g[i - 1] \o seqs[i]]
  <2>0. m \in Nat
    BY <1>2
  <2> HIDE DEF S
  <2>2. ASSUME NEW i \in 1..m PROVE h[i] = g[i]
    <3>1. g[i] = IF i = 1 THEN seqs[i] ELSE g[i - 1] \o seqs[i]
      BY <2>1 DEF IsFlat
    <3>2. i \in 1..(m + 1)
      BY <2>0
    <3> QED
      BY <3>1, <3>2
  <2>3. ASSUME NEW i \in 1..(m + 1), i # 1 PROVE h[i - 1] = g[i - 1]
    <3>1. i - 1 \in 1..m
      BY <2>0, <2>3
    <3> HIDE DEF h
    <3> QED
      BY <2>2, <3>1
  <2>4. IsFlat(h, seqs, m + 1)
    BY <2>3 DEF IsFlat
  <2> HIDE DEF h
  <2> QED
    BY <2>0, <2>4 DEF S
<1> HIDE DEF S
<1>3. n \in S
  <2>1. S \subseteq Nat
    BY DEF S
  <2> QED
    BY <1>1, <1>2, <2>1, SetInduction
<1> QED
  BY <1>3 DEF S

Apart(seqs) ==
  /\ \A i \in DOMAIN seqs : IsInjective(seqs[i])
  /\ \A i, j \in DOMAIN seqs : i # j => Range(seqs[i]) \cap Range(seqs[j]) = {}

LEMMA FlattenParts ==
  ASSUME NEW T, NEW seqs \in Seq(Seq(T))
  PROVE  /\ FlattenSeq(seqs) \in Seq(T)
         /\ \A x : x \in Range(FlattenSeq(seqs)) <=> \E i \in DOMAIN seqs : x \in Range(seqs[i])
         /\ Apart(seqs) => IsInjective(FlattenSeq(seqs))
<1>0. /\ Len(seqs) \in Nat /\ DOMAIN seqs = 1..Len(seqs)
      /\ \A i \in 1..Len(seqs) : seqs[i] \in Seq(T)
  BY LenProperties, ElementOfSeq
<1>1. CASE Len(seqs) = 0
  <2>1. FlattenSeq(seqs) = seqs /\ DOMAIN seqs = {}
    BY <1>0, <1>1 DEF FlattenSeq
  <2>2. seqs = <<>>
    BY <1>1, EmptySeq
  <2>3. <<>> \in Seq(T)
    BY EmptySeq
  <2> QED
    BY <2>1, <2>2, <2>3 DEF Range, IsInjective
<1>2. CASE Len(seqs) # 0
  <2> DEFINE G == CHOOSE g : IsFlat(g, seqs, Len(seqs))
  <2>1. IsFlat(G, seqs, Len(seqs))
    BY <1>0, FlatExists
  <2>2. FlattenSeq(seqs) = G[Len(seqs)]
    BY <1>2 DEF FlattenSeq, IsFlat
  <2> HIDE DEF G
  <2> DEFINE Laid(n) ==
               /\ G[n] \in Seq(T)
               /\ \A x : x \in Range(G[n]) <=> \E i \in 1..n : x \in Range(seqs[i])
               /\ Apart(seqs) => IsInjective(G[n])
             S == {n \in Nat : n + 1 <= Len(seqs) => Laid(n + 1)}
  <2>3. 0 \in S
    <3>1. G[1] = seqs[1] /\ 1 \in 1..Len(seqs)
      BY <1>0, <1>2, <2>1 DEF IsFlat
    <3>2. Laid(1)
      BY <1>0, <3>1 DEF Apart
    <3> QED
      BY <3>2
  <2>4. ASSUME NEW m \in S PROVE m + 1 \in S
    <3> SUFFICES ASSUME m + 2 <= Len(seqs) PROVE Laid(m + 2)
      OBVIOUS
    <3>1. m \in Nat /\ Laid(m + 1) /\ m + 2 \in 1..Len(seqs) /\ m + 1 \in 1..Len(seqs)
      <4> HIDE DEF Laid
      <4>1. m \in Nat /\ (m + 1 <= Len(seqs) => Laid(m + 1))
        BY <2>4
      <4> QED
        BY <1>0, <4>1
    <3>2. G[m + 2] = G[m + 1] \o seqs[m + 2]
      <4>1. (m + 2) - 1 = m + 1 /\ m + 2 # 1
        BY <3>1
      <4> QED
        BY <2>1, <3>1, <4>1 DEF IsFlat
    <3>3. seqs[m + 2] \in Seq(T)
      BY <1>0, <3>1
    <3>4. G[m + 2] \in Seq(T)
      BY <3>1, <3>2, <3>3, ConcatProperties
    <3>5. \A x : x \in Range(G[m + 2]) <=> x \in Range(G[m + 1]) \/ x \in Range(seqs[m + 2])
      BY <3>1, <3>2, <3>3, ConcatRange
    <3>6. 1..(m + 2) = 1..(m + 1) \cup {m + 2}
      BY <3>1
    <3>7. \A x : x \in Range(G[m + 2]) <=> \E i \in 1..(m + 2) : x \in Range(seqs[i])
      BY <3>1, <3>5, <3>6
    <3>8. ASSUME Apart(seqs) PROVE IsInjective(G[m + 2])
      <4>1. IsInjective(G[m + 1]) /\ IsInjective(seqs[m + 2])
        BY <1>0, <3>1, <3>8 DEF Apart
      <4>2. Range(G[m + 1]) \cap Range(seqs[m + 2]) = {}
        <5>1. ASSUME NEW i \in 1..(m + 1) PROVE Range(seqs[i]) \cap Range(seqs[m + 2]) = {}
          <6>1. i \in DOMAIN seqs /\ m + 2 \in DOMAIN seqs /\ i # m + 2
            BY <1>0, <3>1
          <6> QED
            BY <3>8, <6>1 DEF Apart
        <5> QED
          BY <3>1, <5>1
      <4> QED
        BY <3>1, <3>2, <3>3, <4>1, <4>2, ConcatInjective
    <3> QED
      BY <3>4, <3>7, <3>8
  <2>5. Len(seqs) - 1 \in S
    <3> HIDE DEF Laid
    <3>1. S \subseteq Nat
      OBVIOUS
    <3> HIDE DEF S
    <3>2. \A n \in Nat : n \in S
      BY <2>3, <2>4, <3>1, SetInduction
    <3> QED
      BY <1>0, <1>2, <3>2
  <2>6. Laid(Len(seqs))
    <3> HIDE DEF Laid
    <3>1. (Len(seqs) - 1) + 1 = Len(seqs)
      BY <1>0
    <3> QED
      BY <1>0, <2>5, <3>1
  <2> QED
    BY <1>0, <2>2, <2>6
<1> QED
  BY <1>1, <1>2

LEMMA FlattenOrdered ==
  ASSUME NEW T, NEW seqs \in Seq(Seq(T)), NEW R,
         \A i \in DOMAIN seqs : Ordered(seqs[i], R),
         \A i, j \in DOMAIN seqs : i < j => \A x \in Range(seqs[i]), y \in Range(seqs[j]) : <<x, y>> \in R
  PROVE  Ordered(FlattenSeq(seqs), R)
<1>0. /\ Len(seqs) \in Nat /\ DOMAIN seqs = 1..Len(seqs)
      /\ \A i \in 1..Len(seqs) : seqs[i] \in Seq(T)
  BY LenProperties, ElementOfSeq
<1>1. CASE Len(seqs) = 0
  <2>1. FlattenSeq(seqs) = seqs /\ DOMAIN seqs = {}
    BY <1>0, <1>1 DEF FlattenSeq
  <2> QED
    BY <2>1 DEF Ordered
<1>2. CASE Len(seqs) # 0
  <2> DEFINE G == CHOOSE g : IsFlat(g, seqs, Len(seqs))
  <2>1. IsFlat(G, seqs, Len(seqs))
    BY <1>0, FlatExists
  <2>2. FlattenSeq(seqs) = G[Len(seqs)]
    BY <1>2 DEF FlattenSeq, IsFlat
  <2> HIDE DEF G
  <2> DEFINE Laid(n) ==
               /\ G[n] \in Seq(T)
               /\ \A x \in Range(G[n]) : \E i \in 1..n : x \in Range(seqs[i])
               /\ Ordered(G[n], R)
             S == {n \in Nat : n + 1 <= Len(seqs) => Laid(n + 1)}
  <2>3. 0 \in S
    <3>1. G[1] = seqs[1] /\ 1 \in 1..Len(seqs)
      BY <1>0, <1>2, <2>1 DEF IsFlat
    <3>2. Laid(1)
      BY <1>0, <3>1
    <3> QED
      BY <3>2
  <2>4. ASSUME NEW m \in S PROVE m + 1 \in S
    <3> SUFFICES ASSUME m + 2 <= Len(seqs) PROVE Laid(m + 2)
      OBVIOUS
    <3>1. m \in Nat /\ Laid(m + 1) /\ m + 2 \in 1..Len(seqs) /\ m + 1 \in 1..Len(seqs)
      <4> HIDE DEF Laid
      <4>1. m \in Nat /\ (m + 1 <= Len(seqs) => Laid(m + 1))
        BY <2>4
      <4> QED
        BY <1>0, <4>1
    <3>2. G[m + 2] = G[m + 1] \o seqs[m + 2]
      <4>1. (m + 2) - 1 = m + 1 /\ m + 2 # 1
        BY <3>1
      <4> QED
        BY <2>1, <3>1, <4>1 DEF IsFlat
    <3>3. seqs[m + 2] \in Seq(T)
      BY <1>0, <3>1
    <3>4. G[m + 2] \in Seq(T)
      BY <3>1, <3>2, <3>3, ConcatProperties
    <3>5. \A x : x \in Range(G[m + 2]) <=> x \in Range(G[m + 1]) \/ x \in Range(seqs[m + 2])
      BY <3>1, <3>2, <3>3, ConcatRange
    <3>6. 1..(m + 2) = 1..(m + 1) \cup {m + 2}
      BY <3>1
    <3>7. \A x \in Range(G[m + 2]) : \E i \in 1..(m + 2) : x \in Range(seqs[i])
      BY <3>1, <3>5, <3>6
    <3>8. \A x \in Range(G[m + 1]), y \in Range(seqs[m + 2]) : <<x, y>> \in R
      <4>1. \A i \in 1..(m + 1) : i \in DOMAIN seqs /\ m + 2 \in DOMAIN seqs /\ i < m + 2
        BY <1>0, <3>1
      <4> QED
        BY <3>1, <4>1
    <3>9. Ordered(G[m + 2], R)
      <4>1. Ordered(seqs[m + 2], R)
        BY <1>0, <3>1
      <4> QED
        BY <3>1, <3>2, <3>3, <3>8, <4>1, ConcatOrdered
    <3> QED
      BY <3>4, <3>7, <3>9
  <2>5. Len(seqs) - 1 \in S
    <3> HIDE DEF Laid
    <3>1. S \subseteq Nat
      OBVIOUS
    <3> HIDE DEF S
    <3>2. \A n \in Nat : n \in S
      BY <2>3, <2>4, <3>1, SetInduction
    <3> QED
      BY <1>0, <1>2, <3>2
  <2>6. Laid(Len(seqs))
    <3> HIDE DEF Laid
    <3>1. (Len(seqs) - 1) + 1 = Len(seqs)
      BY <1>0
    <3> QED
      BY <1>0, <2>5, <3>1
  <2> QED
    BY <1>0, <2>2, <2>6
<1> QED
  BY <1>1, <1>2

(* What Kept keeps: the elements that S holds, each as often as it stands. *)
LEMMA KeptElements ==
  ASSUME NEW T, NEW s \in Seq(T), NEW S
  PROVE  /\ Kept(s, S) \in Seq(T \cap S)
         /\ \A x : x \in Range(Kept(s, S)) <=> x \in Range(s) /\ x \in S
         /\ (\A i, j \in DOMAIN s : s[i] = s[j] /\ s[i] \in S => i = j) => IsInjective(Kept(s, S))
<1> DEFINE parts == [i \in DOMAIN s |-> IF s[i] \in S THEN <<s[i]>> ELSE <<>>]
<1>0. Len(s) \in Nat /\ DOMAIN s = 1..Len(s) /\ \A i \in 1..Len(s) : s[i] \in T
  BY LenProperties, ElementOfSeq
<1>1. parts \in Seq(Seq(T \cap S)) /\ DOMAIN parts = DOMAIN s
  <2>1. ASSUME NEW i \in DOMAIN s PROVE (IF s[i] \in S THEN <<s[i]>> ELSE <<>>) \in Seq(T \cap S)
    <3>1. CASE s[i] \in S
      BY <1>0, <3>1
    <3>2. CASE s[i] \notin S
      BY <3>2, EmptySeq
    <3> QED
      BY <3>1, <3>2
  <2> QED
    BY <1>0, <2>1
<1>2. ASSUME NEW i \in DOMAIN s
      PROVE  /\ \A x : x \in Range(parts[i]) <=> x = s[i] /\ s[i] \in S
             /\ IsInjective(parts[i])
  <2>1. CASE s[i] \in S
    <3>1. parts[i] = <<s[i]>>
      BY <1>1, <2>1
    <3>2. DOMAIN <<s[i]>> = {1} /\ <<s[i]>>[1] = s[i]
      OBVIOUS
    <3> QED
      BY <2>1, <3>1, <3>2 DEF Range, IsInjective
  <2>2. CASE s[i] \notin S
    <3>1. parts[i] = <<>>
      BY <1>1, <2>2
    <3>2. DOMAIN <<>> = {}
      OBVIOUS
    <3> QED
      BY <2>2, <3>1, <3>2 DEF Range, IsInjective
  <2> QED
    BY <2>1, <2>2
<1>3. Kept(s, S) = FlattenSeq(parts)
  BY DEF Kept
<1> HIDE DEF parts
<1>4. /\ FlattenSeq(parts) \in Seq(T \cap S)
      /\ \A x : x \in Range(FlattenSeq(parts)) <=> \E i \in DOMAIN parts : x \in Range(parts[i])
      /\ Apart(parts) => IsInjective(FlattenSeq(parts))
  BY <1>1, FlattenParts
<1>5. \A x : x \in Range(Kept(s, S)) <=> x \in Range(s) /\ x \in S
  <2>1. \A x : x \in Range(Kept(s, S)) <=> \E i \in DOMAIN s : x = s[i] /\ s[i] \in S
    BY <1>1, <1>2, <1>3, <1>4
  <2>2. \A x : x \in Range(s) <=> \E i \in DOMAIN s : x = s[i]
    BY DEF Range
  <2> QED
    BY <2>1, <2>2
<1>6. ASSUME \A i, j \in DOMAIN s : s[i] = s[j] /\ s[i] \in S => i = j
      PROVE  Apart(parts)
  BY <1>1, <1>2, <1>6 DEF Apart
<1> QED
  BY <1>3, <1>4, <1>5, <1>6
(* The pairs of elements of s that stand in this order.                    *)
Before(s) ==
  {p \in Range(s) \X Range(s) : \E i, j \in DOMAIN s : i < j /\ p[1] = s[i] /\ p[2] = s[j]}

LEMMA KeptOrdered ==
  ASSUME NEW T, NEW s \in Seq(T), NEW S
  PROVE  Ordered(Kept(s, S), Before(s))
<1> DEFINE parts == [i \in DOMAIN s |-> IF s[i] \in S THEN <<s[i]>> ELSE <<>>]
<1>0. Len(s) \in Nat /\ DOMAIN s = 1..Len(s) /\ \A i \in 1..Len(s) : s[i] \in T
  BY LenProperties, ElementOfSeq
<1>1. parts \in Seq(Seq(T)) /\ DOMAIN parts = DOMAIN s
  <2>1. ASSUME NEW i \in DOMAIN s PROVE (IF s[i] \in S THEN <<s[i]>> ELSE <<>>) \in Seq(T)
    <3>1. CASE s[i] \in S
      BY <1>0, <3>1
    <3>2. CASE s[i] \notin S
      BY <3>2, EmptySeq
    <3> QED
      BY <3>1, <3>2
  <2> QED
    BY <1>0, <2>1
<1>2. ASSUME NEW i \in DOMAIN s
      PROVE  /\ \A x \in Range(parts[i]) : x = s[i]
             /\ \A R : Ordered(parts[i], R)
  <2>1. CASE s[i] \in S
    <3>1. parts[i] = <<s[i]>>
      BY <1>1, <2>1
    <3>2. DOMAIN <<s[i]>> = {1} /\ <<s[i]>>[1] = s[i]
      OBVIOUS
    <3> QED
      BY <3>1, <3>2 DEF Range, Ordered
  <2>2. CASE s[i] \notin S
    <3>1. parts[i] = <<>>
      BY <1>1, <2>2
    <3>2. DOMAIN <<>> = {}
      OBVIOUS
    <3> QED
      BY <3>1, <3>2 DEF Range, Ordered
  <2> QED
    BY <2>1, <2>2
<1>3. \A i, j \in DOMAIN s : i < j => <<s[i], s[j]>> \in Before(s)
  BY DEF Before, Range
<1>4. Kept(s, S) = FlattenSeq(parts)
  BY DEF Kept
<1> HIDE DEF parts
<1>5. \A i, j \in DOMAIN parts : i < j => \A x \in Range(parts[i]), y \in Range(parts[j]) : <<x, y>> \in Before(s)
  BY <1>1, <1>2, <1>3
<1> QED
  BY <1>1, <1>2, <1>4, <1>5, FlattenOrdered
--------------------------------------------------------------------------------
(* The files that the rule reads, and the tables that it finds in them.    *)

LEMMA PackageTyped ==
  ASSUME pkg \in Packages
  PROVE  /\ pkg.path \in Seq(Char) /\ pkg.patterns \in Seq(Pattern)
         /\ \A f \in File : /\ pkg.header[f] \in Seq([above : BOOLEAN, marker : BOOLEAN])
                            /\ pkg.ranges[f] \in Seq(Expr)
                            /\ \A j \in DOMAIN pkg.header[f] : \A i \in 1..j :
                                 pkg.header[f][j].above => pkg.header[f][i].above
         /\ \A v \in Var : pkg.init[v].file \in File /\ pkg.init[v].value \in Expr
         /\ pkg.min \in Int
  BY PackageAssumption DEF Pattern

LEMMA SettingNames ==
  ASSUME pkg \in Packages
  PROVE  IsTestPackage(pkg.patterns, pkg.path) <=> ServesTests(pkg.patterns, pkg.path)
  BY PackageTyped, TestPackages

(* A comment above the package clause has only comments above it as well,  *)
(* so the early return of the header's walk hides no marker.               *)
LEMMA GeneratedHeader ==
  ASSUME pkg \in Packages, NEW f \in File
  PROVE  IsGenerated(f) <=> \E i \in DOMAIN pkg.header[f] : pkg.header[f][i].above /\ pkg.header[f][i].marker
<1>1. /\ DOMAIN pkg.header[f] = 1..Len(pkg.header[f]) /\ Len(pkg.header[f]) \in Nat
      /\ \A j \in DOMAIN pkg.header[f] : \A i \in 1..j :
           pkg.header[f][j].above => pkg.header[f][i].above
  BY PackageTyped, LenProperties
<1>2. \A i \in DOMAIN pkg.header[f] : i \in 1..i
  BY <1>1
<1> QED
  BY <1>1, <1>2 DEF IsGenerated

LEMMA FilesRead ==
  ASSUME pkg \in Packages
  PROVE  ReadFiles \in Seq(File) /\ Range(ReadFiles) = Read
<1> DEFINE S == {f \in File : IsTestFile(f) /\ ~IsGenerated(f)}
<1>1. Order \in Seq(File) /\ Range(Order) = File
  BY PackageAssumption DEF File
<1>2. \A f \in File : f \in S <=> f \in Read
  BY SettingNames, GeneratedHeader DEF IsTestFile, Read
<1>3. S \subseteq File /\ Read \subseteq File
  BY DEF Read
<1> HIDE DEF S
<1>4. /\ Kept(Order, S) \in Seq(File \cap S)
      /\ \A x : x \in Range(Kept(Order, S)) <=> x \in Range(Order) /\ x \in S
  BY <1>1, KeptElements
<1>5. Kept(Order, S) \in Seq(File)
  BY <1>4, SeqMonotonic
<1>6. ReadFiles = Kept(Order, S)
  BY DEF ReadFiles, S
<1>7. \A x : x \in Range(ReadFiles) <=> x \in Read
  BY <1>1, <1>2, <1>3, <1>4, <1>6
<1> QED
  BY <1>5, <1>6, <1>7

Visit == [file : File, expr : Expr]

LEMMA VisitsOf ==
  ASSUME pkg \in Packages, files \in Seq(File)
  PROVE  /\ Visits \in Seq(Visit)
         /\ \A f, e : [file |-> f, expr |-> e] \in Range(Visits)
                        <=> f \in Range(files) /\ e \in Range(pkg.ranges[f])
<1> DEFINE Of(f) == [k \in DOMAIN pkg.ranges[f] |-> [file |-> f, expr |-> pkg.ranges[f][k]]]
           parts == [i \in DOMAIN files |-> Of(files[i])]
<1>0. Len(files) \in Nat /\ DOMAIN files = 1..Len(files) /\ \A i \in DOMAIN files : files[i] \in File
  BY LenProperties, ElementOfSeq
<1>1. ASSUME NEW f \in File
      PROVE  /\ Of(f) \in Seq(Visit)
             /\ \A v : v \in Range(Of(f)) <=> \E e \in Range(pkg.ranges[f]) : v = [file |-> f, expr |-> e]
  <2>1. /\ pkg.ranges[f] \in Seq(Expr) /\ Len(pkg.ranges[f]) \in Nat
        /\ DOMAIN pkg.ranges[f] = 1..Len(pkg.ranges[f])
        /\ \A k \in DOMAIN pkg.ranges[f] : pkg.ranges[f][k] \in Expr
    BY PackageTyped, LenProperties, ElementOfSeq
  <2>2. \A k \in 1..Len(pkg.ranges[f]) : [file |-> f, expr |-> pkg.ranges[f][k]] \in Visit
    BY <2>1 DEF Visit
  <2>3. Of(f) \in Seq(Visit)
    BY <2>1, <2>2
  <2>4. DOMAIN Of(f) = DOMAIN pkg.ranges[f]
    OBVIOUS
  <2> QED
    BY <2>3, <2>4 DEF Range
<1>2. parts \in Seq(Seq(Visit)) /\ DOMAIN parts = DOMAIN files
  <2> HIDE DEF Of
  <2> QED
    BY <1>0, <1>1
<1>3. \A i \in DOMAIN files : parts[i] = Of(files[i])
  OBVIOUS
<1>4. Visits = FlattenSeq(parts)
  BY DEF Visits
<1> HIDE DEF parts
<1>5. /\ FlattenSeq(parts) \in Seq(Visit)
      /\ \A v : v \in Range(FlattenSeq(parts)) <=> \E i \in DOMAIN parts : v \in Range(parts[i])
  BY <1>2, FlattenParts
<1> HIDE DEF Of
<1>6. \A v : v \in Range(Visits) <=> \E i \in DOMAIN files : v \in Range(Of(files[i]))
  BY <1>2, <1>3, <1>4, <1>5
<1>7. ASSUME NEW f, NEW e
      PROVE  [file |-> f, expr |-> e] \in Range(Visits)
               <=> f \in Range(files) /\ e \in Range(pkg.ranges[f])
  <2>1. ASSUME [file |-> f, expr |-> e] \in Range(Visits)
        PROVE  f \in Range(files) /\ e \in Range(pkg.ranges[f])
    <3>1. PICK i \in DOMAIN files : [file |-> f, expr |-> e] \in Range(Of(files[i]))
      BY <1>6, <2>1
    <3>2. PICK d \in Range(pkg.ranges[files[i]]) : [file |-> f, expr |-> e] = [file |-> files[i], expr |-> d]
      BY <1>0, <1>1, <3>1
    <3>3. f = files[i] /\ e = d
      BY <3>2
    <3> QED
      BY <3>3, <3>2 DEF Range
  <2>2. ASSUME f \in Range(files), e \in Range(pkg.ranges[f])
        PROVE  [file |-> f, expr |-> e] \in Range(Visits)
    <3>1. PICK i \in DOMAIN files : f = files[i]
      BY <2>2 DEF Range
    <3>2. [file |-> f, expr |-> e] \in Range(Of(files[i]))
      BY <1>0, <1>1, <2>2, <3>1
    <3> QED
      BY <1>6, <3>2
  <2> QED
    BY <2>1, <2>2
<1> QED
  BY <1>4, <1>5, <1>7

(* The run visits the loops of the files in the order of the package.      *)
LEMMA VisitsOrdered ==
  ASSUME pkg \in Packages, files = ReadFiles,
         NEW k \in DOMAIN Visits, NEW m \in DOMAIN Visits, k < m
  PROVE  Visits[k].file = Visits[m].file \/ <<Visits[k].file, Visits[m].file>> \in Before(Order)
<1> DEFINE Of(f) == [n \in DOMAIN pkg.ranges[f] |-> [file |-> f, expr |-> pkg.ranges[f][n]]]
           parts == [i \in DOMAIN files |-> Of(files[i])]
           Later(v, w) == v.file = w.file \/ <<v.file, w.file>> \in Before(Order)
           R == {p \in Visit \X Visit : Later(p[1], p[2])}
<1>0. /\ files \in Seq(File) /\ Len(files) \in Nat /\ DOMAIN files = 1..Len(files)
      /\ \A i \in DOMAIN files : files[i] \in File
  BY FilesRead, LenProperties, ElementOfSeq
<1>1. Ordered(files, Before(Order))
  BY PackageAssumption, KeptOrdered DEF ReadFiles
<1>2. ASSUME NEW f \in File
      PROVE  Of(f) \in Seq(Visit) /\ DOMAIN Of(f) = 1..Len(Of(f)) /\ \A n \in DOMAIN Of(f) : Of(f)[n] \in Visit /\ Of(f)[n].file = f
  <2>1. /\ pkg.ranges[f] \in Seq(Expr) /\ Len(pkg.ranges[f]) \in Nat
        /\ DOMAIN pkg.ranges[f] = 1..Len(pkg.ranges[f])
        /\ \A n \in DOMAIN pkg.ranges[f] : pkg.ranges[f][n] \in Expr
    BY PackageTyped, LenProperties, ElementOfSeq
  <2>2. \A n \in 1..Len(pkg.ranges[f]) : [file |-> f, expr |-> pkg.ranges[f][n]] \in Visit
    BY <2>1 DEF Visit
  <2>3. Of(f) \in Seq(Visit)
    BY <2>1, <2>2
  <2>4. \A n \in DOMAIN Of(f) : Of(f)[n] \in Visit /\ Of(f)[n].file = f
    BY <2>1, <2>2
  <2> QED
    BY <2>3, <2>4, LenProperties
<1>3. parts \in Seq(Seq(Visit)) /\ DOMAIN parts = DOMAIN files
  <2> HIDE DEF Of
  <2> QED
    BY <1>0, <1>2
<1>4. \A i \in DOMAIN files : parts[i] = Of(files[i])
  OBVIOUS
<1>5. Visits = FlattenSeq(parts)
  BY DEF Visits
<1> HIDE DEF parts, Of
<1>6. \A v, w \in Visit : Later(v, w) => <<v, w>> \in R
  OBVIOUS
<1>7. \A v, w : <<v, w>> \in R => Later(v, w)
  OBVIOUS
<1> HIDE DEF R
<1>8. ASSUME NEW i \in DOMAIN parts PROVE Ordered(parts[i], R)
  <2>1. parts[i] = Of(files[i]) /\ files[i] \in File
    BY <1>0, <1>3, <1>4, <1>8
  <2>2. ASSUME NEW a \in DOMAIN parts[i], NEW b \in DOMAIN parts[i]
        PROVE  <<parts[i][a], parts[i][b]>> \in R
    <3>1. /\ parts[i][a] \in Visit /\ parts[i][a].file = files[i]
          /\ parts[i][b] \in Visit /\ parts[i][b].file = files[i]
      BY <1>2, <2>1
    <3>2. Later(parts[i][a], parts[i][b])
      BY <3>1
    <3> QED
      BY <1>6, <3>1, <3>2
  <2> QED
    BY <2>2 DEF Ordered
<1>9. ASSUME NEW i \in DOMAIN parts, NEW j \in DOMAIN parts, i < j,
             NEW x \in Range(parts[i]), NEW y \in Range(parts[j])
      PROVE  <<x, y>> \in R
  <2>1. /\ parts[i] = Of(files[i]) /\ files[i] \in File
        /\ parts[j] = Of(files[j]) /\ files[j] \in File
    BY <1>0, <1>3, <1>4, <1>9
  <2>2. x \in Visit /\ x.file = files[i] /\ y \in Visit /\ y.file = files[j]
    BY <1>2, <1>9, <2>1 DEF Range
  <2>3. <<files[i], files[j]>> \in Before(Order)
    BY <1>1, <1>3, <1>9 DEF Ordered
  <2> QED
    BY <1>6, <2>2, <2>3
<1>10. Ordered(Visits, R)
  BY <1>3, <1>5, <1>8, <1>9, FlattenOrdered
<1> QED
  BY <1>7, <1>10 DEF Ordered

(* The run finds a case at a range statement where the documentation says  *)
(* that a table is read.                                                   *)
Holds(k, c) == c \in Range(Cases(Visits[k].expr))

Literal(t) == [kind |-> "literal", table |-> t]

LEMMA CasesTyped ==
  ASSUME pkg \in Packages, NEW e \in Expr
  PROVE  /\ Resolved(e) \in Expr
         /\ Cases(e) \in Seq(Case \cup {NoCase})
         /\ \A i, j \in DOMAIN Cases(e) : Cases(e)[i] = Cases(e)[j] /\ Cases(e)[i] # NoCase => i = j
         /\ \A c : c \in Range(Cases(e)) <=> \E t \in Table : Resolved(e) = Literal(t) /\ c \in Range(Elts[t])
<1>1. Resolved(e) \in Expr
  <2>1. NoTable \in Expr
    BY DEF NoTable, Expr
  <2>2. e.kind = "name" => e.var \in Var
    BY DEF Expr
  <2> QED
    BY <2>1, <2>2, PackageTyped DEF Resolved, Initializer
<1>2. CASE Resolved(e).kind = "literal"
  <2>1. PICK t \in Table : Resolved(e) = Literal(t)
    BY <1>1, <1>2 DEF Expr, Literal
  <2>2. Cases(e) = Elts[t]
    BY <2>1 DEF Cases, Literal
  <2>3. \A u \in Table : Resolved(e) = Literal(u) => u = t
    BY <2>1 DEF Literal
  <2>4. /\ Elts[t] \in Seq(Case \cup {NoCase})
        /\ \A i, j \in DOMAIN Elts[t] : Elts[t][i] = Elts[t][j] /\ Elts[t][i] # NoCase => i = j
    BY PackageAssumption
  <2> QED
    BY <1>1, <2>1, <2>2, <2>3, <2>4
<1>3. CASE Resolved(e).kind # "literal"
  <2>1. Cases(e) = <<>>
    BY <1>3 DEF Cases
  <2>2. \A t \in Table : Resolved(e) # Literal(t)
    BY <1>3 DEF Literal
  <2>3. DOMAIN Cases(e) = {} /\ Range(Cases(e)) = {}
    BY <2>1 DEF Range
  <2>4. <<>> \in Seq(Case \cup {NoCase})
    BY EmptySeq
  <2> QED
    BY <1>1, <2>1, <2>2, <2>3, <2>4
<1> QED
  BY <1>2, <1>3

LEMMA CasesRead ==
  ASSUME pkg \in Packages, files \in Seq(File), Range(files) = Read, NEW f \in File, NEW c
  PROVE  (\E k \in DOMAIN Visits : Visits[k].file = f /\ Holds(k, c)) <=> f \in Read /\ c \in CasesOf(Read, f)
<1>1. /\ Visits \in Seq(Visit)
      /\ \A e : [file |-> f, expr |-> e] \in Range(Visits) <=> f \in Read /\ e \in Range(pkg.ranges[f])
  BY VisitsOf
<1>2. \A k \in DOMAIN Visits : Visits[k] = [file |-> Visits[k].file, expr |-> Visits[k].expr]
  <2>1. \A k \in DOMAIN Visits : Visits[k] \in Visit
    BY <1>1, LenProperties, ElementOfSeq
  <2> QED
    BY <2>1 DEF Visit
<1>3. (\E k \in DOMAIN Visits : Visits[k].file = f /\ Holds(k, c))
        <=> f \in Read /\ \E e \in Range(pkg.ranges[f]) : c \in Range(Cases(e))
  <2>1. ASSUME NEW k \in DOMAIN Visits, Visits[k].file = f, Holds(k, c)
        PROVE  f \in Read /\ \E e \in Range(pkg.ranges[f]) : c \in Range(Cases(e))
    <3>1. [file |-> f, expr |-> Visits[k].expr] \in Range(Visits)
      BY <1>2, <2>1 DEF Range
    <3> QED
      BY <1>1, <2>1, <3>1 DEF Holds
  <2>2. ASSUME f \in Read, NEW e \in Range(pkg.ranges[f]), c \in Range(Cases(e))
        PROVE  \E k \in DOMAIN Visits : Visits[k].file = f /\ Holds(k, c)
    <3>1. PICK k \in DOMAIN Visits : Visits[k] = [file |-> f, expr |-> e]
      BY <1>1, <2>2 DEF Range
    <3>2. Visits[k].file = f /\ Visits[k].expr = e
      BY <3>1
    <3> QED
      BY <2>2, <3>2 DEF Holds
  <2> QED
    BY <2>1, <2>2
<1>4. \A e \in Range(pkg.ranges[f]) : e \in Expr
  BY PackageTyped, LenProperties, ElementOfSeq DEF Range
<1>5. (\E e \in Range(pkg.ranges[f]) : c \in Range(Cases(e)))
        <=> \E e \in Range(pkg.ranges[f]) : \E t \in Table : Resolved(e) = Literal(t) /\ c \in Range(Elts[t])
  BY <1>4, CasesTyped
<1>6. ASSUME NEW t \in Table
      PROVE  (\E e \in Range(pkg.ranges[f]) : Resolved(e) = Literal(t)) <=> t \in TablesOf(Read, f)
  <2> DEFINE stands == Range(pkg.ranges[f])
             Declares(v) == /\ [kind |-> "name", var |-> v] \in stands
                            /\ pkg.init[v].file \in Read
                            /\ pkg.init[v].value = Literal(t)
  <2>1. t \in TablesOf(Read, f) <=> Literal(t) \in stands \/ \E v \in Var : Declares(v)
    BY DEF TablesOf, Literal
  <2>2. ASSUME NEW e \in stands, Resolved(e) = Literal(t)
        PROVE  Literal(t) \in stands \/ \E v \in Var : Declares(v)
    <3>1. CASE e.kind = "name"
      <4>1. PICK v \in Var : e = [kind |-> "name", var |-> v]
        BY <1>4, <2>2, <3>1 DEF Expr
      <4>2. Initializer(v) = Literal(t)
        BY <2>2, <3>1, <4>1 DEF Resolved
      <4>3. NoTable # Literal(t)
        BY DEF NoTable, Literal
      <4>4. pkg.init[v].file \in Read /\ pkg.init[v].value = Literal(t)
        BY <4>2, <4>3 DEF Initializer
      <4> QED
        BY <2>2, <4>1, <4>4
    <3>2. CASE e.kind # "name"
      BY <2>2, <3>2 DEF Resolved
    <3> QED
      BY <3>1, <3>2
  <2>3. ASSUME Literal(t) \in stands PROVE \E e \in stands : Resolved(e) = Literal(t)
    <3>1. Resolved(Literal(t)) = Literal(t)
      BY DEF Resolved, Literal
    <3> QED
      BY <2>3, <3>1
  <2>4. ASSUME NEW v \in Var, Declares(v) PROVE \E e \in stands : Resolved(e) = Literal(t)
    <3>1. Resolved([kind |-> "name", var |-> v]) = Literal(t)
      BY <2>4 DEF Resolved, Initializer
    <3> QED
      BY <2>4, <3>1
  <2> HIDE DEF stands, Declares
  <2>5. (\E e \in stands : Resolved(e) = Literal(t)) <=> t \in TablesOf(Read, f)
    BY <2>1, <2>2, <2>3, <2>4
  <2> QED
    BY <2>5 DEF stands
<1>7. c \in CasesOf(Read, f) <=> \E t \in TablesOf(Read, f) : c \in Range(Elts[t])
  BY DEF CasesOf
<1>8. TablesOf(Read, f) \subseteq Table
  BY DEF TablesOf
<1> QED
  BY <1>3, <1>5, <1>6, <1>7, <1>8
--------------------------------------------------------------------------------
(* The inductive invariant.  While a run goes on, it has reported the      *)
(* cases that it found at the range statements it has visited, each once,  *)
(* and has offered a fix by the file of the first of them.  A fix leaves   *)
(* no case on one line that the same run would offer to fix again.         *)

(* The report of a case depends on its fields and its lines only.          *)
Wanted(c) == c \notin split /\ Keyed[c] /\ Fields[c] >= Larger(pkg.min, 1)

(* The range statement at which a run finds a case first.                  *)
First(k, c) == Holds(k, c) /\ \A m \in 1..(k - 1) : ~Holds(m, c)

Typed ==
  /\ pkg \in Packages /\ files = ReadFiles
  /\ split \subseteq Case /\ comments \subseteq Case /\ lost \subseteq Case
  /\ phase \in {"run", "ran"} /\ next \in 0..Len(Visits)
  /\ reports \in Seq([case : Case, fix : BOOLEAN])
  /\ settled \in BOOLEAN /\ edits \in 0..MaxEdits

Complete == phase = "ran" => next = Len(Visits)

Once == \A i, j \in DOMAIN reports : reports[i].case = reports[j].case => i = j

FoundSoFar ==
  \A c \in Case : c \in Reported <=> Wanted(c) /\ \E k \in 1..next : Holds(k, c)

Offers ==
  \A i \in DOMAIN reports : \E k \in 1..next :
    /\ First(k, reports[i].case)
    /\ reports[i].fix = Fixable(Visits[k].file, reports[i].case)

Settles ==
  settled => \A c \in Case : \A k \in 1..Len(Visits) :
               Wanted(c) /\ First(k, c) => ~Fixable(Visits[k].file, c)

LostElsewhere ==
  \A c \in lost : \E k \in 1..Len(Visits) : First(k, c) /\ Visits[k].file # FileOf(c)

IInv == Typed /\ Complete /\ Once /\ FoundSoFar /\ Offers /\ Settles /\ LostElsewhere

(* What no step changes.                                                   *)
LEMMA Unmoved ==
  ASSUME UNCHANGED <<pkg, files>>
  PROVE  /\ Visits' = Visits /\ ReadFiles' = ReadFiles
         /\ \A k, c : Holds(k, c)' <=> Holds(k, c)
         /\ \A k, c : First(k, c)' <=> First(k, c)
         /\ \A c : FileOf(c)' = FileOf(c)
<1>1. Visits' = Visits
  BY DEF Visits
<1>2. \A e : Cases(e)' = Cases(e)
  BY DEF Cases, Resolved, Initializer, NoTable
<1>3. \A k, c : Holds(k, c)' <=> Holds(k, c)
  BY <1>1, <1>2 DEF Holds
<1>4. \A k, c : First(k, c)' <=> First(k, c)
  BY <1>3 DEF First
<1>5. ReadFiles' = ReadFiles
  BY DEF ReadFiles, IsTestFile, IsGenerated
<1>6. \A c : FileOf(c)' = FileOf(c)
  BY DEF FileOf
<1> QED
  BY <1>1, <1>3, <1>4, <1>5, <1>6

LEMMA VisitsTyped ==
  ASSUME Typed
  PROVE  /\ Visits \in Seq(Visit) /\ Len(Visits) \in Nat /\ DOMAIN Visits = 1..Len(Visits)
         /\ \A k \in 1..Len(Visits) : Visits[k].file \in File /\ Visits[k].expr \in Expr
<1>1. files \in Seq(File)
  BY FilesRead DEF Typed
<1>2. Visits \in Seq(Visit)
  BY <1>1, VisitsOf DEF Typed
<1>3. \A k \in 1..Len(Visits) : Visits[k] \in Visit
  BY <1>2, ElementOfSeq
<1> QED
  BY <1>2, <1>3, LenProperties DEF Visit

LEMMA InitIInv == Init => IInv
<1> SUFFICES ASSUME Init PROVE IInv
  OBVIOUS
<1>1. pkg \in Packages /\ files = ReadFiles /\ reports = <<>> /\ next = 0 /\ lost = {} /\ split = {}
      /\ settled = FALSE /\ phase = "run" /\ edits = 0 /\ comments \subseteq Case
  BY PackageAssumption DEF Init
<1>2. Len(Visits) \in Nat
  <2>1. files \in Seq(File)
    BY <1>1, FilesRead
  <2>2. Visits \in Seq(Visit)
    BY <1>1, <2>1, VisitsOf
  <2> QED
    BY <2>2, LenProperties
<1>3. reports \in Seq([case : Case, fix : BOOLEAN]) /\ DOMAIN reports = {}
  BY <1>1, EmptySeq
<1>4. Typed
  <2>1. MaxEdits \in Nat
    BY PackageAssumption
  <2>2. 0 \in 0..MaxEdits /\ 0 \in 0..Len(Visits)
    BY <1>2, <2>1
  <2> QED
    BY <1>1, <1>3, <2>2 DEF Typed
<1>5. Reported = {}
  BY <1>3 DEF Reported
<1> QED
  BY <1>1, <1>3, <1>4, <1>5
     DEF IInv, Complete, Once, FoundSoFar, Offers, Settles, LostElsewhere

(* A range statement adds the reports of the cases that it finds first.    *)
LEMMA ReadTableReports ==
  ASSUME IInv, ReadTable
  PROVE  LET v == Visits[next + 1] IN
         \E found \in Seq(Case) :
           /\ Len(reports') = Len(reports) + Len(found)
           /\ \A i \in DOMAIN reports : i \in DOMAIN reports' /\ reports'[i] = reports[i]
           /\ \A i \in DOMAIN reports' \ DOMAIN reports :
                /\ i - Len(reports) \in DOMAIN found
                /\ reports'[i].case = found[i - Len(reports)]
                /\ reports'[i].fix = Fixable(v.file, reports'[i].case)
           /\ reports' \in Seq([case : Case, fix : BOOLEAN])
           /\ IsInjective(found)
           /\ \A c : c \in Range(found) <=> c \in Range(Cases(v.expr)) /\ c \in Case /\ Reportable(c)
<1> DEFINE v == Visits[next + 1]
           S == {c \in Case \cup {NoCase} : Reportable(c)}
           found == Kept(Cases(v.expr), S)
           more == [i \in DOMAIN found |-> [case |-> found[i], fix |-> Fixable(v.file, found[i])]]
<1>0. v.expr \in Expr /\ pkg \in Packages
  <2>1. next + 1 \in 1..Len(Visits)
    BY VisitsTyped DEF IInv, Typed, ReadTable
  <2> QED
    BY <2>1, VisitsTyped DEF IInv, Typed
<1>1. reports' = reports \o more
  BY DEF ReadTable
<1>2. NoCase \notin S /\ S \subseteq Case /\ \A c \in Case : c \in S <=> Reportable(c)
  BY PackageAssumption DEF Reportable
<1> HIDE DEF S
<1>3. /\ Cases(v.expr) \in Seq(Case \cup {NoCase})
      /\ \A i, j \in DOMAIN Cases(v.expr) :
           Cases(v.expr)[i] = Cases(v.expr)[j] /\ Cases(v.expr)[i] # NoCase => i = j
  BY <1>0, CasesTyped
<1> HIDE DEF v
<1>4. /\ found \in Seq((Case \cup {NoCase}) \cap S)
      /\ \A c : c \in Range(found) <=> c \in Range(Cases(v.expr)) /\ c \in S
      /\ (\A i, j \in DOMAIN Cases(v.expr) :
            Cases(v.expr)[i] = Cases(v.expr)[j] /\ Cases(v.expr)[i] \in S => i = j) => IsInjective(found)
  BY <1>3, KeptElements
<1> HIDE DEF found
<1>5. found \in Seq(Case) /\ IsInjective(found)
  <2>1. (Case \cup {NoCase}) \cap S \subseteq Case
    BY <1>2
  <2>2. found \in Seq(Case)
    BY <1>4, <2>1, SeqMonotonic
  <2> QED
    BY <1>2, <1>3, <1>4, <2>2
<1>6. Len(found) \in Nat /\ DOMAIN found = 1..Len(found) /\ \A i \in DOMAIN found : found[i] \in Case
  BY <1>5, LenProperties, ElementOfSeq
<1>7. /\ more \in Seq([case : Case, fix : BOOLEAN]) /\ Len(more) = Len(found)
      /\ \A i \in DOMAIN found : more[i].case = found[i] /\ more[i].fix = Fixable(v.file, found[i])
  <2>1. \A i \in 1..Len(found) : [case |-> found[i], fix |-> Fixable(v.file, found[i])] \in [case : Case, fix : BOOLEAN]
    BY <1>6 DEF Fixable
  <2>2. \A i \in DOMAIN found : more[i].case = found[i] /\ more[i].fix = Fixable(v.file, found[i])
    OBVIOUS
  <2>3. more = [i \in 1..Len(found) |-> [case |-> found[i], fix |-> Fixable(v.file, found[i])]]
    BY <1>6
  <2> HIDE DEF more
  <2>4. more \in Seq([case : Case, fix : BOOLEAN]) /\ Len(more) = Len(found)
    BY <1>6, <2>1, <2>3
  <2> QED
    BY <2>2, <2>4
<1> HIDE DEF more
<1>8. reports \in Seq([case : Case, fix : BOOLEAN]) /\ Len(reports) \in Nat /\ DOMAIN reports = 1..Len(reports)
  BY LenProperties DEF IInv, Typed
<1>9. /\ reports' \in Seq([case : Case, fix : BOOLEAN]) /\ Len(reports') = Len(reports) + Len(found)
      /\ \A i \in 1..(Len(reports) + Len(found)) :
           reports'[i] = IF i <= Len(reports) THEN reports[i] ELSE more[i - Len(reports)]
  <2> DEFINE T == [case : Case, fix : BOOLEAN]
  <2>1. reports \in Seq(T) /\ more \in Seq(T)
    BY <1>7, <1>8
  <2> HIDE DEF T
  <2>2. /\ reports \o more \in Seq(T) /\ Len(reports \o more) = Len(reports) + Len(more)
        /\ \A i \in 1..(Len(reports) + Len(more)) :
             (reports \o more)[i] = IF i <= Len(reports) THEN reports[i] ELSE more[i - Len(reports)]
    BY <2>1, ConcatProperties
  <2> QED
    BY <1>1, <1>7, <2>2 DEF T
<1>10. DOMAIN reports' = 1..(Len(reports) + Len(found))
  BY <1>9, LenProperties
<1>11. \A i \in DOMAIN reports : i \in DOMAIN reports' /\ reports'[i] = reports[i]
  BY <1>6, <1>8, <1>9, <1>10
<1>12. ASSUME NEW i \in DOMAIN reports' \ DOMAIN reports
       PROVE  /\ i - Len(reports) \in DOMAIN found
              /\ reports'[i].case = found[i - Len(reports)]
              /\ reports'[i].fix = Fixable(v.file, reports'[i].case)
  <2>1. i - Len(reports) \in DOMAIN found /\ reports'[i] = more[i - Len(reports)]
    BY <1>6, <1>8, <1>9, <1>10
  <2> QED
    BY <1>7, <2>1
<1>13. \A c : c \in Range(found) <=> c \in Range(Cases(v.expr)) /\ c \in Case /\ Reportable(c)
  BY <1>2, <1>4
<1> QED
  BY <1>5, <1>9, <1>11, <1>12, <1>13 DEF v

LEMMA ReadTableIInv ==
  ASSUME IInv, ReadTable
  PROVE  IInv'
<1> DEFINE v == Visits[next + 1]
<1>1. PICK found \in Seq(Case) :
        /\ Len(reports') = Len(reports) + Len(found)
        /\ \A i \in DOMAIN reports : i \in DOMAIN reports' /\ reports'[i] = reports[i]
        /\ \A i \in DOMAIN reports' \ DOMAIN reports :
             /\ i - Len(reports) \in DOMAIN found
             /\ reports'[i].case = found[i - Len(reports)]
             /\ reports'[i].fix = Fixable(v.file, reports'[i].case)
        /\ reports' \in Seq([case : Case, fix : BOOLEAN])
        /\ IsInjective(found)
        /\ \A c : c \in Range(found) <=> c \in Range(Cases(v.expr)) /\ c \in Case /\ Reportable(c)
  BY ReadTableReports
<1> HIDE DEF v
<1>2. /\ Typed /\ Once /\ FoundSoFar /\ Offers /\ Settles /\ LostElsewhere
      /\ next' = next + 1 /\ next < Len(Visits) /\ phase = "run"
      /\ UNCHANGED <<pkg, files>> /\ UNCHANGED <<split, comments, lost, phase, settled, edits>>
  BY DEF IInv, ReadTable, source
<1>3. /\ Visits' = Visits /\ ReadFiles' = ReadFiles
      /\ \A k, c : Holds(k, c)' <=> Holds(k, c)
      /\ \A k, c : First(k, c)' <=> First(k, c)
      /\ \A c : FileOf(c)' = FileOf(c)
  BY <1>2, Unmoved
<1>4. /\ \A c : Wanted(c)' <=> Wanted(c)
      /\ \A f, c : Fixable(f, c)' = Fixable(f, c)
  BY <1>2, <1>3 DEF Wanted, Fixable
<1>5. next \in Nat /\ Len(Visits) \in Nat /\ next + 1 \in 1..Len(Visits)
  BY <1>2, VisitsTyped DEF Typed
<1>6. Typed'
  <2>1. next + 1 \in 0..Len(Visits)
    BY <1>5
  <2> QED
    BY <1>1, <1>2, <1>3, <2>1 DEF Typed
<1>7. Complete'
  BY <1>2 DEF Complete
<1>8. Len(reports) \in Nat /\ DOMAIN reports = 1..Len(reports)
  BY <1>2, LenProperties DEF Typed
<1>9. DOMAIN reports' = 1..Len(reports')
  BY <1>1, LenProperties
<1>10. ASSUME NEW i \in DOMAIN reports' \ DOMAIN reports
       PROVE  /\ reports'[i].case \in Case /\ Holds(next + 1, reports'[i].case)
              /\ reports'[i].case \notin Reported /\ Wanted(reports'[i].case)
  <2>1. reports'[i].case \in Range(found)
    BY <1>1 DEF Range
  <2>2. /\ reports'[i].case \in Range(Cases(v.expr)) /\ reports'[i].case \in Case
        /\ Reportable(reports'[i].case)
    BY <1>1, <2>1
  <2> QED
    BY <2>2 DEF Holds, Reportable, Wanted, v
<1>11. \A i \in DOMAIN reports : reports[i].case \in Reported
  BY DEF Reported
<1>12. Once'
  <2> SUFFICES ASSUME NEW i \in DOMAIN reports', NEW j \in DOMAIN reports',
                      reports'[i].case = reports'[j].case
               PROVE  i = j
    BY DEF Once
  <2>1. CASE i \in DOMAIN reports /\ j \in DOMAIN reports
    BY <1>1, <1>2, <2>1 DEF Once
  <2>2. CASE i \in DOMAIN reports /\ j \notin DOMAIN reports
    BY <1>1, <1>10, <1>11, <2>2
  <2>3. CASE i \notin DOMAIN reports /\ j \in DOMAIN reports
    BY <1>1, <1>10, <1>11, <2>3
  <2>4. CASE i \notin DOMAIN reports /\ j \notin DOMAIN reports
    <3>1. i - Len(reports) \in DOMAIN found /\ j - Len(reports) \in DOMAIN found
          /\ found[i - Len(reports)] = found[j - Len(reports)]
      BY <1>1, <2>4
    <3>2. i - Len(reports) = j - Len(reports)
      BY <1>1, <3>1 DEF IsInjective
    <3> QED
      BY <1>1, <1>8, <1>9, <3>2
  <2> QED
    BY <2>1, <2>2, <2>3, <2>4
<1>13. \A c \in Case : c \in Reported' <=> c \in Reported \/ c \in Range(found)
  <2>1. ASSUME NEW i \in DOMAIN reports' PROVE reports'[i].case \in Reported \/ reports'[i].case \in Range(found)
    <3>1. CASE i \in DOMAIN reports
      BY <1>1, <1>11, <3>1
    <3>2. CASE i \notin DOMAIN reports
      BY <1>1, <3>2 DEF Range
    <3> QED
      BY <3>1, <3>2
  <2>2. ASSUME NEW i \in DOMAIN reports PROVE reports[i].case \in Reported'
    <3>1. i \in DOMAIN reports' /\ reports'[i].case = reports[i].case
      BY <1>1
    <3> QED
      BY <3>1 DEF Reported
  <2>3. ASSUME NEW j \in DOMAIN found PROVE found[j] \in Reported'
    <3>1. Len(found) \in Nat /\ j \in 1..Len(found)
      BY <1>1, LenProperties
    <3>2. Len(reports) + j \in DOMAIN reports' \ DOMAIN reports /\ (Len(reports) + j) - Len(reports) = j
      BY <1>1, <1>8, <1>9, <3>1
    <3>3. reports'[Len(reports) + j].case = found[j]
      BY <1>1, <3>2
    <3> QED
      BY <3>2, <3>3 DEF Reported
  <2>4. ASSUME NEW c \in Reported' PROVE c \in Reported \/ c \in Range(found)
    <3>1. PICK i \in DOMAIN reports' : c = reports'[i].case
      BY <2>4 DEF Reported
    <3> QED
      BY <2>1, <3>1
  <2>5. ASSUME NEW c \in Reported PROVE c \in Reported'
    <3>1. PICK i \in DOMAIN reports : c = reports[i].case
      BY <2>5 DEF Reported
    <3> QED
      BY <2>2, <3>1
  <2>6. ASSUME NEW c \in Range(found) PROVE c \in Reported'
    BY <2>3, <2>6 DEF Range
  <2> QED
    BY <2>4, <2>5, <2>6
<1>14. FoundSoFar'
  <2> SUFFICES ASSUME NEW c \in Case
               PROVE  c \in Reported' <=> Wanted(c) /\ \E k \in 1..(next + 1) : Holds(k, c)
    BY <1>2, <1>3, <1>4 DEF FoundSoFar
  <2>1. c \in Reported <=> Wanted(c) /\ \E k \in 1..next : Holds(k, c)
    BY <1>2 DEF FoundSoFar
  <2>2. c \in Range(found) <=> Holds(next + 1, c) /\ c \notin Reported /\ Wanted(c)
    <3>1. c # NoCase
      BY PackageAssumption
    <3> QED
      BY <1>1, <3>1 DEF Holds, Reportable, Wanted, v
  <2>3. 1..(next + 1) = 1..next \cup {next + 1}
    BY <1>5
  <2> QED
    BY <1>13, <2>1, <2>2, <2>3
<1>15. Offers'
  <2> SUFFICES ASSUME NEW i \in DOMAIN reports'
               PROVE  \E k \in 1..(next + 1) :
                        /\ First(k, reports'[i].case)
                        /\ reports'[i].fix = Fixable(Visits[k].file, reports'[i].case)
    BY <1>2, <1>3, <1>4 DEF Offers
  <2>1. CASE i \in DOMAIN reports
    <3>1. PICK k \in 1..next : /\ First(k, reports[i].case)
                               /\ reports[i].fix = Fixable(Visits[k].file, reports[i].case)
      BY <1>2, <2>1 DEF Offers
    <3>2. k \in 1..(next + 1)
      BY <1>5
    <3> QED
      BY <1>1, <2>1, <3>1, <3>2
  <2>2. CASE i \notin DOMAIN reports
    <3>1. /\ reports'[i].case \in Case /\ Holds(next + 1, reports'[i].case)
          /\ \A k \in 1..next : ~Holds(k, reports'[i].case)
      BY <1>2, <1>10, <2>2 DEF FoundSoFar
    <3>2. First(next + 1, reports'[i].case)
      <4>1. (next + 1) - 1 = next
        BY <1>5
      <4> QED
        BY <3>1, <4>1 DEF First
    <3>3. next + 1 \in 1..(next + 1)
      BY <1>5
    <3> QED
      BY <1>1, <2>2, <3>2, <3>3 DEF v
  <2> QED
    BY <2>1, <2>2
<1>16. Settles'
  BY <1>2, <1>3, <1>4 DEF Settles
<1>17. LostElsewhere'
  BY <1>2, <1>3 DEF LostElsewhere
<1> QED
  BY <1>6, <1>7, <1>12, <1>14, <1>15, <1>16, <1>17 DEF IInv

LEMMA FinishIInv ==
  ASSUME IInv, Finish
  PROVE  IInv'
<1>1. /\ Typed /\ Once /\ FoundSoFar /\ Offers /\ Settles /\ LostElsewhere
      /\ next = Len(Visits) /\ phase' = "ran"
      /\ UNCHANGED <<pkg, files>> /\ UNCHANGED <<split, comments, lost, next, reports, settled, edits>>
  BY DEF IInv, Finish, source
<1>2. /\ Visits' = Visits /\ ReadFiles' = ReadFiles
      /\ \A k, c : Holds(k, c)' <=> Holds(k, c)
      /\ \A k, c : First(k, c)' <=> First(k, c)
      /\ \A c : FileOf(c)' = FileOf(c)
  BY <1>1, Unmoved
<1>3. /\ \A c : Wanted(c)' <=> Wanted(c)
      /\ \A f, c : Fixable(f, c)' = Fixable(f, c)
      /\ Reported' = Reported
  BY <1>1, <1>2 DEF Wanted, Fixable, Reported
<1>4. Typed' /\ Complete'
  BY <1>1, <1>2 DEF Typed, Complete
<1>5. Once' /\ FoundSoFar'
  BY <1>1, <1>2, <1>3 DEF Once, FoundSoFar
<1>6. Offers' /\ Settles' /\ LostElsewhere'
  BY <1>1, <1>2, <1>3 DEF Offers, Settles, LostElsewhere
<1> QED
  BY <1>4, <1>5, <1>6 DEF IInv

(* A run starts again with no reports.                                     *)
LEMMA AgainIInv ==
  ASSUME Typed, UNCHANGED <<pkg, files>>, Again
  PROVE  /\ reports' \in Seq([case : Case, fix : BOOLEAN]) /\ next' \in 0..Len(Visits') /\ phase' \in {"run", "ran"}
         /\ Complete' /\ Once' /\ FoundSoFar' /\ Offers'
<1>1. reports' = <<>> /\ next' = 0 /\ phase' = "run"
  BY DEF Again
<1>2. DOMAIN reports' = {} /\ reports' \in Seq([case : Case, fix : BOOLEAN]) /\ Reported' = {}
  BY <1>1, EmptySeq DEF Reported
<1>3. Visits' = Visits /\ Len(Visits) \in Nat
  BY Unmoved, VisitsTyped
<1> QED
  BY <1>1, <1>2, <1>3 DEF Complete, Once, FoundSoFar, Offers

LEMMA FixIInv ==
  ASSUME IInv, Fix
  PROVE  IInv'
<1> DEFINE fixed == {reports[i].case : i \in {j \in DOMAIN reports : reports[j].fix}}
<1>1. /\ Typed /\ Complete /\ Once /\ FoundSoFar /\ Offers /\ Settles /\ LostElsewhere
      /\ phase = "ran" /\ Again /\ settled' = TRUE
      /\ UNCHANGED <<pkg, files>> /\ UNCHANGED edits
      /\ split' = split \cup fixed /\ comments' = comments \ fixed
      /\ lost' = lost \cup (comments \cap fixed)
  BY DEF IInv, Fix
<1>2. /\ Visits' = Visits /\ ReadFiles' = ReadFiles
      /\ \A k, c : Holds(k, c)' <=> Holds(k, c)
      /\ \A k, c : First(k, c)' <=> First(k, c)
      /\ \A c : FileOf(c)' = FileOf(c)
  BY <1>1, Unmoved
<1>3. next = Len(Visits) /\ Len(Visits) \in Nat
  BY <1>1, VisitsTyped DEF Complete
<1>4. \A i \in DOMAIN reports : reports[i].case \in Case /\ reports[i].fix \in BOOLEAN
  <2>1. \A i \in DOMAIN reports : reports[i] \in [case : Case, fix : BOOLEAN]
    BY <1>1, LenProperties, ElementOfSeq DEF Typed
  <2> QED
    BY <2>1
<1>5. fixed \subseteq Case
  BY <1>4
<1>6. /\ reports' \in Seq([case : Case, fix : BOOLEAN]) /\ next' \in 0..Len(Visits') /\ phase' \in {"run", "ran"}
      /\ Complete' /\ Once' /\ FoundSoFar' /\ Offers'
  BY <1>1, AgainIInv
<1>7. ASSUME NEW c \in fixed
      PROVE  \E k \in 1..Len(Visits) : First(k, c) /\ Fixable(Visits[k].file, c)
  <2>1. PICK i \in DOMAIN reports : reports[i].fix /\ reports[i].case = c
    BY <1>7
  <2>2. PICK k \in 1..next : First(k, c) /\ reports[i].fix = Fixable(Visits[k].file, c)
    BY <1>1, <2>1 DEF Offers
  <2> QED
    BY <1>3, <2>1, <2>2
<1>8. ASSUME NEW c \in Case, NEW k \in 1..Len(Visits), Wanted(c), c \notin fixed, First(k, c)
      PROVE  ~Fixable(Visits[k].file, c)
  <2>1. PICK i \in DOMAIN reports : reports[i].case = c
    BY <1>1, <1>3, <1>8 DEF FoundSoFar, First, Reported
  <2>2. ~reports[i].fix
    BY <1>8, <2>1
  <2>3. PICK m \in 1..next : First(m, c) /\ reports[i].fix = Fixable(Visits[m].file, c)
    BY <1>1, <2>1 DEF Offers
  <2>4. m = k
    <3>1. m \in Nat /\ k \in Nat /\ m >= 1 /\ k >= 1
      BY <1>3
    <3>2. ~(m < k) /\ ~(k < m)
      BY <1>8, <2>3, <3>1 DEF First
    <3> QED
      BY <3>1, <3>2
  <2> QED
    BY <2>2, <2>3, <2>4
<1> HIDE DEF fixed
<1>9. Typed'
  BY <1>1, <1>2, <1>5, <1>6 DEF Typed
<1>10. Settles'
  <2> SUFFICES ASSUME NEW c \in Case, NEW k \in 1..Len(Visits), Wanted(c)', First(k, c)
               PROVE  ~Fixable(Visits[k].file, c)'
    BY <1>2 DEF Settles
  <2>1. Wanted(c) /\ c \notin fixed
    BY <1>1 DEF Wanted
  <2>2. c \in comments /\ FileOf(c) = Visits[k].file
    BY <1>8, <2>1 DEF Fixable
  <2> QED
    BY <1>1, <1>2, <2>1, <2>2 DEF Fixable
<1>11. LostElsewhere'
  <2> SUFFICES ASSUME NEW c \in lost'
               PROVE  \E k \in 1..Len(Visits) : First(k, c) /\ Visits[k].file # FileOf(c)
    BY <1>2 DEF LostElsewhere
  <2>1. CASE c \in lost
    BY <1>1, <2>1 DEF LostElsewhere
  <2>2. CASE c \notin lost
    <3>1. c \in comments /\ c \in fixed
      BY <1>1, <2>2
    <3> QED
      BY <1>7, <3>1 DEF Fixable
  <2> QED
    BY <2>1, <2>2
<1> QED
  BY <1>6, <1>9, <1>10, <1>11 DEF IInv

LEMMA EditIInv ==
  ASSUME IInv, NEW c \in Case, Edit(c)
  PROVE  IInv'
<1>1. /\ Typed /\ LostElsewhere /\ Again /\ settled' = FALSE /\ edits < MaxEdits /\ edits' = edits + 1
      /\ UNCHANGED <<pkg, files>> /\ UNCHANGED lost
      /\ split' \subseteq Case /\ comments' \subseteq Case
  BY DEF IInv, Typed, Edit
<1>2. /\ Visits' = Visits /\ ReadFiles' = ReadFiles
      /\ \A k, d : First(k, d)' <=> First(k, d)
      /\ \A d : FileOf(d)' = FileOf(d)
  BY <1>1, Unmoved
<1>3. /\ reports' \in Seq([case : Case, fix : BOOLEAN]) /\ next' \in 0..Len(Visits') /\ phase' \in {"run", "ran"}
      /\ Complete' /\ Once' /\ FoundSoFar' /\ Offers'
  BY <1>1, AgainIInv
<1>4. edits' \in 0..MaxEdits
  <2>1. MaxEdits \in Nat
    BY PackageAssumption
  <2> QED
    BY <1>1, <2>1 DEF Typed
<1>5. Typed'
  BY <1>1, <1>2, <1>3, <1>4 DEF Typed
<1>6. Settles' /\ LostElsewhere'
  BY <1>1, <1>2 DEF Settles, LostElsewhere
<1> QED
  BY <1>3, <1>5, <1>6 DEF IInv

LEMMA StutterIInv ==
  ASSUME IInv, UNCHANGED vars
  PROVE  IInv'
<1>1. UNCHANGED <<pkg, files>> /\ UNCHANGED <<split, comments, lost, phase, next, reports, settled, edits>>
  BY DEF vars
<1>2. /\ Visits' = Visits /\ ReadFiles' = ReadFiles
      /\ \A k, c : Holds(k, c)' <=> Holds(k, c)
      /\ \A k, c : First(k, c)' <=> First(k, c)
      /\ \A c : FileOf(c)' = FileOf(c)
  BY <1>1, Unmoved
<1>3. /\ \A c : Wanted(c)' <=> Wanted(c)
      /\ \A f, c : Fixable(f, c)' = Fixable(f, c)
      /\ Reported' = Reported
  BY <1>1, <1>2 DEF Wanted, Fixable, Reported
<1>4. Typed' /\ Complete' /\ Once'
  BY <1>1, <1>2 DEF IInv, Typed, Complete, Once
<1>5. FoundSoFar' /\ Offers' /\ Settles' /\ LostElsewhere'
  BY <1>1, <1>2, <1>3 DEF IInv, FoundSoFar, Offers, Settles, LostElsewhere
<1> QED
  BY <1>4, <1>5 DEF IInv

(* Every step keeps the invariant: a visit, the end of a run, the fixes    *)
(* and the edits of the developer.                                         *)
THEOREM Inductive == Spec => []IInv
<1>1. ASSUME IInv, [Next]_vars PROVE IInv'
  <2>1. CASE ReadTable
    BY <1>1, <2>1, ReadTableIInv
  <2>2. CASE Finish
    BY <1>1, <2>2, FinishIInv
  <2>3. CASE Fix
    BY <1>1, <2>3, FixIInv
  <2>4. CASE \E c \in Case : Edit(c)
    BY <1>1, <2>4, EditIInv
  <2>5. CASE UNCHANGED vars
    BY <1>1, <2>5, StutterIInv
  <2> QED
    BY <1>1, <2>1, <2>2, <2>3, <2>4, <2>5 DEF Next
<1> QED
  BY <1>1, InitIInv, PTL DEF Spec
--------------------------------------------------------------------------------
(* The properties of the runs follow.                                      *)

(* A run has no more reports than there are cases, each once.              *)
LEMMA CountReports ==
  ASSUME Typed, Once
  PROVE  Len(reports) <= Cardinality(Case) /\ Len(reports) = Cardinality(Reported)
<1> DEFINE n == Len(reports)
           g == [i \in 1..n |-> reports[i].case]
<1>1. n \in Nat /\ DOMAIN reports = 1..n /\ \A i \in 1..n : reports[i].case \in Case
  <2>1. \A i \in 1..n : reports[i] \in [case : Case, fix : BOOLEAN]
    BY ElementOfSeq DEF Typed
  <2> QED
    BY <2>1, LenProperties DEF Typed
<1>2. IsFiniteSet(1..n) /\ Cardinality(1..n) = n
  BY <1>1, FS_Interval
<1>3. g \in [1..n -> Case] /\ \A i, j \in 1..n : g[i] = g[j] => i = j
  BY <1>1 DEF Once
<1>4. g \in [1..n -> Reported] /\ \A c \in Reported : \E i \in 1..n : g[i] = c
  BY <1>1 DEF Reported
<1> HIDE DEF g
<1>5. g \in Injection(1..n, Case)
  BY <1>3 DEF Injection, IsInjective
<1>6. g \in Bijection(1..n, Reported)
  BY <1>3, <1>4 DEF Bijection, Injection, Surjection, IsInjective
<1>7. IsFiniteSet(Case)
  BY PackageAssumption
<1>8. Cardinality(1..n) <= Cardinality(Case)
  BY <1>5, <1>7, FS_Injection
<1>9. Cardinality(Reported) = Cardinality(1..n)
  BY <1>2, <1>6, FS_Bijection DEF ExistsBijection
<1> QED
  BY <1>2, <1>8, <1>9

(* Every run and every fix keep the model well typed.                      *)
THEOREM TypeCorrect == Spec => []TypeOK
<1>1. IInv => TypeOK
  BY CountReports, FilesRead DEF IInv, Typed, TypeOK
<1> QED
  BY <1>1, Inductive, PTL

(* The setting names the packages that its documentation says it names,    *)
(* in every state of every run.                                            *)
THEOREM SettingDocumented == Spec => []PatternsDocumented
<1>1. IInv => PatternsDocumented
  BY SettingNames DEF IInv, Typed, PatternsDocumented
<1> QED
  BY <1>1, Inductive, PTL

(* After a run the reports are the one-line cases that the documentation   *)
(* speaks of, in the files that it says the rule reads, each once.         *)
THEOREM RunDocumented == Spec => []ReportsDocumented
<1>1. ASSUME IInv PROVE ReportsDocumented
  <2> SUFFICES ASSUME phase = "ran"
               PROVE  /\ Len(reports) = Cardinality(Reported)
                      /\ Reported = {c \in Case \ split :
                                       /\ Keyed[c] /\ Fields[c] >= 1 /\ Fields[c] >= pkg.min
                                       /\ c \in UNION {CasesOf(Read, f) : f \in Read}}
    BY DEF ReportsDocumented
  <2>1. Typed /\ Once /\ FoundSoFar /\ next = Len(Visits)
    BY <1>1 DEF IInv, Complete
  <2>2. files \in Seq(File) /\ Range(files) = Read /\ pkg \in Packages /\ pkg.min \in Int
    BY <2>1, FilesRead, PackageTyped DEF Typed
  <2>3. Reported \subseteq Case
    <3>1. \A i \in DOMAIN reports : reports[i] \in [case : Case, fix : BOOLEAN]
      BY <2>1, LenProperties, ElementOfSeq DEF Typed
    <3> QED
      BY <3>1 DEF Reported
  <2>4. ASSUME NEW c \in Case
        PROVE  (\E k \in 1..Len(Visits) : Holds(k, c)) <=> \E f \in Read : c \in CasesOf(Read, f)
    <3>1. Read \subseteq File
      BY DEF Read
    <3>2. DOMAIN Visits = 1..Len(Visits) /\ \A k \in 1..Len(Visits) : Visits[k].file \in File
      BY <2>1, VisitsTyped
    <3>3. \A f \in File : (\E k \in DOMAIN Visits : Visits[k].file = f /\ Holds(k, c))
                            <=> f \in Read /\ c \in CasesOf(Read, f)
      BY <2>2, CasesRead
    <3> QED
      BY <3>1, <3>2, <3>3
  <2>5. \A c \in Case : Wanted(c) <=> /\ c \notin split /\ Keyed[c]
                                      /\ Fields[c] >= 1 /\ Fields[c] >= pkg.min
    <3>1. \A c \in Case : Fields[c] \in Nat
      BY PackageAssumption
    <3> QED
      BY <2>2, <3>1 DEF Wanted, Larger
  <2>6. \A c \in Case : c \in Reported <=>
          /\ c \notin split /\ Keyed[c] /\ Fields[c] >= 1 /\ Fields[c] >= pkg.min
          /\ \E f \in Read : c \in CasesOf(Read, f)
    BY <2>1, <2>4, <2>5 DEF FoundSoFar
  <2> QED
    BY <2>1, <2>3, <2>6, CountReports
<1> QED
  BY <1>1, Inductive, PTL

(* A run that follows a fix offers no further fix.                         *)
THEOREM FixEnds == Spec => []FixSettles
<1>1. ASSUME IInv, phase = "ran", settled, NEW i \in DOMAIN reports
      PROVE  ~reports[i].fix
  <2>1. Typed /\ Offers /\ Settles /\ FoundSoFar /\ next = Len(Visits)
    BY <1>1 DEF IInv, Complete
  <2>2. PICK k \in 1..next : /\ First(k, reports[i].case)
                             /\ reports[i].fix = Fixable(Visits[k].file, reports[i].case)
    BY <2>1 DEF Offers
  <2>3. reports[i].case \in Case
    <3>1. reports[i] \in [case : Case, fix : BOOLEAN]
      BY <2>1, LenProperties, ElementOfSeq DEF Typed
    <3> QED
      BY <3>1
  <2>4. Wanted(reports[i].case)
    BY <2>1, <2>3 DEF FoundSoFar, Reported
  <2> QED
    BY <1>1, <2>1, <2>2, <2>3, <2>4 DEF Settles
<1>2. IInv => FixSettles
  BY <1>1 DEF FixSettles
<1> QED
  BY <1>2, Inductive, PTL

(* A fix removes a comment only where the first loop to read the table, in *)
(* the order of the files, stands in another file than the table.          *)
THEOREM LossAcross == Spec => []LostAcross
<1>1. ASSUME IInv, NEW c \in lost
      PROVE  \E i \in DOMAIN Order :
               /\ Order[i] \in Read \ {FileOf(c)} /\ c \in CasesOf(Read, Order[i])
               /\ \A j \in 1..(i - 1) : ~(Order[j] \in Read /\ c \in CasesOf(Read, Order[j]))
  <2>1. /\ Typed /\ pkg \in Packages /\ files = ReadFiles
        /\ files \in Seq(File) /\ Range(files) = Read
    BY <1>1, FilesRead DEF IInv, Typed
  <2>2. PICK k \in 1..Len(Visits) : First(k, c) /\ Visits[k].file # FileOf(c)
    BY <1>1 DEF IInv, LostElsewhere
  <2>3. /\ DOMAIN Visits = 1..Len(Visits) /\ Len(Visits) \in Nat /\ Visits[k].file \in File
        /\ Holds(k, c)
    BY <2>1, <2>2, VisitsTyped DEF First
  <2>4. Visits[k].file \in Read /\ c \in CasesOf(Read, Visits[k].file)
    BY <2>1, <2>3, CasesRead
  <2>5. /\ Len(Order) \in Nat /\ DOMAIN Order = 1..Len(Order)
        /\ \A a, b \in DOMAIN Order : Order[a] = Order[b] => a = b
    BY PackageAssumption, LenProperties DEF IsInjective
  <2>6. PICK i \in DOMAIN Order : Order[i] = Visits[k].file
    BY <2>3 DEF File, Range
  <2>7. ASSUME NEW j \in 1..(i - 1), Order[j] \in Read, c \in CasesOf(Read, Order[j])
        PROVE  FALSE
    <3>1. j \in DOMAIN Order /\ j < i
      BY <2>5
    <3>2. Order[j] \in File
      BY <3>1 DEF File, Range
    <3>3. PICK m \in DOMAIN Visits : Visits[m].file = Order[j] /\ Holds(m, c)
      BY <2>1, <2>7, <3>2, CasesRead
    <3>4. k < m
      <4>1. m # k
        BY <2>5, <2>6, <3>1, <3>3
      <4>2. ~(m < k)
        BY <2>2, <2>3, <3>3 DEF First
      <4> QED
        BY <2>3, <4>1, <4>2
    <3>5. Order[i] = Order[j] \/ <<Order[i], Order[j]>> \in Before(Order)
      <4>1. Visits[k].file = Visits[m].file \/ <<Visits[k].file, Visits[m].file>> \in Before(Order)
        BY <2>1, <2>3, <3>4, VisitsOrdered
      <4> QED
        BY <2>6, <3>3, <4>1
    <3>6. ASSUME <<Order[i], Order[j]>> \in Before(Order) PROVE i < j
      <4>1. PICK a \in DOMAIN Order, b \in DOMAIN Order :
              a < b /\ Order[i] = Order[a] /\ Order[j] = Order[b]
        BY <3>6 DEF Before
      <4>2. a = i /\ b = j
        BY <2>5, <3>1, <4>1
      <4> QED
        BY <4>1, <4>2
    <3> QED
      BY <2>5, <3>1, <3>5, <3>6
  <2> QED
    BY <2>2, <2>4, <2>6, <2>7
<1>2. IInv => LostAcross
  BY <1>1 DEF LostAcross
<1> QED
  BY <1>2, Inductive, PTL
================================================================================
