--------------------------- MODULE FullStructProofs ---------------------------
(***************************************************************************)
(* Proofs about G12: for every type graph, every set of statements and     *)
(* every order of the map of fields, the reports of the runs and of the    *)
(* elements are the documented ones.                                       *)
(***************************************************************************)
EXTENDS FullStruct, FiniteSetTheorems, SequenceTheorems, WellFoundedInduction, TLAPS

-------------------------------------------------------------------------------
(* Induction over the numbers, and sequences.                              *)

LEMMA LeastNumber ==
  ASSUME NEW S, S \subseteq Nat, S # {}
  PROVE  \E m \in S : \A n \in S : m <= n
<1> DEFINE R == OpToRel(<, Nat)
<1>1. IsWellFoundedOn(R, Nat)
  BY NatLessThanWellFounded
<1> HIDE DEF R
<1>2. PICK m \in S : \A n \in S : <<n, m>> \notin R
  BY <1>1, WFMin
<1>3. \A n \in S : ~(n < m)
  BY <1>2 DEF R, OpToRel
<1> QED
  BY <1>2, <1>3

LEMMA SetInduction ==
  ASSUME NEW S, S \subseteq Nat, 0 \in S, \A n \in S : n + 1 \in S
  PROVE  \A n \in Nat : n \in S
<1> SUFFICES ASSUME NEW n \in Nat, n \notin S PROVE FALSE
  OBVIOUS
<1>1. PICK m \in Nat \ S : \A k \in Nat \ S : m <= k
  <2>1. Nat \ S \subseteq Nat /\ Nat \ S # {}
    OBVIOUS
  <2> QED
    BY <2>1, LeastNumber
<1>2. m # 0 /\ m - 1 \in Nat
  BY <1>1
<1>3. m - 1 \in S
  BY <1>1, <1>2
<1> QED
  BY <1>1, <1>3

LEMMA AsSequence ==
  ASSUME NEW T, NEW n \in Nat, NEW f \in [1..n -> T]
  PROVE  f \in Seq(T) /\ Len(f) = n
<1>1. f \in Seq(T)
  BY SeqDef
<1>2. DOMAIN f = 1..n /\ DOMAIN f = 1..Len(f) /\ Len(f) \in Nat
  BY <1>1, LenProperties
<1> QED
  BY <1>1, <1>2

LEMMA ConcatRange ==
  ASSUME NEW T, NEW s \in Seq(T), NEW t \in Seq(T)
  PROVE  \A x : x \in Range(s \o t) <=> x \in Range(s) \/ x \in Range(t)
<1>1. /\ s \o t \in Seq(T) /\ Len(s \o t) = Len(s) + Len(t)
      /\ \A i \in 1..(Len(s) + Len(t)) : (s \o t)[i] = IF i <= Len(s) THEN s[i] ELSE t[i - Len(s)]
  BY ConcatProperties
<1>2. /\ Len(s) \in Nat /\ DOMAIN s = 1..Len(s) /\ Len(t) \in Nat /\ DOMAIN t = 1..Len(t)
      /\ DOMAIN (s \o t) = 1..(Len(s) + Len(t))
  BY <1>1, LenProperties
<1>3. ASSUME NEW i \in DOMAIN s PROVE i \in DOMAIN (s \o t) /\ (s \o t)[i] = s[i]
  BY <1>1, <1>2
<1>4. ASSUME NEW i \in DOMAIN t PROVE Len(s) + i \in DOMAIN (s \o t) /\ (s \o t)[Len(s) + i] = t[i]
  <2>1. /\ i \in 1..Len(t) /\ Len(s) + i \in 1..(Len(s) + Len(t)) /\ ~(Len(s) + i <= Len(s))
        /\ (Len(s) + i) - Len(s) = i
    BY <1>2
  <2> QED
    BY <1>1, <1>2, <2>1
<1>5. ASSUME NEW k \in DOMAIN (s \o t) PROVE (s \o t)[k] \in Range(s) \/ (s \o t)[k] \in Range(t)
  <2>1. CASE k <= Len(s)
    BY <1>1, <1>2, <2>1 DEF Range
  <2>2. CASE ~(k <= Len(s))
    <3>1. k - Len(s) \in DOMAIN t /\ (s \o t)[k] = t[k - Len(s)]
      BY <1>1, <1>2, <2>2
    <3> QED
      BY <3>1 DEF Range
  <2> QED
    BY <2>1, <2>2
<1> QED
  BY <1>3, <1>4, <1>5 DEF Range

(* What FlattenSeq computes, for the first n sequences.                    *)
IsFlat(g, seqs, n) ==
  g = [i \in 1..n |-> IF i = 1 THEN seqs[i] ELSE g[i - 1] \o seqs[i]]

LEMMA FlatExists ==
  ASSUME NEW seqs, NEW n \in Nat
  PROVE  \E g : IsFlat(g, seqs, n)
<1> DEFINE S == {m \in Nat : \E g : IsFlat(g, seqs, m)}
<1>1. 0 \in S
  <2>1. IsFlat([i \in 1..0 |-> seqs[i]], seqs, 0)
    BY DEF IsFlat
  <2> QED
    BY <2>1
<1>2. ASSUME NEW m \in S PROVE m + 1 \in S
  <2>1. PICK g : IsFlat(g, seqs, m)
    BY <1>2
  <2> DEFINE h == [i \in 1..(m + 1) |-> IF i = 1 THEN seqs[i] ELSE g[i - 1] \o seqs[i]]
  <2>0. m \in Nat
    BY <1>2
  <2> HIDE DEF S
  <2>2. ASSUME NEW i \in 1..m PROVE h[i] = g[i]
    <3>1. g[i] = IF i = 1 THEN seqs[i] ELSE g[i - 1] \o seqs[i]
      BY <2>1 DEF IsFlat
    <3>2. i \in 1..(m + 1)
      BY <2>0
    <3> QED
      BY <3>1, <3>2
  <2>3. ASSUME NEW i \in 1..(m + 1), i # 1 PROVE h[i - 1] = g[i - 1]
    <3>1. i - 1 \in 1..m
      BY <2>0, <2>3
    <3> HIDE DEF h
    <3> QED
      BY <2>2, <3>1
  <2>4. IsFlat(h, seqs, m + 1)
    BY <2>3 DEF IsFlat
  <2> HIDE DEF h
  <2> QED
    BY <2>0, <2>4 DEF S
<1> HIDE DEF S
<1>3. n \in S
  <2>1. S \subseteq Nat
    BY DEF S
  <2> QED
    BY <1>1, <1>2, <2>1, SetInduction
<1> QED
  BY <1>3 DEF S

LEMMA FlattenParts ==
  ASSUME NEW T, NEW seqs \in Seq(Seq(T))
  PROVE  /\ FlattenSeq(seqs) \in Seq(T)
         /\ \A x : x \in Range(FlattenSeq(seqs)) <=> \E i \in DOMAIN seqs : x \in Range(seqs[i])
<1>0. /\ Len(seqs) \in Nat /\ DOMAIN seqs = 1..Len(seqs)
      /\ \A i \in 1..Len(seqs) : seqs[i] \in Seq(T)
  BY LenProperties, ElementOfSeq
<1>1. CASE Len(seqs) = 0
  <2>1. FlattenSeq(seqs) = seqs /\ DOMAIN seqs = {}
    BY <1>0, <1>1 DEF FlattenSeq
  <2>2. seqs = <<>>
    BY <1>1, EmptySeq
  <2>3. <<>> \in Seq(T)
    BY EmptySeq
  <2> QED
    BY <2>1, <2>2, <2>3 DEF Range
<1>2. CASE Len(seqs) # 0
  <2> DEFINE G == CHOOSE g : IsFlat(g, seqs, Len(seqs))
  <2>1. IsFlat(G, seqs, Len(seqs))
    BY <1>0, FlatExists
  <2>2. FlattenSeq(seqs) = G[Len(seqs)]
    BY <1>2 DEF FlattenSeq, IsFlat
  <2> HIDE DEF G
  <2> DEFINE Laid(n) ==
               /\ G[n] \in Seq(T)
               /\ \A x : x \in Range(G[n]) <=> \E i \in 1..n : x \in Range(seqs[i])
             S == {n \in Nat : n + 1 <= Len(seqs) => Laid(n + 1)}
  <2>3. 0 \in S
    <3>1. G[1] = seqs[1] /\ 1 \in 1..Len(seqs)
      BY <1>0, <1>2, <2>1 DEF IsFlat
    <3>2. Laid(1)
      BY <1>0, <3>1
    <3> QED
      BY <3>2
  <2>4. ASSUME NEW m \in S PROVE m + 1 \in S
    <3> SUFFICES ASSUME m + 2 <= Len(seqs) PROVE Laid(m + 2)
      OBVIOUS
    <3>1. m \in Nat /\ Laid(m + 1) /\ m + 2 \in 1..Len(seqs) /\ m + 1 \in 1..Len(seqs)
      <4> HIDE DEF Laid
      <4>1. m \in Nat /\ (m + 1 <= Len(seqs) => Laid(m + 1))
        BY <2>4
      <4> QED
        BY <1>0, <4>1
    <3>2. G[m + 2] = G[m + 1] \o seqs[m + 2]
      <4>1. (m + 2) - 1 = m + 1 /\ m + 2 # 1
        BY <3>1
      <4> QED
        BY <2>1, <3>1, <4>1 DEF IsFlat
    <3>3. seqs[m + 2] \in Seq(T)
      BY <1>0, <3>1
    <3>4. G[m + 2] \in Seq(T)
      BY <3>1, <3>2, <3>3, ConcatProperties
    <3>5. \A x : x \in Range(G[m + 2]) <=> x \in Range(G[m + 1]) \/ x \in Range(seqs[m + 2])
      BY <3>1, <3>2, <3>3, ConcatRange
    <3>6. 1..(m + 2) = 1..(m + 1) \cup {m + 2}
      BY <3>1
    <3>7. \A x : x \in Range(G[m + 2]) <=> \E i \in 1..(m + 2) : x \in Range(seqs[i])
      BY <3>1, <3>5, <3>6
    <3> QED
      BY <3>4, <3>7
  <2>5. Len(seqs) - 1 \in S
    <3> HIDE DEF Laid
    <3>1. S \subseteq Nat
      OBVIOUS
    <3> HIDE DEF S
    <3>2. \A n \in Nat : n \in S
      BY <2>3, <2>4, <3>1, SetInduction
    <3> QED
      BY <1>0, <1>2, <3>2
  <2>6. Laid(Len(seqs))
    <3> HIDE DEF Laid
    <3>1. (Len(seqs) - 1) + 1 = Len(seqs)
      BY <1>0
    <3> QED
      BY <1>0, <2>5, <3>1
  <2> QED
    BY <1>0, <2>2, <2>6
<1> QED
  BY <1>1, <1>2

-------------------------------------------------------------------------------
(* Prefixes.                                                               *)

LEMMA PrefixIs ==
  ASSUME NEW T, NEW p \in Seq(T), NEW q \in Seq(T)
  PROVE  IsPrefix(p, q) <=> Len(p) <= Len(q) /\ \A i \in 1..Len(p) : p[i] = q[i]
<1>1. Len(p) \in Nat /\ Len(q) \in Nat
  BY LenProperties
<1>2. SubSeq(p, 1, Len(p)) = [i \in 1..Len(p) |-> p[i]]
  BY <1>1
<1>3. SubSeq(q, 1, Len(p)) = [i \in 1..Len(p) |-> q[i]]
  BY <1>1
<1> QED
  BY <1>2, <1>3 DEF IsPrefix

LEMMA PrefixEqual ==
  ASSUME NEW T, NEW p \in Seq(T), NEW q \in Seq(T), IsPrefix(p, q), Len(q) <= Len(p)
  PROVE  p = q
<1>1. Len(p) \in Nat /\ Len(q) \in Nat
  BY LenProperties
<1>2. Len(p) <= Len(q) /\ \A i \in 1..Len(p) : p[i] = q[i]
  BY PrefixIs
<1> QED
  BY <1>1, <1>2, SeqEqual

LEMMA PrefixesMeet ==
  ASSUME NEW T, NEW p \in Seq(T), NEW q \in Seq(T), NEW r \in Seq(T),
         IsPrefix(p, r), IsPrefix(q, r), Len(p) <= Len(q)
  PROVE  IsPrefix(p, q)
<1>1. Len(p) \in Nat /\ Len(q) \in Nat /\ Len(r) \in Nat
  BY LenProperties
<1>2. \A i \in 1..Len(p) : p[i] = r[i]
  BY PrefixIs
<1>3. \A i \in 1..Len(q) : q[i] = r[i]
  BY PrefixIs
<1>4. ASSUME NEW i \in 1..Len(p) PROVE p[i] = q[i]
  <2>1. i \in 1..Len(q)
    BY <1>1
  <2> QED
    BY <1>2, <1>3, <2>1
<1> QED
  BY <1>4, PrefixIs

LEMMA PrefixTransitive ==
  ASSUME NEW T, NEW p \in Seq(T), NEW q \in Seq(T), NEW r \in Seq(T),
         IsPrefix(p, q), IsPrefix(q, r)
  PROVE  IsPrefix(p, r)
<1>1. Len(p) \in Nat /\ Len(q) \in Nat /\ Len(r) \in Nat
  BY LenProperties
<1>2. Len(p) <= Len(q) /\ \A i \in 1..Len(p) : p[i] = q[i]
  BY PrefixIs
<1>3. Len(q) <= Len(r) /\ \A i \in 1..Len(q) : q[i] = r[i]
  BY PrefixIs
<1>4. ASSUME NEW i \in 1..Len(p) PROVE p[i] = r[i]
  <2>1. i \in 1..Len(q)
    BY <1>1, <1>2
  <2> QED
    BY <1>2, <1>3, <2>1
<1>5. Len(p) <= Len(r)
  BY <1>1, <1>2, <1>3
<1> QED
  BY <1>4, <1>5, PrefixIs

(* The first places of a sequence.                                         *)
LEMMA Cutting ==
  ASSUME NEW T, NEW q \in Seq(T), NEW n \in 0..Len(q)
  PROVE  /\ SubSeq(q, 1, n) \in Seq(T) /\ Len(SubSeq(q, 1, n)) = n
         /\ IsPrefix(SubSeq(q, 1, n), q)
<1> DEFINE p == SubSeq(q, 1, n)
<1>1. Len(q) \in Nat /\ n \in Nat /\ n <= Len(q)
  BY LenProperties
<1>2. p = [i \in 1..n |-> q[i]]
  BY <1>1
<1>3. \A i \in 1..n : q[i] \in T
  BY <1>1, ElementOfSeq
<1>4. p \in [1..n -> T] /\ \A i \in 1..n : p[i] = q[i]
  BY <1>2, <1>3
<1> HIDE DEF p
<1>5. p \in Seq(T) /\ Len(p) = n
  BY <1>1, <1>4, AsSequence
<1>6. IsPrefix(p, q)
  BY <1>1, <1>4, <1>5, PrefixIs
<1> QED
  BY <1>5, <1>6 DEF p

LEMMA PrefixCuts ==
  ASSUME NEW T, NEW p \in Seq(T), NEW q \in Seq(T), IsPrefix(p, q)
  PROVE  Len(p) \in 0..Len(q) /\ p = SubSeq(q, 1, Len(p))
<1>1. Len(p) \in Nat /\ Len(q) \in Nat /\ Len(p) <= Len(q)
  BY LenProperties DEF IsPrefix
<1> DEFINE u == SubSeq(q, 1, Len(p))
<1>2. u \in Seq(T) /\ Len(u) = Len(p) /\ IsPrefix(u, q)
  BY <1>1, Cutting
<1> HIDE DEF u
<1>3. Len(p) <= Len(u) /\ Len(u) <= Len(p)
  BY <1>1, <1>2
<1>4. IsPrefix(p, u)
  BY <1>2, <1>3, PrefixesMeet
<1>5. p = u
  BY <1>2, <1>3, <1>4, PrefixEqual
<1> QED
  BY <1>1, <1>5 DEF u

(* Of some sequences, the longest common prefix is a prefix of each, and   *)
(* every other common prefix is a prefix of it.                            *)
Shared(Q, p) == \A q \in Q : IsPrefix(p, q)

LEMMA LongestShared ==
  ASSUME NEW T, NEW Q \in SUBSET Seq(T), Q # {}
  PROVE  /\ LongestCommonPrefix(Q) \in Seq(T) /\ Shared(Q, LongestCommonPrefix(Q))
         /\ \A p \in Seq(T) : Shared(Q, p) => IsPrefix(p, LongestCommonPrefix(Q))
<1> DEFINE C == CommonPrefixes(Q)
           long == LongestCommonPrefix(Q)
<1>1. \A p : p \in C <=> p \in Seq(T) /\ Shared(Q, p)
  <2>1. ASSUME NEW p \in C PROVE p \in Seq(T) /\ Shared(Q, p)
    <3>1. Shared(Q, p) /\ \E q \in Q : p \in Prefixes(q)
      BY DEF CommonPrefixes, Shared
    <3>2. PICK q \in Q : p \in Prefixes(q)
      BY <3>1
    <3>3. PICK n \in 0..Len(q) : p = SubSeq(q, 1, n)
      BY <3>2 DEF Prefixes
    <3> QED
      BY <3>1, <3>3, Cutting
  <2>2. ASSUME NEW p \in Seq(T), Shared(Q, p) PROVE p \in C
    <3>1. PICK q \in Q : TRUE
      OBVIOUS
    <3>2. p \in Prefixes(q)
      BY <2>2, <3>1, PrefixCuts DEF Shared, Prefixes
    <3> QED
      BY <2>2, <3>1, <3>2 DEF CommonPrefixes, Shared
  <2> QED
    BY <2>1, <2>2
<1>2. PICK q0 \in Q : TRUE
  OBVIOUS
<1>3. \A p \in C : Len(p) \in Nat /\ Len(q0) \in Nat /\ Len(p) <= Len(q0)
  BY <1>1, LenProperties DEF Shared, IsPrefix
<1>4. <<>> \in C
  <2> DEFINE e == <<>>
  <2>1. e \in Seq(T) /\ Len(e) = 0
    BY EmptySeq
  <2> HIDE DEF e
  <2>2. ASSUME NEW q \in Q PROVE IsPrefix(e, q)
    <3>1. q \in Seq(T) /\ Len(q) \in Nat
      BY LenProperties
    <3>2. Len(e) <= Len(q) /\ \A i \in 1..Len(e) : e[i] = q[i]
      BY <2>1, <3>1
    <3> QED
      BY <2>1, <3>1, <3>2, PrefixIs
  <2>3. e \in C
    BY <1>1, <2>1, <2>2 DEF Shared
  <2> QED
    BY <2>3 DEF e
<1> HIDE DEF C
<1>5. \E p \in C : \A r \in C : Len(r) <= Len(p)
  <2> DEFINE D == {Len(q0) - Len(p) : p \in C}
  <2>1. D \subseteq Nat /\ D # {}
    BY <1>3, <1>4
  <2>2. PICK d \in D : \A e \in D : d <= e
    <3> HIDE DEF D
    <3> QED
      BY <2>1, LeastNumber
  <2>3. PICK p \in C : d = Len(q0) - Len(p)
    BY <2>2
  <2>4. ASSUME NEW r \in C PROVE Len(r) <= Len(p)
    <3>1. Len(q0) - Len(p) <= Len(q0) - Len(r)
      BY <2>2, <2>3
    <3> QED
      BY <1>3, <2>3, <3>1
  <2> QED
    BY <2>3, <2>4
<1>6. long \in C /\ \A r \in C : Len(r) <= Len(long)
  BY <1>5 DEF LongestCommonPrefix, C
<1> HIDE DEF long
<1>7. ASSUME NEW p \in Seq(T), Shared(Q, p) PROVE IsPrefix(p, long)
  <2>1. p \in C
    BY <1>1, <1>7
  <2>2. long \in Seq(T) /\ q0 \in Seq(T) /\ IsPrefix(p, q0) /\ IsPrefix(long, q0) /\ Len(p) <= Len(long)
    BY <1>1, <1>2, <1>6, <1>7, <2>1 DEF Shared
  <2> QED
    BY <2>2, PrefixesMeet
<1> QED
  BY <1>1, <1>6, <1>7 DEF long

LEMMA LongestUnique ==
  ASSUME NEW T, NEW Q \in SUBSET Seq(T), Q # {}, NEW long \in Seq(T), Shared(Q, long),
         \A p \in Seq(T) : Shared(Q, p) => IsPrefix(p, long)
  PROVE  LongestCommonPrefix(Q) = long
<1> DEFINE other == LongestCommonPrefix(Q)
<1>1. other \in Seq(T) /\ IsPrefix(other, long) /\ IsPrefix(long, other)
  BY LongestShared
<1> HIDE DEF other
<1>2. Len(long) <= Len(other)
  BY <1>1 DEF IsPrefix
<1>3. other = long
  BY <1>1, <1>2, PrefixEqual
<1> QED
  BY <1>3 DEF other

LEMMA LongestOfOne ==
  ASSUME NEW T, NEW q \in Seq(T)
  PROVE  LongestCommonPrefix({q}) = q
<1>1. Len(q) \in Nat
  BY LenProperties
<1>2. IsPrefix(q, q)
  BY <1>1, PrefixIs
<1> QED
  BY <1>2, LongestUnique DEF Shared

(* One sequence more.                                                      *)
LEMMA LongestNext ==
  ASSUME NEW T, NEW Q \in SUBSET Seq(T), Q # {}, NEW q \in Seq(T)
  PROVE  LongestCommonPrefix({LongestCommonPrefix(Q), q}) = LongestCommonPrefix(Q \cup {q})
<1> DEFINE l == LongestCommonPrefix(Q)
           m == LongestCommonPrefix({l, q})
<1>1. /\ l \in Seq(T) /\ Shared(Q, l)
      /\ \A p \in Seq(T) : Shared(Q, p) => IsPrefix(p, l)
  BY LongestShared
<1> HIDE DEF l
<1>2. /\ m \in Seq(T) /\ Shared({l, q}, m)
      /\ \A p \in Seq(T) : Shared({l, q}, p) => IsPrefix(p, m)
  <2>1. {l, q} \subseteq Seq(T) /\ {l, q} # {}
    BY <1>1
  <2> QED
    BY <2>1, LongestShared
<1> HIDE DEF m
<1>3. Shared(Q \cup {q}, m)
  <2>1. ASSUME NEW r \in Q PROVE IsPrefix(m, r)
    <3>1. IsPrefix(m, l) /\ IsPrefix(l, r) /\ r \in Seq(T)
      BY <1>1, <1>2 DEF Shared
    <3> QED
      BY <1>1, <1>2, <3>1, PrefixTransitive
  <2> QED
    BY <1>2, <2>1 DEF Shared
<1>4. ASSUME NEW p \in Seq(T), Shared(Q \cup {q}, p) PROVE IsPrefix(p, m)
  <2>1. IsPrefix(p, l) /\ IsPrefix(p, q)
    BY <1>1, <1>4 DEF Shared
  <2> QED
    BY <1>2, <2>1 DEF Shared
<1>5. LongestCommonPrefix(Q \cup {q}) = m
  BY <1>2, <1>3, <1>4, LongestUnique
<1> QED
  BY <1>5 DEF l, m

-------------------------------------------------------------------------------
(* The anchor.                                                             *)

LEMMA FrontIs ==
  ASSUME NEW T, NEW q \in Seq(T), q # <<>>
  PROVE  Front(q) \in Seq(T) /\ Len(Front(q)) = Len(q) - 1 /\ IsPrefix(Front(q), q)
<1>1. Len(q) \in Nat \ {0}
  BY EmptySeq
<1>2. Len(q) - 1 \in 0..Len(q)
  BY <1>1
<1> QED
  BY <1>2, Cutting DEF Front

LEMMA TypeAtRoot ==
  ASSUME NEW t
  PROVE  TypeAt(t, <<>>) = t
<1> DEFINE next(x, k) == (CHOOSE f \in Selectable[x] : f.name = (<<>>)[k]).type
           IsAt(at) == at = [k \in 0..0 |-> IF k = 0 THEN t ELSE next(at[k - 1], k)]
           root == [k \in 0..0 |-> t]
<1> HIDE DEF next
<1>1. IsAt(root)
  OBVIOUS
<1>2. IsAt(CHOOSE at : IsAt(at))
  <2> HIDE DEF root, IsAt
  <2> QED
    BY <1>1
<1>3. (CHOOSE at : IsAt(at))[0] = t
  BY <1>2
<1>4. Len(<<>>) = 0
  BY EmptySeq
<1> QED
  BY <1>3, <1>4 DEF TypeAt, next

(* What the loop of anchor holds, for the first n fields.                  *)
IsNarrowed(acc, v, walk, n) ==
  acc = [k \in 0..n |->
           IF k = 0 THEN [first |-> TRUE, names |-> <<>>, at |-> VarType[v]]
           ELSE Narrow(v, acc[k - 1], walk[k])]

LEMMA NarrowedExists ==
  ASSUME NEW v, NEW walk, NEW n \in Nat
  PROVE  \E acc : IsNarrowed(acc, v, walk, n)
<1> DEFINE S == {m \in Nat : \E acc : IsNarrowed(acc, v, walk, m)}
           start == [first |-> TRUE, names |-> <<>>, at |-> VarType[v]]
<1>1. 0 \in S
  <2>1. IsNarrowed([i \in 0..0 |-> start], v, walk, 0)
    BY DEF IsNarrowed
  <2> QED
    BY <2>1
<1>2. ASSUME NEW m \in S PROVE m + 1 \in S
  <2>0. m \in Nat
    OBVIOUS
  <2>1. PICK f : IsNarrowed(f, v, walk, m)
    OBVIOUS
  <2> DEFINE step(i) == Narrow(v, f[i - 1], walk[i])
             g == [i \in 0..(m + 1) |-> IF i = 0 THEN start ELSE step(i)]
  <2> HIDE DEF S
  <2>2. ASSUME NEW i \in 0..m PROVE g[i] = f[i]
    <3>1. f[i] = IF i = 0 THEN start ELSE step(i)
      BY <2>1 DEF IsNarrowed
    <3>2. i \in 0..(m + 1)
      BY <2>0
    <3> HIDE DEF step, start
    <3> QED
      BY <3>1, <3>2
  <2>3. ASSUME NEW i \in 0..(m + 1), i # 0 PROVE g[i - 1] = f[i - 1]
    <3>1. i - 1 \in 0..m
      BY <2>0, <2>3
    <3> HIDE DEF g
    <3> QED
      BY <2>2, <3>1
  <2>4. \A i \in 0..(m + 1) : g[i] = IF i = 0 THEN start ELSE Narrow(v, g[i - 1], walk[i])
    <3> HIDE DEF start
    <3> QED
      BY <2>3
  <2>5. IsNarrowed(g, v, walk, m + 1)
    <3>1. g = [i \in 0..(m + 1) |-> g[i]]
      OBVIOUS
    <3> HIDE DEF g
    <3> QED
      BY <2>4, <3>1 DEF IsNarrowed
  <2> HIDE DEF g
  <2> QED
    BY <2>0, <2>5 DEF S
<1> HIDE DEF S
<1>3. S \subseteq Nat
  BY DEF S
<1>4. n \in S
  BY <1>1, <1>2, <1>3, SetInduction
<1> QED
  BY <1>4 DEF S

(* Whatever the order of the walk, the anchor is the longest path that the *)
(* parents of all the fields share.                                        *)
LEMMA AnchorShared ==
  ASSUME NEW v \in Var, NEW walk \in Seq(Seq(Name) \ {<<>>}), walk # <<>>
  PROVE  LET shared == LongestCommonPrefix({Front(walk[i]) : i \in 1..Len(walk)}) IN
         /\ AnchorAlong(v, walk).names = shared
         /\ AnchorAlong(v, walk).at = TypeAt(VarType[v], shared)
<1> DEFINE Q(n) == {Front(walk[i]) : i \in 1..n}
           G == CHOOSE acc : IsNarrowed(acc, v, walk, Len(walk))
           Laid(n) == G[n] = [first |-> FALSE, names |-> LongestCommonPrefix(Q(n)),
                              at |-> TypeAt(VarType[v], LongestCommonPrefix(Q(n)))]
           S == {n \in Nat : n \in 1..Len(walk) => Laid(n)}
<1>1. /\ Len(walk) \in Nat \ {0}
      /\ \A i \in 1..Len(walk) : walk[i] \in Seq(Name) \ {<<>>}
  BY EmptySeq, ElementOfSeq
<1>2. IsNarrowed(G, v, walk, Len(walk))
  BY <1>1, NarrowedExists
<1>3. AnchorAlong(v, walk) = G[Len(walk)]
  BY DEF AnchorAlong, IsNarrowed
<1> HIDE DEF G
<1>4. \A i \in 1..Len(walk) : /\ Front(walk[i]) \in Seq(Name)
                              /\ IsPrefix(Front(walk[i]), walk[i])
  BY <1>1, FrontIs
<1>5. G[0].first = TRUE /\ \A i \in 1..Len(walk) : G[i] = Narrow(v, G[i - 1], walk[i])
  <2>1. \A i \in 0..Len(walk) : G[i] = IF i = 0 THEN [first |-> TRUE, names |-> <<>>, at |-> VarType[v]]
                                       ELSE Narrow(v, G[i - 1], walk[i])
    BY <1>2 DEF IsNarrowed
  <2>2. 0 \in 0..Len(walk) /\ \A i \in 1..Len(walk) : i \in 0..Len(walk) /\ i # 0
    BY <1>1
  <2> QED
    BY <2>1, <2>2
(* The type at names is the type that the turn finds.                      *)
<1>6. ASSUME NEW i \in 1..Len(walk), NEW names \in Seq(Name), IsPrefix(names, Front(walk[i]))
      PROVE  (IF names = <<>> THEN VarType[v] ELSE TypeAt(VarType[v], SubSeq(walk[i], 1, Len(names))))
             = TypeAt(VarType[v], names)
  <2>1. IsPrefix(names, walk[i])
    BY <1>1, <1>4, <1>6, PrefixTransitive
  <2>2. names = SubSeq(walk[i], 1, Len(names))
    BY <1>1, <2>1, PrefixCuts
  <2> QED
    BY <2>2, TypeAtRoot
<1>10. ASSUME NEW U \in SUBSET Seq(Name), U # {}, NEW w \in Seq(Name)
       PROVE  LongestCommonPrefix({LongestCommonPrefix(U), w}) = LongestCommonPrefix(U \cup {w})
  BY ONLY U \in SUBSET Seq(Name), U # {}, w \in Seq(Name), LongestNext
<1>7. Laid(1)
  <2>1. 1 \in 1..Len(walk) /\ Q(1) = {Front(walk[1])}
    BY <1>1
  <2>2. LongestCommonPrefix(Q(1)) = Front(walk[1])
    BY <1>4, <2>1, LongestOfOne
  <2>3. G[1] = Narrow(v, G[0], walk[1]) /\ G[0].first
    <3>1. 1 - 1 = 0
      OBVIOUS
    <3> QED
      BY <1>5, <2>1, <3>1
  <2>4. Len(Front(walk[1])) \in Nat /\ IsPrefix(Front(walk[1]), Front(walk[1]))
    <3>1. Front(walk[1]) \in Seq(Name)
      BY <1>4, <2>1
    <3>2. Len(Front(walk[1])) \in Nat
      BY <3>1, LenProperties
    <3> QED
      BY <3>1, <3>2, PrefixIs
  <2>5. Laid(1)
    <3> DEFINE names == Front(walk[1])
    <3>1. (IF names = <<>> THEN VarType[v] ELSE TypeAt(VarType[v], SubSeq(walk[1], 1, Len(names))))
          = TypeAt(VarType[v], names)
      BY <1>4, <1>6, <2>1, <2>4
    <3>2. Narrow(v, G[0], walk[1])
          = [first |-> FALSE, names |-> names, at |-> TypeAt(VarType[v], names)]
      BY <2>3, <3>1 DEF Narrow
    <3> QED
      BY <2>2, <2>3, <3>2
  <2> QED
    BY <2>5
<1>8. ASSUME NEW m \in S, m # 0, m + 1 \in 1..Len(walk) PROVE Laid(m + 1)
  <2> DEFINE i == m + 1
             l == LongestCommonPrefix(Q(m))
             names == LongestCommonPrefix(Q(i))
  <2>1. m \in Nat /\ i \in 1..Len(walk) /\ i - 1 = m /\ Laid(m)
    <3> HIDE DEF Laid
    <3>1. m \in Nat /\ (m \in 1..Len(walk) => Laid(m))
      BY <1>8
    <3> QED
      BY <1>1, <1>8, <3>1
  <2>2. G[i] = Narrow(v, G[m], walk[i])
    BY <1>5, <2>1
  <2>3. G[m].first = FALSE /\ G[m].names = l
    BY <2>1
  <2>4. Q(m) \subseteq Seq(Name) /\ Q(m) # {} /\ Q(i) = Q(m) \cup {Front(walk[i])}
    <3>1. 1..(m + 1) = 1..m \cup {m + 1} /\ 1 \in 1..m /\ 1..m \subseteq 1..Len(walk)
      BY <1>1, <1>8, <2>1
    <3> QED
      BY <1>4, <3>1
  <2> HIDE DEF Laid
  <2>5. LongestCommonPrefix({l, Front(walk[i])}) = names
    <3>1. Front(walk[i]) \in Seq(Name)
      BY <1>4, <2>1
    <3> DEFINE U == Q(m)
               w == Front(walk[i])
    <3>2. Q(i) = U \cup {w}
      BY <2>4
    <3>4. U \in SUBSET Seq(Name) /\ U # {} /\ w \in Seq(Name)
      BY <2>4, <3>1
    <3> HIDE DEF U, w
    <3>3. LongestCommonPrefix({LongestCommonPrefix(U), w}) = LongestCommonPrefix(U \cup {w})
      BY ONLY <1>10, <3>4
    <3> QED
      BY <3>2, <3>3 DEF U, w
  <2>6. names \in Seq(Name) /\ IsPrefix(names, Front(walk[i]))
    <3>1. Front(walk[i]) \in Seq(Name)
      BY <1>4, <2>1
    <3>2. Q(i) \subseteq Seq(Name) /\ Q(i) # {} /\ Front(walk[i]) \in Q(i)
      BY <2>4, <3>1
    <3> HIDE DEF Q, i
    <3>3. names \in Seq(Name) /\ Shared(Q(i), names)
      BY <3>2, LongestShared
    <3> QED
      BY <3>2, <3>3 DEF Shared
  <2>7. (IF names = <<>> THEN VarType[v] ELSE TypeAt(VarType[v], SubSeq(walk[i], 1, Len(names))))
        = TypeAt(VarType[v], names)
    BY <1>6, <2>1, <2>6
  <2>8. Narrow(v, G[m], walk[i])
        = [first |-> FALSE, names |-> names, at |-> TypeAt(VarType[v], names)]
    <3> HIDE DEF names, l, i
    <3> QED
      BY <2>3, <2>5, <2>7 DEF Narrow
  <2> QED
    BY <2>2, <2>8 DEF Laid
<1>9. Laid(Len(walk))
  <2> HIDE DEF Laid
  <2>1. S \subseteq Nat /\ 0 \in S
    BY <1>1
  <2>2. ASSUME NEW m \in S PROVE m + 1 \in S
    BY <1>7, <1>8, <2>2
  <2>3. \A n \in Nat : n \in S
    <3> HIDE DEF S
    <3> QED
      BY <2>1, <2>2, SetInduction
  <2>4. Len(walk) \in S /\ Len(walk) \in 1..Len(walk)
    BY <1>1, <2>3
  <2> QED
    BY <2>4
<1> QED
  BY <1>3, <1>9

-------------------------------------------------------------------------------
(* The sites of a function.                                                *)

Asserts(site) == site.kind \in {"call", "if"}

(* The sites that contribute a field of v, those that compare it with the  *)
(* same field of another value, and those that index v.                    *)
Naming(v) == {site \in Site : Asserts(site) /\ Cardinality(Named(site)[v]) = 1}
Pairing(v) ==
  {site \in Naming(v) :
     \E w \in Var \ {v} : SameShape(VarType[v], VarType[w]) /\ Named(site)[w] = Named(site)[v]}
Indexing(v) ==
  {site \in Site : /\ Asserts(site)
                   /\ \E i \in Indexed(site) : site.operands[i].base = v
                   /\ \E i, j \in Indexed(site) : i # j}

(* Where the sites of a set stand, and the first place.                    *)
Hits(f, H) == {n \in DOMAIN f : f[n] \in H}
FirstOf(S) == IF S = {} THEN 0 ELSE CHOOSE n \in S : \A m \in S : n <= m

LEMMA Least ==
  ASSUME NEW S, S \subseteq Nat, S # {}
  PROVE  FirstOf(S) \in S /\ \A m \in S : FirstOf(S) <= m
<1>1. \E n \in S : \A m \in S : n <= m
  BY LeastNumber
<1> QED
  BY <1>1 DEF FirstOf

LEMMA LeastOnly ==
  ASSUME NEW S, S \subseteq Nat, NEW n \in S, \A m \in S : n <= m
  PROVE  FirstOf(S) = n
<1>1. FirstOf(S) \in S /\ FirstOf(S) <= n /\ n <= FirstOf(S)
  BY Least
<1>2. FirstOf(S) \in Nat /\ n \in Nat
  BY <1>1
<1> QED
  BY ONLY <1>1, <1>2

LEMMA Appending ==
  ASSUME NEW T, NEW s \in Seq(T), NEW e \in T
  PROVE  /\ Append(s, e) \in Seq(T) /\ Len(Append(s, e)) = Len(s) + 1 /\ Len(s) \in Nat
         /\ DOMAIN s = 1..Len(s) /\ DOMAIN Append(s, e) = 1..(Len(s) + 1)
         /\ \A i \in 1..Len(s) : Append(s, e)[i] = s[i]
         /\ Append(s, e)[Len(s) + 1] = e
<1>1. Append(s, e) \in Seq(T) /\ Len(Append(s, e)) = Len(s) + 1 /\ Len(s) \in Nat
  BY LenProperties
<1>2. DOMAIN s = 1..Len(s) /\ DOMAIN Append(s, e) = 1..(Len(s) + 1)
  BY <1>1, LenProperties
<1>3. \A i \in 1..Len(s) : Append(s, e)[i] = s[i]
  BY <1>1
<1>4. Append(s, e)[Len(s) + 1] = e
  BY <1>1
<1> QED
  BY <1>1, <1>2, <1>3, <1>4

LEMMA HitsTyped ==
  ASSUME NEW f \in Seq(Site), NEW H
  PROVE  /\ Hits(f, H) \subseteq 1..Len(f) /\ Hits(f, H) \subseteq Nat /\ Len(f) \in Nat
         /\ IsFiniteSet(Hits(f, H)) /\ Cardinality(Hits(f, H)) \in 0..Len(f)
         /\ FirstOf(Hits(f, H)) \in 0..Len(f)
         /\ FirstOf(Hits(f, H)) = 0 <=> Hits(f, H) = {}
<1>1. Hits(f, H) \subseteq 1..Len(f) /\ Len(f) \in Nat
  BY LenProperties DEF Hits
<1>2. IsFiniteSet(1..Len(f)) /\ Cardinality(1..Len(f)) = Len(f)
  <2> DEFINE n == Len(f)
  <2>1. n \in Nat
    BY <1>1
  <2> HIDE DEF n
  <2>2. n \in Int /\ 1 \in Int
    BY <2>1
  <2>3. IsFiniteSet(1..n) /\ Cardinality(1..n) = IF 1 > n THEN 0 ELSE n - 1 + 1
    BY ONLY <2>2, FS_Interval
  <2>4. Cardinality(1..n) = n
    BY <2>1, <2>3
  <2> QED
    BY <2>3, <2>4 DEF n
<1> DEFINE S == Hits(f, H)
<1> HIDE DEF S
<1>3. IsFiniteSet(S) /\ Cardinality(S) <= Len(f) /\ Cardinality(S) \in Nat
  <2>1. S \in SUBSET (1..Len(f))
    BY <1>1 DEF S
  <2>2. IsFiniteSet(S) /\ Cardinality(S) <= Len(f)
    BY <1>2, <2>1, FS_Subset
  <2> QED
    BY <2>2, FS_CardinalityType
<1>4. S # {} => FirstOf(S) \in S
  BY <1>1, Least DEF S
<1>5. S = {} => FirstOf(S) = 0
  BY DEF FirstOf
<1> QED
  BY <1>1, <1>3, <1>4, <1>5 DEF S

LEMMA HitsAppend ==
  ASSUME NEW f \in Seq(Site), NEW site \in Site, NEW H
  PROVE  LET S == Hits(f, H)
             U == Hits(Append(f, site), H)
             n == Len(f) + 1 IN
         /\ U = IF site \in H THEN S \cup {n} ELSE S
         /\ Cardinality(U) = Cardinality(S) + (IF site \in H THEN 1 ELSE 0)
         /\ FirstOf(U) = IF S = {} /\ site \in H THEN n ELSE FirstOf(S)
<1> DEFINE S == Hits(f, H)
           U == Hits(Append(f, site), H)
           n == Len(f) + 1
           g == Append(f, site)
<1>1. /\ Len(f) \in Nat /\ DOMAIN f = 1..Len(f) /\ DOMAIN g = 1..n
      /\ \A i \in 1..Len(f) : g[i] = f[i]
      /\ g[n] = site
  BY Appending
<1>2. S \subseteq 1..Len(f) /\ S \subseteq Nat /\ IsFiniteSet(S) /\ Cardinality(S) \in Nat
  BY HitsTyped
<1>3. U = IF site \in H THEN S \cup {n} ELSE S
  <2> HIDE DEF g
  <2>1. 1..n = 1..Len(f) \cup {n}
    BY <1>1
  <2>2. U = {i \in 1..n : g[i] \in H}
    BY <1>1 DEF Hits, g
  <2>3. S = {i \in 1..Len(f) : f[i] \in H}
    BY <1>1 DEF Hits
  <2> HIDE DEF U, S, n
  <2> QED
    BY <1>1, <2>1, <2>2, <2>3
<1> HIDE DEF S, U
<1>4. n \notin S /\ n \in Nat
  BY <1>1, <1>2
<1>5. Cardinality(U) = Cardinality(S) + (IF site \in H THEN 1 ELSE 0)
  <2>1. CASE site \in H
    BY <1>2, <1>3, <1>4, <2>1, FS_AddElement
  <2>2. CASE site \notin H
    BY <1>2, <1>3, <2>2
  <2> QED
    BY <2>1, <2>2
<1>6. FirstOf(U) = IF S = {} /\ site \in H THEN n ELSE FirstOf(S)
  <2>1. CASE S = {} /\ site \in H
    <3>1. U = {n}
      BY <1>3, <2>1
    <3>2. n \in U /\ U \subseteq Nat /\ \A m \in U : n <= m
      BY <1>4, <3>1
    <3> QED
      BY <2>1, <3>2, LeastOnly
  <2>2. CASE S # {} /\ site \in H
    <3>1. FirstOf(S) \in S /\ \A m \in S : FirstOf(S) <= m
      BY <1>2, <2>2, Least
    <3>2. FirstOf(S) <= n
      <4>1. FirstOf(S) \in 1..Len(f)
        BY <1>2, <3>1
      <4> QED
        BY ONLY <1>1, <4>1 DEF n
    <3>3. U = S \cup {n} /\ U \subseteq Nat
      BY <1>2, <1>3, <1>4, <2>2
    <3>4. FirstOf(U) = FirstOf(S)
      BY <3>1, <3>2, <3>3, LeastOnly
    <3> QED
      BY <2>2, <3>4
  <2>3. CASE site \notin H
    BY <1>3, <2>3
  <2> QED
    BY <2>1, <2>2, <2>3
<1> QED
  BY <1>3, <1>5, <1>6 DEF S, U

LEMMA SiteTyped ==
  ASSUME NEW site \in Site
  PROVE  /\ Len(site.operands) \in Nat /\ DOMAIN site.operands = 1..Len(site.operands)
         /\ IsFiniteSet(DOMAIN site.operands)
         /\ Chains(site) \subseteq DOMAIN site.operands /\ Indexed(site) \subseteq DOMAIN site.operands
         /\ \A i \in Chains(site) : /\ site.operands[i].base \in Var
                                    /\ Path(site.operands[i]) \in Seq(Name) \ {<<>>}
         /\ \A i \in Indexed(site) : site.operands[i].base \in Var
<1> DEFINE Operand == [form : {"chain"}, base : Var, selectors : Seq(Name)]
                      \cup [form : {"element"}, base : Var]
                      \cup [form : {"literal"}, type : Type, size : Nat]
           ops == site.operands
<1>1. ops \in Seq(Operand) /\ \A i \in Chains(site) : Path(ops[i]) \in Seq(Name) \ {<<>>}
  BY SiteAssumption
<1> HIDE DEF ops
<1>2. Len(ops) \in Nat /\ DOMAIN ops = 1..Len(ops) /\ \A i \in 1..Len(ops) : ops[i] \in Operand
  <2> HIDE DEF Operand
  <2> QED
    BY <1>1, LenProperties, ElementOfSeq
<1>3. IsFiniteSet(DOMAIN ops)
  BY <1>2, FS_Interval
<1>4. \A x \in Operand : x.form \in {"chain", "element"} => x.base \in Var
  OBVIOUS
<1> HIDE DEF Operand
<1>5. Chains(site) \subseteq DOMAIN ops /\ Indexed(site) \subseteq DOMAIN ops
      /\ (\A i \in Chains(site) : ops[i].form = "chain")
      /\ (\A i \in Indexed(site) : ops[i].form = "element")
  BY DEF Chains, Indexed, ops
<1>6. \A i \in Chains(site) : ops[i].base \in Var
  BY <1>2, <1>4, <1>5
<1>7. \A i \in Indexed(site) : ops[i].base \in Var
  BY <1>2, <1>4, <1>5
<1> QED
  BY <1>1, <1>2, <1>3, <1>5, <1>6, <1>7 DEF ops

(* The paths that a site names are finitely many.                          *)
LEMMA NamedTyped ==
  ASSUME NEW site \in Site, NEW v \in Var
  PROVE  /\ Named(site)[v] \subseteq Seq(Name) \ {<<>>} /\ IsFiniteSet(Named(site)[v])
         /\ Named(site)[v] # {} => \E i \in Chains(site) : site.operands[i].base = v
<1> DEFINE I == {j \in Chains(site) : site.operands[j].base = v}
           N == Named(site)[v]
           h == [i \in I |-> Path(site.operands[i])]
<1>1. N = {Path(site.operands[i]) : i \in I}
  BY DEF Named, NamedBy
<1>2. I \in SUBSET DOMAIN site.operands /\ IsFiniteSet(DOMAIN site.operands)
      /\ \A i \in I : Path(site.operands[i]) \in Seq(Name) \ {<<>>}
  BY SiteTyped
<1>3. IsFiniteSet(I)
  <2> HIDE DEF I
  <2> QED
    BY <1>2, FS_Subset
<1>4. h \in Surjection(I, N)
  <2> HIDE DEF I, N
  <2>1. h \in [I -> N] /\ \A x \in N : \E i \in I : h[i] = x
    BY <1>1
  <2> HIDE DEF h
  <2> QED
    BY <2>1 DEF Surjection
<1>5. IsFiniteSet(N)
  <2> HIDE DEF I, N, h
  <2> QED
    BY <1>3, <1>4, FS_Surjection
<1>6. N \subseteq Seq(Name) \ {<<>>} /\ (N # {} => I # {})
  <2> HIDE DEF I, N
  <2> QED
    BY <1>1, <1>2
<1> QED
  BY <1>5, <1>6


-------------------------------------------------------------------------------
(* The order in which bases appear.                                        *)

IsJoined(out, seq, site, which, new, n) ==
  out = [i \in 0..n |->
           IF i = 0 THEN seq
           ELSE IF /\ i \in which /\ site.operands[i].base \in new
                   /\ ~Contains(out[i - 1], site.operands[i].base)
           THEN Append(out[i - 1], site.operands[i].base) ELSE out[i - 1]]

LEMMA JoinedExists ==
  ASSUME NEW seq, NEW site, NEW which, NEW new, NEW n \in Nat
  PROVE  \E out : IsJoined(out, seq, site, which, new, n)
<1> DEFINE S == {m \in Nat : \E out : IsJoined(out, seq, site, which, new, m)}
           next(s, i) == IF /\ i \in which /\ site.operands[i].base \in new
                            /\ ~Contains(s, site.operands[i].base)
                         THEN Append(s, site.operands[i].base) ELSE s
           IsJoin(out, m) == out = [i \in 0..m |-> IF i = 0 THEN seq ELSE next(out[i - 1], i)]
<1>0. \A out, m : IsJoined(out, seq, site, which, new, m) <=> IsJoin(out, m)
  BY DEF IsJoined
<1> HIDE DEF next
<1>1. 0 \in S
  <2>1. IsJoin([i \in 0..0 |-> seq], 0)
    OBVIOUS
  <2> HIDE DEF IsJoin
  <2> QED
    BY <1>0, <2>1
<1>2. ASSUME NEW m \in S PROVE m + 1 \in S
  <2>0. m \in Nat
    OBVIOUS
  <2>1. PICK f : IsJoin(f, m)
    <3> HIDE DEF IsJoin
    <3> QED
      BY <1>0
  <2> DEFINE g == [i \in 0..(m + 1) |-> IF i = 0 THEN seq ELSE next(f[i - 1], i)]
  <2> HIDE DEF S
  <2>2. ASSUME NEW i \in 0..m PROVE g[i] = f[i]
    <3>1. f[i] = IF i = 0 THEN seq ELSE next(f[i - 1], i)
      BY <2>1
    <3>2. i \in 0..(m + 1)
      BY <2>0
    <3> QED
      BY <3>1, <3>2
  <2>3. ASSUME NEW i \in 0..(m + 1), i # 0 PROVE g[i - 1] = f[i - 1]
    <3>1. i - 1 \in 0..m
      BY <2>0, <2>3
    <3> HIDE DEF g
    <3> QED
      BY <2>2, <3>1
  <2>4. \A i \in 0..(m + 1) : g[i] = IF i = 0 THEN seq ELSE next(g[i - 1], i)
    BY <2>3
  <2>5. IsJoin(g, m + 1)
    <3>1. g = [i \in 0..(m + 1) |-> g[i]]
      OBVIOUS
    <3> HIDE DEF g
    <3> QED
      BY <2>4, <3>1
  <2> HIDE DEF g, IsJoin
  <2> QED
    BY <1>0, <2>0, <2>5 DEF S
<1> HIDE DEF S
<1>3. S \subseteq Nat
  BY DEF S
<1>4. n \in S
  BY <1>1, <1>2, <1>3, SetInduction
<1> QED
  BY <1>4 DEF S

LEMMA AppendNew ==
  ASSUME NEW T, NEW s \in Seq(T), IsInjective(s), NEW e \in T, e \notin Range(s)
  PROVE  /\ Append(s, e) \in Seq(T) /\ IsInjective(Append(s, e))
         /\ Range(Append(s, e)) = Range(s) \cup {e}
<1> DEFINE g == Append(s, e)
           n == Len(s) + 1
<1>1. /\ g \in Seq(T) /\ Len(s) \in Nat /\ DOMAIN s = 1..Len(s) /\ DOMAIN g = 1..n
      /\ \A i \in 1..Len(s) : g[i] = s[i]
      /\ g[n] = e
  BY Appending
<1> HIDE DEF g
<1>2. 1..n = 1..Len(s) \cup {n} /\ n \notin 1..Len(s)
  BY <1>1
<1> HIDE DEF n
<1>3. \A i \in 1..Len(s) : s[i] # e
  BY <1>1 DEF Range
<1>4. IsInjective(g)
  <2> SUFFICES ASSUME NEW a \in DOMAIN g, NEW b \in DOMAIN g, g[a] = g[b] PROVE a = b
    BY DEF IsInjective
  <2>1. CASE a \in 1..Len(s) /\ b \in 1..Len(s)
    BY <1>1, <2>1 DEF IsInjective
  <2>2. CASE a = n \/ b = n
    BY <1>1, <1>2, <1>3, <2>2
  <2> QED
    BY <1>1, <1>2, <2>1, <2>2
<1>5. Range(g) = Range(s) \cup {e}
  BY <1>1, <1>2 DEF Range
<1> QED
  BY <1>1, <1>4, <1>5 DEF g

LEMMA JoinedIs ==
  ASSUME NEW seq \in Seq(Var), IsInjective(seq), NEW site \in Site,
         NEW which \in SUBSET (DOMAIN site.operands),
         \A i \in which : site.operands[i].base \in Var, NEW new
  PROVE  LET out == Joined(seq, site, which, new) IN
         /\ out \in Seq(Var) /\ IsInjective(out)
         /\ \A v : v \in Range(out) <=>
              v \in Range(seq) \/ (v \in new /\ \E i \in which : site.operands[i].base = v)
<1> DEFINE G == CHOOSE out : IsJoined(out, seq, site, which, new, Len(site.operands))
           base(i) == site.operands[i].base
           Laid(n) ==
             /\ G[n] \in Seq(Var) /\ IsInjective(G[n])
             /\ \A v : v \in Range(G[n]) <=>
                  v \in Range(seq) \/ (v \in new /\ \E i \in which : i <= n /\ base(i) = v)
           S == {n \in Nat : n <= Len(site.operands) => Laid(n)}
<1>1. /\ Len(site.operands) \in Nat /\ DOMAIN site.operands = 1..Len(site.operands)
      /\ which \subseteq 1..Len(site.operands)
      /\ \A i \in which : base(i) \in Var
  BY SiteTyped
<1>2. IsJoined(G, seq, site, which, new, Len(site.operands))
  <2> HIDE DEF base
  <2> QED
    BY <1>1, JoinedExists
<1>3. Joined(seq, site, which, new) = G[Len(site.operands)]
  BY DEF Joined, IsJoined
<1> HIDE DEF G
<1>4. \A i \in 0..Len(site.operands) :
        G[i] = IF i = 0 THEN seq
               ELSE IF i \in which /\ base(i) \in new /\ ~Contains(G[i - 1], base(i))
               THEN Append(G[i - 1], base(i)) ELSE G[i - 1]
  BY <1>2 DEF IsJoined
<1> HIDE DEF base
<1>5. 0 \in S
  <2>1. G[0] = seq
    BY <1>1, <1>4
  <2>2. \A i \in which : ~(i <= 0)
    BY <1>1
  <2> QED
    BY <2>1, <2>2
<1>6. ASSUME NEW m \in S, m + 1 <= Len(site.operands) PROVE Laid(m + 1)
  <2> DEFINE i == m + 1
  <2>1. m \in Nat /\ Laid(m)
    <3> HIDE DEF Laid
    <3>1. m \in Nat /\ (m <= Len(site.operands) => Laid(m))
      OBVIOUS
    <3> QED
      BY <1>1, <1>6, <3>1
  <2>2. G[i] = IF i \in which /\ base(i) \in new /\ ~Contains(G[m], base(i))
               THEN Append(G[m], base(i)) ELSE G[m]
    <3>1. i \in 0..Len(site.operands) /\ i # 0 /\ i - 1 = m
      BY <1>1, <1>6, <2>1
    <3> HIDE DEF i
    <3> QED
      BY <1>4, <3>1
  <2>3. \A j \in which : j <= i <=> j <= m \/ j = i
    BY <1>1, <2>1
  <2>4. \A e : Contains(G[m], e) <=> e \in Range(G[m])
    <3>1. DOMAIN G[m] = 1..Len(G[m])
      BY <2>1, LenProperties
    <3> QED
      BY <3>1 DEF Contains, Range
  <2>5. \A v : (\E j \in which : j <= i /\ base(j) = v)
               <=> (\E j \in which : j <= m /\ base(j) = v) \/ (i \in which /\ base(i) = v)
    <3> HIDE DEF i
    <3>1. i \in which => i <= i
      BY <1>1
    <3> QED
      BY <2>3, <3>1
  <2> HIDE DEF i
  <2>6. CASE i \in which /\ base(i) \in new /\ base(i) \notin Range(G[m])
    <3>1. base(i) \in Var /\ G[i] = Append(G[m], base(i))
      BY <1>1, <2>2, <2>4, <2>6
    <3>2. /\ G[i] \in Seq(Var) /\ IsInjective(G[i])
          /\ Range(G[i]) = Range(G[m]) \cup {base(i)}
      BY <2>1, <2>6, <3>1, AppendNew
    <3>3. Laid(i)
      BY <2>1, <2>5, <2>6, <3>2
    <3> QED
      BY <3>3 DEF i
  <2>7. CASE ~(i \in which /\ base(i) \in new /\ base(i) \notin Range(G[m]))
    <3>1. G[i] = G[m]
      BY <2>2, <2>4, <2>7
    <3>2. Laid(i)
      BY <2>1, <2>5, <2>7, <3>1
    <3> QED
      BY <3>2 DEF i
  <2> QED
    BY <2>6, <2>7
<1>7. Laid(Len(site.operands))
  <2> HIDE DEF Laid
  <2>1. S \subseteq Nat /\ \A m \in S : m + 1 \in S
    BY <1>6
  <2>2. \A n \in Nat : n \in S
    <3> HIDE DEF S
    <3> QED
      BY <1>5, <2>1, SetInduction
  <2>3. Len(site.operands) \in S /\ Len(site.operands) <= Len(site.operands)
    BY <1>1, <2>2
  <2> QED
    BY <2>3
<1>8. \A i \in which : i <= Len(site.operands)
  BY <1>1
<1> QED
  BY <1>3, <1>7, <1>8 DEF base

-------------------------------------------------------------------------------
(* The inductive invariant: what the inspector has collected is a function *)
(* of the sites, and so are the reports at the end.                        *)

Contributed(f, v) == UNION {Named(f[n])[v] : n \in Hits(f, Naming(v))}

RunOf(f, v) ==
  [fields    |-> Contributed(f, v),
   first     |-> FirstOf(Hits(f, Naming(v))),
   roundtrip |-> Cardinality(Hits(f, Pairing(v)))]

ElementsOf(f, v) ==
  [count |-> Cardinality(Hits(f, Indexing(v))), first |-> FirstOf(Hits(f, Indexing(v)))]

Clean(f, v) == \A n \in DOMAIN f : f[n].kind = "range" => v \notin f[n].vars

AnchorOf(paths) == LongestCommonPrefix({Front(p) : p \in paths})

(* The variables with a group that passes, and the groups.                 *)
Grouped(f) ==
  {v \in Var :
     LET paths == Contributed(f, v)
         type == TypeAt(VarType[v], AnchorOf(paths))
         cost == Cut(v, AnchorOf(paths), paths) IN
     /\ Hits(f, Naming(v)) # {} /\ Clean(f, v) /\ Cardinality(paths) >= MinFields
     /\ IF EqualStop(type) THEN cost = 0
        ELSE cost <= MaxIgnore \/ Cardinality(Hits(f, Pairing(v))) >= MinFields}

RunGroups(f) ==
  {[base |-> v, pos |-> FirstOf(Hits(f, Naming(v))), count |-> Cardinality(Contributed(f, v)),
    anchor |-> AnchorOf(Contributed(f, v))] : v \in Grouped(f)}

Collections(f) ==
  {v \in Var : /\ Hits(f, Indexing(v)) # {} /\ Clean(f, v)
               /\ Cardinality(Hits(f, Indexing(v))) >= MinFields
               /\ NonTrivialElem(VarType[v])}

ElementGroups(f) ==
  {[base |-> v, pos |-> FirstOf(Hits(f, Indexing(v))), count |-> Cardinality(Hits(f, Indexing(v)))] :
     v \in Collections(f)}

Collected ==
  /\ fn \in Seq(Site) /\ Len(fn) <= MaxSites
  /\ runs = [v \in Var |-> RunOf(fn, v)]
  /\ elements = [v \in Var |-> ElementsOf(fn, v)]

Ordered ==
  /\ order \in Seq(Var) /\ IsInjective(order)
  /\ \A v : v \in Range(order) <=> v \in Var /\ Hits(fn, Naming(v)) # {}
  /\ elementOrder \in Seq(Var) /\ IsInjective(elementOrder)
  /\ \A v : v \in Range(elementOrder) <=> v \in Var /\ Hits(fn, Indexing(v)) # {}

RunReported(rs) == {[base |-> r.base, pos |-> r.pos, count |-> r.count, anchor |-> r.anchor] :
                      r \in {s \in Range(rs) : s.shape = "run"}}
ElementReported(rs) == {[base |-> r.base, pos |-> r.pos, count |-> r.count] :
                          r \in {s \in Range(rs) : s.shape = "element"}}

(* A run is reported with the type at its anchor.                          *)
Placed(rs) ==
  \A r \in Range(rs) : r.shape = "run" => r.at = TypeAt(VarType[r.base], r.anchor)

Reporting ==
  /\ phase \in {"inspect", "done"}
  /\ reports \in Seq(Range(reports))
  /\ phase = "inspect" => \A r \in Range(reports) : r.shape = "inline"
  /\ phase = "done" => /\ RunReported(reports) = RunGroups(fn)
                       /\ ElementReported(reports) = ElementGroups(fn)
                       /\ Placed(reports)

IInv == Collected /\ Ordered /\ Reporting

LEMMA ContributedNext ==
  ASSUME NEW f \in Seq(Site), NEW site \in Site, NEW v \in Var
  PROVE  Contributed(Append(f, site), v)
         = Contributed(f, v) \cup (IF site \in Naming(v) THEN Named(site)[v] ELSE {})
<1> DEFINE g == Append(f, site)
           n == Len(f) + 1
           S == Hits(f, Naming(v))
           U == Hits(g, Naming(v))
           by(s) == Named(s)[v]
           extra == IF site \in Naming(v) THEN by(site) ELSE {}
<1>1. /\ Len(f) \in Nat /\ (\A i \in 1..Len(f) : g[i] = f[i]) /\ g[n] = site
  BY Appending
<1>2. S \subseteq 1..Len(f)
  BY HitsTyped
<1>3. U = IF site \in Naming(v) THEN S \cup {n} ELSE S
  BY HitsAppend
<1> HIDE DEF g, S, U, n, by
<1>4. UNION {by(g[i]) : i \in U} = (UNION {by(f[i]) : i \in S}) \cup extra
  <2>1. \A i \in S : g[i] = f[i]
    BY <1>1, <1>2
  <2> QED
    BY <1>1, <1>3, <2>1
<1> QED
  BY <1>4 DEF Contributed, g, S, U, by

(* The paths that the sites contribute are finitely many, and paths.       *)
LEMMA ContributedTyped ==
  ASSUME NEW f \in Seq(Site), NEW v \in Var
  PROVE  /\ Contributed(f, v) \subseteq Seq(Name) \ {<<>>} /\ IsFiniteSet(Contributed(f, v))
         /\ Contributed(f, v) # {} <=> Hits(f, Naming(v)) # {}
<1> DEFINE S == Hits(f, Naming(v))
           by(n) == Named(f[n])[v]
           C == Contributed(f, v)
<1>1. IsFiniteSet(S) /\ \A n \in S : f[n] \in Naming(v)
  BY HitsTyped DEF Hits
<1>2. ASSUME NEW n \in S
      PROVE  by(n) \subseteq Seq(Name) \ {<<>>} /\ IsFiniteSet(by(n)) /\ \E p : by(n) = {p}
  <2>1. f[n] \in Site /\ Cardinality(by(n)) = 1
    BY <1>1 DEF Naming
  <2>2. by(n) \subseteq Seq(Name) \ {<<>>} /\ IsFiniteSet(by(n))
    BY <2>1, NamedTyped
  <2> HIDE DEF by
  <2> QED
    BY <2>1, <2>2, FS_Singleton
<1>3. C = UNION {by(n) : n \in S}
  BY DEF Contributed
<1> HIDE DEF S, by, C
<1>4. IsFiniteSet(C)
  <2> DEFINE h == [n \in S |-> CHOOSE p : by(n) = {p}]
  <2>1. \A n \in S : by(n) = {h[n]}
    BY <1>2
  <2> HIDE DEF h
  <2>2. h \in [S -> C] /\ \A p \in C : \E n \in S : h[n] = p
    <3>1. DOMAIN h = S /\ h = [n \in S |-> h[n]]
      BY DEF h
    <3>2. \A n \in S : h[n] \in C
      BY <1>3, <2>1
    <3>3. \A p \in C : \E n \in S : h[n] = p
      BY <1>3, <2>1
    <3> QED
      BY <3>1, <3>2, <3>3
  <2>3. h \in Surjection(S, C)
    BY <2>2 DEF Surjection
  <2> QED
    BY <1>1, <2>3, FS_Surjection
<1>5. C \subseteq Seq(Name) \ {<<>>} /\ (C # {} <=> S # {})
  BY <1>2, <1>3
<1> QED
  BY <1>4, <1>5 DEF C, S

(* addSite keeps the runs a function of the sites.                         *)
LEMMA RunNext ==
  ASSUME Collected, NEW site \in Site, Asserts(site)
  PROVE  AddSite(site, Len(fn) + 1) = [v \in Var |-> RunOf(Append(fn, site), v)]
<1> DEFINE n == Len(fn) + 1
           g == Append(fn, site)
           next == AddSite(site, n)
           path(v) == CHOOSE p \in Named(site)[v] : TRUE
<1>0. fn \in Seq(Site) /\ runs = [v \in Var |-> RunOf(fn, v)]
  BY DEF Collected
<1>1. /\ next = [v \in Var |-> next[v]]
      /\ \A v \in Var :
           next[v] = IF Cardinality(Named(site)[v]) # 1 THEN runs[v]
                     ELSE [fields    |-> runs[v].fields \cup {path(v)},
                           first     |-> IF runs[v].first = 0 THEN n ELSE runs[v].first,
                           roundtrip |-> runs[v].roundtrip
                                         + (IF Roundtrip(Named(site), v, path(v)) THEN 1 ELSE 0)]
  BY DEF AddSite
<1> HIDE DEF next
<1>2. ASSUME NEW v \in Var PROVE next[v] = RunOf(g, v)
  <2> DEFINE N == Named(site)[v]
             S == Hits(fn, Naming(v))
  <2>1. runs[v] = RunOf(fn, v)
    BY <1>0
  <2>2. site \in Naming(v) <=> Cardinality(N) = 1
    BY <1>2 DEF Naming
  <2>3. Contributed(g, v) = Contributed(fn, v) \cup (IF site \in Naming(v) THEN N ELSE {})
    BY <1>0, ContributedNext
  <2>4. FirstOf(Hits(g, Naming(v))) = IF S = {} /\ site \in Naming(v) THEN n ELSE FirstOf(S)
    BY <1>0, HitsAppend
  <2>5. FirstOf(S) = 0 <=> S = {}
    BY <1>0, HitsTyped
  <2>6. Cardinality(Hits(g, Pairing(v)))
        = Cardinality(Hits(fn, Pairing(v))) + (IF site \in Pairing(v) THEN 1 ELSE 0)
    BY <1>0, HitsAppend
  <2>7. Cardinality(Hits(fn, Pairing(v))) \in Nat
    BY <1>0, HitsTyped
  <2> HIDE DEF n, g, path
  <2>8. CASE Cardinality(N) # 1
    <3>1. site \notin Naming(v) /\ site \notin Pairing(v)
      BY <2>2, <2>8 DEF Pairing
    <3>2. next[v] = RunOf(fn, v)
      BY <1>1, <2>1, <2>8
    <3>3. Contributed(g, v) = Contributed(fn, v)
      BY <2>3, <3>1
    <3>4. Cardinality(Hits(g, Pairing(v))) = Cardinality(Hits(fn, Pairing(v)))
      BY <2>6, <2>7, <3>1
    <3>5. FirstOf(Hits(g, Naming(v))) = FirstOf(S)
      BY <2>4, <3>1
    <3> QED
      BY <3>2, <3>3, <3>4, <3>5 DEF RunOf
  <2>9. CASE Cardinality(N) = 1
    <3>1. IsFiniteSet(N)
      BY NamedTyped
    <3>2. N = {path(v)}
      <4> HIDE DEF N
      <4>1. \E p : N = {p}
        BY <2>9, <3>1, FS_Singleton
      <4>2. path(v) = CHOOSE p \in N : TRUE
        BY DEF path, N
      <4> QED
        BY <4>1, <4>2
    <3>3. site \in Pairing(v) <=> Roundtrip(Named(site), v, path(v))
      <4>1. site \in Pairing(v) <=> \E w \in Var \ {v} : SameShape(VarType[v], VarType[w]) /\ Named(site)[w] = N
        BY <2>2, <2>9 DEF Pairing
      <4> QED
        BY <3>2, <4>1 DEF Roundtrip
    <3> DEFINE R == RunOf(fn, v)
               paired == IF site \in Pairing(v) THEN 1 ELSE 0
    <3>4. next[v] = [fields    |-> R.fields \cup {path(v)},
                     first     |-> IF R.first = 0 THEN n ELSE R.first,
                     roundtrip |-> R.roundtrip + paired]
      <4> HIDE DEF R
      <4>1. runs[v] = R
        BY <2>1 DEF R
      <4> QED
        BY <1>1, <2>9, <3>3, <4>1
    <3>5. /\ R.fields = Contributed(fn, v) /\ R.first = FirstOf(S)
          /\ R.roundtrip = Cardinality(Hits(fn, Pairing(v)))
      BY DEF RunOf
    <3> HIDE DEF R
    <3>6. Contributed(g, v) = R.fields \cup {path(v)}
      BY <2>2, <2>3, <2>9, <3>2, <3>5
    <3>7. FirstOf(Hits(g, Naming(v))) = IF R.first = 0 THEN n ELSE R.first
      <4> HIDE DEF S
      <4> QED
        BY <2>2, <2>4, <2>5, <2>9, <3>5
    <3>8. Cardinality(Hits(g, Pairing(v))) = R.roundtrip + paired
      BY <2>6, <3>5
    <3> QED
      BY <3>4, <3>6, <3>7, <3>8 DEF RunOf
  <2> QED
    BY <2>8, <2>9
<1> QED
  BY <1>1, <1>2 DEF next, g

LEMMA AtLeastTwo ==
  ASSUME NEW S, IsFiniteSet(S)
  PROVE  Cardinality(S) < 2 <=> \A x, y \in S : x = y
<1>1. Cardinality(S) \in Nat
  BY FS_CardinalityType
<1>2. Cardinality(S) = 0 <=> S = {}
  BY FS_EmptySet
<1>3. Cardinality(S) = 1 <=> \E x : S = {x}
  BY FS_Singleton
<1>4. Cardinality(S) < 2 <=> Cardinality(S) = 0 \/ Cardinality(S) = 1
  BY <1>1
<1>5. (\A x, y \in S : x = y) <=> S = {} \/ \E x : S = {x}
  OBVIOUS
<1> QED
  BY <1>2, <1>3, <1>4, <1>5

LEMMA IndexingIs ==
  ASSUME NEW site \in Site, Asserts(site), NEW v \in Var
  PROVE  site \in Indexing(v) <=>
           ~(Cardinality(Indexed(site)) < 2 \/ \A i \in Indexed(site) : site.operands[i].base # v)
<1>1. IsFiniteSet(Indexed(site))
  <2>1. IsFiniteSet(DOMAIN site.operands) /\ Indexed(site) \in SUBSET (DOMAIN site.operands)
    BY SiteTyped
  <2> QED
    BY <2>1, FS_Subset
<1>2. Cardinality(Indexed(site)) < 2 <=> \A x, y \in Indexed(site) : x = y
  BY <1>1, AtLeastTwo
<1> QED
  BY <1>2 DEF Indexing

LEMMA ElementsNext ==
  ASSUME Collected, NEW site \in Site, Asserts(site)
  PROVE  AddElement(site, Len(fn) + 1) = [v \in Var |-> ElementsOf(Append(fn, site), v)]
<1> DEFINE n == Len(fn) + 1
           g == Append(fn, site)
           next == AddElement(site, n)
<1>0. fn \in Seq(Site) /\ elements = [v \in Var |-> ElementsOf(fn, v)]
  BY DEF Collected
<1>1. /\ next = [v \in Var |-> next[v]]
      /\ \A v \in Var :
           next[v] = IF Cardinality(Indexed(site)) < 2 \/ \A i \in Indexed(site) : site.operands[i].base # v
                     THEN elements[v]
                     ELSE [count |-> elements[v].count + 1,
                           first |-> IF elements[v].count = 0 THEN n ELSE elements[v].first]
  BY DEF AddElement
<1> HIDE DEF next
<1>2. ASSUME NEW v \in Var PROVE next[v] = ElementsOf(g, v)
  <2> DEFINE S == Hits(fn, Indexing(v))
             U == Hits(g, Indexing(v))
  <2>1. elements[v] = [count |-> Cardinality(S), first |-> FirstOf(S)]
    BY <1>0 DEF ElementsOf
  <2>2. /\ Cardinality(U) = Cardinality(S) + (IF site \in Indexing(v) THEN 1 ELSE 0)
        /\ FirstOf(U) = IF S = {} /\ site \in Indexing(v) THEN n ELSE FirstOf(S)
    BY <1>0, HitsAppend
  <2>3. Cardinality(S) \in Nat /\ (Cardinality(S) = 0 <=> S = {})
    <3>1. IsFiniteSet(S)
      BY <1>0, HitsTyped
    <3> QED
      BY <3>1, FS_EmptySet, FS_CardinalityType
  <2>4. next[v] = IF site \in Indexing(v)
                  THEN [count |-> elements[v].count + 1,
                        first |-> IF elements[v].count = 0 THEN n ELSE elements[v].first]
                  ELSE elements[v]
    BY <1>1, <1>2, IndexingIs
  <2> HIDE DEF n, S, U
  <2>5. next[v] = [count |-> Cardinality(U), first |-> FirstOf(U)]
    BY <2>1, <2>2, <2>3, <2>4
  <2> QED
    BY <2>5 DEF ElementsOf, U
<1> QED
  BY <1>1, <1>2 DEF next, g

(* A site that is no assertion leaves everything as it is.                 *)
LEMMA OtherSites ==
  ASSUME NEW f \in Seq(Site), NEW site \in Site, ~Asserts(site), NEW v \in Var
  PROVE  /\ Hits(Append(f, site), Naming(v)) = Hits(f, Naming(v))
         /\ Hits(Append(f, site), Indexing(v)) = Hits(f, Indexing(v))
         /\ RunOf(Append(f, site), v) = RunOf(f, v)
         /\ ElementsOf(Append(f, site), v) = ElementsOf(f, v)
<1>1. site \notin Naming(v) /\ site \notin Pairing(v) /\ site \notin Indexing(v)
  BY DEF Naming, Pairing, Indexing
<1>2. /\ Hits(Append(f, site), Naming(v)) = Hits(f, Naming(v))
      /\ Hits(Append(f, site), Pairing(v)) = Hits(f, Pairing(v))
      /\ Hits(Append(f, site), Indexing(v)) = Hits(f, Indexing(v))
  BY <1>1, HitsAppend
<1>3. Contributed(Append(f, site), v) = Contributed(f, v)
  BY <1>1, ContributedNext
<1> QED
  BY <1>2, <1>3 DEF RunOf, ElementsOf

-------------------------------------------------------------------------------
(* Sequences of reports: a report is of no set but that of the reports.    *)

LEMMA OwnRange ==
  ASSUME NEW T, NEW s \in Seq(T)
  PROVE  s \in Seq(Range(s)) /\ (Range(s) \subseteq T)
         /\ \A U : Range(s) \subseteq U => s \in Seq(U)
<1>1. Len(s) \in Nat /\ s \in [1..Len(s) -> T] /\ DOMAIN s = 1..Len(s)
  BY LenProperties
<1>2. Range(s) \subseteq T
  BY <1>1 DEF Range
<1>3. ASSUME NEW U, Range(s) \subseteq U PROVE s \in Seq(U)
  <2>1. s \in [1..Len(s) -> U]
    <3>1. s = [i \in 1..Len(s) |-> s[i]] /\ \A i \in 1..Len(s) : s[i] \in U
      BY <1>1, <1>3 DEF Range
    <3> QED
      BY <3>1
  <2> QED
    BY <1>1, <2>1, AsSequence
<1> QED
  BY <1>2, <1>3

LEMMA ConcatParts ==
  ASSUME NEW s, s \in Seq(Range(s)), NEW t, t \in Seq(Range(t))
  PROVE  s \o t \in Seq(Range(s \o t)) /\ Range(s \o t) = Range(s) \cup Range(t)
<1> DEFINE T == Range(s) \cup Range(t)
<1>1. s \in Seq(T) /\ t \in Seq(T)
  BY OwnRange
<1>2. \A x : x \in Range(s \o t) <=> x \in Range(s) \/ x \in Range(t)
  BY <1>1, ConcatRange
<1>3. s \o t \in Seq(T)
  BY <1>1, ConcatProperties
<1>4. s \o t \in Seq(Range(s \o t))
  BY <1>3, OwnRange
<1> QED
  BY <1>2, <1>4

LEMMA FlattenAll ==
  ASSUME NEW n \in Nat, NEW seqs, seqs = [i \in 1..n |-> seqs[i]],
         \A i \in 1..n : seqs[i] \in Seq(Range(seqs[i]))
  PROVE  /\ FlattenSeq(seqs) \in Seq(Range(FlattenSeq(seqs)))
         /\ Range(FlattenSeq(seqs)) = UNION {Range(seqs[i]) : i \in 1..n}
<1> DEFINE T == UNION {Range(seqs[i]) : i \in 1..n}
<1>1. \A i \in 1..n : seqs[i] \in Seq(T)
  <2> SUFFICES ASSUME NEW i \in 1..n PROVE seqs[i] \in Seq(T)
    OBVIOUS
  <2>1. Range(seqs[i]) \subseteq T
    OBVIOUS
  <2> HIDE DEF T
  <2> QED
    BY <2>1, OwnRange
<1> HIDE DEF T
<1>2. seqs \in [1..n -> Seq(T)]
  BY <1>1
<1>3. seqs \in Seq(Seq(T)) /\ DOMAIN seqs = 1..n
  BY <1>2, AsSequence
<1>4. /\ FlattenSeq(seqs) \in Seq(T)
      /\ \A x : x \in Range(FlattenSeq(seqs)) <=> \E i \in 1..n : x \in Range(seqs[i])
  BY <1>3, FlattenParts
<1>5. FlattenSeq(seqs) \in Seq(Range(FlattenSeq(seqs)))
  BY <1>4, OwnRange
<1>6. Range(FlattenSeq(seqs)) = T
  BY <1>4 DEF T
<1> QED
  BY <1>5, <1>6 DEF T

LEMMA Listed ==
  ASSUME NEW S, IsFiniteSet(S)
  PROVE  SetToSeq(S) \in Seq(Range(SetToSeq(S))) /\ Range(SetToSeq(S)) \subseteq S
<1> DEFINE s == SetToSeq(S)
<1>1. Cardinality(S) \in Nat /\ \E f \in [1..Cardinality(S) -> S] : IsInjective(f)
  BY FS_CardinalityType DEF ExistsBijection, Bijection, Injection
<1>2. s \in [1..Cardinality(S) -> S]
  BY <1>1 DEF SetToSeq
<1> HIDE DEF s
<1>3. s \in Seq(S)
  BY <1>1, <1>2, AsSequence
<1>4. s \in Seq(Range(s)) /\ Range(s) \subseteq S
  BY <1>3, OwnRange
<1> QED
  BY <1>4 DEF s

LEMMA InlineIs ==
  ASSUME NEW site \in Site, NEW n
  PROVE  LET new == SetToSeq(InlineReports(site, n)) IN
         new \in Seq(Range(new)) /\ \A r \in Range(new) : r.shape = "inline"
<1> DEFINE S == InlineReports(site, n)
<1>1. S = {} \/ \E r : S = {r} /\ r.shape = "inline"
  <2> DEFINE rep(i) == [shape |-> "inline", pos |-> n, type |-> site.operands[i].type,
                        option |-> NamesOption(Elem(site.operands[i].type))]
  <2>1. S = {} \/ \E i : S = {rep(i)}
    BY DEF InlineReports
  <2>2. \A i : rep(i).shape = "inline"
    OBVIOUS
  <2> HIDE DEF rep, S
  <2> QED
    BY <2>1, <2>2
<1>2. IsFiniteSet(S)
  BY <1>1, FS_EmptySet, FS_Singleton
<1> HIDE DEF S
<1>3. SetToSeq(S) \in Seq(Range(SetToSeq(S))) /\ Range(SetToSeq(S)) \subseteq S
  BY <1>2, Listed
<1> QED
  BY <1>1, <1>3 DEF S

-------------------------------------------------------------------------------
(* The invariant is inductive.                                             *)

LEMMA RunStarted ==
  ASSUME NEW f \in Seq(Site), NEW v \in Var
  PROVE  RunOf(f, v) = NoRun <=> Hits(f, Naming(v)) = {}
<1>1. FirstOf(Hits(f, Naming(v))) = 0 <=> Hits(f, Naming(v)) = {}
  BY HitsTyped
<1>2. Hits(f, Pairing(v)) \subseteq Hits(f, Naming(v))
  BY DEF Hits, Pairing
<1>3. CASE Hits(f, Naming(v)) = {}
  <2>1. Contributed(f, v) = {}
    BY <1>3 DEF Contributed
  <2>2. Cardinality(Hits(f, Pairing(v))) = 0
    BY <1>2, <1>3, FS_EmptySet
  <2> QED
    BY <1>1, <1>3, <2>1, <2>2 DEF RunOf, NoRun
<1>4. CASE Hits(f, Naming(v)) # {}
  <2>1. RunOf(f, v).first # NoRun.first
    BY <1>1, <1>4 DEF RunOf, NoRun
  <2> QED
    BY <1>4, <2>1
<1> QED
  BY <1>3, <1>4

LEMMA InitIInv ==
  Init => IInv
<1> SUFFICES ASSUME Init PROVE IInv
  OBVIOUS
<1> DEFINE e == <<>>
<1>1. /\ \A T : e \in Seq(T)
      /\ Len(e) = 0 /\ DOMAIN e = {}
  BY EmptySeq
<1>2. /\ fn = e /\ order = e /\ elementOrder = e /\ reports = e
      /\ runs = [v \in Var |-> NoRun]
      /\ elements = [v \in Var |-> [count |-> 0, first |-> 0]]
      /\ phase = "inspect"
  BY DEF Init
<1> HIDE DEF e
<1>3. \A H : Hits(e, H) = {}
  BY <1>1 DEF Hits
<1>4. e \in Seq(Site) /\ \A v \in Var : RunOf(e, v) = NoRun
  BY <1>1, <1>3, RunStarted
<1>5. \A v \in Var : ElementsOf(e, v) = [count |-> 0, first |-> 0]
  BY <1>3, FS_EmptySet DEF ElementsOf, FirstOf
<1>6. MaxSites \in Nat
  BY TypeGraphAssumption
<1>7. Collected
  BY <1>1, <1>2, <1>4, <1>5, <1>6 DEF Collected
<1>8. Ordered
  BY <1>1, <1>2, <1>3 DEF Ordered, IsInjective, Range
<1>9. Reporting
  <2>1. Range(e) = {}
    BY <1>1 DEF Range
  <2> QED
    BY <1>1, <1>2, <2>1 DEF Reporting
<1> QED
  BY <1>7, <1>8, <1>9 DEF IInv

LEMMA VisitIInv ==
  ASSUME IInv, NEW site \in Site, Visit(site)
  PROVE  IInv'
<1> DEFINE n == Len(fn) + 1
           g == Append(fn, site)
<1>1. Collected /\ Ordered /\ Reporting
  BY DEF IInv
<1>2. /\ fn \in Seq(Site) /\ runs = [v \in Var |-> RunOf(fn, v)]
      /\ elements = [v \in Var |-> ElementsOf(fn, v)]
  BY <1>1 DEF Collected
<1>3. fn' = g /\ phase = "inspect" /\ phase' = "inspect" /\ Len(fn) < MaxSites
  BY DEF Visit
<1>4. g \in Seq(Site) /\ Len(g) <= MaxSites
  <2>1. g \in Seq(Site) /\ Len(g) = Len(fn) + 1 /\ Len(fn) \in Nat
    BY <1>2, Appending
  <2>2. MaxSites \in Nat
    BY TypeGraphAssumption
  <2> QED
    BY ONLY <1>3, <2>1, <2>2
<1>5. CASE Asserts(site)
  <2> DEFINE freshRuns == {v \in Var : runs[v] = NoRun /\ runs'[v] # NoRun}
             freshElements == {v \in Var : elements[v].count = 0 /\ elements'[v].count > 0}
             new == SetToSeq(InlineReports(site, n))
  <2>1. /\ runs' = AddSite(site, n) /\ elements' = AddElement(site, n)
        /\ order' = Joined(order, site, Chains(site), freshRuns)
        /\ elementOrder' = Joined(elementOrder, site, Indexed(site), freshElements)
        /\ reports' = reports \o new
    BY <1>5 DEF Visit, Asserts
  <2>2. runs' = [v \in Var |-> RunOf(g, v)]
    BY <1>1, <1>5, <2>1, RunNext
  <2>3. elements' = [v \in Var |-> ElementsOf(g, v)]
    BY <1>1, <1>5, <2>1, ElementsNext
  <2>4. Collected'
    BY <1>3, <1>4, <2>2, <2>3 DEF Collected
  <2>5. \A v : v \in freshRuns <=> v \in Var /\ Hits(fn, Naming(v)) = {} /\ Hits(g, Naming(v)) # {}
    BY <1>2, <1>4, <2>2, RunStarted
  <2>6. \A v : v \in freshElements
               <=> v \in Var /\ Hits(fn, Indexing(v)) = {} /\ Hits(g, Indexing(v)) # {}
    <3>1. ASSUME NEW f \in Seq(Site), NEW v \in Var
          PROVE  /\ ElementsOf(f, v).count \in Nat
                 /\ ElementsOf(f, v).count = 0 <=> Hits(f, Indexing(v)) = {}
      <4>1. IsFiniteSet(Hits(f, Indexing(v)))
        BY HitsTyped
      <4> QED
        BY <4>1, FS_EmptySet, FS_CardinalityType DEF ElementsOf
    <3>2. ASSUME NEW v \in Var
          PROVE  elements'[v].count > 0 <=> Hits(g, Indexing(v)) # {}
      <4>1. /\ ElementsOf(g, v).count \in Nat
            /\ ElementsOf(g, v).count = 0 <=> Hits(g, Indexing(v)) = {}
        BY <1>4, <3>1
      <4>2. elements'[v].count = ElementsOf(g, v).count
        BY <2>3
      <4> HIDE DEF g
      <4> QED
        BY <4>1, <4>2
    <3>3. ASSUME NEW v \in Var
          PROVE  elements[v].count = 0 <=> Hits(fn, Indexing(v)) = {}
      BY <1>2, <3>1
    <3> QED
      BY <3>2, <3>3
  <2> HIDE DEF freshRuns, freshElements, new
  <2>7. /\ Chains(site) \in SUBSET (DOMAIN site.operands)
        /\ Indexed(site) \in SUBSET (DOMAIN site.operands)
        /\ \A i \in Chains(site) : site.operands[i].base \in Var
        /\ \A i \in Indexed(site) : site.operands[i].base \in Var
    BY SiteTyped
  <2>8. \A H : /\ site \notin H => Hits(g, H) = Hits(fn, H)
               /\ site \in H => Hits(g, H) # {}
               /\ Hits(fn, H) \subseteq Hits(g, H)
    <3> SUFFICES ASSUME NEW H
                 PROVE  /\ site \notin H => Hits(g, H) = Hits(fn, H)
                        /\ site \in H => Hits(g, H) # {}
                        /\ Hits(fn, H) \subseteq Hits(g, H)
      OBVIOUS
    <3>1. Hits(g, H) = IF site \in H THEN Hits(fn, H) \cup {n} ELSE Hits(fn, H)
      BY <1>2, HitsAppend
    <3> HIDE DEF g, n
    <3> QED
      BY <3>1
  <2>9. /\ order' \in Seq(Var) /\ IsInjective(order')
        /\ \A v : v \in Range(order') <=> v \in Var /\ Hits(g, Naming(v)) # {}
    <3>1. /\ order \in Seq(Var) /\ IsInjective(order)
          /\ \A v : v \in Range(order) <=> v \in Var /\ Hits(fn, Naming(v)) # {}
      BY <1>1 DEF Ordered
    <3>2. /\ order' \in Seq(Var) /\ IsInjective(order')
          /\ \A v : v \in Range(order') <=>
               v \in Range(order)
               \/ (v \in freshRuns /\ \E i \in Chains(site) : site.operands[i].base = v)
      <4> DEFINE which == Chains(site)
                 out == Joined(order, site, which, freshRuns)
      <4>1. which \in SUBSET (DOMAIN site.operands) /\ \A i \in which : site.operands[i].base \in Var
        BY <2>7
      <4> HIDE DEF which
      <4>2. /\ out \in Seq(Var) /\ IsInjective(out)
            /\ \A v : v \in Range(out) <=>
                 v \in Range(order) \/ (v \in freshRuns /\ \E i \in which : site.operands[i].base = v)
        BY ONLY <3>1, <4>1, site \in Site, JoinedIs
      <4>3. order' = out
        BY <2>1 DEF which
      <4> HIDE DEF out
      <4> QED
        BY <4>2, <4>3 DEF which
    <3>3. ASSUME NEW v \in freshRuns PROVE \E i \in Chains(site) : site.operands[i].base = v
      <4>1. site \in Naming(v) /\ v \in Var
        BY <2>5, <2>8
      <4>2. Cardinality(Named(site)[v]) = 1
        BY <4>1 DEF Naming
      <4>3. Named(site)[v] # {}
        BY <4>2, FS_EmptySet
      <4> QED
        BY <4>1, <4>3, NamedTyped
    <3>4. \A v : v \in Range(order') <=> v \in Range(order) \/ v \in freshRuns
      BY <3>2, <3>3
    <3>5. \A v \in Var : Hits(fn, Naming(v)) # {} => Hits(g, Naming(v)) # {}
      BY <2>8
    <3> HIDE DEF g
    <3>6. \A v : v \in Range(order') <=> v \in Var /\ Hits(g, Naming(v)) # {}
      BY <2>5, <3>1, <3>4, <3>5
    <3> QED
      BY <3>2, <3>6
  <2>10. /\ elementOrder' \in Seq(Var) /\ IsInjective(elementOrder')
         /\ \A v : v \in Range(elementOrder') <=> v \in Var /\ Hits(g, Indexing(v)) # {}
    <3>1. /\ elementOrder \in Seq(Var) /\ IsInjective(elementOrder)
          /\ \A v : v \in Range(elementOrder) <=> v \in Var /\ Hits(fn, Indexing(v)) # {}
      BY <1>1 DEF Ordered
    <3>2. /\ elementOrder' \in Seq(Var) /\ IsInjective(elementOrder')
          /\ \A v : v \in Range(elementOrder') <=>
               v \in Range(elementOrder)
               \/ (v \in freshElements /\ \E i \in Indexed(site) : site.operands[i].base = v)
      <4> DEFINE which == Indexed(site)
                 out == Joined(elementOrder, site, which, freshElements)
      <4>1. which \in SUBSET (DOMAIN site.operands) /\ \A i \in which : site.operands[i].base \in Var
        BY <2>7
      <4> HIDE DEF which
      <4>2. /\ out \in Seq(Var) /\ IsInjective(out)
            /\ \A v : v \in Range(out) <=>
                 v \in Range(elementOrder) \/ (v \in freshElements /\ \E i \in which : site.operands[i].base = v)
        BY ONLY <3>1, <4>1, site \in Site, JoinedIs
      <4>3. elementOrder' = out
        BY <2>1 DEF which
      <4> HIDE DEF out
      <4> QED
        BY <4>2, <4>3 DEF which
    <3>3. ASSUME NEW v \in freshElements PROVE \E i \in Indexed(site) : site.operands[i].base = v
      <4>1. site \in Indexing(v)
        BY <2>6, <2>8
      <4> QED
        BY <4>1 DEF Indexing
    <3>4. \A v : v \in Range(elementOrder') <=> v \in Range(elementOrder) \/ v \in freshElements
      BY <3>2, <3>3
    <3>5. \A v \in Var : Hits(fn, Indexing(v)) # {} => Hits(g, Indexing(v)) # {}
      BY <2>8
    <3> HIDE DEF g
    <3>6. \A v : v \in Range(elementOrder') <=> v \in Var /\ Hits(g, Indexing(v)) # {}
      BY <2>6, <3>1, <3>4, <3>5
    <3> QED
      BY <3>2, <3>6
  <2>11. Ordered'
    BY <1>3, <2>9, <2>10 DEF Ordered
  <2>12. Reporting'
    <3>1. /\ reports \in Seq(Range(reports)) /\ \A r \in Range(reports) : r.shape = "inline"
      BY <1>1, <1>3 DEF Reporting
    <3>2. new \in Seq(Range(new)) /\ \A r \in Range(new) : r.shape = "inline"
      BY InlineIs DEF new
    <3>3. reports' \in Seq(Range(reports')) /\ Range(reports') = Range(reports) \cup Range(new)
      BY <2>1, <3>1, <3>2, ConcatParts
    <3>4. \A r \in Range(reports') : r.shape = "inline"
      BY <3>1, <3>2, <3>3
    <3> QED
      BY <1>3, <3>3, <3>4 DEF Reporting
  <2> QED
    BY <2>4, <2>11, <2>12 DEF IInv
<1>6. CASE ~Asserts(site)
  <2>1. UNCHANGED <<runs, elements, order, elementOrder, reports>>
    BY <1>6 DEF Visit, Asserts
  <2>2. \A v \in Var : /\ Hits(g, Naming(v)) = Hits(fn, Naming(v))
                       /\ Hits(g, Indexing(v)) = Hits(fn, Indexing(v))
                       /\ RunOf(g, v) = RunOf(fn, v)
                       /\ ElementsOf(g, v) = ElementsOf(fn, v)
    BY <1>2, <1>6, OtherSites
  <2> HIDE DEF g
  <2>3. Collected'
    BY <1>2, <1>3, <1>4, <2>1, <2>2 DEF Collected
  <2>4. Ordered'
    <3>1. Ordered
      BY <1>1
    <3> QED
      BY <1>3, <2>1, <2>2, <3>1 DEF Ordered
  <2>5. Reporting'
    BY <1>1, <1>3, <2>1 DEF Reporting
  <2> QED
    BY <2>3, <2>4, <2>5 DEF IInv
<1> QED
  BY <1>5, <1>6

(* A walk comes to every field once, so that the parents it meets are the  *)
(* parents of the fields.                                                  *)
LEMMA WalkIs ==
  ASSUME NEW S, S \subseteq Seq(Name) \ {<<>>}, IsFiniteSet(S), S # {},
         NEW walk \in [1..Cardinality(S) -> S], IsInjective(walk)
  PROVE  /\ walk \in Seq(Seq(Name) \ {<<>>}) /\ walk # <<>>
         /\ {Front(walk[i]) : i \in 1..Len(walk)} = {Front(p) : p \in S}
<1> DEFINE n == Cardinality(S)
<1>1. n \in Nat /\ n # 0
  BY FS_CardinalityType, FS_EmptySet
<1>2. walk \in Seq(S) /\ Len(walk) = n
  BY <1>1, AsSequence
<1>3. walk \in Surjection(1..n, S)
  <2>1. walk \in Injection(1..n, S)
    BY DEF Injection
  <2> HIDE DEF n
  <2>2. Cardinality(1..n) = n
    <3>1. n \in Int /\ 1 \in Int
      BY <1>1
    <3>2. Cardinality(1..n) = IF 1 > n THEN 0 ELSE n - 1 + 1
      BY ONLY <3>1, FS_Interval
    <3> QED
      BY <1>1, <3>2
  <2>3. Cardinality(1..n) = Cardinality(S)
    BY <2>2 DEF n
  <2> QED
    BY <2>1, <2>3, FS_Injection
<1>4. \A p \in S : \E i \in 1..n : walk[i] = p
  BY <1>3 DEF Surjection
<1>5. walk \in Seq(Seq(Name) \ {<<>>})
  <2>1. Range(walk) \subseteq Seq(Name) \ {<<>>}
    BY <1>2, OwnRange
  <2> QED
    BY <1>2, <2>1, OwnRange
<1>6. walk # <<>>
  <2> DEFINE e == <<>>
  <2>1. Len(e) = 0
    BY EmptySeq
  <2> HIDE DEF e
  <2>2. walk # e
    BY <1>1, <1>2, <2>1
  <2> QED
    BY <2>2 DEF e
<1> HIDE DEF n
<1>7. {Front(walk[i]) : i \in 1..n} = {Front(p) : p \in S}
  <2>1. \A i \in 1..n : walk[i] \in S
    BY DEF n
  <2> QED
    BY <1>4, <2>1
<1> QED
  BY <1>2, <1>5, <1>6, <1>7

(* The anchor of a group, in every order of the map.                       *)
LEMMA AnchorFoundAt ==
  ASSUME Collected, NEW v \in Var, Hits(fn, Naming(v)) # {}, NEW walk \in Walks(v)
  PROVE  /\ AnchorAlong(v, walk).names = AnchorOf(Contributed(fn, v))
         /\ AnchorAlong(v, walk).at = TypeAt(VarType[v], AnchorOf(Contributed(fn, v)))
<1> DEFINE S == Contributed(fn, v)
<1>1. fn \in Seq(Site) /\ runs[v].fields = S
  BY DEF Collected, RunOf
<1>2. S \subseteq Seq(Name) \ {<<>>} /\ IsFiniteSet(S) /\ S # {}
  BY <1>1, ContributedTyped
<1>3. walk \in [1..Cardinality(S) -> S] /\ IsInjective(walk)
  BY <1>1 DEF Walks
<1> HIDE DEF S
<1>4. /\ walk \in Seq(Seq(Name) \ {<<>>}) /\ walk # <<>>
      /\ {Front(walk[i]) : i \in 1..Len(walk)} = {Front(p) : p \in S}
  BY ONLY <1>2, <1>3, WalkIs
<1>5. LET shared == LongestCommonPrefix({Front(walk[i]) : i \in 1..Len(walk)}) IN
      /\ AnchorAlong(v, walk).names = shared
      /\ AnchorAlong(v, walk).at = TypeAt(VarType[v], shared)
  BY ONLY <1>4, v \in Var, AnchorShared
<1>6. LongestCommonPrefix({Front(walk[i]) : i \in 1..Len(walk)}) = AnchorOf(S)
  BY <1>4 DEF AnchorOf
<1> QED
  BY <1>5, <1>6 DEF S

(* A report or none.                                                       *)
LEMMA OneOrNone ==
  ASSUME NEW r, NEW out, out = <<>> \/ out = <<r>>
  PROVE  out \in Seq(Range(out)) /\ Range(out) = IF out = <<>> THEN {} ELSE {r}
<1> DEFINE e == <<>>
           s == <<r>>
<1>1. e \in Seq({r}) /\ DOMAIN e = {}
  BY EmptySeq
<1>2. s \in Seq({r}) /\ s # e /\ Range(s) = {r}
  <2>1. s = [i \in 1..1 |-> r] /\ s \in Seq({r})
    OBVIOUS
  <2>2. DOMAIN s = {1} /\ s[1] = r
    BY <2>1
  <2> QED
    BY <1>1, <2>1, <2>2 DEF Range
<1>3. Range(e) = {}
  BY <1>1 DEF Range
<1> HIDE DEF s, e
<1>4. out = e \/ out = s
  BY DEF s, e
<1>5. out \in Seq({r}) /\ Range(out) = IF out = e THEN {} ELSE {r}
  BY <1>1, <1>2, <1>3, <1>4
<1>6. out \in Seq(Range(out))
  BY <1>5, OwnRange
<1> QED
  BY <1>5, <1>6 DEF e

LEMMA CleanIs ==
  ASSUME NEW v \in Var
  PROVE  v \in Cases <=> ~Clean(fn, v)
BY DEF Cases, Clean, Sites

Group(f, v) ==
  [base |-> v, pos |-> FirstOf(Hits(f, Naming(v))), count |-> Cardinality(Contributed(f, v)),
   anchor |-> AnchorOf(Contributed(f, v))]

LEMMA RunReportIs ==
  ASSUME Collected, NEW v \in Var, Hits(fn, Naming(v)) # {}, NEW walk \in Walks(v)
  PROVE  LET out == RunReport(v, walk) IN
         /\ out \in Seq(Range(out)) /\ Placed(out) /\ \A r \in Range(out) : r.shape = "run"
         /\ {[base |-> r.base, pos |-> r.pos, count |-> r.count, anchor |-> r.anchor] : r \in Range(out)}
            = IF v \in Grouped(fn) THEN {Group(fn, v)} ELSE {}
<1> DEFINE S == Contributed(fn, v)
           found == AnchorAlong(v, walk)
           type == TypeAt(VarType[v], AnchorOf(S))
           cost == Cut(v, AnchorOf(S), S)
           out == RunReport(v, walk)
           r0 == [shape |-> "run", pos |-> runs[v].first, base |-> v,
                  count |-> Cardinality(S), anchor |-> AnchorOf(S), at |-> type,
                  option |-> ~EqualStop(type) /\ NamesOption(type)]
<1>1. found.names = AnchorOf(S) /\ found.at = type
  BY AnchorFoundAt
<1>2. /\ fn \in Seq(Site) /\ runs[v].fields = S /\ runs[v].first = FirstOf(Hits(fn, Naming(v)))
      /\ runs[v].roundtrip = Cardinality(Hits(fn, Pairing(v)))
  BY DEF Collected, RunOf
<1>3. Cardinality(S) \in Nat /\ Cardinality(Hits(fn, Pairing(v))) \in Nat /\ MinFields \in Nat
  <2>1. IsFiniteSet(S)
    BY <1>2, ContributedTyped
  <2>2. Cardinality(S) \in Nat
    BY <2>1, FS_CardinalityType
  <2>3. Cardinality(Hits(fn, Pairing(v))) \in Nat
    BY <1>2, HitsTyped
  <2>4. MinFields \in Nat
    BY TypeGraphAssumption
  <2> QED
    BY <2>2, <2>3, <2>4
<1>4. Cardinality(S) < MinFields <=> ~(Cardinality(S) >= MinFields)
  BY <1>3
<1>5. v \in Grouped(fn) <=>
        ~(v \in Cases \/ Cardinality(S) < MinFields \/ ~Reports(runs[v], type, cost))
  <2> HIDE DEF S, type, cost
  <2>1. Reports(runs[v], type, cost)
        <=> IF EqualStop(type) THEN cost = 0
            ELSE cost <= MaxIgnore \/ Cardinality(Hits(fn, Pairing(v))) >= MinFields
    BY <1>2 DEF Reports
  <2>2. v \in Grouped(fn) <=>
          /\ Hits(fn, Naming(v)) # {} /\ Clean(fn, v) /\ Cardinality(S) >= MinFields
          /\ IF EqualStop(type) THEN cost = 0
             ELSE cost <= MaxIgnore \/ Cardinality(Hits(fn, Pairing(v))) >= MinFields
    BY DEF Grouped, S, type, cost
  <2> QED
    BY <1>4, <2>1, <2>2, CleanIs
<1>6. out = IF v \in Grouped(fn) THEN <<r0>> ELSE <<>>
  <2>1. out = IF v \in Cases \/ Cardinality(runs[v].fields) < MinFields
                 \/ ~Reports(runs[v], found.at, Cut(v, found.names, runs[v].fields))
              THEN <<>>
              ELSE <<[shape |-> "run", pos |-> runs[v].first, base |-> v,
                      count |-> Cardinality(runs[v].fields), anchor |-> found.names, at |-> found.at,
                      option |-> ~EqualStop(found.at) /\ NamesOption(found.at)]>>
    BY DEF RunReport
  <2> HIDE DEF out, found, S, type
  <2>2. Cut(v, found.names, runs[v].fields) = cost
    BY <1>1, <1>2
  <2> HIDE DEF cost
  <2> QED
    BY <1>1, <1>2, <1>5, <2>1, <2>2
<1>7. r0.shape = "run" /\ r0.at = TypeAt(VarType[r0.base], r0.anchor)
      /\ [base |-> r0.base, pos |-> r0.pos, count |-> r0.count, anchor |-> r0.anchor] = Group(fn, v)
  <2> HIDE DEF S, type
  <2>1. Group(fn, v) = [base |-> v, pos |-> FirstOf(Hits(fn, Naming(v))), count |-> Cardinality(S),
                        anchor |-> AnchorOf(S)]
    BY DEF Group, S
  <2>2. r0.shape = "run" /\ r0.at = type /\ r0.base = v /\ r0.anchor = AnchorOf(S)
    OBVIOUS
  <2>3. [base |-> r0.base, pos |-> r0.pos, count |-> r0.count, anchor |-> r0.anchor] = Group(fn, v)
    BY <1>2, <2>1
  <2> HIDE DEF r0
  <2>4. r0.at = TypeAt(VarType[r0.base], r0.anchor)
    BY <2>2 DEF type
  <2> QED
    BY <2>2, <2>3, <2>4
<1> HIDE DEF r0, out
<1>8. out = <<>> \/ out = <<r0>>
  BY <1>6
<1>9. out \in Seq(Range(out)) /\ Range(out) = IF out = <<>> THEN {} ELSE {r0}
  BY ONLY <1>8, OneOrNone
<1>10. Range(out) = IF v \in Grouped(fn) THEN {r0} ELSE {}
  <2>1. <<r0>> # <<>>
    OBVIOUS
  <2> QED
    BY <1>6, <1>9, <2>1
<1> DEFINE projected == {[base |-> r.base, pos |-> r.pos, count |-> r.count, anchor |-> r.anchor] :
                           r \in Range(out)}
<1>11. projected = IF v \in Grouped(fn) THEN {Group(fn, v)} ELSE {}
  <2> DEFINE seen(r) == [base |-> r.base, pos |-> r.pos, count |-> r.count, anchor |-> r.anchor]
  <2>1. seen(r0) = Group(fn, v)
    BY <1>7
  <2>2. projected = {seen(r) : r \in Range(out)}
    OBVIOUS
  <2> HIDE DEF seen, projected
  <2>3. CASE v \in Grouped(fn)
    <3>1. Range(out) = {r0}
      BY <1>10, <2>3
    <3>2. projected = {seen(r0)}
      BY <2>2, <3>1
    <3> QED
      BY <2>1, <2>3, <3>2
  <2>4. CASE v \notin Grouped(fn)
    <3>1. Range(out) = {}
      BY <1>10, <2>4
    <3>2. projected = {}
      BY <2>2, <3>1
    <3> QED
      BY <2>4, <3>2
  <2> QED
    BY <2>3, <2>4
<1>12. Placed(out) /\ \A r \in Range(out) : r.shape = "run"
  BY <1>7, <1>10 DEF Placed
<1> QED
  BY <1>9, <1>11, <1>12 DEF out

ElementGroup(f, v) ==
  [base |-> v, pos |-> FirstOf(Hits(f, Indexing(v))), count |-> Cardinality(Hits(f, Indexing(v)))]

LEMMA ElementReportIs ==
  ASSUME Collected, NEW v \in Var, Hits(fn, Indexing(v)) # {}
  PROVE  LET out == ElementReport(v) IN
         /\ out \in Seq(Range(out)) /\ \A r \in Range(out) : r.shape = "element"
         /\ {[base |-> r.base, pos |-> r.pos, count |-> r.count] : r \in Range(out)}
            = IF v \in Collections(fn) THEN {ElementGroup(fn, v)} ELSE {}
<1> DEFINE S == Hits(fn, Indexing(v))
           out == ElementReport(v)
           r0 == [shape |-> "element", pos |-> FirstOf(S), base |-> v,
                  count |-> Cardinality(S), option |-> NamesOption(Elem(VarType[v]))]
<1>1. fn \in Seq(Site) /\ elements[v].count = Cardinality(S) /\ elements[v].first = FirstOf(S)
  BY DEF Collected, ElementsOf
<1>2. Cardinality(S) \in Nat /\ MinFields \in Nat
  <2>1. Cardinality(S) \in Nat
    BY <1>1, HitsTyped
  <2> QED
    BY <2>1, TypeGraphAssumption
<1>3. v \in Collections(fn) <=>
        ~(v \in Cases \/ elements[v].count < MinFields \/ ~NonTrivialElem(VarType[v]))
  <2> HIDE DEF S
  <2>1. v \in Collections(fn) <=>
          S # {} /\ Clean(fn, v) /\ Cardinality(S) >= MinFields /\ NonTrivialElem(VarType[v])
    BY DEF Collections, S
  <2>2. S # {}
    BY DEF S
  <2>3. Cardinality(S) < MinFields <=> ~(Cardinality(S) >= MinFields)
    BY <1>2
  <2> QED
    BY <1>1, <2>1, <2>2, <2>3, CleanIs
<1>4. out = IF v \in Collections(fn) THEN <<r0>> ELSE <<>>
  <2> HIDE DEF S
  <2> QED
    BY <1>1, <1>3 DEF ElementReport
<1>5. r0.shape = "element"
      /\ [base |-> r0.base, pos |-> r0.pos, count |-> r0.count] = ElementGroup(fn, v)
  BY DEF ElementGroup
<1> HIDE DEF r0, out
<1>6. out = <<>> \/ out = <<r0>>
  BY <1>4
<1>7. out \in Seq(Range(out)) /\ Range(out) = IF out = <<>> THEN {} ELSE {r0}
  BY ONLY <1>6, OneOrNone
<1>8. Range(out) = IF v \in Collections(fn) THEN {r0} ELSE {}
  <2>1. <<r0>> # <<>>
    OBVIOUS
  <2> QED
    BY <1>4, <1>7, <2>1
<1> DEFINE projected == {[base |-> r.base, pos |-> r.pos, count |-> r.count] : r \in Range(out)}
<1>9. projected = IF v \in Collections(fn) THEN {ElementGroup(fn, v)} ELSE {}
  <2> DEFINE seen(r) == [base |-> r.base, pos |-> r.pos, count |-> r.count]
  <2>1. seen(r0) = ElementGroup(fn, v)
    BY <1>5
  <2>2. projected = {seen(r) : r \in Range(out)}
    OBVIOUS
  <2> HIDE DEF seen, projected
  <2>3. CASE v \in Collections(fn)
    <3>1. Range(out) = {r0}
      BY <1>8, <2>3
    <3>2. projected = {seen(r0)}
      BY <2>2, <3>1
    <3> QED
      BY <2>1, <2>3, <3>2
  <2>4. CASE v \notin Collections(fn)
    <3>1. Range(out) = {}
      BY <1>8, <2>4
    <3>2. projected = {}
      BY <2>2, <3>1
    <3> QED
      BY <2>4, <3>2
  <2> QED
    BY <2>3, <2>4
<1>10. \A r \in Range(out) : r.shape = "element"
  BY <1>5, <1>8
<1> QED
  BY <1>7, <1>9, <1>10 DEF out

LEMMA DiffReportIs ==
  ASSUME NEW site, NEW n
  PROVE  LET out == IF site.kind = "diff" THEN DiffReport(site, n) ELSE <<>> IN
         out \in Seq(Range(out)) /\ \A r \in Range(out) : r.shape = "diff"
<1> DEFINE out == IF site.kind = "diff" THEN DiffReport(site, n) ELSE <<>>
<1>1. out = <<>> \/ \E left : out = <<[shape |-> "diff", pos |-> n, left |-> left]>>
  BY DEF DiffReport
<1> HIDE DEF out
<1>2. \E r : r.shape = "diff" /\ (out = <<>> \/ out = <<r>>)
  <2>1. CASE out = <<>>
    <3>1. [shape |-> "diff"].shape = "diff"
      OBVIOUS
    <3> QED
      BY <2>1, <3>1
  <2>2. ASSUME NEW left, out = <<[shape |-> "diff", pos |-> n, left |-> left]>>
        PROVE  \E r : r.shape = "diff" /\ (out = <<>> \/ out = <<r>>)
    <3>1. [shape |-> "diff", pos |-> n, left |-> left].shape = "diff"
      OBVIOUS
    <3> QED
      BY <2>2, <3>1
  <2> QED
    BY <1>1, <2>1, <2>2
<1>3. PICK r : r.shape = "diff" /\ (out = <<>> \/ out = <<r>>)
  BY <1>2
<1>4. out \in Seq(Range(out)) /\ Range(out) = IF out = <<>> THEN {} ELSE {r}
  BY ONLY <1>3, OneOrNone
<1> QED
  BY <1>3, <1>4 DEF out

LEMMA FinishIInv ==
  ASSUME IInv, Finish
  PROVE  IInv'
<1>1. Collected /\ Ordered /\ Reporting
  BY DEF IInv
<1>2. /\ phase = "inspect" /\ phase' = "done"
      /\ fn' = fn /\ runs' = runs /\ order' = order /\ elements' = elements
      /\ elementOrder' = elementOrder
  BY DEF Finish
<1>3. PICK walk \in [Range(order) -> UNION {Walks(v) : v \in Var}] :
        /\ \A v \in Range(order) : walk[v] \in Walks(v)
        /\ reports' = reports
             \o FlattenSeq([i \in DOMAIN order |-> RunReport(order[i], walk[order[i]])])
             \o FlattenSeq([i \in DOMAIN elementOrder |-> ElementReport(elementOrder[i])])
             \o FlattenSeq([n \in Sites |-> IF fn[n].kind = "diff" THEN DiffReport(fn[n], n) ELSE <<>>])
  BY DEF Finish
<1> DEFINE A == [i \in DOMAIN order |-> RunReport(order[i], walk[order[i]])]
           B == [i \in DOMAIN elementOrder |-> ElementReport(elementOrder[i])]
           C == [n \in Sites |-> IF fn[n].kind = "diff" THEN DiffReport(fn[n], n) ELSE <<>>]
           run(r) == [base |-> r.base, pos |-> r.pos, count |-> r.count, anchor |-> r.anchor]
           element(r) == [base |-> r.base, pos |-> r.pos, count |-> r.count]
<1>4. reports' = ((reports \o FlattenSeq(A)) \o FlattenSeq(B)) \o FlattenSeq(C)
  BY <1>3
<1>5. /\ Len(order) \in Nat /\ DOMAIN order = 1..Len(order)
      /\ Len(elementOrder) \in Nat /\ DOMAIN elementOrder = 1..Len(elementOrder)
      /\ Len(fn) \in Nat /\ Sites = 1..Len(fn)
  <2>1. order \in Seq(Var) /\ elementOrder \in Seq(Var) /\ fn \in Seq(Site)
    BY <1>1 DEF Ordered, Collected
  <2> QED
    BY <2>1, LenProperties DEF Sites
<1>6. ASSUME NEW i \in 1..Len(order)
      PROVE  /\ A[i] \in Seq(Range(A[i])) /\ Placed(A[i]) /\ \A r \in Range(A[i]) : r.shape = "run"
             /\ {run(r) : r \in Range(A[i])}
                = IF order[i] \in Grouped(fn) THEN {Group(fn, order[i])} ELSE {}
  <2> DEFINE v == order[i]
             w == walk[v]
  <2>1. v \in Range(order)
    BY <1>5 DEF Range
  <2>2. v \in Var /\ Hits(fn, Naming(v)) # {} /\ w \in Walks(v)
    BY <1>1, <1>3, <2>1 DEF Ordered
  <2>3. A[i] = RunReport(v, w)
    BY <1>5
  <2> HIDE DEF A, v, w
  <2>4. LET out == RunReport(v, w) IN
        /\ out \in Seq(Range(out)) /\ Placed(out) /\ \A r \in Range(out) : r.shape = "run"
        /\ {[base |-> r.base, pos |-> r.pos, count |-> r.count, anchor |-> r.anchor] : r \in Range(out)}
           = IF v \in Grouped(fn) THEN {Group(fn, v)} ELSE {}
    BY ONLY <1>1, <2>2, RunReportIs
  <2>5. /\ A[i] \in Seq(Range(A[i])) /\ Placed(A[i]) /\ \A r \in Range(A[i]) : r.shape = "run"
        /\ {run(r) : r \in Range(A[i])} = IF v \in Grouped(fn) THEN {Group(fn, v)} ELSE {}
    BY <2>3, <2>4
  <2> QED
    BY <2>5 DEF v
<1>7. ASSUME NEW i \in 1..Len(elementOrder)
      PROVE  /\ B[i] \in Seq(Range(B[i])) /\ \A r \in Range(B[i]) : r.shape = "element"
             /\ {element(r) : r \in Range(B[i])}
                = IF elementOrder[i] \in Collections(fn) THEN {ElementGroup(fn, elementOrder[i])} ELSE {}
  <2> DEFINE v == elementOrder[i]
  <2>1. v \in Range(elementOrder)
    BY <1>5 DEF Range
  <2>2. v \in Var /\ Hits(fn, Indexing(v)) # {}
    BY <1>1, <2>1 DEF Ordered
  <2>3. B[i] = ElementReport(v)
    BY <1>5
  <2> HIDE DEF B, v
  <2>4. LET out == ElementReport(v) IN
        /\ out \in Seq(Range(out)) /\ \A r \in Range(out) : r.shape = "element"
        /\ {[base |-> r.base, pos |-> r.pos, count |-> r.count] : r \in Range(out)}
           = IF v \in Collections(fn) THEN {ElementGroup(fn, v)} ELSE {}
    BY ONLY <1>1, <2>2, ElementReportIs
  <2>5. /\ B[i] \in Seq(Range(B[i])) /\ \A r \in Range(B[i]) : r.shape = "element"
        /\ {element(r) : r \in Range(B[i])} = IF v \in Collections(fn) THEN {ElementGroup(fn, v)} ELSE {}
    BY <2>3, <2>4
  <2> QED
    BY <2>5 DEF v
<1>8. ASSUME NEW n \in 1..Len(fn)
      PROVE  C[n] \in Seq(Range(C[n])) /\ \A r \in Range(C[n]) : r.shape = "diff"
  <2>1. C[n] = IF fn[n].kind = "diff" THEN DiffReport(fn[n], n) ELSE <<>>
    BY <1>5
  <2> HIDE DEF C
  <2> QED
    BY <2>1, DiffReportIs
<1>9. /\ FlattenSeq(A) \in Seq(Range(FlattenSeq(A)))
      /\ Range(FlattenSeq(A)) = UNION {Range(A[i]) : i \in 1..Len(order)}
  <2>1. A = [i \in 1..Len(order) |-> A[i]]
    BY <1>5
  <2> HIDE DEF A, run
  <2>2. \A i \in 1..Len(order) : A[i] \in Seq(Range(A[i]))
    BY <1>6
  <2> QED
    BY ONLY <1>5, <2>1, <2>2, FlattenAll
<1>10. /\ FlattenSeq(B) \in Seq(Range(FlattenSeq(B)))
       /\ Range(FlattenSeq(B)) = UNION {Range(B[i]) : i \in 1..Len(elementOrder)}
  <2>1. B = [i \in 1..Len(elementOrder) |-> B[i]]
    BY <1>5
  <2> HIDE DEF B, element
  <2>2. \A i \in 1..Len(elementOrder) : B[i] \in Seq(Range(B[i]))
    BY <1>7
  <2> QED
    BY ONLY <1>5, <2>1, <2>2, FlattenAll
<1>11. /\ FlattenSeq(C) \in Seq(Range(FlattenSeq(C)))
       /\ Range(FlattenSeq(C)) = UNION {Range(C[n]) : n \in 1..Len(fn)}
  <2>1. C = [n \in 1..Len(fn) |-> C[n]]
    BY <1>5
  <2> HIDE DEF C
  <2>2. \A n \in 1..Len(fn) : C[n] \in Seq(Range(C[n]))
    BY <1>8
  <2> QED
    BY ONLY <1>5, <2>1, <2>2, FlattenAll
<1> HIDE DEF A, B, C
<1>12. /\ reports' \in Seq(Range(reports'))
       /\ \A r : r \in Range(reports') <=>
            \/ r \in Range(reports)
            \/ \E i \in 1..Len(order) : r \in Range(A[i])
            \/ \E i \in 1..Len(elementOrder) : r \in Range(B[i])
            \/ \E n \in 1..Len(fn) : r \in Range(C[n])
  <2> DEFINE fa == FlattenSeq(A)
             fb == FlattenSeq(B)
             fc == FlattenSeq(C)
             ra == reports \o fa
             rb == ra \o fb
             rc == rb \o fc
  <2>1. /\ reports \in Seq(Range(reports)) /\ fa \in Seq(Range(fa)) /\ fb \in Seq(Range(fb))
        /\ fc \in Seq(Range(fc))
    BY <1>1, <1>9, <1>10, <1>11 DEF Reporting
  <2> HIDE DEF fa, fb, fc
  <2>2. ra \in Seq(Range(ra)) /\ Range(ra) = Range(reports) \cup Range(fa)
    BY <2>1, ConcatParts
  <2> HIDE DEF ra
  <2>3. rb \in Seq(Range(rb)) /\ Range(rb) = Range(ra) \cup Range(fb)
    BY <2>1, <2>2, ConcatParts
  <2> HIDE DEF rb
  <2>4. rc \in Seq(Range(rc)) /\ Range(rc) = Range(rb) \cup Range(fc)
    BY <2>1, <2>3, ConcatParts
  <2>5. reports' = rc
    BY <1>4 DEF fa, fb, fc, ra, rb
  <2> HIDE DEF rc
  <2>6. /\ Range(fa) = UNION {Range(A[i]) : i \in 1..Len(order)}
        /\ Range(fb) = UNION {Range(B[i]) : i \in 1..Len(elementOrder)}
        /\ Range(fc) = UNION {Range(C[n]) : n \in 1..Len(fn)}
    BY <1>9, <1>10, <1>11 DEF fa, fb, fc
  <2> QED
    BY <2>2, <2>3, <2>4, <2>5, <2>6
<1>13. \A r \in Range(reports) : r.shape = "inline"
  BY <1>1, <1>2 DEF Reporting
<1> HIDE DEF run, element
<1>14. {run(r) : r \in {s \in Range(reports') : s.shape = "run"}} = {Group(fn, v) : v \in Grouped(fn)}
  <2>1. \A r : (r \in Range(reports') /\ r.shape = "run") <=> \E i \in 1..Len(order) : r \in Range(A[i])
    BY <1>6, <1>7, <1>8, <1>12, <1>13
  <2>2. ASSUME NEW i \in 1..Len(order), NEW r \in Range(A[i])
        PROVE  order[i] \in Grouped(fn) /\ run(r) = Group(fn, order[i])
    <3> DEFINE G == Grouped(fn)
               one == Group(fn, order[i])
    <3>1. {run(s) : s \in Range(A[i])} = IF order[i] \in G THEN {one} ELSE {}
      BY <1>6
    <3>2. run(r) \in {run(s) : s \in Range(A[i])}
      OBVIOUS
    <3> HIDE DEF G, one
    <3>3. run(r) \in IF order[i] \in G THEN {one} ELSE {}
      BY <3>1, <3>2
    <3>4. order[i] \in G /\ run(r) = one
      BY <3>3
    <3> QED
      BY <3>4 DEF G, one
  <2>3. ASSUME NEW v \in Grouped(fn)
        PROVE  \E i \in 1..Len(order) : \E r \in Range(A[i]) : run(r) = Group(fn, v)
    <3>1. v \in Range(order)
      BY <1>1 DEF Ordered, Grouped
    <3>2. PICK i \in 1..Len(order) : order[i] = v
      BY <1>5, <3>1 DEF Range
    <3> DEFINE G == Grouped(fn)
               one == Group(fn, v)
    <3> HIDE DEF G, one
    <3>3. {run(r) : r \in Range(A[i])} = {one}
      <4>1. {run(r) : r \in Range(A[i])} = IF order[i] \in G THEN {Group(fn, order[i])} ELSE {}
        BY <1>6 DEF G
      <4>2. order[i] \in G
        BY <3>2 DEF G
      <4>3. Group(fn, order[i]) = one
        BY <3>2 DEF one
      <4> QED
        BY <4>1, <4>2, <4>3
    <3>4. one \in {run(r) : r \in Range(A[i])}
      BY <3>3
    <3> QED
      BY <3>4 DEF one
  <2>4. ASSUME NEW x PROVE x \in {run(r) : r \in {s \in Range(reports') : s.shape = "run"}}
                           <=> x \in {Group(fn, v) : v \in Grouped(fn)}
    BY <2>1, <2>2, <2>3
  <2> QED
    BY <2>4
<1>15. {element(r) : r \in {s \in Range(reports') : s.shape = "element"}}
       = {ElementGroup(fn, v) : v \in Collections(fn)}
  <2>1. \A r : (r \in Range(reports') /\ r.shape = "element")
               <=> \E i \in 1..Len(elementOrder) : r \in Range(B[i])
    BY <1>6, <1>7, <1>8, <1>12, <1>13
  <2>2. ASSUME NEW i \in 1..Len(elementOrder), NEW r \in Range(B[i])
        PROVE  elementOrder[i] \in Collections(fn) /\ element(r) = ElementGroup(fn, elementOrder[i])
    <3> DEFINE G == Collections(fn)
               one == ElementGroup(fn, elementOrder[i])
    <3>1. {element(s) : s \in Range(B[i])} = IF elementOrder[i] \in G THEN {one} ELSE {}
      BY <1>7
    <3>2. element(r) \in {element(s) : s \in Range(B[i])}
      OBVIOUS
    <3> HIDE DEF G, one
    <3>3. element(r) \in IF elementOrder[i] \in G THEN {one} ELSE {}
      BY <3>1, <3>2
    <3>4. elementOrder[i] \in G /\ element(r) = one
      BY <3>3
    <3> QED
      BY <3>4 DEF G, one
  <2>3. ASSUME NEW v \in Collections(fn)
        PROVE  \E i \in 1..Len(elementOrder) : \E r \in Range(B[i]) : element(r) = ElementGroup(fn, v)
    <3>1. v \in Range(elementOrder)
      BY <1>1 DEF Ordered, Collections
    <3>2. PICK i \in 1..Len(elementOrder) : elementOrder[i] = v
      BY <1>5, <3>1 DEF Range
    <3> DEFINE G == Collections(fn)
               one == ElementGroup(fn, v)
    <3> HIDE DEF G, one
    <3>3. {element(r) : r \in Range(B[i])} = {one}
      <4>1. {element(r) : r \in Range(B[i])}
            = IF elementOrder[i] \in G THEN {ElementGroup(fn, elementOrder[i])} ELSE {}
        BY <1>7 DEF G
      <4>2. elementOrder[i] \in G
        BY <3>2 DEF G
      <4>3. ElementGroup(fn, elementOrder[i]) = one
        BY <3>2 DEF one
      <4> QED
        BY <4>1, <4>2, <4>3
    <3>4. one \in {element(r) : r \in Range(B[i])}
      BY <3>3
    <3> QED
      BY <3>4 DEF one
  <2>4. ASSUME NEW x PROVE x \in {element(r) : r \in {s \in Range(reports') : s.shape = "element"}}
                           <=> x \in {ElementGroup(fn, v) : v \in Collections(fn)}
    BY <2>1, <2>2, <2>3
  <2> QED
    BY <2>4
<1>16. RunReported(reports') = RunGroups(fn) /\ ElementReported(reports') = ElementGroups(fn)
  BY <1>14, <1>15 DEF RunReported, ElementReported, RunGroups, ElementGroups, Group, ElementGroup, run, element
<1>17. Placed(reports')
  <2> SUFFICES ASSUME NEW r \in Range(reports'), r.shape = "run"
               PROVE  r.at = TypeAt(VarType[r.base], r.anchor)
    BY DEF Placed
  <2>1. PICK i \in 1..Len(order) : r \in Range(A[i])
    BY <1>7, <1>8, <1>12, <1>13
  <2>2. Placed(A[i])
    BY <1>6
  <2> QED
    BY <2>1, <2>2 DEF Placed
<1>18. Reporting'
  BY <1>2, <1>12, <1>16, <1>17 DEF Reporting, Placed
<1>19. Collected' /\ Ordered'
  BY <1>1, <1>2 DEF Collected, Ordered
<1> QED
  BY <1>18, <1>19 DEF IInv

LEMMA Inductive ==
  ASSUME IInv, [Next]_vars
  PROVE  IInv'
<1>1. ASSUME NEW site \in Site, Visit(site) PROVE IInv'
  BY <1>1, VisitIInv
<1>2. CASE Finish
  BY <1>2, FinishIInv
<1>3. CASE UNCHANGED vars
  BY <1>3 DEF vars, IInv, Collected, Ordered, Reporting, Placed
<1> QED
  BY <1>1, <1>2, <1>3 DEF Next

LEMMA Invariant ==
  Spec => []IInv
<1>1. Init => IInv
  BY InitIInv
<1>2. IInv /\ [Next]_vars => IInv'
  BY Inductive
<1> QED
  BY <1>1, <1>2, PTL DEF Spec

-------------------------------------------------------------------------------
(* What the invariant says of the properties.                              *)

LEMMA Typing ==
  ASSUME IInv
  PROVE  TypeOK
<1>1. /\ fn \in Seq(Site) /\ Len(fn) <= MaxSites
      /\ runs = [v \in Var |-> RunOf(fn, v)]
      /\ elements = [v \in Var |-> ElementsOf(fn, v)]
  BY DEF IInv, Collected
<1>2. Len(fn) \in Nat /\ MaxSites \in Nat
  <2>1. Len(fn) \in Nat
    BY <1>1, LenProperties
  <2> QED
    BY <2>1, TypeGraphAssumption
<1>3. \A H : Cardinality(Hits(fn, H)) \in 0..MaxSites /\ FirstOf(Hits(fn, H)) \in 0..MaxSites
  <2> SUFFICES ASSUME NEW H
               PROVE  Cardinality(Hits(fn, H)) \in 0..MaxSites /\ FirstOf(Hits(fn, H)) \in 0..MaxSites
    OBVIOUS
  <2> DEFINE c == Cardinality(Hits(fn, H))
             k == FirstOf(Hits(fn, H))
  <2>1. c \in 0..Len(fn) /\ k \in 0..Len(fn)
    BY <1>1, HitsTyped
  <2>2. Len(fn) <= MaxSites
    BY <1>1
  <2> HIDE DEF c, k
  <2>3. c \in 0..MaxSites /\ k \in 0..MaxSites
    BY ONLY <1>2, <2>1, <2>2
  <2> QED
    BY <2>3 DEF c, k
<1>4. \A v \in Var : Contributed(fn, v) \subseteq Seq(Name)
  BY <1>1, ContributedTyped
<1>5. runs \in [Var -> [fields : SUBSET Seq(Name), first : 0..MaxSites, roundtrip : 0..MaxSites]]
  BY <1>1, <1>3, <1>4 DEF RunOf
<1>6. elements \in [Var -> [count : 0..MaxSites, first : 0..MaxSites]]
  BY <1>1, <1>3 DEF ElementsOf
<1>7. /\ {order, elementOrder} \subseteq Seq(Var) /\ IsInjective(order) /\ IsInjective(elementOrder)
      /\ phase \in {"inspect", "done"}
  BY DEF IInv, Ordered, Reporting
<1> QED
  BY <1>1, <1>5, <1>6, <1>7 DEF TypeOK

LEMMA Anchoring ==
  ASSUME IInv
  PROVE  AnchorDeepest
<1> SUFFICES ASSUME NEW v \in Range(order), NEW walk \in Walks(v)
             PROVE  LET shared == LongestCommonPrefix({Front(p) : p \in runs[v].fields}) IN
                    /\ AnchorAlong(v, walk).names = shared
                    /\ AnchorAlong(v, walk).at = TypeAt(VarType[v], shared)
  BY DEF AnchorDeepest
<1>1. Collected /\ v \in Var /\ Hits(fn, Naming(v)) # {}
  BY DEF IInv, Ordered
<1>2. runs[v].fields = Contributed(fn, v)
  BY <1>1 DEF Collected, RunOf
<1>3. LongestCommonPrefix({Front(p) : p \in runs[v].fields}) = AnchorOf(Contributed(fn, v))
  BY <1>2 DEF AnchorOf
<1>4. /\ AnchorAlong(v, walk).names = AnchorOf(Contributed(fn, v))
      /\ AnchorAlong(v, walk).at = TypeAt(VarType[v], AnchorOf(Contributed(fn, v)))
  BY <1>1, AnchorFoundAt
<1> QED
  BY <1>3, <1>4

(* The count of the specification, read off the sites.                     *)
LEMMA Counting ==
  ASSUME IInv
  PROVE  RunsDocumented
<1> DEFINE at(v) == {n \in Asserting : Cardinality(Named(fn[n])[v]) = 1}
           asserted(v) == UNION {Named(fn[n])[v] : n \in at(v)}
           anchor(v) == LongestCommonPrefix({Front(p) : p \in asserted(v)})
           type(v) == TypeAt(VarType[v], anchor(v))
           cost(v) == Cut(v, anchor(v), asserted(v))
           paired(v, w) == {n \in at(v) : SameShape(VarType[v], VarType[w])
                                          /\ Named(fn[n])[w] = Named(fn[n])[v]}
           pairedAtAll(v) == UNION {paired(v, w) : w \in Var \ {v}}
           roundtrip(v) == \E w \in Var \ {v} : Cardinality(paired(v, w)) >= MinFields
           scattered(v) == ~roundtrip(v) /\ Cardinality(pairedAtAll(v)) >= MinFields
           group == {v \in Var : /\ Cardinality(asserted(v)) >= MinFields
                                 /\ at(v) # {}
                                 /\ \A n \in Sites : fn[n].kind = "range" => v \notin fn[n].vars}
           passing == {w \in group : /\ ~scattered(w)
                                     /\ IF EqualStop(type(w)) THEN cost(w) = 0
                                        ELSE cost(w) <= MaxIgnore \/ roundtrip(w)}
           first(v) == CHOOSE n \in at(v) : \A m \in at(v) : n <= m
           documented(v) == [base |-> v, pos |-> first(v), count |-> Cardinality(asserted(v)),
                             anchor |-> anchor(v)]
           reported == {[base |-> r.base, pos |-> r.pos, count |-> r.count, anchor |-> r.anchor] :
                          r \in {q \in Reported("run") : ~scattered(q.base)}}
<1>1. \A n \in Sites : fn[n] \in Site
  BY ElementOfSeq DEF IInv, Collected, Sites
<1>2. ASSUME NEW v \in Var PROVE at(v) = Hits(fn, Naming(v))
  <2>1. \A n \in Sites : n \in at(v) <=> fn[n] \in Naming(v)
    BY <1>1 DEF Naming, Asserting, Asserts
  <2> QED
    BY <2>1 DEF Hits, Sites, Asserting
<1> HIDE DEF at
<1>3. ASSUME NEW v \in Var PROVE asserted(v) = Contributed(fn, v)
  BY <1>2 DEF Contributed
<1>4. ASSUME NEW v \in Var
      PROVE  ~scattered(v) => (roundtrip(v) <=> Cardinality(Hits(fn, Pairing(v))) >= MinFields)
  <2>1. \A n : n \in at(v) <=> n \in DOMAIN fn /\ fn[n] \in Naming(v)
    BY <1>2 DEF Hits
  <2>2. pairedAtAll(v) = Hits(fn, Pairing(v))
    <3>1. pairedAtAll(v) = {n \in at(v) : \E w \in Var \ {v} :
                              SameShape(VarType[v], VarType[w]) /\ Named(fn[n])[w] = Named(fn[n])[v]}
      OBVIOUS
    <3> HIDE DEF pairedAtAll
    <3> QED
      BY <2>1, <3>1 DEF Hits, Pairing
  <2>3. IsFiniteSet(Hits(fn, Pairing(v)))
    BY HitsTyped DEF IInv, Collected
  <2>4. ASSUME NEW w \in Var \ {v}
        PROVE  /\ Cardinality(paired(v, w)) <= Cardinality(Hits(fn, Pairing(v)))
               /\ Cardinality(paired(v, w)) \in Nat
    <3>1. paired(v, w) \subseteq Hits(fn, Pairing(v))
      BY <2>2
    <3> HIDE DEF paired
    <3> QED
      BY <2>3, <3>1, FS_Subset, FS_CardinalityType
  <2>5. Cardinality(Hits(fn, Pairing(v))) \in Nat
    BY <2>3, FS_CardinalityType
  <2> HIDE DEF paired, pairedAtAll
  <2> QED
    BY <2>2, <2>4, <2>5, TypeGraphAssumption DEF scattered, roundtrip
<1> HIDE DEF asserted, paired, scattered, roundtrip
<1>5. ASSUME NEW v \in Var PROVE anchor(v) = AnchorOf(Contributed(fn, v))
  BY <1>3 DEF AnchorOf
<1> HIDE DEF anchor
<1>6. passing = {v \in Grouped(fn) : ~scattered(v)}
  <2> SUFFICES ASSUME NEW v \in Var PROVE v \in passing <=> v \in Grouped(fn) /\ ~scattered(v)
    BY DEF Grouped
  <2> DEFINE S == Contributed(fn, v)
  <2>1. asserted(v) = S /\ anchor(v) = AnchorOf(S) /\ at(v) = Hits(fn, Naming(v))
    BY <1>2, <1>3, <1>5
  <2>2. v \in passing <=>
          /\ Cardinality(asserted(v)) >= MinFields /\ at(v) # {}
          /\ \A n \in Sites : fn[n].kind = "range" => v \notin fn[n].vars
          /\ ~scattered(v)
          /\ IF EqualStop(type(v)) THEN cost(v) = 0
             ELSE cost(v) <= MaxIgnore \/ roundtrip(v)
    <3> HIDE DEF type, cost
    <3> QED
      OBVIOUS
  <2>3. v \in Grouped(fn) <=>
          LET t == TypeAt(VarType[v], AnchorOf(S))
              c == Cut(v, AnchorOf(S), S) IN
          /\ Hits(fn, Naming(v)) # {} /\ Clean(fn, v) /\ Cardinality(S) >= MinFields
          /\ IF EqualStop(t) THEN c = 0
             ELSE c <= MaxIgnore \/ Cardinality(Hits(fn, Pairing(v))) >= MinFields
    BY DEF Grouped
  <2>4. type(v) = TypeAt(VarType[v], AnchorOf(S)) /\ cost(v) = Cut(v, AnchorOf(S), S)
    BY <2>1
  <2>5. (\A n \in Sites : fn[n].kind = "range" => v \notin fn[n].vars) <=> Clean(fn, v)
    BY DEF Clean, Sites
  <2> HIDE DEF type, cost, S
  <2> QED
    BY <1>4, <2>1, <2>2, <2>3, <2>4, <2>5
<1>7. \A v \in passing : documented(v) = Group(fn, v)
  <2> SUFFICES ASSUME NEW v \in passing PROVE documented(v) = Group(fn, v)
    OBVIOUS
  <2>1. v \in Var /\ Hits(fn, Naming(v)) # {}
    BY <1>6 DEF Grouped
  <2>2. first(v) = FirstOf(Hits(fn, Naming(v)))
    <3>1. at(v) = Hits(fn, Naming(v))
      BY <1>2, <2>1
    <3> QED
      BY <2>1, <3>1 DEF FirstOf
  <2>3. asserted(v) = Contributed(fn, v) /\ anchor(v) = AnchorOf(Contributed(fn, v))
    BY <1>3, <1>5, <2>1
  <2> HIDE DEF first
  <2> QED
    BY <2>2, <2>3 DEF Group
<1>8. phase = "done" => reported = {documented(v) : v \in passing}
  <2> HAVE phase = "done"
  <2>1. RunReported(reports) = RunGroups(fn)
    BY DEF IInv, Reporting
  <2>2. reported = {g \in RunReported(reports) : ~scattered(g.base)}
    BY DEF Reported, RunReported
  <2>3. RunGroups(fn) = {Group(fn, v) : v \in Grouped(fn)} /\ \A v : Group(fn, v).base = v
    BY DEF RunGroups, Group
  <2> HIDE DEF reported, documented, passing
  <2>4. {documented(v) : v \in passing}
          = {g \in {Group(fn, v) : v \in Grouped(fn)} : ~scattered(g.base)}
    BY <1>6, <1>7, <2>3
  <2> QED
    BY <2>1, <2>2, <2>3, <2>4
<1> QED
  BY <1>8 DEF RunsDocumented, at, asserted, anchor, paired, roundtrip, scattered

LEMMA ElementCounting ==
  ASSUME IInv
  PROVE  ElementsDocumented
<1> DEFINE at(v) == {n \in Asserting :
                       /\ \E i \in Indexed(fn[n]) : fn[n].operands[i].base = v
                       /\ \E i, j \in Indexed(fn[n]) : i # j}
           passing == {w \in Var \ Cases : /\ Cardinality(at(w)) >= MinFields /\ at(w) # {}
                                           /\ NonTrivialElem(VarType[w])}
           first(v) == CHOOSE n \in at(v) : \A m \in at(v) : n <= m
           documented(v) == [base |-> v, pos |-> first(v), count |-> Cardinality(at(v))]
           reported == {[base |-> r.base, pos |-> r.pos, count |-> r.count] : r \in Reported("element")}
<1>1. \A n \in Sites : fn[n] \in Site
  BY ElementOfSeq DEF IInv, Collected, Sites
<1>2. ASSUME NEW v \in Var PROVE at(v) = Hits(fn, Indexing(v))
  <2>1. \A n \in Sites : n \in at(v) <=> fn[n] \in Indexing(v)
    BY <1>1 DEF Indexing, Asserting, Asserts
  <2> QED
    BY <2>1 DEF Hits, Sites, Asserting
<1> HIDE DEF at
<1>3. passing = Collections(fn)
  BY <1>2, CleanIs DEF Collections
<1>4. \A v \in passing : documented(v) = ElementGroup(fn, v)
  <2> SUFFICES ASSUME NEW v \in passing PROVE documented(v) = ElementGroup(fn, v)
    OBVIOUS
  <2>1. v \in Var /\ at(v) = Hits(fn, Indexing(v)) /\ at(v) # {}
    BY <1>2
  <2>2. first(v) = FirstOf(Hits(fn, Indexing(v)))
    BY <2>1 DEF FirstOf
  <2> HIDE DEF first
  <2> QED
    BY <2>1, <2>2 DEF ElementGroup
<1>5. phase = "done" => reported = {documented(v) : v \in passing}
  <2> HAVE phase = "done"
  <2>1. ElementReported(reports) = ElementGroups(fn)
    BY DEF IInv, Reporting
  <2>2. reported = ElementReported(reports)
    BY DEF Reported, ElementReported
  <2>3. ElementGroups(fn) = {ElementGroup(fn, v) : v \in Collections(fn)}
    BY DEF ElementGroups, ElementGroup
  <2> HIDE DEF reported, documented, passing
  <2>4. {documented(v) : v \in passing} = {ElementGroup(fn, v) : v \in Collections(fn)}
    BY <1>3, <1>4
  <2> QED
    BY <2>1, <2>2, <2>3, <2>4
<1> QED
  BY <1>5 DEF ElementsDocumented, at

-------------------------------------------------------------------------------
(* The type at a path.                                                     *)

FieldType(t, n) == (CHOOSE f \in Selectable[t] : f.name = n).type

IsTyped(at, t, p, n) == at = [k \in 0..n |-> IF k = 0 THEN t ELSE FieldType(at[k - 1], p[k])]

LEMMA TypedExists ==
  ASSUME NEW t, NEW p, NEW n \in Nat
  PROVE  \E at : IsTyped(at, t, p, n)
<1> DEFINE S == {m \in Nat : \E at : IsTyped(at, t, p, m)}
<1>1. 0 \in S
  <2>1. IsTyped([i \in 0..0 |-> t], t, p, 0)
    BY DEF IsTyped
  <2> QED
    BY <2>1
<1>2. ASSUME NEW m \in S PROVE m + 1 \in S
  <2>0. m \in Nat
    OBVIOUS
  <2>1. PICK f : IsTyped(f, t, p, m)
    OBVIOUS
  <2> DEFINE g == [i \in 0..(m + 1) |-> IF i = 0 THEN t ELSE FieldType(f[i - 1], p[i])]
  <2> HIDE DEF S
  <2>2. ASSUME NEW i \in 0..m PROVE g[i] = f[i]
    <3>1. f[i] = IF i = 0 THEN t ELSE FieldType(f[i - 1], p[i])
      BY <2>1 DEF IsTyped
    <3>2. i \in 0..(m + 1)
      BY <2>0
    <3> QED
      BY <3>1, <3>2
  <2>3. ASSUME NEW i \in 0..(m + 1), i # 0 PROVE g[i - 1] = f[i - 1]
    <3>1. i - 1 \in 0..m
      BY <2>0, <2>3
    <3> HIDE DEF g
    <3> QED
      BY <2>2, <3>1
  <2>4. \A i \in 0..(m + 1) : g[i] = IF i = 0 THEN t ELSE FieldType(g[i - 1], p[i])
    BY <2>3
  <2>5. IsTyped(g, t, p, m + 1)
    <3>1. g = [i \in 0..(m + 1) |-> g[i]]
      OBVIOUS
    <3> HIDE DEF g
    <3> QED
      BY <2>4, <3>1 DEF IsTyped
  <2> HIDE DEF g
  <2> QED
    BY <2>0, <2>5 DEF S
<1> HIDE DEF S
<1>3. S \subseteq Nat
  BY DEF S
<1>4. n \in S
  BY <1>1, <1>2, <1>3, SetInduction
<1> QED
  BY <1>4 DEF S

LEMMA TypedIs ==
  ASSUME NEW t, NEW p \in Seq(Name)
  PROVE  \E at : IsTyped(at, t, p, Len(p)) /\ TypeAt(t, p) = at[Len(p)]
<1> DEFINE at == CHOOSE a : IsTyped(a, t, p, Len(p))
<1>1. Len(p) \in Nat
  BY LenProperties
<1>2. IsTyped(at, t, p, Len(p))
  <2>1. \E a : IsTyped(a, t, p, Len(p))
    BY <1>1, TypedExists
  <2> QED
    BY <2>1
<1>3. TypeAt(t, p) = at[Len(p)]
  BY DEF TypeAt, IsTyped, FieldType
<1> HIDE DEF at
<1> QED
  BY <1>2, <1>3

(* Two paths that agree so far lead to one type.                           *)
LEMMA TypedAgree ==
  ASSUME NEW t, NEW p, NEW q, NEW m \in Nat, NEW n \in Nat, NEW f, NEW g, m <= n,
         IsTyped(f, t, p, m), IsTyped(g, t, q, n), \A i \in 1..m : p[i] = q[i]
  PROVE  f[m] = g[m]
<1> DEFINE S == {k \in Nat : k <= m => f[k] = g[k]}
<1>1. 0 \in S
  <2>1. f[0] = t /\ g[0] = t
    BY DEF IsTyped
  <2> QED
    BY <2>1
<1>2. ASSUME NEW k \in S PROVE k + 1 \in S
  <2>1. k \in Nat /\ k + 1 \in Nat
    OBVIOUS
  <2>2. ASSUME k + 1 <= m PROVE f[k + 1] = g[k + 1]
    <3>1. f[k] = g[k] /\ p[k + 1] = q[k + 1] /\ k + 1 \in 0..m /\ k + 1 \in 0..n /\ k + 1 # 0
          /\ (k + 1) - 1 = k
      BY <2>1, <2>2
    <3>2. f[k + 1] = FieldType(f[k], p[k + 1])
      BY <3>1 DEF IsTyped
    <3>3. g[k + 1] = FieldType(g[k], q[k + 1])
      BY <3>1 DEF IsTyped
    <3> QED
      BY <3>1, <3>2, <3>3
  <2> QED
    BY <2>1, <2>2
<1> HIDE DEF S
<1>3. S \subseteq Nat
  BY DEF S
<1>4. m \in S
  BY <1>1, <1>2, <1>3, SetInduction
<1> QED
  BY <1>4 DEF S

(* One name more.                                                          *)
LEMMA TypeAtNext ==
  ASSUME NEW t, NEW p \in Seq(Name), NEW n \in Name
  PROVE  TypeAt(t, Append(p, n)) = FieldType(TypeAt(t, p), n)
<1> DEFINE q == Append(p, n)
<1>1. /\ Len(p) \in Nat /\ q \in Seq(Name) /\ Len(q) = Len(p) + 1
      /\ \A i \in 1..Len(p) : q[i] = p[i]
      /\ q[Len(p) + 1] = n
  BY AppendProperties, LenProperties
<1> HIDE DEF q
<1>2. PICK f : IsTyped(f, t, p, Len(p)) /\ TypeAt(t, p) = f[Len(p)]
  BY TypedIs
<1>3. PICK g : IsTyped(g, t, q, Len(q)) /\ TypeAt(t, q) = g[Len(q)]
  BY <1>1, TypedIs
<1>4. f[Len(p)] = g[Len(p)]
  <2>1. Len(p) <= Len(q) /\ Len(q) \in Nat /\ \A i \in 1..Len(p) : p[i] = q[i]
    BY <1>1
  <2> QED
    BY <1>1, <1>2, <1>3, <2>1, TypedAgree
<1>5. g[Len(p) + 1] = FieldType(g[Len(p)], q[Len(p) + 1])
  <2>1. Len(p) + 1 \in 0..Len(q) /\ Len(p) + 1 # 0 /\ (Len(p) + 1) - 1 = Len(p)
    BY <1>1
  <2> QED
    BY <1>3, <2>1 DEF IsTyped
<1> QED
  BY <1>1, <1>2, <1>3, <1>4, <1>5 DEF q

(* The types below a type, one after another.                              *)
IsBelow(chain, t, n) ==
  chain = [k \in 0..n |-> IF k = 0 THEN t
                          ELSE IF chain[k - 1] = NoType THEN NoType ELSE Of[chain[k - 1]]]

LEMMA BelowExists ==
  ASSUME NEW t, NEW n \in Nat
  PROVE  \E chain : IsBelow(chain, t, n)
<1> DEFINE S == {m \in Nat : \E chain : IsBelow(chain, t, m)}
           next(x) == IF x = NoType THEN NoType ELSE Of[x]
<1>1. 0 \in S
  <2>1. IsBelow([i \in 0..0 |-> t], t, 0)
    BY DEF IsBelow
  <2> QED
    BY <2>1
<1>2. ASSUME NEW m \in S PROVE m + 1 \in S
  <2>0. m \in Nat
    OBVIOUS
  <2>1. PICK f : IsBelow(f, t, m)
    OBVIOUS
  <2> DEFINE g == [i \in 0..(m + 1) |-> IF i = 0 THEN t ELSE next(f[i - 1])]
  <2> HIDE DEF S
  <2>2. ASSUME NEW i \in 0..m PROVE g[i] = f[i]
    <3>1. f[i] = IF i = 0 THEN t ELSE next(f[i - 1])
      BY <2>1 DEF IsBelow
    <3>2. i \in 0..(m + 1)
      BY <2>0
    <3> HIDE DEF next
    <3> QED
      BY <3>1, <3>2
  <2>3. ASSUME NEW i \in 0..(m + 1), i # 0 PROVE g[i - 1] = f[i - 1]
    <3>1. i - 1 \in 0..m
      BY <2>0, <2>3
    <3> HIDE DEF g
    <3> QED
      BY <2>2, <3>1
  <2>4. \A i \in 0..(m + 1) : g[i] = IF i = 0 THEN t ELSE next(g[i - 1])
    <3> HIDE DEF next
    <3> QED
      BY <2>3
  <2>5. IsBelow(g, t, m + 1)
    <3>1. g = [i \in 0..(m + 1) |-> g[i]]
      OBVIOUS
    <3> HIDE DEF g
    <3> QED
      BY <2>4, <3>1 DEF IsBelow
  <2> HIDE DEF g
  <2> QED
    BY <2>0, <2>5 DEF S
<1> HIDE DEF S
<1>3. S \subseteq Nat
  BY DEF S
<1>4. n \in S
  BY <1>1, <1>2, <1>3, SetInduction
<1> QED
  BY <1>4 DEF S

LEMMA BelowIs ==
  ASSUME NEW t \in Type
  PROVE  /\ Below[t][0] = t
         /\ \A k \in 1..MaxDepth :
              Below[t][k] = IF Below[t][k - 1] = NoType THEN NoType ELSE Of[Below[t][k - 1]]
         /\ \A k \in 0..MaxDepth : Below[t][k] \in Type \cup {NoType}
<1> DEFINE chain == CHOOSE c : IsBelow(c, t, MaxDepth)
           S == {k \in Nat : k <= MaxDepth => chain[k] \in Type \cup {NoType}}
<1>1. MaxDepth \in Nat /\ Of \in [Type -> Type \cup {NoType}]
  BY TypeGraphAssumption
<1>2. IsBelow(chain, t, MaxDepth)
  <2>1. \E c : IsBelow(c, t, MaxDepth)
    BY <1>1, BelowExists
  <2> QED
    BY <2>1
<1>3. Below[t] = chain
  BY DEF Below, IsBelow
<1> HIDE DEF chain
<1>4. /\ chain[0] = t
      /\ \A k \in 1..MaxDepth :
           chain[k] = IF chain[k - 1] = NoType THEN NoType ELSE Of[chain[k - 1]]
  BY <1>1, <1>2 DEF IsBelow
<1>5. 0 \in S
  BY <1>4
<1>6. ASSUME NEW k \in S PROVE k + 1 \in S
  <2>1. k \in Nat
    OBVIOUS
  <2>2. ASSUME k + 1 <= MaxDepth PROVE chain[k + 1] \in Type \cup {NoType}
    <3>1. k <= MaxDepth /\ k + 1 \in 1..MaxDepth /\ (k + 1) - 1 = k
      BY <1>1, <2>1, <2>2
    <3>2. chain[k] \in Type \cup {NoType}
      BY <3>1
    <3>3. chain[k + 1] = IF chain[k] = NoType THEN NoType ELSE Of[chain[k]]
      BY <1>4, <3>1
    <3> QED
      BY <1>1, <3>2, <3>3
  <2> QED
    BY <2>1, <2>2
<1> HIDE DEF S
<1>7. S \subseteq Nat
  BY DEF S
<1>8. \A k \in Nat : k \in S
  BY <1>5, <1>6, <1>7, SetInduction
<1>9. \A k \in 0..MaxDepth : chain[k] \in Type \cup {NoType}
  <2> TAKE k \in 0..MaxDepth
  <2>1. k \in Nat /\ k <= MaxDepth
    BY <1>1
  <2> QED
    BY <1>8, <2>1 DEF S
<1> QED
  BY <1>3, <1>4, <1>9

LEMMA StructIs ==
  ASSUME NEW t \in Type, NEW open \in BOOLEAN
  PROVE  StructUnder(t, open) \in Type \cup {NoType}
<1> DEFINE found == {k \in 0..(MaxDepth - 1) :
                       /\ Below[t][k] # NoType /\ Kind[Below[t][k]] = "struct"
                       /\ open \/ \A j \in 0..k : Below[t][j] \notin HasEqual}
           k0 == CHOOSE k \in found : TRUE
<1>1. StructUnder(t, open) = IF found = {} THEN NoType ELSE Below[t][k0]
  BY DEF StructUnder, Structs
<1>2. ASSUME found # {} PROVE Below[t][k0] \in Type \cup {NoType}
  <2>1. k0 \in found
    BY <1>2
  <2>2. k0 \in 0..(MaxDepth - 1)
    BY <2>1
  <2>3. MaxDepth \in Nat
    BY TypeGraphAssumption
  <2> HIDE DEF k0, found
  <2>4. k0 \in 0..MaxDepth
    BY <2>2, <2>3
  <2> QED
    BY <2>4, BelowIs
<1> HIDE DEF found, k0
<1> QED
  BY <1>1, <1>2

(* The fields that can be selected: finitely many, of a type each.         *)
LEMMA SelectableIs ==
  ASSUME NEW t \in Type
  PROVE  /\ IsFiniteSet(Selectable[t])
         /\ \A f \in Selectable[t] : f.name \in Name /\ FieldType(t, f.name) \in Type
<1> DEFINE u == StructUnder(t, TRUE)
           Declared == [name : Name, type : Type, exported : BOOLEAN, embedded : BOOLEAN]
<1>1. Selectable[t] = IF u = NoType THEN {} ELSE Range(Fields[u])
  BY DEF Selectable
<1>2. u \in Type \cup {NoType}
  BY StructIs
<1> HIDE DEF u
<1>3. ASSUME u # NoType PROVE IsFiniteSet(Range(Fields[u])) /\ Range(Fields[u]) \subseteq Declared
  <2>1. Fields[u] \in Seq(Declared)
    BY <1>2, <1>3, TypeGraphAssumption
  <2> HIDE DEF Declared
  <2>2. /\ Len(Fields[u]) \in Nat /\ DOMAIN Fields[u] = 1..Len(Fields[u])
        /\ Fields[u] \in [1..Len(Fields[u]) -> Declared]
    BY <2>1, LenProperties
  <2> DEFINE s == Fields[u]
             n == Len(s)
  <2>3. s \in Surjection(1..n, Range(s))
    <3>1. s = [i \in 1..n |-> s[i]]
      BY <2>2
    <3>2. \A i \in 1..n : s[i] \in Range(s)
      BY <2>2 DEF Range
    <3>3. s \in [1..n -> Range(s)]
      BY <3>1, <3>2
    <3> QED
      BY <2>2, <3>3 DEF Surjection, Range
  <2>4. IsFiniteSet(1..n)
    BY <2>2, FS_Interval
  <2>5. IsFiniteSet(Range(s))
    BY <2>3, <2>4, FS_Surjection
  <2>6. Range(s) \subseteq Declared
    BY <2>2 DEF Range
  <2> QED
    BY <2>5, <2>6
<1>4. IsFiniteSet(Selectable[t]) /\ Selectable[t] \subseteq Declared
  BY <1>1, <1>3, FS_EmptySet
<1>5. ASSUME NEW f \in Selectable[t] PROVE f.name \in Name /\ FieldType(t, f.name) \in Type
  <2>1. f.name \in Name
    BY <1>4
  <2> DEFINE g == CHOOSE h \in Selectable[t] : h.name = f.name
  <2>2. g \in Selectable[t]
    OBVIOUS
  <2> HIDE DEF g
  <2>3. g.type \in Type
    BY <1>4, <2>2
  <2> QED
    BY <2>1, <2>3 DEF FieldType, g
<1> QED
  BY <1>4, <1>5

-------------------------------------------------------------------------------
(* What a comparison reads: a tree of paths below the anchor.              *)

Opening(v, anchor, q) == StructUnder(TypeAt(VarType[v], q), q = anchor) # NoType

Children(v, q) == {Append(q, f.name) : f \in Selectable[TypeAt(VarType[v], q)]}

IsLevels(level, v, anchor, n) ==
  level = [k \in Len(anchor)..n |->
             IF k = Len(anchor) THEN {anchor}
             ELSE UNION {Children(v, q) : q \in {r \in level[k - 1] : Opening(v, anchor, r)}}]

LEMMA LevelsExist ==
  ASSUME NEW v, NEW anchor, Len(anchor) \in Nat, NEW n \in Nat
  PROVE  \E level : IsLevels(level, v, anchor, n)
<1> DEFINE a == Len(anchor)
           S == {m \in Nat : \E level : IsLevels(level, v, anchor, m)}
           next(x) == UNION {Children(v, q) : q \in {r \in x : Opening(v, anchor, r)}}
<1>0. a \in Nat
  OBVIOUS
<1> HIDE DEF a
<1>1. 0 \in S
  <2>1. IsLevels([k \in a..0 |-> {anchor}], v, anchor, 0)
    <3>1. \A k \in a..0 : k = a
      BY <1>0
    <3>2. [k \in a..0 |-> {anchor}] =
            [k \in a..0 |-> IF k = a THEN {anchor} ELSE next([j \in a..0 |-> {anchor}][k - 1])]
      <4> HIDE DEF next
      <4> QED
        BY <3>1
    <3> QED
      BY <3>2 DEF IsLevels, a
  <2> QED
    BY <2>1
<1>2. ASSUME NEW m \in S PROVE m + 1 \in S
  <2>0. m \in Nat
    OBVIOUS
  <2>1. PICK f : IsLevels(f, v, anchor, m)
    OBVIOUS
  <2> DEFINE g == [k \in a..(m + 1) |-> IF k = a THEN {anchor} ELSE next(f[k - 1])]
  <2> HIDE DEF S
  <2>2. ASSUME NEW k \in a..m PROVE g[k] = f[k]
    <3>1. f[k] = IF k = a THEN {anchor} ELSE next(f[k - 1])
      BY <2>1 DEF IsLevels, a
    <3>2. k \in a..(m + 1)
      BY <1>0, <2>0
    <3> HIDE DEF next
    <3> QED
      BY <3>1, <3>2
  <2>3. ASSUME NEW k \in a..(m + 1), k # a PROVE g[k - 1] = f[k - 1]
    <3>1. k - 1 \in a..m
      BY <1>0, <2>0, <2>3
    <3> HIDE DEF g
    <3> QED
      BY <2>2, <3>1
  <2>4. \A k \in a..(m + 1) : g[k] = IF k = a THEN {anchor} ELSE next(g[k - 1])
    <3> HIDE DEF next
    <3> QED
      BY <2>3
  <2>5. IsLevels(g, v, anchor, m + 1)
    <3>1. g = [k \in a..(m + 1) |-> g[k]]
      OBVIOUS
    <3> HIDE DEF g
    <3> QED
      BY <2>4, <3>1 DEF IsLevels, a
  <2> HIDE DEF g
  <2> QED
    BY <2>0, <2>5 DEF S
<1> HIDE DEF S
<1>3. S \subseteq Nat
  BY DEF S
<1>4. n \in S
  BY <1>1, <1>2, <1>3, SetInduction
<1> QED
  BY <1>4 DEF S

LEMMA LevelsOf ==
  ASSUME NEW v, NEW anchor, Len(anchor) \in Nat, NEW d \in Nat
  PROVE  \E level : /\ IsLevels(level, v, anchor, d)
                    /\ ReadAt(v, anchor, d) = UNION {level[k] : k \in Len(anchor)..d}
<1> DEFINE level == CHOOSE l : IsLevels(l, v, anchor, d)
<1>1. IsLevels(level, v, anchor, d)
  <2>1. \E l : IsLevels(l, v, anchor, d)
    BY LevelsExist
  <2> QED
    BY <2>1
<1>2. ReadAt(v, anchor, d) = UNION {level[k] : k \in Len(anchor)..d}
  BY DEF ReadAt, IsLevels, Children, Opening
<1> HIDE DEF level
<1> QED
  BY <1>1, <1>2

(* A path of k names in a level, and the way to it.                        *)
Grows(level, v, anchor, k) ==
  /\ IsFiniteSet(level[k])
  /\ \A x \in level[k] :
       /\ x \in Seq(Name) /\ Len(x) = k /\ IsPrefix(anchor, x)
       /\ TypeAt(VarType[v], x) \in Type
       /\ \A q \in Seq(Name) :
            IsPrefix(anchor, q) /\ IsStrictPrefix(q, x) =>
              /\ q \in level[Len(q)] /\ Opening(v, anchor, q)
              /\ \E f \in Selectable[TypeAt(VarType[v], q)] : f.name = x[Len(q) + 1]

LEMMA LevelGrows ==
  ASSUME NEW v \in Var, NEW anchor \in Seq(Name), TypeAt(VarType[v], anchor) \in Type,
         NEW d \in Nat, NEW level, IsLevels(level, v, anchor, d)
  PROVE  \A k \in Len(anchor)..d : Grows(level, v, anchor, k)
<1> DEFINE a == Len(anchor)
           S == {n \in Nat : a + n <= d => Grows(level, v, anchor, a + n)}
<1>0. a \in Nat
  BY LenProperties
<1> HIDE DEF a
<1>1. 0 \in S
  <2> SUFFICES ASSUME a <= d PROVE Grows(level, v, anchor, a)
    BY <1>0
  <2>1. level[a] = {anchor}
    <3>1. a \in a..d
      BY <1>0
    <3> QED
      BY <3>1 DEF IsLevels, a
  <2>2. IsFiniteSet(level[a])
    BY <2>1, FS_Singleton
  <2>3. IsPrefix(anchor, anchor)
    BY <1>0, PrefixIs DEF a
  <2>4. ASSUME NEW q \in Seq(Name), IsPrefix(anchor, q), IsStrictPrefix(q, anchor) PROVE FALSE
    <3>1. Len(anchor) <= Len(q) /\ IsPrefix(q, anchor) /\ q # anchor
      BY <2>4 DEF IsPrefix, IsStrictPrefix
    <3> QED
      BY <3>1, PrefixEqual
  <2> QED
    BY <2>1, <2>2, <2>3, <2>4 DEF Grows, a
<1>2. ASSUME NEW n \in S PROVE n + 1 \in S
  <2>0. n \in Nat /\ n + 1 \in Nat
    OBVIOUS
  <2> SUFFICES ASSUME a + (n + 1) <= d PROVE Grows(level, v, anchor, a + (n + 1))
    BY <2>0
  <2> DEFINE k == a + n
             from == {r \in level[k] : Opening(v, anchor, r)}
  <2>1. k \in Nat /\ a <= k /\ k + 1 = a + (n + 1) /\ k + 1 # a /\ (k + 1) - 1 = k /\ k + 1 \in a..d /\ k <= d
    BY <1>0, <2>0
  <2>2. Grows(level, v, anchor, k)
    BY <2>1
  <2> HIDE DEF S
  <2>3. level[k + 1] = UNION {Children(v, q) : q \in from}
    <3> HIDE DEF k
    <3>1. k + 1 # Len(anchor) /\ k + 1 \in Len(anchor)..d /\ (k + 1) - 1 = k
      BY <2>1 DEF a
    <3> QED
      BY <3>1 DEF IsLevels
  <2> HIDE DEF k
  <2>4. \A q \in from : IsFiniteSet(Children(v, q))
    <3> TAKE q \in from
    <3> DEFINE F == Selectable[TypeAt(VarType[v], q)]
               C == Children(v, q)
               h == [f \in F |-> Append(q, f.name)]
    <3>1. IsFiniteSet(F)
      <4>1. TypeAt(VarType[v], q) \in Type
        BY <2>2 DEF Grows
      <4> QED
        BY <4>1, SelectableIs
    <3>2. C = {Append(q, f.name) : f \in F}
      BY DEF Children
    <3> HIDE DEF F, C
    <3>3. h \in Surjection(F, C)
      <4>1. \A f \in F : h[f] \in C
        BY <3>2
      <4>2. \A c \in C : \E f \in F : h[f] = c
        BY <3>2
      <4> QED
        BY <4>1, <4>2 DEF Surjection
    <3>4. IsFiniteSet(C)
      BY <3>1, <3>3, FS_Surjection
    <3> QED
      BY <3>4 DEF C
  <2>5. IsFiniteSet(level[k + 1])
    <3> DEFINE parts == {Children(v, q) : q \in from}
               h == [q \in from |-> Children(v, q)]
    <3>1. IsFiniteSet(level[k]) /\ from \subseteq level[k]
      BY <2>2 DEF Grows
    <3>2. IsFiniteSet(from)
      BY <3>1, FS_Subset
    <3>3. h \in Surjection(from, parts)
      <4> HIDE DEF from
      <4>1. \A q \in from : h[q] \in parts
        OBVIOUS
      <4>2. \A c \in parts : \E q \in from : h[q] = c
        OBVIOUS
      <4> QED
        BY <4>1, <4>2 DEF Surjection
    <3>4. IsFiniteSet(parts)
      BY <3>2, <3>3, FS_Surjection
    <3>5. \A T \in parts : IsFiniteSet(T)
      BY <2>4
    <3> HIDE DEF parts
    <3>6. IsFiniteSet(UNION parts)
      BY <3>4, <3>5, FS_UNION
    <3> QED
      BY <2>3, <3>6 DEF parts
  <2>6. ASSUME NEW x \in level[k + 1]
        PROVE  /\ x \in Seq(Name) /\ Len(x) = k + 1 /\ IsPrefix(anchor, x)
               /\ TypeAt(VarType[v], x) \in Type
               /\ \A q \in Seq(Name) :
                    IsPrefix(anchor, q) /\ IsStrictPrefix(q, x) =>
                      /\ q \in level[Len(q)] /\ Opening(v, anchor, q)
                      /\ \E f \in Selectable[TypeAt(VarType[v], q)] : f.name = x[Len(q) + 1]
    <3>1. PICK r \in from : x \in Children(v, r)
      BY <2>3
    <3>2. /\ r \in level[k] /\ Opening(v, anchor, r)
          /\ r \in Seq(Name) /\ Len(r) = k /\ IsPrefix(anchor, r)
          /\ TypeAt(VarType[v], r) \in Type
          /\ \A q \in Seq(Name) :
               IsPrefix(anchor, q) /\ IsStrictPrefix(q, r) =>
                 /\ q \in level[Len(q)] /\ Opening(v, anchor, q)
                 /\ \E f \in Selectable[TypeAt(VarType[v], q)] : f.name = r[Len(q) + 1]
      BY <2>2 DEF Grows
    <3>3. PICK f \in Selectable[TypeAt(VarType[v], r)] : x = Append(r, f.name)
      BY <3>1 DEF Children
    <3>4. f.name \in Name /\ FieldType(TypeAt(VarType[v], r), f.name) \in Type
      BY <3>2, SelectableIs
    <3>5. /\ x \in Seq(Name) /\ Len(x) = k + 1
          /\ \A i \in 1..k : x[i] = r[i]
          /\ x[k + 1] = f.name
      BY <3>2, <3>3, <3>4, AppendProperties
    <3>6. IsPrefix(r, x)
      BY <2>1, <3>2, <3>5, PrefixIs
    <3>7. IsPrefix(anchor, x)
      BY <3>2, <3>5, <3>6, PrefixTransitive
    <3>8. TypeAt(VarType[v], x) \in Type
      BY <3>2, <3>3, <3>4, TypeAtNext
    <3>9. ASSUME NEW q \in Seq(Name), IsPrefix(anchor, q), IsStrictPrefix(q, x)
          PROVE  /\ q \in level[Len(q)] /\ Opening(v, anchor, q)
                 /\ \E g \in Selectable[TypeAt(VarType[v], q)] : g.name = x[Len(q) + 1]
      <4>1. IsPrefix(q, x) /\ q # x /\ Len(q) \in Nat
        BY <3>9, LenProperties DEF IsStrictPrefix
      <4>2. Len(q) <= k
        <5>1. Len(q) <= Len(x)
          BY <4>1 DEF IsPrefix
        <5>2. Len(q) # k + 1
          <6> SUFFICES ASSUME Len(q) = k + 1 PROVE FALSE
            OBVIOUS
          <6>1. Len(x) <= Len(q)
            BY <2>1, <3>5
          <6> QED
            BY <3>5, <4>1, <6>1, PrefixEqual
        <5> QED
          BY <2>1, <3>5, <4>1, <5>1, <5>2
      <4>3. IsPrefix(q, r)
        BY <3>2, <3>5, <3>6, <4>1, <4>2, PrefixesMeet
      <4>4. CASE q = r
        <5>1. Len(q) = k /\ x[Len(q) + 1] = f.name
          BY <3>2, <3>5, <4>4
        <5> QED
          BY <3>2, <3>3, <4>4, <5>1
      <4>5. CASE q # r
        <5>1. IsStrictPrefix(q, r)
          BY <4>3, <4>5 DEF IsStrictPrefix
        <5>2. Len(q) < k
          <6> SUFFICES ASSUME Len(q) = k PROVE FALSE
            BY <2>1, <4>1, <4>2
          <6>1. Len(r) <= Len(q)
            BY <2>1, <3>2
          <6> QED
            BY <3>2, <4>3, <4>5, <6>1, PrefixEqual
        <5>3. Len(q) + 1 \in 1..k
          BY <2>1, <4>1, <5>2
        <5>4. x[Len(q) + 1] = r[Len(q) + 1]
          BY <3>5, <5>3
        <5> QED
          BY <3>2, <3>9, <5>1, <5>4
      <4> QED
        BY <4>4, <4>5
    <3> QED
      BY <3>5, <3>7, <3>8, <3>9
  <2>7. Grows(level, v, anchor, k + 1)
    BY <2>5, <2>6 DEF Grows
  <2> QED
    BY <2>1, <2>7
<1> HIDE DEF S
<1>3. S \subseteq Nat
  BY DEF S
<1>4. \A n \in Nat : n \in S
  BY <1>1, <1>2, <1>3, SetInduction
<1>5. ASSUME NEW k \in a..d PROVE Grows(level, v, anchor, k)
  <2>1. k - a \in Nat /\ a + (k - a) = k /\ k <= d
    BY <1>0
  <2>2. k - a \in S
    BY <1>4, <2>1
  <2> QED
    BY <2>1, <2>2 DEF S
<1> QED
  BY <1>5 DEF a

(* What the comparison reads below the anchor: the paths lead through what *)
(* it opens, and what it opens it reads, down to the depth.                *)
Tree(read, v, anchor) ==
  /\ read \subseteq Seq(Name) /\ IsFiniteSet(read)
  /\ anchor \in read /\ \A x \in read : IsPrefix(anchor, x)
  /\ \A x \in read : \A q \in Seq(Name) :
       IsPrefix(anchor, q) /\ IsStrictPrefix(q, x) =>
         /\ q \in read /\ Opening(v, anchor, q)
         /\ \E f \in Selectable[TypeAt(VarType[v], q)] : f.name = x[Len(q) + 1]

LEMMA ReadTree ==
  ASSUME NEW v \in Var, NEW anchor \in Seq(Name), TypeAt(VarType[v], anchor) \in Type,
         NEW d \in Nat, Len(anchor) <= d
  PROVE  LET read == ReadAt(v, anchor, d) IN
         /\ Tree(read, v, anchor)
         /\ \A q \in read : Len(q) <= d
         /\ \A q \in read : Len(q) < d /\ Opening(v, anchor, q) => Children(v, q) \subseteq read
<1> DEFINE read == ReadAt(v, anchor, d)
           a == Len(anchor)
<1>0. a \in Nat /\ a <= d
  BY LenProperties
<1>1. PICK level : /\ IsLevels(level, v, anchor, d)
                   /\ read = UNION {level[k] : k \in a..d}
  BY <1>0, LevelsOf
<1>2. \A k \in a..d : Grows(level, v, anchor, k)
  BY <1>1, LevelGrows
<1> HIDE DEF read
<1>3. anchor \in read
  <2>1. a \in a..d
    BY <1>0
  <2>2. level[a] = {anchor}
    BY <1>1, <2>1 DEF IsLevels
  <2> QED
    BY <1>1, <2>1, <2>2
<1>4. ASSUME NEW x \in read
      PROVE  /\ x \in Seq(Name) /\ Len(x) \in a..d /\ x \in level[Len(x)]
             /\ IsPrefix(anchor, x)
             /\ \A q \in Seq(Name) :
                  IsPrefix(anchor, q) /\ IsStrictPrefix(q, x) =>
                    /\ q \in level[Len(q)] /\ Opening(v, anchor, q)
                    /\ \E f \in Selectable[TypeAt(VarType[v], q)] : f.name = x[Len(q) + 1]
  <2>1. PICK k \in a..d : x \in level[k]
    BY <1>1
  <2> QED
    BY <1>2, <2>1 DEF Grows
<1>5. ASSUME NEW x \in read, NEW q \in Seq(Name), IsPrefix(anchor, q), IsStrictPrefix(q, x)
      PROVE  q \in read
  <2>1. Len(q) \in a..d
    <3>1. Len(anchor) <= Len(q) /\ Len(q) <= Len(x) /\ Len(q) \in Nat
      BY <1>5, LenProperties DEF IsPrefix, IsStrictPrefix
    <3> QED
      BY <1>0, <1>4, <3>1
  <2>2. q \in level[Len(q)]
    BY <1>4, <1>5
  <2> QED
    BY <1>1, <2>1, <2>2
<1>6. IsFiniteSet(read)
  <2> DEFINE parts == {level[k] : k \in a..d}
             h == [k \in a..d |-> level[k]]
  <2>1. IsFiniteSet(a..d)
    BY <1>0, FS_Interval
  <2>2. h \in Surjection(a..d, parts)
    <3>1. \A k \in a..d : h[k] \in parts
      OBVIOUS
    <3>2. \A c \in parts : \E k \in a..d : h[k] = c
      OBVIOUS
    <3> QED
      BY <3>1, <3>2 DEF Surjection
  <2>3. IsFiniteSet(parts)
    BY <2>1, <2>2, FS_Surjection
  <2>4. \A T \in parts : IsFiniteSet(T)
    BY <1>2 DEF Grows
  <2> HIDE DEF parts
  <2>5. IsFiniteSet(UNION parts)
    BY <2>3, <2>4, FS_UNION
  <2> QED
    BY <1>1, <2>5 DEF parts
<1>7. Tree(read, v, anchor)
  BY <1>3, <1>4, <1>5, <1>6 DEF Tree
<1>8. ASSUME NEW q \in read, Len(q) < d, Opening(v, anchor, q) PROVE Children(v, q) \subseteq read
  <2>1. Len(q) \in a..d /\ q \in level[Len(q)]
    BY <1>4
  <2> DEFINE k == Len(q) + 1
  <2>2. k \in a..d /\ k # a /\ k - 1 = Len(q)
    BY <1>0, <1>8, <2>1
  <2> HIDE DEF k
  <2>3. level[k] = UNION {Children(v, r) : r \in {s \in level[k - 1] : Opening(v, anchor, s)}}
    BY <1>1, <2>2 DEF IsLevels
  <2>4. Children(v, q) \subseteq level[k]
    BY <1>8, <2>1, <2>2, <2>3
  <2> QED
    BY <1>1, <2>2, <2>4
<1>9. \A q \in read : Len(q) <= d
  BY <1>0, <1>4
<1> QED
  BY <1>7, <1>8, <1>9 DEF read

-------------------------------------------------------------------------------
(* Prefixes and leaves.                                                    *)

LEMMA StrictLonger ==
  ASSUME NEW T, NEW p \in Seq(T), NEW q \in Seq(T), IsStrictPrefix(p, q)
  PROVE  Len(p) \in Nat /\ Len(q) \in Nat /\ Len(p) < Len(q)
<1>1. Len(p) \in Nat /\ Len(q) \in Nat
  BY LenProperties
<1>2. IsPrefix(p, q) /\ p # q
  BY DEF IsStrictPrefix
<1>3. ~(Len(q) <= Len(p))
  BY <1>2, PrefixEqual
<1> QED
  BY <1>1, <1>3

LEMMA ShorterStrict ==
  ASSUME NEW T, NEW p \in Seq(T), NEW q \in Seq(T), IsPrefix(p, q), Len(p) < Len(q)
  PROVE  IsStrictPrefix(p, q)
<1>1. Len(p) \in Nat /\ Len(q) \in Nat
  BY LenProperties
<1>2. p # q
  BY <1>1
<1> QED
  BY <1>2 DEF IsStrictPrefix

(* Two prefixes of one path: one is a prefix of the other.                 *)
LEMMA Comparable ==
  ASSUME NEW T, NEW p \in Seq(T), NEW q \in Seq(T), NEW r \in Seq(T),
         IsPrefix(p, r), IsPrefix(q, r)
  PROVE  p = q \/ IsStrictPrefix(p, q) \/ IsStrictPrefix(q, p)
<1>1. Len(p) \in Nat /\ Len(q) \in Nat
  BY LenProperties
<1>2. CASE Len(p) <= Len(q)
  <2>1. IsPrefix(p, q)
    BY <1>2, PrefixesMeet
  <2> QED
    BY <2>1 DEF IsStrictPrefix
<1>3. CASE Len(q) <= Len(p)
  <2>1. IsPrefix(q, p)
    BY <1>3, PrefixesMeet
  <2> QED
    BY <2>1 DEF IsStrictPrefix
<1> QED
  BY <1>1, <1>2, <1>3

LEMMA StrictTransitive ==
  ASSUME NEW T, NEW p \in Seq(T), NEW q \in Seq(T), NEW r \in Seq(T),
         IsStrictPrefix(p, q), IsPrefix(q, r)
  PROVE  IsStrictPrefix(p, r)
<1>1. /\ Len(p) \in Nat /\ Len(q) \in Nat /\ Len(r) \in Nat
      /\ Len(p) < Len(q) /\ Len(q) <= Len(r)
  BY StrictLonger, LenProperties DEF IsPrefix
<1>2. IsPrefix(p, r)
  BY PrefixTransitive DEF IsStrictPrefix
<1>3. Len(p) < Len(r)
  BY <1>1
<1> QED
  BY <1>2, <1>3, ShorterStrict

(* A leaf lies above every path that is read.                              *)
LEMMA LeafAbove ==
  ASSUME NEW read, read \subseteq Seq(Name), NEW d \in Nat, \A x \in read : Len(x) <= d,
         NEW y \in read
  PROVE  \E x \in Leaves(read) : IsPrefix(y, x)
<1> DEFINE over == {x \in read : IsPrefix(y, x)}
           S == {d - Len(x) : x \in over}
<1>1. \A x \in read : x \in Seq(Name) /\ Len(x) \in Nat /\ Len(x) <= d
  BY LenProperties
<1>2. S \subseteq Nat
  BY <1>1
<1>3. y \in over
  <2>1. IsPrefix(y, y)
    BY <1>1, PrefixIs
  <2> QED
    BY <2>1
<1>4. PICK x \in over : \A z \in over : d - Len(x) <= d - Len(z)
  <2>1. S # {}
    BY <1>3
  <2> HIDE DEF S
  <2>2. \E m \in S : \A n \in S : m <= n
    BY <1>2, <2>1, LeastNumber
  <2> QED
    BY <2>2 DEF S
<1>5. x \in read /\ IsPrefix(y, x)
  BY <1>4
<1>6. ASSUME NEW z \in read, IsStrictPrefix(x, z) PROVE FALSE
  <2>1. x \in Seq(Name) /\ z \in Seq(Name) /\ y \in Seq(Name)
    BY <1>1, <1>5
  <2>2. Len(x) < Len(z)
    BY <1>6, <2>1, StrictLonger
  <2>3. IsPrefix(y, z)
    BY <1>5, <1>6, <2>1, PrefixTransitive DEF IsStrictPrefix
  <2>4. d - Len(x) <= d - Len(z)
    BY <1>4, <2>3
  <2> QED
    BY <1>1, <1>5, <2>2, <2>4
<1> QED
  BY <1>5, <1>6 DEF Leaves

(* The first path on the way from the anchor to x that is not opened.      *)
LEMMA FirstOut ==
  ASSUME NEW anchor \in Seq(Name), NEW x \in Seq(Name), IsPrefix(anchor, x),
         NEW Open, x \notin Open
  PROVE  \E y \in Seq(Name) : /\ IsPrefix(anchor, y) /\ IsPrefix(y, x) /\ y \notin Open
                              /\ \A q \in Seq(Name) :
                                   IsPrefix(anchor, q) /\ IsStrictPrefix(q, y) => q \in Open
<1> DEFINE out == {y \in Seq(Name) : IsPrefix(anchor, y) /\ IsPrefix(y, x) /\ y \notin Open}
           S == {Len(y) : y \in out}
<1>1. x \in out
  <2>1. IsPrefix(x, x)
    BY LenProperties, PrefixIs
  <2> QED
    BY <2>1
<1>2. S \subseteq Nat /\ S # {}
  BY <1>1, LenProperties
<1>3. PICK y \in out : \A z \in out : Len(y) <= Len(z)
  <2> HIDE DEF S
  <2>1. \E m \in S : \A n \in S : m <= n
    BY <1>2, LeastNumber
  <2> QED
    BY <2>1 DEF S
<1>4. ASSUME NEW q \in Seq(Name), IsPrefix(anchor, q), IsStrictPrefix(q, y), q \notin Open
      PROVE  FALSE
  <2>1. Len(q) \in Nat /\ Len(y) \in Nat /\ Len(q) < Len(y)
    BY <1>4, StrictLonger
  <2>2. IsPrefix(q, x)
    BY <1>4, PrefixTransitive DEF IsStrictPrefix
  <2>3. Len(y) <= Len(q)
    BY <1>3, <1>4, <2>2
  <2> QED
    BY <2>1, <2>3
<1> QED
  BY <1>3, <1>4

-------------------------------------------------------------------------------
(* The asserted fields of a group, and their types.                        *)

LEMMA CutNext ==
  ASSUME NEW T, NEW p \in Seq(T), NEW n \in Nat, n < Len(p)
  PROVE  /\ SubSeq(p, 1, n) \in Seq(T) /\ p[n + 1] \in T
         /\ SubSeq(p, 1, n + 1) = Append(SubSeq(p, 1, n), p[n + 1])
<1> DEFINE q == SubSeq(p, 1, n)
           r == SubSeq(p, 1, n + 1)
<1>1. Len(p) \in Nat /\ n \in 0..Len(p) /\ n + 1 \in 0..Len(p) /\ n + 1 \in 1..Len(p)
  BY LenProperties
<1>2. p[n + 1] \in T
  BY <1>1, ElementOfSeq
<1>3. q \in Seq(T) /\ Len(q) = n /\ IsPrefix(q, p)
  BY <1>1, Cutting
<1>4. r \in Seq(T) /\ Len(r) = n + 1 /\ IsPrefix(r, p)
  BY <1>1, Cutting
<1> DEFINE s == Append(q, p[n + 1])
<1> HIDE DEF q, r
<1>5. /\ s \in Seq(T) /\ Len(s) = n + 1 /\ s[n + 1] = p[n + 1]
      /\ \A i \in 1..n : s[i] = q[i]
  BY <1>2, <1>3, AppendProperties
<1>6. /\ \A i \in 1..n : q[i] = p[i]
      /\ \A i \in 1..(n + 1) : r[i] = p[i]
  BY <1>3, <1>4, PrefixIs
<1> HIDE DEF s
<1>7. ASSUME NEW i \in 1..(n + 1) PROVE r[i] = s[i]
  <2>1. CASE i = n + 1
    BY <1>5, <1>6, <2>1
  <2>2. CASE i # n + 1
    <3>1. i \in 1..n
      BY <2>2
    <3> QED
      BY <1>5, <1>6, <3>1
  <2> QED
    BY <2>1, <2>2
<1>8. r = s
  BY <1>4, <1>5, <1>7, SeqEqual
<1> QED
  BY <1>2, <1>3, <1>8 DEF q, r, s

(* The functions compile: every field on the way to an asserted one has a  *)
(* type.                                                                   *)
LEMMA ChainTyped ==
  ASSUME NEW site \in Site, NEW i \in Chains(site), NEW q \in Seq(Name),
         IsPrefix(q, Path(site.operands[i]))
  PROVE  TypeAt(VarType[site.operands[i].base], q) \in Type
<1> DEFINE p == Path(site.operands[i])
           v == site.operands[i].base
           t == VarType[v]
           at(n) == TypeAt(t, SubSeq(p, 1, n))
           S == {n \in Nat : n <= Len(p) => at(n) \in Type}
<1>1. p \in Seq(Name) /\ v \in Var /\ Len(p) \in Nat
  <2>1. p \in Seq(Name) \ {<<>>} /\ v \in Var
    BY SiteTyped
  <2> HIDE DEF p, v
  <2> QED
    BY <2>1, LenProperties
<1>2. t \in Type
  BY <1>1, TypeGraphAssumption
<1>3. \A k \in 1..Len(p) : \E f \in Selectable[at(k - 1)] : f.name = p[k]
  BY SiteAssumption
<1>4. IsPrefix(q, p)
  OBVIOUS
<1> HIDE DEF p, v, t
<1>5. 0 \in S
  <2> DEFINE e == <<>>
             c == SubSeq(p, 1, 0)
  <2>1. 0 \in 0..Len(p)
    BY <1>1
  <2>2. c \in Seq(Name) /\ Len(c) = 0
    BY <1>1, <2>1, Cutting
  <2> HIDE DEF c
  <2>3. c = <<>>
    BY <2>2, EmptySeq
  <2>4. TypeAt(t, e) = t
    BY TypeAtRoot
  <2> HIDE DEF e
  <2>5. TypeAt(t, c) \in Type
    BY <1>2, <2>3, <2>4 DEF e
  <2> QED
    BY <2>5 DEF c
<1>6. ASSUME NEW n \in S PROVE n + 1 \in S
  <2> SUFFICES ASSUME n + 1 <= Len(p) PROVE at(n + 1) \in Type
    OBVIOUS
  <2> DEFINE c == SubSeq(p, 1, n)
             k == n + 1
  <2>1. n \in Nat /\ n < Len(p) /\ k \in 1..Len(p) /\ k - 1 = n /\ n <= Len(p)
    BY <1>1
  <2>2. at(n) \in Type
    BY <2>1
  <2>3. c \in Seq(Name) /\ p[k] \in Name /\ SubSeq(p, 1, k) = Append(c, p[k])
    BY <1>1, <2>1, CutNext
  <2>4. \E f \in Selectable[at(n)] : f.name = p[k]
    <3>1. \E f \in Selectable[at(k - 1)] : f.name = p[k]
      BY <1>3, <2>1
    <3> HIDE DEF at, k
    <3> QED
      BY <2>1, <3>1
  <2>5. FieldType(at(n), p[k]) \in Type
    <3> HIDE DEF at, k
    <3> QED
      BY <2>2, <2>4, SelectableIs
  <2>6. TypeAt(t, Append(c, p[k])) = FieldType(TypeAt(t, c), p[k])
    <3> HIDE DEF c, k
    <3> QED
      BY <2>3, TypeAtNext
  <2>7. TypeAt(t, SubSeq(p, 1, k)) = FieldType(TypeAt(t, c), p[k])
    <3> HIDE DEF c, k
    <3> QED
      BY <2>3, <2>6
  <2> QED
    BY <2>5, <2>7
<1> HIDE DEF S
<1>7. S \subseteq Nat
  BY DEF S
<1>8. \A n \in Nat : n \in S
  BY <1>5, <1>6, <1>7, SetInduction
<1>9. Len(q) \in 0..Len(p) /\ q = SubSeq(p, 1, Len(q))
  BY <1>1, <1>4, PrefixCuts
<1>10. at(Len(q)) \in Type
  <2>1. Len(q) \in Nat /\ Len(q) <= Len(p)
    BY <1>1, <1>9
  <2> QED
    BY <1>8, <2>1 DEF S
<1>11. TypeAt(t, q) \in Type
  BY <1>9, <1>10
<1> QED
  BY <1>11 DEF t, v

(* The group of a base.                                                    *)
LEMMA GroupTyped ==
  ASSUME NEW f \in Seq(Site), NEW v \in Var, NEW p \in Contributed(f, v)
  PROVE  /\ p \in Seq(Name) \ {<<>>} /\ p \in Paths[v]
         /\ \A q \in Seq(Name) : IsPrefix(q, p) => TypeAt(VarType[v], q) \in Type
<1>1. p \in Seq(Name) \ {<<>>}
  BY ContributedTyped
<1>2. PICK n \in Hits(f, Naming(v)) : p \in Named(f[n])[v]
  BY DEF Contributed
<1> DEFINE site == f[n]
<1>3. site \in Site
  BY <1>2 DEF Hits, Naming
<1>4. p \in Paths[v]
  BY <1>2, <1>3 DEF Paths
<1>5. PICK i \in Chains(site) : site.operands[i].base = v /\ p = Path(site.operands[i])
  <2>1. p \in Named(site)[v] /\ site \in Site
    BY <1>2, <1>3
  <2> HIDE DEF site
  <2> QED
    BY <2>1 DEF Named, NamedBy
<1> HIDE DEF site
<1>6. ASSUME NEW q \in Seq(Name), IsPrefix(q, p) PROVE TypeAt(VarType[v], q) \in Type
  BY <1>3, <1>5, <1>6, ChainTyped
<1> QED
  BY <1>1, <1>4, <1>6

LEMMA GroupCounted ==
  ASSUME NEW f \in Seq(Site), Len(f) <= MaxSites, NEW v \in Var, Hits(f, Naming(v)) # {}
  PROVE  /\ Cardinality(Contributed(f, v)) \in 1..MaxSites
         /\ Contributed(f, v) \in UNION {kSubset(k, Paths[v]) : k \in 1..MaxSites}
<1> DEFINE S == Hits(f, Naming(v))
           by(n) == Named(f[n])[v]
           C == Contributed(f, v)
           h == [n \in S |-> CHOOSE p : by(n) = {p}]
<1>1. IsFiniteSet(S) /\ Cardinality(S) \in 0..Len(f) /\ Len(f) \in Nat
  BY HitsTyped
<1>2. ASSUME NEW n \in S PROVE \E p : by(n) = {p}
  <2>1. f[n] \in Site /\ Cardinality(by(n)) = 1
    BY DEF Hits, Naming
  <2>2. IsFiniteSet(by(n))
    BY <2>1, NamedTyped
  <2> HIDE DEF by
  <2> QED
    BY <2>1, <2>2, FS_Singleton
<1>3. C = UNION {by(n) : n \in S}
  BY DEF Contributed
<1>4. IsFiniteSet(C) /\ C # {} /\ C \subseteq Paths[v]
  BY ContributedTyped, GroupTyped
<1> HIDE DEF S, by, C
<1>5. h \in Surjection(S, C)
  <2>1. \A n \in S : by(n) = {h[n]}
    BY <1>2
  <2> HIDE DEF h
  <2>2. (\A n \in S : h[n] \in C) /\ (\A p \in C : \E n \in S : h[n] = p)
    BY <1>3, <2>1
  <2>3. h \in [S -> C]
    <3>1. \A n \in S : (CHOOSE p : by(n) = {p}) \in C
      BY <2>2 DEF h
    <3> QED
      BY <3>1 DEF h
  <2> QED
    BY <2>2, <2>3 DEF Surjection
<1>6. Cardinality(C) <= Cardinality(S)
  BY <1>1, <1>5, FS_Surjection
<1>7. Cardinality(C) \in Nat /\ Cardinality(C) # 0
  BY <1>4, FS_CardinalityType, FS_EmptySet
<1>8. MaxSites \in Nat /\ Len(f) <= MaxSites
  BY TypeGraphAssumption
<1>9. Cardinality(C) \in 1..MaxSites
  BY ONLY <1>1, <1>6, <1>7, <1>8
<1>10. C \in kSubset(Cardinality(C), Paths[v])
  BY <1>4 DEF kSubset
<1>11. C \in UNION {kSubset(k, Paths[v]) : k \in 1..MaxSites}
  BY <1>9, <1>10
<1> QED
  BY <1>9, <1>11 DEF C

LEMMA Greatest ==
  ASSUME NEW S, S \subseteq Nat, IsFiniteSet(S), S # {}
  PROVE  Max(S) \in S /\ \A y \in S : y <= Max(S)
<1> DEFINE over(x) == {y \in S : x < y}
           C == {Cardinality(over(x)) : x \in S}
<1>1. ASSUME NEW x \in S PROVE IsFiniteSet(over(x)) /\ Cardinality(over(x)) \in Nat
  <2> DEFINE T == over(x)
  <2>1. T \in SUBSET S
    OBVIOUS
  <2> HIDE DEF T
  <2>2. IsFiniteSet(T)
    BY <2>1, FS_Subset
  <2>3. Cardinality(T) \in Nat
    BY <2>2, FS_CardinalityType
  <2> QED
    BY <2>2, <2>3 DEF T
<1>2. PICK x \in S : \A z \in S : Cardinality(over(x)) <= Cardinality(over(z))
  <2>1. C \subseteq Nat /\ C # {}
    BY <1>1
  <2> HIDE DEF C
  <2>2. \E m \in C : \A n \in C : m <= n
    BY <2>1, LeastNumber
  <2> HIDE DEF over
  <2> QED
    BY <2>2 DEF C
<1>3. ASSUME NEW y \in S PROVE y <= x
  <2> SUFFICES ASSUME x < y PROVE FALSE
    OBVIOUS
  <2>1. over(y) \in SUBSET over(x) /\ y \in over(x) /\ y \notin over(y)
    <3>1. \A z \in S : y < z => x < z
      OBVIOUS
    <3>2. ~(y < y)
      OBVIOUS
    <3> QED
      BY <3>1, <3>2
  <2>2. /\ IsFiniteSet(over(x)) /\ Cardinality(over(x)) \in Nat /\ Cardinality(over(y)) \in Nat
        /\ Cardinality(over(x)) <= Cardinality(over(y))
    BY <1>1, <1>2
  <2> DEFINE X == over(x)
             Y == over(y)
  <2> HIDE DEF X, Y
  <2>3. /\ IsFiniteSet(X) /\ Cardinality(X) \in Nat /\ Cardinality(Y) \in Nat
        /\ Cardinality(X) <= Cardinality(Y) /\ Y \in SUBSET X /\ y \in X /\ y \notin Y
    BY <2>1, <2>2 DEF X, Y
  <2>4. Cardinality(Y) <= Cardinality(X) /\ (Cardinality(X) = Cardinality(Y) => X = Y)
    BY <2>3, FS_Subset
  <2> QED
    BY <2>3, <2>4
<1>4. \E z \in S : \A y \in S : z >= y
  BY <1>3
<1> QED
  BY <1>4 DEF Max

(* A group of asserted fields, and what the comparison at their anchor     *)
(* reads.                                                                  *)
Laid(v, P, a, read) ==
  /\ a \in Seq(Name) /\ P # {} /\ P \subseteq read
  /\ \A p \in P : IsStrictPrefix(a, p)
  /\ Tree(read, v, a)
  /\ \E d \in Nat : \A x \in read : Len(x) <= d
  /\ \A q \in read : \A p \in P : IsStrictPrefix(q, p) /\ Opening(v, a, q) => Children(v, q) \subseteq read

LEMMA AnchorAbove ==
  ASSUME NEW P, P \subseteq Seq(Name) \ {<<>>}, P # {}
  PROVE  /\ AnchorOf(P) \in Seq(Name) /\ \A p \in P : IsStrictPrefix(AnchorOf(P), p)
         /\ \A q \in Seq(Name) : (\A p \in P : IsPrefix(q, Front(p))) => IsPrefix(q, AnchorOf(P))
<1> DEFINE Q == {Front(p) : p \in P}
           a == LongestCommonPrefix(Q)
<1>1. \A p \in P : p \in Seq(Name) /\ Front(p) \in Seq(Name) /\ Len(Front(p)) = Len(p) - 1 /\ IsPrefix(Front(p), p)
  <2> TAKE p \in P
  <2>1. p \in Seq(Name) /\ p # <<>>
    OBVIOUS
  <2> QED
    BY <2>1, FrontIs
<1>2. Q \in SUBSET Seq(Name) /\ Q # {}
  BY <1>1
<1> HIDE DEF Q
<1>3. /\ a \in Seq(Name) /\ Shared(Q, a)
      /\ \A p \in Seq(Name) : Shared(Q, p) => IsPrefix(p, a)
  BY <1>2, LongestShared
<1> HIDE DEF a
<1>4. ASSUME NEW p \in P PROVE IsStrictPrefix(a, p)
  <2>1. IsPrefix(a, Front(p))
    BY <1>3 DEF Shared, Q
  <2>2. IsPrefix(a, p)
    BY <1>1, <1>3, <2>1, PrefixTransitive
  <2>3. Len(a) <= Len(p) - 1
    BY <1>1, <2>1 DEF IsPrefix
  <2>4. Len(p) \in Nat /\ Len(a) \in Nat
    BY <1>1, <1>3, LenProperties
  <2>5. Len(a) < Len(p)
    BY <2>3, <2>4
  <2> QED
    BY <1>1, <1>3, <2>2, <2>5, ShorterStrict
<1>5. \A q \in Seq(Name) : (\A p \in P : IsPrefix(q, Front(p))) => IsPrefix(q, a)
  BY <1>3 DEF Shared, Q
<1> QED
  BY <1>3, <1>4, <1>5 DEF AnchorOf, a, Q

LEMMA GroupLaid ==
  ASSUME NEW f \in Seq(Site), NEW v \in Var, Hits(f, Naming(v)) # {},
         NEW P, P = Contributed(f, v), NEW a, a = AnchorOf(P),
         NEW read, read = ReadFor(v, a, P), P \subseteq read
  PROVE  Laid(v, P, a, read)
<1>1. P \subseteq Seq(Name) \ {<<>>} /\ IsFiniteSet(P) /\ P # {}
  BY ContributedTyped
<1>2. a \in Seq(Name) /\ \A p \in P : IsStrictPrefix(a, p)
  BY <1>1, AnchorAbove
<1>3. TypeAt(VarType[v], a) \in Type
  <2>1. PICK p \in P : TRUE
    BY <1>1
  <2> QED
    BY <1>2, <2>1, GroupTyped DEF IsStrictPrefix
<1> DEFINE L == {Len(p) : p \in P}
           m == Max(L)
<1>4. m \in Nat /\ \A p \in P : Len(p) \in Nat /\ Len(p) <= m
  <2>1. \A p \in P : Len(p) \in Nat
    BY <1>1, LenProperties
  <2>2. L \subseteq Nat /\ L # {}
    BY <1>1, <2>1
  <2>3. IsFiniteSet(L)
    <3> DEFINE h == [p \in P |-> Len(p)]
    <3>1. h \in Surjection(P, L)
      BY DEF Surjection
    <3> HIDE DEF h, L
    <3> QED
      BY <1>1, <3>1, FS_Surjection
  <2> DEFINE M == L
  <2>4. \A p \in P : Len(p) \in M
    OBVIOUS
  <2> HIDE DEF L, M
  <2>5. Max(L) \in L /\ \A y \in L : y <= Max(L)
    BY <2>2, <2>3, Greatest
  <2> QED
    BY <2>1, <2>2, <2>4, <2>5 DEF M
<1>5. read = ReadAt(v, a, m + 1)
  BY DEF ReadFor
<1> HIDE DEF m, L
<1>6. m + 1 \in Nat /\ Len(a) <= m + 1
  <2>1. PICK p \in P : TRUE
    BY <1>1
  <2>2. Len(a) < Len(p) /\ Len(a) \in Nat
    BY <1>1, <1>2, <2>1, StrictLonger
  <2> QED
    BY <1>4, <2>2
<1>7. /\ Tree(read, v, a) /\ \A q \in read : Len(q) <= m + 1
      /\ \A q \in read : Len(q) < m + 1 /\ Opening(v, a, q) => Children(v, q) \subseteq read
  BY <1>2, <1>3, <1>5, <1>6, ReadTree
<1>8. ASSUME NEW q \in read, NEW p \in P, IsStrictPrefix(q, p), Opening(v, a, q)
      PROVE  Children(v, q) \subseteq read
  <2>1. q \in Seq(Name) /\ p \in Seq(Name)
    BY <1>1, <1>7 DEF Tree
  <2>2. Len(q) < Len(p) /\ Len(q) \in Nat
    BY <1>8, <2>1, StrictLonger
  <2>3. Len(q) < m + 1
    BY <1>4, <2>2
  <2> QED
    BY <1>7, <1>8, <2>3
<1>9. \E d \in Nat : \A x \in read : Len(x) <= d
  BY <1>6, <1>7
<1> QED
  BY <1>1, <1>2, <1>7, <1>8, <1>9 DEF Laid

(* What the cut opens, once all asserted fields are read.                  *)
LEMMA OpensIs ==
  ASSUME NEW v, NEW P, NEW a, NEW read, Laid(v, P, a, read),
         NEW q \in Seq(Name), IsPrefix(a, q)
  PROVE  Opens(v, a, P, q) <=> q \notin P /\ Under(P, q) /\ Opening(v, a, q)
<1>1. /\ a \in Seq(Name) /\ P # {} /\ P \subseteq Seq(Name)
      /\ \A p \in P : IsStrictPrefix(a, p)
  BY DEF Laid, Tree
<1>2. ASSUME q = <<>> PROVE Under(P, q)
  <2> DEFINE e == <<>>
  <2>1. Len(e) = 0
    BY EmptySeq
  <2>2. q = e
    BY <1>2
  <2> HIDE DEF e
  <2>3. Len(q) <= Len(a)
    BY <1>1, <2>1, <2>2, LenProperties
  <2>4. a = q
    BY <1>1, <2>3, PrefixEqual
  <2> QED
    BY <1>1, <2>4 DEF Under
<1> QED
  BY <1>2 DEF Opens, Opening

(* The prefix of an asserted field that is not asserted itself is opened.  *)
LEMMA OpenBefore ==
  ASSUME NEW v, NEW P, NEW a, NEW read, Laid(v, P, a, read),
         NEW q \in Seq(Name), IsPrefix(a, q), q \notin P, NEW p \in P, IsStrictPrefix(q, p)
  PROVE  Opens(v, a, P, q)
<1>1. Opening(v, a, q)
  BY DEF Laid, Tree
<1>2. Under(P, q)
  BY DEF Under
<1> QED
  BY <1>1, <1>2, OpensIs

LEMMA FrontPart ==
  ASSUME NEW T, NEW q \in Seq(T), NEW n \in T
  PROVE  /\ Append(q, n) \in Seq(T) /\ IsStrictPrefix(q, Append(q, n))
         /\ \A r \in Seq(T) : IsStrictPrefix(r, Append(q, n)) => IsPrefix(r, q)
<1> DEFINE y == Append(q, n)
<1>1. /\ y \in Seq(T) /\ Len(y) = Len(q) + 1 /\ Len(q) \in Nat
      /\ \A i \in 1..Len(q) : y[i] = q[i]
  BY AppendProperties, LenProperties
<1> HIDE DEF y
<1>2. IsPrefix(q, y)
  BY <1>1, PrefixIs
<1>3. IsStrictPrefix(q, y)
  BY <1>1, <1>2, ShorterStrict
<1>4. ASSUME NEW r \in Seq(T), IsStrictPrefix(r, y) PROVE IsPrefix(r, q)
  <2>1. Len(r) < Len(y) /\ Len(r) \in Nat
    BY <1>1, <1>4, StrictLonger
  <2>2. Len(r) <= Len(q)
    BY <1>1, <2>1
  <2> QED
    BY <1>1, <1>2, <1>4, <2>2, PrefixesMeet DEF IsStrictPrefix
<1> QED
  BY <1>1, <1>3, <1>4 DEF y

LEMMA AsAppend ==
  ASSUME NEW T, NEW a \in Seq(T), NEW y \in Seq(T), IsStrictPrefix(a, y)
  PROVE  \E q \in Seq(T) : \E n \in T : /\ y = Append(q, n) /\ IsPrefix(a, q) /\ n = y[Len(q) + 1]
<1>1. Len(a) \in Nat /\ Len(y) \in Nat /\ Len(a) < Len(y)
  BY StrictLonger
<1> DEFINE m == Len(y) - 1
           q == SubSeq(y, 1, m)
<1>2. m \in Nat /\ m < Len(y) /\ m + 1 = Len(y) /\ m \in 0..Len(y) /\ m + 1 \in 0..Len(y)
  BY <1>1
<1> HIDE DEF m
<1>3. q \in Seq(T) /\ Len(q) = m /\ IsPrefix(q, y)
  BY <1>2, Cutting
<1>4. y[m + 1] \in T /\ SubSeq(y, 1, m + 1) = Append(q, y[m + 1])
  BY <1>2, CutNext
<1> DEFINE w == SubSeq(y, 1, m + 1)
<1>5. w \in Seq(T) /\ Len(w) = Len(y) /\ IsPrefix(w, y)
  BY <1>2, Cutting
<1>6. w = Append(q, y[m + 1])
  BY <1>4
<1> HIDE DEF q, w
<1>7. w = y
  <2>1. Len(y) <= Len(w)
    BY <1>1, <1>5
  <2> QED
    BY <1>5, <2>1, PrefixEqual
<1>8. IsPrefix(a, q)
  <2>1. Len(a) <= Len(q)
    BY <1>1, <1>2, <1>3
  <2> QED
    BY <1>3, <2>1, PrefixesMeet DEF IsStrictPrefix
<1>9. y = Append(q, y[m + 1]) /\ y[m + 1] = y[Len(q) + 1]
  BY <1>3, <1>6, <1>7
<1> QED
  BY <1>3, <1>4, <1>8, <1>9

LEMMA PrefixesAre ==
  ASSUME NEW T, NEW p \in Seq(T), NEW q
  PROVE  q \in Prefixes(p) <=> q \in Seq(T) /\ IsPrefix(q, p)
<1>1. ASSUME q \in Prefixes(p) PROVE q \in Seq(T) /\ IsPrefix(q, p)
  <2>1. PICK n \in 0..Len(p) : q = SubSeq(p, 1, n)
    BY <1>1 DEF Prefixes
  <2> QED
    BY <2>1, Cutting
<1>2. ASSUME q \in Seq(T), IsPrefix(q, p) PROVE q \in Prefixes(p)
  <2>1. Len(q) \in 0..Len(p) /\ q = SubSeq(p, 1, Len(q))
    BY <1>2, PrefixCuts
  <2> QED
    BY <2>1 DEF Prefixes
<1> QED
  BY <1>1, <1>2

(* The way to y is opened.                                                 *)
Reached(v, a, P, y) ==
  \A q \in Seq(Name) : IsPrefix(a, q) /\ IsStrictPrefix(q, y) => Opens(v, a, P, q)

(* The cut comes to those fields that the comparison reads and that lie    *)
(* below opened ones only.                                                 *)
LEMMA VisitsAre ==
  ASSUME NEW v, NEW P, NEW a, NEW read, Laid(v, P, a, read), NEW y
  PROVE  y \in CutVisits(v, a, P) <=> y \in read /\ Reached(v, a, P, y)
<1> DEFINE roads == UNION {Prefixes(p) : p \in P}
           from == {r \in roads : IsPrefix(a, r) /\ r \notin P}
           beside == UNION {Children(v, q) : q \in from}
           open(z) == \A q \in Prefixes(z) : IsPrefix(a, q) /\ q # z => Opens(v, a, P, q)
<1>1. CutVisits(v, a, P) = {z \in {a} \cup beside : open(z)}
  BY DEF CutVisits, Children
<1>2. /\ a \in Seq(Name) /\ a \in read /\ P # {} /\ P \subseteq read /\ read \subseteq Seq(Name)
      /\ \A p \in P : IsStrictPrefix(a, p)
  BY DEF Laid, Tree
<1>3. \A z \in Seq(Name) : open(z) <=> Reached(v, a, P, z)
  <2> SUFFICES ASSUME NEW z \in Seq(Name) PROVE open(z) <=> Reached(v, a, P, z)
    OBVIOUS
  <2>1. \A q : q \in Prefixes(z) <=> q \in Seq(Name) /\ IsPrefix(q, z)
    BY PrefixesAre
  <2> QED
    BY <2>1 DEF Reached, IsStrictPrefix
<1> HIDE DEF open
<1>4. ASSUME NEW q \in from PROVE q \in Seq(Name) /\ IsPrefix(a, q) /\ q \notin P /\ q \in read
                                  /\ \E p \in P : IsStrictPrefix(q, p)
  <2>1. PICK p \in P : q \in Prefixes(p)
    OBVIOUS
  <2>2. p \in Seq(Name) /\ IsPrefix(a, q) /\ q \notin P
    BY <1>2
  <2>3. q \in Seq(Name) /\ IsPrefix(q, p)
    BY <2>1, <2>2, PrefixesAre
  <2>4. IsStrictPrefix(q, p)
    BY <2>2, <2>3 DEF IsStrictPrefix
  <2>5. q \in read
    BY <1>2, <2>2, <2>3, <2>4 DEF Laid, Tree
  <2> QED
    BY <2>2, <2>3, <2>4, <2>5
<1>5. \A q : q \in roads <=> \E p \in P : q \in Prefixes(p)
  OBVIOUS
<1>6. \A q : q \in from <=> q \in roads /\ IsPrefix(a, q) /\ q \notin P
  OBVIOUS
<1>7. \A z : z \in beside <=> \E q \in from : z \in Children(v, q)
  OBVIOUS
<1> HIDE DEF roads, from, beside
<1>8. ASSUME y \in CutVisits(v, a, P) PROVE y \in read /\ Reached(v, a, P, y)
  <2>1. (y = a \/ y \in beside) /\ open(y)
    BY <1>1, <1>8
  <2>2. CASE y = a
    <3>1. y \in read /\ y \in Seq(Name)
      BY <1>2, <2>2
    <3> QED
      BY <1>3, <2>1, <3>1
  <2>3. CASE y \in beside
    <3>1. PICK q \in from : y \in Children(v, q)
      BY <1>7, <2>3
    <3>2. PICK f \in Selectable[TypeAt(VarType[v], q)] : y = Append(q, f.name)
      BY <3>1 DEF Children
    <3>3. /\ q \in Seq(Name) /\ IsPrefix(a, q) /\ q \notin P /\ q \in read
          /\ \E p \in P : IsStrictPrefix(q, p)
      BY <1>4
    <3>4. Opening(v, a, q)
      BY <1>2, <3>3 DEF Laid, Tree
    <3>5. y \in read
      BY <3>1, <3>3, <3>4 DEF Laid
    <3> QED
      BY <1>2, <1>3, <2>1, <3>5
  <2> QED
    BY <2>1, <2>2, <2>3
<1>9. ASSUME y \in read, Reached(v, a, P, y) PROVE y \in CutVisits(v, a, P)
  <2>1. y \in Seq(Name) /\ open(y) /\ IsPrefix(a, y)
    BY <1>2, <1>3, <1>9 DEF Laid, Tree
  <2>2. CASE y = a
    BY <1>1, <2>1, <2>2
  <2>3. CASE y # a
    <3>1. IsStrictPrefix(a, y)
      BY <2>1, <2>3 DEF IsStrictPrefix
    <3>2. PICK q \in Seq(Name), n \in Name : y = Append(q, n) /\ IsPrefix(a, q) /\ n = y[Len(q) + 1]
      BY <1>2, <2>1, <3>1, AsAppend
    <3>3. IsStrictPrefix(q, y)
      BY <3>2, FrontPart
    <3>4. Opens(v, a, P, q)
      BY <1>9, <3>2, <3>3 DEF Reached
    <3>5. q \notin P /\ Under(P, q)
      BY <3>2, <3>4, OpensIs
    <3>6. PICK p \in P : IsStrictPrefix(q, p)
      BY <3>5 DEF Under
    <3>7. q \in Prefixes(p)
      <4>1. p \in Seq(Name)
        BY <1>2
      <4> QED
        BY <3>6, <4>1, PrefixesAre DEF IsStrictPrefix
    <3>8. q \in from
      BY <1>5, <1>6, <3>2, <3>5, <3>7
    <3>9. PICK f \in Selectable[TypeAt(VarType[v], q)] : f.name = y[Len(q) + 1]
      BY <1>9, <3>2, <3>3 DEF Laid, Tree
    <3>10. y \in Children(v, q)
      BY <3>2, <3>9 DEF Children
    <3>11. y \in beside
      BY <1>7, <3>8, <3>10
    <3> QED
      BY <1>1, <2>1, <3>11
  <2> QED
    BY <2>2, <2>3
<1> QED
  BY <1>8, <1>9

LEMMA NamesAre ==
  ASSUME NEW v, NEW P, NEW a, NEW read, Laid(v, P, a, read)
  PROVE  /\ \A y : y \in IgnoreNames(v, a, P)
                   <=> y \in read /\ Reached(v, a, P, y) /\ y \notin P /\ ~Opens(v, a, P, y)
         /\ IgnoreNames(v, a, P) \subseteq read \ {a}
<1>1. /\ a \in Seq(Name) /\ P # {} /\ P \subseteq read /\ read \subseteq Seq(Name)
      /\ \A p \in P : IsStrictPrefix(a, p)
  BY DEF Laid, Tree
<1>2. ASSUME NEW y PROVE y \in IgnoreNames(v, a, P)
                   <=> y \in read /\ Reached(v, a, P, y) /\ y \notin P /\ ~Opens(v, a, P, y)
  BY VisitsAre DEF IgnoreNames
<1>3. Opens(v, a, P, a)
  <2>1. PICK p \in P : IsStrictPrefix(a, p)
    BY <1>1
  <2>2. IsPrefix(a, a)
    BY <1>1, LenProperties, PrefixIs
  <2>3. a \notin P
    BY <1>1 DEF IsStrictPrefix
  <2> QED
    BY <1>1, <2>1, <2>2, <2>3, OpenBefore
<1> QED
  BY <1>2, <1>3

-------------------------------------------------------------------------------
(* The names of the cut.                                                   *)

(* With the names of the cut the comparison states the asserted fields.    *)
LEMMA NamesState ==
  ASSUME NEW v, NEW P, NEW a, NEW read, Laid(v, P, a, read)
  PROVE  States(IgnoreNames(v, a, P), P, Leaves(read))
<1> DEFINE N == IgnoreNames(v, a, P)
<1>1. /\ a \in Seq(Name) /\ P # {} /\ P \subseteq read /\ read \subseteq Seq(Name)
      /\ \A p \in P : IsStrictPrefix(a, p)
      /\ \A x \in read : IsPrefix(a, x)
  BY DEF Laid, Tree
<1>2. \A y : y \in N <=> y \in read /\ Reached(v, a, P, y) /\ y \notin P /\ ~Opens(v, a, P, y)
  BY NamesAre
<1> HIDE DEF N
<1>3. ASSUME NEW x \in Leaves(read) PROVE x \in read /\ x \in Seq(Name) /\ \A y \in read : ~IsStrictPrefix(x, y)
  BY <1>1 DEF Leaves
<1>4. ASSUME NEW x \in Leaves(read), NEW i \in N, IsPrefix(i, x), NEW p \in P, IsPrefix(p, x)
      PROVE  FALSE
  <2>1. /\ x \in Seq(Name) /\ p \in Seq(Name) /\ i \in Seq(Name) /\ IsPrefix(a, i) /\ IsPrefix(a, p)
        /\ i \notin P /\ ~Opens(v, a, P, i) /\ Reached(v, a, P, i)
    BY <1>1, <1>2, <1>3
  <2>2. p = i \/ IsStrictPrefix(p, i) \/ IsStrictPrefix(i, p)
    BY <1>4, <2>1, Comparable
  <2>3. CASE p = i
    BY <2>1, <2>3
  <2>4. CASE IsStrictPrefix(p, i)
    <3>1. Opens(v, a, P, p)
      BY <2>1, <2>4 DEF Reached
    <3> QED
      BY <2>1, <3>1, OpensIs
  <2>5. CASE IsStrictPrefix(i, p)
    <3>1. Opens(v, a, P, i)
      BY <2>1, <2>5, OpenBefore
    <3> QED
      BY <2>1, <3>1
  <2> QED
    BY <2>2, <2>3, <2>4, <2>5
<1>5. ASSUME NEW x \in Leaves(read), \A p \in P : ~IsPrefix(p, x)
      PROVE  \E i \in N : IsPrefix(i, x)
  <2> DEFINE Open == {q \in Seq(Name) : Opens(v, a, P, q)}
  <2>1. x \in read /\ x \in Seq(Name) /\ IsPrefix(a, x)
    BY <1>1, <1>3
  <2>2. x \notin Open
    <3> SUFFICES ASSUME Opens(v, a, P, x) PROVE FALSE
      BY <2>1
    <3>1. Under(P, x)
      BY <2>1, OpensIs
    <3>2. PICK p \in P : IsStrictPrefix(x, p)
      BY <3>1 DEF Under
    <3> QED
      BY <1>1, <1>3, <3>2
  <2>3. \A q \in Seq(Name) : q \in Open <=> Opens(v, a, P, q)
    OBVIOUS
  <2> HIDE DEF Open
  <2>4. PICK y \in Seq(Name) :
          /\ IsPrefix(a, y) /\ IsPrefix(y, x) /\ y \notin Open
          /\ \A q \in Seq(Name) : IsPrefix(a, q) /\ IsStrictPrefix(q, y) => q \in Open
    BY <1>1, <2>1, <2>2, FirstOut
  <2>5. y \in read
    <3>1. CASE y = x
      BY <2>1, <3>1
    <3>2. CASE y # x
      BY <2>1, <2>4, <3>2 DEF Laid, Tree, IsStrictPrefix
    <3> QED
      BY <3>1, <3>2
  <2>6. Reached(v, a, P, y) /\ ~Opens(v, a, P, y) /\ y \notin P
    BY <1>5, <2>3, <2>4 DEF Reached
  <2>7. y \in N
    BY <1>2, <2>5, <2>6
  <2> QED
    BY <2>4, <2>7
<1> QED
  BY <1>4, <1>5 DEF States, N

(* No shorter list of names does.                                          *)
LEMMA NamesFewest ==
  ASSUME NEW v, NEW P, NEW a, NEW read, Laid(v, P, a, read),
         NEW I \in SUBSET (read \ {a}), States(I, P, Leaves(read))
  PROVE  Cardinality(IgnoreNames(v, a, P)) <= Cardinality(I)
<1> DEFINE N == IgnoreNames(v, a, P)
           h == [y \in N |-> CHOOSE i \in I : IsPrefix(y, i)]
<1>1. /\ a \in Seq(Name) /\ P # {} /\ P \subseteq read /\ read \subseteq Seq(Name) /\ IsFiniteSet(read)
      /\ \A x \in read : IsPrefix(a, x)
  BY DEF Laid, Tree
<1>2. \A y : y \in N <=> y \in read /\ Reached(v, a, P, y) /\ y \notin P /\ ~Opens(v, a, P, y)
  BY NamesAre
<1>3. \A y \in read : \E x \in Leaves(read) : IsPrefix(y, x)
  <2> TAKE y \in read
  <2>1. PICK d \in Nat : \A x \in read : Len(x) <= d
    BY DEF Laid
  <2> QED
    BY <1>1, <2>1, LeafAbove
<1>4. States(N, P, Leaves(read))
  BY NamesState
<1>5. Leaves(read) \subseteq read
  BY DEF Leaves
<1> HIDE DEF N
<1>6. ASSUME NEW y \in N PROVE \E i \in I : IsPrefix(y, i)
  <2>1. /\ y \in read /\ y \in Seq(Name) /\ Reached(v, a, P, y)
    BY <1>1, <1>2
  <2>2. PICK x \in Leaves(read) : IsPrefix(y, x)
    BY <1>3, <2>1
  <2>3. \A p \in P : ~IsPrefix(p, x)
    BY <1>4, <2>2 DEF States
  <2>4. PICK i \in I : IsPrefix(i, x)
    BY <2>2, <2>3 DEF States
  <2>5. i \in read /\ i \in Seq(Name) /\ IsPrefix(a, i) /\ x \in Seq(Name)
    BY <1>1, <1>5
  <2>6. y = i \/ IsStrictPrefix(y, i) \/ IsStrictPrefix(i, y)
    BY <2>1, <2>2, <2>4, <2>5, Comparable
  <2>7. ASSUME IsStrictPrefix(i, y) PROVE FALSE
    <3>1. Opens(v, a, P, i)
      BY <2>1, <2>5, <2>7 DEF Reached
    <3>2. PICK p \in P : IsStrictPrefix(i, p)
      BY <2>5, <3>1, OpensIs DEF Under
    <3>3. PICK z \in Leaves(read) : IsPrefix(p, z)
      BY <1>1, <1>3
    <3>4. p \in Seq(Name) /\ z \in Seq(Name)
      BY <1>1, <1>5
    <3>5. IsPrefix(i, z)
      BY <2>5, <3>2, <3>3, <3>4, PrefixTransitive DEF IsStrictPrefix
    <3> QED
      BY <3>3, <3>5 DEF States
  <2>8. IsPrefix(y, y)
    BY <2>1, LenProperties, PrefixIs
  <2> QED
    BY <2>6, <2>7, <2>8 DEF IsStrictPrefix
<1>7. \A y \in N : h[y] \in I /\ IsPrefix(y, h[y])
  BY <1>6
<1>8. h \in [N -> I]
  BY <1>7
<1> HIDE DEF h
<1>9. ASSUME NEW y \in N, NEW z \in N, h[y] = h[z] PROVE y = z
  <2>1. /\ y \in Seq(Name) /\ z \in Seq(Name) /\ h[y] \in Seq(Name)
        /\ IsPrefix(y, h[y]) /\ IsPrefix(z, h[y]) /\ IsPrefix(a, y) /\ IsPrefix(a, z)
    BY <1>1, <1>2, <1>7, <1>9
  <2> DEFINE i == h[y]
  <2> HIDE DEF i
  <2>2. y = z \/ IsStrictPrefix(y, z) \/ IsStrictPrefix(z, y)
    <3>1. i \in Seq(Name) /\ IsPrefix(y, i) /\ IsPrefix(z, i)
      BY <2>1 DEF i
    <3> QED
      BY <2>1, <3>1, Comparable
  <2>3. ~IsStrictPrefix(y, z) /\ ~IsStrictPrefix(z, y)
    BY <1>2, <2>1 DEF Reached
  <2> QED
    BY <2>2, <2>3
<1>10. IsFiniteSet(I)
  <2>1. I \in SUBSET read
    OBVIOUS
  <2> QED
    BY <1>1, <2>1, FS_Subset
<1>11. h \in Injection(N, I)
  BY <1>8, <1>9 DEF Injection, IsInjective
<1>12. Cardinality(N) <= Cardinality(I)
  BY <1>10, <1>11, FS_Injection
<1> QED
  BY <1>12 DEF N

(* The least cost of a group is the number of names of its cut.            *)
LEMMA CostIs ==
  ASSUME NEW f \in Seq(Site), Len(f) <= MaxSites, NEW v \in Var, Hits(f, Naming(v)) # {},
         NEW P, P = Contributed(f, v), NEW a, a = AnchorOf(P),
         NEW read, read = ReadFor(v, a, P), P \subseteq read
  PROVE  Cardinality(IgnoreNames(v, a, P)) = LeastCost[v][P]
<1> DEFINE N == IgnoreNames(v, a, P)
           n0 == Cardinality(N)
           fit(n) == \E ignored \in kSubset(n, read \ {a}) : States(ignored, P, Leaves(read))
           groups(w) == UNION {kSubset(k, Paths[w]) : k \in 1..MaxSites}
           least(w) == [asserted \in groups(w) |->
             LET anchor == LongestCommonPrefix({Front(p) : p \in asserted})
                 r == ReadFor(w, anchor, asserted)
                 fits(n) == \E ignored \in kSubset(n, r \ {anchor}) : States(ignored, asserted, Leaves(r)) IN
             IF ~(asserted \subseteq r) THEN 0
             ELSE CHOOSE n \in 0..Cardinality(r) : fits(n) /\ \A m \in 0..(n - 1) : ~fits(m)]
<1>1. Laid(v, P, a, read)
  BY GroupLaid
<1>2. P \in groups(v)
  BY GroupCounted
<1>3. LeastCost[v] = least(v)
  BY DEF LeastCost
<1> HIDE DEF groups
<1>4. LeastCost[v][P] = CHOOSE n \in 0..Cardinality(read) : fit(n) /\ \A m \in 0..(n - 1) : ~fit(m)
  <2>1. LongestCommonPrefix({Front(p) : p \in P}) = a
    BY DEF AnchorOf
  <2> DEFINE val(anchor) ==
        LET r == ReadFor(v, anchor, P)
            fits(n) == \E ignored \in kSubset(n, r \ {anchor}) : States(ignored, P, Leaves(r)) IN
        IF ~(P \subseteq r) THEN 0
        ELSE CHOOSE n \in 0..Cardinality(r) : fits(n) /\ \A m \in 0..(n - 1) : ~fits(m)
  <2>2. LeastCost[v][P] = val(LongestCommonPrefix({Front(p) : p \in P}))
    BY <1>2, <1>3
  <2>3. LeastCost[v][P] = val(a)
    <3> HIDE DEF val
    <3> QED
      BY <2>1, <2>2
  <2> QED
    BY <2>3
<1> HIDE DEF least
<1>5. N \subseteq read \ {a} /\ IsFiniteSet(read)
  <2>1. N \subseteq read \ {a}
    BY <1>1, NamesAre
  <2>2. IsFiniteSet(read)
    BY <1>1 DEF Laid, Tree
  <2> QED
    BY <2>1, <2>2
<1>6. States(N, P, Leaves(read))
  BY <1>1, NamesState
<1>7. \A I \in SUBSET (read \ {a}) : States(I, P, Leaves(read)) => n0 <= Cardinality(I)
  BY <1>1, NamesFewest
<1> HIDE DEF N
<1>8. n0 \in Nat /\ n0 \in 0..Cardinality(read)
  <2>1. N \in SUBSET read
    BY <1>5
  <2>2. IsFiniteSet(N) /\ n0 <= Cardinality(read)
    BY <1>5, <2>1, FS_Subset
  <2>3. n0 \in Nat /\ Cardinality(read) \in Nat
    BY <1>5, <2>2, FS_CardinalityType
  <2> HIDE DEF n0
  <2> QED
    BY <2>2, <2>3
<1>9. fit(n0)
  BY <1>5, <1>6 DEF kSubset
<1>10. ASSUME NEW m, fit(m) PROVE n0 <= m
  <2>1. PICK I \in kSubset(m, read \ {a}) : States(I, P, Leaves(read))
    BY <1>10
  <2>2. I \in SUBSET (read \ {a}) /\ Cardinality(I) = m
    BY <2>1 DEF kSubset
  <2> QED
    BY <1>7, <2>1, <2>2
<1> HIDE DEF fit, n0
<1>11. \A n \in 0..Cardinality(read) :
         (fit(n) /\ \A m \in 0..(n - 1) : ~fit(m)) <=> n = n0
  <2>1. Cardinality(read) \in Nat
    BY <1>5, FS_CardinalityType
  <2> SUFFICES ASSUME NEW n \in 0..Cardinality(read)
               PROVE  (fit(n) /\ \A m \in 0..(n - 1) : ~fit(m)) <=> n = n0
    OBVIOUS
  <2>2. n \in Nat
    BY <2>1
  <2>3. ASSUME fit(n), \A m \in 0..(n - 1) : ~fit(m) PROVE n = n0
    <3>1. n0 <= n
      BY <1>10, <2>3
    <3>2. ~(n0 \in 0..(n - 1))
      BY <1>9, <2>3
    <3> QED
      BY <1>8, <2>2, <3>1, <3>2
  <2>4. ASSUME n = n0 PROVE fit(n) /\ \A m \in 0..(n - 1) : ~fit(m)
    <3>1. ASSUME NEW m \in 0..(n - 1), fit(m) PROVE FALSE
      <4>1. n0 <= m
        BY <1>10, <3>1
      <4> QED
        BY <1>8, <2>2, <2>4, <4>1
    <3> QED
      BY <1>9, <2>4, <3>1
  <2> QED
    BY <2>3, <2>4
<1>12. LeastCost[v][P] = n0
  BY <1>4, <1>8, <1>11
<1> QED
  BY <1>12 DEF n0, N

LEMMA CuttingLeast ==
  ASSUME IInv
  PROVE  CutLeast
<1> SUFFICES ASSUME NEW v \in Range(order),
                    NEW P, P = runs[v].fields,
                    NEW a, a = LongestCommonPrefix({Front(p) : p \in P}),
                    NEW read, read = ReadFor(v, a, P), P \subseteq read
             PROVE  /\ States(IgnoreNames(v, a, P), P, Leaves(read))
                    /\ Cardinality(IgnoreNames(v, a, P)) = LeastCost[v][P]
  BY DEF CutLeast
<1>1. /\ v \in Var /\ Hits(fn, Naming(v)) # {} /\ fn \in Seq(Site) /\ Len(fn) <= MaxSites
      /\ P = Contributed(fn, v)
  BY DEF IInv, Collected, Ordered, RunOf
<1>2. a = AnchorOf(P)
  BY DEF AnchorOf
<1>3. Laid(v, P, a, read)
  BY <1>1, <1>2, GroupLaid
<1>4. States(IgnoreNames(v, a, P), P, Leaves(read))
  BY <1>3, NamesState
<1>5. Cardinality(IgnoreNames(v, a, P)) = LeastCost[v][P]
  BY <1>1, <1>2, CostIs
<1> QED
  BY <1>4, <1>5

-------------------------------------------------------------------------------
(* The fix of a report.                                                    *)

(* The struct that the diff rule counts is the one at the anchor.          *)
DiffType(s) == IF Kind[Unpointer(s)] = "named" THEN Of[Unpointer(s)] ELSE Unpointer(s)

LEMMA DiffStruct ==
  ASSUME MaxDepth >= 3, NEW s \in Type, Kind[DiffType(s)] = "struct"
  PROVE  StructUnder(s, TRUE) = DiffType(s) /\ Selectable[s] = Range(Fields[DiffType(s)])
<1> DEFINE t == Unpointer(s)
           u == DiffType(s)
<1>0. u = (IF Kind[t] = "named" THEN Of[t] ELSE t) /\ Kind[u] = "struct"
  BY DEF DiffType
<1> DEFINE B == Below[s]
           Link(j) == j \in 0..2 /\ B[j] = u /\ \A i \in 0..(j - 1) : B[i] \in Type /\ Kind[B[i]] # "struct"
           found == {k \in 0..(MaxDepth - 1) : B[k] # NoType /\ Kind[B[k]] = "struct"}
<1> HIDE DEF u
<1>1. /\ NoType \notin Type /\ Of \in [Type -> Type \cup {NoType}] /\ MaxDepth \in Nat
      /\ \A x \in Type : Of[x] # NoType <=> Kind[x] \in {"named"} \cup Container
  BY TypeGraphAssumption
<1>2. /\ B[0] = s
      /\ \A k \in 1..MaxDepth : B[k] = IF B[k - 1] = NoType THEN NoType ELSE Of[B[k - 1]]
  BY BelowIs
<1> HIDE DEF B
<1>3. B[0] = s /\ B[1] = Of[s] /\ (Of[s] \in Type => B[2] = Of[Of[s]])
  <2>1. 1 \in 1..MaxDepth /\ 2 \in 1..MaxDepth
    BY <1>1
  <2>2. B[1] = IF B[1 - 1] = NoType THEN NoType ELSE Of[B[1 - 1]]
    BY ONLY <1>2, <2>1
  <2>3. B[2] = IF B[2 - 1] = NoType THEN NoType ELSE Of[B[2 - 1]]
    BY ONLY <1>2, <2>1
  <2>4. 1 - 1 = 0 /\ 2 - 1 = 1
    OBVIOUS
  <2>5. B[1] = Of[s]
    BY <1>1, <1>2, <2>2, <2>4
  <2>6. Of[s] \in Type => B[2] = Of[Of[s]]
    BY <1>1, <2>3, <2>4, <2>5
  <2> QED
    BY <1>2, <2>5, <2>6
<1>4. u \in Type /\ Of[u] = NoType /\ \E j : Link(j)
  <2>1. t \in Type /\ (Kind[s] = "pointer" => t = Of[s]) /\ (Kind[s] # "pointer" => t = s)
    BY <1>1 DEF Unpointer, Container
  <2> HIDE DEF t
  <2>2. u \in Type
    BY <1>0, <1>1, <2>1
  <2>3. Of[u] = NoType
    BY <1>0, <1>1, <2>2 DEF Container
  <2>4. CASE Kind[t] # "named" /\ Kind[s] # "pointer"
    <3>1. B[0] = u
      BY <1>0, <1>3, <2>1, <2>4
    <3>2. Link(0)
      BY <3>1
    <3> QED
      BY <2>2, <2>3, <3>2
  <2>5. CASE Kind[t] = "named" /\ Kind[s] # "pointer"
    <3>1. B[1] = u /\ B[0] = s /\ Kind[s] # "struct"
      BY <1>0, <1>3, <2>1, <2>5
    <3>2. Link(1)
      BY <3>1
    <3> QED
      BY <2>2, <2>3, <3>2
  <2>6. CASE Kind[t] # "named" /\ Kind[s] = "pointer"
    <3>1. B[1] = u /\ B[0] = s /\ Kind[s] # "struct"
      BY <1>0, <1>3, <2>1, <2>6
    <3>2. Link(1)
      BY <3>1
    <3> QED
      BY <2>2, <2>3, <3>2
  <2>7. CASE Kind[t] = "named" /\ Kind[s] = "pointer"
    <3>1. B[2] = u /\ B[1] = t /\ B[0] = s /\ Kind[s] # "struct" /\ Kind[t] # "struct"
      BY <1>0, <1>3, <2>1, <2>7
    <3>2. \A i \in 0..(2 - 1) : i = 0 \/ i = 1
      OBVIOUS
    <3>3. Link(2)
      BY <2>1, <3>1, <3>2
    <3> QED
      BY <2>2, <2>3, <3>3
  <2> QED
    BY <2>4, <2>5, <2>6, <2>7
<1>5. PICK j : Link(j)
  BY <1>4
<1>6. j \in Nat /\ j <= 2 /\ j \in 0..(MaxDepth - 1)
  BY <1>1, <1>5
<1>7. \A k \in 0..(MaxDepth - 1) : j < k => B[k] = NoType
  <2> DEFINE S == {n \in Nat : j + n + 1 <= MaxDepth => B[j + n + 1] = NoType}
  <2>1. 0 \in S
    <3> SUFFICES ASSUME j + 1 <= MaxDepth PROVE B[j + 1] = NoType
      BY <1>6
    <3>1. j + 1 \in 1..MaxDepth /\ (j + 1) - 1 = j
      BY <1>1, <1>6
    <3> QED
      BY <1>1, <1>2, <1>4, <1>5, <3>1
  <2>2. ASSUME NEW n \in S PROVE n + 1 \in S
    <3> SUFFICES ASSUME j + (n + 1) + 1 <= MaxDepth PROVE B[j + (n + 1) + 1] = NoType
      OBVIOUS
    <3>1. /\ j + (n + 1) + 1 \in 1..MaxDepth /\ (j + (n + 1) + 1) - 1 = j + n + 1
          /\ j + n + 1 <= MaxDepth /\ n \in Nat
      BY <1>1, <1>6
    <3>2. B[j + n + 1] = NoType
      BY <3>1
    <3> QED
      BY <1>2, <3>1, <3>2
  <2> HIDE DEF S
  <2>3. S \subseteq Nat
    BY DEF S
  <2>4. \A n \in Nat : n \in S
    BY <2>1, <2>2, <2>3, SetInduction
  <2> SUFFICES ASSUME NEW k \in 0..(MaxDepth - 1), j < k PROVE B[k] = NoType
    OBVIOUS
  <2> DEFINE n == k - j - 1
  <2>5. n \in Nat /\ j + n + 1 = k /\ k <= MaxDepth
    BY <1>1, <1>6
  <2> HIDE DEF n
  <2>6. n \in S
    BY <2>4, <2>5
  <2> QED
    BY <2>5, <2>6 DEF S
<1>8. \A k : k \in found <=> k = j
  <2>1. j \in found
    BY <1>0, <1>1, <1>4, <1>5, <1>6
  <2>2. ASSUME NEW k \in found PROVE k = j
    <3>1. k \in 0..(MaxDepth - 1) /\ B[k] # NoType /\ Kind[B[k]] = "struct"
      OBVIOUS
    <3>2. ~(j < k)
      BY <1>7, <3>1
    <3>3. ~(k < j)
      <4> SUFFICES ASSUME k < j PROVE FALSE
        OBVIOUS
      <4>1. k \in 0..(j - 1)
        BY <1>1, <1>6, <3>1
      <4> QED
        BY <1>5, <3>1, <4>1
    <3> QED
      BY <1>1, <1>6, <3>1, <3>2, <3>3
  <2> QED
    BY <2>1, <2>2
<1>9. StructUnder(s, TRUE) = IF found = {} THEN NoType ELSE B[CHOOSE k \in found : TRUE]
  BY DEF StructUnder, Structs, B
<1> HIDE DEF found
<1>10. StructUnder(s, TRUE) = u
  <2>1. found # {} /\ (CHOOSE k \in found : TRUE) = j
    BY <1>8
  <2> QED
    BY <1>5, <1>9, <2>1
<1>11. Selectable[s] = Range(Fields[u])
  <2>1. u # NoType
    BY <1>1, <1>4
  <2>2. Selectable[s] = IF StructUnder(s, TRUE) = NoType THEN {} ELSE Range(Fields[StructUnder(s, TRUE)])
    BY DEF Selectable
  <2> QED
    BY <1>10, <2>1, <2>2
<1> QED
  BY <1>10, <1>11 DEF u

(* Two fields of a group part at the anchor.                               *)
LEMMA HeadsPart ==
  ASSUME NEW P, P \subseteq Seq(Name) \ {<<>>}, \A p, q \in P : ~IsStrictPrefix(p, q),
         NEW p1 \in P, NEW p2 \in P, p1 # p2, NEW a, a = AnchorOf(P)
  PROVE  \E p, q \in P : p[Len(a) + 1] # q[Len(a) + 1]
<1> SUFFICES ASSUME \A p, q \in P : p[Len(a) + 1] = q[Len(a) + 1] PROVE FALSE
  OBVIOUS
<1> DEFINE n == Len(a)
           b == SubSeq(p1, 1, n + 1)
<1>1. /\ a \in Seq(Name) /\ \A p \in P : IsStrictPrefix(a, p)
      /\ \A q \in Seq(Name) : (\A p \in P : IsPrefix(q, Front(p))) => IsPrefix(q, a)
  <2>1. P # {}
    OBVIOUS
  <2> QED
    BY <2>1, AnchorAbove
<1>2. \A p \in P : p \in Seq(Name) /\ Len(p) \in Nat /\ n \in Nat /\ n < Len(p)
  <2> TAKE p \in P
  <2>1. p \in Seq(Name) /\ IsStrictPrefix(a, p)
    BY <1>1
  <2> QED
    BY <1>1, <2>1, StrictLonger
<1>3. \A p \in P : \A i \in 1..n : p[i] = a[i]
  BY <1>1, <1>2, PrefixIs DEF IsStrictPrefix
<1> HIDE DEF n
<1>4. n + 1 \in 0..Len(p1) /\ n \in Nat
  BY <1>2
<1>5. b \in Seq(Name) /\ Len(b) = n + 1 /\ IsPrefix(b, p1)
  BY <1>2, <1>4, Cutting
<1> HIDE DEF b
<1>6. ASSUME NEW p \in P PROVE IsPrefix(b, p)
  <2>1. \A i \in 1..(n + 1) : b[i] = p1[i]
    BY <1>2, <1>5, PrefixIs
  <2>2. ASSUME NEW i \in 1..(n + 1) PROVE b[i] = p[i]
    <3>1. CASE i = n + 1
      <4>1. p1[n + 1] = p[n + 1]
        BY DEF n
      <4> QED
        BY <2>1, <3>1, <4>1
    <3>2. CASE i # n + 1
      <4>1. i \in 1..n
        BY <1>4, <3>2
      <4> QED
        BY <1>3, <2>1, <4>1
    <3> QED
      BY <3>1, <3>2
  <2>3. Len(b) <= Len(p)
    BY <1>2, <1>4, <1>5
  <2> QED
    BY <1>2, <1>5, <2>2, <2>3, PrefixIs
<1>7. ASSUME NEW p \in P PROVE IsPrefix(b, Front(p))
  <2>1. b # p
    <3> SUFFICES ASSUME b = p PROVE FALSE
      OBVIOUS
    <3>1. PICK q \in P : q # p
      OBVIOUS
    <3>2. IsStrictPrefix(p, q)
      BY <1>6, <3>1 DEF IsStrictPrefix
    <3> QED
      BY <3>2
  <2>2. Len(b) < Len(p)
    BY <1>2, <1>5, <1>6, <2>1, StrictLonger DEF IsStrictPrefix
  <2>3. Front(p) \in Seq(Name) /\ Len(Front(p)) = Len(p) - 1 /\ IsPrefix(Front(p), p)
    BY FrontIs
  <2>4. Len(b) <= Len(Front(p))
    BY <1>2, <1>4, <1>5, <2>2, <2>3
  <2> QED
    BY <1>2, <1>5, <1>6, <2>3, <2>4, PrefixesMeet
<1>8. IsPrefix(b, a)
  BY <1>1, <1>5, <1>7
<1>9. n + 1 <= n
  BY <1>5, <1>8 DEF IsPrefix, n
<1> QED
  BY <1>4, <1>9

(* The fields of the anchor that lead to asserted ones are not ignored.    *)
LEMMA HeadKept ==
  ASSUME NEW v, NEW P, NEW a, NEW read, Laid(v, P, a, read), NEW p \in P,
         NEW y \in IgnoreNames(v, a, P)
  PROVE  SubSeq(y, Len(a) + 1, Len(y)) # <<p[Len(a) + 1]>>
<1> DEFINE h == p[Len(a) + 1]
           n == Len(a)
           c == SubSeq(y, n + 1, Len(y))
           one == <<h>>
<1> SUFFICES ASSUME c = one PROVE FALSE
  OBVIOUS
<1>1. /\ a \in Seq(Name) /\ p \in Seq(Name) /\ IsStrictPrefix(a, p) /\ read \subseteq Seq(Name)
      /\ \A x \in read : IsPrefix(a, x)
  BY DEF Laid, Tree
<1>2. y \in read /\ y \notin P /\ ~Opens(v, a, P, y)
  BY NamesAre
<1>3. y \in Seq(Name) /\ IsPrefix(a, y)
  BY <1>1, <1>2
<1>4. n \in Nat /\ Len(p) \in Nat /\ n < Len(p) /\ Len(y) \in Nat /\ n <= Len(y)
  BY <1>1, <1>3, StrictLonger, LenProperties DEF IsPrefix
<1>5. Len(one) = 1 /\ one[1] = h
  OBVIOUS
<1> HIDE DEF one, h, n
<1>6. c = [i \in 1..(Len(y) - n) |-> y[i + n]] /\ Len(c) = Len(y) - n
  <2>1. n + 1 \in Nat /\ Len(y) \in Nat /\ n + 1 <= Len(y) + 1
    BY <1>4
  <2> QED
    BY <1>3, <1>4, <2>1
<1> HIDE DEF c
<1>7. Len(y) = n + 1
  BY <1>4, <1>5, <1>6
<1>8. y[n + 1] = h
  <2>1. 1 \in 1..(Len(y) - n) /\ 1 + n = n + 1
    BY <1>4, <1>7
  <2>2. c[1] = y[1 + n]
    BY <1>6, <2>1
  <2> QED
    BY <1>5, <2>1, <2>2
<1>9. IsPrefix(y, p)
  <2>1. (\A i \in 1..n : p[i] = a[i]) /\ (\A i \in 1..n : y[i] = a[i])
    BY <1>1, <1>3, PrefixIs DEF IsStrictPrefix, n
  <2>2. ASSUME NEW i \in 1..(n + 1) PROVE y[i] = p[i]
    <3>1. CASE i = n + 1
      BY <1>8, <3>1 DEF h, n
    <3>2. CASE i # n + 1
      <4>1. i \in 1..n
        BY <1>4, <3>2
      <4> QED
        BY <2>1, <4>1
    <3> QED
      BY <3>1, <3>2
  <2>3. Len(y) <= Len(p)
    BY <1>4, <1>7
  <2> QED
    BY <1>1, <1>3, <1>7, <2>2, <2>3, PrefixIs
<1>10. y # p
  BY <1>2
<1>11. Opens(v, a, P, y)
  BY <1>2, <1>3, <1>9, <1>10, OpenBefore DEF IsStrictPrefix
<1> QED
  BY <1>2, <1>11

LEMMA ReportedIs ==
  ASSUME IInv, NEW r \in Reported("run")
  PROVE  /\ r.base \in Grouped(fn) /\ r.base \in Var /\ Hits(fn, Naming(r.base)) # {}
         /\ fn \in Seq(Site)
         /\ runs[r.base].fields = Contributed(fn, r.base)
         /\ Cardinality(runs[r.base].fields) >= MinFields
         /\ r.anchor = AnchorOf(runs[r.base].fields)
         /\ r.at = TypeAt(VarType[r.base], r.anchor)
<1> DEFINE seen(x) == [base |-> x.base, pos |-> x.pos, count |-> x.count, anchor |-> x.anchor]
<1>1. Collected /\ Reporting
  BY DEF IInv
<1>2. r \in Range(reports) /\ r.shape = "run"
  BY DEF Reported
<1>3. phase = "done"
  <2>1. r.shape # "inline"
    BY <1>2
  <2> QED
    BY <1>1, <1>2, <2>1 DEF Reporting
<1>4. RunReported(reports) = RunGroups(fn) /\ r.at = TypeAt(VarType[r.base], r.anchor)
  BY <1>1, <1>2, <1>3 DEF Reporting, Placed
<1>5. seen(r) \in RunReported(reports)
  BY <1>2 DEF RunReported
<1>6. PICK v \in Grouped(fn) : seen(r) = Group(fn, v)
  BY <1>4, <1>5 DEF RunGroups, Group
<1>7. seen(r).base = r.base /\ seen(r).anchor = r.anchor
  OBVIOUS
<1>8. Group(fn, v).base = v /\ Group(fn, v).anchor = AnchorOf(Contributed(fn, v))
  BY DEF Group
<1> HIDE DEF seen
<1>9. r.base = v /\ r.anchor = AnchorOf(Contributed(fn, v))
  BY <1>6, <1>7, <1>8
<1>10. v \in Var /\ Hits(fn, Naming(v)) # {} /\ Cardinality(Contributed(fn, v)) >= MinFields
  BY <1>6 DEF Grouped
<1>11. fn \in Seq(Site) /\ runs[v].fields = Contributed(fn, v)
  BY <1>1, <1>10 DEF Collected, RunOf
<1> QED
  BY <1>4, <1>6, <1>9, <1>10, <1>11

(* A diff that keeps two fields of its struct is not reported.             *)
KeepsTwo(u, dropped) ==
  Kind[u] = "struct" =>
    /\ IsFiniteSet(Range(Fields[u]))
    /\ \E g, h \in {k \in Range(Fields[u]) : k.exported} :
         g.name # h.name /\ <<g.name>> \notin dropped /\ <<h.name>> \notin dropped

LEMMA TwoKept ==
  ASSUME NEW site, NEW n, NEW dropped, \A o \in site.options : o.names \subseteq dropped,
         KeepsTwo(DiffType(site.want), dropped)
  PROVE  DiffReport(site, n) = <<>>
<1> DEFINE t == Unpointer(site.want)
           u == DiffType(site.want)
           exported == {f.name : f \in {g \in Range(Fields[u]) : g.exported}}
           lists == {o \in site.options : o.type = t}
           out == UNION {o.names : o \in lists}
           left == {f \in exported : <<f>> \notin out}
           counted == \A o \in lists : o.constant /\ \A p \in o.names :
                        Len(p) = 1 => \E f \in Range(Fields[u]) : f.name = p[1]
           asked == /\ Unpointer(site.got) = t /\ Kind[u] = "struct" /\ site.options # {}
                    /\ counted /\ left # exported /\ Cardinality(left) <= 1
<1>1. DiffReport(site, n) = IF asked THEN <<[shape |-> "diff", pos |-> n, left |-> left]>> ELSE <<>>
  BY DEF DiffReport, DiffType
<1>2. ASSUME Kind[u] = "struct" PROVE ~(Cardinality(left) <= 1)
  <2> DEFINE F == Range(Fields[u])
             E == {g \in F : g.exported}
             h == [g \in E |-> g.name]
  <2>1. IsFiniteSet(F)
    BY <1>2 DEF KeepsTwo
  <2>2. IsFiniteSet(E)
    <3>1. E \in SUBSET F
      OBVIOUS
    <3> HIDE DEF E, F
    <3> QED
      BY <2>1, <3>1, FS_Subset
  <2>3. h \in Surjection(E, exported)
    <3>1. exported = {g.name : g \in E}
      OBVIOUS
    <3> HIDE DEF E, exported
    <3> QED
      BY <3>1 DEF Surjection
  <2>4. IsFiniteSet(exported)
    <3> HIDE DEF E, exported, h
    <3> QED
      BY <2>2, <2>3, FS_Surjection
  <2>5. IsFiniteSet(left)
    <3>1. left \in SUBSET exported
      OBVIOUS
    <3> HIDE DEF left, exported
    <3> QED
      BY <2>4, <3>1, FS_Subset
  <2>6. out \subseteq dropped
    OBVIOUS
  <2>7. \E x, y \in left : x # y
    <3>1. PICK g \in E, k \in E : g.name # k.name /\ <<g.name>> \notin dropped /\ <<k.name>> \notin dropped
      BY <1>2 DEF KeepsTwo
    <3>2. g.name \in exported /\ k.name \in exported
      OBVIOUS
    <3> HIDE DEF exported, out, E
    <3> QED
      BY <2>6, <3>1, <3>2
  <2> HIDE DEF left
  <2>8. Cardinality(left) \in Nat /\ ~(Cardinality(left) < 2)
    BY <2>5, <2>7, FS_CardinalityType, AtLeastTwo
  <2> QED
    BY <2>8
<1> HIDE DEF left, counted, exported
<1> QED
  BY <1>1, <1>2

(* The fix of a report keeps two fields at the anchor.                     *)
Ignored(v, P, a) == {SubSeq(y, Len(a) + 1, Len(y)) : y \in IgnoreNames(v, a, P)}

LEMMA FixKeeps ==
  ASSUME MaxDepth >= 3,
         NEW v, NEW P, P \subseteq Seq(Name) \ {<<>>}, NEW a, a = AnchorOf(P), NEW read,
         Laid(v, P, a, read), \A p, q \in P : ~IsStrictPrefix(p, q),
         \E p, q \in P : p # q,
         NEW s \in Type, s = TypeAt(VarType[v], a),
         \A f \in Selectable[s] : f.name \in {p[Len(a) + 1] : p \in P} => f.exported
  PROVE  KeepsTwo(DiffType(s), Ignored(v, P, a))
<1> DEFINE u == DiffType(s)
           below == Ignored(v, P, a)
<1> SUFFICES ASSUME Kind[u] = "struct"
             PROVE  /\ IsFiniteSet(Range(Fields[u]))
                    /\ \E g, h \in {k \in Range(Fields[u]) : k.exported} :
                         g.name # h.name /\ <<g.name>> \notin below /\ <<h.name>> \notin below
  BY DEF KeepsTwo
<1>1. Selectable[s] = Range(Fields[u])
  BY DiffStruct
<1> HIDE DEF u
<1>2. IsFiniteSet(Range(Fields[u]))
  BY <1>1, SelectableIs
<1>3. PICK p \in P, q \in P : p[Len(a) + 1] # q[Len(a) + 1]
  <2>1. /\ P \subseteq Seq(Name) \ {<<>>} /\ a = AnchorOf(P)
        /\ \A p, q \in P : ~IsStrictPrefix(p, q)
    OBVIOUS
  <2>2. PICK p \in P, q \in P : p # q
    OBVIOUS
  <2>3. \E x, y \in P : x[Len(a) + 1] # y[Len(a) + 1]
    BY ONLY <2>1, <2>2, HeadsPart
  <2> QED
    BY <2>3
<1>4. ASSUME NEW r \in P
      PROVE  \E g \in {k \in Range(Fields[u]) : k.exported} : g.name = r[Len(a) + 1] /\ <<g.name>> \notin below
  <2>1. a \in Seq(Name)
    BY DEF Laid
  <2>2. IsPrefix(a, a)
    BY <2>1, LenProperties, PrefixIs
  <2>3. PICK g \in Selectable[s] : g.name = r[Len(a) + 1]
    BY <2>1, <2>2 DEF Laid, Tree
  <2>4. g.exported /\ g \in Range(Fields[u])
    BY <1>1, <2>3
  <2>5. <<g.name>> \notin below
    <3>1. \A y \in IgnoreNames(v, a, P) : SubSeq(y, Len(a) + 1, Len(y)) # <<r[Len(a) + 1]>>
      BY HeadKept
    <3> QED
      BY <2>3, <3>1 DEF Ignored
  <2> QED
    BY <2>3, <2>4, <2>5
<1>5. PICK g \in {k \in Range(Fields[u]) : k.exported} : g.name = p[Len(a) + 1] /\ <<g.name>> \notin below
  BY <1>4
<1>6. PICK h \in {k \in Range(Fields[u]) : k.exported} : h.name = q[Len(a) + 1] /\ <<h.name>> \notin below
  BY <1>4
<1>7. g.name # h.name
  BY <1>3, <1>5, <1>6
<1> QED
  BY <1>2, <1>5, <1>6, <1>7

LEMMA Settling ==
  ASSUME IInv, MinFields >= 2, MaxDepth >= 3
  PROVE  FixStays
<1> SUFFICES ASSUME NEW r \in Reported("run"),
                    NEW P, P = runs[r.base].fields,
                    P \subseteq ReadFor(r.base, r.anchor, P),
                    \A p, q \in P : ~IsStrictPrefix(p, q),
                    \A f \in Selectable[r.at] :
                      f.name \in {SubSeq(p, Len(r.anchor) + 1, Len(p))[1] : p \in P} => f.exported
             PROVE  DiffReport([kind |-> "diff", want |-> r.at, got |-> r.at,
                                options |-> {[type |-> Unpointer(r.at), constant |-> TRUE,
                                              names |-> {SubSeq(y, Len(r.anchor) + 1, Len(y)) :
                                                           y \in IgnoreNames(r.base, r.anchor, P)}]}], 0) = <<>>
  BY DEF FixStays
<1> DEFINE v == r.base
           a == r.anchor
           read == ReadFor(v, a, P)
           below == {SubSeq(y, Len(a) + 1, Len(y)) : y \in IgnoreNames(v, a, P)}
           option == [type |-> Unpointer(r.at), constant |-> TRUE, names |-> below]
           fix == [kind |-> "diff", want |-> r.at, got |-> r.at, options |-> {option}]
<1>1. /\ v \in Var /\ Hits(fn, Naming(v)) # {} /\ fn \in Seq(Site) /\ P = Contributed(fn, v)
      /\ Cardinality(P) >= MinFields /\ a = AnchorOf(P) /\ r.at = TypeAt(VarType[v], a)
  BY ReportedIs
<1>2. fix.want = r.at /\ \A o \in fix.options : o.names = below
  <2>1. option.names = below
    OBVIOUS
  <2> HIDE DEF option
  <2>2. fix.want = r.at /\ fix.options = {option}
    OBVIOUS
  <2> HIDE DEF fix, below
  <2> QED
    BY <2>1, <2>2
<1>3. P \subseteq read /\ read = ReadFor(v, a, P) /\ below = {SubSeq(y, Len(a) + 1, Len(y)) : y \in IgnoreNames(v, a, P)}
  OBVIOUS
<1>4. \A f \in Selectable[r.at] : f.name \in {SubSeq(p, Len(a) + 1, Len(p))[1] : p \in P} => f.exported
  OBVIOUS
<1> HIDE DEF v, a, read, below, fix
<1>5. P \subseteq Seq(Name) \ {<<>>} /\ IsFiniteSet(P) /\ P # {}
  BY <1>1, ContributedTyped
<1>6. Laid(v, P, a, read)
  BY <1>1, <1>3, GroupLaid
<1>7. a \in Seq(Name) /\ \A p \in P : IsStrictPrefix(a, p) /\ p \in Seq(Name)
  BY <1>5, <1>6 DEF Laid
<1>8. \E p, q \in P : p # q
  <2>1. Cardinality(P) \in Nat /\ MinFields \in Nat
    BY <1>5, FS_CardinalityType, TypeGraphAssumption
  <2>2. ~(Cardinality(P) < 2)
    BY <1>1, <2>1
  <2> QED
    BY <1>5, <2>2, AtLeastTwo
<1>9. r.at \in Type
  <2>1. PICK p \in P : TRUE
    BY <1>5
  <2> QED
    BY <1>1, <1>7, <2>1, GroupTyped DEF IsStrictPrefix
<1>10. \A p \in P : SubSeq(p, Len(a) + 1, Len(p))[1] = p[Len(a) + 1]
  <2> SUFFICES ASSUME NEW p \in P PROVE SubSeq(p, Len(a) + 1, Len(p))[1] = p[Len(a) + 1]
    OBVIOUS
  <2>1. p \in Seq(Name) /\ Len(a) \in Nat /\ Len(p) \in Nat /\ Len(a) < Len(p)
    BY <1>7, StrictLonger
  <2> QED
    BY <2>1
<1>11. \A f \in Selectable[r.at] : f.name \in {p[Len(a) + 1] : p \in P} => f.exported
  BY <1>4, <1>10
<1>12. KeepsTwo(DiffType(r.at), Ignored(v, P, a))
  <2> DEFINE s == r.at
  <2>1. s \in Type /\ s = TypeAt(VarType[v], a)
    BY <1>1, <1>9
  <2>2. \A f \in Selectable[s] : f.name \in {p[Len(a) + 1] : p \in P} => f.exported
    BY <1>11
  <2>3. a = AnchorOf(P) /\ MaxDepth >= 3 /\ (\A p, q \in P : ~IsStrictPrefix(p, q)) /\ P \subseteq Seq(Name) \ {<<>>}
    BY <1>1, <1>5
  <2> HIDE DEF s
  <2>4. KeepsTwo(DiffType(s), Ignored(v, P, a))
    BY ONLY <1>6, <1>8, <2>1, <2>2, <2>3, FixKeeps
  <2> QED
    BY <2>4 DEF s
<1>13. DiffReport(fix, 0) = <<>>
  <2>1. below = Ignored(v, P, a)
    BY <1>3 DEF Ignored
  <2>2. KeepsTwo(DiffType(fix.want), below)
    BY <1>2, <1>12, <2>1
  <2>3. \A o \in fix.options : o.names \subseteq below
    BY <1>2
  <2> QED
    BY ONLY <2>2, <2>3, TwoKept
<1> QED
  BY <1>13 DEF fix, below, v, a

-------------------------------------------------------------------------------
(* The inspection keeps its types: no base is listed twice.                *)
THEOREM TypeCorrect ==
  Spec => []TypeOK
BY Invariant, Typing, PTL

(* For every type graph, every function and every order of the map, the    *)
(* anchor of a group is the longest path that the parents of its fields    *)
(* share, with the type there.                                             *)
THEOREM AnchorFound ==
  Spec => []AnchorDeepest
BY Invariant, Anchoring, PTL

(* The runs that are reported are those that docs/spec/002-rules.md counts *)
(* over the sites of the function, each at its first site; only bases that *)
(* pair with several others, and with no single one often enough, are left *)
(* out.                                                                    *)
THEOREM RunsCounted ==
  Spec => []RunsDocumented
BY Invariant, Counting, PTL

(* The collections that are reported are those that enough sites compare   *)
(* element by element.                                                     *)
THEOREM ElementsCounted ==
  Spec => []ElementsDocumented
BY Invariant, ElementCounting, PTL

(* "The cut counts the cmpopts.IgnoreFields names that one comparison at   *)
(* the anchor needs": for every type graph and every group of asserted     *)
(* fields, its names state exactly the group, and no shorter list does.    *)
THEOREM CutIsLeast ==
  Spec => []CutLeast
BY Invariant, CuttingLeast, PTL

(* The fix of a report is not reported in its turn, where a group needs    *)
(* two fields, as the default does ("a number of 1 gives no useful rule"), *)
(* and the walk through the containers of a type takes three steps (the    *)
(* code takes twelve).                                                     *)
THEOREM FixSettled ==
  ASSUME MinFields >= 2, MaxDepth >= 3
  PROVE  Spec => []FixStays
<1>1. IInv => FixStays
  BY Settling
<1> QED
  BY <1>1, Invariant, PTL
===============================================================================
