----------------------------- MODULE ToolingProofs -----------------------------
(***************************************************************************)
(* Proofs about what surrounds the rules.                                  *)
(*                                                                         *)
(* Settings: for every registry, every settings, and every order in which  *)
(* plugins are built and flags are set.                                    *)
(*                                                                         *)
(* Gate: where the nearest enclosing package of a file is the one that     *)
(* reads it, and commits hold the whole worktree, the scoped gate lets no  *)
(* broken commit through.                                                  *)
(*                                                                         *)
(* Coverage: the verdict of the coverage gate is that of the set of        *)
(* blocks, for any profile, any exclude list and any bar.                  *)
(***************************************************************************)
EXTENDS Settings, Gate, Coverage, FiniteSetTheorems, SequenceTheorems, WellFoundedInduction, TLAPS

-------------------------------------------------------------------------------
(***************************************************************************)
(* Settings                                                                *)
(***************************************************************************)

(* What the slices of the program may be, and the words of its arrays.     *)
Slice == [array : Nat, len : Nat]
Word == Pattern \cup {Blank}

(* The call that the holder h stands for was made.                         *)
Built(h) == h = Module \/ h[2] <= Len(results[h[1]])

Fits(mem, s) ==
  /\ s.array \in 0..Len(mem)
  /\ s.len <= IF s.array = 0 THEN 0 ELSE Len(mem[s.array])

--------------------------------------------------------------------------------
(* Sequences and slices.                                                   *)

LEMMA AsSequence ==
  ASSUME NEW T, NEW n \in Nat, NEW f \in [1..n -> T]
  PROVE  f \in Seq(T) /\ Len(f) = n
<1>1. f \in Seq(T)
  BY SeqDef
<1>2. DOMAIN f = 1..n /\ DOMAIN f = 1..Len(f) /\ Len(f) \in Nat
  BY <1>1, LenProperties
<1> QED
  BY <1>1, <1>2

LEMMA Concat ==
  ASSUME NEW T, NEW s \in Seq(T), NEW t \in Seq(T)
  PROVE  /\ s \o t \in Seq(T) /\ Len(s \o t) = Len(s) + Len(t) /\ Len(s) \in Nat /\ Len(t) \in Nat
         /\ \A i \in 1..Len(s) : (s \o t)[i] = s[i]
         /\ \A i \in 1..Len(t) : (s \o t)[Len(s) + i] = t[i]
<1>1. /\ s \o t \in Seq(T) /\ Len(s \o t) = Len(s) + Len(t)
      /\ \A i \in 1..(Len(s) + Len(t)) : (s \o t)[i] = IF i <= Len(s) THEN s[i] ELSE t[i - Len(s)]
  BY ConcatProperties
<1>2. Len(s) \in Nat /\ Len(t) \in Nat
  BY LenProperties
<1>3. ASSUME NEW i \in 1..Len(s) PROVE (s \o t)[i] = s[i]
  BY <1>1, <1>2
<1>4. ASSUME NEW i \in 1..Len(t) PROVE (s \o t)[Len(s) + i] = t[i]
  <2>1. Len(s) + i \in 1..(Len(s) + Len(t)) /\ ~(Len(s) + i <= Len(s)) /\ (Len(s) + i) - Len(s) = i
    BY <1>2
  <2> QED
    BY <1>1, <2>1
<1> QED
  BY <1>1, <1>2, <1>3, <1>4

LEMMA SetListed ==
  ASSUME NEW S, IsFiniteSet(S)
  PROVE  /\ SetToSeq(S) \in Seq(S)
         /\ \A x \in S : \E i \in 1..Len(SetToSeq(S)) : SetToSeq(S)[i] = x
         /\ \A i, j \in 1..Len(SetToSeq(S)) : SetToSeq(S)[i] = SetToSeq(S)[j] => i = j
<1> DEFINE n == Cardinality(S)
           q == SetToSeq(S)
<1>1. n \in Nat /\ ExistsBijection(1..n, S)
  BY FS_CardinalityType
<1>2. PICK f \in Bijection(1..n, S) : TRUE
  BY <1>1 DEF ExistsBijection
<1>3. f \in [1..n -> S] /\ IsInjective(f)
  BY <1>2 DEF Bijection, Injection, IsInjective
<1>4. q \in [1..n -> S] /\ IsInjective(q)
  BY <1>3 DEF SetToSeq
<1> HIDE DEF q
<1>5. q \in Injection(1..n, S)
  BY <1>4 DEF Injection, IsInjective
<1>6. Cardinality(1..n) = n
  BY <1>1, FS_Interval
<1>7. q \in Surjection(1..n, S)
  BY <1>5, <1>6, FS_Injection
<1>8. q \in Seq(S) /\ Len(q) = n
  BY <1>1, <1>4
<1> QED
  BY <1>4, <1>7, <1>8 DEF q, Surjection, IsInjective

(* append keeps what the slice holds and adds the new words behind it: in  *)
(* its array, beyond its length, or in a new one.                          *)
LEMMA Appended ==
  ASSUME NEW mem \in Seq(Seq(Word)), NEW s \in Slice, Fits(mem, s),
         NEW new \in Seq(Word), new # <<>>
  PROVE  LET mem1 == AppendTo(mem, s, new).mem
             t == AppendTo(mem, s, new).slice IN
         /\ mem1 \in Seq(Seq(Word)) /\ t \in Slice /\ Fits(mem1, t)
         /\ t.len = s.len + Len(new)
         /\ Len(mem) <= Len(mem1)
         /\ \A j \in 1..Len(mem) : Len(mem1[j]) = Len(mem[j])
         /\ \A j \in 1..Len(mem) : \A i \in 1..Len(mem[j]) :
              j # s.array \/ i <= s.len => mem1[j][i] = mem[j][i]
         /\ \A i \in 1..s.len : mem1[t.array][i] = mem[s.array][i]
         /\ \A i \in 1..Len(new) : mem1[t.array][s.len + i] = new[i]
         /\ (t.array = s.array /\ s.array # 0) \/ t.array = Len(mem) + 1
<1> DEFINE n == s.len + Len(new)
           mem1 == AppendTo(mem, s, new).mem
           t == AppendTo(mem, s, new).slice
<1>0. /\ Len(new) \in Nat /\ Len(new) # 0 /\ \A i \in 1..Len(new) : new[i] \in Word
      /\ s.array \in Nat /\ s.len \in Nat /\ Len(mem) \in Nat /\ n \in Nat
      /\ \A j \in 1..Len(mem) : mem[j] \in Seq(Word) /\ Len(mem[j]) \in Nat
      /\ Cap(mem, s) \in Nat /\ s.len <= Cap(mem, s) /\ s.array <= Len(mem)
  <2>1. Len(new) \in Nat /\ Len(new) # 0
    BY EmptySeq
  <2> QED
    BY <2>1, ElementOfSeq DEF Slice, Fits, Cap
<1>1. CASE n <= Cap(mem, s)
  <2>1. s.array # 0 /\ s.array \in 1..Len(mem) /\ Cap(mem, s) = Len(mem[s.array])
    BY <1>0, <1>1 DEF Cap
  <2> DEFINE row == [i \in 1..Len(mem[s.array]) |->
                       IF i \in (s.len + 1)..n THEN new[i - s.len] ELSE mem[s.array][i]]
  <2>2. mem1 = [mem EXCEPT ![s.array] = row] /\ t = [array |-> s.array, len |-> n]
    BY <1>1 DEF AppendTo
  <2>3. row \in Seq(Word) /\ Len(row) = Len(mem[s.array])
    <3>1. ASSUME NEW i \in 1..Len(mem[s.array])
          PROVE  (IF i \in (s.len + 1)..n THEN new[i - s.len] ELSE mem[s.array][i]) \in Word
      <4>1. mem[s.array][i] \in Word
        BY <1>0, <2>1, ElementOfSeq
      <4>2. i \in (s.len + 1)..n => i - s.len \in 1..Len(new)
        BY <1>0
      <4> QED
        BY <1>0, <4>1, <4>2
    <3>2. row \in [1..Len(mem[s.array]) -> Word]
      BY <3>1
    <3>3. Len(mem[s.array]) \in Nat
      BY <1>0, <2>1
    <3> HIDE DEF row
    <3> QED
      BY <3>2, <3>3, AsSequence
  <2>4. /\ mem1 \in Seq(Seq(Word)) /\ Len(mem1) = Len(mem) /\ mem1[s.array] = row
        /\ \A j \in 1..Len(mem) : j # s.array => mem1[j] = mem[j]
    <3> HIDE DEF row, mem1
    <3> QED
      BY <1>0, <2>1, <2>2, <2>3
  <2>5. \A i \in 1..Len(mem[s.array]) :
          row[i] = IF i \in (s.len + 1)..n THEN new[i - s.len] ELSE mem[s.array][i]
    OBVIOUS
  <2> HIDE DEF row, mem1, t
  <2>6. t \in Slice /\ t.array = s.array /\ t.len = n
    BY <1>0, <2>2 DEF Slice
  <2>7. Fits(mem1, t)
    BY <1>0, <1>1, <2>1, <2>3, <2>4, <2>6 DEF Fits
  <2>8. \A j \in 1..Len(mem) : Len(mem1[j]) = Len(mem[j])
    BY <2>3, <2>4
  <2>9. ASSUME NEW j \in 1..Len(mem), NEW i \in 1..Len(mem[j]), j # s.array \/ i <= s.len
        PROVE  mem1[j][i] = mem[j][i]
    <3>1. CASE j = s.array
      <4>1. i <= s.len /\ i \notin (s.len + 1)..n /\ i \in 1..Len(mem[s.array])
        BY <1>0, <2>9, <3>1
      <4>2. row[i] = mem[s.array][i]
        BY <2>5, <4>1
      <4> QED
        BY <2>4, <3>1, <4>2
    <3>2. CASE j # s.array
      BY <2>4, <3>2
    <3> QED
      BY <3>1, <3>2
  <2>10. ASSUME NEW i \in 1..s.len PROVE mem1[t.array][i] = mem[s.array][i]
    <3>1. i \in 1..Len(mem[s.array]) /\ i <= s.len
      BY <1>0, <2>1
    <3> QED
      BY <2>1, <2>6, <2>9, <3>1
  <2>11. ASSUME NEW i \in 1..Len(new) PROVE mem1[t.array][s.len + i] = new[i]
    <3>1. s.len + i \in 1..Len(mem[s.array]) /\ s.len + i \in (s.len + 1)..n /\ (s.len + i) - s.len = i
      BY <1>0, <1>1, <2>1
    <3> QED
      BY <2>4, <2>5, <2>6, <3>1
  <2> QED
    BY <1>0, <2>1, <2>4, <2>6, <2>7, <2>8, <2>9, <2>10, <2>11 DEF mem1, t
<1>2. CASE ~(n <= Cap(mem, s))
  <2> DEFINE old == Contents(mem, s)
             cap == GrownCap(Cap(mem, s), n)
             row == Filled(old \o new, cap)
  <2>1. mem1 = Append(mem, row) /\ t = [array |-> Len(mem) + 1, len |-> n]
    BY <1>2 DEF AppendTo
  <2>2. old \in Seq(Word) /\ Len(old) = s.len /\ \A i \in 1..s.len : old[i] = mem[s.array][i]
    <3>1. CASE s.array = 0
      <4>1. s.len = 0 /\ old = <<>>
        BY <1>0, <3>1 DEF Contents, Cap
      <4> QED
        BY <4>1, EmptySeq
    <3>2. CASE s.array # 0
      <4>1. s.array \in 1..Len(mem) /\ s.len <= Len(mem[s.array])
        BY <1>0, <3>2 DEF Cap
      <4>2. old = SubSeq(mem[s.array], 1, s.len)
        BY <3>2 DEF Contents
      <4>3. \A i \in 1..s.len : mem[s.array][i] \in Word
        BY <1>0, <4>1, ElementOfSeq
      <4> HIDE DEF old
      <4> QED
        BY <1>0, <4>1, <4>2, <4>3
    <3> QED
      BY <3>1, <3>2
  <2>3. cap \in Nat /\ n <= cap
    BY <1>0 DEF GrownCap
  <2> HIDE DEF old, cap
  <2>4. /\ old \o new \in Seq(Word) /\ Len(old \o new) = n
        /\ \A i \in 1..s.len : (old \o new)[i] = mem[s.array][i]
        /\ \A i \in 1..Len(new) : (old \o new)[s.len + i] = new[i]
    <3>1. old \in Seq(Word) /\ new \in Seq(Word)
      BY <2>2
    <3>2. /\ old \o new \in Seq(Word) /\ Len(old \o new) = Len(old) + Len(new)
          /\ \A i \in 1..Len(old) : (old \o new)[i] = old[i]
          /\ \A i \in 1..Len(new) : (old \o new)[Len(old) + i] = new[i]
      BY ONLY <3>1, Concat
    <3> QED
      BY <1>0, <2>2, <3>2
  <2>5. /\ row \in Seq(Word) /\ Len(row) = cap
        /\ \A i \in 1..n : row[i] = (old \o new)[i]
    <3> DEFINE u == old \o new
               blanks == [i \in 1..(cap - Len(u)) |-> Blank]
    <3>1. u \in Seq(Word) /\ Len(u) = n /\ row = u \o blanks
      BY <2>4 DEF Filled
    <3>2. blanks \in Seq(Word) /\ Len(blanks) = cap - n
      <4>1. blanks \in [1..(cap - n) -> Word] /\ cap - n \in Nat
        BY <1>0, <2>3, <3>1 DEF Word
      <4> HIDE DEF blanks
      <4> QED
        BY <4>1, AsSequence
    <3> HIDE DEF u, blanks, row
    <3>3. /\ u \o blanks \in Seq(Word) /\ Len(u \o blanks) = Len(u) + Len(blanks)
          /\ \A i \in 1..Len(u) : (u \o blanks)[i] = u[i]
      <4>1. u \in Seq(Word) /\ blanks \in Seq(Word)
        BY <3>1, <3>2
      <4> QED
        BY ONLY <4>1, Concat
    <3>4. row \in Seq(Word) /\ Len(row) = cap
      BY <1>0, <2>3, <3>1, <3>2, <3>3
    <3> QED
      BY <3>1, <3>3, <3>4 DEF u
  <2> HIDE DEF row, mem1, t
  <2>6. /\ mem1 \in Seq(Seq(Word)) /\ Len(mem1) = Len(mem) + 1 /\ mem1[Len(mem) + 1] = row
        /\ \A j \in 1..Len(mem) : mem1[j] = mem[j]
    BY <1>0, <2>1, <2>5
  <2>7. t \in Slice /\ t.array = Len(mem) + 1 /\ t.len = n
    BY <1>0, <2>1 DEF Slice
  <2>8. Fits(mem1, t)
    BY <1>0, <2>3, <2>5, <2>6, <2>7 DEF Fits
  <2>9. ASSUME NEW i \in 1..s.len PROVE mem1[t.array][i] = mem[s.array][i]
    <3>1. i \in 1..n
      BY <1>0
    <3> QED
      BY <2>4, <2>5, <2>6, <2>7, <3>1
  <2>10. ASSUME NEW i \in 1..Len(new) PROVE mem1[t.array][s.len + i] = new[i]
    <3>1. s.len + i \in 1..n
      BY <1>0
    <3> QED
      BY <2>4, <2>5, <2>6, <2>7, <3>1
  <2>11. /\ Len(mem) <= Len(mem1)
         /\ \A j \in 1..Len(mem) : Len(mem1[j]) = Len(mem[j])
         /\ \A j \in 1..Len(mem) : \A i \in 1..Len(mem[j]) :
              j # s.array \/ i <= s.len => mem1[j][i] = mem[j][i]
    <3>1. Len(mem) \in Nat /\ Len(mem1) = Len(mem) + 1
      BY <1>0, <2>6
    <3>2. Len(mem) <= Len(mem1)
      BY ONLY <3>1
    <3>3. \A j \in 1..Len(mem) : mem1[j] = mem[j]
      BY <2>6
    <3> QED
      BY ONLY <3>2, <3>3
  <2> QED
    BY <2>6, <2>7, <2>8, <2>9, <2>10, <2>11 DEF mem1, t
<1> QED
  BY <1>0, <1>1, <1>2

(* The places of a slice are places of its array.                          *)
LEMMA Inside ==
  ASSUME NEW mem \in Seq(Seq(Word)), NEW s \in Slice, Fits(mem, s), NEW i \in 1..s.len
  PROVE  s.array # 0 /\ s.array \in 1..Len(mem) /\ i \in 1..Len(mem[s.array])
<1>1. s.len \in Nat /\ s.array \in Nat /\ Len(mem) \in Nat
  BY LenProperties DEF Slice
<1>2. s.array \in 0..Len(mem) /\ s.len <= (IF s.array = 0 THEN 0 ELSE Len(mem[s.array]))
  BY DEF Fits
<1>3. s.array # 0
  BY <1>1, <1>2
<1>4. s.array \in 1..Len(mem)
  BY <1>1, <1>2, <1>3
<1>5. Len(mem[s.array]) \in Nat
  BY <1>4, ElementOfSeq, LenProperties
<1>6. i <= Len(mem[s.array])
  BY <1>1, <1>2, <1>3, <1>5
<1> QED
  BY <1>1, <1>3, <1>4, <1>5, <1>6

(* The lists of a block are decoded into arrays that no slice had before,  *)
(* each into its own.                                                      *)
LEMMA DecodedLists ==
  ASSUME NEW mem \in Seq(Seq(Word)), NEW lists \in [Key -> Seq(Pattern)],
         \A k \in Key : Len(lists[k]) <= MaxList
  PROVE  LET mem1 == Decode(mem, lists).mem
             made == Decode(mem, lists).lists IN
         /\ mem1 \in Seq(Seq(Word)) /\ Len(mem) <= Len(mem1)
         /\ \A j \in 1..Len(mem) : mem1[j] = mem[j]
         /\ made \in [Key -> Slice]
         /\ \A k \in Key : Fits(mem1, made[k]) /\ made[k].array > Len(mem)
         /\ \A k, l \in Key : made[k].array = made[l].array => k = l
<1> DEFINE mem1 == Decode(mem, lists).mem
           made == Decode(mem, lists).lists
           keys == SetToSeq(Key)
           row(i) == Filled(lists[keys[i]], DecodedCap[Len(lists[keys[i]])])
           rows == [i \in 1..Len(keys) |-> row(i)]
           at == [k \in Key |-> CHOOSE i \in 1..Len(keys) : keys[i] = k]
<1>1. mem1 = mem \o rows /\ made = [k \in Key |-> [array |-> Len(mem) + at[k], len |-> Len(lists[k])]]
  BY DEF Decode
<1>2. /\ keys \in Seq(Key) /\ Len(keys) \in Nat /\ \A i \in 1..Len(keys) : keys[i] \in Key
      /\ \A k \in Key : \E i \in 1..Len(keys) : keys[i] = k
  <2>1. IsFiniteSet(Key)
    BY SettingsAssumption
  <2>2. keys \in Seq(Key) /\ \A k \in Key : \E i \in 1..Len(keys) : keys[i] = k
    BY <2>1, SetListed
  <2> HIDE DEF keys
  <2> QED
    BY <2>2, ElementOfSeq, LenProperties
<1>3. \A k \in Key : at[k] \in 1..Len(keys) /\ keys[at[k]] = k
  BY <1>2
<1>0. keys \in Seq(Key) /\ Len(keys) \in Nat /\ Len(mem) \in Nat
  BY <1>2, LenProperties
<1> HIDE DEF keys, at
<1>4. ASSUME NEW i \in 1..Len(keys)
      PROVE  row(i) \in Seq(Word) /\ Len(row(i)) >= Len(lists[keys[i]])
  <2> DEFINE u == lists[keys[i]]
             cap == DecodedCap[Len(u)]
             blanks == [j \in 1..(cap - Len(u)) |-> Blank]
  <2>1. u \in Seq(Word) /\ Len(u) \in Nat /\ Len(u) <= MaxList
    <3>1. u \in Seq(Pattern) /\ Len(u) <= MaxList
      BY <1>2
    <3> QED
      BY <3>1 DEF Word
  <2>2. cap \in Nat /\ cap >= Len(u)
    BY <2>1, SettingsAssumption
  <2> HIDE DEF u, cap
  <2>3. blanks \in Seq(Word) /\ Len(blanks) \in Nat
    <3>1. blanks \in [1..(cap - Len(u)) -> Word] /\ cap - Len(u) \in Nat
      BY <2>1, <2>2 DEF Word
    <3> HIDE DEF blanks
    <3> QED
      BY <3>1, AsSequence
  <2>4. row(i) = u \o blanks
    BY DEF Filled, u, cap
  <2> HIDE DEF blanks, row
  <2>5. u \o blanks \in Seq(Word) /\ Len(u \o blanks) = Len(u) + Len(blanks)
    BY <2>1, <2>3, ConcatProperties
  <2> QED
    BY <2>1, <2>3, <2>4, <2>5 DEF u
<1>5. rows \in Seq(Seq(Word)) /\ Len(rows) = Len(keys) /\ \A i \in 1..Len(keys) : rows[i] = row(i)
  <2> HIDE DEF row
  <2>1. rows \in [1..Len(keys) -> Seq(Word)] /\ \A i \in 1..Len(keys) : rows[i] = row(i)
    BY <1>4
  <2> HIDE DEF rows
  <2> QED
    BY <1>2, <2>1, AsSequence
<1> HIDE DEF rows, row
<1>6. /\ mem1 \in Seq(Seq(Word)) /\ Len(mem1) = Len(mem) + Len(keys) /\ Len(mem) \in Nat
      /\ \A j \in 1..Len(mem) : mem1[j] = mem[j]
      /\ \A i \in 1..Len(keys) : mem1[Len(mem) + i] = row(i)
  <2>1. /\ mem \o rows \in Seq(Seq(Word)) /\ Len(mem \o rows) = Len(mem) + Len(rows) /\ Len(mem) \in Nat
        /\ \A j \in 1..Len(mem) : (mem \o rows)[j] = mem[j]
        /\ \A i \in 1..Len(rows) : (mem \o rows)[Len(mem) + i] = rows[i]
    <3>1. mem \in Seq(Seq(Word)) /\ rows \in Seq(Seq(Word))
      BY <1>5
    <3> QED
      BY ONLY <3>1, Concat
  <2> HIDE DEF mem1
  <2> QED
    BY <1>1, <1>5, <2>1
<1> HIDE DEF mem1
<1>7. ASSUME NEW k \in Key
      PROVE  /\ made[k] \in Slice /\ made[k].array = Len(mem) + at[k] /\ made[k].len = Len(lists[k])
             /\ Fits(mem1, made[k])
  <2>1. made[k] = [array |-> Len(mem) + at[k], len |-> Len(lists[k])]
    BY <1>1
  <2> HIDE DEF made
  <2>2. at[k] \in Nat /\ at[k] >= 1 /\ at[k] <= Len(keys) /\ Len(lists[k]) \in Nat
    <3>1. lists[k] \in Seq(Pattern)
      OBVIOUS
    <3>2. at[k] \in 1..Len(keys)
      BY <1>3
    <3>3. Len(lists[k]) \in Nat
      BY <3>1, LenProperties
    <3> QED
      BY <1>0, <3>2, <3>3
  <2>3. mem1[Len(mem) + at[k]] = row(at[k]) /\ Len(row(at[k])) >= Len(lists[k])
    BY <1>3, <1>4, <1>6
  <2>4. /\ made[k] \in Slice /\ made[k].array = Len(mem) + at[k] /\ made[k].len = Len(lists[k])
        /\ made[k].array # 0
    BY <1>0, <2>1, <2>2 DEF Slice
  <2>5. made[k].array \in 0..Len(mem1)
    <3>1. Len(mem) \in Nat /\ Len(mem1) = Len(mem) + Len(keys) /\ Len(keys) \in Nat
      BY <1>0, <1>6
    <3> QED
      BY ONLY <3>1, <2>2, <2>4
  <2>6. Len(lists[k]) <= Len(mem1[Len(mem) + at[k]])
    BY <1>4, <2>2, <2>3
  <2> QED
    BY <2>4, <2>5, <2>6 DEF Fits
<1>8. made \in [Key -> Slice]
  <2>1. DOMAIN made = Key /\ made = [k \in Key |-> made[k]]
    BY <1>1
  <2> HIDE DEF made
  <2> QED
    BY <1>7, <2>1
<1> HIDE DEF made
<1>9. \A k \in Key : made[k].array > Len(mem)
  BY <1>0, <1>3, <1>7
<1>10. ASSUME NEW k \in Key, NEW l \in Key, made[k].array = made[l].array PROVE k = l
  <2>1. Len(mem) + at[k] = Len(mem) + at[l] /\ at[k] \in Nat /\ at[l] \in Nat
    BY <1>0, <1>3, <1>7, <1>10
  <2>2. at[k] = at[l]
    BY <1>0, <2>1
  <2> QED
    BY <1>3, <2>2
<1> QED
  BY <1>0, <1>6, <1>7, <1>8, <1>9, <1>10 DEF mem1, made
--------------------------------------------------------------------------------
(* The choice of the rules.                                                *)

(* Induction over the numbers, for a set instead of a property.            *)
LEMMA LeastNumber ==
  ASSUME NEW S, S \subseteq Nat, S # {}
  PROVE  \E m \in S : \A n \in S : m <= n
<1> DEFINE R == OpToRel(<, Nat)
<1>1. IsWellFoundedOn(R, Nat)
  BY NatLessThanWellFounded
<1> HIDE DEF R
<1>2. PICK m \in S : \A n \in S : <<n, m>> \notin R
  BY <1>1, WFMin
<1>3. \A n \in S : ~(n < m)
  BY <1>2 DEF R, OpToRel
<1> QED
  BY <1>2, <1>3

LEMMA SetInduction ==
  ASSUME NEW S, S \subseteq Nat, 0 \in S, \A n \in S : n + 1 \in S
  PROVE  \A n \in Nat : n \in S
<1> SUFFICES ASSUME NEW n \in Nat, n \notin S PROVE FALSE
  OBVIOUS
<1>1. PICK m \in Nat \ S : \A k \in Nat \ S : m <= k
  <2>1. Nat \ S \subseteq Nat /\ Nat \ S # {}
    OBVIOUS
  <2> QED
    BY <2>1, LeastNumber
<1>2. m # 0 /\ m - 1 \in Nat
  BY <1>1
<1>3. m - 1 \in S
  BY <1>1, <1>2
<1> QED
  BY <1>1, <1>3

(* What Chosen has kept after n rules.                                     *)
IsChosen(out, wanted, n) ==
  out = [i \in 0..n |-> IF i = 0 THEN <<>>
                        ELSE IF Registry[i] \in wanted THEN Append(out[i - 1], Registry[i]) ELSE out[i - 1]]

LEMMA ChosenExists ==
  ASSUME NEW wanted, NEW n \in Nat
  PROVE  \E out : IsChosen(out, wanted, n)
<1> DEFINE S == {m \in Nat : \E out : IsChosen(out, wanted, m)}
<1>1. 0 \in S
  <2>1. IsChosen([i \in 0..0 |-> <<>>], wanted, 0)
    BY DEF IsChosen
  <2> QED
    BY <2>1
<1>2. ASSUME NEW m \in S PROVE m + 1 \in S
  <2>0. m \in Nat
    OBVIOUS
  <2>1. PICK f : IsChosen(f, wanted, m)
    OBVIOUS
  <2> DEFINE step(i) == IF Registry[i] \in wanted THEN Append(f[i - 1], Registry[i]) ELSE f[i - 1]
             g == [i \in 0..(m + 1) |-> IF i = 0 THEN <<>> ELSE step(i)]
  <2> HIDE DEF S
  <2>2. ASSUME NEW i \in 0..m PROVE g[i] = f[i]
    <3>1. f[i] = IF i = 0 THEN <<>> ELSE step(i)
      BY <2>1 DEF IsChosen
    <3>2. i \in 0..(m + 1)
      BY <2>0
    <3> HIDE DEF step
    <3> QED
      BY <3>1, <3>2
  <2>3. ASSUME NEW i \in 0..(m + 1), i # 0 PROVE g[i - 1] = f[i - 1]
    <3>1. i - 1 \in 0..m
      BY <2>0, <2>3
    <3> HIDE DEF g
    <3> QED
      BY <2>2, <3>1
  <2>4. IsChosen(g, wanted, m + 1)
    BY <2>3 DEF IsChosen
  <2> HIDE DEF g
  <2> QED
    BY <2>0, <2>4 DEF S
<1> HIDE DEF S
<1>3. S \subseteq Nat
  BY DEF S
<1>4. n \in S
  BY <1>1, <1>2, <1>3, SetInduction
<1> QED
  BY <1>4 DEF S

LEMMA ChosenRules ==
  ASSUME NEW wanted
  PROVE  /\ Chosen(wanted) \in Seq(Rule)
         /\ Range(Chosen(wanted)) = Rule \cap wanted
         /\ \A j \in 1..(Len(Chosen(wanted)) - 1) :
              \E m, n \in DOMAIN Registry :
                m < n /\ Registry[m] = Chosen(wanted)[j] /\ Registry[n] = Chosen(wanted)[j + 1]
<1> DEFINE out == CHOOSE f : IsChosen(f, wanted, Len(Registry))
<1>0. /\ Len(Registry) \in Nat /\ DOMAIN Registry = 1..Len(Registry)
      /\ \A i \in 1..Len(Registry) : Registry[i] \in Rule
  BY SettingsAssumption, LenProperties, ElementOfSeq
<1>1. IsChosen(out, wanted, Len(Registry))
  BY <1>0, ChosenExists
<1>2. Chosen(wanted) = out[Len(Registry)]
  BY DEF Chosen, IsChosen
<1> HIDE DEF out
<1>9. \A i \in 0..Len(Registry) :
        out[i] = IF i = 0 THEN <<>>
                 ELSE IF Registry[i] \in wanted THEN Append(out[i - 1], Registry[i]) ELSE out[i - 1]
  BY <1>1 DEF IsChosen
<1> DEFINE Ordered(s, n) ==
             /\ s \in Seq(Rule)
             /\ \A x : x \in Range(s) <=> \E i \in 1..n : Registry[i] = x /\ x \in wanted
             /\ \A j \in 1..(Len(s) - 1) :
                  \E m, k \in 1..n : m < k /\ Registry[m] = s[j] /\ Registry[k] = s[j + 1]
           S == {n \in Nat : n <= Len(Registry) => Ordered(out[n], n)}
<1>3. 0 \in S
  <2>1. out[0] = <<>>
    BY <1>0, <1>9
  <2>2. <<>> \in Seq(Rule) /\ Range(<<>>) = {} /\ Len(<<>>) = 0
    BY EmptySeq DEF Range
  <2>3. 1..0 = {} /\ 1..(0 - 1) = {}
    OBVIOUS
  <2>4. Ordered(<<>>, 0)
    BY <2>2, <2>3
  <2> HIDE DEF Ordered
  <2> QED
    BY <2>1, <2>4
<1>4. ASSUME NEW n \in S PROVE n + 1 \in S
  <2> SUFFICES ASSUME n + 1 <= Len(Registry) PROVE Ordered(out[n + 1], n + 1)
    OBVIOUS
  <2>1. n \in Nat /\ Ordered(out[n], n)
    <3> HIDE DEF Ordered
    <3>1. n \in Nat /\ (n <= Len(Registry) => Ordered(out[n], n))
      OBVIOUS
    <3> QED
      BY <1>0, <3>1
  <2>2. out[n + 1] = IF Registry[n + 1] \in wanted THEN Append(out[n], Registry[n + 1]) ELSE out[n]
    <3>1. n + 1 \in 0..Len(Registry) /\ n + 1 # 0 /\ (n + 1) - 1 = n
      BY <1>0, <2>1
    <3> HIDE DEF S, Ordered
    <3> QED
      BY <1>9, <3>1
  <2>3. Registry[n + 1] \in Rule /\ 1..(n + 1) = 1..n \cup {n + 1}
    BY <1>0, <2>1
  <2>4. CASE Registry[n + 1] \notin wanted
    <3>1. out[n + 1] = out[n]
      BY <2>2, <2>4
    <3>2. \A x : x \in Range(out[n]) <=> \E i \in 1..(n + 1) : Registry[i] = x /\ x \in wanted
      BY <2>1, <2>3, <2>4
    <3>3. 1..n \subseteq 1..(n + 1)
      BY <2>3
    <3>4. ASSUME NEW j \in 1..(Len(out[n]) - 1)
          PROVE  \E m, k \in 1..(n + 1) : m < k /\ Registry[m] = out[n][j] /\ Registry[k] = out[n][j + 1]
      <4>1. PICK m \in 1..n, k \in 1..n : m < k /\ Registry[m] = out[n][j] /\ Registry[k] = out[n][j + 1]
        BY <2>1
      <4> QED
        BY <3>3, <4>1
    <3> QED
      BY <2>1, <3>1, <3>2, <3>4
  <2>5. CASE Registry[n + 1] \in wanted
    <3> DEFINE s == out[n]
               t == out[n + 1]
               x == Registry[n + 1]
    <3>1. t = Append(s, x) /\ s \in Seq(Rule) /\ x \in Rule
      BY <2>1, <2>2, <2>3, <2>5
    <3>2. /\ t \in Seq(Rule) /\ Len(t) = Len(s) + 1 /\ Len(s) \in Nat
          /\ \A j \in 1..Len(s) : t[j] = s[j]
          /\ t[Len(s) + 1] = x
      BY <3>1, AppendProperties, LenProperties
    <3>3. DOMAIN s = 1..Len(s) /\ DOMAIN t = 1..(Len(s) + 1)
      BY <3>1, <3>2, LenProperties
    <3>4. \A y : y \in Range(s) <=> \E i \in 1..n : Registry[i] = y /\ y \in wanted
      BY <2>1
    <3>5. \A j \in 1..(Len(s) - 1) :
            \E m, k \in 1..n : m < k /\ Registry[m] = s[j] /\ Registry[k] = s[j + 1]
      BY <2>1
    <3> HIDE DEF s, t
    <3>6. \A y : y \in Range(t) <=> y \in Range(s) \/ y = x
      <4>1. 1..(Len(s) + 1) = 1..Len(s) \cup {Len(s) + 1}
        BY <3>2
      <4>2. ASSUME NEW y \in Range(t) PROVE y \in Range(s) \/ y = x
        <5>1. PICK j \in DOMAIN t : y = t[j]
          BY DEF Range
        <5> QED
          BY <3>2, <3>3, <4>1, <5>1 DEF Range
      <4>3. ASSUME NEW y \in Range(s) PROVE y \in Range(t)
        <5>1. PICK j \in DOMAIN s : y = s[j]
          BY DEF Range
        <5> QED
          BY <3>2, <3>3, <4>1, <5>1 DEF Range
      <4>4. x \in Range(t)
        BY <3>2, <3>3, <4>1 DEF Range
      <4> QED
        BY <4>2, <4>3, <4>4
    <3>7. \A y : y \in Range(t) <=> \E i \in 1..(n + 1) : Registry[i] = y /\ y \in wanted
      BY <2>3, <2>5, <3>4, <3>6
    <3>8. ASSUME NEW j \in 1..(Len(t) - 1)
          PROVE  \E m, k \in 1..(n + 1) : m < k /\ Registry[m] = t[j] /\ Registry[k] = t[j + 1]
      <4>1. j \in 1..Len(s) /\ t[j] = s[j]
        BY <3>2
      <4>2. CASE j = Len(s)
        <5>1. s[j] \in Range(s)
          BY <3>3, <4>1 DEF Range
        <5>2. PICK m \in 1..n : Registry[m] = s[j]
          BY <3>4, <5>1
        <5>3. m \in 1..(n + 1) /\ n + 1 \in 1..(n + 1) /\ m < n + 1 /\ t[j + 1] = x
          BY <2>1, <3>2, <4>2
        <5> QED
          BY <4>1, <5>2, <5>3
      <4>3. CASE j # Len(s)
        <5>1. j \in 1..(Len(s) - 1) /\ j + 1 \in 1..Len(s)
          BY <3>2, <4>1, <4>3
        <5>2. PICK m \in 1..n, k \in 1..n : m < k /\ Registry[m] = s[j] /\ Registry[k] = s[j + 1]
          BY <3>5, <5>1
        <5>3. t[j + 1] = s[j + 1]
          BY <3>2, <5>1
        <5> QED
          BY <2>3, <4>1, <5>2, <5>3
      <4> QED
        BY <4>2, <4>3
    <3> QED
      BY <3>2, <3>7, <3>8 DEF t
  <2> HIDE DEF Ordered
  <2> QED
    BY <2>4, <2>5
<1>5. Len(Registry) \in S
  <2>1. S \subseteq Nat
    OBVIOUS
  <2> HIDE DEF S
  <2> QED
    BY <1>0, <1>3, <1>4, <2>1, SetInduction
<1>6. Ordered(out[Len(Registry)], Len(Registry))
  <2> HIDE DEF Ordered
  <2> QED
    BY <1>0, <1>5
<1>7. Range(Chosen(wanted)) = Rule \cap wanted
  <2>1. \A x : x \in Rule <=> \E i \in 1..Len(Registry) : Registry[i] = x
    BY <1>0 DEF Rule, Range
  <2> QED
    BY <1>2, <1>6, <2>1
<1> DEFINE c == Chosen(wanted)
<1>8. Ordered(c, Len(Registry))
  <2> HIDE DEF Ordered
  <2> QED
    BY <1>2, <1>6
<1> HIDE DEF c
<1>10. /\ c \in Seq(Rule)
       /\ \A j \in 1..(Len(c) - 1) :
            \E m, n \in DOMAIN Registry : m < n /\ Registry[m] = c[j] /\ Registry[n] = c[j + 1]
  BY <1>0, <1>8
<1> QED
  BY <1>7, <1>10 DEF c
--------------------------------------------------------------------------------
(* The inductive invariant.                                                *)

Typed ==
  /\ memory \in Seq(Seq(Word))
  /\ cells \in [Cell -> [Key -> Slice]]
  /\ given \in [Holder -> [Rule -> [Key -> Seq(Word)]]]
  /\ results = [p \in Plugin |-> results[p]]
  /\ settings = [p \in Plugin |-> settings[p]]

(* A call is made on decoded settings, and its result follows from them.   *)
Decided ==
  \A p \in Plugin :
    /\ results[p] \in Seq({SelectAnalyzers(settings[p])})
    /\ settings[p] = None => results[p] = <<>>
    /\ settings[p] # None =>
         /\ settings[p].lists \in [Key -> Slice]
         /\ \A k \in Key : Fits(memory, settings[p].lists[k]) /\ settings[p].lists[k].array # 0

(* Every list of the settings has an array of its own.                     *)
OwnArrays ==
  \A p, q \in Plugin : \A k, l \in Key :
    settings[p] # None /\ settings[q] # None
      /\ settings[p].lists[k].array = settings[q].lists[l].array
    => p = q /\ k = l

Made ==
  analyzers = [h \in Holder |-> [r \in Rule |->
                 IF Built(h) /\ r \in Configurable THEN <<h, r>> ELSE <<Module, r>>]]

(* The array of a list belongs to no settings and to no other list.        *)
Alone(h, r, k) ==
  LET a == cells[<<h, r>>][k].array IN
  /\ a # 0
  /\ \A p \in Plugin : settings[p] # None => \A l \in Key : settings[p].lists[l].array # a
  /\ \A g \in Holder, q \in Rule, l \in Key :
       cells[<<g, q>>][l].array = a => g = h /\ q = r /\ l = k

(* What an instance reads of one list: at first the list of the settings,  *)
(* which nothing overwrites, and then what the flags put there.            *)
ReadsOwn(h, r, k) ==
  LET s == cells[<<h, r>>][k]
      home == Home(h, k)
      all == given[h][r][k] IN
  /\ Fits(memory, s) /\ s.len = Len(all) /\ home.len <= s.len
  /\ \A i \in 1..home.len : memory[s.array][i] = all[i] /\ memory[home.array][i] = all[i]
  /\ (\A i \in 1..s.len : memory[s.array][i] = all[i]) \/ Contended(h, r, k)
  /\ s.array = home.array \/ Alone(h, r, k)

Lists ==
  \A h \in Holder, r \in Rule, k \in Key :
    IF Built(h) /\ k \in ReadBy[r] THEN ReadsOwn(h, r, k)
    ELSE cells[<<h, r>>][k] = Nil /\ given[h][r][k] = <<>>

SettingsIInv == Typed /\ Decided /\ OwnArrays /\ Made /\ Lists

LEMMA Holders ==
  /\ Module \in Holder
  /\ \A h \in Holder \ {Module} : h[1] \in Plugin /\ h[2] \in 1..MaxBuilds /\ h = <<h[1], h[2]>>
  /\ \A p \in Plugin, i \in 1..MaxBuilds : <<p, i>> \in Holder \ {Module}
<1>1. ASSUME NEW p \in Plugin, NEW i \in 1..MaxBuilds PROVE <<p, i>> # Module
  <2>1. p # "module"
    BY SettingsAssumption
  <2> QED
    BY <2>1 DEF Module
<1>2. ASSUME NEW h \in Holder \ {Module}
      PROVE  h[1] \in Plugin /\ h[2] \in 1..MaxBuilds /\ h = <<h[1], h[2]>>
  <2>1. PICK p \in Plugin, i \in 1..MaxBuilds : h = <<p, i>>
    BY DEF Holder
  <2> QED
    BY <2>1
<1> QED
  BY <1>1, <1>2 DEF Holder

(* A list that an instance was built from is in an array of the program.   *)
LEMMA HomeFits ==
  ASSUME Typed, Decided, NEW h \in Holder, Built(h), NEW k \in Key
  PROVE  /\ Home(h, k) \in Slice /\ Fits(memory, Home(h, k))
         /\ h # Module => settings[h[1]] # None /\ Home(h, k) = settings[h[1]].lists[k]
<1>1. CASE h = Module
  <2>1. Home(h, k) = [array |-> 0, len |-> 0]
    BY <1>1 DEF Home, Nil
  <2>2. Len(memory) \in Nat
    BY LenProperties DEF Typed
  <2> QED
    BY <1>1, <2>1, <2>2 DEF Slice, Fits
<1>2. CASE h # Module
  <2>1. h[1] \in Plugin /\ h[2] \in Nat /\ h[2] # 0 /\ h[2] <= Len(results[h[1]])
    BY <1>2, Holders, SettingsAssumption DEF Built
  <2>2. results[h[1]] # <<>>
    <3>1. Len(<<>>) = 0
      BY EmptySeq
    <3> QED
      BY <2>1, <3>1
  <2>3. settings[h[1]] # None
    BY <2>1, <2>2 DEF Decided
  <2> QED
    BY <1>2, <2>1, <2>3 DEF Decided, Home
<1> QED
  BY <1>1, <1>2

LEMMA InitIInv ==
  ASSUME SettingsInit
  PROVE  SettingsIInv
<1>1. /\ memory = <<>> /\ memory \in Seq(Seq(Word)) /\ Len(memory) = 0
      /\ <<>> \in Seq(Word) /\ Len(<<>>) = 0
  BY EmptySeq DEF SettingsInit
<1>2. \A h \in Holder : Built(h) <=> h = Module
  <2>1. ASSUME NEW h \in Holder \ {Module} PROVE ~Built(h)
    <3>1. h[1] \in Plugin /\ h[2] \in Nat /\ h[2] # 0
      BY Holders, SettingsAssumption
    <3>2. results[h[1]] = <<>>
      BY <3>1 DEF SettingsInit
    <3> QED
      BY <1>1, <3>1, <3>2 DEF Built
  <2> QED
    BY <2>1 DEF Built
<1>3. Typed
  <2>1. Nil \in Slice
    BY DEF Nil, Slice
  <2> QED
    BY <1>1, <2>1 DEF SettingsInit, Typed
<1>4. Decided
  BY EmptySeq DEF SettingsInit, Decided
<1>5. OwnArrays
  BY DEF SettingsInit, OwnArrays
<1>6. Made
  <2>1. ASSUME NEW h \in Holder, NEW r \in Rule
        PROVE  <<Module, r>> = IF Built(h) /\ r \in Configurable THEN <<h, r>> ELSE <<Module, r>>
    BY <1>2
  <2> QED
    BY <2>1 DEF SettingsInit, Made
<1>7. Lists
  <2> SUFFICES ASSUME NEW h \in Holder, NEW r \in Rule, NEW k \in Key
               PROVE  IF Built(h) /\ k \in ReadBy[r] THEN ReadsOwn(h, r, k)
                      ELSE cells[<<h, r>>][k] = Nil /\ given[h][r][k] = <<>>
    BY DEF Lists
  <2>1. cells[<<h, r>>][k] = Nil /\ given[h][r][k] = <<>>
    BY DEF SettingsInit, Cell
  <2>2. ASSUME h = Module PROVE ReadsOwn(h, r, k)
    <3>1. Home(h, k) = Nil
      BY <2>2 DEF Home
    <3>2. Fits(memory, Nil) /\ Nil.len = 0 /\ Nil.array = Nil.array
      BY <1>1 DEF Fits, Nil
    <3>3. 1..0 = {}
      OBVIOUS
    <3> QED
      BY <1>1, <2>1, <3>1, <3>2, <3>3 DEF ReadsOwn
  <2> QED
    BY <1>2, <2>1, <2>2
<1> QED
  BY <1>3, <1>4, <1>5, <1>6, <1>7 DEF SettingsIInv

(* A block is decoded: no list that is read so far changes.                *)
LEMMA NewIInv ==
  ASSUME SettingsIInv, NEW p \in Plugin, NEW block \in Blocks, New(p, block)
  PROVE  SettingsIInv'
<1> DEFINE mem1 == Decode(memory, block.lists).mem
           made == Decode(memory, block.lists).lists
<1>0. /\ settings[p] = None /\ memory' = mem1
      /\ settings' = [settings EXCEPT ![p] = [lists |-> made, enable |-> block.enable,
                                              disable |-> block.disable]]
      /\ UNCHANGED <<cells, analyzers, results, sets, given>>
  BY DEF New
<1>1. /\ memory \in Seq(Seq(Word)) /\ DOMAIN settings = Plugin
      /\ cells \in [Cell -> [Key -> Slice]] /\ Len(memory) \in Nat
  BY LenProperties DEF SettingsIInv, Typed
<1>2. /\ mem1 \in Seq(Seq(Word)) /\ Len(memory) <= Len(mem1) /\ Len(mem1) \in Nat
      /\ \A j \in 1..Len(memory) : mem1[j] = memory[j]
      /\ made \in [Key -> Slice]
      /\ \A k \in Key : Fits(mem1, made[k]) /\ made[k].array > Len(memory)
      /\ \A k, l \in Key : made[k].array = made[l].array => k = l
  <2>1. block.lists \in [Key -> Seq(Pattern)] /\ \A k \in Key : Len(block.lists[k]) <= MaxList
    BY SettingsAssumption
  <2>2. mem1 \in Seq(Seq(Word)) /\ Len(memory) <= Len(mem1)
    BY <1>1, <2>1, DecodedLists
  <2> QED
    BY <1>1, <2>1, <2>2, DecodedLists, LenProperties
<1> HIDE DEF mem1, made
<1>3. results[p] = <<>>
  BY <1>0 DEF SettingsIInv, Decided
<1>4. \A q \in Plugin : q # p => settings'[q] = settings[q]
  BY <1>0, <1>1
<1>5. settings'[p].lists = made
  BY <1>0, <1>1
<1>6. \A s \in Slice : Fits(memory, s) => Fits(memory', s)
  <2> SUFFICES ASSUME NEW s \in Slice, Fits(memory, s) PROVE Fits(memory', s)
    OBVIOUS
  <2>1. CASE s.array = 0
    BY <1>0, <1>2, <2>1 DEF Fits
  <2>2. CASE s.array # 0
    <3>1. s.array \in 1..Len(memory)
      BY <1>1, <2>2 DEF Fits
    <3>2. memory'[s.array] = memory[s.array] /\ s.array \in 0..Len(mem1)
      BY <1>0, <1>1, <1>2, <3>1
    <3> QED
      BY <1>0, <3>2 DEF Fits
  <2> QED
    BY <2>1, <2>2
<1>7. Typed'
  BY <1>0, <1>1, <1>2 DEF SettingsIInv, Typed
<1>8. Decided'
  <2> SUFFICES ASSUME NEW q \in Plugin
               PROVE  /\ results'[q] \in Seq({SelectAnalyzers(settings'[q])})
                      /\ settings'[q] = None => results'[q] = <<>>
                      /\ settings'[q] # None =>
                           /\ settings'[q].lists \in [Key -> Slice]
                           /\ \A k \in Key : /\ Fits(memory', settings'[q].lists[k])
                                             /\ settings'[q].lists[k].array # 0
    BY DEF Decided
  <2>1. CASE q = p
    <3>1. results'[q] = <<>>
      BY <1>0, <1>3, <2>1
    <3>2. <<>> \in Seq({SelectAnalyzers(settings'[q])})
      BY EmptySeq
    <3>3. \A k \in Key : Fits(memory', made[k]) /\ made[k].array # 0
      BY <1>0, <1>1, <1>2
    <3> QED
      BY <1>2, <1>5, <2>1, <3>1, <3>2, <3>3
  <2>2. CASE q # p
    <3>1. settings'[q] = settings[q] /\ results'[q] = results[q]
      BY <1>0, <1>4, <2>2
    <3>2. /\ results[q] \in Seq({SelectAnalyzers(settings[q])})
          /\ settings[q] = None => results[q] = <<>>
          /\ settings[q] # None =>
               /\ settings[q].lists \in [Key -> Slice]
               /\ \A k \in Key : Fits(memory, settings[q].lists[k]) /\ settings[q].lists[k].array # 0
      BY DEF SettingsIInv, Decided
    <3> QED
      BY <1>6, <3>1, <3>2
  <2> QED
    BY <2>1, <2>2
<1>9. \A q \in Plugin, k \in Key : settings[q] # None => settings[q].lists[k].array \in 0..Len(memory)
  BY DEF SettingsIInv, Decided, Fits
<1>10. OwnArrays'
  <2> SUFFICES ASSUME NEW q1 \in Plugin, NEW q2 \in Plugin, NEW k \in Key, NEW l \in Key,
                      settings'[q1] # None, settings'[q2] # None,
                      settings'[q1].lists[k].array = settings'[q2].lists[l].array
               PROVE  q1 = q2 /\ k = l
    BY DEF OwnArrays
  <2>1. ASSUME NEW q \in Plugin, q # p, settings'[q] # None
        PROVE  \A m \in Key : settings'[q].lists[m].array \in 0..Len(memory)
    BY <1>4, <1>9, <2>1
  <2>2. \A m \in Key : settings'[p].lists[m].array \notin 0..Len(memory)
    BY <1>1, <1>2, <1>5
  <2>3. CASE q1 = p /\ q2 = p
    BY <1>2, <1>5, <2>3
  <2>4. CASE q1 # p /\ q2 # p
    BY <1>4, <2>4 DEF SettingsIInv, OwnArrays
  <2> QED
    BY <2>1, <2>2, <2>3, <2>4
<1>11. Made'
  BY <1>0 DEF SettingsIInv, Made, Built
<1>12. Lists'
  <2> SUFFICES ASSUME NEW h \in Holder, NEW r \in Rule, NEW k \in Key
               PROVE  IF Built(h)' /\ k \in ReadBy[r] THEN ReadsOwn(h, r, k)'
                      ELSE cells'[<<h, r>>][k] = Nil /\ given'[h][r][k] = <<>>
    BY DEF Lists
  <2>1. IF Built(h) /\ k \in ReadBy[r] THEN ReadsOwn(h, r, k)
        ELSE cells[<<h, r>>][k] = Nil /\ given[h][r][k] = <<>>
    BY DEF SettingsIInv, Lists
  <2>2. (Built(h)' <=> Built(h)) /\ cells' = cells /\ given' = given
    BY <1>0 DEF Built
  <2>3. ASSUME Built(h), k \in ReadBy[r] PROVE ReadsOwn(h, r, k)'
    <3> DEFINE s == cells[<<h, r>>][k]
               home == Home(h, k)
               all == given[h][r][k]
    <3>1. /\ Fits(memory, s) /\ s.len = Len(all) /\ home.len <= s.len
          /\ \A i \in 1..home.len : memory[s.array][i] = all[i] /\ memory[home.array][i] = all[i]
          /\ (\A i \in 1..s.len : memory[s.array][i] = all[i]) \/ Contended(h, r, k)
          /\ s.array = home.array \/ Alone(h, r, k)
      BY <2>1, <2>3 DEF ReadsOwn
    <3>2. ASSUME NEW g \in Holder, Built(g), NEW l \in Key
          PROVE  /\ Home(g, l)' = Home(g, l) /\ Home(g, l) \in Slice /\ Fits(memory, Home(g, l))
                 /\ g # Module => g[1] # p
      <4>1. /\ Home(g, l) \in Slice /\ Fits(memory, Home(g, l))
            /\ g # Module => settings[g[1]] # None
        BY <3>2, HomeFits DEF SettingsIInv
      <4>2. g # Module => g[1] # p /\ g[1] \in Plugin
        BY <1>0, <4>1, Holders
      <4> QED
        BY <1>4, <4>1, <4>2 DEF Home
    <3>3. home' = home /\ home \in Slice /\ Fits(memory, home) /\ (h # Module => h[1] # p)
      BY <2>3, <3>2
    <3>4. s \in Slice
      BY <1>1 DEF Cell
    <3>5. Fits(memory', s)
      BY <1>6, <3>1, <3>4
    <3>6. /\ s.array # 0 => memory'[s.array] = memory[s.array]
          /\ home.array # 0 => memory'[home.array] = memory[home.array]
      <4>1. s.array # 0 => s.array \in 1..Len(memory)
        BY <1>1, <3>1 DEF Fits
      <4>2. home.array # 0 => home.array \in 1..Len(memory)
        BY <1>1, <3>3 DEF Fits
      <4> QED
        BY <1>0, <1>2, <4>1, <4>2
    <3>7. s.array = 0 => s.len = 0
      BY <3>1, <3>4 DEF Fits, Slice
    <3>8. home.array = 0 => home.len = 0
      BY <3>3 DEF Fits, Slice
    <3>9. ASSUME Contended(h, r, k) PROVE Contended(h, r, k)'
      <4>1. /\ h # Module /\ home.len < Cap(memory, home) /\ Flagged(h, r, k)
        BY <3>9 DEF Contended
      <4>2. PICK g \in Holder \ {Module}, q \in Rule :
              g[1] = h[1] /\ <<g, q>> # <<h, r>> /\ Flagged(g, q, k)
        BY <3>9 DEF Contended
      <4>3. Home(g, k) = home /\ Home(g, k)' = home'
        BY <4>1, <4>2 DEF Home
      <4>4. Flagged(h, r, k)' /\ Flagged(g, q, k)'
        BY <2>2, <3>3, <4>1, <4>2, <4>3 DEF Flagged
      <4>5. Cap(memory', home) = Cap(memory, home)
        BY <3>6 DEF Cap
      <4> QED
        BY <3>3, <4>1, <4>2, <4>4, <4>5 DEF Contended
    <3>10. ASSUME Alone(h, r, k) PROVE Alone(h, r, k)'
      <4>1. s.array # 0 /\ s.array \in 1..Len(memory)
        BY <1>1, <3>1, <3>10 DEF Alone, Fits
      <4>2. ASSUME NEW q \in Plugin, settings'[q] # None, NEW l \in Key
            PROVE  settings'[q].lists[l].array # s.array
        <5>1. CASE q = p
          BY <1>1, <1>2, <1>5, <4>1, <5>1
        <5>2. CASE q # p
          BY <1>4, <3>10, <4>2, <5>2 DEF Alone
        <5> QED
          BY <5>1, <5>2
      <4> QED
        BY <2>2, <3>10, <4>1, <4>2 DEF Alone
    <3>11. \A i \in 1..home.len : memory'[s.array][i] = all[i] /\ memory'[home.array][i] = all[i]
      <4>1. CASE home.len = 0
        BY <4>1
      <4>2. CASE home.len # 0
        <5>1. s.len # 0
          BY <3>1, <3>3, <3>4, <4>2 DEF Slice
        <5> QED
          BY <3>1, <3>6, <3>7, <3>8, <4>2, <5>1
      <4> QED
        BY <4>1, <4>2
    <3>12. ASSUME \A i \in 1..s.len : memory[s.array][i] = all[i]
           PROVE  \A i \in 1..s.len : memory'[s.array][i] = all[i]
      <4>1. CASE s.len = 0
        BY <4>1
      <4>2. CASE s.len # 0
        BY <3>6, <3>7, <3>12, <4>2
      <4> QED
        BY <4>1, <4>2
    <3> HIDE DEF s, home, all
    <3>13. /\ s = cells'[<<h, r>>][k] /\ home = Home(h, k)' /\ all = given'[h][r][k]
      BY <2>2, <3>3 DEF s, home, all
    <3> QED
      BY <3>1, <3>5, <3>9, <3>10, <3>11, <3>12, <3>13 DEF ReadsOwn
  <2> QED
    BY <2>1, <2>2, <2>3
<1> QED
  BY <1>7, <1>8, <1>10, <1>11, <1>12 DEF SettingsIInv

(* A call makes the instances of a new holder; they read the settings as   *)
(* they are, and no list that is read so far changes.                      *)
LEMMA BuildIInv ==
  ASSUME SettingsIInv, NEW p \in Plugin, BuildAnalyzers(p)
  PROVE  SettingsIInv'
<1>b. PICK b : b = <<p, Len(results[p]) + 1>>
  OBVIOUS
<1> DEFINE lists == settings[p].lists
<1>0. /\ settings[p] # None /\ Len(results[p]) < MaxBuilds
      /\ cells' = [c \in Cell |-> [k \in Key |->
                     IF c[1] = b /\ k \in ReadBy[c[2]] THEN lists[k] ELSE cells[c][k]]]
      /\ analyzers' = [analyzers EXCEPT ![b] =
                         [r \in Rule |-> IF r \in Configurable THEN <<b, r>> ELSE analyzers[Module][r]]]
      /\ given' = [given EXCEPT ![b] =
                     [r \in Rule |-> [k \in Key |->
                        IF k \in ReadBy[r] THEN Contents(memory, lists[k]) ELSE <<>>]]]
      /\ results' = [results EXCEPT ![p] = Append(@, SelectAnalyzers(settings[p]))]
      /\ UNCHANGED <<memory, settings, sets>>
  BY <1>b DEF BuildAnalyzers, Configured
<1>1. /\ memory \in Seq(Seq(Word)) /\ Len(memory) \in Nat
      /\ cells \in [Cell -> [Key -> Slice]] /\ given \in [Holder -> [Rule -> [Key -> Seq(Word)]]]
      /\ DOMAIN results = Plugin /\ results[p] \in Seq({SelectAnalyzers(settings[p])})
      /\ Len(results[p]) \in Nat
  <2>1. results[p] \in Seq({SelectAnalyzers(settings[p])})
    BY DEF SettingsIInv, Decided
  <2> QED
    BY <2>1, LenProperties DEF SettingsIInv, Typed
<1>2. b \in Holder /\ b # Module /\ b[1] = p /\ b[2] = Len(results[p]) + 1 /\ ~Built(b)
  <2>1. Len(results[p]) + 1 \in 1..MaxBuilds /\ ~(Len(results[p]) + 1 <= Len(results[p]))
    BY <1>0, <1>1, SettingsAssumption
  <2> QED
    BY <1>b, <2>1, Holders DEF Built
<1>3. /\ lists \in [Key -> Slice]
      /\ \A k \in Key : Fits(memory, lists[k]) /\ lists[k].array # 0
  BY <1>0 DEF SettingsIInv, Decided
<1>4. /\ results'[p] = Append(results[p], SelectAnalyzers(settings[p]))
      /\ Len(results'[p]) = Len(results[p]) + 1
      /\ results'[p] \in Seq({SelectAnalyzers(settings[p])})
      /\ results'[p] # <<>>
      /\ \A q \in Plugin : q # p => results'[q] = results[q]
  <2>1. /\ results'[p] = Append(results[p], SelectAnalyzers(settings[p]))
        /\ \A q \in Plugin : q # p => results'[q] = results[q]
    BY <1>0, <1>1
  <2>2. /\ Len(results'[p]) = Len(results[p]) + 1
        /\ results'[p] \in Seq({SelectAnalyzers(settings[p])})
    BY <1>1, <2>1, AppendProperties
  <2>3. results'[p] # <<>>
    <3>1. Len(<<>>) = 0 /\ Len(results[p]) + 1 # 0
      BY <1>1, EmptySeq
    <3> QED
      BY <2>2, <3>1
  <2> QED
    BY <2>1, <2>2, <2>3
<1>5. \A h \in Holder : Built(h)' <=> Built(h) \/ h = b
  <2> SUFFICES ASSUME NEW h \in Holder \ {Module} PROVE Built(h)' <=> Built(h) \/ h = b
    BY <1>2 DEF Built
  <2>1. h[1] \in Plugin /\ h[2] \in Nat /\ h = <<h[1], h[2]>>
    BY Holders, SettingsAssumption
  <2>2. CASE h[1] = p
    <3>1. h = b <=> h[2] = Len(results[p]) + 1
      BY <1>b, <2>1, <2>2
    <3> QED
      BY <1>1, <1>4, <2>1, <2>2, <3>1 DEF Built
  <2>3. CASE h[1] # p
    BY <1>2, <1>4, <2>1, <2>3 DEF Built
  <2> QED
    BY <2>2, <2>3
<1>6. ASSUME NEW h \in Holder, NEW r \in Rule, NEW k \in Key
      PROVE  /\ cells'[<<h, r>>][k] = IF h = b /\ k \in ReadBy[r] THEN lists[k] ELSE cells[<<h, r>>][k]
             /\ h # b => given'[h][r][k] = given[h][r][k]
             /\ given'[b][r][k] = IF k \in ReadBy[r] THEN Contents(memory, lists[k]) ELSE <<>>
  <2>1. <<h, r>> \in Cell /\ <<h, r>>[1] = h /\ <<h, r>>[2] = r
    BY DEF Cell
  <2> QED
    BY <1>0, <1>1, <1>2, <2>1
<1>7. ASSUME NEW r \in Rule, NEW k \in Key
      PROVE  cells[<<b, r>>][k] = Nil /\ given[b][r][k] = <<>>
  BY <1>2 DEF SettingsIInv, Lists
<1>8. \A k \in Key :
        /\ Contents(memory, lists[k]) \in Seq(Word)
        /\ Len(Contents(memory, lists[k])) = lists[k].len
        /\ \A i \in 1..lists[k].len : Contents(memory, lists[k])[i] = memory[lists[k].array][i]
  <2> SUFFICES ASSUME NEW k \in Key
               PROVE  /\ Contents(memory, lists[k]) \in Seq(Word)
                      /\ Len(Contents(memory, lists[k])) = lists[k].len
                      /\ \A i \in 1..lists[k].len :
                           Contents(memory, lists[k])[i] = memory[lists[k].array][i]
    OBVIOUS
  <2> DEFINE row == memory[lists[k].array]
             n == lists[k].len
  <2>1. /\ Contents(memory, lists[k]) = SubSeq(row, 1, n)
        /\ row \in Seq(Word) /\ n \in Nat /\ n <= Len(row) /\ Len(row) \in Nat
    <3>1. lists[k].array \in 1..Len(memory) /\ n <= Len(row) /\ n \in Nat
      BY <1>1, <1>3 DEF Fits, Slice
    <3>2. row \in Seq(Word)
      BY <1>1, <3>1, ElementOfSeq
    <3> QED
      BY <1>3, <3>1, <3>2, LenProperties DEF Contents
  <2> HIDE DEF row, n
  <2>2. \A i \in 1..n : row[i] \in Word
    BY <2>1, ElementOfSeq
  <2> QED
    BY <2>1, <2>2 DEF row, n
<1>9. Typed'
  <2>1. cells' \in [Cell -> [Key -> Slice]]
    <3> SUFFICES ASSUME NEW c \in Cell, NEW k \in Key
                 PROVE  (IF c[1] = b /\ k \in ReadBy[c[2]] THEN lists[k] ELSE cells[c][k]) \in Slice
      BY <1>0
    <3> QED
      BY <1>1, <1>3
  <2>2. given' \in [Holder -> [Rule -> [Key -> Seq(Word)]]]
    <3>1. [r \in Rule |-> [k \in Key |-> IF k \in ReadBy[r] THEN Contents(memory, lists[k]) ELSE <<>>]]
            \in [Rule -> [Key -> Seq(Word)]]
      BY <1>8, EmptySeq
    <3> QED
      BY <1>0, <1>1, <3>1
  <2> QED
    BY <1>0, <1>1, <2>1, <2>2 DEF SettingsIInv, Typed
<1>10. Decided'
  <2> SUFFICES ASSUME NEW q \in Plugin
               PROVE  /\ results'[q] \in Seq({SelectAnalyzers(settings'[q])})
                      /\ settings'[q] = None => results'[q] = <<>>
                      /\ settings'[q] # None =>
                           /\ settings'[q].lists \in [Key -> Slice]
                           /\ \A k \in Key : /\ Fits(memory', settings'[q].lists[k])
                                             /\ settings'[q].lists[k].array # 0
    BY DEF Decided
  <2>1. settings' = settings /\ memory' = memory
    BY <1>0
  <2>2. /\ results[q] \in Seq({SelectAnalyzers(settings[q])})
        /\ settings[q] = None => results[q] = <<>>
        /\ settings[q] # None =>
             /\ settings[q].lists \in [Key -> Slice]
             /\ \A k \in Key : Fits(memory, settings[q].lists[k]) /\ settings[q].lists[k].array # 0
    BY DEF SettingsIInv, Decided
  <2> QED
    BY <1>0, <1>4, <2>1, <2>2
<1>11. OwnArrays'
  BY <1>0 DEF SettingsIInv, OwnArrays
<1>12. Made'
  <2> DEFINE cell(h, r) == IF Built(h) /\ r \in Configurable THEN <<h, r>> ELSE <<Module, r>>
             cell1(h, r) == IF Built(h)' /\ r \in Configurable THEN <<h, r>> ELSE <<Module, r>>
  <2>1. analyzers = [h \in Holder |-> [r \in Rule |-> cell(h, r)]]
    BY DEF SettingsIInv, Made
  <2>2. analyzers' = [h \in Holder |-> [r \in Rule |-> cell1(h, r)]]
    <3>1. ASSUME NEW h \in Holder PROVE analyzers'[h] = [r \in Rule |-> cell1(h, r)]
      <4>1. CASE h = b
        <5>1. \A r \in Rule : analyzers[Module][r] = <<Module, r>>
          BY <2>1, Holders
        <5>2. analyzers'[b] = [r \in Rule |-> IF r \in Configurable THEN <<b, r>> ELSE analyzers[Module][r]]
          BY <1>0, <1>2, <2>1
        <5>3. \A r \in Rule : cell1(b, r) = IF r \in Configurable THEN <<b, r>> ELSE <<Module, r>>
          BY <1>2, <1>5
        <5> HIDE DEF cell1
        <5>4. analyzers'[b] = [r \in Rule |-> cell1(b, r)]
          BY <5>1, <5>2, <5>3
        <5> QED
          BY <4>1, <5>4
      <4>2. CASE h # b
        <5>1. \A r \in Rule : cell(h, r) = cell1(h, r)
          BY <1>5, <4>2
        <5>2. analyzers'[h] = [r \in Rule |-> cell(h, r)]
          BY <1>0, <2>1, <4>2
        <5> QED
          BY <5>1, <5>2
      <4> QED
        BY <4>1, <4>2
    <3>2. DOMAIN analyzers' = Holder /\ analyzers' = [h \in Holder |-> analyzers'[h]]
      BY <1>0, <2>1
    <3> QED
      BY <3>1, <3>2
  <2> QED
    BY <2>2 DEF Made
<1>13. Lists'
  <2> SUFFICES ASSUME NEW h \in Holder, NEW r \in Rule, NEW k \in Key
               PROVE  IF Built(h)' /\ k \in ReadBy[r] THEN ReadsOwn(h, r, k)'
                      ELSE cells'[<<h, r>>][k] = Nil /\ given'[h][r][k] = <<>>
    BY DEF Lists
  <2>1. IF Built(h) /\ k \in ReadBy[r] THEN ReadsOwn(h, r, k)
        ELSE cells[<<h, r>>][k] = Nil /\ given[h][r][k] = <<>>
    BY DEF SettingsIInv, Lists
  <2>2. \A g \in Holder, l \in Key : Home(g, l)' = Home(g, l)
    BY <1>0 DEF Home
  <2>3. ASSUME k \notin ReadBy[r] PROVE cells'[<<h, r>>][k] = Nil /\ given'[h][r][k] = <<>>
    BY <1>6, <1>7, <2>1, <2>3
  <2>4. ASSUME h = b, k \in ReadBy[r] PROVE ReadsOwn(h, r, k)'
    <3>1. cells'[<<h, r>>][k] = lists[k] /\ given'[h][r][k] = Contents(memory, lists[k])
      BY <1>6, <2>4
    <3>2. Home(h, k)' = lists[k]
      BY <1>0, <1>2, <2>2, <2>4 DEF Home
    <3>3. lists[k] \in Slice /\ Fits(memory, lists[k])
      BY <1>3
    <3>4. /\ Len(Contents(memory, lists[k])) = lists[k].len /\ lists[k].len <= lists[k].len
          /\ \A i \in 1..lists[k].len : Contents(memory, lists[k])[i] = memory[lists[k].array][i]
      BY <1>8, <3>3 DEF Slice
    <3>5. memory' = memory
      BY <1>0
    <3> HIDE DEF lists
    <3> QED
      BY <3>1, <3>2, <3>3, <3>4, <3>5 DEF ReadsOwn
  <2>5. ASSUME h # b, Built(h), k \in ReadBy[r] PROVE ReadsOwn(h, r, k)'
    <3> DEFINE s == cells[<<h, r>>][k]
               home == Home(h, k)
               all == given[h][r][k]
    <3>1. ReadsOwn(h, r, k)
      BY <2>1, <2>5
    <3>2. /\ s = cells'[<<h, r>>][k] /\ home = Home(h, k)' /\ all = given'[h][r][k]
      BY <1>6, <2>2, <2>5
    <3>3. ASSUME NEW g \in Holder, NEW q \in Rule, NEW l \in Key, g # b, Flagged(g, q, l)
          PROVE  Flagged(g, q, l)'
      BY <1>6, <2>2, <3>3 DEF Flagged
    <3>4. ASSUME NEW g \in Holder \ {Module}, NEW q \in Rule, Flagged(g, q, k), h # Module, g[1] = h[1]
          PROVE  g # b
      <4>1. Home(g, k) = home /\ home \in Slice
        BY <2>5, <3>4, HomeFits DEF SettingsIInv, Home
      <4>2. CASE g = b
        <5>1. given[g][q][k] = <<>> /\ Len(<<>>) = 0
          BY <1>7, <4>2, EmptySeq
        <5> QED
          BY <3>4, <4>1, <5>1 DEF Flagged, Slice
      <4> QED
        BY <4>2
    <3>5. ASSUME Contended(h, r, k) PROVE Contended(h, r, k)'
      <4>1. /\ h # Module /\ home.len < Cap(memory, home) /\ Flagged(h, r, k)
        BY <3>5 DEF Contended
      <4>2. PICK g \in Holder \ {Module}, q \in Rule :
              g[1] = h[1] /\ <<g, q>> # <<h, r>> /\ Flagged(g, q, k)
        BY <3>5 DEF Contended
      <4>3. Flagged(h, r, k)' /\ Flagged(g, q, k)'
        BY <2>5, <3>3, <3>4, <4>1, <4>2
      <4>4. Cap(memory', Home(h, k)') = Cap(memory, home)
        BY <1>0, <2>2
      <4> QED
        BY <2>2, <4>1, <4>2, <4>3, <4>4 DEF Contended
    <3>6. ASSUME Alone(h, r, k) PROVE Alone(h, r, k)'
      <4>1. /\ s.array # 0
            /\ \A q \in Plugin : settings[q] # None => \A l \in Key : settings[q].lists[l].array # s.array
            /\ \A g \in Holder, q \in Rule, l \in Key :
                 cells[<<g, q>>][l].array = s.array => g = h /\ q = r /\ l = k
        BY <3>6 DEF Alone
      <4>2. \A l \in Key : lists[l].array # s.array
        BY <1>0, <4>1
      <4>3. \A g \in Holder, q \in Rule, l \in Key :
              cells'[<<g, q>>][l].array = s.array => g = h /\ q = r /\ l = k
        BY <1>6, <4>1, <4>2
      <4> HIDE DEF s
      <4> QED
        BY <1>0, <3>2, <4>1, <4>3 DEF Alone
    <3>7. /\ Fits(memory, s) /\ s.len = Len(all) /\ home.len <= s.len
          /\ \A i \in 1..home.len : memory[s.array][i] = all[i] /\ memory[home.array][i] = all[i]
          /\ (\A i \in 1..s.len : memory[s.array][i] = all[i]) \/ Contended(h, r, k)
          /\ s.array = home.array \/ Alone(h, r, k)
      BY <3>1 DEF ReadsOwn
    <3>8. memory' = memory
      BY <1>0
    <3> HIDE DEF s, home, all
    <3> QED
      BY <3>2, <3>5, <3>6, <3>7, <3>8 DEF ReadsOwn
  <2>6. ASSUME ~Built(h)' PROVE cells'[<<h, r>>][k] = Nil /\ given'[h][r][k] = <<>>
    BY <1>5, <1>6, <2>1, <2>6
  <2> QED
    BY <1>5, <2>3, <2>4, <2>5, <2>6
<1> QED
  BY <1>9, <1>10, <1>11, <1>12, <1>13 DEF SettingsIInv

(* A flag writes behind the words of its own list: in the array of the     *)
(* settings beyond what they hold, or in an array of its own.              *)
LEMMA SetFlagIInv ==
  ASSUME SettingsIInv, NEW h \in Holder, NEW r \in Rule, NEW k \in Key, NEW value \in Values,
         SetFlag(h, r, k, value)
  PROVE  SettingsIInv'
<1> DEFINE s == cells[<<h, r>>][k]
           mem1 == AppendTo(memory, s, value).mem
           t == AppendTo(memory, s, value).slice
<1>0. /\ memory \in Seq(Seq(Word)) /\ Len(memory) \in Nat
      /\ cells \in [Cell -> [Key -> Slice]] /\ given \in [Holder -> [Rule -> [Key -> Seq(Word)]]]
      /\ value \in Seq(Word) /\ value # <<>> /\ Len(value) \in Nat /\ Len(value) # 0
  <2>1. value \in Seq(Pattern) /\ value # <<>>
    BY SettingsAssumption
  <2>2. value \in Seq(Word)
    BY <2>1 DEF Word
  <2> QED
    BY <2>1, <2>2, EmptySeq, LenProperties DEF SettingsIInv, Typed
<1>1. Built(h) /\ k \in ReadBy[r] /\ analyzers[h][r] = <<h, r>>
  <2>1. Reaches(h, r) /\ k \in ReadBy[r]
    BY DEF SetFlag
  <2>2. Built(h)
    BY <2>1 DEF Reaches, Built
  <2>3. r \in Configurable
    BY <2>1 DEF Configurable
  <2> QED
    BY <2>1, <2>2, <2>3 DEF SettingsIInv, Made
<1>2. /\ memory' = mem1
      /\ cells' = [cells EXCEPT ![<<h, r>>][k] = t]
      /\ given' = [given EXCEPT ![h][r][k] = @ \o value]
      /\ UNCHANGED <<analyzers, settings, results>>
  BY <1>1 DEF SetFlag
<1>3. ReadsOwn(h, r, k)
  BY <1>1 DEF SettingsIInv, Lists
<1>4. s \in Slice /\ Fits(memory, s)
  BY <1>0, <1>3 DEF Cell, ReadsOwn
<1>5. /\ mem1 \in Seq(Seq(Word)) /\ t \in Slice /\ Fits(mem1, t)
      /\ t.len = s.len + Len(value)
      /\ Len(memory) <= Len(mem1)
      /\ \A j \in 1..Len(memory) : Len(mem1[j]) = Len(memory[j])
      /\ \A j \in 1..Len(memory) : \A i \in 1..Len(memory[j]) :
           j # s.array \/ i <= s.len => mem1[j][i] = memory[j][i]
      /\ \A i \in 1..s.len : mem1[t.array][i] = memory[s.array][i]
      /\ \A i \in 1..Len(value) : mem1[t.array][s.len + i] = value[i]
      /\ (t.array = s.array /\ s.array # 0) \/ t.array = Len(memory) + 1
  BY <1>0, <1>4, Appended
<1>6. Len(mem1) \in Nat
  BY <1>5, LenProperties
<1>14. Len(memory) \in Nat
  BY <1>0
<1>18. Len(memory) <= Len(mem1) /\ \A j \in 1..Len(memory) : Len(mem1[j]) = Len(memory[j])
  BY <1>5
<1>19. \A i \in 1..s.len : mem1[t.array][i] = memory[s.array][i]
  BY <1>5
<1>15. /\ s.len \in Nat /\ t.len \in Nat /\ t.len = s.len + Len(value) /\ Len(value) \in Nat
       /\ Len(value) # 0
  BY <1>0, <1>4, <1>5 DEF Slice
<1> HIDE DEF mem1, t
<1>16. PICK old : old = given[h][r][k]
  OBVIOUS
<1>17. PICK more : more = old \o value
  OBVIOUS
<1>7. ASSUME NEW g \in Holder, NEW q \in Rule, NEW l \in Key
      PROVE  /\ cells'[<<g, q>>][l] = IF g = h /\ q = r /\ l = k THEN t ELSE cells[<<g, q>>][l]
             /\ given'[g][q][l] = IF g = h /\ q = r /\ l = k THEN more ELSE given[g][q][l]
  <2>1. <<g, q>> \in Cell /\ (<<g, q>> = <<h, r>> <=> g = h /\ q = r)
    BY DEF Cell
  <2>2. given' = [given EXCEPT ![h][r][k] = more]
    BY <1>2, <1>16, <1>17
  <2>3. cells'[<<g, q>>][l] = IF g = h /\ q = r /\ l = k THEN t ELSE cells[<<g, q>>][l]
    BY <1>0, <1>2, <2>1
  <2>4. given'[g][q][l] = IF g = h /\ q = r /\ l = k THEN more ELSE given[g][q][l]
    BY <1>0, <2>2
  <2> QED
    BY <2>3, <2>4
<1>8. /\ more \in Seq(Word)
      /\ Len(more) = Len(old) + Len(value)
      /\ Len(old) \in Nat
      /\ \A i \in 1..Len(old) : more[i] = old[i]
      /\ \A i \in 1..Len(value) : more[Len(old) + i] = value[i]
  <2>1. old \in Seq(Word) /\ value \in Seq(Word)
    BY <1>0, <1>16
  <2> QED
    BY ONLY <1>17, <2>1, Concat
<1>9. ASSUME NEW u \in Slice, Fits(memory, u)
      PROVE  Fits(memory', u) /\ Cap(memory', u) = Cap(memory, u)
  <2>1. CASE u.array = 0
    BY <1>2, <1>6, <1>9, <2>1 DEF Fits, Cap
  <2>2. CASE u.array # 0
    <3>1. u.array \in 1..Len(memory)
      BY <1>9, <1>14, <2>2 DEF Fits
    <3>2. Len(mem1[u.array]) = Len(memory[u.array])
      BY <1>18, <3>1
    <3>3. u.array \in 0..Len(mem1)
      BY <1>6, <1>14, <1>18, <3>1
    <3> QED
      BY <1>2, <1>9, <2>2, <3>2, <3>3 DEF Fits, Cap
  <2> QED
    BY <2>1, <2>2
<1>10. Typed'
  <2>1. cells' \in [Cell -> [Key -> Slice]]
    BY <1>0, <1>2, <1>5
  <2>2. given' \in [Holder -> [Rule -> [Key -> Seq(Word)]]]
    BY <1>0, <1>2, <1>8, <1>16, <1>17
  <2> QED
    BY <1>2, <1>5, <2>1, <2>2 DEF SettingsIInv, Typed
<1>11. Decided'
  <2> SUFFICES ASSUME NEW q \in Plugin
               PROVE  /\ results'[q] \in Seq({SelectAnalyzers(settings'[q])})
                      /\ settings'[q] = None => results'[q] = <<>>
                      /\ settings'[q] # None =>
                           /\ settings'[q].lists \in [Key -> Slice]
                           /\ \A l \in Key : /\ Fits(memory', settings'[q].lists[l])
                                             /\ settings'[q].lists[l].array # 0
    BY DEF Decided
  <2>1. /\ results[q] \in Seq({SelectAnalyzers(settings[q])})
        /\ settings[q] = None => results[q] = <<>>
        /\ settings[q] # None =>
             /\ settings[q].lists \in [Key -> Slice]
             /\ \A l \in Key : Fits(memory, settings[q].lists[l]) /\ settings[q].lists[l].array # 0
    BY DEF SettingsIInv, Decided
  <2>2. settings' = settings /\ results' = results
    BY <1>2
  <2> QED
    BY <1>9, <2>1, <2>2
<1>12. OwnArrays' /\ Made'
  BY <1>2 DEF SettingsIInv, OwnArrays, Made, Built
<1>13. Lists'
  <2> SUFFICES ASSUME NEW g \in Holder, NEW q \in Rule, NEW l \in Key
               PROVE  IF Built(g)' /\ l \in ReadBy[q] THEN ReadsOwn(g, q, l)'
                      ELSE cells'[<<g, q>>][l] = Nil /\ given'[g][q][l] = <<>>
    BY DEF Lists
  <2>1. IF Built(g) /\ l \in ReadBy[q] THEN ReadsOwn(g, q, l)
        ELSE cells[<<g, q>>][l] = Nil /\ given[g][q][l] = <<>>
    BY DEF SettingsIInv, Lists
  <2>2. /\ \A f \in Holder : Built(f)' <=> Built(f)
        /\ \A f \in Holder, m \in Key : Home(f, m)' = Home(f, m)
    BY <1>2 DEF Built, Home
  <2>3. ASSUME NEW f \in Holder, NEW m \in Key, Built(f)
        PROVE  Home(f, m) \in Slice /\ Fits(memory, Home(f, m))
    BY <2>3, HomeFits DEF SettingsIInv
  <2>4. ASSUME NEW f \in Holder, NEW x \in Rule, NEW m \in Key, Flagged(f, x, m), Built(f)
        PROVE  Flagged(f, x, m)'
    <3>1. Home(f, m) \in Slice /\ Len(given[f][x][m]) \in Nat
      <4>1. given[f][x][m] \in Seq(Word)
        BY <1>0
      <4> QED
        BY <2>3, <2>4, <4>1, LenProperties
    <3>2. Len(given'[f][x][m]) >= Len(given[f][x][m]) /\ Len(given'[f][x][m]) \in Nat
      <4>1. CASE f = h /\ x = r /\ m = k
        <5>1. given'[f][x][m] = more /\ given[f][x][m] = old
          BY <1>7, <1>16, <4>1
        <5> QED
          BY <1>8, <1>15, <5>1
      <4>2. CASE ~(f = h /\ x = r /\ m = k)
        <5>1. given'[f][x][m] = given[f][x][m]
          BY <1>7, <4>2
        <5> QED
          BY <3>1, <5>1
      <4> QED
        BY <4>1, <4>2
    <3> QED
      BY <2>2, <2>4, <3>1, <3>2 DEF Flagged, Slice
  <2>5. ASSUME ~(Built(g) /\ l \in ReadBy[q])
        PROVE  cells'[<<g, q>>][l] = Nil /\ given'[g][q][l] = <<>>
    BY <1>1, <1>7, <2>1, <2>5
  <2>6. ASSUME Built(g), l \in ReadBy[q] PROVE ReadsOwn(g, q, l)'
    <3> DEFINE u == cells[<<g, q>>][l]
               home == Home(g, l)
               all == given[g][q][l]
    <3>1. /\ Fits(memory, u) /\ u.len = Len(all) /\ home.len <= u.len
          /\ \A i \in 1..home.len : memory[u.array][i] = all[i] /\ memory[home.array][i] = all[i]
          /\ (\A i \in 1..u.len : memory[u.array][i] = all[i]) \/ Contended(g, q, l)
          /\ u.array = home.array \/ Alone(g, q, l)
      BY <2>1, <2>6 DEF ReadsOwn
    <3>0. Fits(memory, u) /\ u.len = Len(all) /\ home.len <= u.len
      BY <3>1
    <3>2. u \in Slice /\ home \in Slice /\ Fits(memory, home) /\ all \in Seq(Word)
      BY <1>0, <2>3, <2>6 DEF Cell
    <3>3. ASSUME Contended(g, q, l) PROVE Contended(g, q, l)'
      <4>1. /\ g # Module /\ home.len < Cap(memory, home) /\ Flagged(g, q, l)
        BY <3>3 DEF Contended
      <4>2. PICK f \in Holder \ {Module}, x \in Rule :
              f[1] = g[1] /\ <<f, x>> # <<g, q>> /\ Flagged(f, x, l)
        BY <3>3 DEF Contended
      <4>3. Built(f)
        <5>1. Home(f, l) = home
          BY <4>1, <4>2 DEF Home
        <5>2. given[f][x][l] # <<>>
          <6>1. Len(<<>>) = 0
            BY EmptySeq
          <6> QED
            BY <3>2, <4>2, <5>1, <6>1 DEF Flagged, Slice
        <5> QED
          BY <5>2 DEF SettingsIInv, Lists
      <4>4. Flagged(g, q, l)' /\ Flagged(f, x, l)'
        BY <2>4, <2>6, <4>1, <4>2, <4>3
      <4>5. Cap(memory', home) = Cap(memory, home)
        BY <1>9, <3>2
      <4> QED
        BY <2>2, <4>1, <4>2, <4>4, <4>5 DEF Contended
    (* Two lists are in one array only where it is that of their settings.   *)
    <3>4. ASSUME s.array # 0, s.array = u.array, <<g, q, l>> # <<h, r, k>>
          PROVE  /\ g # Module /\ h # Module /\ g[1] = h[1] /\ l = k
                 /\ Home(h, k) = home /\ home.array = s.array
                 /\ home.len <= s.len /\ s.len = Len(given[h][r][k])
      <4>1. ~Alone(h, r, k) /\ ~Alone(g, q, l)
        BY <3>4 DEF Alone
      <4>2. /\ s.array = Home(h, k).array /\ u.array = home.array /\ Home(h, k).len <= s.len
            /\ s.len = Len(given[h][r][k])
        BY <1>3, <3>1, <4>1 DEF ReadsOwn
      <4>3. h # Module /\ g # Module
        BY <3>4, <4>2 DEF Home, Nil
      <4>4. /\ settings[h[1]] # None /\ Home(h, k) = settings[h[1]].lists[k]
            /\ settings[g[1]] # None /\ home = settings[g[1]].lists[l]
        BY <1>1, <2>6, <4>3, HomeFits DEF SettingsIInv
      <4>5. h[1] \in Plugin /\ g[1] \in Plugin
        BY <4>3, Holders
      <4>6. g[1] = h[1] /\ l = k
        <5>1. settings[h[1]].lists[k].array = settings[g[1]].lists[l].array
          BY <3>4, <4>2, <4>4
        <5>2. OwnArrays
          BY DEF SettingsIInv
        <5> QED
          BY <4>4, <4>5, <5>1, <5>2 DEF OwnArrays
      <4> QED
        BY <4>2, <4>3, <4>4, <4>6
    <3>5. CASE <<g, q, l>> = <<h, r, k>>
      <4>0. g = h /\ q = r /\ l = k
        BY <3>5
      <4>1. /\ cells'[<<g, q>>][l] = t /\ given'[g][q][l] = more /\ all = old
            /\ u = s /\ Home(g, l)' = home
        BY <1>7, <1>16, <2>2, <4>0
      <4>8. home.len \in Nat /\ home.len <= s.len /\ Len(old) = s.len
        BY <3>0, <3>2, <4>1 DEF Slice
      <4>2. /\ Len(more) = t.len /\ home.len <= t.len
            /\ \A i \in 1..s.len : more[i] = old[i]
            /\ \A i \in 1..Len(value) : more[s.len + i] = value[i]
        <5>1. Len(more) = t.len
          BY <1>8, <1>15, <4>8
        <5>2. home.len <= t.len
          BY <1>15, <4>8
        <5>3. \A i \in 1..s.len : more[i] = old[i]
          BY <1>8, <4>8
        <5>4. \A i \in 1..Len(value) : more[s.len + i] = value[i]
          BY <1>8, <4>8
        <5> QED
          BY <5>1, <5>2, <5>3, <5>4
      <4>3. Fits(memory', t)
        BY <1>2, <1>5
      <4>4. \A i \in 1..home.len : mem1[t.array][i] = more[i]
        <5> SUFFICES ASSUME NEW i \in 1..home.len PROVE mem1[t.array][i] = more[i]
          OBVIOUS
        <5>1. i \in 1..s.len
          BY <1>15, <4>8
        <5>2. memory[s.array][i] = old[i]
          BY <3>1, <4>1
        <5> QED
          BY <1>19, <4>2, <5>1, <5>2
      <4>5. \A i \in 1..home.len : mem1[home.array][i] = more[i]
        <5> SUFFICES ASSUME NEW i \in 1..home.len PROVE mem1[home.array][i] = more[i]
          OBVIOUS
        <5>1. home.array \in 1..Len(memory) /\ i \in 1..Len(memory[home.array])
          <6>1. memory \in Seq(Seq(Word)) /\ home \in Slice /\ Fits(memory, home)
            BY <1>0, <3>2
          <6> QED
            BY <6>1, Inside
        <5>2. i <= s.len /\ i \in 1..s.len
          BY <1>15, <4>8
        <5>3. mem1[home.array][i] = memory[home.array][i]
          BY <1>5, <5>1, <5>2
        <5>4. memory[home.array][i] = old[i]
          BY <3>1, <4>1
        <5> QED
          BY <4>2, <5>2, <5>3, <5>4
      <4>6. ASSUME \A i \in 1..u.len : memory[u.array][i] = all[i]
            PROVE  \A i \in 1..t.len : mem1[t.array][i] = more[i]
        <5> SUFFICES ASSUME NEW i \in 1..t.len PROVE mem1[t.array][i] = more[i]
          OBVIOUS
        <5>1. CASE i <= s.len
          <6>1. i \in 1..s.len
            BY <1>15, <5>1
          <6>2. memory[s.array][i] = old[i]
            BY <4>1, <4>6, <6>1
          <6> QED
            BY <1>5, <4>2, <6>1, <6>2
        <5>2. CASE ~(i <= s.len)
          <6>1. i - s.len \in 1..Len(value) /\ s.len + (i - s.len) = i
            BY <1>15, <5>2
          <6>2. mem1[t.array][s.len + (i - s.len)] = value[i - s.len]
            BY <1>5, <6>1
          <6>3. more[s.len + (i - s.len)] = value[i - s.len]
            BY <4>2, <6>1
          <6> QED
            BY <6>1, <6>2, <6>3
        <5> QED
          BY <5>1, <5>2
      <4>7. t.array = home.array \/ Alone(g, q, l)'
        <5>1. CASE t.array = s.array /\ s.array # 0
          <6>1. ASSUME Alone(h, r, k) PROVE Alone(h, r, k)'
            <7>1. \A f \in Holder, x \in Rule, m \in Key :
                    cells'[<<f, x>>][m].array = t.array => f = h /\ x = r /\ m = k
              BY <1>7, <5>1, <6>1 DEF Alone
            <7>2. \A p \in Plugin : settings'[p] # None => \A m \in Key : settings'[p].lists[m].array # t.array
              BY <1>2, <5>1, <6>1 DEF Alone
            <7> QED
              BY <4>0, <4>1, <5>1, <7>1, <7>2 DEF Alone
          <6> QED
            BY <3>1, <4>0, <4>1, <5>1, <6>1
        <5>2. CASE t.array = Len(memory) + 1
          <6>1. \A p \in Plugin : settings'[p] # None => \A m \in Key : settings'[p].lists[m].array # t.array
            <7>1. ASSUME NEW p \in Plugin, settings[p] # None, NEW m \in Key
                  PROVE  settings[p].lists[m].array \in 0..Len(memory)
              BY <7>1 DEF SettingsIInv, Decided, Fits
            <7>2. ASSUME NEW p \in Plugin, settings[p] # None, NEW m \in Key
                  PROVE  settings[p].lists[m].array # t.array
              BY <1>14, <5>2, <7>1, <7>2
            <7> QED
              BY <1>2, <7>2
          <6>2. ASSUME NEW f \in Holder, NEW x \in Rule, NEW m \in Key,
                       cells'[<<f, x>>][m].array = t.array
                PROVE  f = h /\ x = r /\ m = k
            <7>1. cells[<<f, x>>][m].array \in 0..Len(memory)
              <8>1. CASE Built(f) /\ m \in ReadBy[x]
                BY <8>1 DEF SettingsIInv, Lists, ReadsOwn, Fits
              <8>2. CASE ~(Built(f) /\ m \in ReadBy[x])
                <9>1. cells[<<f, x>>][m] = Nil
                  BY <8>2 DEF SettingsIInv, Lists
                <9> QED
                  BY <1>0, <9>1 DEF Nil
              <8> QED
                BY <8>1, <8>2
            <7>2. cells[<<f, x>>][m].array # t.array
              BY <1>14, <5>2, <7>1
            <7> QED
              BY <1>7, <6>2, <7>2
          <6>3. t.array # 0
            BY <1>0, <5>2
          <6> QED
            BY <4>0, <4>1, <6>1, <6>2, <6>3 DEF Alone
        <5> QED
          BY <1>5, <5>1, <5>2
      <4> HIDE DEF home, u, s, all
      <4> QED
        <5>1. Fits(memory', t) /\ t.len = Len(more) /\ home.len <= t.len
          BY <4>2, <4>3
        <5>2. (\A i \in 1..t.len : mem1[t.array][i] = more[i]) \/ Contended(g, q, l)'
          BY <3>1, <3>3, <4>6
        <5> QED
          BY ONLY <1>2, <4>1, <4>4, <4>5, <4>7, <5>1, <5>2 DEF ReadsOwn
    <3>6. CASE <<g, q, l>> # <<h, r, k>>
      <4>1. cells'[<<g, q>>][l] = u /\ given'[g][q][l] = all /\ Home(g, l)' = home
        BY <1>7, <2>2, <3>6
      <4>2. Fits(memory', u)
        BY <1>9, <3>1, <3>2
      <4>3. ASSUME NEW i \in 1..u.len, u.array # s.array \/ i <= s.len
            PROVE  mem1[u.array][i] = memory[u.array][i]
        <5>1. u.array \in 1..Len(memory) /\ i \in 1..Len(memory[u.array])
          <6>1. u.len \in Nat /\ i \in 1..u.len
            BY <3>2 DEF Slice
          <6>2. /\ u.array \in 0..Len(memory)
                /\ u.len <= (IF u.array = 0 THEN 0 ELSE Len(memory[u.array]))
            BY <3>0 DEF Fits
          <6> HIDE DEF u
          <6>3. u.array # 0
            BY <6>1, <6>2
          <6> QED
            BY <1>14, <6>1, <6>2, <6>3
        <5> QED
          BY <1>5, <4>3, <5>1
      <4>4. ASSUME NEW i \in 1..home.len
            PROVE  mem1[u.array][i] = all[i] /\ mem1[home.array][i] = all[i]
        <5>1. i \in 1..u.len
          BY <3>1, <3>2 DEF Slice
        <5>2. u.array # 0
          BY <3>1, <3>2, <5>1 DEF Fits, Slice
        <5>3. u.array # s.array \/ i <= s.len
          <6> SUFFICES ASSUME u.array = s.array PROVE i <= s.len
            OBVIOUS
          <6>1. home.len <= s.len
            BY <3>4, <3>6, <5>2
          <6>2. i \in Nat /\ i <= home.len /\ home.len \in Nat /\ s.len \in Nat
            BY <1>15, <3>2 DEF Slice
          <6> QED
            BY ONLY <6>1, <6>2
        <5>4. mem1[u.array][i] = all[i]
          BY <3>1, <4>3, <5>1, <5>3
        <5>5. home.array \in 1..Len(memory) /\ i \in 1..Len(memory[home.array])
          <6>1. memory \in Seq(Seq(Word)) /\ home \in Slice /\ Fits(memory, home)
            BY <1>0, <3>2
          <6> QED
            BY <6>1, Inside
        <5>6. home.array # s.array \/ i <= s.len
          <6> SUFFICES ASSUME home.array = s.array PROVE i <= s.len
            OBVIOUS
          <6>1. g # Module
            BY <5>5 DEF Home, Nil
          <6>2. settings[g[1]] # None /\ home = settings[g[1]].lists[l] /\ g[1] \in Plugin
            BY <2>6, <6>1, HomeFits, Holders DEF SettingsIInv
          <6>3. ~Alone(h, r, k)
            BY <6>2 DEF Alone
          <6>4. s.array = Home(h, k).array /\ Home(h, k).len <= s.len
            BY <1>3, <6>3 DEF ReadsOwn
          <6>5. h # Module
            BY <5>5, <6>4 DEF Home, Nil
          <6>6. settings[h[1]] # None /\ Home(h, k) = settings[h[1]].lists[k] /\ h[1] \in Plugin
            BY <1>1, <6>5, HomeFits, Holders DEF SettingsIInv
          <6>7. g[1] = h[1] /\ l = k
            BY <6>2, <6>4, <6>6 DEF SettingsIInv, OwnArrays
          <6>8. home.len <= s.len
            BY <6>2, <6>4, <6>6, <6>7
          <6> QED
            BY <1>4, <3>2, <6>8 DEF Slice
        <5>7. mem1[home.array][i] = memory[home.array][i]
          BY <1>5, <5>5, <5>6
        <5> QED
          BY <3>1, <5>4, <5>7
      <4>5. ASSUME \A i \in 1..u.len : memory[u.array][i] = all[i], ~Contended(g, q, l)'
            PROVE  \A i \in 1..u.len : mem1[u.array][i] = all[i]
        <5> SUFFICES ASSUME NEW i \in 1..u.len PROVE mem1[u.array][i] = all[i]
          OBVIOUS
        <5>1. u.array # 0
          BY <3>1, <3>2 DEF Fits, Slice
        <5>2. u.array # s.array \/ i <= s.len
          <6> SUFFICES ASSUME u.array = s.array, ~(i <= s.len) PROVE FALSE
            OBVIOUS
          <6>1. /\ g # Module /\ h # Module /\ g[1] = h[1] /\ l = k
                /\ Home(h, k) = home /\ home.array = s.array
                /\ home.len <= s.len /\ s.len = Len(given[h][r][k])
            BY <3>4, <3>6, <5>1
          <6>2. home.len < u.len /\ u.len <= Cap(memory, home)
            BY <1>4, <3>1, <3>2, <5>1, <6>1 DEF Slice, Fits, Cap
          <6>3. Cap(memory', home) = Cap(memory, home)
            BY <1>9, <3>2
          <6>4. home.len < Cap(memory', home)
            <7>1. Cap(memory, home) \in Nat
              <8>1. home.array \in 1..Len(memory)
                BY <1>0, <3>2, <5>1, <6>1 DEF Fits
              <8>2. memory[home.array] \in Seq(Word)
                BY <1>0, <8>1, ElementOfSeq
              <8> QED
                BY <8>2, LenProperties DEF Cap
            <7> QED
              BY <3>2, <6>2, <6>3, <7>1 DEF Slice
          <6>5. Flagged(g, q, l)'
            <7>1. Flagged(g, q, l)
              BY <2>6, <3>1, <6>2 DEF Flagged
            <7> QED
              BY <2>4, <2>6, <7>1
          <6>6. Flagged(h, r, k)'
            <7>1. Len(given'[h][r][k]) = s.len + Len(value)
              <8>1. given'[h][r][k] = more /\ Len(old) = s.len
                BY <1>7, <1>16, <6>1
              <8> QED
                BY <1>8, <8>1
            <7>2. s.len + Len(value) > home.len
              BY <1>0, <1>4, <3>2, <6>1 DEF Slice
            <7> QED
              BY <1>1, <2>2, <6>1, <7>1, <7>2 DEF Flagged
          <6>7. <<h, r>> # <<g, q>>
            BY <3>6, <6>1
          <6> QED
            BY <2>2, <4>5, <6>1, <6>4, <6>5, <6>6, <6>7 DEF Contended
        <5> QED
          BY <4>3, <4>5, <5>2
      <4>6. ASSUME Alone(g, q, l) PROVE Alone(g, q, l)'
        <5>1. /\ u.array # 0
              /\ \A p \in Plugin : settings[p] # None => \A m \in Key : settings[p].lists[m].array # u.array
              /\ \A f \in Holder, x \in Rule, m \in Key :
                   cells[<<f, x>>][m].array = u.array => f = g /\ x = q /\ m = l
          BY <4>6 DEF Alone
        <5>2. t.array # u.array
          <6>1. u.array \in 0..Len(memory)
            BY <3>1 DEF Fits
          <6>2. s.array # u.array
            BY <3>6, <5>1
          <6> QED
            BY <1>0, <1>5, <6>1, <6>2
        <5>3. \A f \in Holder, x \in Rule, m \in Key :
                cells'[<<f, x>>][m].array = u.array => f = g /\ x = q /\ m = l
          BY <1>7, <5>1, <5>2
        <5>4. \A p \in Plugin : settings'[p] # None => \A m \in Key : settings'[p].lists[m].array # u.array
          BY <1>2, <5>1
        <5> HIDE DEF u
        <5> QED
          BY <4>1, <5>1, <5>3, <5>4 DEF Alone
      <4> HIDE DEF u, home, all
      <4> QED
        BY <1>2, <3>1, <3>3, <4>1, <4>2, <4>4, <4>5, <4>6 DEF ReadsOwn
    <3> QED
      BY <3>5, <3>6
  <2> QED
    BY <2>2, <2>5, <2>6
<1> QED
  BY <1>10, <1>11, <1>12, <1>13 DEF SettingsIInv

LEMMA Inductive == SettingsSpec => []SettingsIInv
<1>1. SettingsInit => SettingsIInv
  BY InitIInv
<1>2. SettingsIInv /\ [SettingsNext]_settingsVars => SettingsIInv'
  <2> SUFFICES ASSUME SettingsIInv, [SettingsNext]_settingsVars PROVE SettingsIInv'
    OBVIOUS
  <2>1. CASE \E p \in Plugin, block \in Blocks : New(p, block)
    BY <2>1, NewIInv
  <2>2. CASE \E p \in Plugin : BuildAnalyzers(p)
    BY <2>2, BuildIInv
  <2>3. CASE \E h \in Holder, r \in Rule, k \in Key, value \in Values : SetFlag(h, r, k, value)
    <3>1. PICK h \in Holder, r \in Rule, k \in Key, value \in Values : SetFlag(h, r, k, value)
      BY <2>3
    <3> QED
      BY <3>1, SetFlagIInv
  <2>4. CASE UNCHANGED settingsVars
    <3>1. Typed' /\ Decided' /\ OwnArrays'
      <4>1. Typed'
        BY <2>4 DEF settingsVars, SettingsIInv, Typed
      <4>2. Decided'
        BY <2>4 DEF settingsVars, SettingsIInv, Decided
      <4>3. OwnArrays'
        BY <2>4 DEF settingsVars, SettingsIInv, OwnArrays
      <4> QED
        BY <4>1, <4>2, <4>3
    <3>2. \A h \in Holder : Built(h)' <=> Built(h)
      BY <2>4 DEF settingsVars, Built
    <3>3. Made'
      BY <2>4, <3>2 DEF settingsVars, SettingsIInv, Made
    <3>4. ASSUME NEW h \in Holder, NEW r \in Rule, NEW k \in Key, ReadsOwn(h, r, k)
          PROVE  ReadsOwn(h, r, k)'
      BY <2>4, <3>4 DEF settingsVars, ReadsOwn, Home, Contended, Flagged, Alone
    <3>5. Lists'
      BY <2>4, <3>2, <3>4 DEF settingsVars, SettingsIInv, Lists
    <3> QED
      BY <3>1, <3>3, <3>5 DEF SettingsIInv
  <2> QED
    BY <2>1, <2>2, <2>3, <2>4 DEF SettingsNext
<1> QED
  BY <1>1, <1>2, PTL DEF SettingsSpec

(* Whatever blocks are decoded, in whatever order instances are built and  *)
(* flags are set on them, and however append grows an array, an analyzer   *)
(* reads its settings and then the flags of its holder, but for the flags  *)
(* that met in the array of one list (Configured, SetFlag).                *)
THEOREM OwnConfiguration == SettingsSpec => []Isolated
<1>1. SettingsIInv => Isolated
  <2> SUFFICES ASSUME SettingsIInv, NEW h \in Holder, NEW r \in Rule, NEW k \in Key, Reaches(h, r)
               PROVE  LET read == Contents(memory, cells[analyzers[h][r]][k])
                          len == Home(h, k).len IN
                      /\ Len(read) = Len(given[h][r][k])
                      /\ k \in ReadBy[r] => SubSeq(read, 1, len) = SubSeq(given[h][r][k], 1, len)
                      /\ read = given[h][r][k] \/ Contended(h, r, k)
    BY DEF Isolated
  <2>1. Built(h)
    BY DEF Reaches, Built
  <2>2. analyzers[h][r] = IF r \in Configurable THEN <<h, r>> ELSE <<Module, r>>
    BY <2>1 DEF SettingsIInv, Made
  <2>3. CASE k \notin ReadBy[r]
    <3>1. Module \in Holder /\ cells[analyzers[h][r]][k] = Nil /\ given[h][r][k] = <<>>
      BY <2>2, <2>3, Holders DEF SettingsIInv, Lists
    <3>2. Contents(memory, Nil) = <<>>
      BY DEF Contents, Nil
    <3> QED
      BY <2>3, <3>1, <3>2
  <2>4. CASE k \in ReadBy[r]
    <3> DEFINE s == cells[<<h, r>>][k]
               home == Home(h, k)
               all == given[h][r][k]
               read == Contents(memory, s)
    <3>1. analyzers[h][r] = <<h, r>>
      BY <2>2, <2>4 DEF Configurable
    <3>2. ReadsOwn(h, r, k)
      BY <2>1, <2>4 DEF SettingsIInv, Lists
    <3>3. s \in Slice /\ all \in Seq(Word) /\ home \in Slice /\ Len(all) \in Nat
      <4>1. cells \in [Cell -> [Key -> Slice]] /\ given \in [Holder -> [Rule -> [Key -> Seq(Word)]]]
        BY DEF SettingsIInv, Typed
      <4>2. all \in Seq(Word)
        BY <4>1
      <4> QED
        BY <2>1, <4>1, <4>2, HomeFits, LenProperties DEF SettingsIInv, Cell
    <3>4. Fits(memory, s) /\ s.len = Len(all) /\ home.len <= s.len
      BY <3>2 DEF ReadsOwn
    <3>5. /\ read \in Seq(Word) /\ Len(read) = s.len
          /\ \A i \in 1..s.len : read[i] = memory[s.array][i]
      <4>1. CASE s.array = 0
        <5>1. s.len = 0 /\ read = <<>>
          BY <3>3, <3>4, <4>1 DEF Contents, Fits, Slice
        <5> QED
          BY <5>1, EmptySeq
      <4>2. CASE s.array # 0
        <5> DEFINE row == memory[s.array]
                   n == s.len
        <5>1. memory \in Seq(Seq(Word)) /\ Len(memory) \in Nat
          BY LenProperties DEF SettingsIInv, Typed
        <5>2. s.array \in 1..Len(memory) /\ n <= Len(row) /\ n \in Nat
          BY <3>3, <3>4, <4>2, <5>1 DEF Fits, Slice
        <5>3. row \in Seq(Word) /\ read = SubSeq(row, 1, n) /\ Len(row) \in Nat
          BY <4>2, <5>1, <5>2, ElementOfSeq, LenProperties DEF Contents
        <5> HIDE DEF row, n, read
        <5>4. \A i \in 1..n : row[i] \in Word
          BY <5>2, <5>3, ElementOfSeq
        <5>5. read \in Seq(Word) /\ Len(read) = n /\ \A i \in 1..n : read[i] = row[i]
          BY <5>2, <5>3, <5>4
        <5> QED
          BY <5>5 DEF row, n
      <4> QED
        BY <4>1, <4>2
    <3> HIDE DEF read, all
    <3>6. Len(read) = Len(all)
      BY <3>4, <3>5
    <3>7. SubSeq(read, 1, home.len) = SubSeq(all, 1, home.len)
      <4>1. \A i \in 1..home.len : read[i] = all[i]
        <5> SUFFICES ASSUME NEW i \in 1..home.len PROVE read[i] = all[i]
          OBVIOUS
        <5>1. i \in 1..s.len
          BY <3>3, <3>4 DEF Slice
        <5>2. memory[s.array][i] = all[i]
          BY <3>2 DEF ReadsOwn, all
        <5> QED
          BY <3>5, <5>1, <5>2
      <4>2. SubSeq(read, 1, home.len) = [i \in 1..home.len |-> read[i]]
        BY <3>3, <3>5 DEF Slice
      <4>3. SubSeq(all, 1, home.len) = [i \in 1..home.len |-> all[i]]
        BY <3>3 DEF Slice
      <4> QED
        BY <4>1, <4>2, <4>3
    <3>8. read = all \/ Contended(h, r, k)
      <4> SUFFICES ASSUME ~Contended(h, r, k) PROVE read = all
        OBVIOUS
      <4>1. \A i \in 1..s.len : memory[s.array][i] = all[i]
        BY <3>2 DEF ReadsOwn, all
      <4>2. \A i \in 1..Len(read) : read[i] = all[i]
        BY <3>5, <4>1
      <4> QED
        BY <3>3, <3>5, <3>6, <4>2, SeqEqual
    <3> QED
      BY <3>1, <3>6, <3>7, <3>8 DEF read, all
  <2> QED
    BY <2>3, <2>4
<1> QED
  BY <1>1, Inductive, PTL

(* Whatever names a block holds, in whatever order and however often, the  *)
(* run keeps exactly the documented rules, in the order of the registry,   *)
(* or stops with an error (selectAnalyzers).                               *)
THEOREM RulesSelected == SettingsSpec => []Selects
<1>1. SettingsIInv => Selects
  <2> SUFFICES ASSUME SettingsIInv, NEW p \in Plugin, NEW i \in DOMAIN results[p]
               PROVE  LET got == results[p][i]
                          on == Range(settings[p].enable)
                          off == Range(settings[p].disable) IN
                      IF on \subseteq OptIn /\ off \subseteq Rule
                      THEN /\ got.error = None
                           /\ Range(got.rules) = ((Rule \ OptIn) \cup on) \ off
                           /\ \A j \in 1..(Len(got.rules) - 1) :
                                \E m, n \in DOMAIN Registry :
                                  m < n /\ Registry[m] = got.rules[j] /\ Registry[n] = got.rules[j + 1]
                      ELSE got.error # None /\ got.rules = <<>>
    BY DEF Selects
  <2> DEFINE s == settings[p]
             on == Range(s.enable)
             off == Range(s.disable)
             wanted == {r \in Rule : r \notin off /\ (r \in OptIn => r \in on)}
  <2>1. results[p][i] = SelectAnalyzers(s)
    <3>1. results[p] \in Seq({SelectAnalyzers(s)})
      BY DEF SettingsIInv, Decided
    <3> QED
      BY <3>1, ElementOfSeq, LenProperties
  <2>2. OptIn \subseteq Rule
    BY SettingsAssumption
  <2>3. CASE on \subseteq OptIn /\ off \subseteq Rule
    <3>1. SelectAnalyzers(s) = [error |-> None, rules |-> Kept(s)]
      BY <2>2, <2>3 DEF SelectAnalyzers
    <3>2. Kept(s) = Chosen(wanted)
      BY DEF Kept
    <3> HIDE DEF s, wanted
    <3>3. /\ Range(Kept(s)) = Rule \cap wanted
          /\ \A j \in 1..(Len(Kept(s)) - 1) :
               \E m, n \in DOMAIN Registry :
                 m < n /\ Registry[m] = Kept(s)[j] /\ Registry[n] = Kept(s)[j + 1]
      BY <3>2, ChosenRules
    <3>4. Rule \cap wanted = ((Rule \ OptIn) \cup on) \ off
      BY <2>2, <2>3 DEF wanted
    <3> QED
      BY <2>1, <2>3, <3>1, <3>3, <3>4 DEF s
  <2>4. CASE ~(on \subseteq OptIn /\ off \subseteq Rule)
    <3>1. \E kind \in {"enable: unknown rule", "enable: on by default", "disable: unknown rule"} :
            SelectAnalyzers(s) = Error(kind)
      BY <2>2, <2>4 DEF SelectAnalyzers
    <3>2. SelectAnalyzers(s).error # None /\ SelectAnalyzers(s).rules = <<>>
      <4>1. PICK kind \in {"enable: unknown rule", "enable: on by default", "disable: unknown rule"} :
              SelectAnalyzers(s) = Error(kind)
        BY <3>1
      <4>2. kind # None
        BY NoneAssumption
      <4>3. Error(kind).error = kind /\ Error(kind).rules = <<>>
        BY DEF Error
      <4> QED
        BY <4>1, <4>2, <4>3
    <3> QED
      BY <2>1, <2>4, <3>2
  <2> QED
    BY <2>3, <2>4
<1> QED
  BY <1>1, Inductive, PTL

-------------------------------------------------------------------------------
(***************************************************************************)
(* Gate                                                                    *)
(***************************************************************************)

(* The nearest enclosing package of a file that is no Go source is the one *)
(* that reads it; no Go file lies under a testdata directory.              *)
NearestSees ==
  \A f \in File : Kind[f] \in {"fixture", "embed", "data"} =>
    Dirs[f] # <<>> /\ Dirs[f][1] = Viewer[f]

GateIInv == GateTypeOK /\ HeadGreen

(* Two snapshots hold the same code of the package q.                      *)
SameCode(s, r, q) == \A f \in GoFiles["code"][q] : s[f] = r[f]
SameTests(s, r, q) == \A f \in GoFiles["test"][q] : s[f] = r[f]
-------------------------------------------------------------------------------
(* The Go files of a package are the files whose own directory it is.      *)
LEMMA GoFilesAre ==
  ASSUME NEW p \in Pkg \cup Hidden, NEW kind \in {"code", "test", "fixture"}
  PROVE  GoFiles[kind][p] = {f \in File : Kind[f] = kind /\ Dirs[f][1] = p}
BY DEF GoFiles

(* Packages with the same code have the same imports.                      *)
LEMMA SameImports ==
  ASSUME NEW s, NEW r, NEW q \in Pkg
  PROVE  /\ SameCode(s, r, q) => ImportsOf(s, q, "code") = ImportsOf(r, q, "code")
         /\ SameTests(s, r, q) => ImportsOf(s, q, "test") = ImportsOf(r, q, "test")
         /\ SameCode(s, r, q) => (Importable(s, q) <=> Importable(r, q))
BY DEF ImportsOf, SameCode, SameTests, Importable

(* The imports of a package are packages that go list ./... names.         *)
LEMMA ImportsArePackages ==
  ASSUME NEW s \in Snapshot, NEW q \in Pkg, NEW kind \in {"code", "test"}
  PROVE  ImportsOf(s, q, kind) \subseteq Pkg
<1> SUFFICES ASSUME NEW f \in GoFiles[kind][q] PROVE Imports[f][s[f]] \subseteq Pkg
  BY DEF ImportsOf
<1>1. f \in File
  BY GoFilesAre
<1>2. s[f] \in Version
  BY <1>1 DEF Snapshot
<1> QED
  BY <1>1, <1>2, FilesAssumption

(* Deps(s, p) holds the imports of p, and it is closed; it is the least    *)
(* such set.                                                               *)
LEMMA DepsClosed ==
  ASSUME NEW s \in Snapshot, NEW p \in Pkg
  PROVE  /\ Deps(s, p) \subseteq Pkg
         /\ ImportsOf(s, p, "code") \subseteq Deps(s, p)
         /\ Closed(s, Deps(s, p))
         /\ \A S \in SUBSET Pkg :
              ImportsOf(s, p, "code") \subseteq S /\ Closed(s, S) => Deps(s, p) \subseteq S
<1>1. ImportsOf(s, p, "code") \subseteq Pkg
  BY ImportsArePackages
<1>2. \A q \in Deps(s, p) : ImportsOf(s, q, "code") \subseteq Pkg
  BY ImportsArePackages DEF Deps
<1>3. Closed(s, Deps(s, p))
  BY <1>2 DEF Deps, Closed
<1> QED
  BY <1>1, <1>3 DEF Deps

(* Where the code of p and of its dependencies is the same in another      *)
(* snapshot, so are its dependencies.                                      *)
LEMMA SameDeps ==
  ASSUME NEW s \in Snapshot, NEW r \in Snapshot, NEW p \in Pkg,
         \A q \in {p} \cup Deps(s, p) : SameCode(s, r, q)
  PROVE  Deps(r, p) = Deps(s, p)
<1>1. /\ Deps(s, p) \subseteq Pkg /\ Deps(r, p) \subseteq Pkg
      /\ ImportsOf(s, p, "code") = ImportsOf(r, p, "code")
  BY DepsClosed, SameImports
<1>2. \A q \in Deps(s, p) : ImportsOf(s, q, "code") = ImportsOf(r, q, "code")
  BY <1>1, SameImports
<1>3. Deps(r, p) \subseteq Deps(s, p)
  <2>1. ImportsOf(r, p, "code") \subseteq Deps(s, p)
    BY <1>1, DepsClosed
  <2>2. Closed(r, Deps(s, p))
    BY <1>2, DepsClosed DEF Closed
  <2> QED
    BY <1>1, <2>1, <2>2, DepsClosed
<1>4. Deps(s, p) \subseteq Deps(r, p)
  <2>1. ImportsOf(s, p, "code") \subseteq Deps(r, p)
    BY <1>1, DepsClosed
  <2>2. Closed(s, Deps(r, p))
    BY <1>2, <1>3, DepsClosed DEF Closed
  <2> QED
    BY <1>1, <2>1, <2>2, DepsClosed
<1> QED
  BY <1>3, <1>4

(* A package none of whose code is left imports nothing.                   *)
LEMMA NoCodeNoDeps ==
  ASSUME NEW s \in Snapshot, NEW p \in Pkg, ~Importable(s, p)
  PROVE  Deps(s, p) = {}
<1>1. ImportsOf(s, p, "code") = {}
  <2> SUFFICES ASSUME NEW f \in GoFiles["code"][p] PROVE Imports[f][s[f]] = {}
    BY DEF ImportsOf
  <2>1. f \in File /\ s[f] = Gone
    BY GoFilesAre DEF Importable
  <2> QED
    BY <2>1, FilesAssumption
<1>2. Closed(s, {})
  BY DEF Closed
<1> QED
  BY <1>1, <1>2, DepsClosed
-------------------------------------------------------------------------------
(* The commit under way holds the whole worktree, and no package that the  *)
(* staged files name is gone.                                              *)
Committing ==
  /\ GateTypeOK /\ NearestSees /\ index = worktree
  /\ ~Unresolved

(* A package outside the changed ones, or gone, has the same Go files.     *)
LEMMA UnchangedFiles ==
  ASSUME Committing, NEW q \in Pkg, q \notin Changed \/ ~Listed(worktree, q)
  PROVE  SameCode(worktree, head, q) /\ SameTests(worktree, head, q)
<1> SUFFICES ASSUME NEW kind \in {"code", "test"}, NEW f \in GoFiles[kind][q],
                    worktree[f] # head[f]
             PROVE  FALSE
  BY DEF SameCode, SameTests
<1>1. f \in File /\ Kind[f] = kind /\ Dirs[f][1] = q
  BY GoFilesAre
<1>2. f \in StagedGo
  BY <1>1 DEF Committing, StagedGo, Staged
<1>3. q \in Changed
  BY <1>1, <1>2 DEF Changed
<1>4. Listed(worktree, q)
  BY <1>1, <1>2 DEF Committing, Unresolved
<1> QED
  BY <1>3, <1>4

(* A file that a package reads beside its source names that package.       *)
LEMMA ViewersChange ==
  ASSUME Committing, NEW f \in File, Kind[f] \in {"fixture", "embed", "data"},
         worktree[f] # head[f], Listed(worktree, Viewer[f])
  PROVE  Viewer[f] \in Changed
<1>1. Dirs[f] \in Seq(Pkg \cup Hidden) /\ Dirs[f] # <<>> /\ Dirs[f][1] = Viewer[f]
  BY FilesAssumption DEF Committing, NearestSees
<1>2. 1 \in DOMAIN Dirs[f] /\ DOMAIN Dirs[f] \subseteq Nat /\ 0 \notin DOMAIN Dirs[f]
  BY <1>1
<1>3. Nearest(f) = Viewer[f] /\ Viewer[f] # NoPkg
  <2> DEFINE found == {i \in DOMAIN Dirs[f] : Listed(worktree, Dirs[f][i])}
  <2>1. 1 \in found /\ \A i \in found : i \in Nat /\ 1 <= i
    BY <1>1, <1>2
  <2>2. (CHOOSE i \in found : \A j \in found : i <= j) = 1
    BY <2>1
  <2>3. Viewer[f] \in Pkg
    BY FilesAssumption
  <2> QED
    BY <1>1, <2>1, <2>2, <2>3, FilesAssumption DEF Nearest
<1>4. Kind[f] # "fixture"
  BY <1>1, FilesAssumption
<1>5. f \in Staged \ StagedGo
  BY <1>4 DEF Staged, StagedGo, Committing
<1>6. Seen(f)
  BY <1>3, <1>4 DEF Seen
<1> QED
  BY <1>3, <1>5, <1>6 DEF Changed

(* What links into the tests of a package outside the scope is unchanged,  *)
(* or gone.                                                                *)
LEMMA LinkedUnchanged ==
  ASSUME Committing, NEW p \in Pkg \ Scope, Listed(worktree, p),
         NEW q \in Linked(worktree, p)
  PROVE  q \in Pkg /\ (q \notin Changed \/ ~Listed(worktree, q))
<1> DEFINE T == ImportsOf(worktree, p, "test")
<1>1. worktree \in Snapshot
  BY DEF Committing, GateTypeOK
<1>2. T \subseteq Pkg /\ \A t \in {p} \cup T : Deps(worktree, t) \subseteq Pkg
  BY <1>1, ImportsArePackages, DepsClosed
<1>3. ({p} \cup Deps(worktree, p)) \cap Changed = {}
  BY DEF Scope, Touches
<1>4. ASSUME NEW t \in T, q \in {t} \cup Deps(worktree, t)
      PROVE  q \notin Changed \/ ~Listed(worktree, q)
  <2>1. CASE Listed(worktree, t)
    <3>1. ({t} \cup Deps(worktree, t)) \cap Changed = {}
      BY <2>1 DEF Scope, Touches
    <3> QED BY <1>4, <3>1
  <2>2. CASE ~Listed(worktree, t)
    <3>1. ~Importable(worktree, t)
      BY <2>2 DEF Listed, Importable
    <3>2. q = t
      BY <1>1, <1>2, <1>4, <3>1, NoCodeNoDeps
    <3> QED BY <2>2, <3>2
  <2> QED BY <2>1, <2>2
<1>5. q \in {p} \cup Deps(worktree, p) \/ \E t \in T : q \in {t} \cup Deps(worktree, t)
  BY DEF Linked
<1> QED
  BY <1>2, <1>3, <1>4, <1>5

(* A package outside the scope links the same packages before and after.   *)
LEMMA SameLinked ==
  ASSUME Committing, NEW p \in Pkg \ Scope, Listed(worktree, p)
  PROVE  Linked(head, p) = Linked(worktree, p)
<1>1. worktree \in Snapshot /\ head \in Snapshot
  BY DEF Committing, GateTypeOK
<1>2. \A q \in Linked(worktree, p) :
        SameCode(worktree, head, q) /\ SameTests(worktree, head, q)
  BY LinkedUnchanged, UnchangedFiles
<1>3. p \in Linked(worktree, p) /\ Deps(worktree, p) \subseteq Linked(worktree, p)
      /\ \A t \in ImportsOf(worktree, p, "test") :
           {t} \cup Deps(worktree, t) \subseteq Linked(worktree, p)
  BY DEF Linked
<1>4. ImportsOf(worktree, p, "test") = ImportsOf(head, p, "test")
  BY <1>2, <1>3, SameImports
<1>5. Deps(head, p) = Deps(worktree, p)
  BY <1>1, <1>2, <1>3, SameDeps
<1>6. ImportsOf(worktree, p, "test") \subseteq Pkg
  BY <1>1, ImportsArePackages
<1>7. \A t \in ImportsOf(worktree, p, "test") : Deps(head, t) = Deps(worktree, t)
  BY <1>1, <1>2, <1>3, <1>6, SameDeps
<1> QED
  BY <1>4, <1>5, <1>7 DEF Linked

(* The heart of the scoped gate: a package outside the scope reads the     *)
(* same files in the worktree as at head, in the same versions.            *)
LEMMA ReadsUnchanged ==
  ASSUME Committing, NEW p \in Pkg \ Scope, Listed(worktree, p)
  PROVE  /\ Reads(head, p) = Reads(worktree, p)
         /\ \A f \in Reads(worktree, p) : worktree[f] = head[f]
<1>1. Linked(head, p) = Linked(worktree, p)
  BY SameLinked
<1>2. \A q \in Linked(worktree, p) :
        /\ q \in Pkg /\ (q \notin Changed \/ ~Listed(worktree, q))
        /\ SameCode(worktree, head, q) /\ SameTests(worktree, head, q)
        /\ Importable(worktree, q) <=> Importable(head, q)
  BY LinkedUnchanged, UnchangedFiles, SameImports
<1>3. Reads(head, p) = Reads(worktree, p)
  BY <1>1, <1>2 DEF Reads
<1>4. p \in Linked(worktree, p)
  BY DEF Linked
<1>5. ASSUME NEW f \in Reads(worktree, p) PROVE worktree[f] = head[f]
  <2>1. CASE Kind[f] = "code" /\ Dirs[f][1] \in Linked(worktree, p)
    <3>1. f \in GoFiles["code"][Dirs[f][1]]
      BY <1>2, <2>1, GoFilesAre DEF Reads
    <3> QED BY <1>2, <2>1, <3>1 DEF SameCode
  <2>2. CASE Kind[f] = "test" /\ Dirs[f][1] = p
    <3>1. f \in GoFiles["test"][p]
      BY <2>2, GoFilesAre DEF Reads
    <3> QED BY <1>2, <1>4, <3>1 DEF SameTests
  <2>3. CASE Kind[f] = "embed" /\ Viewer[f] \in Linked(worktree, p)
             /\ Importable(worktree, Viewer[f])
    <3>1. Listed(worktree, Viewer[f])
      BY <2>3 DEF Listed, Importable
    <3> QED BY <1>2, <2>3, <3>1, ViewersChange DEF Reads
  <2>4. CASE Kind[f] \in {"data", "fixture"} /\ Viewer[f] = p
    BY <1>2, <1>4, <2>4, ViewersChange DEF Reads
  <2> QED
    BY <2>1, <2>2, <2>3, <2>4 DEF Reads
<1> QED
  BY <1>3, <1>5

(* A package that the scope leaves out passes as it did at head.           *)
LEMMA OutsideScope ==
  ASSUME Committing, HeadGreen, NEW p \in Pkg \ Scope
  PROVE  Passes(worktree, p)
<1> SUFFICES ASSUME Listed(worktree, p) PROVE Passes(worktree, p)
  BY DEF Passes
<1>1. Linked(head, p) = Linked(worktree, p)
  BY SameLinked
<1>2. /\ Reads(head, p) = Reads(worktree, p)
      /\ \A f \in Reads(worktree, p) : worktree[f] = head[f]
  BY ReadsUnchanged
<1>3. \A q \in Linked(worktree, p) :
        /\ SameCode(worktree, head, q) /\ SameTests(worktree, head, q)
        /\ Importable(worktree, q) <=> Importable(head, q)
  BY LinkedUnchanged, UnchangedFiles, SameImports
<1>4. p \in Linked(worktree, p)
  BY DEF Linked
<1>5. Listed(head, p)
  <2>1. PICK kind \in {"code", "test", "fixture"} :
          \E f \in GoFiles[kind][p] : worktree[f] # Gone
    BY DEF Listed
  <2>2. kind # "fixture"
    BY <2>1, GoFilesAre, FilesAssumption
  <2> QED
    BY <1>3, <1>4, <2>1, <2>2 DEF Listed, SameCode, SameTests
<1>6. Passes(head, p)
  BY DEF HeadGreen, Green
<1> QED
  BY <1>1, <1>2, <1>3, <1>5, <1>6 DEF Passes, Trapped
-------------------------------------------------------------------------------
(* A commit that the hook accepts leaves a head that make check accepts.   *)
LEMMA CommitGreen ==
  ASSUME GateIInv, Whole, NearestSees, Commit
  PROVE  HeadGreen'
<1>1. index = worktree /\ head' = worktree /\ Accepted /\ trap' = trap
  BY DEF Commit
<1>2. Green(worktree)
  <2>1. CASE Tier = "full"
    BY <1>1, <2>1 DEF Accepted
  <2>2. CASE Tier # "full"
    <3>1. Committing
      <4>1. ~Unresolved
        BY <2>2 DEF Tier, Escalates
      <4> QED
        BY <1>1, <4>1 DEF Committing, GateIInv
    <3>2. \A p \in Pkg \ Scope : Passes(worktree, p)
      BY <3>1, OutsideScope DEF GateIInv
    <3>3. \A p \in Scope : Passes(worktree, p)
      <4>1. CASE Tier = "scoped"
        BY <1>1, <4>1 DEF Accepted
      <4>2. CASE Changed = {}
        BY <4>2 DEF Scope, Touches
      <4> QED
        BY <2>2, <4>1, <4>2 DEF Tier
    <3> QED
      BY <3>2, <3>3 DEF Green
  <2> QED BY <2>1, <2>2
<1> QED
  BY <1>1, <1>2 DEF HeadGreen, Green, Passes, Trapped

(* Every step keeps the types.                                             *)
LEMMA TypeStep ==
  ASSUME GateTypeOK, [GateNext]_gateVars
  PROVE  GateTypeOK'
<1>1. edits \in Nat /\ MaxEdits \in Nat
  BY FilesAssumption DEF GateTypeOK
<1>2. CASE \E f \in File, v \in Version : Edit(f, v)
  BY <1>1, <1>2 DEF GateTypeOK, Edit, Snapshot
<1>3. CASE \E f \in File : Stage(f)
  BY <1>3 DEF GateTypeOK, Stage, Snapshot
<1>4. CASE Commit
  BY <1>4 DEF GateTypeOK, Commit, Tier
<1>5. CASE Push
  BY <1>5 DEF GateTypeOK, Push
<1>6. CASE CheckRemote
  BY <1>6 DEF GateTypeOK, CheckRemote
<1>7. CASE UNCHANGED gateVars
  BY <1>7 DEF GateTypeOK, gateVars
<1> QED
  BY <1>2, <1>3, <1>4, <1>5, <1>6, <1>7 DEF GateNext

(* Every step keeps head green.                                            *)
LEMMA GreenStep ==
  ASSUME GateIInv, Whole, NearestSees, [GateNext]_gateVars
  PROVE  HeadGreen'
<1>1. CASE Commit
  BY <1>1, CommitGreen
<1>2. CASE head' = head /\ trap' = trap
  BY <1>2 DEF GateIInv, HeadGreen, Green, Passes, Trapped
<1>3. Commit \/ (head' = head /\ trap' = trap)
  BY DEF GateNext, Edit, Stage, Push, CheckRemote, gateVars
<1> QED
  BY <1>1, <1>2, <1>3

(* The scoped gate is as strong as the full gate on what a package reads:  *)
(* for any import graph and any test, a commit of the whole worktree that  *)
(* scripts/precommit-check.sh accepts is green, provided that the nearest  *)
(* enclosing package of every embedded file and test input is its reader.  *)
THEOREM ScopedGateSound ==
  ASSUME Whole, NearestSees
  PROVE  GateSpec => []HeadGreen
<1>1. GateInit => GateIInv
  BY FilesAssumption DEF GateInit, GateIInv, GateTypeOK, HeadGreen, Snapshot
<1>2. GateIInv /\ [GateNext]_gateVars => GateIInv'
  BY TypeStep, GreenStep DEF GateIInv
<1>3. GateIInv => HeadGreen
  BY DEF GateIInv
<1> QED
  BY <1>1, <1>2, <1>3, PTL DEF GateSpec
-------------------------------------------------------------------------------
(* A package of the worktree that is the first around a file is nearest.   *)
LEMMA NearestFirst ==
  ASSUME NEW f \in File, Dirs[f] # <<>>, Listed(worktree, Dirs[f][1])
  PROVE  Nearest(f) = Dirs[f][1]
<1> DEFINE found == {i \in DOMAIN Dirs[f] : Listed(worktree, Dirs[f][i])}
<1>1. Dirs[f] \in Seq(Pkg \cup Hidden)
  BY FilesAssumption
<1>2. DOMAIN Dirs[f] = 1..Len(Dirs[f]) /\ Len(Dirs[f]) \in Nat /\ 1 \in DOMAIN Dirs[f]
  BY <1>1
<1>3. 1 \in found /\ found \subseteq Nat \ {0}
  BY <1>2
<1>4. (CHOOSE i \in found : \A j \in found : i <= j) = 1
  <2>1. \A j \in found : 1 <= j
    BY <1>3
  <2>2. \A i \in found : (\A j \in found : i <= j) => i = 1
    BY <1>3
  <2> QED
    BY <1>3, <2>1, <2>2
<1>5. found # {}
  BY <1>3
<1>6. Nearest(f) = IF found = {} THEN NoPkg ELSE Dirs[f][CHOOSE i \in found : \A j \in found : i <= j]
  BY DEF Nearest
<1> QED
  BY <1>4, <1>5, <1>6

(* A commit of the docs tier touches no Go file, so the packages of head   *)
(* still stand in the worktree, and each of them is nearest to what it     *)
(* embeds and tests with: a change of that is none of the docs tier.       *)
LEMMA DocsCommit ==
  ASSUME GateTypeOK, Whole, NearestSees, Commit, tier' = "docs",
         NEW p \in Pkg, Listed(head, p), NEW f \in Reads(head, p)
  PROVE  head'[f] = head[f]
<1>1. index = worktree /\ head' = index /\ Changed = {}
  BY DEF Commit, Tier
<1> SUFFICES ASSUME f \in Staged PROVE FALSE
  BY <1>1 DEF Staged, Reads
<1>2. StagedGo = {}
  BY <1>1 DEF Changed
<1>3. f \in File /\ Kind[f] \in {"embed", "data"}
  BY <1>2 DEF Reads, StagedGo
<1>4. Dirs[f] # <<>> /\ Dirs[f][1] = Viewer[f] /\ Viewer[f] \in Pkg
  BY <1>3, FilesAssumption DEF NearestSees
<1>5. Listed(head, Viewer[f])
  BY <1>3 DEF Reads, Importable, Listed
<1>6. Listed(worktree, Viewer[f])
  <2>1. PICK kind \in {"code", "test", "fixture"} : \E g \in GoFiles[kind][Viewer[f]] : head[g] # Gone
    BY <1>5 DEF Listed
  <2>2. PICK g \in GoFiles[kind][Viewer[f]] : head[g] # Gone
    BY <2>1
  <2>3. g \in File /\ Kind[g] = kind
    BY <1>4, GoFilesAre
  <2>4. index[g] = head[g]
    BY <1>2, <2>3 DEF StagedGo, Staged
  <2> QED
    BY <1>1, <2>2, <2>4 DEF Listed
<1>7. Nearest(f) = Viewer[f]
  BY <1>3, <1>4, <1>6, NearestFirst
<1>8. Nearest(f) # NoPkg /\ Seen(f)
  BY <1>3, <1>4, <1>7, FilesAssumption DEF Seen
<1> QED
  BY <1>1, <1>2, <1>8 DEF Changed

(* The tier that runs no test (scripts/precommit-check.sh, a staged change *)
(* without packages) is left to commits that change no file which a        *)
(* package at head reads, in any repository with the two conditions above. *)
THEOREM DocsTierSound ==
  ASSUME Whole, NearestSees
  PROVE  GateSpec => DocsReadByNone
<1> DEFINE Quiet ==
      head' # head /\ tier' = "docs" =>
        \A p \in {q \in Pkg : Listed(head, q)} : \A f \in Reads(head, p) : head'[f] = head[f]
<1>1. GateInit => GateIInv
  BY FilesAssumption DEF GateInit, GateIInv, GateTypeOK, HeadGreen, Snapshot
<1>2. GateIInv /\ [GateNext]_gateVars => GateIInv'
  BY TypeStep, GreenStep DEF GateIInv
<1>3. GateIInv /\ [GateNext]_gateVars => [Quiet]_gateVars
  <2> SUFFICES ASSUME GateIInv, [GateNext]_gateVars, head' # head, tier' = "docs" PROVE Quiet
    OBVIOUS
  <2>1. Commit
    BY DEF GateNext, Edit, Stage, Push, CheckRemote, gateVars
  <2> QED
    BY <2>1, DocsCommit DEF GateIInv
<1> QED
  BY <1>1, <1>2, <1>3, PTL DEF GateSpec, DocsReadByNone

-------------------------------------------------------------------------------
(***************************************************************************)
(* Coverage                                                                *)
(***************************************************************************)

(* Before the gate reads anything.                                         *)
Fresh ==
  phase \in {"wrapper", "start"} =>
    entries = 0 /\ regex = {} /\ lines = 0 /\ Keys = {}

(* The wrapper lets only a scope with a line through.                      *)
Stays ==
  /\ phase = "wrapper" => scoped
  /\ phase \in {"start", "excludes"} /\ scoped =>
       profile # NoProfile /\ \E i \in DOMAIN profile : PkgOf[profile[i].block] \in scope

(* The entries read have reasons, and regex is what they stand for.        *)
Excluding ==
  phase = "excludes" =>
    /\ \A i \in 1..entries : ~Refused(excludes[i])
    /\ regex = UNION {Matches[excludes[i].glob] : i \in 1..entries}
    /\ lines > 0 => entries = Len(excludes)

(* The keys are the blocks of the lines read that nothing keeps out, and   *)
(* the hits of a key are positive where one of its lines says so.          *)
Merged ==
  phase = "excludes" =>
    /\ Keys = {b \in Block : /\ PkgOf[b] \in scope /\ b \notin regex
                             /\ \E i \in 1..lines : profile[i].block = b}
    /\ \A b \in Keys :
         hits[b] > 0 <=> \E i \in 1..lines : profile[i].block = b /\ profile[i].hits > 0

BarIInv == BarTypeOK /\ Fresh /\ Stays /\ Excluding /\ Merged /\ BarOnBlocks
-------------------------------------------------------------------------------
(* The elements of a sequence have its type.                               *)
LEMMA Elements ==
  ASSUME NEW S, NEW seq \in Seq(S)
  PROVE  /\ Len(seq) \in Nat /\ DOMAIN seq = 1..Len(seq)
         /\ \A i \in DOMAIN seq : seq[i] \in S
OBVIOUS

(* The lines of a profile and of an exclude list are well formed.          *)
LEMMA LinesTyped ==
  ASSUME BarTypeOK
  PROVE  /\ profile # NoProfile =>
              /\ Len(profile) \in Nat /\ DOMAIN profile = 1..Len(profile)
              /\ \A i \in DOMAIN profile : profile[i].block \in Block /\ profile[i].hits \in Nat
         /\ Len(excludes) \in Nat /\ DOMAIN excludes = 1..Len(excludes)
         /\ \A i \in DOMAIN excludes :
              excludes[i].glob \in Glob \cup {BlankLine} /\ excludes[i].reason \in BOOLEAN
<1>1. profile # NoProfile => profile \in Seq([block : Block, hits : Nat])
  BY CoverageAssumption DEF BarTypeOK
<1>2. excludes \in Seq([glob : Glob \cup {BlankLine}, reason : BOOLEAN])
  BY CoverageAssumption DEF BarTypeOK
<1>3. profile # NoProfile =>
        /\ Len(profile) \in Nat /\ DOMAIN profile = 1..Len(profile)
        /\ \A i \in DOMAIN profile : profile[i] \in [block : Block, hits : Nat]
  BY <1>1, Elements
<1>4. /\ Len(excludes) \in Nat /\ DOMAIN excludes = 1..Len(excludes)
      /\ \A i \in DOMAIN excludes : excludes[i] \in [glob : Glob \cup {BlankLine}, reason : BOOLEAN]
  BY <1>2, Elements
<1> QED BY <1>3, <1>4

(* The gate starts with nothing read.                                      *)
LEMMA Initial == BarInit => BarIInv
<1> SUFFICES ASSUME BarInit PROVE BarIInv
  OBVIOUS
<1>1. Keys = {} /\ hits \in [Keys -> Nat]
  BY DEF BarInit, Keys
<1>2. BarTypeOK
  <2>1. excludes \in Seq([glob : Glob \cup {BlankLine}, reason : BOOLEAN])
    BY CoverageAssumption DEF BarInit
  <2>2. profile # NoProfile => profile \in Seq([block : Block, hits : Nat])
    BY CoverageAssumption DEF BarInit
  <2>3. Len(excludes) \in Nat /\ (profile # NoProfile => Len(profile) \in Nat)
    BY <2>1, <2>2
  <2>4. scope \in SUBSET MeasuredPkg /\ scoped \in BOOLEAN /\ phase \in {"wrapper", "start"}
    BY DEF BarInit
  <2> QED BY <1>1, <2>3, <2>4 DEF BarInit, BarTypeOK
<1>3. Fresh /\ Excluding /\ Merged /\ BarOnBlocks /\ Stays
  BY <1>1 DEF BarInit, Fresh, Stays, Excluding, Merged, BarOnBlocks
<1> QED BY <1>2, <1>3 DEF BarIInv

(* A stuttering step changes nothing.                                      *)
LEMMA Stutter == BarIInv /\ UNCHANGED barVars => BarIInv'
BY DEF BarIInv, BarTypeOK, Fresh, Stays, Excluding, Merged, BarOnBlocks, barVars, Keys, Measured, Ran,
       Reached, Excluded, Annotated, Refused

(* The wrapper answers for a scope without a line, or starts the gate.     *)
LEMMA WrapperKeeps == BarIInv /\ Wrapper => BarIInv'
<1> SUFFICES ASSUME BarIInv, Wrapper PROVE BarIInv'
  OBVIOUS
<1>1. UNCHANGED <<profile, excludes, bar, scope, scoped, entries, regex, lines, hits>> /\ Keys' = Keys
  BY DEF Wrapper, inputs, Keys
<1>2. phase = "wrapper" /\ verdict = "none" /\ phase' \in {"start", "done"}
      /\ (phase' = "start" => verdict' = verdict)
      /\ (phase' = "done" => verdict' \in {"pass", "fail"})
  BY DEF Wrapper, Ends, BarIInv, BarTypeOK
<1>3. BarTypeOK'
  BY <1>1, <1>2 DEF BarIInv, BarTypeOK
<1>4. Fresh' /\ Excluding' /\ Merged'
  BY <1>1, <1>2 DEF BarIInv, Fresh, Excluding, Merged
<1>5. Stays'
  BY <1>1, <1>2 DEF Wrapper, Ends, BarIInv, Stays
<1>6. BarOnBlocks'
  <2> SUFFICES ASSUME phase' = "done"
               PROVE  verdict' = "pass" <=>
                        /\ profile # NoProfile
                        /\ \/ scoped /\ \A i \in DOMAIN profile : PkgOf[profile[i].block] \notin scope
                           \/ /\ bar # Garbage /\ Annotated
                              /\ IF Statements(Measured(scope)) = 0 THEN scoped ELSE Reached(scope)
    BY <1>1 DEF BarOnBlocks, Measured, Ran, Reached, Excluded, Annotated
  <2>1. scoped
    BY <1>2 DEF BarIInv, Stays
  <2>2. CASE profile = NoProfile
    BY <2>2 DEF Wrapper, Ends
  <2>3. CASE profile # NoProfile
    BY <2>1, <2>3 DEF Wrapper, Ends
  <2> QED BY <2>2, <2>3
<1> QED BY <1>3, <1>4, <1>5, <1>6 DEF BarIInv

(* A gate without a bar or a profile fails.                                *)
LEMMA StartKeeps == BarIInv /\ Start => BarIInv'
<1> SUFFICES ASSUME BarIInv, Start PROVE BarIInv'
  OBVIOUS
<1>1. UNCHANGED <<profile, excludes, bar, scope, scoped, entries, regex, lines, hits>> /\ Keys' = Keys
  BY DEF Start, inputs, Keys
<1>2. phase = "start" /\ verdict = "none" /\ phase' \in {"excludes", "done"}
      /\ (phase' = "excludes" => verdict' = verdict /\ bar # Garbage /\ profile # NoProfile)
      /\ (phase' = "done" => verdict' = "fail" /\ (bar = Garbage \/ profile = NoProfile))
  BY DEF Start, Ends, BarIInv, BarTypeOK
<1>3. BarTypeOK'
  BY <1>1, <1>2 DEF BarIInv, BarTypeOK
<1>4. Fresh' /\ Excluding' /\ Merged'
  BY <1>1, <1>2 DEF BarIInv, Fresh, Excluding, Merged
<1>5. Stays'
  BY <1>1, <1>2 DEF BarIInv, Stays
<1>6. BarOnBlocks'
  <2>1. phase' = "done" => ~(scoped /\ profile # NoProfile /\
          \A i \in DOMAIN profile : PkgOf[profile[i].block] \notin scope)
    BY <1>2 DEF BarIInv, Stays
  <2> QED BY <1>1, <1>2, <2>1 DEF BarOnBlocks
<1> QED BY <1>3, <1>4, <1>5, <1>6 DEF BarIInv

(* An entry is added to the list, or fails the gate for want of a reason.  *)
LEMMA ReadExcludeKeeps == BarIInv /\ ReadExclude => BarIInv'
<1> SUFFICES ASSUME BarIInv, ReadExclude PROVE BarIInv'
  OBVIOUS
<1> DEFINE line == excludes[entries + 1]
<1>1. UNCHANGED <<profile, excludes, bar, scope, scoped, lines, hits>> /\ Keys' = Keys
      /\ entries' = entries + 1
  BY DEF ReadExclude, inputs, Keys
<1>2. phase = "excludes" /\ verdict = "none" /\ profile # NoProfile /\ bar # Garbage
  BY DEF ReadExclude, BarIInv, BarTypeOK
<1>3. entries \in Nat /\ entries < Len(excludes) /\ Len(excludes) \in Nat
      /\ entries + 1 \in DOMAIN excludes /\ line.glob \in Glob \cup {BlankLine}
  <2>1. entries \in Nat /\ entries < Len(excludes) /\ Len(excludes) \in Nat
        /\ DOMAIN excludes = 1..Len(excludes)
    BY LinesTyped DEF ReadExclude, BarIInv, BarTypeOK
  <2>2. entries + 1 \in DOMAIN excludes
    BY <2>1
  <2> QED BY <2>1, <2>2, LinesTyped DEF BarIInv
<1>4. Matches[line.glob] \subseteq Block
  BY <1>3, CoverageAssumption
<1>5. lines = 0 /\ Keys = {}
  <2>1. lines = 0
    BY <1>2, <1>3 DEF BarIInv, BarTypeOK, Excluding
  <2> QED BY <2>1, <1>2 DEF BarIInv, Merged
<1>6. CASE Refused(line)
  <2>1. phase' = "done" /\ verdict' = "fail" /\ regex' = regex
    BY <1>6 DEF ReadExclude, Ends
  <2>2. BarTypeOK'
    <3>1. entries' \in 0..Len(excludes')
      BY <1>1, <1>3
    <3> QED BY <1>1, <2>1, <3>1 DEF BarIInv, BarTypeOK
  <2>3. Fresh' /\ Stays' /\ Excluding' /\ Merged'
    BY <2>1 DEF Fresh, Stays, Excluding, Merged
  <2>4. ~Annotated
    BY <1>3, <1>6 DEF Annotated, Refused
  <2>5. ~(scoped /\ \A i \in DOMAIN profile : PkgOf[profile[i].block] \notin scope)
    BY <1>2 DEF BarIInv, Stays
  <2>6. BarOnBlocks'
    BY <1>1, <2>1, <2>4, <2>5 DEF BarOnBlocks, Annotated
  <2> QED BY <2>2, <2>3, <2>6 DEF BarIInv
<1>7. CASE ~Refused(line)
  <2>1. phase' = "excludes" /\ verdict' = "none" /\ regex' = regex \cup Matches[line.glob]
    BY <1>2, <1>7 DEF ReadExclude
  <2>2. BarTypeOK'
    <3>1. entries' \in 0..Len(excludes') /\ regex' \subseteq Block
      BY <1>1, <1>3, <1>4, <2>1 DEF BarIInv, BarTypeOK
    <3> QED BY <1>1, <1>2, <2>1, <3>1 DEF BarIInv, BarTypeOK
  <2>3. Fresh' /\ Stays' /\ BarOnBlocks'
    BY <1>1, <1>2, <2>1 DEF BarIInv, Fresh, Stays, BarOnBlocks
  <2>4. Excluding'
    <3>1. 1..(entries + 1) = (1..entries) \cup {entries + 1}
      BY <1>3
    <3>2. \A i \in 1..(entries + 1) : ~Refused(excludes[i])
      BY <1>2, <1>7, <3>1 DEF BarIInv, Excluding
    <3>3. regex \cup Matches[line.glob] = UNION {Matches[excludes[i].glob] : i \in 1..(entries + 1)}
      BY <1>2, <3>1, Zenon DEF BarIInv, Excluding
    <3> QED BY <1>1, <1>5, <2>1, <3>2, <3>3 DEF Excluding, Refused
  <2>5. Merged'
    BY <1>1, <1>5, <2>1 DEF Merged
  <2> QED BY <2>2, <2>3, <2>4, <2>5 DEF BarIInv
<1> QED BY <1>6, <1>7

(* A line is merged into its key, or dropped.                              *)
LEMMA ReadLineKeeps == BarIInv /\ ReadLine => BarIInv'
<1> SUFFICES ASSUME BarIInv, ReadLine PROVE BarIInv'
  OBVIOUS
<1> DEFINE line == profile[lines + 1]
<1>1. UNCHANGED <<profile, excludes, bar, scope, scoped, phase, entries, regex, verdict>>
      /\ lines' = lines + 1 /\ phase = "excludes" /\ entries = Len(excludes)
  BY DEF ReadLine, inputs
<1>2. profile # NoProfile /\ lines \in Nat /\ lines < Len(profile) /\ Len(profile) \in Nat
      /\ DOMAIN profile = 1..Len(profile)
  BY <1>1, LinesTyped DEF BarIInv, BarTypeOK, ReadLine
<1>3. line.block \in Block /\ line.hits \in Nat
  <2>1. lines + 1 \in DOMAIN profile
    BY <1>2
  <2> QED BY <1>2, <2>1, LinesTyped DEF BarIInv
<1>4. 1..(lines + 1) = (1..lines) \cup {lines + 1}
  BY <1>2
<1>5. hits \in [Keys -> Nat]
  BY DEF BarIInv, BarTypeOK
<1>6. Keys' = IF KeptLine(line) THEN Keys \cup {line.block} ELSE Keys
  BY DEF ReadLine, Merge, Keys
<1>7. \A b \in Keys' : hits'[b] = IF KeptLine(line) /\ b = line.block THEN Higher(b, line.hits) ELSE hits[b]
  BY <1>6 DEF ReadLine, Merge, Keys
<1>8. Higher(line.block, line.hits) \in Nat
      /\ (Higher(line.block, line.hits) > 0 <=>
            line.hits > 0 \/ (line.block \in Keys /\ hits[line.block] > 0))
  BY <1>3, <1>5 DEF Higher
<1>9. BarTypeOK'
  <2>1. Keys' \subseteq {b \in Block : PkgOf[b] \in scope}
    BY <1>3, <1>6 DEF BarIInv, BarTypeOK, KeptLine
  <2>2. hits' \in [Keys' -> Nat]
    <3>1. hits' = [b \in Keys' |-> hits'[b]]
      BY <1>5, <1>6 DEF ReadLine, Merge, Keys
    <3>2. \A b \in Keys' : hits'[b] \in Nat
      BY <1>5, <1>6, <1>7, <1>8
    <3> QED BY <3>1, <3>2
  <2>3. lines' \in Nat /\ lines' <= Len(profile')
    BY <1>1, <1>2
  <2> QED BY <1>1, <2>1, <2>2, <2>3 DEF BarIInv, BarTypeOK
<1>10. Fresh' /\ Stays' /\ BarOnBlocks'
  BY <1>1 DEF BarIInv, Fresh, Stays, BarOnBlocks
<1>11. Excluding'
  BY <1>1 DEF BarIInv, Excluding, Refused
<1>12. Merged'
  <2>1. Keys' = {b \in Block : /\ PkgOf[b] \in scope /\ b \notin regex
                               /\ \E i \in 1..(lines + 1) : profile[i].block = b}
    BY <1>1, <1>3, <1>4, <1>6 DEF BarIInv, Merged, KeptLine
  <2>2. ASSUME NEW b \in Keys'
        PROVE  hits'[b] > 0 <=>
                 \E i \in 1..(lines + 1) : profile[i].block = b /\ profile[i].hits > 0
    <3>1. CASE b = line.block
      <4>1. KeptLine(line)
        BY <2>1, <3>1 DEF KeptLine
      <4>2. hits'[b] > 0 <=> line.hits > 0 \/ (b \in Keys /\ hits[b] > 0)
        BY <1>7, <1>8, <3>1, <4>1
      <4>3. b \in Keys => (hits[b] > 0 <=> \E i \in 1..lines : profile[i].block = b /\ profile[i].hits > 0)
        BY <1>1 DEF BarIInv, Merged
      <4>4. b \notin Keys => ~\E i \in 1..lines : profile[i].block = b
        BY <1>1, <1>3, <3>1, <4>1 DEF BarIInv, Merged, KeptLine
      <4> QED BY <1>4, <3>1, <4>2, <4>3, <4>4
    <3>2. CASE b # line.block
      <4>1. b \in Keys /\ hits'[b] = hits[b]
        BY <1>6, <1>7, <3>2
      <4>2. hits[b] > 0 <=> \E i \in 1..lines : profile[i].block = b /\ profile[i].hits > 0
        BY <1>1, <4>1 DEF BarIInv, Merged
      <4> QED BY <1>4, <3>2, <4>1, <4>2
    <3> QED BY <3>1, <3>2
  <2> QED BY <1>1, <2>1, <2>2 DEF Merged
<1> QED BY <1>9, <1>10, <1>11, <1>12 DEF BarIInv

(* The verdict is read off the keys, which are the measured blocks.        *)
LEMMA DecideKeeps == BarIInv /\ Decide => BarIInv'
<1> SUFFICES ASSUME BarIInv, Decide PROVE BarIInv'
  OBVIOUS
<1>1. UNCHANGED <<profile, excludes, bar, scope, scoped, entries, regex, lines, hits>> /\ Keys' = Keys
      /\ phase = "excludes" /\ entries = Len(excludes) /\ lines = Len(profile)
      /\ phase' = "done" /\ verdict' = Outcome
  BY DEF Decide, inputs, Keys, Ends
<1>2. profile # NoProfile /\ bar # Garbage /\ DOMAIN profile = 1..lines /\ DOMAIN excludes = 1..entries
  BY <1>1, LinesTyped DEF BarIInv, BarTypeOK
<1>3. Excluded = regex /\ Annotated
  BY <1>1, <1>2 DEF BarIInv, Excluding, Excluded, Annotated, Refused
<1>4. Keys = Measured(scope) /\ {b \in Keys : hits[b] > 0} = Ran(scope)
  <2>1. Keys = Measured(scope)
    BY <1>1, <1>2, <1>3 DEF BarIInv, Merged, Measured
  <2> QED BY <1>1, <1>2, <2>1 DEF BarIInv, Merged, Ran
<1>5. Outcome \in {"pass", "fail"}
      /\ (Outcome = "pass" <=>
            IF Statements(Measured(scope)) = 0 THEN scoped ELSE Reached(scope))
  BY <1>4 DEF Outcome, Below, Reached, BarIInv, BarTypeOK
<1>6. ~(scoped /\ \A i \in DOMAIN profile : PkgOf[profile[i].block] \notin scope)
  BY <1>1 DEF BarIInv, Stays
<1>7. BarTypeOK'
  BY <1>1, <1>5 DEF BarIInv, BarTypeOK
<1>8. Fresh' /\ Stays' /\ Excluding' /\ Merged'
  BY <1>1 DEF Fresh, Stays, Excluding, Merged
<1>9. BarOnBlocks'
  BY <1>1, <1>2, <1>3, <1>5, <1>6 DEF BarOnBlocks, Annotated, Measured, Ran, Reached, Excluded
<1> QED BY <1>7, <1>8, <1>9 DEF BarIInv
-------------------------------------------------------------------------------
(* The invariant of the gate scripts, for every profile and exclude list.  *)
THEOREM Invariant == BarSpec => []BarIInv
<1>1. BarIInv /\ [BarNext]_barVars => BarIInv'
  BY Stutter, WrapperKeeps, StartKeeps, ReadExcludeKeeps, ReadLineKeeps, DecideKeeps DEF BarNext
<1> QED BY Initial, <1>1, PTL DEF BarSpec

(* The keys of the merge are blocks of the scope, read from the profile.   *)
THEOREM TypeCorrect == BarSpec => []BarTypeOK
<1>1. BarIInv => BarTypeOK
  BY DEF BarIInv
<1> QED BY Invariant, <1>1, PTL

(* The verdict of coverage-gate.sh and of its scoped wrapper is that of    *)
(* the set of measured blocks, whatever the order and the number of the    *)
(* lines of a block, and nothing passes the full gate for want of data.    *)
THEOREM BarCorrect == BarSpec => []BarOnBlocks
<1>1. BarIInv => BarOnBlocks
  BY DEF BarIInv
<1> QED BY Invariant, <1>1, PTL
-------------------------------------------------------------------------------
(* Sums of statements.                                                     *)

(* A set of finite sets has a smallest one: induction over finite sets.    *)
LEMMA SmallestSet ==
  ASSUME NEW Z, Z # {}, \A S \in Z : IsFiniteSet(S)
  PROVE  \E S \in Z : \A T \in Z : Cardinality(S) <= Cardinality(T)
<1> DEFINE R == OpToRel(<, Nat)
           sizes == {Cardinality(S) : S \in Z}
<1>1. IsWellFoundedOn(R, Nat)
  BY NatLessThanWellFounded
<1>2. sizes \subseteq Nat /\ sizes # {}
  BY FS_CardinalityType
<1> HIDE DEF R
<1>3. PICK m \in sizes : \A n \in sizes : <<n, m>> \notin R
  <2> HIDE DEF sizes
  <2> QED BY <1>1, <1>2, WFMin
<1>4. \A n \in sizes : m <= n
  <2> HIDE DEF sizes
  <2>1. \A n \in sizes : ~(n < m)
    BY <1>2, <1>3 DEF R, OpToRel
  <2> QED BY <1>2, <2>1
<1> QED BY <1>4

(* The block that the sum over a set takes first.                          *)
Pick(S) == CHOOSE b \in S : TRUE

(* g adds up the sets of a family.                                         *)
Adds(g, family) ==
  g = [S \in family |-> IF S = {} THEN 0 ELSE Stmts[Pick(S)] + g[S \ {Pick(S)}]]

(* A family of finite sets that holds what is left of each of its sets.    *)
Descends(family) ==
  \A S \in family : IsFiniteSet(S) /\ \A b \in S : S \ {b} \in family

LEMMA Picked ==
  ASSUME NEW S, S # {}, IsFiniteSet(S)
  PROVE  /\ Pick(S) \in S /\ IsFiniteSet(S \ {Pick(S)})
         /\ Cardinality(S) \in Nat /\ Cardinality(S \ {Pick(S)}) = Cardinality(S) - 1
<1>1. Pick(S) \in S
  BY DEF Pick
<1> QED BY <1>1, FS_RemoveElement, FS_CardinalityType

LEMMA SmallerSet ==
  ASSUME NEW S, IsFiniteSet(S), NEW b \in S
  PROVE  IsFiniteSet(S \ {b}) /\ Cardinality(S \ {b}) < Cardinality(S)
<1>1. IsFiniteSet(S \ {b}) /\ Cardinality(S \ {b}) = Cardinality(S) - 1
  BY FS_RemoveElement
<1>2. Cardinality(S) \in Nat
  BY FS_CardinalityType
<1> QED BY <1>1, <1>2

(* There is a function that adds up the subsets of at most n blocks: one   *)
(* for n blocks gives one for n + 1.                                       *)
LEMMA AddsExists ==
  ASSUME NEW S, IsFiniteSet(S)
  PROVE  \E g : Adds(g, SUBSET S)
<1> DEFINE Upto(n) == {T \in SUBSET S : Cardinality(T) <= n}
           Without == {n \in Nat : ~\E g : Adds(g, Upto(n))}
<1>1. \A T \in SUBSET S : IsFiniteSet(T) /\ Cardinality(T) \in Nat /\ Cardinality(T) <= Cardinality(S)
  BY FS_Subset, FS_CardinalityType
<1>2. Without = {}
  <2> SUFFICES ASSUME Without # {} PROVE FALSE
    OBVIOUS
  <2>1. PICK m \in Without : \A n \in Without : m <= n
    <3> DEFINE R == OpToRel(<, Nat)
    <3>1. IsWellFoundedOn(R, Nat)
      BY NatLessThanWellFounded
    <3>2. Without \subseteq Nat
      OBVIOUS
    <3> HIDE DEF R, Without
    <3>3. PICK m \in Without : \A n \in Without : <<n, m>> \notin R
      BY <3>1, <3>2, WFMin
    <3>4. \A n \in Without : ~(n < m)
      BY <3>2, <3>3 DEF R, OpToRel
    <3> QED BY <3>2, <3>3, <3>4
  <2>2. m # 0
    <3> SUFFICES ASSUME m = 0 PROVE FALSE
      OBVIOUS
    <3>1. \A T \in Upto(0) : T = {}
      BY <1>1, FS_EmptySet
    <3>2. Adds([T \in Upto(0) |-> 0], Upto(0))
      <4> HIDE DEF Upto
      <4> QED BY <3>1 DEF Adds
    <3> QED BY <2>1, <3>2
  <2>3. m \in Nat /\ m - 1 \in Nat
    BY <2>1, <2>2
  <2>4. m - 1 \notin Without
    <3> HIDE DEF Without
    <3> QED BY <2>1, <2>3
  <2>5. PICK g : Adds(g, Upto(m - 1))
    BY <2>3, <2>4
  <2> DEFINE h == [T \in Upto(m) |-> IF T = {} THEN 0 ELSE Stmts[Pick(T)] + g[T \ {Pick(T)}]]
  <2>6. \A T \in Upto(m - 1) : T \in Upto(m) /\ h[T] = g[T]
    <3> SUFFICES ASSUME NEW T \in Upto(m - 1) PROVE T \in Upto(m) /\ h[T] = g[T]
      OBVIOUS
    <3>1. T \in Upto(m)
      BY <1>1, <2>3
    <3>2. g[T] = IF T = {} THEN 0 ELSE Stmts[Pick(T)] + g[T \ {Pick(T)}]
      <4> HIDE DEF Upto
      <4> QED BY <2>5 DEF Adds
    <3> HIDE DEF Upto
    <3> QED BY <3>1, <3>2
  <2>7. \A T \in Upto(m) : T # {} => T \ {Pick(T)} \in Upto(m - 1)
    BY <1>1, <2>3, Picked
  <2>8. \A T \in Upto(m) : T # {} => h[T \ {Pick(T)}] = g[T \ {Pick(T)}]
    BY <2>6, <2>7
  <2>9. Adds(h, Upto(m))
    <3> DEFINE k == [T \in Upto(m) |-> IF T = {} THEN 0 ELSE Stmts[Pick(T)] + h[T \ {Pick(T)}]]
    <3>1. \A T \in Upto(m) : k[T] = IF T = {} THEN 0 ELSE Stmts[Pick(T)] + h[T \ {Pick(T)}]
      OBVIOUS
    <3>2. \A T \in Upto(m) : h[T] = IF T = {} THEN 0 ELSE Stmts[Pick(T)] + g[T \ {Pick(T)}]
      OBVIOUS
    <3>3. h = [T \in Upto(m) |-> h[T]] /\ k = [T \in Upto(m) |-> k[T]]
      OBVIOUS
    <3>4. Adds(h, Upto(m)) <=> h = k
      BY DEF Adds
    <3> HIDE DEF h, k, Upto
    <3>5. \A T \in Upto(m) : h[T] = k[T]
      BY <2>8, <3>1, <3>2
    <3> QED BY <3>3, <3>4, <3>5
  <2> QED BY <2>1, <2>9
<1>3. Cardinality(S) \in Nat /\ Upto(Cardinality(S)) = SUBSET S
  BY <1>1, FS_CardinalityType
<1> QED BY <1>2, <1>3

(* Two such functions agree where both are defined.                        *)
LEMMA AddsAgree ==
  ASSUME NEW f, NEW F, NEW g, NEW G, Adds(f, F), Adds(g, G), Descends(F), Descends(G),
         NEW S \in F \cap G
  PROVE  f[S] = g[S]
<1> DEFINE Differ == {T \in F \cap G : f[T] # g[T]}
<1> SUFFICES ASSUME Differ # {} PROVE FALSE
  OBVIOUS
<1>1. \A T \in Differ : IsFiniteSet(T)
  BY DEF Descends
<1>2. PICK T \in Differ : \A U \in Differ : Cardinality(T) <= Cardinality(U)
  <2> HIDE DEF Differ
  <2> QED BY <1>1, SmallestSet
<1>3. /\ f[T] = IF T = {} THEN 0 ELSE Stmts[Pick(T)] + f[T \ {Pick(T)}]
      /\ g[T] = IF T = {} THEN 0 ELSE Stmts[Pick(T)] + g[T \ {Pick(T)}]
  <2>1. T \in F /\ T \in G
    BY <1>2
  <2> HIDE DEF Differ
  <2> QED BY <2>1 DEF Adds
<1>4. T # {}
  BY <1>2, <1>3
<1>5. T \ {Pick(T)} \in F \cap G
  BY <1>1, <1>2, <1>4, Picked DEF Descends
<1>6. T \ {Pick(T)} \notin Differ
  <2>1. Cardinality(T \ {Pick(T)}) = Cardinality(T) - 1 /\ Cardinality(T) \in Nat
    BY <1>1, <1>4, Picked
  <2> HIDE DEF Differ
  <2> QED BY <1>2, <2>1
<1> QED BY <1>2, <1>3, <1>5, <1>6

LEMMA SubsetsDescend ==
  ASSUME NEW S, IsFiniteSet(S)
  PROVE  Descends(SUBSET S)
  BY FS_Subset DEF Descends

LEMMA StatementsAdds ==
  ASSUME NEW S, IsFiniteSet(S)
  PROVE  \E g : Adds(g, SUBSET S) /\ Statements(S) = g[S]
<1> DEFINE G == CHOOSE g : Adds(g, SUBSET S)
<1>1. Statements(S) = G[S]
  BY DEF Statements, MapThenSumSet, MapThenFoldSet, Pick, Adds
<1>2. Adds(G, SUBSET S)
  BY AddsExists
<1> QED BY <1>1, <1>2

LEMMA StatementsStep ==
  ASSUME NEW S, IsFiniteSet(S)
  PROVE  Statements(S) = IF S = {} THEN 0 ELSE Stmts[Pick(S)] + Statements(S \ {Pick(S)})
<1>1. PICK g : Adds(g, SUBSET S) /\ Statements(S) = g[S]
  BY StatementsAdds
<1>2. g[S] = IF S = {} THEN 0 ELSE Stmts[Pick(S)] + g[S \ {Pick(S)}]
  BY <1>1 DEF Adds
<1>3. ASSUME S # {} PROVE g[S \ {Pick(S)}] = Statements(S \ {Pick(S)})
  <2> DEFINE T == S \ {Pick(S)}
  <2>1. IsFiniteSet(T)
    BY <1>3, Picked
  <2> HIDE DEF T
  <2>2. PICK h : Adds(h, SUBSET T) /\ Statements(T) = h[T]
    BY <2>1, StatementsAdds
  <2>3. T \in SUBSET S
    BY DEF T
  <2>4. T \in (SUBSET S) \cap (SUBSET T) /\ Descends(SUBSET S) /\ Descends(SUBSET T)
    BY <2>1, <2>3, SubsetsDescend
  <2>5. g[T] = h[T]
    BY <1>1, <2>2, <2>4, AddsAgree
  <2> QED BY <2>2, <2>5 DEF T
<1> QED BY <1>1, <1>2, <1>3

(* A sum may take any block first.                                         *)
LEMMA StatementsTake ==
  ASSUME NEW S, IsFiniteSet(S), S \subseteq Block
  PROVE  /\ Statements(S) \in Nat
         /\ \A b \in S : Statements(S) = Stmts[b] + Statements(S \ {b})
<1> DEFINE Takes(T) == /\ Statements(T) \in Nat
                       /\ \A b \in T : Statements(T) = Stmts[b] + Statements(T \ {b})
           Not == {T \in SUBSET S : ~Takes(T)}
<1> SUFFICES ASSUME Not # {} PROVE FALSE
  OBVIOUS
<1>1. \A T \in SUBSET S : IsFiniteSet(T)
  BY FS_Subset
<1>2. PICK T \in Not : \A U \in Not : Cardinality(T) <= Cardinality(U)
  <2>1. Not \subseteq SUBSET S
    OBVIOUS
  <2> HIDE DEF Not
  <2> QED BY <1>1, <2>1, SmallestSet
<1>3. T \in SUBSET S /\ ~Takes(T) /\ IsFiniteSet(T)
  BY <1>1, <1>2
<1>4. \A b \in T : Takes(T \ {b})
  <2> SUFFICES ASSUME NEW b \in T PROVE Takes(T \ {b})
    OBVIOUS
  <2>1. T \ {b} \in SUBSET S /\ IsFiniteSet(T \ {b}) /\ Cardinality(T \ {b}) < Cardinality(T)
        /\ Cardinality(T \ {b}) \in Nat /\ Cardinality(T) \in Nat
    BY <1>3, SmallerSet, FS_CardinalityType
  <2>2. T \ {b} \notin Not
    <3> HIDE DEF Not
    <3> QED BY <1>2, <2>1
  <2> QED BY <2>1, <2>2
<1>5. Statements(T) = IF T = {} THEN 0 ELSE Stmts[Pick(T)] + Statements(T \ {Pick(T)})
  BY <1>3, StatementsStep
<1>6. \A b \in T : Stmts[b] \in Nat
  BY <1>3, CoverageAssumption
<1>7. T # {} => Pick(T) \in T
  BY DEF Pick
<1>8. Statements(T) \in Nat
  BY <1>4, <1>5, <1>6, <1>7
<1>9. ASSUME NEW b \in T PROVE Statements(T) = Stmts[b] + Statements(T \ {b})
  <2> DEFINE p == Pick(T)
  <2>1. p \in T /\ Statements(T) = Stmts[p] + Statements(T \ {p})
    BY <1>5, <1>7
  <2> HIDE DEF p
  <2>2. CASE b = p
    BY <2>1, <2>2
  <2>3. CASE b # p
    <3>1. (T \ {p}) \ {b} = (T \ {b}) \ {p}
      OBVIOUS
    <3>2. Statements(T \ {p}) = Stmts[b] + Statements((T \ {p}) \ {b})
      BY <1>4, <2>1, <2>3
    <3>3. Statements(T \ {b}) = Stmts[p] + Statements((T \ {b}) \ {p})
      BY <1>4, <2>1, <2>3
    <3>4. Statements((T \ {p}) \ {b}) \in Nat
      <4>1. Statements(T \ {p}) \in Nat /\ b \in T \ {p}
        BY <1>4, <2>1, <2>3
      <4>2. (T \ {p}) \ {b} \in SUBSET S /\ IsFiniteSet((T \ {p}) \ {b})
            /\ Cardinality((T \ {p}) \ {b}) < Cardinality(T)
            /\ Cardinality((T \ {p}) \ {b}) \in Nat /\ Cardinality(T) \in Nat
        <5>1. IsFiniteSet(T \ {p}) /\ Cardinality(T \ {p}) < Cardinality(T)
          BY <1>3, <2>1, SmallerSet
        <5>2. IsFiniteSet((T \ {p}) \ {b}) /\ Cardinality((T \ {p}) \ {b}) < Cardinality(T \ {p})
          BY <4>1, <5>1, SmallerSet
        <5>3. /\ Cardinality((T \ {p}) \ {b}) \in Nat /\ Cardinality(T \ {p}) \in Nat
              /\ Cardinality(T) \in Nat
          BY <1>3, <5>1, <5>2, FS_CardinalityType
        <5> QED BY <1>3, <5>1, <5>2, <5>3
      <4>3. (T \ {p}) \ {b} \notin Not
        <5> HIDE DEF Not
        <5> QED BY <1>2, <4>2
      <4> QED BY <4>2, <4>3
    <3>5. Statements(T \ {b}) = Stmts[p] + Statements((T \ {p}) \ {b})
      BY <3>1, <3>3
    <3>6. Stmts[p] \in Nat /\ Stmts[b] \in Nat
      BY <1>6, <2>1
    <3> HIDE DEF Takes, Not
    <3> QED BY <2>1, <3>2, <3>4, <3>5, <3>6
  <2> QED BY <2>2, <2>3
<1> QED BY <1>3, <1>8, <1>9

(* The sums over two parts of a set make up the sum over the whole.        *)
LEMMA StatementsSplit ==
  ASSUME NEW A, NEW B, IsFiniteSet(A), IsFiniteSet(B), A \subseteq Block, B \subseteq Block,
         A \cap B = {}
  PROVE  Statements(A \cup B) = Statements(A) + Statements(B)
<1> DEFINE Not == {T \in SUBSET A : Statements(T \cup B) # Statements(T) + Statements(B)}
<1> SUFFICES ASSUME Not # {} PROVE FALSE
  OBVIOUS
<1>1. \A T \in SUBSET A : IsFiniteSet(T)
  BY FS_Subset
<1>2. PICK T \in Not : \A U \in Not : Cardinality(T) <= Cardinality(U)
  <2>1. Not \subseteq SUBSET A
    OBVIOUS
  <2> HIDE DEF Not
  <2> QED BY <1>1, <2>1, SmallestSet
<1>3. T \in SUBSET A /\ IsFiniteSet(T) /\ T \subseteq Block
  BY <1>1, <1>2
<1>4. Statements(B) \in Nat /\ Statements(T) \in Nat
  BY <1>3, StatementsTake
<1>5. T # {}
  <2> SUFFICES ASSUME T = {} PROVE FALSE
    OBVIOUS
  <2>1. Statements(T) = 0 /\ T \cup B = B
    BY <1>3, StatementsStep
  <2> QED BY <1>2, <1>4, <2>1
<1>6. PICK b \in T : TRUE
  BY <1>5
<1> DEFINE U == T \ {b}
<1>7. U \in SUBSET A /\ IsFiniteSet(U) /\ Cardinality(U) < Cardinality(T)
      /\ Cardinality(U) \in Nat /\ Cardinality(T) \in Nat /\ U \subseteq Block
  BY <1>3, SmallerSet, FS_CardinalityType
<1>8. U \notin Not
  <2> HIDE DEF Not, U
  <2> QED BY <1>2, <1>7
<1>9. Statements(U \cup B) = Statements(U) + Statements(B)
  BY <1>7, <1>8
<1>10. Statements(T) = Stmts[b] + Statements(U)
  BY <1>3, <1>6, StatementsTake
<1>11. Statements(T \cup B) = Stmts[b] + Statements(U \cup B)
  <2>1. IsFiniteSet(T \cup B) /\ T \cup B \subseteq Block /\ b \in T \cup B
    BY <1>3, <1>6, FS_Union
  <2>2. (T \cup B) \ {b} = U \cup B
    BY <1>3, <1>6
  <2> QED BY <2>1, <2>2, StatementsTake
<1>12. Statements(U) \in Nat /\ Stmts[b] \in Nat
  BY <1>3, <1>6, <1>7, StatementsTake, CoverageAssumption
<1> QED BY <1>2, <1>4, <1>9, <1>10, <1>11, <1>12
-------------------------------------------------------------------------------
(* The full gate measures every package.                                   *)
WholeBar == ~scoped => scope = MeasuredPkg

LEMMA MeasuredSplit ==
  ASSUME BarTypeOK, profile # NoProfile, NEW S \in SUBSET MeasuredPkg
  PROVE  /\ Statements(Measured(MeasuredPkg)) = Statements(Measured(S)) + Statements(Measured(MeasuredPkg \ S))
         /\ Statements(Ran(MeasuredPkg)) = Statements(Ran(S)) + Statements(Ran(MeasuredPkg \ S))
         /\ \A T \in {S, MeasuredPkg \ S} : Statements(Measured(T)) \in Nat /\ Statements(Ran(T)) \in Nat
<1>1. IsFiniteSet({profile[i].block : i \in DOMAIN profile})
  <2> DEFINE named == {profile[i].block : i \in DOMAIN profile}
             block == [i \in DOMAIN profile |-> profile[i].block]
  <2>1. IsFiniteSet(DOMAIN profile)
    BY LinesTyped, FS_Interval
  <2>2. block \in Surjection(DOMAIN profile, named)
    BY DEF Surjection
  <2> HIDE DEF named, block
  <2>3. IsFiniteSet(named)
    BY <2>1, <2>2, FS_Surjection
  <2> QED BY <2>3 DEF named
<1>2. \A T : /\ Measured(T) \subseteq Block /\ Ran(T) \subseteq Block
             /\ Measured(T) \in SUBSET {profile[i].block : i \in DOMAIN profile}
             /\ Ran(T) \in SUBSET {profile[i].block : i \in DOMAIN profile}
  BY DEF Measured, Ran
<1>3. \A T : IsFiniteSet(Measured(T)) /\ IsFiniteSet(Ran(T))
  BY <1>1, <1>2, FS_Subset
<1>4. /\ Measured(MeasuredPkg) = Measured(S) \cup Measured(MeasuredPkg \ S)
      /\ Measured(S) \cap Measured(MeasuredPkg \ S) = {}
  BY DEF Measured
<1>5. /\ Ran(MeasuredPkg) = Ran(S) \cup Ran(MeasuredPkg \ S)
      /\ Ran(S) \cap Ran(MeasuredPkg \ S) = {}
  BY <1>4 DEF Ran
<1> QED BY <1>2, <1>3, <1>4, <1>5, StatementsSplit, StatementsTake

(* Two parts that reach the bar make up a whole that reaches it: a failure *)
(* of the full gate shows in the scope or outside it, for any scope, any   *)
(* profile, any exclude list and any bar.                                  *)
THEOREM FailureInAPart == BarSpec => []PartsDecide
<1>1. BarInit => WholeBar
  BY DEF BarInit, WholeBar
<1>2. WholeBar /\ [BarNext]_barVars => WholeBar'
  BY DEF WholeBar, BarNext, barVars, inputs, Wrapper, Start, ReadExclude, ReadLine, Decide
<1>3. BarIInv /\ WholeBar => PartsDecide
  <2> SUFFICES ASSUME BarIInv, WholeBar, phase = "done", ~scoped, verdict = "fail", profile # NoProfile,
                      bar # Garbage, Annotated, Statements(Measured(MeasuredPkg)) > 0,
                      NEW S \in SUBSET MeasuredPkg, Reached(S), Reached(MeasuredPkg \ S)
               PROVE  FALSE
    BY DEF PartsDecide
  <2>1. ~Reached(MeasuredPkg)
    <3>1. scope = MeasuredPkg
      BY DEF WholeBar
    <3>2. Statements(Measured(MeasuredPkg)) # 0
      <4> DEFINE n == Statements(Measured(MeasuredPkg))
      <4>1. n > 0
        OBVIOUS
      <4> HIDE DEF n
      <4>2. n # 0
        BY <4>1
      <4> QED BY <4>2 DEF n
    <3> QED BY <3>1, <3>2 DEF BarIInv, BarOnBlocks
  <2> DEFINE m == Statements(Measured(S))
             n == Statements(Measured(MeasuredPkg \ S))
             r == Statements(Ran(S))
             s == Statements(Ran(MeasuredPkg \ S))
  <2>2. /\ m \in Nat /\ n \in Nat /\ r \in Nat /\ s \in Nat
        /\ Statements(Measured(MeasuredPkg)) = m + n /\ Statements(Ran(MeasuredPkg)) = r + s
    BY MeasuredSplit DEF BarIInv
  <2>3. bar \in Nat
    BY CoverageAssumption DEF BarIInv, BarTypeOK
  <2>4. ~(r * 100 < bar * m) /\ ~(s * 100 < bar * n)
    BY DEF Reached
  <2> HIDE DEF m, n, r, s
  <2>5. bar * (m + n) = bar * m + bar * n /\ bar * m \in Int /\ bar * n \in Int
    BY <2>2, <2>3
  <2>6. ~((r + s) * 100 < bar * (m + n))
    BY <2>2, <2>4, <2>5
  <2> QED BY <2>1, <2>2, <2>6 DEF Reached
<1> QED BY Invariant, <1>1, <1>2, <1>3, PTL DEF BarSpec

===============================================================================
