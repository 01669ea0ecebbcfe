----------------------------- MODULE JustifyProofs ----------------------------
(***************************************************************************)
(* One reading of the files answers for a pass, for any package and any    *)
(* changes of its files, and a lost file never makes a report.             *)
(***************************************************************************)
EXTENDS Justify, TLAPS, FiniteSetTheorems, SequenceTheorems, WellFoundedInduction

Contents == [File -> Bytes \cup {Unreadable}]
Indexes == [File -> SUBSET [line : Nat, own : BOOLEAN]]

(* The nodes that the rule reports, when it reads the files as content.    *)
Silent(content) == {n \in 1..next : Judged(n) /\ ~CommentAbove(IndexOf(content), n)}

(* Before the first question nothing was judged; after it the index is     *)
(* that of the files at that time.                                         *)
Kept ==
  \/ index = NoIndex /\ first = NoIndex /\ reports = {} /\ \A n \in 1..next : ~Judged(n)
  \/ first \in Contents /\ index = IndexOf(first) /\ reports = Silent(first)

Typed ==
  /\ pkg \in Packages /\ disk \in Contents
  /\ next \in 0..Len(pkg.node)

IInv == Typed /\ Kept
-------------------------------------------------------------------------------
(* Lines are numbers, for any offset.                                      *)
LEMMA LineNumber ==
  ASSUME NEW f, NEW offset \in Nat
  PROVE  LineOf(f, offset) \in Nat
<1> DEFINE S == {i \in 1..offset : pkg.text[f][i] = Newline}
<1>1. IsFiniteSet(1..offset)
  BY FS_Interval
<1>2. IsFiniteSet(S)
  BY <1>1, FS_Subset
<1>3. Cardinality(S) \in Nat
  BY <1>2, FS_CardinalityType
<1> QED
  BY <1>3 DEF LineOf

(* newCommentIndex gives an index, which is never the absence of one.      *)
LEMMA IndexTyped ==
  ASSUME pkg \in Packages, NEW content
  PROVE  IndexOf(content) \in Indexes /\ IndexOf(content) # NoIndex
<1>1. ASSUME NEW f \in File, NEW g \in pkg.groups[f]
      PROVE  [line |-> LineOf(f, g.end), own |-> StartsOwnLine(content[f], g.start)]
               \in [line : Nat, own : BOOLEAN]
  <2>1. g.end \in Nat
    BY <1>1, PackageAssumption
  <2>2. LineOf(f, g.end) \in Nat
    BY <2>1, LineNumber
  <2>3. StartsOwnLine(content[f], g.start) \in BOOLEAN
    BY DEF StartsOwnLine
  <2> QED
    BY <2>2, <2>3
<1>2. IndexOf(content) \in Indexes
  BY <1>1 DEF IndexOf, Indexes
<1> QED
  BY <1>2, NoIndexAssumption DEF Indexes
-------------------------------------------------------------------------------
LEMMA Initial == Init => IInv
<1> SUFFICES ASSUME Init PROVE IInv
  OBVIOUS
<1>1. pkg \in Packages /\ disk = pkg.text /\ next = 0
  BY DEF Init
<1>2. disk \in Contents
  BY <1>1, PackageAssumption DEF Contents
<1>3. Len(pkg.node) \in Nat
  BY <1>1, PackageAssumption
<1>4. Typed
  BY <1>1, <1>2, <1>3 DEF Typed
<1>5. Kept
  BY <1>1 DEF Init, Kept
<1> QED
  BY <1>4, <1>5 DEF IInv

(* What the rule asks is a matter of the package, which never changes, and *)
(* of the files that answer.                                               *)
LEMMA SamePackage ==
  ASSUME pkg' = pkg, NEW n, NEW STATE d, first' = d
  PROVE  /\ Judged(n)' <=> Judged(n)
         /\ IndexOf(first)' = IndexOf(d)
         /\ CommentAbove(IndexOf(first), n)' <=> CommentAbove(IndexOf(d), n)
<1>1. Judged(n)' <=> Judged(n)
  BY DEF Judged, ProgramEntry, Rethrows, Recovered, FunctionOf, Stack, Node
<1>2. IndexOf(first)' = IndexOf(d)
  BY DEF IndexOf, LineOf
<1>3. CommentAbove(IndexOf(first), n)' <=> CommentAbove(IndexOf(d), n)
  BY <1>2 DEF CommentAbove, CandidateLines, EnclosingStmts, Stops, IsStmt, LineOf, Stack
<1> QED
  BY <1>1, <1>2, <1>3

(* Where the same nodes are judged, the same files leave the same silent.  *)
LEMMA SilentNext ==
  ASSUME pkg' = pkg, NEW STATE d, first' = d, next \in Nat, next' = next + 1
  PROVE  Silent(first)' = IF Judged(next + 1) /\ ~CommentAbove(IndexOf(d), next + 1)
                          THEN Silent(d) \cup {next + 1} ELSE Silent(d)
<1> DEFINE n == next + 1
<1>1. 1..n = (1..next) \cup {n}
  OBVIOUS
<1>2. Silent(first)' = {m \in 1..n : Judged(m)' /\ ~CommentAbove(IndexOf(first), m)'}
  BY DEF Silent
<1>3. \A m : /\ Judged(m)' <=> Judged(m)
             /\ CommentAbove(IndexOf(first), m)' <=> CommentAbove(IndexOf(d), m)
  BY SamePackage
<1>4. Silent(first)' = {m \in 1..n : Judged(m) /\ ~CommentAbove(IndexOf(d), m)}
  BY <1>2, <1>3
<1> QED
  BY <1>1, <1>4 DEF Silent

(* The question adds the node that it is about, or not.                    *)
LEMMA AskKeeps ==
  ASSUME IInv, next \in Nat, Judged(next + 1), Ask(next + 1), next' = next + 1, pkg' = pkg
  PROVE  Kept'
<1>1. CASE index = NoIndex
  <2>1. index' = IndexOf(disk) /\ first' = disk
    BY <1>1 DEF Ask
  <2>2. Silent(disk) = {} /\ reports = {}
    <3>1. index # IndexOf(first)
      BY <1>1, IndexTyped DEF IInv, Typed
    <3> QED
      BY <3>1 DEF IInv, Kept, Silent
  <2>3. reports' = IF CommentAbove(IndexOf(disk), next + 1) THEN {} ELSE {next + 1}
    BY <2>1, <2>2 DEF Ask
  <2>4. Silent(first)' = reports'
    BY <2>1, <2>2, <2>3, SilentNext
  <2>5. IndexOf(first)' = IndexOf(disk)
    BY <2>1, SamePackage
  <2> QED
    BY <2>1, <2>4, <2>5 DEF IInv, Typed, Kept
<1>2. CASE index # NoIndex
  <2>1. index' = index /\ first' = first /\ first \in Contents /\ index = IndexOf(first) /\ reports = Silent(first)
    BY <1>2 DEF Ask, IInv, Kept
  <2>2. reports' = IF CommentAbove(IndexOf(first), next + 1) THEN reports ELSE reports \cup {next + 1}
    BY <2>1 DEF Ask
  <2>3. Silent(first)' = reports'
    BY <2>1, <2>2, SilentNext
  <2>4. IndexOf(first)' = IndexOf(first)
    BY <2>1, SamePackage
  <2> QED
    BY <2>1, <2>3, <2>4 DEF Kept
<1> QED
  BY <1>1, <1>2
-------------------------------------------------------------------------------
LEMMA VisitKeeps ==
  ASSUME IInv, Visit
  PROVE  IInv'
<1>1. pkg \in Packages /\ next \in Nat /\ Len(pkg.node) \in Nat
  BY PackageAssumption DEF IInv, Typed
<1>2. pkg' = pkg /\ disk' = disk /\ next' = next + 1 /\ next < Len(pkg.node)
  BY DEF Visit
<1>3. Typed'
  BY <1>1, <1>2 DEF IInv, Typed, Contents
<1>4. CASE Judged(next + 1)
  <2>1. Ask(next + 1)
    BY <1>4 DEF Visit
  <2>2. Kept'
    BY <1>1, <1>2, <1>4, <2>1, AskKeeps
  <2> QED
    BY <1>3, <2>2 DEF IInv
<1>5. CASE ~Judged(next + 1)
  <2>1. index' = index /\ reports' = reports /\ first' = first
    BY <1>5 DEF Visit
  <2>2. \A m : Judged(m)' <=> Judged(m)
    BY <1>2, <2>1, SamePackage
  <2>3. CASE index = NoIndex /\ first = NoIndex /\ reports = {} /\ \A m \in 1..next : ~Judged(m)
    <3>1. \A m \in 1..next' : ~Judged(m)'
      BY <1>1, <1>2, <1>5, <2>2, <2>3
    <3> QED
      BY <1>3, <2>1, <2>3, <3>1 DEF IInv, Kept
  <2>4. CASE first \in Contents /\ index = IndexOf(first) /\ reports = Silent(first)
    <3>1. Silent(first)' = Silent(first)
      BY <1>1, <1>2, <1>5, <2>1, SilentNext
    <3>2. IndexOf(first)' = IndexOf(first)
      BY <1>2, <2>1, SamePackage
    <3> QED
      BY <1>3, <2>1, <2>4, <3>1, <3>2 DEF IInv, Kept
  <2> QED
    BY <2>3, <2>4 DEF IInv, Kept
<1> QED
  BY <1>4, <1>5

(* Whoever writes to the files changes no answer.                          *)
LEMMA SameAnswers ==
  ASSUME IInv, pkg' = pkg, next' = next, index' = index, first' = first, reports' = reports
  PROVE  Kept'
<1>1. \A m : /\ Judged(m)' <=> Judged(m)
             /\ CommentAbove(IndexOf(first), m)' <=> CommentAbove(IndexOf(first), m)
  BY SamePackage
<1>2. IndexOf(first)' = IndexOf(first)
  BY SamePackage
<1>3. Silent(first)' = Silent(first)
  BY <1>1 DEF Silent
<1> QED
  BY <1>1, <1>2, <1>3 DEF IInv, Kept

LEMMA ChangeKeeps ==
  ASSUME IInv, NEW f \in File, Change(f)
  PROVE  IInv'
<1>1. PICK content \in pkg.changes[f] : disk' = [disk EXCEPT ![f] = content]
  BY DEF Change
<1>2. content \in Bytes \cup {Unreadable}
  BY <1>1, PackageAssumption DEF IInv, Typed
<1>3. disk' \in Contents
  BY <1>1, <1>2 DEF IInv, Typed, Contents
<1>4. Typed'
  BY <1>3 DEF Change, IInv, Typed
<1> QED
  BY <1>4, SameAnswers DEF Change, IInv

LEMMA Inductive == IInv /\ [Next]_vars => IInv'
<1> SUFFICES ASSUME IInv, [Next]_vars PROVE IInv'
  OBVIOUS
<1>1. CASE Visit
  BY <1>1, VisitKeeps
<1>2. CASE \E f \in File : Change(f)
  BY <1>2, ChangeKeeps
<1>3. CASE UNCHANGED vars
  <2>1. Typed'
    BY <1>3 DEF IInv, Typed, vars
  <2> QED
    BY <1>3, <2>1, SameAnswers DEF IInv, vars
<1> QED
  BY <1>1, <1>2, <1>3 DEF Next

(* Every state of a pass is one of the invariant.                          *)
THEOREM Invariant == Spec => []IInv
  BY Initial, Inductive, PTL DEF Spec
-------------------------------------------------------------------------------
(* The index is there from the first question on, and the walk and the     *)
(* reports stay in the package, for any package and any changes.           *)
THEOREM TypeCorrect == Spec => []TypeOK
<1>1. IInv => TypeOK
  <2> SUFFICES ASSUME IInv PROVE TypeOK
    OBVIOUS
  <2>1. Contents = [File -> Bytes \cup {Unreadable}] /\ NoIndex \notin Contents
    BY NoIndexAssumption DEF Contents
  <2>2. reports \subseteq 1..next
    BY DEF IInv, Kept, Silent
  <2>3. index = NoIndex <=> first = NoIndex
    BY <2>1, IndexTyped DEF IInv, Typed, Kept
  <2>4. first # NoIndex => DOMAIN first = File /\ DOMAIN index = File
    BY <2>1 DEF IInv, Kept, IndexOf
  <2> QED
    BY <2>1, <2>2, <2>3, <2>4 DEF IInv, Typed, TypeOK
<1> QED
  BY <1>1, Invariant, PTL

(* All answers of a pass come from one reading of the files, for any       *)
(* package and any changes of its files.                                   *)
THEOREM AnswersOfOneReading == Spec => []OneReading
<1>1. IInv => OneReading
  <2> SUFFICES ASSUME IInv PROVE OneReading
    OBVIOUS
  <2> QED
    BY DEF IInv, Kept, Silent, OneReading
<1> QED
  BY <1>1, Invariant, PTL
-------------------------------------------------------------------------------
(* Without its bytes, or without the end of them, a comment owns its line  *)
(* if it did so when the file was parsed.                                  *)
LEMMA LossOpens ==
  ASSUME NEW text \in Bytes, NEW content, Lost(content, text), content \in Bytes \cup {Unreadable},
         NEW start \in Nat, start <= Len(text), StartsOwnLine(text, start)
  PROVE  StartsOwnLine(content, start)
<1>1. CASE content = Unreadable \/ start > Len(content)
  BY <1>1 DEF StartsOwnLine
<1>2. CASE content # Unreadable /\ ~(start > Len(content))
  <2>1. content \in Bytes /\ IsPrefix(content, text)
    BY <1>2 DEF Lost
  <2>2. \A i \in 1..start : content[i] = text[i]
    <3>1. SubSeq(content, 1, Len(content)) = SubSeq(text, 1, Len(content)) /\ Len(content) <= Len(text)
      BY <2>1 DEF IsPrefix
    <3>2. Len(content) \in Nat /\ Len(text) \in Nat
      BY <2>1 DEF Bytes
    <3>3. \A i \in 1..Len(content) : /\ SubSeq(content, 1, Len(content))[i] = content[i]
                                      /\ SubSeq(text, 1, Len(content))[i] = text[i]
      BY <2>1, <3>1, <3>2 DEF Bytes
    <3> QED
      BY <1>2, <3>1, <3>2, <3>3
  <2>3. PICK n \in 0..start : (n = 0 \/ text[n] = Newline) /\ \A i \in n + 1..start : text[i] = Blank
    BY NoIndexAssumption DEF StartsOwnLine, Bytes
  <2>4. (n = 0 \/ content[n] = Newline) /\ \A i \in n + 1..start : content[i] = Blank
    BY <2>2, <2>3
  <2> QED
    BY <2>3, <2>4 DEF StartsOwnLine
<1> QED
  BY <1>1, <1>2

(* The half of LossSilences that is about the index: what is reported from *)
(* files that are gone or cut short would be reported from the files as    *)
(* they were parsed, for any package (justify.go:160, 203).                *)
LossHides ==
  (first # NoIndex /\ \A f \in File : Lost(first[f], pkg.text[f])) => reports \subseteq Silent(pkg.text)

THEOREM LossNeverReports == Spec => []LossHides
<1>1. IInv => LossHides
  <2> SUFFICES ASSUME IInv, first # NoIndex, \A f \in File : Lost(first[f], pkg.text[f]),
                      NEW n \in reports
               PROVE  n \in Silent(pkg.text)
    BY DEF LossHides
  <2>1. pkg \in Packages /\ first \in Contents /\ n \in Silent(first)
    BY DEF IInv, Typed, Kept
  <2>2. n \in DOMAIN pkg.node
    BY <2>1, PackageAssumption DEF IInv, Typed, Silent
  <2> DEFINE f == pkg.node[n].file
  <2>3. f \in File
    BY <2>1, <2>2, PackageAssumption
  <2>4. ASSUME CommentAbove(IndexOf(pkg.text), n) PROVE CommentAbove(IndexOf(first), n)
    <3>1. PICK c \in IndexOf(pkg.text)[f] : c.own /\ c.line + 1 \in CandidateLines(n)
      BY <2>4 DEF CommentAbove
    <3>2. PICK g \in pkg.groups[f] :
            c = [line |-> LineOf(f, g.end), own |-> StartsOwnLine(pkg.text[f], g.start)]
      BY <2>3, <3>1 DEF IndexOf
    <3>3. pkg.text[f] \in Bytes /\ g.start \in Nat /\ g.start <= Len(pkg.text[f])
      BY <2>1, <2>3, PackageAssumption
    <3>4. first[f] \in Bytes \cup {Unreadable}
      BY <2>1, <2>3 DEF Contents
    <3>5. StartsOwnLine(first[f], g.start)
      BY <2>3, <3>1, <3>2, <3>3, <3>4, LossOpens
    <3>6. [line |-> LineOf(f, g.end), own |-> StartsOwnLine(first[f], g.start)] \in IndexOf(first)[f]
      BY <2>3 DEF IndexOf
    <3> QED
      BY <3>1, <3>2, <3>5, <3>6 DEF CommentAbove
  <2> QED
    BY <2>1, <2>4 DEF Silent
<1> QED
  BY <1>1, Invariant, PTL
-------------------------------------------------------------------------------
(* The stack of a node.                                                    *)

LEMMA LeastNumber ==
  ASSUME NEW S, S \subseteq Nat, S # {}
  PROVE  \E m \in S : \A n \in S : m <= n
<1> DEFINE R == OpToRel(<, Nat)
<1>1. IsWellFoundedOn(R, Nat)
  BY NatLessThanWellFounded
<1> HIDE DEF R
<1>2. PICK m \in S : \A n \in S : <<n, m>> \notin R
  BY <1>1, WFMin
<1>3. \A n \in S : ~(n < m)
  BY <1>2 DEF R, OpToRel
<1> QED
  BY <1>2, <1>3

LEMMA NodesTyped ==
  ASSUME pkg \in Packages
  PROVE  /\ Len(pkg.node) \in Nat /\ Node = 1..Len(pkg.node)
         /\ \A n \in Node : /\ n \in Nat /\ n # 0 /\ pkg.node[n].parent \in 0..(n - 1)
                            /\ pkg.node[n].file \in File
  BY PackageAssumption DEF Node

(* The stacks of the nodes up to n.                                        *)
Stacks(above, n) ==
  above = [m \in 0..n |-> IF m = 0 THEN <<>> ELSE <<m>> \o above[pkg.node[m].parent]]

LEMMA StacksExist ==
  ASSUME pkg \in Packages, NEW n \in 0..Len(pkg.node)
  PROVE  \E above : Stacks(above, n)
<1> DEFINE Without == {m \in 0..Len(pkg.node) : ~\E above : Stacks(above, m)}
<1>0. Len(pkg.node) \in Nat /\ \A m \in 1..Len(pkg.node) : pkg.node[m].parent \in 0..(m - 1)
  BY NodesTyped
<1> SUFFICES ASSUME Without # {} PROVE FALSE
  OBVIOUS
<1>1. PICK m \in Without : \A k \in Without : m <= k
  <2>1. Without \subseteq Nat
    BY <1>0
  <2> HIDE DEF Without
  <2> QED
    BY <2>1, LeastNumber
<1>2. m # 0
  <2>1. Stacks([k \in 0..0 |-> <<>>], 0)
    BY DEF Stacks
  <2> QED
    BY <1>1, <2>1
<1>3. m \in Nat /\ m - 1 \in 0..Len(pkg.node) /\ m - 1 < m
  BY <1>0, <1>1, <1>2
<1>4. m - 1 \notin Without
  <2> HIDE DEF Without
  <2> QED
    BY <1>0, <1>1, <1>3
<1>5. PICK above : Stacks(above, m - 1)
  BY <1>3, <1>4
<1> DEFINE more == [k \in 0..m |-> IF k = 0 THEN <<>> ELSE <<k>> \o above[pkg.node[k].parent]]
<1>6. \A k \in 0..(m - 1) : above[k] = IF k = 0 THEN <<>> ELSE <<k>> \o above[pkg.node[k].parent]
  <2> HIDE DEF Without
  <2> QED
    BY <1>5 DEF Stacks
<1>7. \A k \in 0..(m - 1) : more[k] = above[k]
  <2>1. \A k \in 0..(m - 1) : k \in 0..m
    BY <1>3
  <2> HIDE DEF Without
  <2> QED
    BY <1>6, <2>1
<1>8. \A k \in 1..m : more[pkg.node[k].parent] = above[pkg.node[k].parent]
  <2> SUFFICES ASSUME NEW k \in 1..m PROVE pkg.node[k].parent \in 0..(m - 1)
    BY <1>7
  <2>1. k \in 1..Len(pkg.node) /\ k <= m
    BY <1>0, <1>1
  <2>2. pkg.node[k].parent \in 0..(k - 1)
    BY <1>0, <2>1
  <2> QED
    BY <1>3, <2>1, <2>2
<1>9. Stacks(more, m)
  <2> DEFINE again == [k \in 0..m |-> IF k = 0 THEN <<>> ELSE <<k>> \o more[pkg.node[k].parent]]
  <2>1. \A k \in 0..m : k # 0 => k \in 1..m
    BY <1>3
  <2>2. \A k \in 0..m : more[k] = IF k = 0 THEN <<>> ELSE <<k>> \o above[pkg.node[k].parent]
    OBVIOUS
  <2>3. \A k \in 0..m : again[k] = IF k = 0 THEN <<>> ELSE <<k>> \o more[pkg.node[k].parent]
    OBVIOUS
  <2>4. more = [k \in 0..m |-> more[k]] /\ again = [k \in 0..m |-> again[k]]
    OBVIOUS
  <2>5. Stacks(more, m) <=> more = again
    BY DEF Stacks
  <2> HIDE DEF more, again, Without
  <2>6. \A k \in 0..m : more[k] = again[k]
    BY <1>8, <2>1, <2>2, <2>3
  <2> QED
    BY <2>4, <2>5, <2>6
<1> QED
  BY <1>1, <1>9

LEMMA StackStep ==
  ASSUME pkg \in Packages
  PROVE  /\ Stack(0) = <<>>
         /\ \A n \in Node : Stack(n) = <<n>> \o Stack(pkg.node[n].parent)
<1> DEFINE G == CHOOSE above : Stacks(above, Len(pkg.node))
<1>0. Len(pkg.node) \in Nat /\ \A m \in 1..Len(pkg.node) : pkg.node[m].parent \in 0..(m - 1)
  BY NodesTyped
<1>1. \A n : Stack(n) = G[n]
  BY DEF Stack, Stacks
<1>2. Stacks(G, Len(pkg.node))
  BY <1>0, StacksExist
<1> HIDE DEF G
<1>3. \A m \in 0..Len(pkg.node) : G[m] = IF m = 0 THEN <<>> ELSE <<m>> \o G[pkg.node[m].parent]
  BY <1>2 DEF Stacks
<1>4. 0 \in 0..Len(pkg.node) /\ \A n \in Node : n \in 0..Len(pkg.node) /\ n # 0
  BY <1>0, NodesTyped
<1> QED
  BY <1>1, <1>3, <1>4

(* A stack goes down in numbers; the parent of each node follows it, and   *)
(* the stack of a node that it holds is the rest of it from there.         *)
Descending(n) ==
  LET stack == Stack(n) IN
  /\ stack \in Seq(1..n)
  /\ n # 0 => Len(stack) > 0 /\ stack[1] = n
  /\ \A i \in 1..Len(stack) : i < Len(stack) =>
       stack[i + 1] = pkg.node[stack[i]].parent /\ stack[i + 1] < stack[i]
  /\ \A i, j \in 1..Len(stack) : i < j => stack[j] < stack[i]

LEMMA StackDescends ==
  ASSUME pkg \in Packages, NEW n \in 0..Len(pkg.node)
  PROVE  Descending(n)
<1> DEFINE Not == {m \in 0..Len(pkg.node) : ~Descending(m)}
<1>0. Len(pkg.node) \in Nat /\ Node = 1..Len(pkg.node)
      /\ \A m \in Node : m \in Nat /\ pkg.node[m].parent \in 0..(m - 1)
  BY NodesTyped
<1> SUFFICES ASSUME Not # {} PROVE FALSE
  OBVIOUS
<1>1. PICK m \in Not : \A k \in Not : m <= k
  <2>1. Not \subseteq Nat
    BY <1>0
  <2> HIDE DEF Not
  <2> QED
    BY <2>1, LeastNumber
<1>2. m \in 0..Len(pkg.node) /\ m \in Nat
  BY <1>0, <1>1
<1>3. m # 0
  <2> SUFFICES ASSUME m = 0 PROVE FALSE
    OBVIOUS
  <2>1. Stack(0) = <<>>
    BY StackStep
  <2>2. Descending(0)
    <3> DEFINE t == Stack(0)
    <3>1. t \in Seq(1..0) /\ Len(t) = 0 /\ \A i : i \notin 1..Len(t)
      <4>1. \A i : i \notin 1..0
        OBVIOUS
      <4>2. t \in Seq(1..0) /\ Len(t) = 0
        <5> DEFINE none == 1..0
        <5> HIDE DEF none
        <5>1. t \in Seq(none) /\ Len(t) = 0
          BY <2>1, EmptySeq
        <5> QED
          BY <5>1 DEF none
      <4> QED
        BY <4>1, <4>2
    <3> HIDE DEF t
    <3> QED
      BY <3>1 DEF Descending, t
  <2> QED
    BY <1>1, <2>2
<1> DEFINE up == pkg.node[m].parent
           s == Stack(m)
           t == Stack(up)
<1>4. m \in Node /\ up \in 0..(m - 1) /\ up \in 0..Len(pkg.node) /\ up \in Nat /\ up < m
  BY <1>0, <1>2, <1>3
<1>5. Descending(up)
  <2>1. up \notin Not
    <3> HIDE DEF Not, up
    <3> QED
      BY <1>1, <1>2, <1>4
  <2> QED
    BY <1>4, <2>1
<1>6. s = <<m>> \o t
  BY <1>4, StackStep
<1>7. t \in Seq(1..m) /\ Len(t) \in Nat /\ \A i \in 1..Len(t) : t[i] \in 1..up
  <2>1. t \in Seq(1..up)
    BY <1>5 DEF Descending
  <2> HIDE DEF t, up
  <2>2. 1..up \subseteq 1..m
    BY <1>2, <1>4
  <2>3. Len(t) \in Nat /\ \A i \in 1..Len(t) : t[i] \in 1..up
    BY <2>1, LenProperties, ElementOfSeq
  <2>4. t \in Seq(1..m)
    <3> DEFINE U == 1..up
               M == 1..m
    <3>1. t \in Seq(U) /\ U \subseteq M
      BY <2>1, <2>2
    <3> HIDE DEF U, M
    <3>2. t \in Seq(M)
      BY <3>1
    <3> QED
      BY <3>2 DEF M
  <2> QED
    BY <2>3, <2>4
<1>8. /\ s \in Seq(1..m) /\ Len(s) = Len(t) + 1 /\ s[1] = m
      /\ \A i \in 1..Len(t) : s[i + 1] = t[i]
  <2> HIDE DEF s, t, up, Not
  <2>1. <<m>> \in Seq(1..m) /\ Len(<<m>>) = 1 /\ <<m>>[1] = m
    BY <1>2, <1>3
  <2> QED
    BY <1>6, <1>7, <2>1, ConcatProperties
<1>9. /\ up # 0 => Len(t) > 0 /\ t[1] = up
      /\ up = 0 => Len(t) = 0
      /\ \A i \in 1..Len(t) : i < Len(t) => t[i + 1] = pkg.node[t[i]].parent /\ t[i + 1] < t[i]
      /\ \A i, j \in 1..Len(t) : i < j => t[j] < t[i]
  <2>1. up = 0 => Len(t) = 0
    BY StackStep, EmptySeq
  <2> QED
    BY <1>5, <2>1 DEF Descending
<1> HIDE DEF s, t, up, Not
<1>10. ASSUME NEW i \in 1..Len(s) PROVE i # 1 => i - 1 \in 1..Len(t) /\ s[i] = t[i - 1]
  <2> SUFFICES ASSUME i # 1 PROVE i - 1 \in 1..Len(t) /\ s[i] = t[i - 1]
    OBVIOUS
  <2>1. i - 1 \in 1..Len(t) /\ i = (i - 1) + 1
    BY <1>7, <1>8
  <2> QED
    BY <1>8, <2>1
<1>11. ASSUME NEW i \in 1..Len(s), i < Len(s)
       PROVE  s[i + 1] = pkg.node[s[i]].parent /\ s[i + 1] < s[i]
  <2>1. i \in 1..Len(t) /\ s[i + 1] = t[i]
    BY <1>7, <1>8, <1>11
  <2>2. CASE i = 1
    <3>1. up # 0 /\ t[1] = up
      BY <1>4, <1>9, <2>1
    <3> QED
      BY <1>4, <1>8, <2>1, <2>2, <3>1 DEF up
  <2>3. CASE i # 1
    <3>1. i - 1 \in 1..Len(t) /\ s[i] = t[i - 1] /\ (i - 1) + 1 = i /\ i - 1 < Len(t)
      BY <1>7, <1>10, <2>1, <2>3
    <3> QED
      BY <1>9, <2>1, <3>1
  <2> QED
    BY <2>2, <2>3
<1>12. ASSUME NEW i \in 1..Len(s), NEW j \in 1..Len(s), i < j PROVE s[j] < s[i]
  <2>1. j - 1 \in 1..Len(t) /\ s[j] = t[j - 1]
    <3>1. j # 1
      BY <1>7, <1>8, <1>12
    <3> QED
      BY <1>10, <3>1
  <2>2. CASE i = 1
    <3>1. t[j - 1] \in 1..up
      BY <1>7, <2>1
    <3>2. t[j - 1] \in Nat /\ t[j - 1] <= up
      BY <1>4, <3>1
    <3> QED
      BY <1>2, <1>4, <1>8, <2>1, <2>2, <3>2
  <2>3. CASE i # 1
    <3>1. i - 1 \in 1..Len(t) /\ s[i] = t[i - 1] /\ i - 1 < j - 1
      BY <1>7, <1>8, <1>10, <1>12, <2>3
    <3> QED
      BY <1>9, <2>1, <3>1
  <2> QED
    BY <2>2, <2>3
<1>13. Descending(m)
  <2>1. Len(s) > 0
    BY <1>7, <1>8
  <2> QED
    BY <1>8, <1>11, <1>12, <2>1 DEF Descending, s
<1> QED
  BY <1>1, <1>13 DEF Not
-------------------------------------------------------------------------------
(* What holds a node.                                                      *)

Above(n) == Range(Stack(n))

LEMMA AboveStep ==
  ASSUME pkg \in Packages
  PROVE  /\ Above(0) = {}
         /\ \A n \in Node : Above(n) = {n} \cup Above(pkg.node[n].parent)
         /\ \A n \in 0..Len(pkg.node) : Above(n) \subseteq 1..n
<1>0. Len(pkg.node) \in Nat /\ Node = 1..Len(pkg.node)
      /\ \A m \in Node : m \in Nat /\ pkg.node[m].parent \in 0..(m - 1)
  BY NodesTyped
<1>1. \A n \in 0..Len(pkg.node) : /\ Stack(n) \in Seq(1..n) /\ Len(Stack(n)) \in Nat
                                  /\ DOMAIN Stack(n) = 1..Len(Stack(n))
                                  /\ \A i \in 1..Len(Stack(n)) : Stack(n)[i] \in 1..n
  <2> SUFFICES ASSUME NEW n \in 0..Len(pkg.node)
               PROVE  /\ Stack(n) \in Seq(1..n) /\ Len(Stack(n)) \in Nat
                      /\ DOMAIN Stack(n) = 1..Len(Stack(n))
                      /\ \A i \in 1..Len(Stack(n)) : Stack(n)[i] \in 1..n
    OBVIOUS
  <2>1. Stack(n) \in Seq(1..n)
    BY StackDescends DEF Descending
  <2> QED
    BY <2>1, LenProperties, ElementOfSeq
<1>2. Above(0) = {}
  <2>1. Len(Stack(0)) = 0 /\ 0 \in 0..Len(pkg.node)
    BY <1>0, StackStep, EmptySeq
  <2>2. DOMAIN Stack(0) = 1..0
    BY <1>1, <2>1
  <2> QED
    BY <2>2 DEF Above, Range
<1>3. \A n \in 0..Len(pkg.node) : Above(n) \subseteq 1..n
  BY <1>1 DEF Above, Range
<1>4. ASSUME NEW n \in Node PROVE Above(n) = {n} \cup Above(pkg.node[n].parent)
  <2> DEFINE up == pkg.node[n].parent
             s == Stack(n)
             t == Stack(up)
  <2>1. s = <<n>> \o t
    BY StackStep
  <2>2. up \in 0..Len(pkg.node) /\ n \in 0..Len(pkg.node)
    BY <1>0
  <2>3. Len(t) \in Nat /\ DOMAIN t = 1..Len(t) /\ t \in Seq(1..up) /\ DOMAIN s = 1..Len(s)
    BY <1>1, <2>2
  <2> HIDE DEF s, t, up
  <2>4. Len(s) = Len(t) + 1 /\ s[1] = n /\ \A i \in 1..Len(t) : s[i + 1] = t[i]
    <3> DEFINE U == Nat
    <3>1. t \in Seq(U)
      <4> DEFINE V == 1..up
      <4>1. V \subseteq U /\ t \in Seq(V)
        BY <2>2, <2>3
      <4> HIDE DEF U, V
      <4> QED
        BY <4>1
    <3>2. <<n>> \in Seq(U) /\ Len(<<n>>) = 1 /\ <<n>>[1] = n
      BY <1>0
    <3> QED
      BY <2>1, <2>3, <3>1, <3>2, ConcatProperties
  <2>5. \A i \in 1..Len(s) : i = 1 \/ (i - 1 \in 1..Len(t) /\ s[i] = t[i - 1])
    <3> SUFFICES ASSUME NEW i \in 1..Len(s), i # 1 PROVE i - 1 \in 1..Len(t) /\ s[i] = t[i - 1]
      OBVIOUS
    <3>1. i - 1 \in 1..Len(t) /\ i = (i - 1) + 1
      BY <2>3, <2>4
    <3> QED
      BY <2>4, <3>1
  <2>6. 1 \in 1..Len(s) /\ \A i \in 1..Len(t) : i + 1 \in 1..Len(s)
    BY <2>3, <2>4
  <2>7. Range(s) = {n} \cup Range(t)
    BY <2>3, <2>4, <2>5, <2>6 DEF Range
  <2> QED
    BY <2>7 DEF Above, s, t, up
<1> QED
  BY <1>2, <1>3, <1>4

(* The nodes that hold a node are held by each other in the order of their *)
(* numbers.                                                                *)
LEMMA AboveChain ==
  ASSUME pkg \in Packages, NEW n \in 0..Len(pkg.node), NEW s \in Above(n)
  PROVE  /\ s \in Node /\ s \in Nat /\ s <= n
         /\ Above(s) = {t \in Above(n) : t <= s}
         /\ s # n => s \in Above(pkg.node[n].parent)
<1>0. Len(pkg.node) \in Nat /\ Node = 1..Len(pkg.node)
      /\ \A m \in Node : m \in Nat /\ pkg.node[m].parent \in 0..(m - 1)
  BY NodesTyped
<1> DEFINE Chained(m) == \A r \in Above(m) : Above(r) = {t \in Above(m) : t <= r}
           Not == {m \in 0..Len(pkg.node) : ~Chained(m)}
<1>1. \A m \in 0..Len(pkg.node) : m \in Nat /\ Above(m) \subseteq 1..m
  BY <1>0, AboveStep
<1>2. Not = {}
  <2> SUFFICES ASSUME Not # {} PROVE FALSE
    OBVIOUS
  <2>1. PICK m \in Not : \A k \in Not : m <= k
    <3>1. Not \subseteq Nat
      BY <1>0
    <3> HIDE DEF Not
    <3> QED
      BY <3>1, LeastNumber
  <2>2. m \in 0..Len(pkg.node) /\ ~Chained(m) /\ m \in Nat
    BY <1>1, <2>1
  <2>3. m # 0
    BY <2>2, AboveStep
  <2> DEFINE up == pkg.node[m].parent
  <2>4. m \in Node /\ up \in 0..(m - 1) /\ up \in 0..Len(pkg.node) /\ up < m /\ up \in Nat
    BY <1>0, <2>2, <2>3
  <2>5. Chained(up)
    <3>1. up \notin Not
      <4> HIDE DEF Not, up
      <4> QED
        BY <2>1, <2>2, <2>4
    <3> QED
      BY <2>4, <3>1
  <2>6. Above(m) = {m} \cup Above(up)
    BY <2>4, AboveStep
  <2>7. Above(up) \subseteq 1..up /\ Above(m) \subseteq 1..m
    BY <1>1, <2>2, <2>4
  <2>8. ASSUME NEW r \in Above(m) PROVE Above(r) = {t \in Above(m) : t <= r}
    <3>1. CASE r = m
      BY <2>2, <2>7, <3>1
    <3>2. CASE r \in Above(up)
      <4>1. Above(r) = {t \in Above(up) : t <= r}
        BY <2>5, <3>2
      <4>2. ~(m <= r)
        BY <2>2, <2>4, <2>7, <3>2
      <4> QED
        BY <2>6, <4>1, <4>2
    <3> QED
      BY <2>6, <2>8, <3>1, <3>2
  <2> QED
    BY <2>2, <2>8
<1>3. Chained(n)
  BY <1>2
<1>4. s \in 1..n /\ n \in Nat
  BY <1>1
<1>5. s # n => s \in Above(pkg.node[n].parent)
  <2>1. n \in Node
    BY <1>0, <1>4
  <2> QED
    BY <2>1, AboveStep
<1> QED
  BY <1>0, <1>3, <1>4, <1>5
-------------------------------------------------------------------------------
(* The walk of enclosingStmts.                                             *)

(* A clause stops the walk where the walk did not come up in the first     *)
(* statement of its body.                                                  *)
Cut(n, s) ==
  \E b \in Above(n) :
    /\ s <= b
    /\ \/ pkg.node[b].kind = "block"
       \/ pkg.node[b].kind = "clause" /\ pkg.node[b].first \notin Above(n)

LEMMA StopsCut ==
  ASSUME pkg \in Packages, NEW n \in Node, NEW i \in DOMAIN Stack(n)
  PROVE  Stops(Stack(n), i) <=>
           \/ pkg.node[Stack(n)[i]].kind = "block"
           \/ pkg.node[Stack(n)[i]].kind = "clause" /\ pkg.node[Stack(n)[i]].first \notin Above(n)
<1> DEFINE stack == Stack(n)
           c == stack[i]
           f == pkg.node[c].first
<1>0. Len(pkg.node) \in Nat /\ Node = 1..Len(pkg.node) /\ Node = DOMAIN pkg.node
      /\ \A m \in Node : m \in Nat /\ pkg.node[m].parent \in 0..(m - 1)
  BY NodesTyped DEF Node
<1>1. /\ DOMAIN stack = 1..Len(stack) /\ Len(stack) \in Nat
      /\ \A j \in 1..Len(stack) : stack[j] \in Node
      /\ \A j \in 1..Len(stack) : j < Len(stack) =>
           stack[j + 1] = pkg.node[stack[j]].parent
      /\ \A j, k \in 1..Len(stack) : j < k => stack[k] < stack[j]
  <2>1. n \in 0..Len(pkg.node) /\ n \in Nat
    BY <1>0
  <2>2. Descending(n)
    BY <2>1, StackDescends
  <2>3. stack \in Seq(1..n)
    BY <2>2 DEF Descending
  <2>4. DOMAIN stack = 1..Len(stack) /\ Len(stack) \in Nat
        /\ \A j \in 1..Len(stack) : stack[j] \in 1..n
    <3> HIDE DEF stack
    <3> QED
      BY <2>3, LenProperties, ElementOfSeq
  <2>5. 1..n \subseteq Node
    BY <1>0
  <2> QED
    BY <2>2, <2>4, <2>5 DEF Descending
<1>2. Above(n) = {stack[j] : j \in 1..Len(stack)}
  BY <1>1 DEF Above, Range
<1> HIDE DEF stack
<1>3. i \in 1..Len(stack) /\ c \in Node
  BY <1>1 DEF stack
<1>4. CASE pkg.node[c].kind = "clause"
  <2> DEFINE Passes == \A outer \in 1..(i - 1) : stack[outer] = f =>
                         \E j \in outer + 1..i - 1 : IsStmt(stack[j])
  <2>1. Stops(stack, i) <=> Passes
    BY <1>4 DEF Stops
  <2>2. ASSUME f \in Above(n) PROVE ~Passes
    <3>1. PICK j \in 1..Len(stack) : stack[j] = f
      BY <1>2, <2>2
    <3>2. f # 0 /\ f \in Node
      BY <1>0, <1>1, <3>1
    <3>3. pkg.node[f].parent = c
      BY <1>0, <1>3, <1>4, <3>2, ClauseAssumption
    <3>4. c < f
      BY <1>0, <1>3, <3>2, <3>3
    <3>5. j < i
      <4> SUFFICES ASSUME ~(j < i) PROVE FALSE
        OBVIOUS
      <4>1. j = i \/ i < j
        BY <1>1, <1>3, <3>1
      <4>2. f <= c
        BY <1>0, <1>1, <1>3, <3>1, <3>2, <4>1
      <4> QED
        BY <1>0, <1>3, <3>2, <3>4, <4>2
    <3>6. j + 1 = i
      <4>1. j + 1 \in 1..Len(stack) /\ j < Len(stack)
        BY <1>1, <1>3, <3>1, <3>5
      <4>2. stack[j + 1] = c
        BY <1>1, <3>1, <3>3, <4>1
      <4>3. ~(j + 1 < i)
        BY <1>0, <1>1, <1>3, <4>1, <4>2
      <4> QED
        BY <1>1, <1>3, <3>1, <3>5, <4>3
    <3>7. j \in 1..(i - 1) /\ (j + 1)..(i - 1) = {}
      BY <1>1, <1>3, <3>1, <3>6
    <3> QED
      BY <3>1, <3>7
  <2>3. ASSUME f \notin Above(n) PROVE Passes
    <3>1. \A outer \in 1..(i - 1) : outer \in 1..Len(stack)
      BY <1>1, <1>3
    <3> QED
      BY <1>2, <2>3, <3>1
  <2> HIDE DEF Passes
  <2> QED
    BY <1>4, <2>1, <2>2, <2>3 DEF stack
<1>5. CASE pkg.node[c].kind # "clause"
  BY <1>5 DEF Stops, stack
<1> QED
  BY <1>4, <1>5
LEMMA CoveringCut ==
  ASSUME pkg \in Packages, NEW n \in Node
  PROVE  Covering(n) = {s \in Above(n) : IsStmt(s) /\ ~Cut(n, s)}
<1>0. Len(pkg.node) \in Nat /\ Node = 1..Len(pkg.node) /\ Node = DOMAIN pkg.node
      /\ \A m \in Node : m \in Nat /\ pkg.node[m].parent \in 0..(m - 1)
  BY NodesTyped DEF Node
<1>1. n \in 0..Len(pkg.node)
  BY <1>0
<1>2. \A s \in Above(n) : /\ s \in Node /\ s \in Nat /\ Above(s) = {t \in Above(n) : t <= s}
  BY <1>1, AboveChain
<1>3. \A m \in Node : m \in Above(m)
  BY AboveStep
<1>4. 0 \notin Above(n)
  BY <1>2, <1>0
<1>5. ASSUME NEW s \in Above(n), IsStmt(s)
      PROVE  Cut(n, s) <=>
               \/ \E b \in Node : pkg.node[b].kind = "block" /\ Holds(s, b) /\ Holds(b, n)
               \/ pkg.node[s].kind = "clause" /\ ~(pkg.node[s].first # 0 /\ Holds(pkg.node[s].first, n))
  <2>1. \A b \in Above(n) : s <= b <=> s \in Above(b)
    BY <1>2
  <2>2. (\E b \in Above(n) : s <= b /\ pkg.node[b].kind = "block")
          <=> \E b \in Node : pkg.node[b].kind = "block" /\ Holds(s, b) /\ Holds(b, n)
    BY <1>2, <2>1 DEF Holds, Above
  <2>3. pkg.node[s].first \notin Above(n)
          <=> ~(pkg.node[s].first # 0 /\ Holds(pkg.node[s].first, n))
    BY <1>4 DEF Holds, Above
  <2>4. ASSUME NEW c \in Above(n), s <= c, c # s, pkg.node[c].kind = "clause"
        PROVE  \E b \in Above(n) : s <= b /\ pkg.node[b].kind = "block"
    <3> DEFINE b == pkg.node[c].parent
    <3>1. c \in Node /\ c \in Nat /\ s \in Above(c) /\ s \in Nat
      BY <1>2, <2>1, <2>4
    <3>2. pkg.node[b].kind = "block" /\ b # 0
      BY <1>0, <2>4, <3>1, ClauseAssumption
    <3>3. b \in Node /\ b < c
      BY <1>0, <3>1, <3>2
    <3>4. s \in Above(b)
      BY <2>4, <3>1, AboveStep
    <3>5. b \in Above(c)
      BY <1>3, <3>1, <3>3, AboveStep
    <3>6. b \in Above(n)
      BY <1>2, <3>5
    <3>7. s <= b
      BY <2>1, <3>4, <3>6
    <3> QED
      BY <3>2, <3>6, <3>7
  <2>5. s <= s
    BY <1>2
  <2> QED
    BY <2>2, <2>3, <2>4, <2>5 DEF Cut
<1>6. \A s : s \in Covering(n) <=>
        /\ s \in Above(n) /\ IsStmt(s)
        /\ ~\E b \in Node : pkg.node[b].kind = "block" /\ Holds(s, b) /\ Holds(b, n)
        /\ pkg.node[s].kind = "clause" => pkg.node[s].first # 0 /\ Holds(pkg.node[s].first, n)
  BY <1>2 DEF Covering, Holds, Above
<1> QED
  BY <1>5, <1>6

(* The innermost and the outermost statement of the walk are those of the  *)
(* containment.                                                            *)
LEMMA EnclosingCovering ==
  ASSUME pkg \in Packages, NEW n \in Node
  PROVE  EnclosingStmts(n) = {s \in Covering(n) : \/ \A t \in Covering(n) : Holds(t, s)
                                                  \/ \A t \in Covering(n) : Holds(s, t)}
<1> DEFINE stack == Stack(n)
           walked == {i \in DOMAIN stack : IsStmt(stack[i]) /\ \A j \in 1..i : ~Stops(stack, j)}
<1>0. Len(pkg.node) \in Nat /\ Node = 1..Len(pkg.node)
      /\ \A m \in Node : m \in Nat
  BY NodesTyped
<1>1. /\ DOMAIN stack = 1..Len(stack) /\ Len(stack) \in Nat
      /\ \A j \in 1..Len(stack) : stack[j] \in Node
      /\ \A j, k \in 1..Len(stack) : j < k => stack[k] < stack[j]
  <2>1. n \in 0..Len(pkg.node) /\ n \in Nat
    BY <1>0
  <2>2. Descending(n)
    BY <2>1, StackDescends
  <2>3. stack \in Seq(1..n)
    BY <2>2 DEF Descending
  <2>4. DOMAIN stack = 1..Len(stack) /\ Len(stack) \in Nat
        /\ \A j \in 1..Len(stack) : stack[j] \in 1..n
    <3> HIDE DEF stack
    <3> QED
      BY <2>3, LenProperties, ElementOfSeq
  <2>5. 1..n \subseteq Node
    BY <1>0
  <2> QED
    BY <2>2, <2>4, <2>5 DEF Descending
<1>2. Above(n) = {stack[j] : j \in 1..Len(stack)}
  BY <1>1 DEF Above, Range
<1>3. \A j \in 1..Len(stack) :
        Stops(stack, j) <=>
          \/ pkg.node[stack[j]].kind = "block"
          \/ pkg.node[stack[j]].kind = "clause" /\ pkg.node[stack[j]].first \notin Above(n)
  BY <1>1, StopsCut
<1>4. EnclosingStmts(n) =
        {stack[i] : i \in {i \in walked : (\A j \in walked : j <= i) \/ (\A j \in walked : i <= j)}}
  BY DEF EnclosingStmts
<1>5. \A i : i \in walked <=> /\ i \in 1..Len(stack) /\ IsStmt(stack[i])
                              /\ \A j \in 1..i : ~Stops(stack, j)
  BY <1>1
<1> HIDE DEF stack, walked
<1>6. \A i, j \in 1..Len(stack) : (j <= i <=> stack[i] <= stack[j]) /\ i \in Nat /\ stack[i] \in Nat
  <2> SUFFICES ASSUME NEW i \in 1..Len(stack), NEW j \in 1..Len(stack)
               PROVE  (j <= i <=> stack[i] <= stack[j]) /\ i \in Nat /\ stack[i] \in Nat
    OBVIOUS
  <2>1. stack[i] \in Nat /\ stack[j] \in Nat /\ i \in Nat /\ j \in Nat
    BY <1>0, <1>1
  <2>2. CASE i = j
    BY <2>1, <2>2
  <2>3. CASE i < j
    BY <1>1, <2>1, <2>3
  <2>4. CASE j < i
    BY <1>1, <2>1, <2>4
  <2> QED
    BY <2>1, <2>2, <2>3, <2>4
<1>7. ASSUME NEW i \in 1..Len(stack)
      PROVE  (\A j \in 1..i : ~Stops(stack, j)) <=> ~Cut(n, stack[i])
  <2>1. \A j : j \in 1..i <=> j \in 1..Len(stack) /\ j <= i
    BY <1>1
  <2>2. Cut(n, stack[i]) <=> \E j \in 1..Len(stack) : stack[i] <= stack[j] /\ Stops(stack, j)
    BY <1>2, <1>3 DEF Cut
  <2> QED
    BY <1>6, <2>1, <2>2
<1>8. \A i : i \in walked <=> i \in 1..Len(stack) /\ stack[i] \in Covering(n)
  <2>1. Covering(n) = {s \in Above(n) : IsStmt(s) /\ ~Cut(n, s)}
    BY CoveringCut
  <2> QED
    BY <1>2, <1>5, <1>7, <2>1
<1>9. \A s \in Covering(n) : \E i \in walked : s = stack[i]
  <2>1. Covering(n) \subseteq Above(n)
    BY CoveringCut
  <2> QED
    BY <1>2, <1>8, <2>1
<1>10. \A s, t \in Covering(n) : Holds(t, s) <=> t <= s
  <2>1. Covering(n) \subseteq Above(n) /\ n \in 0..Len(pkg.node)
    BY <1>0, CoveringCut
  <2>2. \A s \in Above(n) : Above(s) = {t \in Above(n) : t <= s}
    BY <2>1, AboveChain
  <2> QED
    BY <2>1, <2>2 DEF Holds, Above
<1>11. ASSUME NEW i \in walked
       PROVE  /\ (\A j \in walked : j <= i) <=> \A t \in Covering(n) : Holds(stack[i], t)
              /\ (\A j \in walked : i <= j) <=> \A t \in Covering(n) : Holds(t, stack[i])
  <2>1. i \in 1..Len(stack) /\ stack[i] \in Covering(n)
    BY <1>8
  <2>2. \A j \in walked : j \in 1..Len(stack) /\ stack[j] \in Covering(n)
    BY <1>8
  <2>3. \A j \in walked : /\ j <= i <=> Holds(stack[i], stack[j])
                          /\ i <= j <=> Holds(stack[j], stack[i])
    BY <1>6, <1>10, <2>1, <2>2
  <2> QED
    BY <1>9, <2>2, <2>3
<1> DEFINE Said(s) == (\A t \in Covering(n) : Holds(t, s)) \/ (\A t \in Covering(n) : Holds(s, t))
<1>12. \A s : s \in EnclosingStmts(n) <=> \E i \in walked : s = stack[i] /\ Said(stack[i])
  BY <1>4, <1>11
<1> HIDE DEF Said
<1>13. \A s : s \in EnclosingStmts(n) <=> s \in Covering(n) /\ Said(s)
  BY <1>8, <1>9, <1>12
<1> QED
  BY <1>13 DEF Said

LEMMA LinesAbove ==
  ASSUME pkg \in Packages, NEW n \in Node, NEW line \in Nat
  PROVE  line + 1 \in CandidateLines(n) <=> DirectlyAbove(n, line)
<1> DEFINE f == pkg.node[n].file
           said(s) == (\A t \in Covering(n) : Holds(t, s)) \/ (\A t \in Covering(n) : Holds(s, t))
<1>1. EnclosingStmts(n) = {s \in Covering(n) : said(s)}
  BY EnclosingCovering
<1>2. line + 1 \in CandidateLines(n) <=>
        \/ line + 1 = LineOf(f, pkg.node[n].pos)
        \/ \E s \in EnclosingStmts(n) : line + 1 = LineOf(f, pkg.node[s].pos)
        \/ pkg.node[n].kind = "assert" /\ line + 1 = LineOf(f, pkg.node[n].token)
  BY DEF CandidateLines
<1>3. DirectlyAbove(n, line) <=>
        \/ line + 1 = LineOf(f, pkg.node[n].pos)
        \/ pkg.node[n].kind = "assert" /\ line + 1 = LineOf(f, pkg.node[n].token)
        \/ \E s \in Covering(n) : said(s) /\ line + 1 = LineOf(f, pkg.node[s].pos)
  BY DEF DirectlyAbove
<1> HIDE DEF said, f
<1> QED
  BY <1>1, <1>2, <1>3
-------------------------------------------------------------------------------
(* The own line of a comment.                                              *)

LEMMA LineGrows ==
  ASSUME NEW f, NEW start \in Nat, NEW i \in 1..start
  PROVE  LineOf(f, i - 1) < LineOf(f, start) <=> \E j \in i..start : pkg.text[f][j] = Newline
<1> DEFINE S == {k \in 1..(i - 1) : pkg.text[f][k] = Newline}
           T == {k \in 1..start : pkg.text[f][k] = Newline}
<1>1. IsFiniteSet(T) /\ S \in SUBSET T
  <2>1. IsFiniteSet(1..start)
    BY FS_Interval
  <2>2. T \in SUBSET (1..start)
    OBVIOUS
  <2>3. S \in SUBSET T
    OBVIOUS
  <2> HIDE DEF S, T
  <2> QED
    BY <2>1, <2>2, <2>3, FS_Subset
<1>2. LineOf(f, i - 1) = 1 + Cardinality(S) /\ LineOf(f, start) = 1 + Cardinality(T)
  BY DEF LineOf
<1>3. S = T <=> ~\E j \in i..start : pkg.text[f][j] = Newline
  OBVIOUS
<1> HIDE DEF S, T
<1>4. /\ Cardinality(S) \in Nat /\ Cardinality(T) \in Nat /\ Cardinality(S) <= Cardinality(T)
      /\ Cardinality(S) = Cardinality(T) => S = T
  BY <1>1, FS_Subset, FS_CardinalityType
<1> QED
  BY <1>2, <1>3, <1>4

LEMMA OwnLine ==
  ASSUME pkg \in Packages, NEW f \in File, NEW g \in pkg.groups[f]
  PROVE  StartsOwnLine(pkg.text[f], g.start) <=> OwnsLine(f, g)
<1> DEFINE text == pkg.text[f]
           start == g.start
           Opens(n) == (n = 0 \/ text[n] = Newline) /\ \A i \in n + 1..start : text[i] = Blank
<1>1. text \in Bytes /\ text # Unreadable /\ start \in Nat /\ Len(text) \in Nat /\ ~(start > Len(text))
  <2>1. text \in Bytes /\ start \in Nat /\ start <= Len(text)
    BY PackageAssumption
  <2>2. Len(text) \in Nat
    BY <2>1 DEF Bytes
  <2> QED
    BY <2>1, <2>2, NoIndexAssumption
<1>2. StartsOwnLine(text, start) <=> \E n \in 0..start : Opens(n)
  BY <1>1 DEF StartsOwnLine
<1>3. OwnsLine(f, g) <=> \A i \in 1..start : text[i] = Code => \E j \in i..start : text[j] = Newline
  <2>1. OwnsLine(f, g) <=> \A i \in 1..start : text[i] = Code => LineOf(f, i - 1) < LineOf(f, start)
    BY DEF OwnsLine
  <2>2. \A i \in 1..start : LineOf(f, i - 1) < LineOf(f, start) <=> \E j \in i..start : text[j] = Newline
    BY <1>1, LineGrows
  <2> HIDE DEF text, start
  <2> QED
    BY <2>1, <2>2
<1>4. \A i \in 1..start : text[i] \notin {Code, Blank} => \E j \in i..start : text[j] \in {Code, Newline}
  BY GroupAssumption
<1>5. Code # Newline /\ Code # Blank /\ Blank # Newline
  BY GroupAssumption
<1> HIDE DEF text, start
<1>6. ASSUME NEW n \in 0..start, Opens(n), NEW i \in 1..start, text[i] = Code
      PROVE  \E j \in i..start : text[j] = Newline
  <2>1. ~(n < i)
    <3> SUFFICES ASSUME n < i PROVE FALSE
      OBVIOUS
    <3>1. i \in n + 1..start
      BY <1>1, <1>6
    <3> QED
      BY <1>5, <1>6, <3>1
  <2>2. n \in i..start /\ n # 0
    BY <1>1, <2>1
  <2> QED
    BY <1>6, <2>2
<1>7. ASSUME \A i \in 1..start : text[i] = Code => \E j \in i..start : text[j] = Newline
      PROVE  \E n \in 0..start : Opens(n)
  <2> DEFINE Breaks == {n \in 0..start : n = 0 \/ text[n] = Newline}
             Left == {start - n : n \in Breaks}
  <2>1. Left \subseteq Nat /\ Left # {}
    <3>1. 0 \in Breaks /\ \A n \in Breaks : start - n \in Nat
      BY <1>1
    <3> HIDE DEF Breaks
    <3> QED
      BY <3>1
  <2>2. PICK m \in Left : \A k \in Left : m <= k
    <3> HIDE DEF Left
    <3> QED
      BY <2>1, LeastNumber
  <2>3. PICK n \in Breaks : m = start - n
    BY <2>2
  <2>4. \A k \in Breaks : k <= n
    <3> SUFFICES ASSUME NEW k \in Breaks PROVE k <= n
      OBVIOUS
    <3>1. start - n <= start - k
      BY <2>2, <2>3
    <3>2. k \in Nat /\ n \in Nat
      BY <1>1, <2>3
    <3> QED
      BY <1>1, <3>1, <3>2
  <2>5. n \in 0..start /\ (n = 0 \/ text[n] = Newline)
    BY <2>3
  <2>6. \A j \in n + 1..start : text[j] # Newline
    <3> SUFFICES ASSUME NEW j \in n + 1..start, text[j] = Newline PROVE FALSE
      OBVIOUS
    <3>1. j \in 0..start /\ j > n
      BY <1>1, <2>5
    <3>2. j \in Breaks
      BY <3>1
    <3> QED
      BY <1>1, <2>4, <2>5, <3>1, <3>2
  <2>7. \A j \in n + 1..start : text[j] # Code
    <3> SUFFICES ASSUME NEW j \in n + 1..start, text[j] = Code PROVE FALSE
      OBVIOUS
    <3>1. j \in 1..start
      BY <1>1, <2>5
    <3>2. PICK k \in j..start : text[k] = Newline
      BY <1>7, <3>1
    <3>3. k \in n + 1..start
      BY <1>1, <2>5, <3>2
    <3> QED
      BY <2>6, <3>2, <3>3
  <2>8. \A i \in n + 1..start : text[i] = Blank
    <3> SUFFICES ASSUME NEW i \in n + 1..start, text[i] # Blank PROVE FALSE
      OBVIOUS
    <3>1. i \in 1..start /\ \A j \in i..start : j \in n + 1..start
      BY <1>1, <2>5
    <3> QED
      BY <1>4, <2>6, <2>7, <3>1
  <2> QED
    BY <2>5, <2>8
<1> HIDE DEF Opens
<1> QED
  BY <1>2, <1>3, <1>6, <1>7 DEF text, start

(* A comment above, in the index of the files as they were parsed, is one  *)
(* that the documentation takes.                                           *)
LEMMA AboveJustified ==
  ASSUME pkg \in Packages, NEW n \in Node
  PROVE  CommentAbove(IndexOf(pkg.text), n) <=> Justified(n)
<1> DEFINE f == pkg.node[n].file
           entry(g) == [line |-> LineOf(f, g.end), own |-> StartsOwnLine(pkg.text[f], g.start)]
<1>1. f \in File
  BY NodesTyped
<1>2. IndexOf(pkg.text)[f] = {entry(g) : g \in pkg.groups[f]}
  BY <1>1 DEF IndexOf
<1>3. \A g : entry(g).line = LineOf(f, g.end) /\ entry(g).own = StartsOwnLine(pkg.text[f], g.start)
  OBVIOUS
<1>4. \A g \in pkg.groups[f] : LineOf(f, g.end) \in Nat
  BY <1>1, PackageAssumption, LineNumber
<1>5. CommentAbove(IndexOf(pkg.text), n) <=>
        \E g \in pkg.groups[f] : StartsOwnLine(pkg.text[f], g.start) /\ LineOf(f, g.end) + 1 \in CandidateLines(n)
  <2>1. CommentAbove(IndexOf(pkg.text), n) <=>
          \E c \in IndexOf(pkg.text)[f] : c.own /\ c.line + 1 \in CandidateLines(n)
    BY DEF CommentAbove
  <2> HIDE DEF entry, f
  <2> QED
    BY <1>2, <1>3, <2>1
<1>6. \A g \in pkg.groups[f] : StartsOwnLine(pkg.text[f], g.start) <=> OwnsLine(f, g)
  BY <1>1, OwnLine
<1>7. \A g \in pkg.groups[f] : LineOf(f, g.end) + 1 \in CandidateLines(n) <=> DirectlyAbove(n, LineOf(f, g.end))
  BY <1>4, LinesAbove
<1>8. Justified(n) <=> \E g \in pkg.groups[f] : OwnsLine(f, g) /\ DirectlyAbove(n, LineOf(f, g.end))
  BY DEF Justified
<1> HIDE DEF f
<1> QED
  BY <1>5, <1>6, <1>7, <1>8
-------------------------------------------------------------------------------
(* The exemptions.                                                         *)

(* The innermost function is the one of the highest number, and names all  *)
(* of them.                                                                *)
LEMMA InnermostFunction ==
  ASSUME pkg \in Packages, NEW n \in Node
  PROVE  /\ FunctionOf(n) = 0 <=> Around(n) = {}
         /\ FunctionOf(n) # 0 => /\ FunctionOf(n) \in Around(n)
                                 /\ \A m \in Around(n) : m <= FunctionOf(n)
                                 /\ Around(n) = Around(FunctionOf(n))
<1> DEFINE stack == Stack(n)
           funcs == {i \in DOMAIN stack : pkg.node[stack[i]].kind \in {"decl", "lit"}}
           least == CHOOSE i \in funcs : \A j \in funcs : i <= j
<1>0. Len(pkg.node) \in Nat /\ Node = 1..Len(pkg.node) /\ n \in 0..Len(pkg.node)
      /\ \A m \in Node : m \in Nat /\ m # 0
  BY NodesTyped
<1>1. /\ DOMAIN stack = 1..Len(stack) /\ Len(stack) \in Nat
      /\ \A j, k \in 1..Len(stack) : j < k => stack[k] < stack[j]
  <2>1. Descending(n)
    BY <1>0, StackDescends
  <2>2. stack \in Seq(1..n)
    BY <2>1 DEF Descending
  <2> HIDE DEF stack
  <2>3. DOMAIN stack = 1..Len(stack) /\ Len(stack) \in Nat
    BY <2>2, LenProperties
  <2> QED
    BY <2>1, <2>3 DEF Descending, stack
<1>2. Above(n) = {stack[j] : j \in 1..Len(stack)}
  BY <1>1 DEF Above, Range
<1>3. \A m \in Above(n) : m \in Node /\ m \in Nat /\ m # 0 /\ Above(m) = {t \in Above(n) : t <= m}
  BY <1>0, AboveChain
<1>4. Around(n) = {stack[i] : i \in funcs}
  BY <1>1, <1>2 DEF Around, Above
<1>5. FunctionOf(n) = IF funcs = {} THEN 0 ELSE stack[least]
  BY DEF FunctionOf
<1>6. funcs \subseteq Nat /\ funcs \subseteq 1..Len(stack)
  BY <1>1
<1>7. Around(n) \subseteq Above(n)
  BY DEF Around, Above
<1>8. CASE funcs = {}
  <2> HIDE DEF funcs, stack
  <2> QED
    BY <1>4, <1>5, <1>8
<1>9. CASE funcs # {}
  <2>1. least \in funcs /\ \A j \in funcs : least <= j
    <3> HIDE DEF funcs
    <3> QED
      BY <1>6, <1>9, LeastNumber
  <2> HIDE DEF funcs, least, stack
  <2>2. FunctionOf(n) = stack[least] /\ FunctionOf(n) \in Around(n) /\ FunctionOf(n) # 0
    BY <1>3, <1>4, <1>5, <1>7, <1>9, <2>1
  <2>3. \A m \in Around(n) : m <= FunctionOf(n)
    <3> SUFFICES ASSUME NEW i \in funcs PROVE stack[i] <= stack[least]
      BY <1>4, <2>2
    <3>1. i \in 1..Len(stack) /\ least \in 1..Len(stack) /\ least <= i
      BY <1>6, <2>1
    <3>2. stack[i] \in Nat /\ stack[least] \in Nat
      BY <1>2, <1>3, <3>1
    <3>3. CASE i = least
      BY <3>2, <3>3
    <3>4. CASE least < i
      BY <1>1, <3>1, <3>2, <3>4
    <3> QED
      BY <1>1, <3>1, <3>3, <3>4
  <2>4. Around(n) = Around(FunctionOf(n))
    <3>1. Above(FunctionOf(n)) = {t \in Above(n) : t <= FunctionOf(n)}
      BY <1>3, <1>7, <2>2
    <3> QED
      BY <1>7, <2>3, <3>1 DEF Around, Above
  <2> QED
    BY <2>2, <2>3, <2>4
<1> QED
  BY <1>8, <1>9

LEMMA SameFunction ==
  ASSUME pkg \in Packages, NEW m \in Node, NEW n \in Node
  PROVE  FunctionOf(m) = FunctionOf(n) <=> Around(m) = Around(n)
<1>1. ASSUME Around(m) = Around(n) PROVE FunctionOf(m) = FunctionOf(n)
  <2>1. CASE Around(n) = {}
    BY <1>1, <2>1, InnermostFunction
  <2>2. CASE Around(n) # {}
    <3>1. /\ FunctionOf(m) \in Around(n) /\ FunctionOf(n) \in Around(n)
          /\ FunctionOf(m) <= FunctionOf(n) /\ FunctionOf(n) <= FunctionOf(m)
      BY <1>1, <2>2, InnermostFunction
    <3>2. Around(n) \subseteq Nat
      <4>1. n \in 0..Len(pkg.node)
        BY NodesTyped
      <4>2. \A t \in Above(n) : t \in Nat
        BY <4>1, AboveChain
      <4> QED
        BY <4>2 DEF Around, Above
    <3> QED
      BY <3>1, <3>2
  <2> QED
    BY <2>1, <2>2
<1>2. ASSUME FunctionOf(m) = FunctionOf(n) PROVE Around(m) = Around(n)
  BY <1>2, InnermostFunction
<1> QED
  BY <1>1, <1>2

(* The rule asks for a comment where the documentation grants no exemption.*)
LEMMA JudgedExempt ==
  ASSUME pkg \in Packages, NEW n \in Node
  PROVE  Judged(n) <=> ~Exempt(n)
<1> DEFINE node == pkg.node[n]
<1>1. Node = DOMAIN pkg.node /\ n \in 0..Len(pkg.node) /\ pkg.rule \in {"safetyassert", "justifypanic"}
  BY NodesTyped, RuleAssumption DEF Node
<1>2. Rethrows(n) <=> Reraises(n)
  <2>1. \A m \in Node : FunctionOf(m) = FunctionOf(n) <=> Around(m) = Around(n)
    BY SameFunction
  <2>2. FunctionOf(n) = 0 <=> Around(n) = {}
    BY InnermostFunction
  <2>3. node.raises \in Recovered(n) <=>
          \E m \in Node : /\ pkg.node[m].kind = "stmt" /\ pkg.node[m].fills # ""
                          /\ pkg.node[m].fills = node.raises /\ FunctionOf(m) = FunctionOf(n)
    BY DEF Recovered
  <2> QED
    BY <2>1, <2>2, <2>3 DEF Rethrows, Reraises
<1>3. ProgramEntry(n) <=> Around(n) \cap {m \in Node : pkg.node[m].kind = "decl" /\ pkg.node[m].entry} # {}
  <2>1. Range(Stack(n)) \subseteq Node
    BY <1>1, AboveChain DEF Above
  <2> QED
    BY <2>1 DEF ProgramEntry, Around
<1>4. CASE pkg.rule = "safetyassert"
  BY <1>4 DEF Judged, Exempt
<1>5. CASE pkg.rule = "justifypanic"
  BY <1>2, <1>3, <1>5 DEF Judged, Exempt
<1> QED
  BY <1>1, <1>4, <1>5

(* What the files as parsed leave silent is what the documentation reports.*)
LEMMA SilentDocumented ==
  ASSUME Typed
  PROVE  Silent(pkg.text) = Documented
<1>1. pkg \in Packages /\ 1..next \subseteq Node
  <2>1. pkg \in Packages /\ next \in 0..Len(pkg.node)
    BY DEF Typed
  <2> QED
    BY <2>1, NodesTyped
<1>2. \A n \in 1..next : /\ Judged(n) <=> ~Exempt(n)
                         /\ CommentAbove(IndexOf(pkg.text), n) <=> Justified(n)
  BY <1>1, JudgedExempt, AboveJustified
<1> QED
  BY <1>2 DEF Silent, Documented

(* A pass that reads the files as they were parsed reports every node that *)
(* the documentation asks a comment for and that has none in its place,    *)
(* for any package, any nesting of statements and any bytes.               *)
THEOREM PassDocumented == Spec => []ReportsDocumented
<1>1. IInv => ReportsDocumented
  <2> SUFFICES ASSUME IInv, first \in {NoIndex, pkg.text} PROVE reports = Documented
    BY DEF ReportsDocumented
  <2>1. Silent(pkg.text) = Documented
    BY SilentDocumented DEF IInv
  <2>2. CASE index = NoIndex /\ first = NoIndex /\ reports = {} /\ \A n \in 1..next : ~Judged(n)
    <3>1. Silent(pkg.text) = {}
      BY <2>2 DEF Silent
    <3> QED
      BY <2>1, <2>2, <3>1
  <2>3. CASE first \in Contents /\ index = IndexOf(first) /\ reports = Silent(first)
    <3>1. first # NoIndex
      BY <2>3, NoIndexAssumption DEF Contents
    <3> QED
      BY <2>1, <2>3, <3>1
  <2> QED
    BY <2>2, <2>3 DEF IInv, Kept
<1> QED
  BY <1>1, Invariant, PTL

(* Files that are gone or cut short may hide a report and never make one.  *)
THEOREM LossDocumented == Spec => []LossSilences
<1>1. IInv /\ LossHides => LossSilences
  BY SilentDocumented DEF IInv, LossHides, LossSilences
<1> QED
  BY <1>1, Invariant, LossNeverReports, PTL
===============================================================================
