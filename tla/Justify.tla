-------------------------------- MODULE Justify -------------------------------
(***************************************************************************)
(* The justification comments (internal/signature, justify.go), and the    *)
(* two rules that ask for one in any wording: G01 safetyassert for a type  *)
(* assertion that can panic, G11 justifypanic for a call that stops the    *)
(* process.                                                                *)
(*                                                                         *)
(* One behaviour is one pass of one of the rules over a package, while the *)
(* files on disk change under it.                                          *)
(***************************************************************************)
EXTENDS Integers, Sequences, FiniteSets, SequencesExt

CONSTANTS
  File,
  Byte,
  Code, Blank, Newline,   (* the bytes that are told apart                 *)
  Unreadable,             (* the content of a file that cannot be read     *)
  NoIndex,
  Packages                (* the packages to consider, see below           *)

(***************************************************************************)
(* A package p has                                                         *)
(*   rule       the rule that reads it                                     *)
(*   text       of each file, the bytes that were parsed                   *)
(*   groups     of each file, the comment groups: offset of start and end  *)
(*   node       the syntax nodes, in the order of the walk; each with its  *)
(*              file, its offset pos, the number of its parent (0: none)   *)
(*              and its kind:                                              *)
(*     "decl"     a declaration of a function: entry, whether the runtime  *)
(*                calls it (main of package main or init, no receiver)     *)
(*     "lit"      a function literal                                       *)
(*     "block"                                                             *)
(*     "clause"   of a switch or a select: first, the first statement of   *)
(*                its body (0: none)                                       *)
(*     "stmt"     fills, the variable that a recover() here fills ("": no) *)
(*     "assert"   token, the offset of .( ; single, whether it is neither  *)
(*                the comma-ok form nor the head of a type switch          *)
(*     "call"     stops, whether it ends the process; raises, what the     *)
(*                builtin panic gets: "recover" for the call, the name of  *)
(*                a variable, or "" for all else                           *)
(*   generated, testFile   of each file                                    *)
(*   changes    of each file, what it may become on disk during the pass   *)
(***************************************************************************)
Bytes == Seq(Byte)

ASSUME PackageAssumption ==
  \A p \in Packages :
    /\ p.text \in [File -> Bytes]
    /\ \A f \in File :
         /\ \A g \in p.groups[f] : g.start \in Nat /\ g.end \in Nat /\ g.start <= Len(p.text[f])
         /\ p.changes[f] \subseteq Bytes \cup {Unreadable}
    /\ Len(p.node) \in Nat /\ DOMAIN p.node = 1..Len(p.node)
    /\ \A n \in DOMAIN p.node : p.node[n].parent \in 0..(n - 1) /\ p.node[n].file \in File

(* The clauses of a switch or a select stand in its block.                 *)
ASSUME ClauseAssumption ==
  \A p \in Packages : \A n \in DOMAIN p.node : p.node[n].kind = "clause" =>
    /\ p.node[n].parent # 0 /\ p.node[p.node[n].parent].kind = "block"
    /\ p.node[n].first # 0 => /\ p.node[n].first \in DOMAIN p.node
                              /\ p.node[p.node[n].first].parent = n

(* Between two comment groups on a line stands code: without it the parser *)
(* makes them one.                                                         *)
ASSUME GroupAssumption ==
  /\ Code # Newline /\ Code # Blank /\ Blank # Newline
  /\ \A p \in Packages : \A f \in File : \A g \in p.groups[f] : \A i \in 1..g.start :
       p.text[f][i] \notin {Code, Blank} =>
         \E j \in i..g.start : p.text[f][j] \in {Code, Newline}

ASSUME RuleAssumption == \A p \in Packages : p.rule \in {"safetyassert", "justifypanic"}

ASSUME NoIndexAssumption ==
  /\ NoIndex \notin [File -> SUBSET [line : Nat, own : BOOLEAN]]
  /\ NoIndex \notin [File -> Bytes \cup {Unreadable}]
  /\ Unreadable \notin Bytes

VARIABLES
  pkg,      (* the package                                                 *)
  disk,     (* the content of each file now                                *)
  index,    (* commentIndex: NoIndex until the first question              *)
  next,     (* the nodes that the walk has passed                          *)
  reports,
  first     (* history: the disk at the first question                     *)

vars == <<pkg, disk, index, next, reports, first>>

Node == DOMAIN pkg.node
-------------------------------------------------------------------------------
(* Lines, as the parser counted them.                                      *)
LineOf(f, offset) == 1 + Cardinality({i \in 1..offset : pkg.text[f][i] = Newline})

(* The nodes that hold n, n included: the stack of the inspector, from the *)
(* innermost node out.                                                     *)
Stack(n) ==
  LET above[m \in 0..Len(pkg.node)] ==
        IF m = 0 THEN <<>> ELSE <<m>> \o above[pkg.node[m].parent]
  IN above[n]

IsStmt(n) == pkg.node[n].kind \in {"stmt", "clause"}

(* Mutant: a clause covers every statement of its body.                    *)
StopsAtBlock(stack, i) == pkg.node[stack[i]].kind = "block"

(* The walk of enclosingStmts ends at a block, and at a clause in whose    *)
(* first statement it did not come up.                                     *)
Stops(stack, i) ==
  \/ pkg.node[stack[i]].kind = "block"
  \/ /\ pkg.node[stack[i]].kind = "clause"
     /\ \A outer \in 1..(i - 1) :
          stack[outer] = pkg.node[stack[i]].first =>
            \E j \in outer + 1..i - 1 : IsStmt(stack[j])

(* The innermost and the outermost statement of the walk.                  *)
EnclosingStmts(n) ==
  LET stack  == Stack(n)
      walked == {i \in DOMAIN stack : IsStmt(stack[i]) /\ \A j \in 1..i : ~Stops(stack, j)}
  IN {stack[i] : i \in {i \in walked : (\A j \in walked : j <= i) \/ (\A j \in walked : i <= j)}}

CandidateLines(n) ==
  LET node == pkg.node[n] IN
  {LineOf(node.file, node.pos)}
  \cup {LineOf(node.file, pkg.node[s].pos) : s \in EnclosingStmts(n)}
  \cup (IF node.kind = "assert" THEN {LineOf(node.file, node.token)} ELSE {})
-------------------------------------------------------------------------------
(* Mutant: a comment whose bytes are missing is taken for a trailing one.  *)
StartsOwnLineClosed(src, start) ==
  /\ src # Unreadable /\ start <= Len(src)
  /\ \E n \in 0..start : (n = 0 \/ src[n] = Newline) /\ \A i \in n + 1..start : src[i] = Blank

(* Only blanks between the start of the line and the comment.  Without the *)
(* bytes the answer is yes.                                                *)
StartsOwnLine(src, start) ==
  \/ src = Unreadable
  \/ start > Len(src)
  \/ \E n \in 0..start : (n = 0 \/ src[n] = Newline) /\ \A i \in n + 1..start : src[i] = Blank

(* newCommentIndex, from the content of the files at that time.            *)
IndexOf(content) ==
  [f \in File |->
     {[line |-> LineOf(f, g.end), own |-> StartsOwnLine(content[f], g.start)] : g \in pkg.groups[f]}]

CommentAbove(comments, n) ==
  \E c \in comments[pkg.node[n].file] : c.own /\ c.line + 1 \in CandidateLines(n)

(* The innermost function around a node.                                   *)
FunctionOf(n) ==
  LET stack == Stack(n)
      funcs == {i \in DOMAIN stack : pkg.node[stack[i]].kind \in {"decl", "lit"}}
  IN IF funcs = {} THEN 0 ELSE stack[CHOOSE i \in funcs : \A j \in funcs : i <= j]

ProgramEntry(n) ==
  \E m \in Range(Stack(n)) : pkg.node[m].kind = "decl" /\ pkg.node[m].entry

(* Mutant: a recover in a nested literal counts.                           *)
RecoveredAnywhere(n) ==
  {pkg.node[m].fills : m \in {m \in Node : pkg.node[m].kind = "stmt" /\ FunctionOf(n) \in Range(Stack(m))}} \ {""}

(* The variables that a recover of the same function fills.                *)
Recovered(n) ==
  {pkg.node[m].fills : m \in {m \in Node : pkg.node[m].kind = "stmt" /\ FunctionOf(m) = FunctionOf(n)}} \ {""}

Rethrows(n) ==
  LET raised == pkg.node[n].raises IN
  raised = "recover" \/ (FunctionOf(n) # 0 /\ raised \in Recovered(n))

(* The nodes that the rule asks a comment for.                             *)
Judged(n) ==
  LET node == pkg.node[n] IN
  /\ ~pkg.generated[node.file]
  /\ \/ pkg.rule = "safetyassert" /\ node.kind = "assert" /\ node.single
     \/ /\ pkg.rule = "justifypanic" /\ node.kind = "call" /\ node.stops
        /\ ~pkg.testFile[node.file] /\ ~ProgramEntry(n) /\ ~Rethrows(n)
-------------------------------------------------------------------------------
(* Mutant: the index is built for every question.                          *)
AskAlways(n) ==
  /\ index' = IndexOf(disk)
  /\ first' = IF index = NoIndex THEN disk ELSE first
  /\ reports' = IF CommentAbove(index', n) THEN reports ELSE reports \cup {n}

(* Mutant: the index is not kept.                                          *)
AskForgets(n) ==
  /\ index' = index
  /\ first' = IF first = NoIndex THEN disk ELSE first
  /\ reports' = IF CommentAbove(IndexOf(disk), n) THEN reports ELSE reports \cup {n}

(* CommentAboveWhere, and the report.                                      *)
Ask(n) ==
  /\ index' = IF index = NoIndex THEN IndexOf(disk) ELSE index
  /\ first' = IF index = NoIndex THEN disk ELSE first
  /\ reports' = IF CommentAbove(index', n) THEN reports ELSE reports \cup {n}

(* The inspector comes to the next node.                                   *)
Visit ==
  /\ next < Len(pkg.node)
  /\ next' = next + 1
  /\ IF Judged(next + 1) THEN Ask(next + 1) ELSE UNCHANGED <<index, reports, first>>
  /\ UNCHANGED <<pkg, disk>>

(* Somebody changes, cuts or removes a file that was parsed.               *)
Change(f) ==
  /\ next < Len(pkg.node)
  /\ \E content \in pkg.changes[f] : disk[f] # content /\ disk' = [disk EXCEPT ![f] = content]
  /\ UNCHANGED <<pkg, index, next, reports, first>>

Init ==
  /\ pkg \in Packages
  /\ disk = pkg.text
  /\ index = NoIndex /\ first = NoIndex
  /\ next = 0 /\ reports = {}

Next == Visit \/ \E f \in File : Change(f)

Spec == Init /\ [][Next]_vars
-------------------------------------------------------------------------------
TypeOK ==
  /\ index = NoIndex <=> first = NoIndex
  /\ first # NoIndex => DOMAIN first = File /\ DOMAIN index = File
  /\ DOMAIN disk = File
  /\ next \in 0..Len(pkg.node) /\ reports \subseteq 1..next

(***************************************************************************)
(* What docs/spec/003-implementation.md says of the place of a comment,    *)
(* from the containment of statements and not from a walk: the statements  *)
(* with no block between them and the node; a clause only for its first    *)
(* statement.                                                              *)
(***************************************************************************)
Holds(m, n) == m \in Range(Stack(n))

Covering(n) ==
  {s \in Node :
     /\ IsStmt(s) /\ Holds(s, n)
     /\ ~\E b \in Node : pkg.node[b].kind = "block" /\ Holds(s, b) /\ Holds(b, n)
     /\ pkg.node[s].kind = "clause" => pkg.node[s].first # 0 /\ Holds(pkg.node[s].first, n)}

DirectlyAbove(n, line) ==
  LET node == pkg.node[n]
      IsInnermost(s) == \A t \in Covering(n) : Holds(t, s)
      IsOutermost(s) == \A t \in Covering(n) : Holds(s, t)
  IN \/ line + 1 = LineOf(node.file, node.pos)
     \/ node.kind = "assert" /\ line + 1 = LineOf(node.file, node.token)
     \/ \E s \in Covering(n) :
          (IsInnermost(s) \/ IsOutermost(s)) /\ line + 1 = LineOf(node.file, pkg.node[s].pos)

(* No code before the comment on the line where it starts.                 *)
OwnsLine(f, g) ==
  \A i \in 1..g.start :
    pkg.text[f][i] = Code => LineOf(f, i - 1) < LineOf(f, g.start)

Justified(n) ==
  \E g \in pkg.groups[pkg.node[n].file] :
    OwnsLine(pkg.node[n].file, g) /\ DirectlyAbove(n, LineOf(pkg.node[n].file, g.end))

(* "A variable that a recover() call of the same function filled", in any  *)
(* order; a literal is a function of its own.                              *)
Around(n) == {m \in Range(Stack(n)) : pkg.node[m].kind \in {"decl", "lit"}}

Reraises(n) ==
  \/ pkg.node[n].raises = "recover"
  \/ \E m \in Node :
       /\ pkg.node[m].kind = "stmt" /\ pkg.node[m].fills # ""
       /\ pkg.node[m].fills = pkg.node[n].raises /\ Around(m) = Around(n) /\ Around(n) # {}

(* What docs/spec/002-rules.md lets go without a comment: "the declaration *)
(* that holds the call decides".                                           *)
Exempt(n) ==
  LET node == pkg.node[n] IN
  \/ pkg.generated[node.file]
  \/ CASE pkg.rule = "safetyassert" -> node.kind # "assert" \/ ~node.single
      [] OTHER ->
           \/ node.kind # "call" \/ ~node.stops \/ pkg.testFile[node.file]
           \/ Around(n) \cap {m \in Node : pkg.node[m].kind = "decl" /\ pkg.node[m].entry} # {}
           \/ Reraises(n)

(* Of the nodes passed, those that the documentation says are reported.    *)
Documented == {n \in 1..next : ~Exempt(n) /\ ~Justified(n)}
-------------------------------------------------------------------------------
(* When the files are read as they were parsed, the rule reports every     *)
(* assertion or call that it judges and that no comment of its own line    *)
(* stands directly above: neither a comment above a block, nor one above   *)
(* the clause of a later statement, nor one that follows code, is enough.  *)
(* The walk of the stack, the index by line and the scan of the bytes      *)
(* together answer that (justify.go:97, 150, 200).                         *)
ReportsDocumented == first \in {NoIndex, pkg.text} => reports = Documented

(* All answers of a pass come from one reading of the files, that at the   *)
(* first question, whatever happens to the files afterwards and however    *)
(* many nodes came before that question (justify.go:51).                   *)
OneReading ==
  reports = {n \in 1..next : Judged(n) /\ ~CommentAbove(IndexOf(first), n)}

(* A file that is gone or cut short may hide a report and never makes one  *)
(* (justify.go:160, 203): "Fail open".                                     *)
Lost(content, text) == content = Unreadable \/ IsPrefix(content, text)

LossSilences ==
  (first # NoIndex /\ \A f \in File : Lost(first[f], pkg.text[f])) => reports \subseteq Documented
===============================================================================
