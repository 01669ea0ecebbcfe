------------------------------- MODULE Multiline ------------------------------
(***************************************************************************)
(* Rule G15, multilinecase: a test case that puts several keyed fields on  *)
(* one line (analyzers/multilinecase), the files that the rule reads       *)
(* (internal/signature, files.go), and a developer who edits the cases,    *)
(* runs the rule and lets it fix what it reports.                          *)
(***************************************************************************)
EXTENDS PathMatch, FiniteSets

CONSTANTS
  Order,       (* the files of the package, as the pass lists them         *)
  Var,
  Table,       (* the composite literals                                   *)
  Elts,        (* Elts[t]: the cases of the table; NoCase for an element   *)
               (* that is no literal of a struct                           *)
  Case, NoCase,
  Fields, Keyed,  (* the fields of a case; whether all have keys           *)
  Packages,    (* the packages to consider, with their settings            *)
  Commented,   (* the sets of cases that may hold a comment at first       *)
  MaxEdits     (* bound on the edits of the developer                      *)

File == Range(Order)

(* What stands after range or as an initializer.                           *)
Expr == [kind : {"literal"}, table : Table] \cup [kind : {"name"}, var : Var] \cup [kind : {"other"}]

ASSUME PackageAssumption ==
  /\ Order \in Seq(File) /\ IsInjective(Order)
  /\ IsFiniteSet(Case) /\ NoCase \notin Case
  /\ Elts \in [Table -> Seq(Case \cup {NoCase})]
  /\ \A t, u \in Table : \A i \in DOMAIN Elts[t], j \in DOMAIN Elts[u] :
       Elts[t][i] = Elts[u][j] /\ Elts[t][i] # NoCase => t = u /\ i = j
  /\ Fields \in [Case -> Nat] /\ Keyed \in [Case -> BOOLEAN]
  /\ \A p \in Packages :
       /\ p.min \in Int /\ p.path \in Seq(Char) /\ p.patterns \in Seq(Seq(Char \cup {Star, Dots}))
       /\ p.testName \in [File -> BOOLEAN]
       /\ p.header \in [File -> Seq([above : BOOLEAN, marker : BOOLEAN])]
       /\ \A f \in File : \A j \in DOMAIN p.header[f] : \A i \in 1..j :
            p.header[f][j].above => p.header[f][i].above
       /\ p.ranges \in [File -> Seq(Expr)]
       /\ p.init \in [Var -> [file : File, value : Expr]]
  /\ Commented \subseteq SUBSET Case /\ MaxEdits \in Nat

VARIABLES
  pkg,         (* the package                                              *)
  split,       (* the cases whose braces stand on different lines          *)
  comments,    (* the cases with a comment between their braces            *)
  lost,        (* the cases whose comment a fix has removed                *)
  phase,
  files,       (* the files that the rule reads                            *)
  next,        (* the range statements that the run has visited            *)
  reports,     (* its reports                                              *)
  settled,     (* whether nothing but fixes happened since the last run    *)
  edits        (* bound: the edits so far                                  *)

source == <<split, comments>>
vars == <<pkg, split, comments, lost, phase, files, next, reports, settled, edits>>
-------------------------------------------------------------------------------
(* The elements of s that S holds, in their order.                         *)
Kept(s, S) == FlattenSeq([i \in DOMAIN s |-> IF s[i] \in S THEN <<s[i]>> ELSE <<>>])

(* The header of a file, up to the first comment that reaches past the     *)
(* package clause, holds a marker.                                         *)
IsGenerated(f) ==
  \E i \in DOMAIN pkg.header[f] :
    pkg.header[f][i].marker /\ \A j \in 1..i : pkg.header[f][j].above

IsTestFile(f) == IsTestPackage(pkg.patterns, pkg.path) \/ pkg.testName[f]

ReadFiles == Kept(Order, {f \in File : IsTestFile(f) /\ ~IsGenerated(f)})

(* The range statements of these files, in the order of the walk.          *)
Visits ==
  FlattenSeq([i \in DOMAIN files |->
                [k \in DOMAIN pkg.ranges[files[i]] |-> [file |-> files[i], expr |-> pkg.ranges[files[i]][k]]]])

NoTable == [kind |-> "other"]

(* r.inits: the initializer of a variable that these files declare.        *)
Initializer(v) == IF pkg.init[v].file \in Range(files) THEN pkg.init[v].value ELSE NoTable

Resolved(expr) == IF expr.kind = "name" THEN Initializer(expr.var) ELSE expr

Cases(expr) ==
  LET table == Resolved(expr) IN IF table.kind = "literal" THEN Elts[table.table] ELSE <<>>

Reported == {reports[i].case : i \in DOMAIN reports}

Larger(m, n) == IF m > n THEN m ELSE n

(* Mutant: an element need not be a literal of a struct.                   *)
ReportableElement(c) == c \notin Reported /\ c \notin split

(* Mutant: the second loop over a table reports its cases again.           *)
ReportableAgain(c) ==
  c # NoCase /\ Fields[c] >= Larger(pkg.min, 1) /\ Keyed[c] /\ c \notin split

(* Mutant: the lines of the braces are not compared.                       *)
ReportableSplit(c) ==
  c # NoCase /\ c \notin Reported /\ Fields[c] >= Larger(pkg.min, 1) /\ Keyed[c]

Reportable(c) ==
  /\ c # NoCase /\ c \notin Reported
  /\ Fields[c] >= Larger(pkg.min, 1) /\ Keyed[c]
  /\ c \notin split

(* The file in which a literal stands.                                     *)
FileOf(c) ==
  LET Holds(expr) == expr.kind = "literal" /\ c \in Range(Elts[expr.table])
      declaring == {v \in Var : Holds(pkg.init[v].value)} IN
  IF declaring # {} THEN pkg.init[CHOOSE v \in declaring : TRUE].file
  ELSE CHOOSE f \in File : \E k \in DOMAIN pkg.ranges[f] : Holds(pkg.ranges[f][k])

(* Mutant: no comment stands in the way of a fix.                          *)
FixableAlways(file, c) == TRUE

(* splitFix looks for a comment in the file of the range statement.        *)
Fixable(file, c) == ~(c \in comments /\ FileOf(c) = file)
-------------------------------------------------------------------------------
(* One range statement: readTable, readCase and the report of each case.   *)
ReadTable ==
  /\ phase = "run" /\ next < Len(Visits)
  /\ LET visit == Visits[next + 1]
         found == Kept(Cases(visit.expr), {c \in Case \cup {NoCase} : Reportable(c)}) IN
     reports' = reports \o [i \in DOMAIN found |->
                              [case |-> found[i], fix |-> Fixable(visit.file, found[i])]]
  /\ next' = next + 1
  /\ UNCHANGED <<pkg, source, lost, phase, files, settled, edits>>

Finish ==
  /\ phase = "run" /\ next = Len(Visits)
  /\ phase' = "ran"
  /\ UNCHANGED <<pkg, source, lost, files, next, reports, settled, edits>>

(* The rule runs again: the files that it reads are still the same.        *)
Again == phase' = "run" /\ next' = 0 /\ reports' = <<>>

(* The driver applies the fixes, whose edits replace what stands between   *)
(* the fields, and the rule runs again.                                    *)
Fix ==
  /\ phase = "ran"
  /\ LET fixed == {reports[i].case : i \in {j \in DOMAIN reports : reports[j].fix}} IN
     /\ fixed # {}
     /\ split' = split \cup fixed
     /\ comments' = comments \ fixed
     /\ lost' = lost \cup (comments \cap fixed)
  /\ Again /\ settled' = TRUE
  /\ UNCHANGED <<pkg, files, edits>>

(* The developer puts a case on one line, or comments it.                  *)
Edit(c) ==
  /\ phase = "ran" /\ edits < MaxEdits
  /\ \/ c \in split /\ split' = split \ {c} /\ UNCHANGED comments
     \/ c \notin comments /\ comments' = comments \cup {c} /\ UNCHANGED split
  /\ Again /\ settled' = FALSE
  /\ edits' = edits + 1
  /\ UNCHANGED <<pkg, files, lost>>

Init ==
  /\ pkg \in Packages
  /\ split = {} /\ comments \in Commented /\ lost = {}
  /\ phase = "run" /\ files = ReadFiles /\ next = 0 /\ reports = <<>>
  /\ settled = FALSE /\ edits = 0

Next == ReadTable \/ Finish \/ Fix \/ \E c \in Case : Edit(c)

Spec == Init /\ [][Next]_vars
-------------------------------------------------------------------------------
(* The run stays inside the package, and a fix is offered for a case.      *)
TypeOK ==
  /\ split \subseteq Case /\ comments \subseteq Case /\ lost \subseteq Case
  /\ phase \in {"run", "ran"} /\ files \in Seq(File) /\ next \in 0..Len(Visits)
  /\ reports \in Seq([case : Case, fix : BOOLEAN]) /\ Len(reports) <= Cardinality(Case)
  /\ settled \in BOOLEAN /\ edits \in 0..MaxEdits

(* The files the rule reads, by the documentation of the setting.          *)
Read ==
  LET serves == ServesTests(pkg.patterns, pkg.path) IN
  {f \in File :
     /\ pkg.testName[f] \/ serves
     /\ ~\E i \in DOMAIN pkg.header[f] : pkg.header[f][i].above /\ pkg.header[f][i].marker}

(* The tables that a range statement of the files reads, "in the range     *)
(* expression, or in the initializer of the variable".                     *)
TablesOf(read, f) ==
  LET stands == Range(pkg.ranges[f])
      declared == {pkg.init[v].value : v \in {w \in Var : /\ [kind |-> "name", var |-> w] \in stands
                                                         /\ pkg.init[w].file \in read}} IN
  {t \in Table : [kind |-> "literal", table |-> t] \in stands \cup declared}

CasesOf(read, f) == UNION {Range(Elts[t]) : t \in TablesOf(read, f)}

(* The setting names the packages that the documentation of its syntax     *)
(* says it names, and their external test packages.                        *)
PatternsDocumented ==
  next = 0 =>
    (IsTestPackage(pkg.patterns, pkg.path) <=> ServesTests(pkg.patterns, pkg.path))

(* "Each case gets one report, also where two loops read one table": when  *)
(* the rule has run, the reports are the one-line cases with enough keyed  *)
(* fields in the tables of the files it reads, each once.                  *)
ReportsDocumented ==
  phase = "ran" =>
    LET read == UNION {CasesOf(Read, f) : f \in Read} IN
    /\ Len(reports) = Cardinality(Reported)
    /\ Reported = {c \in Case \ split :
                     /\ Keyed[c] /\ Fields[c] >= 1 /\ Fields[c] >= pkg.min
                     /\ c \in read}

(* "The fix ends the remark": a run after a fix, with no edit between      *)
(* them, offers no further fix.                                            *)
FixSettles == phase = "ran" /\ settled => \A i \in DOMAIN reports : ~reports[i].fix

(* "A case that holds a comment between its braces gets no fix": no fix    *)
(* removes a comment.                                                      *)
CommentsKept == lost = {}

(* What the code keeps of it: a fix removes a comment only where the first *)
(* loop to read the table, in the order of the files, stands in another    *)
(* file than the table, also where a loop of its own file reads it later.  *)
LostAcross ==
  \A c \in lost :
    \E i \in DOMAIN Order :
      /\ Order[i] \in Read \ {FileOf(c)} /\ c \in CasesOf(Read, Order[i])
      /\ \A j \in 1..(i - 1) : ~(Order[j] \in Read /\ c \in CasesOf(Read, Order[j]))
===============================================================================
