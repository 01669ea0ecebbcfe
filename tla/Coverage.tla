-------------------------------- MODULE Coverage -------------------------------
(***************************************************************************)
(* The statement coverage bar: scripts/coverage-gate.sh, which make check  *)
(* runs on the profile of every package, and coverage-gate-scoped.sh,      *)
(* which the pre-commit tier runs on the packages of its scope.            *)
(*                                                                         *)
(* A profile is a list of lines, one for each block of statements and test *)
(* binary.  The scripts read it from its first line to its last.           *)
(***************************************************************************)
EXTENDS Integers, Sequences, FiniteSetsExt

CONSTANTS
  MeasuredPkg, Block,
  PkgOf,       (* PkgOf[b]: the package of the file that holds the block   *)
  Stmts,       (* Stmts[b]: the number of its statements                   *)
  Profiles,    (* the profiles that a test run may leave                   *)
  NoProfile,   (* the absence of one                                       *)
  Glob,        (* an entry of the exclude list                             *)
  BlankLine,   (* a line without one                                       *)
  Matches,     (* Matches[g]: the blocks of the files that g stands for    *)
  ExcludeLists,
  Bars, Garbage (* the values of COVERAGE_MIN; one that is not a number    *)

ASSUME CoverageAssumption ==
  /\ PkgOf \in [Block -> MeasuredPkg] /\ Stmts \in [Block -> Nat]
  /\ Profiles \subseteq Seq([block : Block, hits : Nat])
  /\ NoProfile \notin Profiles
  /\ BlankLine \notin Glob
  /\ Matches \in [Glob \cup {BlankLine} -> SUBSET Block] /\ Matches[BlankLine] = {}
  /\ ExcludeLists \subseteq Seq([glob : Glob \cup {BlankLine}, reason : BOOLEAN])
  /\ Garbage \notin Nat /\ Bars \subseteq Nat \cup {Garbage}

VARIABLES
  profile, excludes, bar,  (* what the scripts are given                   *)
  scope,     (* the packages to measure                                    *)
  scoped,    (* whether coverage-gate-scoped.sh runs: ALLOW_EMPTY          *)
  phase,
  entries,   (* the lines of the exclude list read                         *)
  regex,     (* the blocks of the files that the entries read stand for    *)
  lines,     (* the lines of the profile read                              *)
  hits,      (* hits[b] of the awk program, for the keys it has            *)
  verdict

inputs == <<profile, excludes, bar, scope, scoped>>
barVars == <<profile, excludes, bar, scope, scoped, phase, entries, regex, lines, hits, verdict>>
-------------------------------------------------------------------------------
Keys == DOMAIN hits

Statements(blocks) == MapThenSumSet(LAMBDA b : Stmts[b], blocks)

(* Mutant: the wrapper hands the whole profile to the gate.                *)
KeptAnywhere(line) == line.block \notin regex

(* A line that both the scope and the exclude list let through.            *)
KeptLine(line) == PkgOf[line.block] \in scope /\ line.block \notin regex

(* if ($3 > hits[key]) hits[key] = $3                                      *)
Higher(b, n) == IF b \in Keys /\ hits[b] >= n THEN hits[b] ELSE n

(* Mutant: the last line of a block counts.                                *)
LastCounts(line) ==
  [b \in Keys \cup {line.block} |-> IF b = line.block THEN line.hits ELSE hits[b]]

Merge(line) ==
  [b \in Keys \cup {line.block} |->
     IF b = line.block THEN Higher(b, line.hits) ELSE hits[b]]

(* Mutant: the bar itself does not reach the bar.                          *)
AtMost(covered, total) == covered * 100 <= bar * total

(* pct < min                                                               *)
Below(covered, total) == covered * 100 < bar * total

(* The END of the awk program.                                             *)
Outcome ==
  LET total   == Statements(Keys)
      covered == Statements({b \in Keys : hits[b] > 0}) IN
  IF total = 0 THEN IF scoped THEN "pass" ELSE "fail"
  ELSE IF Below(covered, total) THEN "fail" ELSE "pass"

Ends(v) == phase' = "done" /\ verdict' = v
-------------------------------------------------------------------------------
(* coverage-gate-scoped.sh: a scope without a line passes at once.         *)
Wrapper ==
  /\ phase = "wrapper"
  /\ IF profile = NoProfile THEN Ends("fail")
     ELSE IF \A i \in DOMAIN profile : PkgOf[profile[i].block] \notin scope THEN Ends("pass")
     ELSE phase' = "start" /\ UNCHANGED verdict
  /\ UNCHANGED <<inputs, entries, regex, lines, hits>>

(* The bar must be a number and the profile a file.                        *)
Start ==
  /\ phase = "start"
  /\ IF bar = Garbage \/ profile = NoProfile THEN Ends("fail")
     ELSE phase' = "excludes" /\ UNCHANGED verdict
  /\ UNCHANGED <<inputs, entries, regex, lines, hits>>

(* An entry without a reason fails the gate.                               *)
Refused(line) == line.glob # BlankLine /\ ~line.reason

ReadExclude ==
  /\ phase = "excludes" /\ entries < Len(excludes)
  /\ LET line == excludes[entries + 1] IN
     IF Refused(line) THEN Ends("fail") /\ UNCHANGED regex
     ELSE regex' = regex \cup Matches[line.glob] /\ UNCHANGED <<phase, verdict>>
  /\ entries' = entries + 1
  /\ UNCHANGED <<inputs, lines, hits>>

ReadLine ==
  /\ phase = "excludes" /\ entries = Len(excludes)
  /\ lines < Len(profile)
  /\ LET line == profile[lines + 1] IN
     hits' = IF KeptLine(line) THEN Merge(line) ELSE hits
  /\ lines' = lines + 1
  /\ UNCHANGED <<inputs, phase, entries, regex, verdict>>

Decide ==
  /\ phase = "excludes" /\ entries = Len(excludes)
  /\ lines = Len(profile)
  /\ Ends(Outcome)
  /\ UNCHANGED <<inputs, entries, regex, lines, hits>>

BarInit ==
  /\ profile \in Profiles \cup {NoProfile}
  /\ excludes \in ExcludeLists /\ bar \in Bars
  /\ \/ scoped = FALSE /\ scope = MeasuredPkg /\ phase = "start"
     \/ scoped = TRUE /\ scope \in SUBSET MeasuredPkg \ {{}} /\ phase = "wrapper"
  /\ entries = 0 /\ regex = {} /\ lines = 0
  /\ hits = [b \in {} |-> 0]
  /\ verdict = "none"

BarNext == Wrapper \/ Start \/ ReadExclude \/ ReadLine \/ Decide

BarSpec == BarInit /\ [][BarNext]_barVars
-------------------------------------------------------------------------------
(* The scripts count no more lines than there are, of blocks in the scope. *)
BarTypeOK ==
  /\ profile \in Profiles \cup {NoProfile} /\ excludes \in ExcludeLists /\ bar \in Bars
  /\ scope \in SUBSET MeasuredPkg /\ scoped \in BOOLEAN
  /\ phase \in {"wrapper", "start", "excludes", "done"}
  /\ entries \in 0..Len(excludes) /\ regex \subseteq Block
  /\ lines \in Nat /\ (profile # NoProfile => lines <= Len(profile))
  /\ phase = "excludes" => profile # NoProfile /\ bar # Garbage
  /\ Keys \subseteq {b \in Block : PkgOf[b] \in scope} /\ hits \in [Keys -> Nat]
  /\ verdict \in {"none", "pass", "fail"} /\ (verdict = "none" <=> phase # "done")

(* The blocks of a profile in some packages, but for the excluded ones, and *)
(* those among them that some line says were run.                          *)
Excluded == UNION {Matches[excludes[i].glob] : i \in DOMAIN excludes}
Measured(S) ==
  {b \in Block \ Excluded : PkgOf[b] \in S /\ \E i \in DOMAIN profile : profile[i].block = b}
Ran(S) ==
  {b \in Measured(S) : \E i \in DOMAIN profile : profile[i].block = b /\ profile[i].hits > 0}

Annotated == \A i \in DOMAIN excludes : excludes[i].glob = BlankLine \/ excludes[i].reason

Reached(S) == ~(Statements(Ran(S)) * 100 < bar * Statements(Measured(S)))

(* "Drops files matching the globs, recomputes total statement coverage    *)
(* over the remaining files, and exits 1 if it is below the bar ... fails  *)
(* closed": the verdict is that of the set of the blocks, whatever the     *)
(* order of the lines and however often a block stands in them, and no     *)
(* bad bar, missing profile, bare entry or empty rest passes the full gate.*)
BarOnBlocks ==
  phase = "done" =>
    (verdict = "pass" <=>
       /\ profile # NoProfile
       /\ \/ scoped /\ \A i \in DOMAIN profile : PkgOf[profile[i].block] \notin scope
          \/ /\ bar # Garbage /\ Annotated
             /\ IF Statements(Measured(scope)) = 0 THEN scoped ELSE Reached(scope))

(* "Both safe because the full gate still runs": what the full gate finds  *)
(* below the bar, the scoped gate finds in the scope or would find in the  *)
(* other packages, for any scope; so a scoped commit can bring the whole   *)
(* below the bar only where the packages it does not touch are below it.   *)
PartsDecide ==
  /\ phase = "done" /\ ~scoped /\ verdict = "fail"
  /\ profile # NoProfile /\ bar # Garbage /\ Annotated /\ Statements(Measured(MeasuredPkg)) > 0
  => \A S \in SUBSET MeasuredPkg : ~Reached(S) \/ ~Reached(MeasuredPkg \ S)
===============================================================================
