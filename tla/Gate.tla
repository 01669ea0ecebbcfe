--------------------------------- MODULE Gate ---------------------------------
(***************************************************************************)
(* The two-tier gate of the repository: the pre-commit hook, which checks  *)
(* the packages that the staged change can affect                          *)
(* (scripts/precommit-check.sh), the pre-push hook and the CI job, which   *)
(* check every package.  A developer edits, stages, commits and pushes.    *)
(*                                                                         *)
(* A package fails where its imports are missing, or where the files that  *)
(* it reads have the versions that `trap` names: one arbitrary test, which *)
(* fails on one combination of the versions of some files.                 *)
(***************************************************************************)
EXTENDS Integers, Sequences

CONSTANTS
  Pkg,        (* the packages that go list ./... names                     *)
  Hidden,     (* the packages under a testdata directory, which it skips   *)
  NoPkg,      (* the absence of a package                                  *)
  File,
  Kind,       (* Kind[f]: what the file is, see FilesAssumption            *)
  Dirs,       (* Dirs[f]: the packages of the directories around f, from   *)
              (* the nearest one; the first of a Go file is its own        *)
  Viewer,     (* Viewer[f]: the package that embeds f or tests with it     *)
  Version, Base, Gone,
  Imports,    (* Imports[f][v]: the packages version v of f imports        *)
  Trap,       (* the tests to consider                                     *)
  Whole,      (* whether a commit always holds the whole worktree          *)
  MaxEdits    (* bound on the edits of a developer                         *)

ASSUME FilesAssumption ==
  /\ Pkg \cap Hidden = {} /\ NoPkg \notin Pkg \cup Hidden
  /\ Kind \in [File -> {"code", "test", "fixture", "embed", "data", "doc", "gate"}]
  /\ Dirs \in [File -> Seq(Pkg \cup Hidden)]
  /\ Viewer \in [File -> Pkg \cup {NoPkg}]
  /\ \A f \in File :
       /\ Kind[f] \in {"code", "test"} => Dirs[f] # <<>> /\ Dirs[f][1] \in Pkg
       /\ Kind[f] = "fixture" => Dirs[f] # <<>> /\ Dirs[f][1] \in Hidden
       /\ Kind[f] \in {"fixture", "embed", "data"} => Viewer[f] \in Pkg
  /\ Base \in Version /\ Gone \in Version
  /\ Imports \in [File -> [Version -> SUBSET Pkg]]
  /\ \A f \in File : Imports[f][Gone] = {}
  /\ Whole \in BOOLEAN /\ MaxEdits \in Nat

ASSUME TrapAssumption ==
  Trap \subseteq [pkg : Pkg, when : UNION {[D -> Version] : D \in SUBSET File}]

VARIABLES
  worktree, index, head, remote,  (* the version of every file             *)
  ci,       (* the result of the CI job on remote                          *)
  tier,     (* the tier that the last commit ran                           *)
  trap,     (* the test under consideration                                *)
  edits     (* bound: the edits so far                                     *)

gateVars == <<worktree, index, head, remote, ci, tier, trap, edits>>

Snapshot == [File -> Version]
-------------------------------------------------------------------------------
(* What the go command makes of a snapshot s of the repository.            *)

GoFiles == [kind \in {"code", "test", "fixture"} |->
              [p \in Pkg \cup Hidden |-> {f \in File : Kind[f] = kind /\ Dirs[f][1] = p}]]

(* go list ./p finds a package in the directory.                           *)
Listed(s, p) ==
  \E kind \in {"code", "test", "fixture"} : \E f \in GoFiles[kind][p] : s[f] # Gone

Importable(s, p) == \E f \in GoFiles["code"][p] : s[f] # Gone

ImportsOf(s, p, kind) == UNION {Imports[f][s[f]] : f \in GoFiles[kind][p]}

Closed(s, S) == \A q \in S : ImportsOf(s, q, "code") \subseteq S

(* {{.Deps}}: the packages that p imports, directly or not.                *)
Deps(s, p) ==
  LET roots == ImportsOf(s, p, "code")
      closed == {S \in SUBSET Pkg : roots \subseteq S /\ Closed(s, S)} IN
  {q \in Pkg : \A S \in closed : q \in S}

(* The packages whose code the test binary of p holds.                     *)
Linked(s, p) ==
  {p} \cup Deps(s, p)
      \cup UNION {{t} \cup Deps(s, t) : t \in ImportsOf(s, p, "test")}

(* The files that the build and the tests of p read.                       *)
Reads(s, p) ==
  {f \in File :
     \/ Kind[f] = "code" /\ Dirs[f][1] \in Linked(s, p)
     \/ Kind[f] = "test" /\ Dirs[f][1] = p
     \/ Kind[f] = "embed" /\ Viewer[f] \in Linked(s, p) /\ Importable(s, Viewer[f])
     \/ Kind[f] \in {"data", "fixture"} /\ Viewer[f] = p}

Trapped(s, p) ==
  /\ trap.pkg = p
  /\ DOMAIN trap.when \subseteq Reads(s, p)
  /\ \A f \in DOMAIN trap.when : s[f] = trap.when[f]

(* go vet, golangci-lint, go test -race and antislop accept the package.   *)
Passes(s, p) ==
  Listed(s, p) =>
    /\ \A q \in Linked(s, p) \ {p} : Importable(s, q)
    /\ ~Trapped(s, p)

(* make check accepts the snapshot, but for the coverage bar, which it     *)
(* reads off all the packages together: see Coverage.                      *)
Green(s) == \A p \in Pkg : Passes(s, p)
-------------------------------------------------------------------------------
(* The pre-commit script.                                                  *)

Staged == {f \in File : index[f] # head[f]}

StagedGo == {f \in Staged : Kind[f] \in {"code", "test", "fixture"}}

(* A package of a staged Go file, by its directory, cannot be resolved.    *)
Unresolved == \E f \in StagedGo : ~Listed(worktree, Dirs[f][1])

(* The nearest enclosing directory that holds a package.                   *)
Nearest(f) ==
  LET found == {i \in DOMAIN Dirs[f] : Listed(worktree, Dirs[f][i])} IN
  IF found = {} THEN NoPkg
  ELSE Dirs[f][CHOOSE i \in found : \A j \in found : i <= j]

(* Mutant: a deleted file is looked for in the embed list of the worktree. *)
SeenInWorktree(f) ==
  Kind[f] = "data" \/ (Kind[f] = "embed" /\ worktree[f] # Gone /\ Viewer[f] = Nearest(f))

(* That package sees the file: it is under testdata, deleted or embedded.  *)
Seen(f) ==
  \/ Kind[f] = "data"
  \/ worktree[f] = Gone
  \/ Kind[f] = "embed" /\ Viewer[f] = Nearest(f)

Changed == {Dirs[f][1] : f \in StagedGo}
           \cup {Nearest(f) : f \in {g \in Staged \ StagedGo : Nearest(g) # NoPkg /\ Seen(g)}}

(* go list ./... fails: the imports of some package are missing.           *)
GraphBroken ==
  \E p \in Pkg : Listed(worktree, p) /\ \E q \in Deps(worktree, p) : ~Importable(worktree, q)

Touches(p) == ({p} \cup Deps(worktree, p)) \cap Changed # {}

(* Mutant: the tests of a package are taken to import what its code does.  *)
ScopeOfCode == {p \in Pkg : Listed(worktree, p) /\ Touches(p)}

(* The packages whose code or test binary depends on a changed one.        *)
Scope ==
  {p \in Pkg :
     /\ Listed(worktree, p)
     /\ \/ Touches(p)
        \/ \E t \in ImportsOf(worktree, p, "test") : Listed(worktree, t) /\ Touches(t)}

(* The staged files may change what every package means.                   *)
Escalates ==
  \/ \E f \in Staged : Kind[f] = "gate"
  \/ Unresolved
  \/ Changed # {} /\ (GraphBroken \/ Scope = {})

Tier == IF Escalates THEN "full" ELSE IF Changed = {} THEN "docs" ELSE "scoped"

(* What the pre-commit hook checks is the worktree.                        *)
Accepted ==
  CASE Tier = "full"   -> Green(worktree)
    [] Tier = "scoped" -> \A p \in Scope : Passes(worktree, p)
    [] Tier = "docs"   -> TRUE
-------------------------------------------------------------------------------
Edit(f, v) ==
  /\ edits < MaxEdits
  /\ worktree[f] # v
  /\ worktree' = [worktree EXCEPT ![f] = v]
  /\ edits' = edits + 1
  /\ UNCHANGED <<index, head, remote, ci, tier, trap>>

(* git add                                                                 *)
Stage(f) ==
  /\ index[f] # worktree[f]
  /\ index' = [index EXCEPT ![f] = worktree[f]]
  /\ UNCHANGED <<worktree, head, remote, ci, tier, trap, edits>>

(* git commit, through .githooks/pre-commit and make check-scoped.         *)
Commit ==
  /\ index # head
  /\ Whole => index = worktree
  /\ Accepted
  /\ head' = index
  /\ tier' = Tier
  /\ UNCHANGED <<worktree, index, remote, ci, trap, edits>>

(* git push, through .githooks/pre-push, which runs make check where it    *)
(* stands: on the worktree.                                                *)
Push ==
  /\ remote # head
  /\ Green(worktree)
  /\ remote' = head
  /\ ci' = "pending"
  /\ UNCHANGED <<worktree, index, head, tier, trap, edits>>

(* The CI job checks out what was pushed and runs make check on it.        *)
CheckRemote ==
  /\ ci = "pending"
  /\ ci' = IF Green(remote) THEN "green" ELSE "red"
  /\ UNCHANGED <<worktree, index, head, remote, tier, trap, edits>>

GateInit ==
  /\ worktree = [f \in File |-> Base]
  /\ index = worktree /\ head = worktree /\ remote = worktree
  /\ ci = "green" /\ tier = "none" /\ edits = 0
  /\ trap \in Trap
  /\ Green(head)

GateNext ==
  \/ \E f \in File, v \in Version : Edit(f, v)
  \/ \E f \in File : Stage(f)
  \/ Commit
  \/ Push
  \/ CheckRemote

GateSpec == GateInit /\ [][GateNext]_gateVars
-------------------------------------------------------------------------------
(* The state of the repository and of its gates is well formed.            *)
GateTypeOK ==
  /\ {worktree, index, head, remote} \subseteq Snapshot
  /\ ci \in {"pending", "green", "red"}
  /\ tier \in {"none", "full", "scoped", "docs"}
  /\ trap \in Trap
  /\ edits \in 0..MaxEdits

(* "It checks only the packages the staged change can affect - the changed *)
(* packages plus every package whose compiled code or test binary depends  *)
(* on one of them": a commit that the scoped gate accepts is one that the  *)
(* full gate accepts, whichever test of whichever package reads the change.*)
HeadGreen == Green(head)

(* "Non-.go files no package sees are docs": the tier that runs no test is *)
(* left to commits that change nothing any package at head reads.          *)
DocsReadByNone ==
  [][head' # head /\ tier' = "docs" =>
       \A p \in {q \in Pkg : Listed(head, q)} : \A f \in Reads(head, p) : head'[f] = head[f]]_gateVars
===============================================================================
