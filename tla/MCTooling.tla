------------------------------- MODULE MCTooling -------------------------------
(***************************************************************************)
(* The three programs around the rules, in one run: the golangci-lint      *)
(* plugin, the two-tier gate and the coverage bar.  They share no state    *)
(* and never run at once, so a behaviour is one of one of them: the other  *)
(* two stay where they start.                                              *)
(***************************************************************************)
EXTENDS MCGate, Settings, Coverage

VARIABLE tool   (* the program that runs *)

(* G01 reads no list, G07 reads two, G12 and G14 are opt-in and read the   *)
(* list that G07 reads too.                                                *)
Rules == <<"G01", "G07", "G12", "G14">>
OptInRules == {"G12", "G14"}
ListsReadBy == [r \in {"G01", "G07", "G12", "G14"} |->
  CASE r = "G01" -> {}
    [] r = "G07" -> {"allow", "test"}
    [] OTHER     -> {"test"}]

Settled(allow, test, enable, disable) ==
  [lists |-> [k \in {"allow", "test"} |-> IF k = "allow" THEN allow ELSE test],
   enable |-> enable, disable |-> disable]

(* Lists that fill the arrays they are decoded into, and a list of three   *)
(* patterns, which leaves room in its array; every kind of name in enable  *)
(* and disable, one name in both.                                          *)
SettingsBlocks ==
  {Settled(<<"x">>, <<"x", "y">>, <<"G14", "G12">>, <<"G01">>),
   Settled(<<>>, <<"x", "y", "z">>, <<"G12", "G14">>, <<"G12">>),
   Settled(<<>>, <<>>, <<"G01">>, <<>>),
   Settled(<<>>, <<>>, <<"G14", "G99">>, <<"G12">>),
   Settled(<<>>, <<>>, <<"G12">>, <<"G07", "G99">>)}

(* A list grows one by one, to capacities that are powers of two.          *)
Capacities == [n \in 0..3 |-> IF n = 3 THEN 4 ELSE n]

CONSTANTS p, q, u, v   (* two plugins, two patterns that flags give *)
OnePattern == {<<u>>, <<v>>}
Symmetric == Permutations({p, q}) \cup Permutations({u, v})

(* Two packages; the file of a holds blocks of three, one and no           *)
(* statements, the file of b one of four.                                  *)
ProfileBlocks == {"a1", "a2", "a3", "b1"}
PkgOfBlock == [x \in ProfileBlocks |-> IF x = "b1" THEN "b" ELSE "a"]
StmtsOfBlock ==
  [x \in ProfileBlocks |->
     CASE x = "a1" -> 3 [] x = "a2" -> 1 [] x = "a3" -> 0 [] x = "b1" -> 4]

Lines == [block : ProfileBlocks, hits : 0..1]
ThreeLines == UNION {[1..k -> Lines] : k \in 0..3}

MatchesOf ==
  [g \in {"a/*.go", "b/b.go", "c.go", "blank"} |->
     CASE g = "a/*.go" -> {"a1", "a2", "a3"} [] g = "b/b.go" -> {"b1"} [] OTHER -> {}]

Entry(g, reason) == [glob |-> g, reason |-> reason]
Lists ==
  {<<>>, <<Entry("blank", TRUE), Entry("b/b.go", TRUE)>>,
   <<Entry("c.go", FALSE), Entry("b/b.go", TRUE)>>,
   <<Entry("a/*.go", TRUE), Entry("b/b.go", TRUE)>>}

(* Where a program that does not run stays.                                *)
IdleTrap == CHOOSE t \in Trap : t.pkg = "c"
IdleBar == profile = NoProfile /\ excludes = <<>> /\ bar = Garbage /\ scoped = FALSE

ToolingInit ==
  /\ tool \in {"plugin", "gate", "bar"}
  /\ SettingsInit
  /\ tool # "gate" => trap = IdleTrap
  /\ GateInit
  /\ tool # "bar" => IdleBar
  /\ BarInit

ToolingNext ==
  \/ tool = "plugin" /\ SettingsNext /\ UNCHANGED <<tool, gateVars, barVars>>
  \/ tool = "gate" /\ GateNext /\ UNCHANGED <<tool, settingsVars, barVars>>
  \/ tool = "bar" /\ BarNext /\ UNCHANGED <<tool, settingsVars, gateVars>>

ToolingSpec == ToolingInit /\ [][ToolingNext]_<<tool, settingsVars, gateVars, barVars>>
===============================================================================
