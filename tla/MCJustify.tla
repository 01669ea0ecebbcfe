------------------------------- MODULE MCJustify ------------------------------
(***************************************************************************)
(* Small instances of Justify.  The first file holds one of four shapes of *)
(* code in every layout that puts at most one comment between its tokens;  *)
(* the second one a call below a comment.  Where the flags or the files on *)
(* disk vary, the layout does not.                                         *)
(***************************************************************************)
EXTENDS Justify

Files == {"one", "two"}

(* What stands before a token: nothing but a blank, a new line, or a       *)
(* comment: above, above in two lines, above an empty line, behind code,   *)
(* behind code and on into the next line, in front of code.                *)
Comments ==
  [own    |-> <<"N", "_", "#", "N">>,      tall  |-> <<"N", "#", "N", "#", "N", "_">>,
   far    |-> <<"N", "#", "N", "N">>,      trail |-> <<"_", "#", "N">>,
   spill  |-> <<"_", "#", "N", "#", "N">>, front |-> <<"N", "#", "_">>]
Gaps == Comments @@ [same |-> <<"_">>, line |-> <<"N", "_">>]

Commented(gaps) == {i \in DOMAIN gaps : gaps[i] \in DOMAIN Comments}

Layouts(n) ==
  UNION {{[i \in 1..n |-> IF i = at THEN comment ELSE IF i \in broken THEN "line" ELSE "same"] :
            broken \in SUBSET (1..n)} : at \in 1..n, comment \in DOMAIN Comments}

(* The package clause, then every token after its gap.                     *)
TextOf(gaps, n) == FlattenSeq(<<<<"c">>>> \o [i \in 1..n |-> Gaps[gaps[i]] \o <<"c">>])
PosOf(gaps, i) == Len(TextOf(gaps, i)) - 1
GroupsOf(gaps) ==
  {LET bytes == TextOf(gaps, i)
       old   == Len(TextOf(gaps, i - 1))
       marks == {k \in old + 1..Len(bytes) : bytes[k] = "#"}
   IN [start |-> (CHOOSE k \in marks : \A j \in marks : k <= j) - 1,
       end   |-> CHOOSE k \in marks : \A j \in marks : j <= k] : i \in Commented(gaps)}

Stmt(up, tok) == [kind |-> "stmt", parent |-> up, tok |-> tok, fills |-> ""]
Fill(up, tok, var) == [kind |-> "stmt", parent |-> up, tok |-> tok, fills |-> var]
Decl(tok, entry) == [kind |-> "decl", parent |-> 0, tok |-> tok, entry |-> entry]
Block(up) == [kind |-> "block", parent |-> up, tok |-> 1]
Lit(up, tok) == [kind |-> "lit", parent |-> up, tok |-> tok]
Clause(up, tok, body) == [kind |-> "clause", parent |-> up, tok |-> tok, first |-> body]
TypeAssert(up, tok, dot, one) == [kind |-> "assert", parent |-> up, tok |-> tok, dot |-> dot, single |-> one]
Call(up, tok, stop, arg) == [kind |-> "call", parent |-> up, tok |-> tok, stops |-> stop, raises |-> arg]

(* The site of a rule.                                                     *)
Site(rule, up, tok, dot) == IF rule = "safetyassert" THEN TypeAssert(up, tok, dot, TRUE) ELSE Call(up, tok, TRUE, "")

(* func { switch { case SITE: SITE; SITE } }                               *)
Switch(rule) ==
  <<Decl(1, FALSE), Block(1), Stmt(2, 2), Block(3), Clause(4, 3, 7), Site(rule, 5, 4, 4),
    Stmt(5, 5), Site(rule, 7, 5, 5), Stmt(5, 6), Site(rule, 9, 6, 6)>>

(* func { if v = SITE { SITE } else if SITE {} }, the first over two lines *)
If(rule) ==
  <<Decl(1, FALSE), Block(1), Stmt(2, 2), Stmt(3, 3), Site(rule, 4, 4, 5), Block(3), Stmt(6, 6),
    Site(rule, 7, 6, 6), Stmt(3, 7), Stmt(9, 7), Site(rule, 10, 7, 7)>>

(* func { defer SITE }; var = func { SITE }; var = SITE                    *)
Outside(rule) ==
  <<Decl(1, FALSE), Block(1), Stmt(2, 2), Site(rule, 3, 3, 3), Lit(0, 4), Block(5), Stmt(6, 5),
    Site(rule, 7, 5, 5), Site(rule, 0, 6, 6)>>

(* func { defer func { a = recover(); panic(b) }(); c = recover(); panic(d) } *)
Rethrow(entry, a, b, c, d) ==
  <<Decl(1, entry), Block(1), Stmt(2, 2), Lit(3, 2), Block(4), Fill(5, 3, a), Stmt(5, 4),
    Call(7, 4, TRUE, b), Fill(2, 5, c), Stmt(2, 6), Call(10, 6, TRUE, d)>>

Second(rule) == <<Decl(1, FALSE), Block(1), Stmt(2, 2), Site(rule, 3, 2, 2)>>

Place(nodes, file, gaps) ==
  [n \in DOMAIN nodes |->
     nodes[n] @@ [file |-> file, pos |-> PosOf(gaps, nodes[n].tok)]
     @@ (IF nodes[n].kind = "assert" THEN [token |-> PosOf(gaps, nodes[n].dot)] ELSE <<>>)]

Move(nodes, shift) ==
  [n \in DOMAIN nodes |->
     [nodes[n] EXCEPT !.parent = IF @ = 0 THEN 0 ELSE @ + shift]]

Neither == [f \in Files |-> FALSE]
NoChange == [f \in Files |-> {}]

(* What a file may become: nothing, a part, a file of other lines.         *)
Changed(text, gaps) ==
  {Unreadable, <<"c">> \o text} \cup UNION {{SubSeq(text, 1, g.start), SubSeq(text, 1, g.start - 1)} : g \in GroupsOf(gaps)}

Package(rule, nodes, gaps, generated, test, both) ==
  LET n == Len(gaps)
      under == <<"line", "trail">>
  IN [rule |-> rule, generated |-> generated, testFile |-> test,
      text |-> [f \in Files |-> IF f = "one" THEN TextOf(gaps, n) ELSE TextOf(under, 2)],
      groups |-> [f \in Files |-> IF f = "one" THEN GroupsOf(gaps) ELSE GroupsOf(under)],
      node |-> Place(nodes, "one", gaps) \o
               Move(Place(Second(rule), "two", under), Len(nodes)),
      changes |-> IF both THEN [f \in Files |-> IF f = "one" THEN Changed(TextOf(gaps, n), gaps)
                                                ELSE Changed(TextOf(under, 2), under)]
                  ELSE NoChange]

Rules == {"safetyassert", "justifypanic"}

Laid ==
  UNION {{Package(rule, Switch(rule), gaps, Neither, Neither, FALSE) : gaps \in Layouts(6)}
         \cup {Package(rule, If(rule), gaps, Neither, Neither, FALSE) : gaps \in Layouts(7)}
         \cup {Package(rule, Outside(rule), gaps, Neither, Neither, FALSE) : gaps \in Layouts(6)} : rule \in Rules}

Upright == [i \in 1..6 |-> IF i = 2 THEN "own" ELSE "line"]

Raised ==
  {Package("justifypanic", Rethrow(entry, a, b, c, d), Upright, Neither, Neither, FALSE) :
     entry \in BOOLEAN, a, c \in {"", "r"}, b, d \in {"", "r", "recover"}}

Flagged ==
  {Package(rule, Outside(rule), Upright, generated, test, FALSE) :
     rule \in Rules, generated, test \in [Files -> BOOLEAN]}

Other(rule) == <<Decl(1, FALSE), Block(1), Stmt(2, 2), TypeAssert(3, 2, 2, FALSE), Call(3, 3, FALSE, ""), Site(rule, 3, 6, 6)>>

Rewritten ==
  {Package(rule, Other(rule), [i \in 1..6 |-> IF i = at THEN comment ELSE "line"], Neither, Neither, TRUE) :
     rule \in Rules, at \in {2, 6}, comment \in DOMAIN Comments}

AllPackages == Laid \cup Raised \cup Flagged \cup Rewritten
===============================================================================
