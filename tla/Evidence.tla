------------------------------- MODULE Evidence -------------------------------
(***************************************************************************)
(* What the binding shape of rule G05 promises, without its mechanism: the *)
(* evidence on a variable is nothing, one type, or open; it only grows     *)
(* while the file is read; and the verdict, given once, names no variable  *)
(* whose evidence is not exactly the type that it names.                   *)
(***************************************************************************)
CONSTANTS Var, Type, Nothing, Open

VARIABLES
  known,    (* known[v]: Nothing, a type, or Open                          *)
  decided,  (* whether the file has been read                              *)
  verdict   (* the pairs of a variable and the type that it hides          *)

vars == <<known, decided, verdict>>

(* Nothing may become any evidence, a type may only become Open, and Open  *)
(* stays.                                                                  *)
Grows(v) == known'[v] = known[v] \/ known[v] = Nothing \/ known'[v] = Open

Observe ==
  /\ ~decided
  /\ known' \in [Var -> Type \cup {Nothing, Open}]
  /\ \A v \in Var : Grows(v)
  /\ UNCHANGED <<decided, verdict>>

Decide ==
  /\ ~decided
  /\ decided' = TRUE
  /\ verdict' \subseteq {p \in Var \X Type : known[p[1]] = p[2]}
  /\ UNCHANGED known

Init ==
  /\ known = [v \in Var |-> Nothing]
  /\ decided = FALSE
  /\ verdict = {}

Next == Observe \/ Decide

Spec == Init /\ [][Next]_vars
===============================================================================
