----------------------------- MODULE MCLaundering -----------------------------
(***************************************************************************)
(* A small instance of Laundering.  Its types are any, an interface Rd and *)
(* an interface RW that embeds it, a type T that implements Rd, two types  *)
(* F and G that implement both, a type parameter P whose constraint T and  *)
(* F satisfy and to which both convert, and S, a slice of a type           *)
(* parameter.                                                              *)
(***************************************************************************)
EXTENDS Laundering

Types == {"any", "Rd", "RW", "T", "F", "G", "P", "S", "nil"}
Interfaces == {"any", "Rd", "RW", "P"}
RunTime == {"T", "F", "G", "Sint"}

MethodsAt(t) ==
  CASE t = "T"           -> {"Read", "~int"}
    [] t = "F"           -> {"Read", "Write", "~int"}
    [] t \in {"RW", "G"} -> {"Read", "Write"}
    [] t = "Rd"          -> {"Read"}
    [] t = "P"           -> {"~int"}
    [] OTHER             -> {}

MethodsOf == [t \in Types |-> MethodsAt(t)]
InstOf ==
  [t \in Types |->
     CASE t \in Interfaces -> {d \in RunTime : MethodsAt(t) \subseteq MethodsAt(d)}
       [] t = "S"          -> {"Sint"}
       [] t = "nil"        -> {}
       [] OTHER            -> {t}]
ConvertsTo == [p \in {"P"} |-> {"T", "F", "P"}]

(* A function declaration and a literal inside it.                         *)
Functions == {"decl", "lit"}
Enclosing == [f \in Functions |-> IF f = "lit" THEN {"decl"} ELSE {}]

Value(t) == [var |-> NoVar, type |-> t, steps |-> <<>>]
Name(v) == [var |-> v, type |-> "any", steps |-> <<>>]
Under(e, i, how) == [e EXCEPT !.steps = Append(@, [to |-> i, how |-> how])]

(* What a variable can take, and the variable itself.                      *)
Short ==
  {Value(t) : t \in {"any", "Rd", "T", "F", "S", "nil"}}
  \cup {Under(Value("T"), i, "conv") : i \in {"any", "P"}}
  \cup {Name(v) : v \in Var} \cup {Under(Name(v), "any", "conv") : v \in Var}

(* Every value under at most two conversions and assertions.               *)
Wrapped(S) == {Under(e, i, how) : e \in S, i \in Interfaces, how \in {"conv", "assert"}}

Bare == {Value(t) : t \in Types}
Long == Wrapped(Bare) \cup Wrapped(Wrapped(Bare))
ShortAndLong == Short \cup Bare \cup Long

(* TLC evaluates the definition that a cfg names wherever the constant is  *)
(* used, and the definitions under it once: the names below stand for one  *)
(* evaluated set each.                                                     *)
Operands == ShortAndLong
ShortOperands == Short

(* Every file of one statement over all of these operands, and every       *)
(* longer file over the short ones.                                        *)
FileNext ==
  \/ prog = <<>> /\ Walk
  \/ prog # <<>> /\ (\A j \in DOMAIN prog : prog[j].val \in Short \cup {Zero, Spread})
                 /\ WalkOver(Short)
  \/ \E g \in BOOLEAN : Finish(g)
  \/ Run

FileSpec == Init /\ [][FileNext]_vars

(* The instance has values for every difference of two of its types.       *)
ASSUME InstanceOpen == OpenWorld
===============================================================================
