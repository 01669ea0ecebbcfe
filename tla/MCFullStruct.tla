----------------------------- MODULE MCFullStruct -----------------------------
(***************************************************************************)
(* A small instance of FullStruct.  An Item embeds a Meta and holds a      *)
(* Name, a Stamp with an Equal method, a Tags list and an id of its own.   *)
(***************************************************************************)
EXTENDS FullStruct

Types == {"Item", "item", "*Item", "[]Item", "Meta", "meta", "Stamp", "stamp",
          "Tags", "[]Tag", "Tag", "tag", "Loop", "[]Loop", "string"}

KindOf == [t \in Types |->
  CASE t \in {"Item", "Meta", "Stamp", "Tags", "Tag", "Loop"} -> "named"
    [] t \in {"item", "meta", "stamp", "tag"} -> "struct"
    [] t = "*Item" -> "pointer"
    [] t \in {"[]Item", "[]Tag", "[]Loop"} -> "slice"
    [] OTHER -> "basic"]

OfType == [t \in Types |->
  CASE t = "Item" -> "item" [] t = "Meta" -> "meta" [] t = "Stamp" -> "stamp"
    [] t = "Tags" -> "[]Tag" [] t = "Tag" -> "tag" [] t = "Loop" -> "[]Loop"
    [] t = "*Item" -> "Item" [] t = "[]Item" -> "Item" [] t = "[]Tag" -> "Tag"
    [] t = "[]Loop" -> "Loop"
    [] OTHER -> NoType]

Field(n, t, exported, embedded) ==
  [name |-> n, type |-> t, exported |-> exported, embedded |-> embedded]

FieldsOfItem(withID) ==
  <<Field("Meta", "Meta", TRUE, TRUE), Field("Name", "string", TRUE, FALSE),
    Field("At", "Stamp", TRUE, FALSE), Field("Tags", "Tags", TRUE, FALSE)>>
  \o (IF withID THEN <<Field("id", "string", FALSE, FALSE)>> ELSE <<>>)

FieldsOf(withID) == [t \in Types |->
  CASE t = "item"  -> FieldsOfItem(withID)
    [] t = "meta"  -> <<Field("Kind", "string", TRUE, FALSE), Field("Loop", "Loop", TRUE, FALSE)>>
    [] t = "stamp" -> <<Field("wall", "string", FALSE, FALSE), Field("ext", "string", FALSE, FALSE)>>
    [] t = "tag"   -> <<Field("Text", "string", TRUE, FALSE), Field("mark", "string", FALSE, FALSE)>>
    [] OTHER       -> <<>>]

WithID == FieldsOf(TRUE)
WithoutID == FieldsOf(FALSE)

Vars == {"got", "want", "list", "case", "at"}
TypeOfVar == [v \in Vars |->
  CASE v = "got" -> "*Item" [] v = "list" -> "[]Item" [] v = "at" -> "Stamp" [] OTHER -> "Item"]

Chain(v, selectors) == [form |-> "chain", base |-> v, selectors |-> selectors]
Element(v) == [form |-> "element", base |-> v]
Literal(t, size) == [form |-> "literal", type |-> t, size |-> size]
Call(operands) == [kind |-> "call", operands |-> operands]
If(operands) == [kind |-> "if", operands |-> operands]

Range_(v) == [kind |-> "range", vars |-> {v}, operands |-> <<>>]
Diff(names, constant) ==
  [kind |-> "diff", operands |-> <<>>, want |-> "*Item", got |-> "Item",
   options |-> {[type |-> "Item", names |-> names, constant |-> constant]}]

Runs ==
  {Call(<<Chain("got", <<"Name">>)>>),
   Call(<<Chain("want", <<"Name">>), Chain("got", <<"Name">>)>>),
   Call(<<Chain("got", <<"Kind">>)>>),
   If(<<Chain("want", <<"Kind">>), Chain("got", <<"Meta", "Kind">>)>>),
   Call(<<Chain("got", <<"Meta", "Loop">>)>>),
   If(<<Chain("got", <<"Meta">>)>>),
   If(<<Chain("got", <<"At">>), Chain("got", <<"Name">>)>>),
   Call(<<Chain("got", <<"Tags", "Text">>)>>),
   Call(<<Chain("got", <<"At", "wall">>)>>),
   Call(<<Chain("list", <<"Name">>), Chain("got", <<"Name">>)>>)}

Others ==
  {Call(<<Element("list"), Element("list")>>),
   If(<<Element("list"), Element("case")>>),
   Call(<<Literal("[]Item", 1), Element("list")>>),
   Range_("list"), Range_("got"),
   If(<<Chain("at", <<"wall">>)>>), If(<<Chain("at", <<"ext">>)>>),
   Diff({<<"Meta">>, <<"At">>, <<"Tags">>}, TRUE)}

Sites_ == Runs \cup Others
===============================================================================
