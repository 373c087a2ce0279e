------------------------------ MODULE MCUnordered ------------------------------
(***************************************************************************)
(* The aggregates over plain columns whose rows may come in any order: the *)
(* keyed merge, and those of Aggregates.  One of them is the subject of a  *)
(* behaviour, the other one stands still.                                  *)
(***************************************************************************)
EXTENDS KeyedMerge, Aggregates, TLC

VARIABLE subject

-----------------------------------------------------------------------------
(* The keyed merge: a and b are members of the root, ac of the object at a. *)

a == <<"a">>
b == <<"b">>
ac == <<"a", "c">>

Object(leaf) == [obj |-> TRUE, leaf |-> leaf]

MCNull == 0
MCEmptyObject == 1
MCVal == 0 .. 3

MCDoc ==
  { Object(a :> 2),                          \* {"a":2}
    Object(a :> 3 @@ b :> 2),                \* {"a":3,"b":2}
    Object(a :> MCNull @@ b :> 3),           \* {"a":null,"b":3}
    Object(ac :> 2),                         \* {"a":{"c":2}}
    Object(a :> MCEmptyObject),              \* {"a":{}}
    [obj |-> FALSE, leaf |-> <<>> :> 2] }    \* 2

RowSymmetry == Permutations(Row) \cup Permutations(Node)

-----------------------------------------------------------------------------
(* The documents of the advisor. *)

MCKeys == {"a", "b", "c", "d", ""}
MCFits ==
  [v \in {"1", "18446744073709551615", "x"} |->
     CASE v = "1" -> {"BIGINT", "UBIGINT"} [] v = "x" -> {"VARCHAR"} [] OTHER -> {"UBIGINT"}]

One == ScalarOf("1")
Huge == ScalarOf("18446744073709551615")
Text == ScalarOf("x")
Array(items) == ArrayOf(items)
Obj(k, v) == ObjectOf(k :> v)
Obj2(k, v, l, w) == ObjectOf(k :> v @@ l :> w)

Documents ==
  { Obj2("a", One, "b", Obj("b", Text)),
    Obj2("a", Huge, "b", Text),
    Obj2("a", JsonNull, "", One),
    Obj("a", Obj2("a", One, "b", Obj("a", One))),
    Obj("a", Obj2("a", Array(<<One>>), "", Text)),
    Obj("a", Array(<<One, JsonNull>>)),
    Obj("a", Array(<<One, Text>>)),
    Obj("a", Array(<<>>)),
    Obj("a", Array(<<Obj2("a", One, "", Text), Obj2("a", Text, "b", One)>>)),
    Obj("a", Array(<<Obj("a", Array(<<>>)), Obj2("c", One, "d", Text)>>)),
    Obj("a", Array(<<Obj("b", One), Text>>)),
    One }

\* Of the bytes -, 0, 1 and x: -, 0, 1, 01, 10, 11, x0, 101, 110, which is no
\* number any more, and 0x1.
Texts == {<<0>>, <<1>>, <<2>>, <<1, 2>>, <<2, 1>>, <<2, 2>>, <<3, 1>>, <<2, 1, 2>>, <<2, 2, 1>>, <<1, 3, 2>>}

Values == [min |-> Texts, max |-> Texts, suggest |-> Documents]
Extremum(kind) == [kind |-> kind]
Advice(presence, fit) == [kind |-> "suggest", min_presence |-> presence, min_fit |-> fit]

MCBuffers == 1 .. 3
MCCalls == {Extremum("min"), Extremum("max"), Advice(1, 2), Advice(0, 1), Advice(2, 1)}
MCArguments == [kind \in DOMAIN Values |-> Values[kind] \cup {SqlNull}]

\* The documents and all that is inside them, as deep as they go.
Inside(node) ==
  CASE node.kind = "object" -> {node.member[k] : k \in DOMAIN node.member}
    [] node.kind = "array" -> {node.items[i] : i \in DOMAIN node.items}
    [] OTHER -> {}
WithInside(nodes) == nodes \cup UNION {Inside(n) : n \in nodes}
MCNodes == WithInside(WithInside(WithInside(Documents)))

ASSUME GroupHolds == GroupAssumption(MCNodes)

-----------------------------------------------------------------------------
(* One aggregate at a time. *)

NoRows == argument = [r \in Row |-> SqlNull] /\ call = Extremum("min")
NoTable == table = [r \in Row |-> [doc |-> SqlNull, key |-> NullKey]]

AnyInit ==
  \/ subject = "keyed" /\ NoRows /\ Init /\ GroupInit
  \/ subject = "other" /\ NoTable /\ Init /\ GroupInit

KeyedNext == subject = "keyed" /\ Next /\ UNCHANGED <<subject, aggregate>>
OtherNext == subject = "other" /\ GroupNext /\ UNCHANGED <<subject, vars>>

AnySpec == AnyInit /\ [][KeyedNext \/ OtherNext]_<<subject, vars, aggregate>>
=============================================================================
