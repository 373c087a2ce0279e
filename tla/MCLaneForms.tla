----------------------------- MODULE MCLaneForms -----------------------------
(* A lane at the top level and one below a key; a type that holds one of  *)
(* the two scalars and one that holds both.                               *)
EXTENDS LaneForms

CONSTANTS one, two

Arr(s) == [p \in {<<>>} |-> Array(s)]

A == <<"a">>
PQ == <<"p", "q">>
Narrow == {one}
Wide == {one, two}

With(k, node) == IF node = Absent THEN <<>> ELSE k :> node
Doc(a, p) == Object(With("a", a) @@ With("p", p))

-----------------------------------------------------------------------------
Values == {Absent, Leaf(one), Leaf(two), Leaf(Null)}
Below == {Absent, Leaf(one), EmptyObject} \cup {Object("q" :> Leaf(v)) : v \in {one, two, Null}}
Objects == {Doc(a, p) : a \in Values, p \in Below}

Both == ShreddedType((A :> Narrow) @@ (PQ :> Wide))
OnlyA == ShreddedType(A :> Narrow)
WideA == ShreddedType(A :> Wide)
OnlyPQ == ShreddedType(PQ :> Wide)
Over == ShreddedType((A :> Narrow) @@ (<<"a", "b">> :> Narrow))

MCArgumentLists ==
  {<<Both>>, <<Both, PlainType>>, <<PlainType, Both, PlainType>>, <<Both, Both, Both>>,
   <<Both, PlainType, Both>>, <<OnlyA, OnlyPQ>>, <<OnlyA, WideA>>, <<Over, PlainType>>}

\* What the copied lanes can follow: a shredded patch is an object and names no
\* lane but its own, and SQL NULL comes first or last.
NamesOnlyItsOwn(type, doc) ==
  /\ type \in {OnlyA, WideA} => <<"p">> \notin DOMAIN doc
  /\ type = OnlyPQ => <<"a">> \notin DOMAIN doc

Followed(list, i) ==
  (IF list[i] = Over THEN {Doc(x, Absent) : x \in Values \cup {Object("b" :> Leaf(one))}} ELSE {})
    \cup (IF list[i] = PlainType THEN Objects ELSE {doc \in Objects : NamesOnlyItsOwn(list[i], doc)})
    \cup (IF i = 1 \/ list[i] = PlainType THEN {Leaf(one)} ELSE {})
    \cup (IF i \in {1, Len(list)} THEN {SqlNull} ELSE {})

\* Three arguments of one shredded type, with SQL NULL anywhere.
Anywhere(list, i) == {Doc(v, Absent) : v \in Values} \cup {SqlNull}
ThreeShredded == {<<OnlyA, OnlyA>>, <<OnlyA, OnlyA, OnlyA>>}
NoDocuments == {EmptyObject}
NoTypes == {<<>>}

MCCompared ==
  {Doc(a, p) : a \in Values \cup {Arr(<<>>), Arr(<<one>>), Arr(<<two, one>>), Arr(<<one, one>>),
                                  Arr(<<one, two, one>>), Object("b" :> Leaf(one))},
               p \in {Absent, Leaf(one), EmptyObject, Object("q" :> Leaf(one)), Object("q" :> Leaf(two)),
                      Object(("q" :> Leaf(two)) @@ ("r" :> Leaf(one)))}}
    \cup {Leaf(one), Arr(<<one>>), Arr(<<one, two>>)}
MCLaneTypes == {<<>>, (A :> Narrow) @@ (PQ :> Wide), (PQ :> Narrow),
                (A :> Narrow) @@ (<<"a", "b">> :> Narrow)}
=============================================================================
