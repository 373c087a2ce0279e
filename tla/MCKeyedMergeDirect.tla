-------------------------- MODULE MCKeyedMergeDirect --------------------------
(* Small instances of KeyedMergeDirect. *)
EXTENDS KeyedMergeDirect

a == <<"a">>
ac == <<"a", "c">>
n == <<"n">>
nd == <<"n", "d">>
t == <<"t">>

Object(leaf) == [obj |-> TRUE, leaf |-> leaf]

MCNull == 0
MCEmptyObject == 1
\* 2 and 3 fit a scalar lane, 4 does not; 5 is an array lifted whole, 6 is not.
MCVal == 0 .. 6

ObjectDoc ==
  { Object(a :> 2 @@ nd :> 3),               \* {"a":2,"n":{"d":3}}
    Object(t :> 5 @@ a :> 4),                \* {"t":[...],"a":4}
    Object(ac :> 2),                         \* {"a":{"c":2}}
    Object(t :> 6 @@ n :> 2),                \* {"t":[...],"n":2}
    Object(nd :> 2 @@ a :> MCNull)           \* {"n":{"d":2},"a":null}
  }

OverlapDoc ==
  { Object(a :> 2), Object(ac :> 2), Object(ac :> 3), Object(nd :> 2) }

\* Lanes $.a, $.n.d and a list lane $.t.
SeparateLanes == {a, nd}
ListLanes == {t}
NoLanes == {}
FitSeparate == [l \in SeparateLanes |-> {2, 3}]
\* Lanes $.a and $.a.c, one inside the other.
OverlappingLanes == {a, ac}
FitOverlapping == [l \in OverlappingLanes |-> {2, 3}]

MCLifted == {5}
MCPartLifted == {6}

RowSymmetry == Permutations(Row) \cup Permutations(Node)
=============================================================================
