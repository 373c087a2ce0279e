-------------------------- MODULE MCGroupMergeDirect --------------------------
(* Small instances of GroupMergeDirect. *)
EXTENDS GroupMergeDirect

MCNull == "null"

\* The text fits neither lane.
One == Leaf("1")
Two == Leaf("2")
Text == Leaf("text")
None == Leaf("null")

a == <<"a">>
nd == <<"n", "d">>
SeparateLanes == {a, nd}
FitSeparate == [l \in SeparateLanes |-> {"1", "2"}]

\* In the objects, a is never an object and n always is one.
StableDoc ==
  { Object("a" :> One @@ "n" :> Object("d" :> One)),      \* {"a":1,"n":{"d":1}}
    Object("a" :> Text @@ "n" :> Object("e" :> Two)),     \* {"a":"text","n":{"e":2}}
    Object("a" :> Two @@ "n" :> Object("d" :> None)),     \* {"a":2,"n":{"d":null}}
    Object("a" :> None @@ "n" :> Object("d" :> Text)),    \* {"a":null,"n":{"d":"text"}}
    Object("n" :> EmptyObject),                           \* {"n":{}}
    One }                                                 \* 1

\* n is an object, a number, and an object again.
ParentDoc ==
  { Object("n" :> Object("d" :> One)), Object("n" :> Two),
    Object("n" :> Object("e" :> Two)) }

NodeSymmetry == Permutations(Node)
=============================================================================
