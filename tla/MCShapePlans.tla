----------------------------- MODULE MCShapePlans -----------------------------
(* Instances of ShapePlans.  Keys 1, 2, 3 are $.a, $.b and $.c.            *)
EXTENDS ShapePlans

a == Key(1)
b == Key(2)
c == Key(3)

X == Scalar("text", "x")
Y == Scalar("text", "y")
Seven == Scalar("num", "7")
SevenText == Scalar("text", "7")
True == Scalar("true", "true")
False == Scalar("false", "false")
JsonNull == Scalar("null", "null")
Empty == Object(<<>>)

Obj(k, v) == Object(k :> v)
Obj2(k, v, l, w) == Object(k :> v @@ l :> w)

MCCasts ==
  [VARCHAR |-> [n \in {X, Y, Seven, SevenText, True, False} |-> n.value],
   BIGINT  |-> [n \in {Seven, SevenText, True} |-> IF n = True THEN "1" ELSE "7"],
   BOOLEAN |-> [n \in {True, False, Seven} |-> IF n = Seven THEN "true" ELSE n.value]]

Field(path, type) == [path |-> path, mode |-> "scalar", type |-> type]
ListOf(path, type) == [path |-> path, mode |-> "list", type |-> type]
Joined(path) == [path |-> path, mode |-> "join", type |-> "VARCHAR"]
Text(path) == Field(path, "VARCHAR")

NoLanes == <<>>
Under(docs, lanes) == {RowOf(d, lanes) : d \in docs}

Transform(mismatch, fields, lanes, rows) ==
  [engine |-> "transform", mismatch |-> mismatch, fields |-> fields, lanes |-> lanes, rows |-> rows]
Project(fields, rows) ==
  [engine |-> "project", mismatch |-> "convert", fields |-> fields, lanes |-> NoLanes, rows |-> rows]

\* Scalars, two of them below the nodes of a list and of a joined text.
Wildcards(mismatch) ==
  Transform(mismatch,
    <<Field(<<a>>, "VARCHAR"), Field(<<c>>, "BOOLEAN"), Field(<<b, Index(0), a>>, "VARCHAR"),
      ListOf(<<b, Wildcard, a>>, "BIGINT"), Joined(<<b, Wildcard, a>>), ListOf(<<b, Wildcard>>, "VARCHAR"),
      Field(<<b, c>>, "BIGINT"), Joined(<<b, a, Wildcard>>)>>,
    NoLanes,
    Under({Obj2(1, X, 3, True), Obj2(1, Seven, 2, Array(<<Obj(1, SevenText), JsonNull, X>>)),
           Obj2(2, Array(<<>>), 3, JsonNull), Obj2(1, JsonNull, 2, Obj2(1, Array(<<Y, True>>), 3, Seven))},
          NoLanes))

\* Rows whose slots are the same and whose keys are not.
Spellings ==
  Transform("convert",
    <<Field(<<b>>, "VARCHAR"), Field(<<a>>, "VARCHAR"), Field(<<c>>, "BIGINT")>>,
    NoLanes,
    Under({Obj2(1, X, 3, Y), Obj2(2, X, 3, SevenText), Obj2(1, X, 2, Y), Obj2(1, Y, 2, SevenText),
           Obj(1, Seven)},
          NoLanes))

\* Fields that lanes stand for; rows written with them, with more and with fewer.
Two == <<a>> :> "VARCHAR" @@ <<b, c>> :> "BIGINT"
Laned ==
  Transform("convert",
    <<Field(<<a>>, "VARCHAR"), Field(<<b, c>>, "VARCHAR"), Field(<<c>>, "BIGINT"), Field(<<b>>, "BIGINT")>>,
    Two,
    Under({Obj2(1, X, 2, Obj(3, Seven)), Obj2(1, Seven, 2, Obj(3, Y)), Obj2(2, Obj2(1, X, 3, Seven), 3, SevenText)},
          Two)
    \cup Under({Obj2(1, X, 3, Seven)}, Two @@ <<c>> :> "BIGINT")
    \cup Under({Obj2(1, X, 2, Obj(3, Seven))}, <<a>> :> "VARCHAR"))

\* A lane of an array, away from the fields and under one of them.
ArrayLane == <<b, a>> :> "LIST" @@ <<a>> :> "VARCHAR"
OverArrays(fields) ==
  Transform("null", fields, ArrayLane,
    Under({Obj2(1, X, 2, Obj2(1, Array(<<X, Seven>>), 3, Seven)), Obj2(1, Seven, 2, Obj(1, X))}, ArrayLane)
    \cup Under({Obj2(1, X, 3, Seven)}, ArrayLane @@ <<c>> :> "BIGINT"))
AwayFromArrays ==
  OverArrays(<<Field(<<a>>, "VARCHAR"), Field(<<b, c>>, "BIGINT"), Field(<<c>>, "BIGINT")>>)
IntoArrays ==
  OverArrays(<<Field(<<a>>, "VARCHAR"), ListOf(<<b, a, Wildcard>>, "VARCHAR"), Field(<<b, a, Index(0)>>, "VARCHAR"),
               Field(<<c>>, "BIGINT")>>)

\* The projector: two paths below $.b, a path above others, and the root; rows of
\* a plain column, some of them narrowed by a cast.
BelowOne ==
  Project(<<Text(<<a>>), Text(<<b, a>>), Text(<<b, c>>), Text(<<c, Index(0)>>), Text(<<c>>)>>,
    Under({Obj2(1, X, 2, Obj2(1, Seven, 3, JsonNull)), Obj2(2, X, 3, Array(<<Y>>))}, NoLanes)
    \cup Under({Obj2(1, X, 2, Obj(1, Y)), Obj2(2, Obj(3, Y), 3, X)}, <<b, c>> :> "VARCHAR"))
FromTheRoot ==
  Project(<<Text(<<a>>), Text(<<>>), Text(<<b, a>>)>>,
    Under({Obj2(1, X, 2, Obj(1, Seven)), Seven}, NoLanes)
    \cup Under({Obj2(1, X, 2, Obj(1, Seven))}, <<b, a>> :> "BIGINT"))
Apart ==
  Project(<<Text(<<a>>), Text(<<b>>), Text(<<c>>)>>,
    Under({Obj(1, X), Obj(2, Y), Empty}, NoLanes)
    \cup Under({Obj2(1, X, 2, Y)}, <<a>> :> "BIGINT")
    \cup Under({Obj2(1, X, 3, Seven)}, <<c>> :> "BIGINT"))

MCQueries ==
  {Wildcards("convert"), Wildcards("null"), Wildcards("fail"), Spellings, Laned, AwayFromArrays,
   IntoArrays, BelowOne, FromTheRoot, Apart}
=============================================================================
