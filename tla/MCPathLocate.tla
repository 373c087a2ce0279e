----------------------------- MODULE MCPathLocate -----------------------------
(* A small instance of PathLocate: two positions, objects of up to five keys. *)
EXTENDS PathLocate, SequencesExt

MCKey == 1 .. 5
MCPos == {0, 3}
\* Every lookup shares one entry of each cache with every other.
MCLayoutIndex(p) == "only"
MCRankIndex(s, n) == "only"

\* An object of the keys of K whose values take `width` slots, and two more
\* from the third on.
ObjectOf(K, width, span, hash) ==
  LET n == Cardinality(K)
      sorted == SetToSortSeq(K, LAMBDA x, y : x < y)
  IN [count |-> n,
      key |-> [k \in 0 .. n - 1 |-> sorted[k + 1]],
      value |-> [k \in 0 .. n |-> k * width + (IF k > 2 THEN 2 ELSE 0)],
      span |-> span, hash |-> hash]

RowOf(root, inner) == (0 :> root) @@ (3 :> inner)

\* Shape hashes collide (7); a small object may have a span or none.
MCRow ==
  { RowOf(ObjectOf({1, 2, 3, 4, 5}, 1, TRUE, 7), NoObject),
    RowOf(ObjectOf({2, 4, 5}, 2, TRUE, 7), ObjectOf({1, 3, 4}, 1, TRUE, 7)),
    RowOf(ObjectOf({2, 3}, 1, FALSE, 0), ObjectOf({}, 1, FALSE, 0)),
    RowOf(NoObject, ObjectOf({1, 3, 5}, 1, TRUE, 8)) }
=============================================================================
