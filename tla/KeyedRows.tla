------------------------------ MODULE KeyedRows ------------------------------
(***************************************************************************)
(* The input of jsono_group_merge_max / jsono_group_merge_min, and what    *)
(* the aggregate promises about it.                                        *)
(*                                                                         *)
(* A document is kept as the function from the paths of its leaves to      *)
(* their values.  A leaf is a scalar, a whole array (arrays are replaced   *)
(* wholesale), an explicit null or an empty object; an object with members *)
(* is the set of the leaves beneath it.  obj says whether the root is an   *)
(* object; a root that is not one is the single leaf <<>>.                 *)
(***************************************************************************)
EXTENDS Groups, Integers, SequencesExt

CONSTANTS
  Doc,          \* the documents rows may hold
  Val,          \* leaf values; their order is the byte order of their blobs
  Null,         \* the explicit JSON null
  EmptyObject,  \* the value of a member that is {}
  MaxKey,       \* order keys are 1 .. MaxKey, and 0 for a NULL key
  Direction     \* "max" or "min"

NullKey == 0
OrderKey == 0 .. MaxKey
SortKeySpace == 0 .. MaxKey

ASSUME KeyAssumption ==
  /\ MaxKey \in Nat
  /\ Direction \in {"max", "min"}

\* Blobs are compared bytewise: the values are numbered in that order.
ASSUME ValueAssumption ==
  /\ Val \subseteq Nat
  /\ Null \in Val
  /\ EmptyObject \in Val

\* No leaf of a document lies beneath another, and a root that is not an
\* object is the only leaf; one that is an object is a leaf when it is {}.
ASSUME DocAssumption ==
  /\ SqlNull \notin Doc
  /\ \A d \in Doc :
       /\ d.obj \in BOOLEAN
       /\ \A p \in DOMAIN d.leaf : p \in Seq(STRING) /\ d.leaf[p] \in Val
       /\ \A p, q \in DOMAIN d.leaf : ~IsStrictPrefix(p, q)
       /\ ~d.obj => DOMAIN d.leaf = {<<>>}
       /\ d.obj /\ <<>> \in DOMAIN d.leaf => d.leaf[<<>>] = EmptyObject

\* The leaves of a merge tree: a winning key and value for some of the paths.
Path == UNION {DOMAIN d.leaf : d \in Doc}
Leaf == [key : SortKeySpace, val : Val]
LeafMap == UNION {[S -> Leaf] : S \in SUBSET Path}

TableRow == [doc : Doc \cup {SqlNull}, key : OrderKey]

\* Wrong: the key is inverted under min, the NULL key with it.
SortKeyInverted(k) == IF Direction = "max" THEN k ELSE MaxKey + 1 - k

\* The sort-key blob: the direction is baked in, and a NULL key is the
\* smallest in both directions (NULLS FIRST), so it never wins.
SortKey(k) ==
  IF k = NullKey \/ Direction = "max" THEN k ELSE MaxKey + 1 - k

\* Null members, and members that are objects with nothing surviving in
\* them, are dropped; a root that is not an object is always a leaf.
Surviving(d) ==
  IF d.obj THEN {p \in DOMAIN d.leaf : d.leaf[p] \notin {Null, EmptyObject}}
           ELSE DOMAIN d.leaf

\* Wrong: no tie-break, so the leaf that came first stays.
BeatsByKey(a, b) == a.key > b.key

\* Greatest sort key first, then the greatest value bytes.
Beats(a, b) == \/ a.key > b.key
               \/ a.key = b.key /\ a.val > b.val

\* Two trees disagree on the kind of a path: one root is an object and the
\* other is not, or a leaf of one is an object in the other.
KindClash(obj1, paths1, obj2, paths2) ==
  \/ obj1 # obj2
  \/ \E p \in paths1, q \in paths2 : IsStrictPrefix(p, q) \/ IsStrictPrefix(q, p)

Clash(row1, row2) ==
  /\ row1.doc # SqlNull
  /\ row2.doc # SqlNull
  /\ KindClash(row1.doc.obj, Surviving(row1.doc),
               row2.doc.obj, Surviving(row2.doc))

\* What a row says about each of its surviving leaves.
Incoming(row) ==
  [p \in Surviving(row.doc) |->
     [key |-> SortKey(row.key), val |-> row.doc.leaf[p]]]

-----------------------------------------------------------------------------
(* Merging what two sets of rows say. *)

\* Two leaf maps merged path by path, the winner kept on a conflict.
MergeLeaves(old, new) ==
  [p \in DOMAIN old \cup DOMAIN new |->
     IF p \in DOMAIN old /\ (p \in DOMAIN new => ~Beats(new[p], old[p]))
     THEN old[p]
     ELSE new[p]]

\* Wrong: a leaf that arrives above an object goes unnoticed.
ConflictsOneWay(node, obj, leaf) ==
  /\ node.has_input
  /\ \/ node.obj # obj
     \/ \E p \in DOMAIN node.leaf, q \in DOMAIN leaf : IsStrictPrefix(p, q)

\* What is merged into a state that holds input must agree with it on kinds.
Conflicts(node, obj, leaf) ==
  node.has_input /\ KindClash(node.obj, DOMAIN node.leaf, obj, DOMAIN leaf)

-----------------------------------------------------------------------------

\* The promise: per leaf, the value of the row with the winning key.
Winner(C) == CHOOSE c \in C : \A d \in C : d = c \/ Beats(c, d)

Aggregate(rows) ==
  LET live == {row \in rows : row.doc # SqlNull}
  IN IF live = {}
     THEN SqlNull
     ELSE [obj  |-> \E row \in live : row.doc.obj,
           leaf |-> [p \in UNION {Surviving(row.doc) : row \in live} |->
                       Winner({Incoming(row)[p] :
                                 row \in {r \in live : p \in Surviving(r.doc)}}).val]]
=============================================================================
