---------------------------- MODULE ProjectionTrie ----------------------------
(***************************************************************************)
(* Reading many paths of one document together: the trie of the paths and  *)
(* its walk (src/src/include/jsono_trie.hpp, jsono_trie_walk.hpp), and the *)
(* plan that stands for the walk on every row of one shape                 *)
(* (jsono_trie_shape_plan.hpp), for the two engines that use them, the     *)
(* transform into a struct and the projector of texts.                     *)
(*                                                                         *)
(* A key is a number, in the order of the keys.  A node of the trie is the *)
(* steps that lead to it.  The rank caches of the walk are those of        *)
(* PathLocate and left out, and so are the separators of joined texts.     *)
(***************************************************************************)
EXTENDS Integers, SequencesExt

CONSTANT Casts    \* per type, what the scalars become that can be cast to it

VARIABLE query    \* the bind data: engine, mismatch mode, fields, lane types

Scalar(kind, value) == [kind |-> kind, value |-> value]
Array(items) == [kind |-> "array", items |-> items]
Object(member) == [kind |-> "object", member |-> member]

IsObject(node) == node.kind = "object"
IsArray(node) == node.kind = "array"
IsContainer(node) == node.kind \in {"object", "array"}
SortedKeys(node) == SetToSortSeq(DOMAIN node.member, <)
Children(node) ==
  IF IsObject(node) THEN [i \in DOMAIN SortedKeys(node) |-> node.member[SortedKeys(node)[i]]]
  ELSE IF IsArray(node) THEN node.items
  ELSE <<>>

Key(k) == [kind |-> "key", key |-> k]
Index(i) == [kind |-> "index", index |-> i]
Wildcard == [kind |-> "wildcard"]

Fields == DOMAIN query.fields
Path(f) == query.fields[f].path
Mode(f) == query.fields[f].mode
Type(f) == query.fields[f].type

-----------------------------------------------------------------------------
(* What is written to a field: a value, the text of a container, NULL, or  *)
(* a mark for a miss the projector has yet to check and for a failure.     *)

Null == [kind |-> "NULL"]
Missed == [kind |-> "missed"]
Mismatch == [kind |-> "mismatch"]
Unwritten == [kind |-> "unwritten"]
Value(v) == [kind |-> "value", value |-> v]

TypeOfKind(kind) ==
  CASE kind = "text" -> "VARCHAR" [] kind = "num" -> "BIGINT" [] OTHER -> "BOOLEAN"

Mismatched == IF query.mismatch = "fail" THEN Mismatch ELSE Null

WriteScalarValue(type, node) ==
  IF node.kind = "null" THEN Null
  ELSE IF query.mismatch = "null"
    THEN IF TypeOfKind(node.kind) = type THEN Value(node.value) ELSE Null
  ELSE IF node \in DOMAIN Casts[type] THEN Value(Casts[type][node]) ELSE Mismatched

WriteScalarField(type, node) ==
  IF IsContainer(node) THEN Mismatched ELSE WriteScalarValue(type, node)

EmitLocatedText(node) ==
  IF IsContainer(node) THEN node ELSE IF node.kind = "null" THEN Null ELSE Value(node.value)

WriteScalarLeaf(f, node) ==
  IF query.engine = "project" THEN EmitLocatedText(node) ELSE WriteScalarField(Type(f), node)

NullLeaf(f) == IF query.engine = "project" THEN Missed ELSE Null

\* What one element of a wildcard adds to a joined text.
JoinText(node) ==
  IF IsContainer(node) THEN IF query.mismatch = "fail" THEN <<Mismatch>> ELSE <<>>
  ELSE IF node.kind = "null" \/ (query.mismatch = "null" /\ node.kind # "text") THEN <<>>
  ELSE <<Value(node.value)>>

MaterializeWildcardLeaf(f, node) ==
  IF Mode(f) = "join" THEN JoinText(node) ELSE <<WriteScalarField(Type(f), node)>>
WildcardMissing(f) == IF Mode(f) = "join" THEN <<>> ELSE <<Null>>

Collected(f, parts) ==
  IF Mode(f) = "list" THEN [kind |-> "list", items |-> parts]
  ELSE IF parts = <<>> THEN Null
  ELSE [kind |-> "joined", items |-> parts]

-----------------------------------------------------------------------------
(* The trie.  A scalar field whose path is a lane's is read without it.    *)

\* Whether a read could touch the array that lies at a path of keys.
PathStepsMayShareBranch(read, keyPath) ==
  \A i \in 1 .. IF Len(read) < Len(keyPath) THEN Len(read) ELSE Len(keyPath) :
    read[i].kind = "key" => read[i] = keyPath[i]

\* The transform reads a reconstructed value if a field could touch an array lane.
ReconstructShredded ==
  /\ query.engine = "transform"
  /\ \E l \in DOMAIN query.lanes, f \in Fields :
       query.lanes[l] = "LIST" /\ PathStepsMayShareBranch(Path(f), l)

LaneBacked(f) ==
  /\ query.engine = "transform"
  /\ ~ReconstructShredded
  /\ Mode(f) = "scalar"
  /\ Path(f) \in DOMAIN query.lanes
  /\ query.lanes[Path(f)] # "LIST"

TrieFields == {f \in Fields : ~LaneBacked(f)}
Below(n) == {f \in TrieFields : IsPrefix(n, Path(f))}
StepsBelow(n) == {Path(f)[Len(n) + 1] : f \in {g \in Below(n) : Path(g) # n}}

KeyEdges(n) == SetToSortSeq({s.key : s \in {t \in StepsBelow(n) : t.kind = "key"}}, <)

\* An object is walked key by key along the sorted edges: those that are met.
RECURSIVE WalkObject(_, _)
WalkObject(edges, keys) ==
  CASE edges = <<>> \/ keys = <<>> -> {}
    [] edges # <<>> /\ keys # <<>> /\ Head(edges) < Head(keys) -> WalkObject(Tail(edges), keys)
    [] edges # <<>> /\ keys # <<>> /\ Head(edges) > Head(keys) -> WalkObject(edges, Tail(keys))
    [] OTHER -> {Head(edges)} \cup WalkObject(Tail(edges), Tail(keys))

\* The steps below a node that lead somewhere in the value it stands at.
StepsPresent(n, node) ==
  CASE IsObject(node) -> {Key(k) : k \in WalkObject(KeyEdges(n), SortedKeys(node))}
    [] IsArray(node) -> {s \in StepsBelow(n) : \/ s = Wildcard
                                               \/ s.kind = "index" /\ s.index < Len(node.items)}
    [] OTHER -> {}

Child(node, step) == IF step.kind = "key" THEN node.member[step.key] ELSE node.items[step.index + 1]

NullSubtree(n) == [f \in Below(n) |-> NullLeaf(f)]

RECURSIVE ApplyWildcardElement(_, _)
ApplyWildcardElement(n, node) ==
  LET present == StepsPresent(n, node)
      below == [s \in present |-> ApplyWildcardElement(Append(n, s), Child(node, s))]
  IN [f \in Below(n) |->
        IF Path(f) = n THEN MaterializeWildcardLeaf(f, node)
        ELSE LET s == Path(f)[Len(n) + 1]
             IN IF s \in present THEN below[s][f] ELSE WildcardMissing(f)]

ApplyWildcard(n, items) ==
  [f \in Below(n) |->
     Collected(f, FlattenSeq([i \in DOMAIN items |-> ApplyWildcardElement(n, items[i])[f]]))]

RECURSIVE ApplyNode(_, _)
ApplyNode(n, node) ==
  LET present == StepsPresent(n, node)
      below == [s \in StepsBelow(n) |->
                  IF s \notin present THEN NullSubtree(Append(n, s))
                  ELSE IF s = Wildcard THEN ApplyWildcard(Append(n, s), node.items)
                  ELSE ApplyNode(Append(n, s), Child(node, s))]
  IN [f \in Below(n) |->
        IF Path(f) = n THEN WriteScalarLeaf(f, node) ELSE below[Path(f)[Len(n) + 1]][f]]

-----------------------------------------------------------------------------
(* Positions, and the shape of a document: its slots, without the names of *)
(* its keys, and its key heap.  The texts and the numbers lie in streams.  *)

RECURSIVE Preorder(_, _)
Preorder(pos, node) ==
  <<[pos |-> pos, node |-> node]>> \o
  FlattenSeq([i \in DOMAIN Children(node) |-> Preorder(Append(pos, i), Children(node)[i])])

ShapeOf(node) ==
  LET nodes == Preorder(<<>>, node)
  IN [slots |-> [i \in DOMAIN nodes |-> <<nodes[i].node.kind, Len(Children(nodes[i].node))>>],
      keys  |-> FlattenSeq([i \in DOMAIN nodes |->
                              IF IsObject(nodes[i].node) THEN SortedKeys(nodes[i].node) ELSE <<>>])]

Stream(node, kind) == SelectSeq(Preorder(<<>>, node), LAMBDA e : e.node.kind = kind)

RECURSIVE NodeAt(_, _)
NodeAt(node, pos) == IF pos = <<>> THEN node ELSE NodeAt(Children(node)[Head(pos)], Tail(pos))

NotFound == <<0>>

RECURSIVE Locate(_, _)
Locate(node, steps) ==
  IF steps = <<>> THEN <<>>
  ELSE LET s == Head(steps)
           rank == CASE s.kind = "key" /\ IsObject(node) ->
                          Cardinality({i \in DOMAIN SortedKeys(node) : SortedKeys(node)[i] <= s.key})
                     [] s.kind = "index" /\ IsArray(node) -> s.index + 1
                     [] OTHER -> 0
           there == /\ rank \in DOMAIN Children(node)
                    /\ s.kind = "key" => SortedKeys(node)[rank] = s.key
           rest == Locate(Children(node)[rank], Tail(steps))
       IN IF ~there \/ rest = NotFound THEN NotFound ELSE <<rank>> \o rest

-----------------------------------------------------------------------------
(* Plans. *)

\* The nodes that are walked: those before a wildcard, for the projector the
\* first on a way with two fields below it, and none below another.
CoverCandidates ==
  IF query.engine = "project"
  THEN LET pair(f) == {i \in 1 .. Len(Path(f)) : Cardinality(Below(SubSeq(Path(f), 1, i))) >= 2}
       IN IF (\E f \in Fields : Path(f) = <<>>) /\ Cardinality(Fields) >= 2 THEN {<<>>}
          ELSE {SubSeq(Path(f), 1, Min(pair(f))) : f \in {g \in Fields : pair(g) # {}}}
  ELSE {SubSeq(Path(f), 1, SelectInSeq(Path(f), LAMBDA s : s = Wildcard) - 1) :
          f \in {g \in TrieFields : Mode(g) # "scalar"}}

SelectCoverNodes ==
  {n \in CoverCandidates : \A m \in CoverCandidates : ~IsStrictPrefix(m, n)}

Covered(f) == \E n \in SelectCoverNodes : IsPrefix(n, Path(f))

\* The scalar at a position: where the streams have it, or what it always is.
ScalarAt(node, pos) ==
  LET scalar == NodeAt(node, pos)
      index == SelectInSeq(Stream(node, scalar.kind), LAMBDA e : e.pos = pos)
  IN IF scalar.kind \in {"text", "num"} THEN [kind |-> scalar.kind, index |-> index]
     ELSE Scalar(scalar.kind, scalar.value)

ScalarOf(action, node) ==
  IF action.kind \in {"text", "num"} THEN Stream(node, action.kind)[action.index].node
  ELSE action

BuildShapePlan(node) ==
  LET at(f) == Locate(node, Path(f))
      found == {f \in Fields : at(f) # NotFound}
      direct == {f \in TrieFields : Mode(f) = "scalar" /\ ~Covered(f)}
      located == {n \in SelectCoverNodes : Locate(node, n) # NotFound}
      leaves == IF query.engine = "project" THEN {Path(f) : f \in direct \cap found} ELSE {}
      read == IF query.engine = "project" THEN {} ELSE (direct \cup (Fields \ TrieFields)) \cap found
      fixed == {f \in read : NodeAt(node, at(f)).kind \in {"object", "array", "null"}}
  IN [nullFields   |-> (direct \ found) \cup fixed,
      nullSubtrees |-> SelectCoverNodes \ located,
      scalars      |-> [f \in read \ fixed |-> ScalarAt(node, at(f))],
      walks        |-> [n \in located \cup leaves |-> Locate(node, n)],
      laneReads    |-> (Fields \ TrieFields) \ found]

\* A field backed by a lane reads it where the residual has nothing.
LaneRead(f, row) ==
  IF Path(f) \in DOMAIN row.lane THEN WriteScalarValue(Type(f), row.lane[Path(f)]) ELSE Null

ApplyShapePlan(plan, row) ==
  LET walked(f) == {n \in DOMAIN plan.walks : f \in Below(n)}
      nulled(f) == f \in plan.nullFields \/ \E n \in plan.nullSubtrees : f \in Below(n)
      walk == [n \in DOMAIN plan.walks |-> ApplyNode(n, NodeAt(row.residual, plan.walks[n]))]
  IN [f \in Fields |->
        IF nulled(f) THEN NullLeaf(f)
        ELSE IF f \in DOMAIN plan.scalars
          THEN WriteScalarValue(Type(f), ScalarOf(plan.scalars[f], row.residual))
        ELSE IF Cardinality(walked(f)) = 1 THEN walk[CHOOSE n \in walked(f) : TRUE][f]
        ELSE IF walked(f) # {} THEN [kind |-> "appended twice"]
        ELSE IF f \in plan.laneReads THEN LaneRead(f, row)
        ELSE Unwritten]

\* A row without a plan: the walk from the root, and each lane on its own.
ApplyTrie(row) ==
  LET walk == ApplyNode(<<>>, row.residual)
  IN [f \in Fields |->
        IF f \in TrieFields THEN walk[f]
        ELSE IF Locate(row.residual, Path(f)) # NotFound
          THEN WriteScalarField(Type(f), NodeAt(row.residual, Locate(row.residual, Path(f))))
        ELSE LaneRead(f, row)]

-----------------------------------------------------------------------------
(* What each field promises of a document, one path at a time. *)

ReadElement(f, steps, node) ==
  LET pos == Locate(node, steps)
  IN IF pos = NotFound THEN WildcardMissing(f) ELSE MaterializeWildcardLeaf(f, NodeAt(node, pos))

ReadField(f, doc) ==
  LET star == SelectInSeq(Path(f), LAMBDA s : s = Wildcard)
      pos == Locate(doc, IF star = 0 THEN Path(f) ELSE SubSeq(Path(f), 1, star - 1))
      rest == SubSeq(Path(f), star + 1, Len(Path(f)))
  IN IF pos = NotFound THEN Null
     ELSE IF star = 0 THEN WriteScalarLeaf(f, NodeAt(doc, pos))
     ELSE IF ~IsArray(NodeAt(doc, pos)) THEN Null
     ELSE LET items == NodeAt(doc, pos).items
          IN Collected(f, FlattenSeq([i \in DOMAIN items |-> ReadElement(f, rest, items[i])]))
=============================================================================
