----------------------------- MODULE ShreddedRow -----------------------------
(***************************************************************************)
(* A shredded JSONO value: a residual document, a lane per shredded path   *)
(* that carries a value of the lane's type or NULL, and the spill bits.    *)
(* Array lanes are left out: their values stay in the residual here.       *)
(*                                                                         *)
(* A row type is a function from its lanes, the shredded paths, to the     *)
(* values that the type of the lane holds exactly.                         *)
(***************************************************************************)
EXTENDS JsonoDoc

RowType(type) ==
  DOMAIN type \subseteq Seq(STRING) \ {<<>>} /\ \A l \in DOMAIN type : Null \notin type[l]

\* The lanes that take the value at their path.
Stripped(type, doc) ==
  {l \in DOMAIN type : Exists(doc, l) /\ \E v \in type[l] : doc[l] = Scalar(v)}

\* The document without the nodes at paths; the objects around them stay.
Without(doc, paths) ==
  Restrict(doc, {p \in DOMAIN doc : \A gone \in paths : ~IsPrefix(gone, p)})

\* Writing a row: what a lane takes leaves the residual, a value a lane cannot
\* take stays there and sets the lane's bit, a null sets none.
Shred(type, doc) ==
  LET taken == Stripped(type, doc)
  IN [residual |-> IF IsObject(doc) THEN Without(doc, taken) ELSE doc,
      lane     |-> [l \in taken |-> doc[l].value],
      spilled  |-> {l \in DOMAIN type \ taken : Exists(doc, l) /\ doc[l] # Scalar(Null)}]

\* The document of the lane values.  Where lanes overlap the upper one is taken.
EmitShredPatchObject(lane) ==
  LET upper == {l \in DOMAIN lane : \A m \in DOMAIN lane : ~IsStrictPrefix(m, l)}
  IN [p \in {<<>>} \cup UNION {Prefixes(l) : l \in upper} |->
        IF p \in upper THEN Scalar(lane[p]) ELSE Branch]

\* Reading the whole value: the lanes are laid over the residual, which is
\* authoritative; a residual that is not an object is the value.
Reconstruct(row) ==
  IF IsObject(row.residual)
  THEN MergeTwoObjects(row.residual, EmitShredPatchObject(row.lane), "Overlay")
  ELSE row.residual

RowOf(type, doc) == IF doc = SqlNull THEN SqlNull ELSE Shred(type, doc)
DocumentOf(row) == IF row = SqlNull THEN SqlNull ELSE Reconstruct(row)

\* A read at a lane's path is answered from the residual and the lanes together
\* when another lane lies inside the path, and else from the lane alone.
ReadNeedsReconstruct(lanes, l) == \E inner \in lanes \ {l} : IsPrefix(l, inner)

BareRead(row, l) == IF l \in DOMAIN row.lane THEN Leaf(row.lane[l]) ELSE Leaf(Null)
PathRead(doc, l) == IF Exists(doc, l) THEN At(doc, l) ELSE Leaf(Null)

\* A clear spill bit promises that the lane alone is the answer.
ClearBitsAreTrue(lanes, row) ==
  \A l \in lanes \ row.spilled :
    ~ReadNeedsReconstruct(lanes, l) => BareRead(row, l) = PathRead(Reconstruct(row), l)
=============================================================================
