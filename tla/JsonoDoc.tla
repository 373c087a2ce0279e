------------------------------- MODULE JsonoDoc -------------------------------
(***************************************************************************)
(* JSONO documents, and the merge of jsono_merge_core.hpp.                 *)
(*                                                                         *)
(* A document is a function from the paths of its nodes, the sequences of  *)
(* object keys that lead to them, to what stands there: an object, or a    *)
(* leaf, which is a scalar, an explicit null or a whole array, into which  *)
(* merges never look.  The nesting limit and the encoding of nodes are     *)
(* left out.                                                               *)
(***************************************************************************)
EXTENDS Integers, SequencesExt

CONSTANTS
  Null,      \* the explicit JSON null
  SqlNull    \* no document: SQL NULL

Branch == [kind |-> "object"]
Scalar(value) == [kind |-> "leaf", value |-> value]

\* A path that exists leads through objects only.
IsDocument(doc) ==
  /\ DOMAIN doc \subseteq Seq(STRING)
  /\ <<>> \in DOMAIN doc
  /\ \A p \in DOMAIN doc : \A q \in Prefixes(p) \ {p} : q \in DOMAIN doc /\ doc[q] = Branch

Leaf(value) == [p \in {<<>>} |-> Scalar(value)]
EmptyObject == [p \in {<<>>} |-> Branch]
Object(member) ==
  [p \in {<<>>} \cup UNION {{<<k>> \o q : q \in DOMAIN member[k]} : k \in DOMAIN member} |->
     IF p = <<>> THEN Branch ELSE member[Head(p)][Tail(p)]]

IsObject(doc) == doc[<<>>] = Branch
Keys(doc) == {Head(p) : p \in DOMAIN doc \ {<<>>}}

\* The paths of the scalars and arrays of a document.
LeafPaths(doc) == {p \in DOMAIN doc : doc[p] \notin {Branch, Scalar(Null)}}

-----------------------------------------------------------------------------
(* Stripping and merging, under one of three modes: "Patch" is RFC 7396,   *)
(* "IgnoreNulls" is jsono_group_merge, and under "Overlay" the first       *)
(* document is authoritative.                                              *)

Survives(doc, path) == \E p \in LeafPaths(doc) : IsPrefix(path, p)
MemberSurvives(doc, path, mode) ==
  doc[path] # Scalar(Null) /\ (mode = "Patch" \/ Survives(doc, path))

Strip(doc, mode) ==
  Restrict(doc, {p \in DOMAIN doc : p = <<>> \/ MemberSurvives(doc, p, mode)})

\* Where two objects merge, both documents have an object: the paths their
\* merge goes into, and the paths at which it meets anything else.
Nested(a, b) == {p \in DOMAIN a \cap DOMAIN b : a[p] = Branch /\ b[p] = Branch}
Met(a, b) ==
  LET nested == Nested(a, b)
  IN {p \in (DOMAIN a \cup DOMAIN b) \ nested : Front(p) \in nested}

\* There the first document keeps its node or the second one puts its own.
Kept(a, b, mode) ==
  {p \in Met(a, b) \cap DOMAIN a :
     \/ mode = "Overlay"
     \/ mode = "Patch" /\ p \notin DOMAIN b
     \/ /\ mode = "IgnoreNulls"
        /\ a[p] # Scalar(Null)
        /\ p \in DOMAIN b => b[p] = Scalar(Null)}
Put(a, b, mode) ==
  {p \in Met(a, b) \cap DOMAIN b :
     MemberSurvives(b, p, mode) /\ (mode = "Overlay" => p \notin DOMAIN a)}

\* What is put is stripped, and so is what is kept under "IgnoreNulls".
MergeTwoObjects(a, b, mode) ==
  LET kept == Kept(a, b, mode)
      put == Put(a, b, mode)
      first == {p \in DOMAIN a : \E q \in kept :
                  IsPrefix(q, p) /\ (mode = "IgnoreNulls" => p = q \/ MemberSurvives(a, p, mode))}
      second == {p \in DOMAIN b : \E q \in put : IsPrefix(q, p) /\ MemberSurvives(b, p, mode)}
  IN [p \in (Nested(a, b) \cup first) \cup second |-> IF p \in second THEN b[p] ELSE a[p]]

-----------------------------------------------------------------------------
(* Paths. *)

Exists(doc, path) == path \in DOMAIN doc

\* The part of a document at a path.
At(doc, path) ==
  [q \in {SubSeq(p, Len(path) + 1, Len(p)) : p \in {r \in DOMAIN doc : IsPrefix(path, r)}} |->
     doc[path \o q]]

\* The document with a scalar at path and nothing else.
Chain(path, value) ==
  [p \in Prefixes(path) |-> IF p = path THEN Scalar(value) ELSE Branch]

\* Where following a path ends: depth counts the leading steps that resolve.
ClassifyResidualPath(doc, path) ==
  LET depth == Max({i \in 0 .. Len(path) : Exists(doc, SubSeq(path, 1, i))})
  IN [depth   |-> depth,
      outcome |-> IF depth = Len(path) THEN "Present"
                  ELSE IF doc[SubSeq(path, 1, depth)] = Branch THEN "Absent"
                  ELSE "NonObjectPrefix"]
=============================================================================
