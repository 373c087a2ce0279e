-------------------------------- MODULE Advisor --------------------------------
(***************************************************************************)
(* jsono_suggest_shredding (jsono_advisor.cpp): what the documents of a    *)
(* column hold at each path that could be a lane, and the lanes that are   *)
(* suggested for it.                                                       *)
(*                                                                         *)
(* A path is the sequence of its keys.  The map of a state is bounded: a   *)
(* path or a subfield above the cap fails the query.  Fractions are parts  *)
(* of Scale, and the tolerance of the comparisons of doubles is left out.  *)
(***************************************************************************)
EXTENDS Integers, SequencesExt

CONSTANTS
  Keys,        \* the keys of objects
  EmptyKey,    \* the key "", which names no lane
  Fits,        \* for each scalar the primitives that hold it
  MaxDepth,    \* JSONO_AUTO_SHRED_MAX_DEPTH
  MaxPaths,    \* kMaxCandidatePaths
  Scale        \* what a fraction of 1.0 is

kPrimitivePreference == <<"BIGINT", "UBIGINT", "DOUBLE", "BOOLEAN", "VARCHAR">>
Primitive == Range(kPrimitivePreference)

ScalarOf(value) == [kind |-> "scalar", value |-> value]
ArrayOf(items) == [kind |-> "array", items |-> items]
ObjectOf(member) == [kind |-> "object", member |-> member]
JsonNull == ScalarOf("null")

IsScalar(node) == node.kind = "scalar"
IsArray(node) == node.kind = "array"
IsObject(node) == node.kind = "object"

\* Documents and what they are made of.
IsClosed(D) ==
  \A n \in D :
    \/ n.kind = "scalar"
    \/ n.kind = "array" /\ n.items \in Seq(D)
    \/ n.kind = "object" /\ DOMAIN n.member \subseteq Keys
                         /\ \A k \in DOMAIN n.member : n.member[k] \in D

\* A null is held by every lane: it stays in the residual, and the lane is NULL.
FitsPrimitive(node, p) == IsScalar(node) /\ (node = JsonNull \/ p \in Fits[node.value])

-----------------------------------------------------------------------------
(* Counters. *)

NoFit == [p \in Primitive |-> 0]
Added(f, g) == [p \in Primitive |-> f[p] + g[p]]
FitCounts(node) == [p \in Primitive |-> IF FitsPrimitive(node, p) THEN 1 ELSE 0]

NoCandidate ==
  [scalar_present |-> 0, scalar_fit |-> NoFit, nonrole_present |-> 0, array_rows |-> 0,
   saw_scalar_element |-> FALSE, saw_object_element |-> FALSE, sarray_fit |-> NoFit,
   oarray_object_rows |-> 0, object_elements |-> 0, subfields |-> <<>>]

RecordScalar(node) == [NoCandidate EXCEPT !.scalar_present = 1, !.scalar_fit = FitCounts(node)]

Nonrole == [NoCandidate EXCEPT !.nonrole_present = 1]

Carrying(items, key) == {i \in DOMAIN items : key \in DOMAIN items[i].member}

SubfieldStat(items, key) ==
  [present |-> Cardinality(Carrying(items, key)),
   fit |-> [p \in Primitive |->
              Cardinality({i \in Carrying(items, key) : FitsPrimitive(items[i].member[key], p)})]]

ClassifyTopLevelArray(items) ==
  LET all_scalar == \A i \in DOMAIN items : IsScalar(items[i])
      all_object == \A i \in DOMAIN items : IsObject(items[i])
      keys == (UNION {DOMAIN items[i].member : i \in DOMAIN items}) \ {EmptyKey}
      fits(p) == \A i \in DOMAIN items : FitsPrimitive(items[i], p)
  IN [NoCandidate EXCEPT
        !.array_rows = 1,
        !.saw_scalar_element = \E i \in DOMAIN items : IsScalar(items[i]),
        !.saw_object_element = \E i \in DOMAIN items : IsObject(items[i]),
        !.sarray_fit = [p \in Primitive |-> IF all_scalar /\ fits(p) THEN 1 ELSE 0],
        !.oarray_object_rows = IF all_object THEN 1 ELSE 0,
        !.object_elements = IF all_object THEN Len(items) ELSE 0,
        !.subfields = IF all_object THEN [k \in keys |-> SubfieldStat(items, k)] ELSE <<>>]

\* What a value at a path of depth keys is counted as.
Seen(node, depth) ==
  IF IsScalar(node) THEN RecordScalar(node)
  ELSE IF IsArray(node) /\ depth = 1 THEN ClassifyTopLevelArray(node.items)
  ELSE Nonrole

\* The values that a walk meets down to each depth of automatic lanes, each with
\* its path: what is not an object is not walked further.
LevelsBelow(doc) ==
  LET members(at) == {<<Append(at[1], k), at[2].member[k]>> : k \in DOMAIN at[2].member \ {EmptyKey}}
      level[d \in 0 .. MaxDepth] ==
        IF d = 0 THEN {<< <<>>, doc >>}
        ELSE UNION {members(at) : at \in {x \in level[d - 1] : IsObject(x[2])}}
  IN level

WalkNestedObject(doc) == UNION {LevelsBelow(doc)[d] : d \in 1 .. MaxDepth}

\* The candidates that a document makes of its paths.
AccumulateDocument(doc) ==
  LET met == WalkNestedObject(doc)
      node(p) == (CHOOSE at \in met : at[1] = p)[2]
  IN [p \in {at[1] : at \in met} |-> Seen(node(p), Len(p))]

\* Two maps merged, entries that both have by Merge.
MergedMaps(a, b, Merge(_, _)) ==
  [k \in DOMAIN a \cup DOMAIN b |->
     IF k \notin DOMAIN b THEN a[k] ELSE IF k \notin DOMAIN a THEN b[k] ELSE Merge(a[k], b[k])]

MergeSubfieldStat(a, b) == [present |-> a.present + b.present, fit |-> Added(a.fit, b.fit)]

MergeSuggestCandidate(a, b) ==
  [scalar_present     |-> a.scalar_present + b.scalar_present,
   scalar_fit         |-> Added(a.scalar_fit, b.scalar_fit),
   nonrole_present    |-> a.nonrole_present + b.nonrole_present,
   array_rows         |-> a.array_rows + b.array_rows,
   saw_scalar_element |-> a.saw_scalar_element \/ b.saw_scalar_element,
   saw_object_element |-> a.saw_object_element \/ b.saw_object_element,
   sarray_fit         |-> Added(a.sarray_fit, b.sarray_fit),
   oarray_object_rows |-> a.oarray_object_rows + b.oarray_object_rows,
   object_elements    |-> a.object_elements + b.object_elements,
   subfields          |-> MergedMaps(a.subfields, b.subfields, MergeSubfieldStat)]

EmptySuggest == [paths |-> <<>>, non_null_rows |-> 0]

MergeSuggest(a, b) ==
  [paths |-> MergedMaps(a.paths, b.paths, MergeSuggestCandidate),
   non_null_rows |-> a.non_null_rows + b.non_null_rows]

SuggestOf(doc) == [paths |-> AccumulateDocument(doc), non_null_rows |-> 1]

\* Wrong: a subfield is not counted against the cap.
WithinPathCap(state) == Cardinality(DOMAIN state.paths) <= MaxPaths
\* Neither the map of paths nor that of the subfields of one grew beyond the cap.
WithinCap(state) ==
  /\ Cardinality(DOMAIN state.paths) <= MaxPaths
  /\ \A p \in DOMAIN state.paths : Cardinality(DOMAIN state.paths[p].subfields) <= MaxPaths

-----------------------------------------------------------------------------
(* The suggestion. *)

NoType == [kind |-> "none"]

Reaches(count, fraction, total) == count * Scale >= fraction * total

\* The first primitive that holds enough of what is present.
PickLanePrimitive(fit, present, min_fit) ==
  LET enough == {i \in DOMAIN kPrimitivePreference :
                   Reaches(fit[kPrimitivePreference[i]], min_fit, present)}
  IN IF present = 0 \/ enough = {} THEN "none"
     ELSE kPrimitivePreference[CHOOSE i \in enough : \A j \in enough : i <= j]

BuildObjectArrayType(candidate, call) ==
  LET lane(k) == PickLanePrimitive(candidate.subfields[k].fit, candidate.subfields[k].present,
                                   call.min_fit)
      kept == {k \in DOMAIN candidate.subfields :
                 /\ Reaches(candidate.subfields[k].present, call.min_presence, candidate.object_elements)
                 /\ lane(k) # "none"}
  IN IF kept = {} THEN NoType ELSE [kind |-> "struct", fields |-> [k \in kept |-> lane(k)]]

\* Wrong: a role is measured on the rows it is met in.
ChooseByRole(candidate, rows, call) ==
  LET scalar == PickLanePrimitive(candidate.scalar_fit, candidate.scalar_present, call.min_fit)
  IN IF scalar # "none" /\ Reaches(candidate.scalar_present, call.min_presence, rows)
     THEN [kind |-> "scalar", primitive |-> scalar] ELSE NoType
ChooseShredType(candidate, rows, call) ==
  LET total_present == candidate.scalar_present + candidate.array_rows + candidate.nonrole_present
      scalar == PickLanePrimitive(candidate.scalar_fit, total_present, call.min_fit)
      isScalar == /\ candidate.scalar_present > 0
                  /\ Reaches(candidate.scalar_present, call.min_presence, rows)
                  /\ scalar # "none"
      arrays == /\ candidate.array_rows > IF isScalar THEN candidate.scalar_present ELSE 0
                /\ Reaches(candidate.array_rows, call.min_presence, rows)
      element == PickLanePrimitive(candidate.sarray_fit, total_present, call.min_fit)
      isScalarArray == arrays /\ candidate.saw_scalar_element /\ element # "none"
      struct == BuildObjectArrayType(candidate, call)
      isObjectArray == /\ arrays
                       /\ ~isScalarArray
                       /\ candidate.saw_object_element
                       /\ Reaches(candidate.oarray_object_rows, call.min_fit, total_present)
                       /\ struct # NoType
  IN IF isObjectArray THEN struct
     ELSE IF isScalarArray THEN [kind |-> "list", primitive |-> element]
     ELSE IF isScalar THEN [kind |-> "scalar", primitive |-> scalar]
     ELSE NoType

FinalizeSuggest(state, call, null) ==
  LET chosen(p) == ChooseShredType(state.paths[p], state.non_null_rows, call)
      kept == {p \in DOMAIN state.paths : chosen(p) # NoType}
  IN IF kept = {} THEN null ELSE [p \in kept |-> chosen(p)]
=============================================================================
