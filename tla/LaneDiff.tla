-------------------------------- MODULE LaneDiff --------------------------------
(***************************************************************************)
(* jsono_diff (jsono_diff.cpp): the structural difference from one         *)
(* document to another, with three renderings of a changed array.  Two     *)
(* arguments of one shredded type are compared lane by lane and residual   *)
(* by residual; a row where a lane is present on one side only, or a side  *)
(* is SQL NULL, is reconstructed and compared as documents.                *)
(*                                                                         *)
(* Arrays are leaves whose value is the sequence of their elements.        *)
(***************************************************************************)
EXTENDS ShreddedRow

CONSTANTS
  Absent,                    \* no baseline to compare with
  Unset,                     \* no diff is computed yet
  Collision,                 \* the internal error of the union of two diffs
  Compared,                  \* the documents that are compared
  LaneTypes,                 \* the row types of the arguments, <<>> for plain ones
  MULTISET_STRUCTURAL_MAX    \* the longest arrays compared element by element

VARIABLES
  mode,     \* "atomic", "counts" or "elements"; "none" before the call
  lanes,    \* the row type of both arguments; no lane if they are reconstructed
  prev,     \* the row of the first argument
  cur,      \* the row of the second argument
  diff      \* the result

diffVars == <<mode, lanes, prev, cur, diff>>

Array(elements) == [kind |-> "array", value |-> elements]
IsArray(node) == node # Absent /\ node.kind = "array"

ASSUME CompareAssumption ==
  /\ \A d \in Compared : IsDocument(d) /\ d = [p \in DOMAIN d |-> d[p]]
  /\ \A d \in Compared : \A p \in {q \in DOMAIN d : IsArray(d[q])} :
       DOMAIN d[p].value = 1 .. Len(d[p].value) /\ Len(d[p].value) \in Nat
  /\ \A type \in LaneTypes : RowType(type)

NodeAt(doc, path) == IF doc # Absent /\ Exists(doc, path) THEN doc[path] ELSE Absent

-----------------------------------------------------------------------------
(* Arrays as multisets: the indices of the elements only one side has. *)

\* The indices of a value in a sequence, and how many of a set of indices come before i.
Places(s, v) == {i \in DOMAIN s : s[i] = v}
Occurrences(s, v) == Cardinality(Places(s, v))
Before(indices, i) == Cardinality({j \in indices : j < i})

\* Wrong: an element may take one that is taken.
ComputeMultisetUnmatched(was, now) ==
  [added   |-> {i \in DOMAIN now : now[i] \notin Range(was)},
   removed |-> {j \in DOMAIN was : was[j] \notin Range(now)}]

\* Short arrays: an element takes the first equal one that is still free; 0 if none is.
ComputeMultisetStructural(was, now) ==
  LET taken[i \in DOMAIN now] ==
        LET free == {j \in Places(was, now[i]) : \A k \in 1 .. i - 1 : taken[k] # j}
        IN IF free = {} THEN 0 ELSE Min(free)
  IN [added   |-> {i \in DOMAIN now : taken[i] = 0},
      removed |-> {j \in DOMAIN was : \A i \in DOMAIN now : taken[i] # j}]

\* Long arrays: the occurrences of a value beyond the other side's count.
Surplus(s, t) == {i \in DOMAIN s : Before(Places(s, s[i]), i) >= Occurrences(t, s[i])}
ComputeMultisetHashed(was, now) == [added |-> Surplus(now, was), removed |-> Surplus(was, now)]

ComputeMultiset(was, now) ==
  IF Max({Len(was), Len(now)}) > MULTISET_STRUCTURAL_MAX
  THEN ComputeMultisetHashed(was, now)
  ELSE ComputeMultisetStructural(was, now)

\* A baseline that is no array counts as an empty one.
Baseline(was) == IF IsArray(was) THEN was.value ELSE <<>>

ArrayDiffers(was, now, how) ==
  IF how = "atomic" THEN was # now
  ELSE LET m == ComputeMultiset(Baseline(was), now.value)
       IN m.added # {} \/ m.removed # {}

\* The elements of a sequence at a set of indices, in their order.
Pick(s, indices) ==
  [n \in 1 .. Cardinality(indices) |-> s[CHOOSE i \in indices : Before(indices, i) = n - 1]]

\* The nodes a changed array is reported with, relative to its place.
EmitDiffArray(was, now, how) ==
  LET m == ComputeMultiset(Baseline(was), now.value)
      report(added, removed) ==
        [q \in {<<>>, <<"added">>, <<"removed">>} |->
           CASE q = <<>> -> Branch [] q = <<"added">> -> added [] q = <<"removed">> -> removed]
  IN CASE how = "atomic" -> [q \in {<<>>} |-> now]
       [] how = "counts" -> report(Scalar(Cardinality(m.added)), Scalar(Cardinality(m.removed)))
       [] how = "elements" -> report(Array(Pick(now.value, m.added)),
                                     Array(Pick(Baseline(was), m.removed)))

-----------------------------------------------------------------------------
(* Documents. *)

\* What only the first document has, where the second one has an object around it.
Removed(was, now) ==
  {p \in (IF was = Absent THEN {} ELSE DOMAIN was \ DOMAIN now) :
     p # <<>> /\ Exists(now, Front(p)) /\ now[Front(p)] = Branch}

\* Whether what stands at a path of the second document is itself a change.
DiffersAt(was, now, path, how) ==
  IF IsArray(now[path]) THEN ArrayDiffers(NodeAt(was, path), now[path], how)
  ELSE \/ NodeAt(was, path) # now[path]
       \/ \E p \in Removed(was, now) : Front(p) = path

\* Wrong: a key that becomes an object is a change only if the object has members.
DiffChangedInside(was, now, path, how) ==
  \E p \in DOMAIN now :
    /\ IsPrefix(path, p)
    /\ DiffersAt(was, now, p, how)
    /\ now[p] = Branch => \E q \in Removed(was, now) : Front(q) = p

\* Whether the value at a path is a change against its baseline.
DiffChanged(was, now, path, how) ==
  \E p \in DOMAIN now : IsPrefix(path, p) /\ DiffersAt(was, now, p, how)

\* The change of a document: removed keys are null, added and changed keys hold
\* their own difference, keys without one are left out.  No change is {}.
DiffDocuments(was, now, how) ==
  LET changed == {p \in DOMAIN now : DiffChanged(was, now, p, how)}
      removed == Removed(was, now)
      arrays == {p \in changed : IsArray(now[p])}
      report(p) == EmitDiffArray(NodeAt(was, p), now[p], how)
      reported == UNION {{p \o q : q \in DOMAIN report(p)} : p \in arrays}
  IN [p \in ({<<>>} \cup changed) \cup (removed \cup reported) |->
        IF p \in removed THEN Scalar(Null)
        ELSE IF p \in arrays THEN report(p)[<<>>]
        ELSE IF p \in changed THEN now[p]
        ELSE IF p \in reported THEN report(Front(p))[<<Last(p)>>]
        ELSE Branch]

-----------------------------------------------------------------------------
(* Arguments of one shredded type. *)

\* Wrong: a lane only the first row has goes unnoticed.
LanesCovered ==
  /\ lanes # <<>>
  /\ SqlNull \notin {prev, cur}
  /\ DOMAIN cur.lane \subseteq DOMAIN prev.lane

\* Rows whose lanes hold values on the same paths; any other row is reconstructed.
LanesPairUp ==
  /\ lanes # <<>>
  /\ SqlNull \notin {prev, cur}
  /\ DOMAIN prev.lane = DOMAIN cur.lane

ChangedLanes == {l \in DOMAIN cur.lane : prev.lane[l] # cur.lane[l]}

EmitLanePatch == EmitShredPatchObject([l \in ChangedLanes |-> cur.lane[l]])

\* Two diffs as one; a path both have must be an object in both.
UnionDiffObjects(a, b) ==
  IF \E p \in DOMAIN a \cap DOMAIN b : a[p] # Branch \/ b[p] # Branch THEN Collision
  ELSE [p \in DOMAIN a \cup DOMAIN b |-> IF p \in DOMAIN a THEN a[p] ELSE b[p]]

-----------------------------------------------------------------------------
DiffInit == mode = "none" /\ lanes = <<>> /\ prev = SqlNull /\ cur = SqlNull /\ diff = Unset

\* The call jsono_diff(was, now): how arrays are rendered, the type of the
\* arguments and the rows.
CallDiff ==
  /\ mode = "none"
  /\ \E how \in {"atomic", "counts", "elements"}, type \in LaneTypes,
        was, now \in Compared \cup {SqlNull} :
       /\ mode' = how
       /\ lanes' = type
       /\ prev' = RowOf(type, was)
       /\ cur' = RowOf(type, now)
  /\ UNCHANGED diff

Called == mode # "none" /\ diff = Unset

\* Lanes are compared as values and residuals as documents.
DiffDirect ==
  /\ Called
  /\ LanesPairUp
  /\ LET residual == DiffDocuments(prev.residual, cur.residual, mode)
     IN diff' = IF ChangedLanes = {} THEN residual ELSE UnionDiffObjects(residual, EmitLanePatch)
  /\ UNCHANGED <<mode, lanes, prev, cur>>

\* SQL NULL is no baseline on the first side and the empty object on the second.
PrevDocument == IF prev = SqlNull THEN Absent ELSE Reconstruct(prev)
CurDocument == IF cur = SqlNull THEN EmptyObject ELSE Reconstruct(cur)

\* Both sides are compared as documents.
DiffReconstructed ==
  /\ Called
  /\ ~LanesPairUp
  /\ diff' = DiffDocuments(PrevDocument, CurDocument, mode)
  /\ UNCHANGED <<mode, lanes, prev, cur>>

DiffNext == CallDiff \/ DiffDirect \/ DiffReconstructed

DiffSpec == DiffInit /\ [][DiffNext]_diffVars

-----------------------------------------------------------------------------
(* What jsono_diff promises. *)

\* Comparing lanes and residuals gives the difference of the documents.
DirectDiffIsThePlainDiff ==
  diff # Unset => diff = DiffDocuments(PrevDocument, CurDocument, mode)

\* A changed array is reported with what its two sides hold: for every value the
\* old elements and the added ones are the new elements and the removed ones, no
\* value is both added and removed, and counts are the lengths of those lists.
Balanced(was, now, report) ==
  \A v \in Range(was) \cup Range(now) :
    LET added == Occurrences(report[<<"added">>].value, v)
        removed == Occurrences(report[<<"removed">>].value, v)
    IN /\ Occurrences(was, v) + added = Occurrences(now, v) + removed
       /\ 0 \in {added, removed}

ArrayReportsBalance ==
  (diff # Unset /\ mode # "atomic" /\ IsObject(CurDocument)) =>
    \A p \in {q \in DOMAIN CurDocument \cap DOMAIN diff : IsArray(CurDocument[q])} :
      LET was == NodeAt(PrevDocument, p)
          now == CurDocument[p]
          elements == EmitDiffArray(was, now, "elements")
      IN /\ Balanced(Baseline(was), now.value, elements)
         /\ mode = "elements" => At(diff, p) = elements
         /\ mode = "counts" =>
              \A side \in {"added", "removed"} :
                diff[p \o <<side>>].value = Len(elements[<<side>>].value)
=============================================================================
