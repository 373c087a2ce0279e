------------------------------- MODULE LaneForms -------------------------------
(***************************************************************************)
(* The two functions that work on shredded arguments without reading whole *)
(* documents, alone and together: a jsono_merge_patch call, or a jsono_diff*)
(* call whose result is then applied to its first argument.                *)
(***************************************************************************)
EXTENDS LaneMerge, LaneDiff

VARIABLE stage

formsVars == <<stage, mergeVars, diffVars>>

-----------------------------------------------------------------------------
FormsInit ==
  /\ \/ stage = "merge" /\ MergeInit
     \/ stage = "diff" /\ arguments = <<>> /\ inputs = <<>> /\ folded = SqlNull /\ result = Pending
  /\ DiffInit

MergeStep ==
  /\ stage \in {"merge", "patch"}
  /\ MergeNext
  /\ UNCHANGED <<stage, diffVars>>

DiffStep ==
  /\ stage = "diff"
  /\ DiffNext
  /\ UNCHANGED <<stage, mergeVars>>

\* The call jsono_merge_patch(prev, jsono_diff(prev, cur)).
PatchBack ==
  /\ stage = "diff"
  /\ diff # Unset
  /\ mode = "atomic"
  /\ stage' = "patch"
  /\ arguments' = <<IF lanes = <<>> THEN PlainType ELSE ShreddedType(lanes), PlainType>>
  /\ inputs' = <<prev, RowOf(<<>>, diff)>>
  /\ folded' = MergeFoldStep(IF prev = SqlNull THEN SqlNull ELSE prev.residual, diff)
  /\ UNCHANGED <<result, diffVars>>

FormsNext == MergeStep \/ DiffStep \/ PatchBack
FormsSpec == FormsInit /\ [][FormsNext]_formsVars

-----------------------------------------------------------------------------
\* No explicit null on a path of object keys: a patch cannot put one there.
NullFree(doc) == \A p \in DOMAIN doc : doc[p] # Scalar(Null)

\* The atomic difference is the patch that leads from the first document to the
\* second, through the lanes of both functions.
PatchingBackGivesTheSecondDocument ==
  (stage = "patch" /\ result # Pending /\ IsObject(CurDocument) /\ NullFree(CurDocument)) =>
    DocumentOf(result) = CurDocument
=============================================================================
