------------------------------- MODULE LaneMerge -------------------------------
(***************************************************************************)
(* jsono_merge_patch over shredded and plain arguments (jsono_merge.cpp):  *)
(* the residuals are folded from left to right and the lanes are copied    *)
(* into the result without reading a document; a row where an argument may *)
(* have changed what a lane holds is reconstructed, folded and reshredded. *)
(*                                                                         *)
(* One row of a call.  Left out: array lanes, which always take the second *)
(* way or bring their skeleton along, and jsono_overlay, which is no       *)
(* operation of a user.                                                    *)
(***************************************************************************)
EXTENDS ShreddedRow

CONSTANTS
  Pending,           \* a result that is not computed yet
  ArgumentLists,     \* the types of the arguments of the calls that are made
  Arguments(_, _)    \* the documents an argument of a call takes

VARIABLES
  arguments,   \* the argument types of this call
  inputs,      \* the rows read so far, one per argument
  folded,      \* the fold of their residuals
  result       \* the row of the result

mergeVars == <<arguments, inputs, folded, result>>

\* An argument is "plain", or "shredded" and then of a row type.
PlainType == [kind |-> "plain", lanes |-> <<>>]
ShreddedType(type) == [kind |-> "shredded", lanes |-> type]

Lanes(argument) == DOMAIN argument.lanes

\* A call has an argument, and an argument is a column of documents.
ASSUME ArgumentAssumption ==
  \A list \in ArgumentLists :
    /\ Len(list) \in Nat \ {0} /\ DOMAIN list = 1 .. Len(list)
    /\ \A i \in DOMAIN list :
         /\ list[i] = PlainType \/ list[i] = ShreddedType(list[i].lanes)
         /\ RowType(list[i].lanes)
         /\ \A doc \in Arguments(list, i) \ {SqlNull} :
              IsDocument(doc) /\ doc = [p \in DOMAIN doc |-> doc[p]]

-----------------------------------------------------------------------------
(* Binding the call. *)

Declaring(l) == {i \in DOMAIN arguments : l \in Lanes(arguments[i])}

\* The result has every lane of every argument, with the type of the last one.
ResultType ==
  ShreddedType([l \in UNION {Lanes(arguments[i]) : i \in DOMAIN arguments} |->
                  arguments[Max(Declaring(l))].lanes[l]])
ResultLanes == Lanes(ResultType)

\* The lanes can be copied: none lies on the path of another, and every
\* argument gives a lane the same type.
FastViable ==
  /\ \A l, m \in ResultLanes : l # m => ~IsPrefix(l, m)
  /\ \A l \in ResultLanes : \A i \in Declaring(l) :
       arguments[i].lanes[l] = ResultType.lanes[l]

-----------------------------------------------------------------------------
(* Folding. *)

\* One step of the fold over the accumulated value.
MergeFoldStep(acc, patch) ==
  IF patch = SqlNull THEN SqlNull
  ELSE IF ~IsObject(patch) THEN patch
  ELSE IF acc # SqlNull /\ IsObject(acc) THEN MergeTwoObjects(acc, patch, "Patch")
  ELSE Strip(patch, "Patch")

\* A lone target is returned verbatim.
RunResidualFold(values) ==
  LET fold[i \in DOMAIN values] ==
        IF i = 1 THEN values[1] ELSE MergeFoldStep(fold[i - 1], values[i])
  IN fold[Len(values)]

-----------------------------------------------------------------------------
(* Which rows can take the copied lanes. *)

\* Wrong: a value at a lane's own path is no conflict.
HitsOnlyNonObjects(residual, l) == ClassifyResidualPath(residual, l).outcome = "NonObjectPrefix"

\* A residual with something at the lane's path, or with no object on the way to
\* it; a lane at the top level only looks for its key.
ResidualHitsShred(residual, l) ==
  IF Len(l) = 1
  THEN IsObject(residual) /\ Exists(residual, l)
  ELSE ClassifyResidualPath(residual, l).outcome # "Absent"

PlainInputs == {i \in DOMAIN arguments : arguments[i] = PlainType}

PlainInputTouchesLane(i) ==
  inputs[i] # SqlNull /\
    \/ ~IsObject(inputs[i].residual)
    \/ \E l \in ResultLanes : ResidualHitsShred(inputs[i].residual, l)

\* A shredded argument can name one of its own lanes where the lane is NULL.
ShreddedInputHidesLane(i) ==
  inputs[i] # SqlNull /\
    \E l \in Lanes(arguments[i]) \ DOMAIN inputs[i].lane : ResidualHitsShred(inputs[i].residual, l)

\* Wrong: the shredded arguments' own residuals are not looked at.
RowConflictOfPlainInputs ==
  folded # SqlNull /\
    \/ PlainInputs # {} /\ ~IsObject(folded)
    \/ \E l \in ResultLanes : ResidualHitsShred(folded, l)
    \/ \E i \in PlainInputs : PlainInputTouchesLane(i)

RowConflict ==
  folded # SqlNull /\
    \/ PlainInputs # {} /\ ~IsObject(folded)
    \/ \E l \in ResultLanes : ResidualHitsShred(folded, l)
    \/ \E i \in PlainInputs : PlainInputTouchesLane(i)
    \/ \E i \in DOMAIN arguments \ PlainInputs : ShreddedInputHidesLane(i)

CanCopyLanes == FastViable /\ ~RowConflict

\* A lane of the result is the last one that holds a value on the row.
HoldsLane(i, l) == inputs[i] # SqlNull /\ l \in DOMAIN inputs[i].lane
Candidates(l) == {i \in DOMAIN arguments : HoldsLane(i, l)}

-----------------------------------------------------------------------------
MergeInit ==
  /\ arguments \in ArgumentLists
  /\ inputs = <<>>
  /\ folded = SqlNull
  /\ result = Pending

\* Reading the row of argument i and folding its residual in.
Read(i, doc) ==
  LET row == RowOf(arguments[i].lanes, doc)
      residual == IF row = SqlNull THEN SqlNull ELSE row.residual
  IN /\ i = Len(inputs) + 1
     /\ inputs' = Append(inputs, row)
     /\ folded' = IF i = 1 THEN residual ELSE MergeFoldStep(folded, residual)
     /\ UNCHANGED <<arguments, result>>

AllRead == result = Pending /\ Len(inputs) = Len(arguments)

\* The row is written from the folded residual and the lanes, with no spill bit.
CopyLanes ==
  /\ AllRead
  /\ CanCopyLanes
  /\ result' = IF folded = SqlNull THEN SqlNull
               ELSE [residual |-> folded,
                     lane     |-> [l \in {m \in ResultLanes : Candidates(m) # {}} |->
                                     inputs[Max(Candidates(l))].lane[l]],
                     spilled  |-> {}]
  /\ UNCHANGED <<arguments, inputs, folded>>

\* The row is folded as documents and shredded into the lanes of the result.
Reshred ==
  /\ AllRead
  /\ ~CanCopyLanes
  /\ result' = RowOf(ResultType.lanes,
                     RunResidualFold([i \in DOMAIN inputs |-> DocumentOf(inputs[i])]))
  /\ UNCHANGED <<arguments, inputs, folded>>

MergeNext ==
  \/ \E i \in DOMAIN arguments : \E doc \in Arguments(arguments, i) : Read(i, doc)
  \/ CopyLanes
  \/ Reshred

MergeSpec == MergeInit /\ [][MergeNext]_mergeVars

-----------------------------------------------------------------------------
(* What jsono_merge_patch promises. *)

\* RFC 7396 over whole documents: a patch that is an object puts what it holds,
\* takes away what it has a null for, and leaves the target's nodes that no leaf
\* of it stands at or above.
MergePatch(target, patch) ==
  IF ~IsObject(patch) THEN patch
  ELSE LET put == {p \in DOMAIN patch : patch[p] # Scalar(Null)}
           left == {p \in DOMAIN target :
                      \A q \in Prefixes(p) \cap DOMAIN patch : patch[q] = Branch}
       IN [p \in left \cup put |-> IF p \in put THEN patch[p] ELSE target[p]]

\* A SQL NULL patch makes the value NULL, and a patch of a NULL starts over.
ApplyPatch(target, patch) ==
  IF patch = SqlNull THEN SqlNull
  ELSE MergePatch(IF target = SqlNull THEN EmptyObject ELSE target, patch)

Documents == [i \in DOMAIN inputs |-> DocumentOf(inputs[i])]

PatchedDocument ==
  LET fold[i \in DOMAIN Documents] ==
        IF i = 1 THEN Documents[1] ELSE ApplyPatch(fold[i - 1], Documents[i])
  IN fold[Len(Documents)]

\* The result stands for the first document with the others applied as patches,
\* whichever way the row took.
MergedRowIsThePatchedDocument == result # Pending => DocumentOf(result) = PatchedDocument

\* A lane of the result whose spill bit is clear can be read without its residual.
CopiedLanesReadTrue ==
  result \notin {Pending, SqlNull} =>
    ClearBitsAreTrue(ResultLanes, result)
=============================================================================
