# A verification project for the JSONO extension

JSONO is a DuckDB extension that stores JSON documents in a binary column type.
A JSONO column can be *shredded*: selected paths are lifted out of the document
into typed struct fields ("lanes"), and what is left stays in a binary
"residual". This directory models the parts of the extension where state is
kept from row to row, from aggregate state to aggregate state, or from a writer
to a reader, checks the models with TLC and proves theorems about them with
TLAPS.

Paths below are relative to the repository; `K:` stands for
`src/jsono_group_merge_keyed.cpp`.

## 1. The system

| part | state it keeps | operations | what can go wrong |
|---|---|---|---|
| keyed group merge, `jsono_group_merge_max/_min` (`jsono_group_merge_keyed.cpp`) | per group a tree of leaves, each with its winning key; beside it slots for shredded lanes | Update, Combine (destructive or preserving), Finalize | the order of calls shows in the answer; a change of kind is merged instead of refused; a winner is lost between tree and slots |
| ordered group merge, `jsono_group_merge` (`jsono_group_merge.cpp`) | per group an accumulated document, or a residual with lane slots | the same | partial states fold differently from rows; a stale slot comes back |
| shredding writer, reshred, reconstruct (`jsono_shred.cpp`, `jsono_writer.hpp`, `jsono_reconstruct.cpp`) | the stored rows: residual, lanes, marker, spill words, manifest | write, reshred, reconstruct, raw cast (DuckDB's own) | the redundant records disagree with where the values are |
| optimizer (`jsono_optimizer.cpp`) | the totality of lanes, derived from column statistics | rewriting of extracts, filters, casts, min/max aggregates | a bare lane read where the residual had the value: a silent NULL |
| row readers (`jsono_row_read.hpp`, `jsono_locate.hpp`) | memos of manifest verdicts, caches of key ranks and object layouts | Init, Read, path checks, Locate | a verdict or a rank of another row is used |
| collect aggregates (`jsono_collect.cpp`, `jsono_memory.hpp`) | per group a list of shared elements, memory reservations | Update, Combine, Finalize, Destroy | a preserved state is emptied; bytes leak or are freed twice |
| merge functions (`jsono_merge.cpp`) | none across rows | patch; copy-through of lanes | a row that needed the slow path takes the fast one |
| structural diff (`jsono_diff.cpp`) | none across rows | compare lanes and residuals, or documents | a change hidden by a lane; a multiset that does not balance |
| advisor (`jsono_advisor.cpp`) | candidate paths and counters per state | Update, Combine, Finalize | results depend on the order of combines; the cap; stamps of another set |
| min / max over an extract (`jsono_optimizer.cpp:564`) | a number or a text with its buffer | Update, Combine, Finalize, Destroy | the switch from numbers to texts shows in the answer; a buffer is shared |
| transform, projector (`jsono_transform.cpp`, `jsono_optimizer.cpp`, `jsono_trie*.hpp`) | tries, shape-plan caches, memos of verdicts | a row of a scan | a plan of another shape is used; a lost value reads NULL; the cache never comes back |
| entries, extract, struct constructor, parser, numbers, validate | per-row scratch | pure functions of their arguments | boundary cases of data |

How they interact. A writer's rows are read by everything else: the marker and
the spill words reach the optimizer as DuckDB's column statistics (minimum and
maximum per column), the manifest reaches the readers with each row. Group
merges read shredded rows, write shredded rows, and so are writers as well.
Aggregates are driven by DuckDB: rows of one group may be fed to several
states, on several threads, and states are combined in a tree that DuckDB
chooses; a window's segment tree combines one source into many targets and
asks that sources be preserved. The extension itself starts no thread and
takes no lock: what is concurrent is which state sees which row when, and that
is what the models leave open. Nothing waits for anything: each call runs to its
end or throws, and a throw ends the query. Two
properties are about liveness. `LookupsReturn` is about the loops inside a call;
its fairness is weak fairness of the loop's own steps (`Continue`), which the
thread that made the call takes until the loop ends. `StableTailRecovers` is about
a scan: its fairness is weak fairness of `Turn`, a step that changes the phase a
row is in. The executor of a transform or a projector is one loop over the rows of
a chunk, without waiting, so a row that is begun is written, and a scan that goes
on has a next row. That the shapes settle is the property's hypothesis, not an
assumption of fairness. No fairness is assumed of callers.

## 2. Modules

Keyed merge

* `Groups` - the rows of a group and its states: the constants that `KeyedRows` and
  `Aggregates` share, so that one run can hold both.
* `KeyedRows` - rows, sort keys (`SortKey`: a NULL key sorts first whatever
  the direction), leaves, the comparison `Beats` with its tie break on the
  value's bytes, merging of leaf maps, and the promise `Aggregate`: what a set
  of rows should give. A document is a root kind and a map from leaf paths to
  values.
* `KeyedAggregate` - the abstract specification: states are sets of rows, a
  result is `Aggregate` of the rows, and an abort is allowed only where two
  rows disagree on a kind.
* `KeyedMerge` - the tree form as the code has it: `FoldRow`, `Combine`,
  `Finalize` and their failing twins. `ImplementsPromise` maps it to
  `KeyedAggregate`.
* `KeyedMergeDirect` - the same aggregate over shredded columns, as
  `JsonoGroupMergeLWWUpdateDirectShreddedImpl` and
  `FinalizeDirectShredded` do it: some winners live in lane slots, a chunk may
  be folded directly or through reconstruction, Finalize re-shreds its result
  and stamps spill bits.
* `KeyedRowsLemmas` - lemmas about keys, leaves and `Aggregate`, on which the next
  two rest.
* `KeyedMergeProofs` - theorems about `KeyedMerge`.
* `KeyedMergeDirectProofs` - theorems about `KeyedMergeDirect`.

Other aggregates over plain columns

* `Extrema` - the cell of min and max over texts (`JsonoExtractExtremaState`): a
  number as long as all texts are canonical numbers of one width, else a text,
  inline or in a buffer that the state owns.
* `Advisor` - what `jsono_suggest_shredding` keeps of each path (presence, fits per
  primitive, members of array elements), how partial counters are merged, the cap
  on paths, and `ChooseShredType`.
* `Aggregates` - either of them over the rows of a group: `Update`, `CombineStates`
  and `Destroy` of states, and the failing twins of the first two.
* `AggregatesProofs` - theorems about `Aggregates`, and the lemmas they rest on:
  texts, numbers and buffers of one cell of `Extrema`, walks and counters of
  `Advisor`.

Ordered merge

* `JsonoDoc` - documents, null stripping, the merge of two objects
  (`MergeTwoObjects` and its modes) and path classification. A document is a
  function from the paths of its nodes to an object mark or a leaf, closed under
  prefixes (`IsDocument`), so that the recursions of the code, which go down two
  documents side by side, are sets of paths here and can be reasoned about: the
  paths that are nested in both, the ones met below them, the ones kept and put.
* `GroupMerge` - the plain accumulator, over an append-only log of rows that
  states cover by intervals (this is how ORDER BY aggregates are driven).
* `ShreddedRow` - shredding one document into scalar lanes and reconstructing
  it; the optimizer's read of a path of such a row. A row type (`RowType`) gives
  each lane the values that the lane's type holds exactly.
* `GroupMergeDirect` - the direct accumulator: a residual document and lane
  slots (`DirectFoldRow`, `DirectFoldState`, the shadow deletions), with
  `GroupMerge` as its abstract specification.

Functions over shredded arguments

* `LaneMerge` - a row of `jsono_merge_patch`: `Read` folds the residual of one
  argument after another, `CopyLanes` copies the lanes when the conflict scan
  (`RowConflict`) finds nothing, `Reshred` reconstructs, folds and shreds
  otherwise. Its promise is RFC 7396 on whole documents, one patch after the other
  (`MergePatch`, `ApplyPatch`, `PatchedDocument`), stated without the operators of
  the fold.
* `LaneDiff` - a row of `jsono_diff`: `DiffDirect` compares lanes and residuals,
  `DiffReconstructed` documents; arrays are reported whole, as counts or as the
  elements added and removed.
* `LaneForms` - the two together: a merge, or a diff whose result is merged into
  its first argument. It extends both; their steps are its steps at the stages
  `"merge"` and `"diff"`.
* `ShreddedRowProofs` - lemmas about the documents of `JsonoDoc` and the rows of
  `ShreddedRow`, and on them theorems about `GroupMergeDirect`, `LaneMerge`,
  `LaneDiff` and `LaneForms`.

Stored columns

* `ShreddedColumn` - tables with different shred sets, the rows in them, and
  the four ways rows get there: parsed and shredded (`Insert`), NULL
  (`InsertNull`), moved or reshredded by the extension's own rewrite of an
  INSERT ... SELECT (`InsertSelect`), and raw-cast by DuckDB when the
  extension's optimizer is off (`RawInsertSelect`). On top of it the column
  statistics, the proof of totality (`Total`), and the read the optimizer
  emits (`Read`).
* `PlanTotality` - the way of that proof up a plan (`CollectShredTotality`): a plan
  is the sequence in which the code's recursion leaves its operators, children before
  parents. The pass is a function of how many operators it has left; the snapshots that
  the code keeps in a map of common tables and a stack of delim joins are what was known
  when the definition, or the outer side, had just been left (`SnapshotOf`,
  `SnapshotAt`). `Flow` says which rows can reach each column, after `Rounds` rounds in
  which every operator passes on what its sources have (that part is DuckDB's own and
  marked external).
* `ShredStats` - the counters of `jsono_shred_stats` over a scan.
* `ShreddedColumnProofs` - theorems about `ShreddedColumn`, `PlanTotality` and
  `ShredStats`.

Readers

* `PathLocate` - the lookup of an object key at a position of a row:
  `LocateObjectKeyCached` with the layout cache (valid for one `generation`, a
  row announced by `NextRow`), the rank cache kept over rows (`Hit`,
  `ValidateCachedObjectRank`, `FilledEntry`), the binary search (`Probe`,
  `EndSearch`) and the walk of the value cursor with its checkpoints
  (`JumpToCheckpoint`, `SkipValue`); `LocateOnce` is the walker without caches.
  Rows, shape hashes and the indexing of both caches are constants, so that
  collisions are ordinary.
* `PathLocateProofs` - theorems about it.
* `ProjectionTrie` - many paths of one document read together: the trie and its
  walk (`ApplyNode`, wildcards, null subtrees), the plan recorded for a shape
  (`BuildShapePlan`: scalars by their place in the slots, covering walks, null
  subtrees) and its replay (`ApplyShapePlan`). `ReadField` is the reference: one
  path read by itself.
* `ShapePlans` - the two engines over the rows of a scan. A row is verified
  (`ReadRow`, `RejectRow`), looks for a plan (`FindOrBuild`, or one of the steps
  of a disabled cache: `CoolDown`, `Probe`, `Recover`, `StayDisabled`), is written
  (`Apply`) and, in the projector, checked (`Check`) under the memos of a reader
  that lasts one chunk. All shapes collide in their hash.

Collected groups

* `CollectPromise` - the abstract specification: a state is a sequence of keys
  and values, which is fed, concatenated to another (the source kept or given
  up) and turned into an array or an object.
* `Collect` - the states of `jsono_group_array` and `jsono_group_object` as
  lists of references to elements on a heap, with `CombineDestructive` moving
  references, `CombinePreserving` sharing them, reservations that may be refused
  at any growth, and `Destroy` freeing what nobody else refers to.
  `ImplementsPromise` reads the states through their references.
* `CollectProofs` - theorems about it, and before them what they need of sums over
  finite sets.

`MC*` modules give the constants of the runs their values.

## 3. Runs

Every passing run checks safety, `path_lookups` and `shape_plans` liveness as
well. Deadlock checking is off where the model may stop, having fed all its rows
and finished all its states; it is on in `path_lookups`, whose idle reader can
always look something up.

| run | asks |
|---|---|
| `unordered` | two states fed and combined in any order, of the keyed merge (min, with NULL keys, ties and failing pairs), of min and max, or of the advisor: does each state stand for its rows, fail only where it must, own its buffers, and implement the promise? |
| `keyed_lanes` | does the shredded form (max) implement the same promise, in every mixture of direct and reconstructed chunks, and do its result rows carry true spill bits? |
| `keyed_overlap` | violation, see section 5 |
| `direct_stable` | is the direct accumulator of the ordered merge step by step the plain one, is its result over objects the last value of every path, and are its rows true? |
| `direct_parent` | violation, see section 5 |
| `column_reads` | is every bare read justified, does every intact row answer and reconstruct, does a narrowed one answer or fail, is the stamp exact, are uniform diversions still proved total, does a proof survive five plans, and does `jsono_shred_stats` count what is diverted? |
| `column_dropped_array` | violation, see section 5 |
| `path_lookups` | does every lookup, through hits, misses, evictions, collisions, searches and cursor jumps, return what this row says, land on the value's first byte, and return at all? |
| `collect_shared` | do shared and moved lists of elements stand for the promised rows, and does the memory accounted for follow what is alive, through refused reservations down to nothing? |
| `lane_forms` | is a row merged or compared through its lanes the one merged or compared through its documents, are the copied lanes true, do reports of arrays balance, and does a diff lead from its first argument to its second? |
| `lane_null_between` | violation, see section 5 |
| `shape_plans` | over ten queries and any sequence of their rows: is every field read as the document has it, with and without a plan, is a row refused only for a lost value, and does the cache recover on a stable tail? |

`unordered` holds three aggregates in one run: `subject` chooses which one a
behaviour is about, the other variables stand still, so that no product of their
states arises.

Bounds. Two aggregate states suffice for every pair of a source and a target; a
third would only repeat the pairs, since `Combine` touches two. Three to four
rows give each path three writers (two to tie and one to beat), and the rows of
the configurations are chosen so that each kind of leaf, a NULL key, an explicit
null, a diverted value, an empty object and a non-object root occur. The column
run has three tables whose shred sets include one another partly (a chain of
reshreds must pass through a foreign numbering; a cast to the narrow one drops the
second spill column and keeps the lane it speaks of), words of three bits with four
paths (so a set has a second spill column), an array path whose name sorts first
(so it takes a rank), and up to four stored rows (`MaxRows`): a row, its
reshred, its cast and one more file in the scan. Every scan of one or more
tables is read in every state, and so are five plans over them: a common table
beside a scan of its type, a set operation whose one branch was made alike by a
cast, two columns that change places in one branch, a subquery in a subquery
with outer joins, and a recursive common table. Rows are followed for five rounds
(`Rounds`): no row of these plans passes more than four operators on its
way, a reference to the recursive table among them. The lookup run
reads three of four rows, among whose objects are two with the same key count
and the same hash over different keys and two without a span, with one entry in
each cache, where lookups evict one another, and a stride of 2 over up to five
keys, so that ranks lie before, at and after a checkpoint. The collect run has
three states (a chain of sharing whose middle may be destroyed first), two
elements alive and lists of up to three references, so that a list can hold an
element twice; states may be destroyed and begun again without end. Its symmetry
is over states, which no definition tells apart. The lane run takes up to three
arguments over two lanes, one at the top and one below a key, of types that
divert one scalar or none, and 63 documents and SQL NULL a side to compare;
arrays up to three elements meet both ways of matching, since
`MULTISET_STRUCTURAL_MAX` is below that. Texts of min and max have up to three
digits to base 2, with the greatest number and the inline length inside that
range. The advisor's cap is three paths over documents that have up to four
between them. An ASSUME of `MCUnordered` lets TLC evaluate the hypothesis of the
theorems about `Aggregates` for these constants (`GroupHolds`, over the documents
and all that is inside them, `MCNodes`). The plan run shrinks the cache to two ways, a window and a warm-up
of four rows and a longest shape of twelve, so that eviction, give-up, cooldown,
probe, recovery and bypass all occur among the three to five rows of a query;
the ratios (3/4) are the code's.

## 4. Proofs

TLAPS proves, for every value of the constants that meets the named assumptions
of the modules (finite sets of paths, order-preserving key encoding, hashes
without collision, sentinels that are not values):

*KeyedMerge.* The inductive invariant relates each state to the rows that
reached it: its leaves are exactly the surviving paths of those rows, each leaf
is one row's, no row's leaf beats it, and all those rows agree with the state on
its kinds. That no row beats a leaf is not inductive alone: `Combine` needs to know
that the source's leaves come from its rows, and the failing actions that kinds
agree so far. From it follow `TypeCorrect`, `WinnersHeld` (every state holds just
the winning leaves, winning said of sort keys and of the rows' own keys: the lemma
`SortKeyOrdersKeys` is why a NULL key never wins), `ConflictsFailLoudAndAlone`
(mixed kinds never share a state, and nothing else fails a query),
`OrderIndependent` (two states with the same rows are equal: the best leaf is
unique because `Beats` is total up to equality) and the refinement
`Implementation`: `KeyedMerge` implements `KeyedAggregate`.

*KeyedMergeDirect.* A winner may stand in the tree, in a scalar slot or in a list
slot, and `Holds` says of each state, against the rows that reached it: what a
place holds some row says; what a row says is in one of the places that can have it
or beaten there; no two leaves lie one inside the other; and every finished result
is that of its rows. None of the three holders is right by itself: a value that
loses in the tree may have left a slot behind, so the invariant speaks of them
together, and that direct folding skips lanes which the residual already answers is
an optimisation only because a skipped value is beaten where it would go. From it
follow `WinnersHeld` (`TreeAndLanesHoldTheWinners`), `SpillBitsTellTruth`,
`ConflictsFailLoud` and `Implementation`: the lane form too implements
`KeyedAggregate`. Two hypotheses are not of the code and are named in the theorems
that need them: `SeparateLanes`, no lane inside another, which Finalize never
checks, is assumed by the last three (`keyed_overlap` refutes the kinds without it),
and `RootsAreObjects` (K:1933) by the refinement. Both are true of the constants of
`keyed_lanes`.

*ShreddedColumn.* The inductive invariant `Inv` says of each row, against two
history variables (the shred set it was written under and the lanes a cast
took): a path is stripped exactly when the manifest names it; a lane holds the
document's value or NULL, NULL only where nothing was stripped or a cast took
it; the marker is that of the written set, dirty exactly if a value was
diverted; and as long as no lane was lost the spill words name exactly the
diverted lanes. The heart of the preservation proof is the reshred: a kept lane's
bit is taken over under the old numbering only if the marker identifies the type
that is read, and then, no lane of it being lost, the words are exact; else
it is found by probing the residual. `SpillProvenSound` is the reason why a bare
read is right: a minimum and maximum that are both markers of the read set
admit only its two adjacent numbers, so every row is stamped under that set, and
the mask statistics exclude the lane's bit in every word. From it follow
`IntactReads`, `IntactReconstructs`, `NarrowedReads`, `StampDiscipline` (this
one needs that ranks are injective) and `UniformDiverts` (completeness: a
uniform diversion does not demote the lanes it spares).

*PlanTotality.* `TotalityOfPlans` holds for every plan whose operators have numbers
above their children's and table indexes of their own (`PlanAssumption`) and for any
number of rounds, so recursive tables may go round as often as they like. Two
things meet in it. The pass only adds entries and never changes one (`PassKeeps`), so
what it ends with about a column is what it found at the column's operator
(`FoundAtItsOperator`), out of what it then knew of the columns below, which it still
knows (`Within`). And the rows move: if all that the pass ends with is true of the rows
of one round, it is true of the rows of the next (`OperatorIsSound`, one lemma per kind
of operator: a scan by `SpillProvenSound`, a replay because the rows are those of the
column that was snapshotted, a set operation because each branch has the lane). Of a
row of SQL NULL, which `Inv` says little about, one more invariant is needed:
it has no lanes (`NullLanes`), since any operator may fill in NULLs and a lane read bare
must be NULL there.

*ShredStats.* `StatsCount` says that the two counters of a lane share out exactly
the rows that have a value at its path. Of a row that lost lanes to a cast `Inv`
says nothing about spill words, while the scan goes on counting it, so `StatsInvariance`
adds `WordsKept`: a spill column that survived the casts says what it said when the
row was written. The theorem holds for tables that lost neither a lane nor its
spill column (`Countable`).

*PathLocate.* The inductive invariant says what each record may be trusted for:
a layout of the current generation is this row's, and nothing is asked of the
rest; a rank cache entry need not be right, because a hit validates it against
the keys of the row at hand (`ValidatedMiss`: in a sorted block two neighbours
leave no room); the search's window has smaller keys before it and no smaller
ones after it; the cursor stands where the value it counts begins. From it
follow `ExactLookups`, `ThisRowsLayouts`, `CursorStands` and `RepeatedHits` (a found
key would hit next time, which no run asks).
`LookupsReturn` stays with TLC.

*Collect.* The inductive invariant is that references point to living elements
(so that what `Destroy` frees, the elements outside `HeldByOthers`, is nobody's)
and that a list is allocated exactly if it has references, as long as nothing
failed. From it follow the refinement `Implementation` (appending adds an element
under a fresh address and leaves the others as they are; sharing and moving
concatenate what the references read as), `ArrayResults` and `KeptSources`.
`ObjectResults` is about the fold over a list's entries: it exists for every list,
and what it leaves is, of each key, the last member. `MemoryAccounted` needs more
than itself: that the bytes reserved are those of the elements alive plus one
reference for each list entry is preserved by a merge only if one knows, of each
state, which elements it or a state it absorbed created (their own first reference is paid
for by the element), and that no element has two creators (`Creators`, with
`HeapOK`, `AllHeld` and `ReservationsAddUp` the parts of `MemInv`). The sums are
folds that choose elements in any order; `SumOf` is shown to be additive for any
finite domain.

*Aggregates.* One invariant for each kind of aggregate. Of min and max
(`ExtremaInv`): what is allocated is what states own, no buffer by two of them, and
a state that holds a number holds it for rows whose texts are all canonical numbers
of one width. For those, the order of bytes is the order of numbers and the text
rendered when the state leaves its numeric mode is the text that was read, which
is why the switch never shows in `StatesOfTheirRows`; `BuffersOfOneState` is the
first part. Of the advisor (`AdviceInv`): each counter of a state is the number of
rows, or of elements of their arrays, that it is about. A document counts as one
row (the walk of a document meets exactly the paths that it has, each once) and
counters of disjoint sets of rows add up, so the order of updates and combinations
does not matter. `FailureIsOverTheCap` follows since a set of rows has no fewer paths
than a part of it, and `LanesOfTheirShare` from the thresholds of
`ChooseShredType`. The hypothesis of all of them is `GroupAssumption(D)`: enough
buffers, texts of bytes, a base of two digits at least, and arguments out of a set
D of documents that has with each of them all that is inside it.

*Documents and rows.* What the next four share is proved of every document and row
type: a merge of two objects is a document, stripping keeps the leaves (`StripLeaves`,
`MergedLeaves`), a document whose objects all lead to leaves is determined by them
(`LeavesDetermine`), a shredded row of any type reconstructs to its document as long
as no lane lies inside another (`ShredReconstructs`), and a clear spill bit of such a
row means that the lane alone answers (`ShreddedReadsTrue`).

*GroupMergeDirect.* `StateOK` says what a state must look like for Finalize to write
a true row: the residual is a document, an object exactly in the kind `"Object"`, a
value that is not has no slots, no slot holds a null, and spans lie in the log of
rows. It gives `ClearBits`. Step by step equality
with the plain accumulator needs more (`Settled`): the residual has no nulls, every
object in it leads to a leaf or to a filled slot, and leaves and slots stand where
rows have leaves. A state then `StandsFor` the leaves of its
residual and its slots together, and folding in a row or a state is laying its leaves
over those (`Over`), in the plain accumulator as well as in the direct one. That gives
the refinement `DirectFoldImplementsThePlainFold`. `DirectResultsAreTheLastValues`
carries with each state the fold of its rows in their order (`Held`, `HoldsLast`);
laying over is associative, so the shape of the tree of combines does not show.
The hypotheses are that no lane lies inside another
(`Separate(Lane)`), that no path is an object in one row and a value in another
(`KindsStable`), and that sentinels are no documents. They hold for the constants of
`direct_stable`; `direct_parent` shows that the refinement fails without stable kinds.

*LaneMerge.* `MergeOK` follows the residual fold and what each argument's row holds;
it gives `CopiedLanes` where shredded patches are objects. `MergedRow` is the
correctness of the shortcut: what the row stands for is the first document with
the others applied as RFC 7396 patches. Its invariant says after each argument that
the fold of the documents so far is the fold of the residuals with the lanes that
would be copied laid over it (`Laid`), with nothing of the residuals at a lane of the
result or in its way (`Free`), or else both are the same value without lanes
(`Standing`). A lane of a later argument takes the place of one copied so far. What
the step needs to know of each argument is what the conflict scan has found out, and
`LanesFollow` where it does not look. `MergeIsPatch` shows that
the code's merge of two objects is RFC 7396 on paths. The hypothesis is `LanesFollow`:
SQL NULL comes first or last, a shredded patch is an object, and a shredded document
has nothing at or above a lane that only another argument has. Each part excludes one
of the disagreements of section 5; the documents of `lane_forms` (`Followed`) meet
it. The theorem is about `MergeSpec`, the merge alone.

*LaneDiff.* `DirectDifference`: comparing lanes as values and residuals as documents
gives the difference of the documents, in all three renderings of arrays and for any
lanes, overlapping ones too. The lemmas speak of a pair of documents and the pair that
is left when the same leaves are taken from both (`Paired`): a path is a change in one
pair exactly if it is in the other, or a changed lane lies below it, and the two
differences meet in objects alone, so their union is never a `Collision`.

The matching of array elements is proved without a bound on arrays. Of the elements
that hold one value, an element's rank is how many of them come before it; ranks are
0, 1, ... without gaps (`Ranks`), so `n` elements leave `n - k` of rank `k` or more
(`RanksFrom`). The greedy match gives an element the old element of the same value and
rank (`Partner`): what is free when its turn comes are the old ones of its rank or more
(`FreeElements`), and the first of these is the partner (`FirstFreeIsPartner`). There is
no induction: a first element that does not take its partner would contradict this
(`TakenArePartners`). So matching and counting agree (`BothWaysOfMatchingAgree`, the
claim of the comment at jsono_diff.cpp:513), and what is left over on both sides
balances (`SurplusBalances`). That nothing of the difference is at or below a changed
array but its report is `ReportedInFull`: what is changed or removed elsewhere hangs on
objects, and nothing is below a leaf.

Both take it that the sentinels (SQL NULL, `Absent`) are no rows and no documents.

*LaneForms.* `RowFunctions` and `PatchingBack` are about the specification that
`lane_forms` runs, `FormsSpec`. `DiffIsAPatch` is the law without lanes: the atomic
difference of two documents, or of none and a document, is the RFC 7396 patch from one
to the other, if the second is an object without explicit nulls - a change is put, what
is gone is taken away by its null, and nothing else of the first document stands or
falls. `PatchCallIsRead` shows that the call `PatchBack` makes satisfies what the merge
needs of its arguments (`RowsRead`, `RowsFollow`, which the arguments of a merge have
from `LanesFollow`): the row that was compared with its lanes, then a plain row.
`FormsOK` says which of the two invariants holds at each stage. One more hypothesis on
the constants: no node of a document compared is `Absent` (`NoNodeIsAbsent`).
`ReportsBalance` is about `FormsSpec` too and needs only `DiffOK` of `FormsOK`.

Induction. The theorems of the library that state induction take an operator as a
parameter, which the provers cannot instantiate. Where a proof needs one over a
finite set, a number or the length of a sequence, it takes a smallest
counterexample and refutes it (`SmallestSubset`, `Least`), which is how functions
defined by recursion and folds are reasoned about here.

Model-checked only: liveness (`LookupsReturn`, `StableTailRecovers`); and what is about
RECURSIVE operators, tries and their walks (`RowsReadAsTheirDocuments` and
`FailsOnlyOnLostValues` of `ShapePlans`).

## 5. What the checks found

The runs that expect a violation state what a comment, a document or a test of
the repository says, and show a behaviour of the code that does otherwise. Each
is described with its lines under "findings" in `PROJECT.json`:

* `keyed_overlap` - two lanes on one branch hide a change of kind.
* `direct_parent` - a slot survives the scalar that took its parent away.
* `column_dropped_array` - a point read of a dropped array lane returns the skeleton.
* `lane_null_between` - in a merge of shredded arguments a SQL NULL starts the
  fold of the residuals over, but a lane that only an earlier argument fills is
  copied into the result.

More disagreements bound what the passing runs may assume, and have no run of their
own:

* Combining partial states of the ordered merge is not the fold of their rows where
  a path changes its kind, nor where a row replaced the whole document (the objects
  of `direct_stable` keep kinds, and `ResultsAreTheLastValues` speaks of states fed
  with objects alone).
* A slot of the direct accumulator survives an empty object at its path, and
  the accumulator fills two lanes of one branch when lanes overlap (those rows and
  lanes are left out).
* A shredded group whose only value is not an object fails as if kinds were mixed
  (K:1933; the rows of `keyed_lanes` are objects).
* A merge copies lanes although a later shredded argument is no object (the gate of
  `jsono_merge.cpp:689` asks for plain arguments; the comment above it says that
  cannot happen), and although a shredded argument holds null at a path which only
  another one declares as a lane (`NamesOnlyItsOwn` leaves such rows out).
* `jsono_shred_stats` reads a spill word that a raw cast dropped as one without bits:
  a diverted value of a lane that the cast kept is then counted as absent
  (`jsono_advisor.cpp:914-926`). `Countable` excludes such tables, as the proof of
  `StatsCount` required.
* A lane that one raw cast dropped and another regained reads NULL, where the
  manifest's promise is an answer or a failure (`Regained` excludes it).

## 6. Abstractions

Texts and numbers are model values or small records, documents are functions from
paths to nodes, whose arrays are leaves with a sequence as value; bytes, heaps, offsets
and limits of nesting are left out. The type of a lane is the set of values that it
holds exactly. In `ShreddedColumn` paths are
independent leaves, a lane keeps its type, rows are never deleted (statistics
only widen), a row whose lost lane came back is not written further
(`InsertSelect`'s guard `~Regained`), and a column's statistics with no value
prove nothing. `KeyedMergeDirect` leaves out the fallback for overlays over
lists. `LaneMerge` and `LaneDiff` have scalar lanes only: array lanes take the
way through documents or bring their skeleton along. Both model a row; the code
decides per chunk whether rows are looked at one by one, which does not change
what a row gives. `jsono_overlay` is left out. Hashes of elements in `LaneDiff`
are ideal, those of shapes in `ShapePlans` collide always, in one bucket.
Fractions of the advisor are exact where the code compares doubles with a
tolerance. `PlanTotality` has plans as the pass meets them, before DuckDB's own
optimizer, with one shredded column per scan. Memory charged to the states of
the group merges and the advisor (`Resize`) is not modelled.

## 7. Not modelled, and what could follow

* Binding and registration, the type resolution of set operations
  (`jsono_group_merge.cpp:193`), filter pushdown and cast fusion of the optimizer:
  rewriting of expression trees whose hazards are in the totality they rely on.
* The struct constructor, the parser, the number ladder, path texts, the byte
  format and the scalar readers: conversions of data without state from row to row,
  whose models would repeat their code.
* The trie walk's own rank cache, array index steps of a lookup, array lanes in the
  direct accumulator, in merge and in diff.
* Proofs: the cache of `ShapePlans` by itself, apart from the tries.
