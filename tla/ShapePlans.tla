------------------------------ MODULE ShapePlans ------------------------------
(***************************************************************************)
(* jsono_transform and the projector of `->>` over the rows of a column    *)
(* (jsono_transform.cpp, jsono_optimizer.cpp): the cache of shape plans    *)
(* that switches itself off when it is missed too often and on again when  *)
(* the shapes settle (jsono_trie_shape_plan.hpp), and the reader that      *)
(* checks that no row has lost a value (jsono_row_read.hpp).               *)
(*                                                                         *)
(* The plans live as long as the scan, a reader as long as a chunk.  All   *)
(* shapes have the same hash, the worst case of the cache's key, so there  *)
(* is one bucket.  The clock of the stamps is the order of the entries.    *)
(***************************************************************************)
EXTENDS ProjectionTrie

CONSTANTS
  SqlNull,    \* a row that is SQL NULL, and what reading it gives
  Nothing,    \* no row, no answer, no plan
  Queries,    \* bind data, each with the rows its column may hold
  Ways,       \* JSONO_TRIE_SHAPE_PLAN_WAYS
  Window,     \* JSONO_TRIE_SHAPE_PLAN_WINDOW
  Warmup,     \* JSONO_TRIE_SHAPE_PLAN_WARMUP
  MaxShape    \* JSONO_TRIE_SHAPE_PLAN_MAX_SHAPE_BYTES, in slots and keys

ASSUME ShapePlanAssumption ==
  /\ {Ways, Window, Warmup, MaxShape} \subseteq Nat \ {0}
  /\ \A q \in Queries : /\ q.engine \in {"transform", "project"}
                        /\ q.mismatch \in {"convert", "null", "fail"}

VARIABLES
  row,        \* the row being read, or the one last read
  phase,      \* between rows, looking up a plan, applying it, checking, failed
  plan,       \* the shape of the plan in use
  answer,     \* what the row was read as
  unchecked,  \* the fields whose misses and containers are still to be checked
  entries,    \* the cached plans, the one used last at the end
  window,     \* lookups and hits since the last check
  total,      \* lookups checked so far, up to Warmup + 1
  disabled,   \* the cache is off
  cooldown,   \* rows seen since
  probe,      \* rows probed since, those with the first one's shape, that shape
  verified,   \* the manifest last verified
  misses,     \* the field and the manifest last checked for a miss
  containers  \* and for a container

cache == <<entries, window, total, disabled, cooldown, probe>>
reader == <<verified, misses, containers>>
vars == <<query, row, phase, plan, answer, unchecked, cache, reader>>

NoProbe == [lookups |-> 0, hits |-> 0, shape |-> Nothing]
NoMemo == [ok |-> FALSE]

-----------------------------------------------------------------------------
(* Rows.  A writer moves what fits its lanes out of the document and lists *)
(* it in the row's manifest; a row may come to be read under other lanes.  *)

Lifts(type, node) ==
  CASE type = "VARCHAR" -> node.kind = "text"
    [] type = "BIGINT" -> node.kind = "num"
    [] OTHER -> IsArray(node) /\ \E i \in DOMAIN node.items : node.items[i].kind = "text"

Stripped(doc, lanes) ==
  {l \in DOMAIN lanes : Locate(doc, l) # NotFound /\ Lifts(lanes[l], NodeAt(doc, Locate(doc, l)))}

HollowArray(node) ==
  Array([i \in DOMAIN node.items |->
           IF node.items[i].kind = "text" THEN Scalar("null", "null") ELSE node.items[i]])

\* The document without the scalars and the lifted elements at paths.
RECURSIVE Skeleton(_, _)
Skeleton(node, paths) ==
  IF paths = {} THEN node
  ELSE IF IsArray(node) THEN HollowArray(node)
  ELSE LET below(k) == {Tail(p) : p \in {q \in paths : Head(q) = Key(k)}}
           kept(k) == <<>> \notin below(k) \/ IsArray(node.member[k])
       IN Object([k \in {j \in DOMAIN node.member : kept(j)} |->
                    Skeleton(node.member[k], below(k))])

ShapeOfSlots(node) == [ShapeOf(node) EXCEPT !.keys = <<>>]   \* Wrong: without the key heap

ShapeKey(node) == ShapeOf(node)

RowOf(doc, lanes) ==
  LET stripped == Stripped(doc, lanes)
  IN [doc      |-> doc,
      residual |-> Skeleton(doc, stripped),
      shape    |-> ShapeKey(Skeleton(doc, stripped)),
      lane     |-> [l \in {m \in stripped : lanes[m] # "LIST"} |-> NodeAt(doc, Locate(doc, l))],
      manifest |-> {[path |-> l, type |-> lanes[l]] : l \in stripped}]

VerifyAllLanes(manifest) ==                  \* Wrong: also the lanes it was not
  manifest = {[path |-> l, type |-> query.lanes[l]] : l \in DOMAIN query.lanes}
\* Every lane the row was stripped into is there, with its type.
VerifyShredManifestEntries(manifest) ==
  \A e \in manifest : e.path \in DOMAIN query.lanes /\ query.lanes[e.path] = e.type

\* A lane took the value a path leads to, or, for a container, one inside it.
ManifestCovers(manifest, steps, container) ==
  \E e \in manifest : IsPrefix(steps, e.path) /\ (container => e.path # steps)

-----------------------------------------------------------------------------
(* The cache. *)

ScalarFields == {f \in Fields : Mode(f) = "scalar"}
ShapePlanEligible ==
  Cardinality(ScalarFields) >= 3 /\ (query.engine = "transform" => query.mismatch # "fail")

Consults(shape) ==
  /\ ShapePlanEligible
  /\ Len(shape.slots) + Len(shape.keys) <= MaxShape

Cached(shape) == \E i \in DOMAIN entries : entries[i].shape = shape
PlanOf(shape) == entries[CHOOSE i \in DOMAIN entries : entries[i].shape = shape]

FindOrInsert(old, entry) ==
  LET others == SelectSeq(old, LAMBDA e : e.shape # entry.shape)
  IN Append(IF Len(others) >= Ways THEN Tail(others) ELSE others, entry)

Thrashed ==
  /\ total + window.lookups > Warmup
  /\ window.hits * 4 < window.lookups * 3

EndOfWindowCheck ==
  IF window.lookups < Window THEN UNCHANGED cache
  ELSE /\ window' = [lookups |-> 0, hits |-> 0]
       /\ total' = Min({total + window.lookups, Warmup + 1})
       /\ disabled' = (disabled \/ Thrashed)
       /\ entries' = IF Thrashed THEN <<>> ELSE entries
       /\ cooldown' = IF Thrashed THEN 0 ELSE cooldown
       /\ probe' = IF Thrashed THEN NoProbe ELSE probe

-----------------------------------------------------------------------------
Init ==
  /\ query \in Queries
  /\ row = Nothing
  /\ phase = "between"
  /\ plan = Nothing
  /\ answer = Nothing
  /\ unchecked = {}
  /\ entries = <<>>
  /\ window = [lookups |-> 0, hits |-> 0]
  /\ total = 0
  /\ disabled = FALSE
  /\ cooldown = 0
  /\ probe = NoProbe
  /\ verified = NoMemo
  /\ misses = NoMemo
  /\ containers = NoMemo

\* The next chunk of the column is read by a new reader.
NextChunk ==
  /\ phase = "between"
  /\ verified' = NoMemo
  /\ misses' = NoMemo
  /\ containers' = NoMemo
  /\ UNCHANGED <<query, row, phase, plan, answer, unchecked, cache>>

ReadSqlNull ==
  /\ phase = "between"
  /\ row' = SqlNull
  /\ answer' = SqlNull
  /\ UNCHANGED <<query, phase, plan, unchecked, cache, reader>>

\* The transform verifies a row's manifest unless it is the one last verified.
Verifies(manifest) ==
  \/ query.engine = "project"
  \/ manifest = {}
  \/ verified.ok /\ verified.manifest = manifest
  \/ VerifyShredManifestEntries(manifest)

Plain(r) == RowOf(r.doc, <<>>)

\* A row is read; the check of the window comes before the lookup.
ReadRow(r) ==
  /\ phase = "between"
  /\ Verifies(r.manifest)
  /\ row' = IF ReconstructShredded THEN Plain(r) ELSE r
  /\ verified' = IF query.engine = "project" \/ r.manifest = {} THEN verified
                 ELSE [ok |-> TRUE, manifest |-> r.manifest]
  /\ phase' = "lookup"
  /\ answer' = Nothing
  /\ EndOfWindowCheck
  /\ UNCHANGED <<query, plan, unchecked, misses, containers>>

RejectRow(r) ==
  /\ phase = "between"
  /\ ~Verifies(r.manifest)
  /\ row' = r
  /\ answer' = Nothing
  /\ phase' = "failed"
  /\ UNCHANGED <<query, plan, unchecked, cache, reader>>

ToApply(p) ==
  /\ phase' = "apply"
  /\ plan' = p
  /\ UNCHANGED <<query, row, answer, unchecked, reader>>

\* A wide row, or a query that cannot gain, leaves the cache alone.
Bypass ==
  /\ phase = "lookup"
  /\ ~Consults(row.shape)
  /\ ToApply(Nothing)
  /\ UNCHANGED cache

Entry == [shape |-> row.shape, plan |-> BuildShapePlan(row.residual)]

Lookup(old) ==
  LET hit == \E i \in DOMAIN old : old[i].shape = row.shape
  IN /\ entries' = FindOrInsert(old, IF hit THEN PlanOf(row.shape) ELSE Entry)
     /\ window' = [lookups |-> window.lookups + 1, hits |-> window.hits + IF hit THEN 1 ELSE 0]
     /\ ToApply(row.shape)
     /\ UNCHANGED total

FindOrBuild ==
  /\ phase = "lookup"
  /\ Consults(row.shape)
  /\ ~disabled
  /\ Lookup(entries)
  /\ UNCHANGED <<disabled, cooldown, probe>>

CoolingDown == probe.lookups = 0 /\ cooldown < Warmup

CoolDown ==
  /\ phase = "lookup"
  /\ Consults(row.shape)
  /\ disabled
  /\ CoolingDown
  /\ cooldown' = cooldown + 1
  /\ ToApply(Nothing)
  /\ UNCHANGED <<entries, window, total, disabled, probe>>

\* The probe with this row.
Probed ==
  LET shape == row.shape
  IN [lookups |-> probe.lookups + 1,
      hits    |-> probe.hits + IF probe.lookups > 0 /\ probe.shape = shape THEN 1 ELSE 0,
      shape   |-> IF probe.lookups = 0 THEN shape ELSE probe.shape]

Probe ==
  /\ phase = "lookup"
  /\ Consults(row.shape)
  /\ disabled
  /\ ~CoolingDown
  /\ Probed.lookups < Window
  /\ probe' = Probed
  /\ ToApply(Nothing)
  /\ UNCHANGED <<entries, window, total, disabled, cooldown>>

ProbeSettlesOnAll ==                         \* Wrong: the first row should repeat itself
  /\ Probed.lookups >= Window
  /\ Probed.hits >= Probed.lookups
ProbeSettles ==
  /\ Probed.lookups >= Window
  /\ Probed.hits * 4 >= Probed.lookups * 3

\* The last row of a probe switches the cache on again or starts a new cooldown.
Recover ==
  /\ phase = "lookup"
  /\ Consults(row.shape)
  /\ disabled
  /\ ~CoolingDown
  /\ ProbeSettles
  /\ disabled' = FALSE
  /\ cooldown' = 0
  /\ probe' = NoProbe
  /\ Lookup(entries)

StayDisabled ==
  /\ phase = "lookup"
  /\ Consults(row.shape)
  /\ disabled
  /\ ~CoolingDown
  /\ Probed.lookups >= Window
  /\ ~ProbeSettles
  /\ cooldown' = 0
  /\ probe' = NoProbe
  /\ ToApply(Nothing)
  /\ UNCHANGED <<entries, window, total, disabled>>

-----------------------------------------------------------------------------
(* The row is written.  Every miss and every container the projector comes *)
(* to is checked against the row's manifest, in the order of its walk.     *)

Written ==
  IF plan = Nothing THEN ApplyTrie(row)
  ELSE IF Cached(plan) THEN ApplyShapePlan(PlanOf(plan).plan, row)
  ELSE [f \in Fields |-> Unwritten]

Fails(out) ==
  \/ out = Mismatch
  \/ out.kind \in {"list", "joined"} /\ \E i \in DOMAIN out.items : out.items[i] = Mismatch

Apply ==
  /\ phase = "apply"
  /\ \E out \in {Written} :
       /\ \A f \in Fields : ~Fails(out[f])
       /\ answer' = out
       /\ unchecked' = {f \in Fields : query.engine = "project" /\ (out[f] = Missed \/ IsContainer(out[f]))}
  /\ phase' = "check"
  /\ plan' = Nothing
  /\ UNCHANGED <<query, row, cache, reader>>

ApplyFails ==
  /\ phase = "apply"
  /\ \E out \in {Written}, f \in Fields : Fails(out[f])
  /\ phase' = "failed"
  /\ UNCHANGED <<query, row, plan, answer, unchecked, cache, reader>>

MemoHolds(memo, f) == memo.ok /\ memo.field = f /\ memo.manifest = row.manifest

CheckPasses(f) ==
  LET container == IsContainer(answer[f])
  IN \/ row.manifest = {}
     \/ MemoHolds(IF container THEN containers ELSE misses, f)
     \/ ~ManifestCovers(row.manifest, Path(f), container)

Checked(memo, f) ==
  IF row.manifest = {} THEN memo ELSE [ok |-> TRUE, field |-> f, manifest |-> row.manifest]

Check(f) ==
  /\ phase = "check"
  /\ f \in unchecked
  /\ CheckPasses(f)
  /\ unchecked' = unchecked \ {f}
  /\ misses' = IF IsContainer(answer[f]) THEN misses ELSE Checked(misses, f)
  /\ containers' = IF IsContainer(answer[f]) THEN Checked(containers, f) ELSE containers
  /\ UNCHANGED <<query, row, phase, plan, answer, cache, verified>>

CheckFails(f) ==
  /\ phase = "check"
  /\ f \in unchecked
  /\ ~CheckPasses(f)
  /\ phase' = "failed"
  /\ answer' = Nothing
  /\ UNCHANGED <<query, row, plan, unchecked, cache, reader>>

EndRow ==
  /\ phase = "check"
  /\ unchecked = {}
  /\ phase' = "between"
  /\ answer' = [f \in Fields |-> IF answer[f] = Missed THEN Null ELSE answer[f]]
  /\ UNCHANGED <<query, row, plan, unchecked, cache, reader>>

-----------------------------------------------------------------------------
ReadNext == \E r \in query.rows : ReadRow(r) \/ RejectRow(r)

WriteRow ==
  \/ Bypass \/ FindOrBuild \/ CoolDown \/ Probe \/ Recover \/ StayDisabled
  \/ Apply \/ ApplyFails
  \/ \E f \in Fields : Check(f) \/ CheckFails(f)
  \/ EndRow

Next == NextChunk \/ ReadSqlNull \/ ReadNext \/ WriteRow

\* A scan is a loop: a row that is begun is written, and the column has more rows.
Turn == phase # "failed" /\ phase' \in {"between", "lookup", "apply", "check", "failed"} \ {phase}

Spec == Init /\ [][Next]_vars /\ WF_phase(Turn)

-----------------------------------------------------------------------------
(* Properties. *)

\* A row is read as its document is, field by field: whether it is walked or a plan
\* made for another row of its shape stands in, whatever was moved to lanes, and
\* whatever the memos of the reader say of earlier rows.  "These tests interleave
\* shapes that stress the key" (jsono_transform_shape_plan.test).
RowsReadAsTheirDocuments ==
  phase = "between" /\ answer \notin {Nothing, SqlNull} =>
    \A f \in Fields : answer[f] = ReadField(f, row.doc)

\* A row is only refused if it lost a value: the transform refuses one that holds
\* a value in no lane of the type, the projector one whose residual would be read
\* differently, and under on_type_mismatch 'fail' a value may not fit its field.
FailsOnlyOnLostValues ==
  phase = "failed" =>
    \/ \E f \in Fields : Fails(ReadField(f, row.doc))
    \/ query.engine = "transform" /\ ~(row.manifest \subseteq RowOf(row.doc, query.lanes).manifest)
    \/ query.engine = "project" /\ \E f \in Fields : ReadField(f, row.residual) # ReadField(f, row.doc)

KeepsShape ==
  /\ {row, row'} \cap {Nothing, SqlNull} = {}
  /\ phase' # "failed"
  /\ Consults(row'.shape)
  /\ row'.shape = row.shape

\* Once all rows have one shape the cache comes back and stays: "a stable tail
\* recovers" (jsono_trie_shape_plan.hpp:158), unless a row is refused.
StableTailRecovers == <>[][KeepsShape]_vars => <>[](disabled => phase = "failed")
=============================================================================
