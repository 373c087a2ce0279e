----------------------------- MODULE PlanTotality -----------------------------
(***************************************************************************)
(* How the proof that a lane is total, won at a scan, travels up a query   *)
(* plan to the reads of its outputs (CollectShredTotality).                *)
(*                                                                         *)
(* A plan is a tree of operators, written as the sequence in which the     *)
(* pass leaves them: children are numbers, each smaller than its parent's, *)
(* and the operators below one stand right before it.  A column is bound   *)
(* to its operator's table index and its position; joins and common tables *)
(* pass on the bindings of their children.  What is known of a column is   *)
(* the set of its lanes that are total.                                    *)
(***************************************************************************)
EXTENDS ShreddedColumn, Sequences

CONSTANTS
  Plans,
  Rounds     \* bound: the operators a row is followed through

Get(t, S) == [kind |-> "get", table |-> t, width |-> 1, scan |-> S, children |-> <<>>]
Join(left, right) == [kind |-> "join", width |-> 0, children |-> <<left, right>>]
Projection(t, exprs, child) ==
  [kind |-> "projection", table |-> t, width |-> Len(exprs), exprs |-> exprs, children |-> <<child>>]
SetOperation(t, n, branches) ==
  [kind |-> "setop", table |-> t, width |-> n, children |-> branches]
MaterializedCTE(i, definition, body) ==
  [kind |-> "cte", index |-> i, width |-> 0, children |-> <<definition, body>>]
RecursiveCTE(t, i, n, start, step) ==
  [kind |-> "recursive", table |-> t, width |-> n, index |-> i, children |-> <<start, step>>]
CTERef(t, i, n) == [kind |-> "cteref", table |-> t, width |-> n, index |-> i, children |-> <<>>]
\* The columns of outer that inner reads again, without duplicates, by DelimGet.
DelimJoin(outer, columns, inner) ==
  [kind |-> "delimjoin", width |-> 0, columns |-> columns, children |-> <<outer, inner>>]
DelimGet(t, n) == [kind |-> "delimget", table |-> t, width |-> n, children |-> <<>>]

\* An expression of a projection: a column as it is, or cast by name.
ColumnRef(b) == [kind |-> "ref", binding |-> b]
CastTo(L, b) == [kind |-> "cast", binding |-> b, lanes |-> L]

Own(op) == {<<op.table, i>> : i \in 1 .. op.width}
PlanColumns(plan) == UNION {Own(plan[n]) : n \in DOMAIN plan}

ASSUME PlanAssumption ==
  /\ Rounds \in Nat
  /\ \A plan \in Plans : DOMAIN plan = 1 .. Len(plan) /\ Len(plan) \in Nat
  /\ \A plan \in Plans : \A n \in 1 .. Len(plan) :
       /\ \A j \in DOMAIN plan[n].children : plan[n].children[j] \in 1 .. n - 1
       /\ plan[n].kind \in {"cte", "delimjoin"} => 1 \in DOMAIN plan[n].children
       /\ \A m \in (1 .. Len(plan)) \ {n} : Own(plan[m]) \cap Own(plan[n]) = {}
       /\ plan[n].kind = "get" => plan[n].scan \subseteq Table

\* The output columns of each operator.
ColumnBindings(plan) ==
  LET bindings[n \in 1 .. Len(plan)] ==
        LET op == plan[n] IN
        CASE op.kind = "cte" -> bindings[op.children[2]]
          [] op.kind \in {"join", "delimjoin"} -> bindings[op.children[1]] \o bindings[op.children[2]]
          [] OTHER -> [i \in 1 .. op.width |-> <<op.table, i>>]
  IN bindings

-----------------------------------------------------------------------------
(* The pass over the plan. *)

Known(known, b) == IF b \in DOMAIN known THEN known[b] ELSE {}
Snapshot(known, bindings) == [i \in DOMAIN bindings |-> Known(known, bindings[i])]

\* Wrong: a lane that is total in one branch is total.
MergedAnyBranch(known, branches) ==
  [i \in DOMAIN branches[1] |-> UNION {Known(known, branches[j][i]) : j \in DOMAIN branches}]
MergedBranches(known, branches) ==
  LET branch == [j \in DOMAIN branches |-> Snapshot(known, branches[j])]
  IN [i \in DOMAIN branch[1] |->
        {p \in branch[1][i] : \A j \in DOMAIN branch : i \in DOMAIN branch[j] /\ p \in branch[j][i]}]

Forwarded(known, exprs) ==
  [i \in DOMAIN exprs |-> IF exprs[i].kind = "ref" THEN Known(known, exprs[i].binding) ELSE {}]

\* The common tables that are registered under an index before operator n: their
\* definitions are left behind.
Registered(plan, n, index) ==
  {c \in 1 .. Len(plan) : /\ plan[c].kind = "cte"
                          /\ plan[c].index = index
                          /\ plan[c].children[1] < n}

\* The delim joins with operator n on their delim side, and the nearest of them.
Stacked(plan, n) ==
  {d \in 1 .. Len(plan) : /\ plan[d].kind = "delimjoin"
                          /\ plan[d].children[1] < n
                          /\ n <= plan[d].children[2]}
Nearest(plan, n) ==
  CHOOSE d \in Stacked(plan, n) :
    \A e \in Stacked(plan, n) : plan[e].children[1] <= plan[d].children[1]

\* The operator whose columns operator n replays under its own table index; 0 if none.
SnapshotOf(plan, n) ==
  LET op == plan[n] IN
  CASE op.kind = "cteref" /\ Registered(plan, n, op.index) # {} ->
         CHOOSE c \in Registered(plan, n, op.index) : TRUE
    [] op.kind = "delimget" /\ Stacked(plan, n) # {} /\
       Len(plan[Nearest(plan, n)].columns) = op.width -> Nearest(plan, n)
    [] OTHER -> 0

Replayed(plan, bindings, n) ==
  LET from == SnapshotOf(plan, n) IN
  CASE from = 0 -> <<>>
    [] from # 0 /\ plan[n].kind = "cteref" -> bindings[plan[from].children[1]]
    [] from # 0 /\ plan[n].kind = "delimget" -> plan[from].columns

\* When it was taken: after the definition, or the outer side.
SnapshotAt(plan, n) ==
  LET from == SnapshotOf(plan, n) IN IF from = 0 THEN n - 1 ELSE plan[from].children[1]

\* What the pass finds out about the columns of operator n.
Found(plan, bindings, n, known, snapshot) ==
  LET op == plan[n] IN
  CASE op.kind = "get" -> <<{p \in ScanLanes(op.scan) : Total(op.scan, p)}>>
    [] op.kind \in {"cteref", "delimget"} -> Snapshot(snapshot, Replayed(plan, bindings, n))
    [] op.kind = "setop" ->
         MergedBranches(known, [j \in DOMAIN op.children |-> bindings[op.children[j]]])
    [] op.kind = "projection" -> Forwarded(known, op.exprs)
    [] OTHER -> <<>>

\* All entries of first, and the entries of second that first has not (emplace).
Joined(first, second) ==
  [b \in DOMAIN first \cup DOMAIN second |-> IF b \in DOMAIN first THEN first[b] ELSE second[b]]

\* The columns of op under its own bindings.  An entry that is there stays.
Rebound(op, found) == [b \in {c \in Own(op) : c[2] \in DOMAIN found} |-> found[b[2]]]
Visited(plan, bindings, n, known, snapshot) ==
  Joined(known, Rebound(plan[n], Found(plan, bindings, n, known, snapshot)))

CollectShredTotality(plan, bindings) ==
  LET known[n \in 0 .. Len(plan)] ==
        IF n = 0 THEN <<>>
        ELSE Visited(plan, bindings, n, known[n - 1], known[SnapshotAt(plan, n)])
  IN known[Len(plan)]

-----------------------------------------------------------------------------
(* The rows a plan may bring to each column, and the lanes of their type. *)

\* The operators whose columns are those of operator n, under other bindings.
Behind(plan, n) ==
  LET op == plan[n] IN
  CASE op.kind \in {"setop", "recursive"} -> {op.children[j] : j \in DOMAIN op.children}
    [] op.kind = "cteref" ->
         IF SnapshotOf(plan, n) # 0 THEN {plan[SnapshotOf(plan, n)].children[1]}
         ELSE UNION {{plan[c].children[1], plan[c].children[2]} :
                       c \in {m \in 1 .. Len(plan) : plan[m].kind = "recursive" /\ plan[m].index = op.index}}
    [] OTHER -> {}

\* The columns that bring column i of operator n its rows as they are.
Sources(plan, bindings, n, i) ==
  LET op == plan[n] IN
  CASE op.kind = "delimget" -> {plan[d].columns[i] : d \in {Nearest(plan, n)} \cap Stacked(plan, n)}
    [] op.kind = "projection" /\ op.exprs[i].kind = "ref" -> {op.exprs[i].binding}
    [] OTHER -> {bindings[m][i] : m \in Behind(plan, n)}

Empty == [lanes |-> {}, rows |-> {}]
Column(flow, b) == IF b \in DOMAIN flow THEN flow[b] ELSE Empty
Together(columns) == [lanes |-> UNION {c.lanes : c \in columns}, rows |-> UNION {c.rows : c \in columns}]

\* An outer join above any operator fills in rows of NULLs.
OuterRow == NullRow(CHOOSE t \in Table : TRUE)

Brought(plan, bindings, n, i, flow) ==
  LET op == plan[n] IN
  CASE op.kind = "get" -> [lanes |-> ScanLanes(op.scan), rows |-> InScan(op.scan) \cup {OuterRow}]
    [] op.kind = "projection" /\ op.exprs[i].kind = "cast" ->
         LET e == op.exprs[i]
             column == Column(flow, e.binding)
         IN [lanes |-> e.lanes, rows |-> {RawCast(r.table, e.lanes, column.lanes, r) : r \in column.rows}]
    [] OTHER -> Together({Column(flow, b) : b \in Sources(plan, bindings, n, i)})

\* The rows that have come one operator further.
Onward(plan, bindings, flow) ==
  [b \in PlanColumns(plan) |->
     Brought(plan, bindings, CHOOSE n \in DOMAIN plan : b \in Own(plan[n]), b[2], flow)]

Flow(plan, bindings) ==
  LET flow[k \in 0 .. Rounds] == IF k = 0 THEN <<>> ELSE Onward(plan, bindings, flow[k - 1])
  IN flow[Rounds]

-----------------------------------------------------------------------------
\* Whatever casts, joins, set operations, common tables and subqueries lie between
\* a scan and a read: a lane the plan calls total holds the document's value in
\* every row that can come there, unless a raw cast lost it and another gave it
\* back.
TotalLanesReadTrueInEveryPlan ==
  \A plan \in Plans :
    LET bindings == ColumnBindings(plan)
        total == CollectShredTotality(plan, bindings)
        flow == Flow(plan, bindings)
    IN \A b \in DOMAIN total \cap DOMAIN flow : \A p \in total[b] : \A r \in flow[b].rows :
         Regained(flow[b].lanes, r) \/ r.lane[p] = Answer(r, p)
=============================================================================
