-------------------------- MODULE MCShreddedColumn --------------------------
(* Three scalar paths and an array whose name sorts first, words of three *)
(* bits: the set of all four needs a second spill column.                 *)
EXTENDS ShredStats, PlanTotality, FiniteSetsExt, TLC

a == "a"
b == "b"
c == "c"
d == "d"
MCPath == {a, b, c, d}
MCArrayPath == {c}
MCValue == {"fits", "misfit"}
MCFits == [p \in MCPath |-> {"fits"}]
MCOrder == (c :> 0) @@ (a :> 1) @@ (b :> 2) @@ (d :> 3)

Document(w, x, y, z) == (a :> w) @@ (b :> x) @@ (c :> y) @@ (d :> z)
MCDoc ==
  { Document("fits", "fits", "fits", "fits"),
    Document("misfit", "fits", "fits", "fits"),
    Document("fits", "fits", "misfit", "misfit"),
    Document(Absent, JsonNull, "fits", "fits"),
    Document("misfit", "misfit", Absent, JsonNull) }

MCMaskOf == [B \in SUBSET (0 .. WordBits - 1) |-> SumSet({2 ^ i : i \in B})]
Ordinal(L) == SumSet({2 ^ MCOrder[p] : p \in L})
MCHash == [L \in SUBSET MCPath |-> 2 * Ordinal(L) + (Ordinal(L) % 2)]

MCTable == {"wide", "scalars", "narrow"}
MCLanes == ("wide" :> {a, b, c, d}) @@ ("scalars" :> {a, b}) @@ ("narrow" :> {c, d})
MCScans == SUBSET MCTable \ {{}}

-----------------------------------------------------------------------------
(* Plans over the tables; every get and every projection has an index.     *)

AsItIs(t, from, child) == Projection(t, <<ColumnRef(<<from, 1>>)>>, child)
AsType(t, L, from, child) == Projection(t, <<CastTo(L, <<from, 1>>)>>, child)

\* A common table and a table of its type beside it.
CommonTable ==
  <<Get(100, {"wide"}), AsItIs(10, 100, 1),
    CTERef(12, 1, 1), Get(13, {"wide", "scalars"}), SetOperation(11, 1, <<3, 4>>),
    MaterializedCTE(1, 2, 5)>>

\* Two branches whose types were made one by a cast.
Reconciled ==
  <<Get(100, {"narrow"}), AsType(21, MCLanes["wide"], 100, 1), Get(22, {"wide"}),
    SetOperation(20, 1, <<2, 3>>)>>

\* Two columns that change places in one branch.
Swapped ==
  LET pair(t, first, second, child) ==
        Projection(t, <<ColumnRef(<<first, 1>>), ColumnRef(<<second, 1>>)>>, child)
  IN <<Get(31, {"scalars"}), Get(32, {"scalars", "wide"}), Join(1, 2), pair(33, 31, 32, 3),
       Get(41, {"scalars"}), Get(42, {"scalars", "wide"}), Join(5, 6), pair(43, 42, 41, 7),
       SetOperation(30, 2, <<4, 8>>)>>

\* A subquery within a subquery, and a read of the outer one after it.
Nested ==
  <<Get(50, {"scalars"}),
    DelimGet(51, 1), Get(52, {"narrow"}), Join(2, 3), DelimGet(53, 1),
    DelimJoin(4, <<<<52, 1>>>>, 5),
    DelimGet(54, 1), Join(6, 7),
    DelimJoin(1, <<<<50, 1>>>>, 8)>>

\* A recursive common table that starts from one table and adds another's rows.
Recursive ==
  <<Get(100, {"wide"}), AsItIs(61, 100, 1),
    CTERef(64, 2, 1), Get(101, {"scalars"}), AsType(63, MCLanes["wide"], 101, 4), Join(3, 5),
    AsItIs(62, 63, 6),
    RecursiveCTE(60, 2, 1, 2, 7)>>

MCPlans == {CommonTable, Reconciled, Swapped, Nested, Recursive}
=============================================================================
