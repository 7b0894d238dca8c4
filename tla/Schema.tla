------------------------------- MODULE Schema -------------------------------
(***************************************************************************)
(* A relational schema as a set of facts, what one Alembic migration does  *)
(* to it, and when Postgres refuses.                                       *)
(*                                                                         *)
(*   <<"table", t>>           <<"col", t, c>>       <<"notnull", t, c>>    *)
(*   <<"pk", t, columns>>     <<"unique", t, c>>    <<"fk", t, c, t2, c2>> *)
(*                                                                         *)
(* The statements of one upgrade() or downgrade() are one change: they run *)
(* in one transaction, so only their joint effect can be seen.             *)
(***************************************************************************)

Columns(t, cs) == {<<"col", t, c>> : c \in cs}
Required(t, cs) == Columns(t, cs) \cup {<<"notnull", t, c>> : c \in cs}

Table(t, pk, required, optional) ==
    {<<"table", t>>, <<"pk", t, pk>>} \cup Required(t, pk \cup required) \cup Columns(t, optional)

Unique(t, cs) == {<<"unique", t, c>> : c \in cs}
NotNull(t, c) == {<<"notnull", t, c>>}
References(t, c, t2) == {<<"fk", t, c, t2, "id">>}

\* An association table: two foreign keys that are its primary key.
Links(t, c1, t1, c2, t2) ==
    Table(t, {c1, c2}, {}, {}) \cup References(t, c1, t1) \cup References(t, c2, t2)

\* What a migration may contain. unnamed: it drops a constraint without naming it;
\* defaulted: tables it gives required columns with a value for the rows they have;
\* inserts: tables it writes a row into.
NoChange ==
    [dropTables |-> {}, dropColumns |-> {}, drop |-> {}, add |-> {},
     unnamed |-> FALSE, defaulted |-> {}, inserts |-> {}]

Adds(facts) == [NoChange EXCEPT !.add = facts]
DropsTables(ts) == [NoChange EXCEPT !.dropTables = ts]
DropsColumns(t, cs) == [NoChange EXCEPT !.dropColumns = {<<t, c>> : c \in cs}]

-----------------------------------------------------------------------------
TablesOf(schema) == {f[2] : f \in {g \in schema : g[1] = "table"}}

HasColumn(facts, t, c) == <<"col", t, c>> \in facts

\* A dropped column takes with it the constraints it is part of.
Uses(f, t, c) ==
    /\ f[1] # "table" /\ f[2] = t
    /\ IF f[1] = "pk" THEN c \in f[3] ELSE f[3] = c

Dropped(schema, m) ==
    {f \in schema :
        \/ f[2] \in m.dropTables
        \/ f \in m.drop
        \/ \E tc \in m.dropColumns : Uses(f, tc[1], tc[2])}

Applied(schema, m) == (schema \ Dropped(schema, m)) \cup m.add

\* The columns a foreign key may point at are a key of their own.
IsKey(schema, t, c) == <<"unique", t, c>> \in schema \/ <<"pk", t, {c}>> \in schema

\* Rows stand in the way of a new required column that has no value for them
\* and, if they are awkward (nulls, duplicates), of a column that becomes
\* required and of a new unique constraint.
RowsRefuse(schema, filled, m, awkward) ==
    \E f \in m.add :
        /\ f[1] \in {"notnull", "unique"} /\ f[2] \in filled \ m.defaulted
        /\ awkward \/ ~HasColumn(schema, f[2], f[3])

Refused(schema, filled, m, awkward) ==
    LET after == Applied(schema, m) IN
    \/ m.unnamed
    \/ m.add \cap (schema \ Dropped(schema, m)) # {}
    \/ \E f \in after : f[1] = "fk" /\ ~IsKey(after, f[4], f[5])
    \/ RowsRefuse(schema \ Dropped(schema, m), filled \ m.dropTables, m, awkward)

\* Mutant of FilledAfter: the rows of dropped tables are still counted.
FilledStill(filled, m) == filled \cup m.inserts

\* The tables that have rows afterwards.
FilledAfter(filled, m) == (filled \ m.dropTables) \cup m.inserts
=============================================================================
