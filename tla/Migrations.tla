----------------------------- MODULE Migrations -----------------------------
(***************************************************************************)
(* The database under `alembic upgrade head`, which api-entrypoint.sh runs *)
(* before every start of the server, and `alembic downgrade -1`. Alembic   *)
(* runs all the migrations of a command in one transaction                 *)
(* (migrations/env.py), and Postgres rolls back DDL like anything else.    *)
(*                                                                         *)
(* Rows come and go only between commands: a writer of a table that a      *)
(* command has altered waits for it, and one of another table could as     *)
(* well have come first.                                                   *)
(***************************************************************************)
EXTENDS Revisions, Models, Integers, Sequences

CONSTANT Populated      \* the tables whose rows are followed

VARIABLES
    db,     \* revision (alembic_version), schema and tables with rows
    cmd     \* the running command: its goal, and the database it sees

vars == <<db, cmd>>

Last == Len(Chain)

EmptyDatabase == [at |-> 0, schema |-> {}, filled |-> {}]

\* -1 is the goal of no command: 0 is the goal of a downgrade to the base.
NoCommand == [goal |-> -1, work |-> EmptyDatabase]

Init ==
    /\ db = EmptyDatabase
    /\ cmd = NoCommand

Idle == cmd = NoCommand

\* The tables a row of t must refer to.
Parents(schema, t) ==
    {f[4] : f \in {g \in schema :
                    g[1] = "fk" /\ g[2] = t /\ <<"notnull", t, g[3]>> \in schema}}

Insert(t) ==
    /\ Idle
    /\ t \in TablesOf(db.schema) \ db.filled
    /\ Parents(db.schema, t) \subseteq db.filled
    /\ db' = [db EXCEPT !.filled = @ \cup {t}]
    /\ UNCHANGED cmd

Empty(t) ==
    /\ Idle
    /\ t \in db.filled
    /\ \A u \in db.filled : t \notin Parents(db.schema, u)
    /\ db' = [db EXCEPT !.filled = @ \ {t}]
    /\ UNCHANGED cmd

\* A deployment brings the database to the last revision its image knows. An
\* image older than the database does not know its revision and is refused.
UpgradeHead(head) ==
    /\ Idle
    /\ head > db.at
    /\ cmd' = [goal |-> head, work |-> db]
    /\ UNCHANGED db

DowngradeOne ==
    /\ Idle
    /\ db.at > 0
    /\ cmd' = [goal |-> db.at - 1, work |-> db]
    /\ UNCHANGED db

NextAt == IF cmd.work.at < cmd.goal THEN cmd.work.at + 1 ELSE cmd.work.at - 1

NextMigration ==
    IF cmd.work.at < cmd.goal THEN Chain[cmd.work.at + 1].up ELSE Chain[cmd.work.at].down

\* awkward: the rows hold nulls or duplicates that the migration cannot accept.
MigrationRefused(awkward) ==
    Refused(cmd.work.schema, cmd.work.filled, NextMigration, awkward)

Migrate ==
    /\ ~Idle
    /\ cmd.work.at # cmd.goal
    /\ \E awkward \in BOOLEAN : ~MigrationRefused(awkward)
    /\ cmd' = [cmd EXCEPT !.work =
                    [at |-> NextAt,
                     schema |-> Applied(@.schema, NextMigration),
                     filled |-> FilledAfter(@.filled, NextMigration)]]
    /\ UNCHANGED db

\* Mutant of Fail: what was done so far is kept.
FailMidway ==
    /\ ~Idle
    /\ cmd' = NoCommand
    /\ db' = [db EXCEPT !.schema = cmd.work.schema]

\* A migration is refused, or the container stops: everything is rolled back.
Fail ==
    /\ ~Idle
    /\ cmd' = NoCommand
    /\ UNCHANGED db

Commit ==
    /\ ~Idle
    /\ cmd.work.at = cmd.goal
    /\ db' = cmd.work
    /\ cmd' = NoCommand

Next ==
    \/ \E t \in Populated : Insert(t) \/ Empty(t)
    \/ \E head \in 1..Last : UpgradeHead(head)
    \/ DowngradeOne
    \/ Migrate
    \/ Fail
    \/ Commit

Spec == Init /\ [][Next]_vars

-----------------------------------------------------------------------------
(* Properties *)

SchemaAt[k \in 0..Last] ==
    IF k = 0 THEN {} ELSE Applied(SchemaAt[k - 1], Chain[k].up)

TypeOK ==
    /\ db.at \in 0..Last /\ cmd.goal \in -1..Last /\ cmd.work.at \in 0..Last
    /\ db.filled \subseteq TablesOf(db.schema)
    /\ cmd.work.filled \subseteq TablesOf(cmd.work.schema)

(* The schema is the one its revision stands for, whatever upgrades,       *)
(* downgrades and failures led to it: a command that fails midway leaves   *)
(* nothing behind, and every downgrade undoes its upgrade exactly.         *)
SchemaMatchesRevision ==
    /\ db.schema = SchemaAt[db.at]
    /\ cmd.work.schema = SchemaAt[cmd.work.at]

(* No deployment empties a table the models still map. Only revision 3,    *)
(* which rebuilt users, did.                                               *)
UpgradesKeepRows ==
    [][db.at >= 3 /\ db'.at > db.at =>
          db.filled \cap TablesOf(ModelSchema) \subseteq db'.filled]_vars

(* A database at the revision of the revised Modal models or later can     *)
(* always be upgraded, whatever its rows: set -e in api-entrypoint.sh      *)
(* keeps the server from starting otherwise.                               *)
RevisedModal == 21

UpgradesAccepted ==
    cmd.work.at >= RevisedModal /\ cmd.work.at < cmd.goal => ~MigrationRefused(TRUE)

(* Three downgrades drop a constraint without its name, which Alembic      *)
(* refuses: a database that has reached one of these revisions does not    *)
(* get back below it, whoever needs the older image to run.                *)
Nameless == {10, 11, RevisedModal}

NoWayBack == [][\A k \in Nameless : db.at >= k => db'.at >= k]_vars

(* A migrated database has the schema the models declare, from which       *)
(* `alembic revision --autogenerate` derives the migrations and with which *)
(* the tests are run.                                                      *)
HeadIsModels == db.at = Last => db.schema = ModelSchema
=============================================================================
