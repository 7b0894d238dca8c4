------------------------------ MODULE Sessions ------------------------------
(***************************************************************************)
(* What one SQLAlchemy session does to a row between loading it and        *)
(* committing it.                                                          *)
(*                                                                         *)
(* A session reads at READ COMMITTED, keeps the object it loaded, and at   *)
(* commit writes only the columns whose value differs from the loaded one  *)
(* and only the association rows the new collection adds or drops.         *)
(* Primary keys are serial and never reused, so a deleted row leaves GONE  *)
(* behind while NULL is a key not handed out yet.                          *)
(***************************************************************************)
CONSTANTS NULL, GONE

Live(table) == {k \in DOMAIN table : table[k] \notin {NULL, GONE}}
Fresh(table) == {k \in DOMAIN table : table[k] = NULL}

\* Mutant: None is assigned like any other value.
GivenOrNone(new, old) == new

\* What a payload gives replaces what the object had; None leaves it alone.
Given(new, old) == IF new = NULL THEN old ELSE new

\* The UPDATE a flush emits for one column, and the association rows it adds
\* and deletes, applied to the row as it is at commit.
FlushColumn(row, loaded, obj) == IF obj = loaded THEN row ELSE obj
FlushSet(row, loaded, obj) == (row \ (loaded \ obj)) \cup (obj \ loaded)
=============================================================================
