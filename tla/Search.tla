------------------------------- MODULE Search -------------------------------
(***************************************************************************)
(* Ranked search (routes/gardens.py, search/sql.sql): the materialized     *)
(* views of documents, the triggers that refresh a view when a text is     *)
(* written, and the five statements of one search.                         *)
(*                                                                         *)
(* A transaction that writes takes its locks in the order in which the     *)
(* session flushes and keeps them until it ends: rows, unique keys,        *)
(* association rows, views. REFRESH takes its snapshot, then waits for     *)
(* ACCESS EXCLUSIVE on the view. A search holds ACCESS SHARE on all three  *)
(* views from its first statement until its session is closed. A search    *)
(* without a query string reads only gardens and takes no part in this.    *)
(***************************************************************************)
EXTENDS Naturals, Sequences, FiniteSets

CONSTANTS
    Gardens, Entrypoints, Functions,    \* ids of rows
    Texts,                              \* values of the columns that are indexed
    Matching,                           \* those the query matches
    Undescribed,                        \* those without a description
    Dois, Uuids,                        \* unique values that several requests ask for
    Writers, Searches,                  \* slots for requests
    None, Null                          \* no row, and a row's NULL document

VARIABLES
    rows,       \* the committed text of each row, or None
    docs,       \* its document in its view, or None
    links,      \* gardens_entrypoints and gardens_modal_functions
    tx,         \* transactions that write
    search      \* searches

vars == <<rows, docs, links, tx, search>>

Members == Entrypoints \cup Functions
Items == Gardens \cup Members

SearchAssumption ==
    /\ Gardens \cap Members = {} /\ Entrypoints \cap Functions = {}
    /\ {None, Null} \cap Texts = {} /\ None # Null
    /\ Matching \subseteq Texts /\ Undescribed \subseteq Texts
    /\ Writers \cap Searches = {}

ASSUME SearchAssumption

TableOf(i) ==
    IF i \in Gardens THEN "gardens"
    ELSE IF i \in Entrypoints THEN "entrypoints" ELSE "modal_functions"

Views == {"entrypoints", "modal_functions", "gardens"}

\* The order in which search_gardens names the views, and so locks them.
LockOrder == <<"entrypoints", "modal_functions", "gardens">>

\* tsvector || NULL is NULL: the document of a row without a description.
Document(text) == IF text \in Undescribed THEN Null ELSE text

-----------------------------------------------------------------------------
(* Locks: what is locked, and how. FOR KEY SHARE is taken of a row by who    *)
(* refers to it, FOR NO KEY UPDATE by who changes it, and the whole of it    *)
(* by who deletes it or changes one of its unique values. A unique value is  *)
(* locked by who inserts it and by who takes it away.                        *)

Modes == {"share", "update", "whole"}

Row(i, mode) == <<"row", i, mode>>
Doi(i, k) == <<"doi", <<TableOf(i), k>>, "whole">>
Uuid(k) == <<"uuid", k, "whole">>
Link(l) == <<"link", l, "whole">>
View(i) == <<"view", TableOf(i), "whole">>

Compatible == {<<"share", "share">>, <<"share", "update">>, <<"update", "share">>}

Conflict(a, b) == a[1] = b[1] /\ a[2] = b[2] /\ <<a[3], b[3]>> \notin Compatible

Locks ==
    {Row(i, mode) : i \in Items, mode \in Modes}
        \cup {Doi(i, k) : i \in Items, k \in Dois}
        \cup {Uuid(k) : k \in Uuids}
        \cup {Link(l) : l \in Gardens \X Members}
        \cup {View(i) : i \in Items}

-----------------------------------------------------------------------------
(* A transaction that writes one row: its plan is the locks it has still to  *)
(* take, in seven stages. Within a stage the order is the session's or       *)
(* Postgres', and left open.                                                 *)

Stages == 1..7
NoPlan == [n \in Stages |-> {}]

\* A new owner, and the associations, that an autoflush writes before the row;
\* the row, its unique values, its view, the associations written after it.
Plan(owner, early, row, dois, uuids, view, late) ==
    <<owner, early, row, dois, uuids, view, late>>

NoTx == [does |-> "nothing", item |-> None, text |-> None, added |-> {}, dropped |-> {},
         orderly |-> FALSE, plan |-> NoPlan, held |-> {}, view |-> [j \in {} |-> None]]

TxType ==
    [does : {"nothing", "insert", "update", "delete"},
     item : Items \cup {None}, text : Texts \cup {None},
     added : SUBSET (Gardens \X Members), dropped : SUBSET (Gardens \X Members),
     orderly : BOOLEAN, plan : [Stages -> SUBSET Locks], held : SUBSET Locks,
     view : UNION {[S -> Texts \cup {None, Null}] : S \in SUBSET Items}]

Active(w) == tx[w].does # "nothing"

Begin(w, t) ==
    /\ ~Active(w)
    /\ tx' = [tx EXCEPT ![w] = t]
    /\ UNCHANGED <<rows, docs, links, search>>

\* The id of a new row is its own: nobody is at work on it or refers to it.
New(i) ==
    /\ rows[i] = None
    /\ \A w \in Writers : tx[w].item # i /\ \A l \in tx[w].added \cup tx[w].dropped : l[2] # i

\* The members of a garden are looked up before they are associated.
Known(kind) == {m \in kind : rows[m] # None}

\* Inserting an association locks the rows it names: the member's, and the
\* garden's, which most writers have locked before.
Refs(added, dropped) ==
    {Link(l) : l \in added \cup dropped} \cup {Row(l[2], "share") : l \in added}

OwnRow(added) == {Row(l[1], "share") : l \in added}

\* Mutant of ViewLock: every trigger refreshes all the views.
AllViews(i, text) == {View(j) : j \in Items}

ViewLock(i, text) == IF text = None THEN {} ELSE {View(i)}

AtMostOne(S) == {{}} \cup {{k} : k \in S}

\* Orderly: it takes the row first, then at most one value of each kind, and
\* takes no value away. The POST of an app takes the DOIs of all its functions.
Post(w, i) ==
    \E text \in Texts, dois \in SUBSET Dois, uuids \in AtMostOne(Uuids), members \in SUBSET Known(Members) :
        /\ New(i)
        /\ i \in Gardens \cup Entrypoints => dois \in AtMostOne(Dois)
        /\ i \in Members => members = {}
        /\ i \notin Entrypoints => uuids = {}
        /\ LET added == {i} \X members IN
            Begin(w, [NoTx EXCEPT
                !.does = "insert", !.item = i, !.text = text, !.added = added,
                !.orderly = dois \in AtMostOne(Dois),
                !.plan = Plan({}, {}, {Row(i, "whole")}, {Doi(i, k) : k \in dois},
                              {Uuid(k) : k \in uuids}, ViewLock(i, text), Refs(added, {}))])

\* An UPDATE of row i gives up the values `left` and takes others; its trigger
\* fires if it sets the text, which is None if it does not.
RowLocks(i, left, taken) ==
    IF left = {} /\ taken = {} THEN {Row(i, "update")} ELSE {Row(i, "whole")} \cup left

\* PUT and PATCH of an entrypoint, PATCH of a function, which only ever gets
\* a DOI when it has none.
UpdateMember(w, i) ==
    \E text \in Texts \cup {None}, dois \in AtMostOne(Dois), uuids \in AtMostOne(Uuids),
       left \in SUBSET ({Doi(i, k) : k \in Dois} \cup {Uuid(k) : k \in Uuids}) :
        /\ rows[i] # None
        /\ left \cap ({Doi(i, k) : k \in dois} \cup {Uuid(k) : k \in uuids}) = {}
        /\ i \in Functions => left = {} /\ uuids = {}
        /\ Begin(w, [NoTx EXCEPT
                !.does = "update", !.item = i, !.text = text, !.orderly = left = {},
                !.plan = Plan({}, {}, RowLocks(i, left, dois \cup uuids),
                              {Doi(i, k) : k \in dois}, {Uuid(k) : k \in uuids},
                              ViewLock(i, text), {})])

\* The associations of garden g with members of the given kind, as they are and
\* as the request has them.
Change(g, kind, members) ==
    LET old == {l \in links : l[1] = g /\ l[2] \in kind} new == {g} \X members
    IN [added |-> new \ old, dropped |-> old \ new]

\* The PUT of a garden: the owner is flushed by the first lookup of members,
\* the entrypoints by the second, the rest at the commit. (If no entrypoint
\* changes, a new owner may as well be written with the rest.)
PutGarden(w, g) ==
    \E text \in Texts \cup {None}, row, owner \in BOOLEAN, dois, left \in AtMostOne(Dois),
       eps \in SUBSET Known(Entrypoints), fns \in SUBSET Known(Functions) :
        LET e == Change(g, Entrypoints, eps)
            f == Change(g, Functions, fns)
        IN
        /\ rows[g] # None
        /\ left \cap dois = {}
        /\ text # None \/ left \cup dois # {} => row
        /\ owner => e.added \cup e.dropped # {}
        /\ Begin(w, [NoTx EXCEPT
                !.does = "update", !.item = g, !.text = text,
                !.added = e.added \cup f.added, !.dropped = e.dropped \cup f.dropped,
                !.plan = Plan(IF owner THEN {Row(g, "update")} ELSE {},
                              Refs(e.added, e.dropped) \cup IF owner THEN {} ELSE OwnRow(e.added),
                              IF row THEN RowLocks(g, {Doi(g, k) : k \in left}, dois) ELSE {},
                              {Doi(g, k) : k \in dois}, {}, ViewLock(g, text),
                              Refs(f.added, f.dropped)
                                  \cup IF owner \/ row THEN {} ELSE OwnRow(f.added))])

\* A PATCH of a garden writes all at the commit, the associations last. One of
\* the associations alone does not write the garden's row.
PatchGarden(w, g) ==
    \E text \in Texts \cup {None}, row \in BOOLEAN, eps \in SUBSET Known(Entrypoints) :
        LET e == Change(g, Entrypoints, eps) IN
        /\ rows[g] # None
        /\ text # None => row
        /\ Begin(w, [NoTx EXCEPT
                !.does = "update", !.item = g, !.text = text,
                !.added = e.added, !.dropped = e.dropped, !.orderly = row,
                !.plan = Plan({}, {}, IF row THEN {Row(g, "update")} ELSE {}, {}, {},
                              ViewLock(g, text),
                              Refs(e.added, e.dropped) \cup IF row THEN {} ELSE OwnRow(e.added))])

\* A garden's associations go before its row.
Delete(w, i) ==
    \E left \in SUBSET ({Doi(i, k) : k \in Dois} \cup {Uuid(k) : k \in Uuids}) :
        LET dropped == {l \in links : l[1] = i} IN
        /\ rows[i] # None
        /\ i \notin Entrypoints => left \subseteq {Doi(i, k) : k \in Dois}
        /\ Begin(w, [NoTx EXCEPT
                !.does = "delete", !.item = i, !.dropped = dropped,
                !.plan = Plan({}, Refs({}, dropped), {Row(i, "whole")} \cup left, {}, {}, {}, {})])

Arrive(w) ==
    \E i \in Items :
        \/ Post(w, i) \/ Delete(w, i)
        \/ i \in Members /\ UpdateMember(w, i)
        \/ i \in Gardens /\ (PutGarden(w, i) \/ PatchGarden(w, i))

-----------------------------------------------------------------------------
Before(w, n) == \A k \in 1..(n - 1) : tx[w].plan[k] = {}

Planned(w) == UNION {tx[w].plan[n] : n \in Stages}

\* Associations that a DELETE of a row finds when it checks for them.
Referring(w) ==
    IF tx[w].does = "delete" /\ Planned(w) = {}
    THEN {l \in links \ tx[w].dropped : tx[w].item \in {l[1], l[2]}}
    ELSE {}

\* What w can be waiting for: the locks of its stage, and the associations that
\* somebody is dropping.
Wants(w) ==
    UNION {tx[w].plan[n] : n \in {k \in Stages : Before(w, k)}}
        \cup {Link(l) : l \in Referring(w)}

\* An association to drop that is not there, or not yet committed: the DELETE finds
\* nothing, waits for nobody and locks nothing.
Absent(w, lock) == lock[1] = "link" /\ lock[2] \in tx[w].dropped \ links

Blocks(v, w, lock) ==
    v # w /\ ~Absent(w, lock) /\ \E held \in tx[v].held : Conflict(lock, held)

Reads(s, lock) == lock[1] = "view" /\ lock[2] \in search[s].held

\* Mutant of Found: no foreign key.
FoundOrNot(w, lock) == TRUE

\* The row a statement changes or refers to is there, or is the transaction's own,
\* and an association to add is not. (A DELETE of a row that is gone would commit,
\* but nothing.)
Found(w, lock) ==
    /\ lock[1] = "row" => rows[lock[2]] # None \/ (tx[w].does = "insert" /\ tx[w].item = lock[2])
    /\ lock[1] = "link" => lock[2] \notin tx[w].added \cap links

Snapshot(i) ==
    [j \in {k \in Items : TableOf(k) = TableOf(i)} |->
        IF rows[j] = None THEN None ELSE Document(rows[j])]

\* Mutant of Refreshed: a BEFORE trigger, which does not see the row written.
RefreshedBefore(i, text) == Snapshot(i)

\* The documents the trigger of a write to row i computes.
Refreshed(i, text) == [Snapshot(i) EXCEPT ![i] = Document(text)]

\* A lock is granted. When the next one is that of the view, its REFRESH has begun
\* and has its snapshot.
Acquire(w, n, lock) ==
    /\ lock \in tx[w].plan[n] /\ Before(w, n)
    /\ Found(w, lock)
    /\ ~\E v \in Writers : Blocks(v, w, lock)
    /\ ~\E s \in Searches : Reads(s, lock)
    /\ LET plan == [tx[w].plan EXCEPT ![n] = @ \ {lock}]
           refreshes == n < 6 /\ plan[6] # {} /\ \A k \in 1..5 : plan[k] = {}
       IN tx' = [tx EXCEPT
                    ![w].plan = plan,
                    ![w].held = IF Absent(w, lock) THEN @ ELSE @ \cup {lock},
                    ![w].dropped = IF Absent(w, lock) THEN @ \ {lock[2]} ELSE @,
                    ![w].view = IF refreshes THEN Refreshed(tx[w].item, tx[w].text) ELSE @]
    /\ UNCHANGED <<rows, docs, links, search>>

Commit(w) ==
    /\ Active(w) /\ Planned(w) = {} /\ Referring(w) = {}
    /\ rows' = IF tx[w].text # None \/ tx[w].does = "delete"
               THEN [rows EXCEPT ![tx[w].item] = tx[w].text] ELSE rows
    /\ docs' = [j \in Items |-> IF j \in DOMAIN tx[w].view THEN tx[w].view[j] ELSE docs[j]]
    /\ links' = (links \ tx[w].dropped) \cup tx[w].added
    /\ tx' = [tx EXCEPT ![w] = NoTx]
    /\ UNCHANGED search

\* An error, a constraint, a deadlock Postgres breaks, or a stop.
Rollback(w) ==
    /\ Active(w)
    /\ tx' = [tx EXCEPT ![w] = NoTx]
    /\ UNCHANGED <<rows, docs, links, search>>

-----------------------------------------------------------------------------
(* POST /gardens/search *)

\* tags, authors and year facets, the total and the page.
Statements == 5

NoSearch == [active |-> FALSE, held |-> {}, answered |-> 0,
             live |-> {}, found |-> {}, seen |-> {}]

SearchType ==
    [active : BOOLEAN, held : SUBSET Views, answered : 0..Statements,
     live : SUBSET Gardens, found : SUBSET Gardens, seen : SUBSET (Gardens \X Members)]

LiveGardens == {g \in Gardens : rows[g] # None}

\* The first statement's snapshot: search_gardens, being VOLATILE, takes one
\* of its own when it has its locks.
StartSearch(s) ==
    /\ ~search[s].active
    /\ search' = [search EXCEPT ![s] = [NoSearch EXCEPT !.active = TRUE, !.live = LiveGardens]]
    /\ UNCHANGED <<rows, docs, links, tx>>

NextView(s) == LockOrder[Cardinality(search[s].held) + 1]

HoldsForSearch(w, s) == <<"view", NextView(s), "whole">> \in tx[w].held

LockView(s) ==
    /\ search[s].active /\ search[s].held # Views
    /\ ~\E w \in Writers : HoldsForSearch(w, s)
    /\ search' = [search EXCEPT ![s].held = @ \cup {NextView(s)}]
    /\ UNCHANGED <<rows, docs, links, tx>>

Visible(s) == IF search[s].answered = 0 THEN search[s].live ELSE LiveGardens

\* rank > 0: the ranks of a row of garden_documents, whatever document it has,
\* and of its members.
Ranked(g) ==
    /\ docs[g] # None
    /\ \/ docs[g] \in Matching
       \/ \E m \in Members : <<g, m>> \in links /\ docs[m] \in Matching

\* Mutant of Kept: each statement is a transaction of its own.
KeptWithin(held) == {}

\* The locks a statement leaves to the next one.
Kept(held) == held

Statement(s) ==
    /\ search[s].held = Views /\ search[s].answered < Statements
    /\ search' = [search EXCEPT ![s] =
            [search[s] EXCEPT !.answered = search[s].answered + 1,
                              !.live = {},
                              !.found = {g \in Visible(s) : Ranked(g)},
                              !.seen = links,
                              !.held = Kept(search[s].held)]]
    /\ UNCHANGED <<rows, docs, links, tx>>

\* Mutant of EndSearch: the session is not closed.
EndWithoutClose(s) ==
    /\ search[s].active /\ search[s].answered = Statements
    /\ search' = [search EXCEPT ![s].active = FALSE]
    /\ UNCHANGED <<rows, docs, links, tx>>

\* The answer is sent, or an error is.
EndSearch(s) ==
    /\ search[s].active
    /\ search' = [search EXCEPT ![s] = NoSearch]
    /\ UNCHANGED <<rows, docs, links, tx>>

Aborts(p) == IF p \in Writers THEN Rollback(p) ELSE EndSearch(p)

-----------------------------------------------------------------------------
(* Who waits for whom *)

Requests == Writers \cup Searches

\* A search waits for the writer that holds the next view it needs.
WaitsForWriter(p, w) ==
    IF p \in Writers
    THEN \E lock \in Wants(p) : Blocks(w, p, lock)
    ELSE search[p].active /\ search[p].held # Views /\ HoldsForSearch(w, p)

WaitsForSearch(p, s) == p \in Writers /\ \E lock \in Wants(p) : Reads(s, lock)

WaitsFor(p, q) == IF q \in Writers THEN WaitsForWriter(p, q) ELSE WaitsForSearch(p, q)

\* Each of C waits for another of C.
Deadlocked(C) == C # {} /\ \A p \in C : \E q \in C : WaitsFor(p, q)

\* Postgres' deadlock detector aborts one of a circle, not one that waits for it.
BreakDeadlock ==
    LET stuck == {p \in Requests : \E q \in Requests : WaitsFor(p, q)} IN
    \E C \in SUBSET stuck :
        /\ Deadlocked(C) /\ \A D \in SUBSET C : Deadlocked(D) => D = C
        /\ \E p \in C : Aborts(p)

-----------------------------------------------------------------------------
Init ==
    /\ rows = [i \in Items |-> None]
    /\ docs = [i \in Items |-> None]
    /\ links = {}
    /\ tx = [w \in Writers |-> NoTx]
    /\ search = [s \in Searches |-> NoSearch]

Step(w) == \E n \in Stages : \E lock \in tx[w].plan[n] : Acquire(w, n, lock)

Next ==
    \/ \E w \in Writers : Arrive(w) \/ Step(w) \/ Commit(w) \/ Rollback(w)
    \/ \E s \in Searches : StartSearch(s) \/ LockView(s) \/ Statement(s) \/ EndSearch(s)
    \/ BreakDeadlock

Spec == Init /\ [][Next]_vars

\* A statement finds what it may not, or not what it must, and nobody is about
\* to change that.
Fails(w) ==
    \/ \E n \in Stages : Before(w, n) /\ \E lock \in tx[w].plan[n] :
            ~Found(w, lock) /\ \A v \in Writers : ~Blocks(v, w, lock)
    \/ \E l \in Referring(w) : \A v \in Writers : ~Blocks(v, w, Link(l))

\* What a writer does next unless it is blocked.
Proceed(w) == Step(w) \/ Commit(w) \/ (Rollback(w) /\ Fails(w))

Answer(s) ==
    \/ LockView(s) \/ Statement(s)
    \/ search[s].answered = Statements /\ EndSearch(s)

\* Postgres grants a lock to whoever waits for it before those who come
\* later, and breaks deadlocks; a request that nothing blocks goes on.
Fairness ==
    /\ \A w \in Writers : SF_vars(Proceed(w))
    /\ \A s \in Searches : SF_vars(Answer(s))
    /\ WF_vars(BreakDeadlock)

FairSpec == Spec /\ Fairness

-----------------------------------------------------------------------------
(* Properties *)

TypeOK ==
    /\ rows \in [Items -> Texts \cup {None}]
    /\ docs \in [Items -> Texts \cup {None, Null}]
    /\ links \subseteq Gardens \X Members
    /\ \A l \in links : rows[l[1]] # None /\ rows[l[2]] # None
    /\ tx \in [Writers -> TxType]
    /\ search \in [Searches -> SearchType]

(* A commit that writes a text leaves its own document in the view, under  *)
(* whatever overlaps: the trigger sees the row it fires for.               *)
OwnWriteIndexed ==
    [][\A i \in Items :
          rows'[i] \notin {rows[i], None} => docs'[i] = Document(rows'[i])]_vars

(* Writers can wait for each other in a circle: two PUTs that swap their     *)
(* DOIs, a DELETE that has a garden's associations and a PATCH that has its  *)
(* row. It takes one that is not orderly: a PUT or DELETE of a garden, a     *)
(* DELETE of a member, a PATCH of associations alone, a request that renames *)
(* or takes several DOIs. All the others, in any number and on whatever      *)
(* rows, values, views and associations, get their locks without a victim,   *)
(* because triggers and foreign keys are served after the row                *)
(* (gardens.py:281, 373, entrypoints.py:166, 219, modal_functions.py:94).    *)
OrderlyNeverDeadlock ==
    \A C \in SUBSET {w \in Writers : tx[w].orderly} : ~Deadlocked(C)

(* The statements of one search see ever fewer gardens: a garden can only  *)
(* come in by being given a member in between. (The first statement may    *)
(* miss one that was committed while it waited for the views.) So the      *)
(* page holds no garden that the total did not count.                      *)
NewlyLinked(s) == {g \in Gardens : \E m \in Members : <<g, m>> \in links \ search[s].seen}

ResultsOnlyShrink ==
    [][\A s \in Searches :
          search'[s].answered > search[s].answered /\ search[s].answered > 1 =>
              search'[s].found \subseteq search[s].found \cup NewlyLinked(s)]_vars

(* A request that writes gets its locks and commits, or is aborted:   *)
(* no search and no circle of waits holds it up for good.                  *)
WritersEnd == \A w \in Writers : []<>~Active(w)

(* When no request is in flight, a row has the document of its text:       *)
(* test_gardens.py posts a garden and expects the search to find it.       *)
CommittedIsIndexed ==
    (\A w \in Writers : ~Active(w)) =>
        \A i \in Items : rows[i] # None => docs[i] = Document(rows[i])
=============================================================================
