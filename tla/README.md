# A TLA+ model of the Garden backend

The Garden backend (`garden-backend-service/`) is a FastAPI service over one
Postgres database. Users publish *entrypoints* (functions) and *gardens*
(collections of them) under DataCite DOIs, save gardens, deploy apps to Modal,
run their functions under a monthly limit, and search. The service runs as one uvicorn
process (`api-entrypoint.sh`), every request in an SQLAlchemy session of its
own at READ COMMITTED, so requests interleave at every `await`. What is hard to
test is there: checks made on a row long before it is written, two services
(DataCite, Modal) and a group (Globus) that no transaction covers, and
constraints of the database on which the handlers silently rely.

The models cover the routes that change state, ranked search, sign-up behind the
token cache, and the migrations that make the database.

Paths below are relative to `garden-backend-service/src/`.

## Inventory

| component | state | operations | interacts with | hard behaviour |
|---|---|---|---|---|
| Garden routes, `api/routes/gardens.py` | `gardens`, `gardens_entrypoints`, `gardens_modal_functions` | POST, PUT, PATCH, DELETE; reads and search | entrypoints and functions it lists, `users`, doi.org, DataCite | load, check, look up, commit are separate steps; archive is committed before DataCite is told |
| Entrypoint routes, `api/routes/entrypoints.py` | `entrypoints` | POST, PUT, PATCH, DELETE; reads | gardens that list it, DataCite | the same; two unique keys |
| Saved gardens, `api/routes/users.py` | `users_saved_gardens` | save, remove; list | gardens | a garden deleted while it is saved |
| User profile, `api/routes/users.py` | columns of `users` | GET, PATCH | | none |
| DOI routes, `api/routes/doi.py` | none of its own | mint, update | DataCite | changes what the rows' draft flags claim |
| Modal invocations, `api/routes/modal/invocations.py` | `modal_invocations` | invoke | Modal, the usage limit of `api/dependencies/auth.py` | check far from record; retries; an unbounded wait; the turn of a month |
| Usage estimate, `usage/modal_usage.py` | none | pure function | invocations | defaults and price tables |
| Sign-up, `api/dependencies/auth.py`, `models/base.py`, `auth/globus_groups.py` | `users`, the Globus group | `authed_user` on every request | every route | overlapping first requests, Globus between insert and commit, and an answer of Globus nobody reads |
| Token cache, `auth/globus_auth.py`, `auth/auth_state.py` | TTL cache of 100 tokens | introspection | every route, Globus | stale answers; stores and evictions of threads without a lock |
| Modal apps and functions, `api/routes/modal/` | `modal_apps`, `modal_functions`, deployments on Modal | add, delete, PATCH | gardens, invocations, Modal | deploy before commit, cascade over functions others refer to |
| Search, `api/search/` | three materialized views | ranked search, facets, pages | gardens, entrypoints, functions | refresh by triggers of overlapping transactions; locks of searches and writers; five statements per answer |
| Migrations, `../migrations/` | the schema, `alembic_version` | `upgrade head` before every start, `downgrade -1` | every table | rows in the way, a command that fails midway, downgrades that do not run |
| Notebook, ECR token, MDF search | none | one external call each | S3, STS, Globus Search | none |

## Modules

| module | what it models |
|---|---|
| `Sessions` | what a session's flush does to a row |
| `CatalogDB` | the tables the catalogue routes share, DataCite, the guards of `_utils.py` |
| `Gardens`, `Entrypoints`, `SavedGardens`, `Dois` | the routes, one action per step between awaits |
| `Catalog` | their composition, the deletion of functions, a restart, and the properties |
| `AtomicCatalog` | the abstract specification of the catalogue routes: each takes effect at once |
| `ModalApps` | adding and deleting Modal apps, patching their functions |
| `Invocations` | running a function under the monthly limit |
| `SignUp` | the first request of an identity; `Accounts` is the abstract specification it implements |
| `Authentication` | the token's way through the cache to `SignUp`, which it extends |
| `Search` | documents, triggers, locks and the statements of a ranked search |
| `Schema`, `Revisions` | what a migration may contain, and the 24 of them |
| `Models` | the schema the SQLAlchemy models declare |
| `Migrations` | the commands that bring a database from one revision to another |
| `MCCatalog`, `MCModalApps`, `MCInvocations`, `MCAuthentication` | payloads, owners and symmetry for TLC |
| `*_proof` | theorems |

### How the catalogue modules follow the code

A request occupies a *slot* (`greq`, `ereq`, `sreq`), idle until a request
arrives. The slot's `pc` is the await the handler is at:

* arrival loads the row (`Base.get`) and makes the checks that precede the next
  await that matters; a request refused there changes nothing and is no step;
* `resolve` (doi.org), `collect` (the member lookups; the two queries are one
  step, since nothing is written between them), `commit`, and `hide` (the
  DataCite call after an archiving PATCH).

`loaded` is the row as the session read it and `obj` the object about to be
flushed. A commit writes, as SQLAlchemy does, only the columns whose value
differs from the loaded one and only the association rows that were added or
dropped (`FlushColumn`, `FlushSet`), to the row *as it is then*. Postgres'
unique, foreign and primary keys, those of the association rows included, are the
guards of the commit actions: a violated one ends the request with nothing written. An UPDATE whose row is gone fails; a
DELETE whose row is gone does not. `db.delete` removes the association rows
loaded with the garden; any other row that refers to it makes the DELETE fail.

Three details of the code are merged on purpose. A PUT's autoflush before its
lookups takes the row's lock early, which only removes interleavings the model
keeps. The seven attributes frozen on a published entrypoint are one value,
`func`; `func_uuid`, one of them, carries the unique key. `owner_identity_id =
NULL` also stands for an identity without an account, on which every route falls
back on the requesting user.

The schema is that of `models/`, which is not quite the one the migrations leave
(see `Migrations` below): the model keeps association rows in sets, as the models
say.

`Dois` steps are atomic because `doi.py` calls DataCite with the blocking
`requests` library: no other request of the process runs in between.

### Modal apps

`ModalApps` has two steps per request, split at the commit: nothing else is
awaited after the row is loaded. The validation and the deployment of a POST are
blocking calls (`modal_apps.py` says "TODO: ... make it async"), so `DeployApp` is
one step from the arrival to the commit. `Import` gives what Modal finds in a
file; `deployed` is what Modal keeps under `<identity>-<app name>`, which nothing
undeploys. `referred` stands for the two tables that hold foreign keys to
functions; `Refer` and `Release` are what the garden and invocation routes do to
them. In the other direction `Catalog!DeleteModalFunction` and
`Invocations!DeleteFunction` are `CommitDelete` as those modules see it.

A function's draft state is the absence of a DOI (`schemas/modal/modal_function.py`);
its column `doi_is_draft` is written by no route and left out.

### Invocations and sign-up

In `Invocations` a request arrives (`authed_user`'s query opens the transaction;
`now()`, which dates the row, is the transaction's start), is checked against
the month it is *then*, finds its function, has Modal run it (once, or twice when
`retry_transient_errors` repeats a submission whose answer was lost), waits, and
records. `incurred` is what the calls Modal ran really came to, which no column
of the database holds. Usage is in whole units; the float arithmetic of
`estimate_usage` is replaced by any cost up to `MaxCost`.

In `SignUp` the INSERT of `get_or_create` waits for a rival's uncommitted insert
of the same identity (`Flush`), the Globus group is asked before the commit, and
either may fail with or without having taken effect. Globus may also decline the
member in the body of a success: `globus_groups.py:26` discards that answer, so the
account is committed without the membership (`AddUserToGroup`, `Answered`).
`Accounts` promises what is left: an account follows its member, or stands alone
once Globus has declined; it is never taken back, and whoever was declined is not
asked for again.

`Authentication` puts the token in front of it. The dependencies up to
`authenticated` are plain functions, so FastAPI runs them in a thread pool, and
`cachetools.cached` without a lock is a lookup, a call and a store. `Present` is the
lookup (a `Hit` or a `Miss`), `Introspect` the call. A store is several steps, as
in `TTLCache`: room is made by removing the value of an expired entry or of the
least recently used one and then its time (`Evict`, `Unlink`), the value is put
(`Put`), and then its time (`Stamp`). Threads that overlap in them may fail on each
other's half-done work, a 500. They may also lose a time: a thread that has evicted an
expired entry's value removes the time another thread has just given the same token.
A value without its time never expires (`Lost`), and who is let in by one is
`unchecked`. How many entries go is left open, because the count the cache goes by
is itself kept without a lock: no bound on its size is claimed.

Globus' answer is of the moment of `Introspect`; the entry's five minutes start at
`Stamp`, at most `MaxCall` later. Only active tokens are cached, since the 401 is an
exception. `Enter` hands the request to `SignUp!Lookup`. `Revoke` is whatever ends a
token, its expiry included, because `exp` is not looked at.

### Search

`sql.sql` makes three materialized views of documents, and a trigger on each of
the three tables refreshes its view in the transaction that wrote. What matters
is the order of the locks and of the snapshots.

A transaction that writes is its *plan*, the locks it has still to take, in the
order in which the session flushes and Postgres runs triggers and foreign keys:

1. a new owner of a garden, which the autoflush of a PUT's first lookup writes;
2. the entrypoints' associations of a PUT, written by its second lookup, or
   those of a garden about to be deleted;
3. the row, and the unique values it gives up;
4. the DOIs it takes;
5. the `func_uuid` it takes;
6. the view its trigger refreshes;
7. the other associations, and a share lock on the members they name.

Within a stage the order is left open. `Post`, `UpdateMember`, `PutGarden`,
`PatchGarden` and `Delete` are the plans of the routes' requests, functions' and
apps' among them; `Acquire` grants a lock nobody else holds, `Commit` writes it all,
`Rollback` is an error, a broken constraint, a deadlock's victim or a stop. A row is
locked in the mode of its statement (`share` by who refers to it, `update`, `whole`
by a DELETE or a change of a unique value). A unique value is locked by who inserts
it and by who takes it away, an association by who adds or drops it. A DELETE of an
association that is not there, or not committed, finds nothing and waits for nobody
(`Absent`). A REFRESH has its snapshot when its stage begins, with the row just
written (`Refreshed`), and then waits for ACCESS EXCLUSIVE on the view.

A search locks the views one by one with its first statement and keeps them until
its session is closed: `StartSearch`, `LockView`, `Statement` (five times: three
facets, the total, the page), `EndSearch`. A DELETE and a PATCH of the members alone
fire no trigger: the first leaves a document without a row, which the join of the
answer drops.

A text is a member of `Texts`, of which the query matches `Matching`. A row without
a description has a NULL document (`Null`), because a NULL operand makes the whole
concatenation NULL (`sql.sql:46-50`): such a garden is found only through its
members, and nothing in the code says it should be otherwise. A garden with no
row in `garden_documents` (`None`) is not found at all.

Writers can wait for each other in a circle: two PUTs that swap their DOIs
(`gardens.py:229`), or a DELETE of a garden, which takes the associations first, and
a PATCH, which takes them after the row. Searches close others. `BreakDeadlock` is
Postgres' detector: it aborts one member of a smallest circle, who gets a 500. What
the code's order of locks does keep apart are the *orderly* writers, who take their
row first and at most one value of a kind, and give none up (`OrderlyNeverDeadlock`).

The order of the page is left out: `gardens.py:106` sorts by ascending rank, worst
first, around a function that ranks in descending order (`sql.sql:37`).

### Migrations

A schema is a set of facts (tables, columns, NOT NULL, keys, references) and a
migration a change of it, applied as a whole since all migrations of a command run
in one transaction (`env.py`). `Refused` says when Alembic or Postgres would not
have it: a constraint dropped by the name `None`, something added that is there, a
reference to columns that are no key, a NOT NULL column on rows that have no value
for it. `Populated` are the tables whose rows are followed; a row needs rows in
the tables it must refer to. An `awkward` row is one whose nulls or duplicates
refuse a constraint on an existing column. `Models` is written from `models/`,
independently of `Revisions`. The views of `sql.sql` also depend on columns, but
on none that a migration after the 21st touches, and no downgrade reaches the
earlier ones.

## Runs

| run | question | bounds | states |
|---|---|---|---|
| `gardens_concurrent` | Can overlapping requests break a key, a reference or an authorisation? | 2 garden slots, 1 entrypoint slot, 2 users, 1 DOI, 2 garden keys, 1 entrypoint, 1 function | 1.8 million |
| `entrypoints_concurrent` | The same for entrypoints | 2 entrypoint slots, 2 users, 2 DOIs, 2 `func` values, 2 keys | 0.4 million |
| `catalog_serial` | What do the guards protect when no rival of the same kind runs, and do the routes then act at once? | 1 slot of each kind, 2 users, 2 DOIs, 1 key each, no functions | 1.6 million |
| `modal_apps` | Can overlapping requests break an app, its functions or who may change them? | 2 slots, 2 users, 2 files, 1 DOI, 2 app keys, 3 function keys | 0.8 million |
| `invocations` | How far can the monthly limit be overshot, and is anything charged twice? | 2 slots, 2 users, limit 2, cost up to 2, 2 months, 5 runs | 0.5 million |
| `authentication` | How stale can a token be, and does sign-up behind the cache keep its promise? | 2 slots, 2 identities, 2 tokens (one without the scope, the other may end: `Ending`), TTL 2, calls of up to 1 (`MaxCall`), clock to 3 (`Horizon`) | 892936 |
| `search` | Do writers and searches ever block each other for good, and do the statements of an answer agree? | 2 writers, 1 search, 1 garden, 1 entrypoint, 1 text, no unique values | 275986 |
| `migrations` | What do upgrades, downgrades and failures do to the schema and to rows? | all 24 revisions, 6 tables with rows or without | 13151 |

Two slots of one kind are enough for a race between two requests, the only kind
the handlers could run into: each keeps one row and makes one commit. Two keys
let a row be created while another one with the same DOI is deleted. The bodies
and patches in `MCCatalog` are chosen so that every branch of every handler is
taken, and between them the runs fire every action. The payloads of
`MCModalApps` include an app whose two functions are deleted together, one with a
published function, and two the checks refuse. `RoomForGarden`, `RoomForEntrypoint`
and `RoomFor` bound creations by the keys left; `MaxRuns` and `LastMonth`
bound the calls and the months of `Invocations`. Slots and keys
are symmetric: no step tells one from another (in `ModalApps`, users neither).

In `authentication` the clock goes far enough for an entry to be stored late, to
expire and to be stored again, and two threads are enough for one to evict what the
other has just stored. In `search` one garden and one entrypoint already have two
views, an association between them and writers of the same and of different views.
Unique values are left out of the run, whose liveness is the costly part; the
theorems have any number of them, and of rows and writers. In `migrations` revisions
and schemas are the code's own, without a bound.

What the passing runs show:

* `UniqueKeys`, `ReferentialIntegrity`: lookups and writes of overlapping
  requests never leave two rows under a key, a member or a saved garden that does
  not exist. The handlers' own checks are not enough for either; the mutants
  that drop a database constraint from the commit break them.
* `GardenWritesAuthorised`, `EntrypointWritesAuthorised`: the exact guarantee
  the checks give in the presence of races: every write was allowed *on the row
  its request loaded*.
* `PublishedGardenFrozen`, `PublishedEntrypointKept`: seen from the table instead
  of from the request, the stronger guarantee holds as long as two requests of
  one kind do not overlap.
* `ActsAtomically`: under the same bound the routes implement `AtomicCatalog`, which
  has the four tables and no requests: what is not refused takes effect at once, its
  checks hold of the row it writes and of the members it names, the new row is what
  the payload makes of that row, and no other row changes. Requests on gardens,
  entrypoints and saved lists do overlap there, and only the foreign keys make the
  checks on other tables hold at the commit.
* `MonthOvershootBounded`, `OvershootBounded`: the check is not atomic with the
  record, so the limit is exceeded, by less than the calls a user can have in
  flight at once, and over the turn of a month by less than twice that.
* `FunctionIntegrity`, `AppsDeployed`: a row is written only after its app is on
  Modal, and is deleted only with functions nobody refers to.
* `FunctionWritesAuthorised`: as for gardens, with one difference: ownership comes
  from the app's row *at the commit*, since no route transfers an app.
* `DraftsNotArchived`: here the check on the loaded row is enough, because rivals
  can only publish, never withdraw.
* `NeverOvercharged`: usage may be lost, never charged twice.
* `HiddenIsArchived`: the archive is committed before DataCite hides the DOI, so
  a garden whose DOI left the index is archived, whichever of the two calls fails.
* `KeepsPromise`, `OneInserter`, `InsertsReleased`: an identity is asked into the
  group before it gets its account, only the unique index keeps overlapping inserts
  apart, and an insert others wait for is released. An account whose member Globus
  declined stays without the membership.
* `StalenessBounded`: a request that asked Globus, or found a value with its time,
  has a token that was active at most the cache's time and the delay of one answer
  ago. An answer older than a refusal another thread got meanwhile does not add to
  it; a sliding expiry would. Values that have lost their time are excepted, and
  `TimesKept` says when there are any: only when stores overlap.
* `OrderlyNeverDeadlock`, `WritersEnd`: a circle of waiting writers has one that is
  not orderly. With the detector every writer ends, because searches, which do hold
  writers up, give their locks back.
* `OwnWriteIndexed`: a commit leaves its own document in the view, since the
  trigger runs AFTER the write. Others' documents it may lose.
* `ResultsOnlyShrink`: the statements of a search are not one snapshot, but the
  locks that one leaves to the next keep texts from changing, so a page has no garden
  the total lacks, except one that was just given a member. The first statement is not
  compared with the second: it may miss a garden committed while it waited for the views.
* `SchemaMatchesRevision`: no failure midway leaves a schema between revisions,
  and every downgrade that runs undoes its upgrade.
* `UpgradesAccepted`: from the 21st revision on, no rows can keep a deployment from
  starting; before it, required columns on tables with rows do.
* `UpgradesKeepRows`: no upgrade drops a table the models map that has rows (the third
  revision, which rebuilt `users`, excepted). The rows of tables the models have given
  up are lost: `11833f8cea54` drops four of them.
* `NoWayBack`: revisions 10, 11 and 21 cannot be left by a downgrade.

Four runs expect a violation, each of something the repository says:

* `published_members_race` (`gardens.py:261`): two overlapping PATCHes change
  the entrypoints of a published garden.
* `published_entrypoint_rebuilt` (`entrypoints.py:197`): a PATCH that also sets
  `doi_is_draft` changes a published entrypoint's frozen attributes, because the
  payload is assigned before the flag is read.
* `migrated_schema`: the migrated schema is not the models'.
  `users_saved_gardens` has `garden_id` alone as its key, so only one user can save
  a garden; `gardens_entrypoints` has lost its key; `hardware_spec` and
  `function_call_id` may be null. The tests create their tables from the models.
* `lost_document`: of two overlapping writes of one kind, the one that refreshes
  last had its snapshot before the other's commit, and that row's text is missing
  from the view until something writes again.

Five more disagreements were met on the way and are recorded here, not run: a user
may have an account and not be in the group, against the docstring of
`add_user_to_group` (`globus_groups.py:13`), because the answer is discarded; a row
whose DOI is findable can be deleted, because nothing ties `doi_is_draft` to
DataCite (`_utils.py:22`); POST and PUT accept the archived draft that PATCH
refuses (`gardens.py:277`); the race of `published_members_race` exists for
functions too (`modal_functions.py:74`); and the functions' metadata is compared
with the file only after the deployment, by a `KeyError` (`modal_apps.py:38`).

### Fairness

The catalogue, `ModalApps`, `Invocations` and `Migrations` are checked for safety
only: an unbounded wait for Modal, a client that never calls again or a restart is
always allowed.

`SignUp` and `Authentication` assume `WF(Advance(r))`: the event loop runs every
request that can go on, Globus and Postgres answer. `Flush` is enabled only when no
rival holds the insert, so weak fairness does not promise any one waiting request
its turn, which Postgres does not promise either; `InsertsReleased` only says that
an insert is given back.

`Search` assumes strong fairness of a writer's and of a search's own next step:
Postgres queues whoever waits for a lock ahead of those who come later, so one
whose lock is free again and again gets it. `BreakDeadlock` is weakly fair, after
`deadlock_timeout`. Nothing makes clients send requests, and an aborted request
need not come again.

## Proofs

The theorems hold for every value of the constants that satisfies the
assumptions (`NoRowAssumption`, the payload assumptions, `ModalAppsAssumption`,
`InvocationsAssumption`, `AuthAssumption`, `SearchAssumption`; `Migrations` has
none); no bound of the runs is used. Every invariant and every action property of the
passing runs is stated by one, and both refinements are.

### The catalogue

* `Catalog_proof!TypesKept`, `KeysUnique`, `ReferencesSound`: `TypeOK`,
  `UniqueKeys` and `ReferentialIntegrity` are invariants. The inductive invariant
  has the tables' and the slots' types,
  the garden tables' integrity, the unique keys of entrypoints, and what a slot
  remembers: a request past its check holds a row that passed it (`Checked`,
  `EChecked`). Without the last part the authorisation theorems do not follow,
  because a commit no longer looks at the guards. `Gardens_proof` and
  `Entrypoints_proof` show that each action of one module preserves its own part
  and what it does to the other's.
* `Catalog_proof!GardensAuthorised`, `EntrypointsAuthorised`: the two action
  properties, from the same invariant. They need no hypothesis about overlaps.

What the guards give *of the table* does need one, because it is false when two
requests handle one row. The hypothesis is `GardensApart` (`EntrypointsApart`): no two
requests in flight handle the same garden (entrypoint). It is weaker than the bound of
`catalog_serial`, which has one slot of a kind: requests on other rows may overlap in
any number. Under it the row a request loaded is the row its commit
finds (`Current`, `ECurrent`), which is what a step of another request could break and
the induction shows it does not.

* `FrozenTheorem`, `KeptTheorem`: `PublishedGardenFrozen` and
  `PublishedEntrypointKept`.
* `MembersTheorem`, `RebuiltTheorem`: the two properties that
  `published_members_race` and `published_entrypoint_rebuilt` refute. So the theorems
  say what these violations depend on: the first on two requests for one garden and
  on nothing else; the second, when requests keep apart, on the one payload that
  withdraws an entrypoint and rebuilds it at once (`NoneWithdrawsAndRebuilds`).
* `HiddenTheorem`: `HiddenIsArchived`, when the DOI routes only publish and no
  entrypoint is archived (`OnlyGardensHide`, as in the run): an entrypoint's archive
  hides its DOI too, which a garden may share.
* `AtomicTheorem`: `ActsAtomically`. The four tables are mapped to themselves; a step that is not a commit is a stutter. Besides `Current` it needs
  what a waiting request has made of its payload (`Faithful`, `EFaithful`): the object
  about to be flushed is the loaded one with the payload's values given, its members
  are as many as the payload names, and the draft flag is doi.org's where the
  payload has none. That the members still exist is not remembered by the request
  but forced by the foreign keys at the commit.

### Modal apps, invocations

* `ModalApps_proof!TypesKept`, `ModalTablesSound`, `LiveAppsDeployed`,
  `FunctionsAuthorised`, `NoDraftArchived`. The tables may change under a waiting
  request only by `Evolve` (rows are never re-created, apps keep their owner, functions their app and their DOI), and what
  the request relies on, `ReqOK`, is stable under `Evolve`. So each action is
  looked at once, for its own effect. `NoDraftArchived` needs the part of `ReqOK`
  that says a function loaded as published is still published.
* `Invocations_proof!TypesKept`, `MonthTheorem`, `OvershootTheorem`: types and the
  two bounds on the limit. The bounds are not
  inductive by themselves: a month that is over needs to carry the exposure of
  the requests that began in it (`PastBounded`), and months to come must be empty
  (`NothingAhead`). The bound of the current month becomes the bound of the past
  one when the month turns.
* `Invocations_proof!ChargeTheorem`: `NeverOvercharged`, for any finite sets of slots
  and months. The property adds up months and requests with a fold; its sums are
  shown to be *the* function that adds one element at a time, and to change by what
  one element changes (`SubsetInduction` stands for the induction: a smallest
  subset that fails, by the well-foundedness of strict inclusion). With its types the
  property is inductive as it stands, because it counts what is about to be recorded.

### Sign-up and tokens

* `Authentication_proof!Implements`: `SignUp`'s `Spec => KeepsPromise`, a step of
  `SignUp` is a step of `Accounts` or leaves `stage` alone.
* `Authentication_proof!StalenessTheorem`: a time ends no later than a TTL and
  `MaxCall` after its token did, because the answer it was made of was active when
  given and is at most `MaxCall` old, and the clock does not turn during a store
  (`AuthInv`). Evictions only take away. `AuthTypesKept` is from the same invariant.
* `Authentication_proof!TimesTheorem`: `TimesKept`. While stores keep apart, whoever
  is evicting has its victim's time to itself, so a value without a time belongs to
  the one thread about to give it one (`TimesInv`).
* `Authentication_proof!InserterTheorem`, `AuthImplements`: every step of
  `Authentication` is a step of `SignUp` or leaves it alone (`AuthIsSignUp`), so its
  invariant and the refinement carry over.

### Search

* `Search_proof!OrderlyTheorem`: by the stages. Who waits for an orderly writer
  waits for a lock of the stage that one is at or of an earlier one (`WaitsBehind`).
  A circle of them is emptied from the far end: the writers of members who are past
  their row, from the last stage back, then the gardens', who wait only for those or
  for one another, then the rest (`NoCircle`), for sets of writers of any size,
  finite or not. The invariant behind it says what a plan may still have and what it
  has taken (`TxInv`, `LockInv`).
* `Search_proof!OwnWriteTheorem`, `TypesKept`, `ResultsTheorem`. `TypesKept`
  needs that a writer has or will have locked every row its associations name
  (`LinksOK`), so that nobody deletes one under it.
  The last needs that a writer and a search never hold a view together (`Exclusion`), so
  that no document changes under a search (`NoTextUnder`), and that a search has found
  all it could (`FoundAll`).

### Migrations

`Migrations_proof!Types`, `SchemaTheorem`, `AcceptedTheorem`, `RowsTheorem` and
`NoWayBackTheorem`, for any set `Populated` of tables, where the run has six. The inductive
invariant `MigrationsInv` says of the database *and* of what the running command sees
that the schema is the one of its revision (`IsDatabase`), and that the command is
on its way up with the rows it must keep (`Rising`) or one step down (`Falling`).

The work is in the 24 migrations. `SchemaAt` is a recursive function, of which only one
step at a time is used (`SchemaStep`); whether a fact is in the schema of a revision
is read off the migrations that add and drop it (`Origin`, `Stays`). From that follow
one lemma per migration that its downgrade undoes it (`DowngradesUndo`), that the
tables and keys referred to exist (`ForeignKeysRefer`), that the upgrades from the
21st revision on add nothing rows could refuse (`LateUpgradesAccepted`), and that no
later upgrade drops a table of the models (`ModelTablesStay`).

One proof failed for a good reason, and the model was wrong: a downgrade to
the base over an empty database has the command record that stood for no command
at all, so it was never committed. `NoCommand` now has a goal no command has.

### Only model-checked

`InsertsReleased` and `WritersEnd`, which are liveness: fairness is about what is
enabled, of which the prover knows nothing. `HeadIsModels` and `CommittedIsIndexed` are
refuted by their runs. TLC also evaluates the assumptions on the constants the
theorems rest on.


## Not modelled, and the plan

What would come next: a specification of what archiving should promise (hiding can
fail after the commit, the retry is refused because the garden is archived, and
un-archiving never shows the DOI again), which the code does not say; and an
abstract specification of `ModalApps` in the manner of `AtomicCatalog`.

Left out, with the reason:

* request and response formats (`api/schemas/`, DataCite's and Globus Search's
  among them, a fifth of the code's lines): validation of shapes, no state;
* logging, timing middleware and settings: no state the properties are about;
* notebook upload, ECR tokens and MDF search: one external call, no state;
* the user profile: independent column writes without guards;
* the usage estimate: floating point over price tables; `Invocations` takes any
  cost up to a bound;
* search filters, sorting and ranks: a `WHERE` or `ORDER BY` per request, which
  touches none of the orders of locks and snapshots;
* the connection pools (`database.py:35`): one engine per request, given back by
  the garbage collector.

Errors that change only an answer's status are not modelled: `_utils.py:173` builds its exception with an
argument that does not exist. `entrypoints.py:260` logs without an event, so that a
duplicate entrypoint is answered by a 500 instead of a 400.
