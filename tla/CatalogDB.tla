---------------------------- MODULE CatalogDB ----------------------------
(***************************************************************************)
(* The Postgres tables the catalogue routes share, DataCite, and the       *)
(* guards of api/routes/_utils.py.                                         *)
(***************************************************************************)
EXTENDS Sessions, Integers, FiniteSets

CONSTANTS
    User,            \* identities with a row in users
    Doi,             \* DOIs minted under the service's DataCite prefix
    Func,            \* the attributes frozen on a published entrypoint, as one value
    GardenId, EntrypointId, ModalFnId       \* primary keys

GardenRow ==
    [owner : User, doi : Doi, doi_is_draft : BOOLEAN, is_archived : BOOLEAN,
     entrypoints : SUBSET EntrypointId, modal_functions : SUBSET ModalFnId]

EntrypointRow ==
    [owner : User, doi : Doi, doi_is_draft : BOOLEAN, is_archived : BOOLEAN,
     func : Func]

ASSUME NoRowAssumption ==
    /\ NULL \notin GardenRow \cup EntrypointRow
    /\ GONE \notin GardenRow \cup EntrypointRow
    /\ NULL \notin User \cup Doi \cup GardenId \cup EntrypointId \cup BOOLEAN

VARIABLES
    gardens,         \* table gardens with its two association tables
    entrypoints,     \* table entrypoints
    modal_functions, \* keys of the rows of table modal_functions
    saved,           \* table users_saved_gardens
    datacite         \* what DataCite says of a DOI

tables == <<gardens, entrypoints, modal_functions, saved>>

\* Base.get(db, doi=...): the keys the query returns, one at most as doi is UNIQUE.
ByDoi(table, d) == {k \in Live(table) : table[k].doi = d}

DoiState == {"unminted", "draft", "findable", "registered"}

\* is_doi_registered: doi.org redirects for a DOI that is findable or hidden.
Resolves(d) == datacite[d] \in {"findable", "registered"}

TablesTypeOK ==
    /\ gardens \in [GardenId -> GardenRow \cup {NULL, GONE}]
    /\ entrypoints \in [EntrypointId -> EntrypointRow \cup {NULL, GONE}]
    /\ modal_functions \subseteq ModalFnId
    /\ saved \subseteq User \X GardenId
    /\ datacite \in [Doi -> DoiState]

TablesInit ==
    /\ gardens = [g \in GardenId |-> NULL]
    /\ entrypoints = [e \in EntrypointId |-> NULL]
    /\ modal_functions = ModalFnId
    /\ saved = {}
    /\ datacite = [d \in Doi |-> "unminted"]

-----------------------------------------------------------------------------
\* Mutants: a check of DeletableBy and one of EditableBy forgotten.
OwnedBy(row, user) == row.owner = user
IsDraft(row, user) == row.doi_is_draft
NotArchived(row, is_archived, user) == row.is_archived => is_archived = FALSE

\* Guards of api/routes/_utils.py, on the row a request loaded.
DeletableBy(row, user) == row.owner = user /\ row.doi_is_draft

EditableBy(row, is_archived, user) ==
    /\ row.owner = user
    /\ row.is_archived => is_archived = FALSE

ArchivedDraft(obj) == obj.is_archived /\ obj.doi_is_draft

\* archive_on_datacite succeeding: event "hide" takes a findable DOI out of the
\* index and leaves any other DOI as it is.
HideOnDatacite(d) ==
    datacite' = [datacite EXCEPT ![d] = IF @ = "findable" THEN "registered" ELSE @]
=============================================================================
